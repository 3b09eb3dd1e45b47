CONSTANTS
  Peers = {"p1"}
  Levels = {"untrusted", "verified"}
  MaxMail = 2
  Decisions = {d1}
  Scopes = {}
  Directives = {m1}
  Offer <- TwoButtons
  Begins <- BeginAlike
  Webhooks = {w1}
  Polls = {p1, p2}
  MaxTaps = 2
  MaxCrashes = 1
SPECIFICATION EitherSpec
INVARIANTS OneShot RepliesCount
PROPERTIES RepliesLand PeersAsTheyAre

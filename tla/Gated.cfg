SPECIFICATION EitherSpec
CONSTANTS
  s1 = s1
  s2 = s2
  c1 = c1
  c2 = c2
  c3 = c3
  c4 = c4
  c5 = c5
  merge = merge
  purge = purge
  None = None
  Scope = {s1, s2}
  Act = {merge, purge}
  Actor = {}
  Use = {}
  Call = {c1, c2, c3, c4, c5}
  NoGo = {purge}
  NewCaps = {1}
  Proposals <- AnyTerms
  request <- Wanted
SYMMETRY Merges
INVARIANTS LedgerComplete Authorised
PROPERTIES ScopesObeyed PromiseKept

---------------------------- MODULE SessionStream ----------------------------
(***************************************************************************)
(* One resumable stream of an MCP session: the bounded event store         *)
(* (src/observability/bounded-event-store.ts) and the library's transport  *)
(* around it, which stores a message before it sends it, and which on a    *)
(* reconnect with Last-Event-ID replays what the store still has and then  *)
(* sends live again.  The store forgets by count and by age, on insert     *)
(* only; a replay walks the very buffer that inserts prune, and awaits     *)
(* every message it sends.                                                 *)
(*                                                                         *)
(* Messages are numbered in the order they are stored.                     *)
(***************************************************************************)
EXTENDS Naturals, Sequences, SequencesExt

CONSTANTS
  MaxEventsPerStream,
  MaxMessages          \* bound: messages stored

VARIABLES
  made,      \* the newest message
  aged,      \* messages up to this one are older than maxAgeMs
  buf,       \* the stream's buffer
  stream,    \* "live", "replaying" or "lost"
  next,      \* where the replay stands in the buffer
  wire,      \* messages sent and not yet taken by the client
  taken,     \* the messages the client took
  cursor,    \* the last of them: its Last-Event-ID
  skipped    \* history: the messages the last resumes passed over

vars == <<made, aged, buf, stream, next, wire, taken, cursor, skipped>>

Init ==
  /\ made = 0 /\ aged = 0 /\ buf = <<>>
  /\ stream = "live" /\ next = 1
  /\ wire = <<>> /\ taken = {} /\ cursor = 0
  /\ skipped = {}

\* prune: the front goes while it is too old, then while there are too many.
MayKeep(b, k) == (k < Len(b) => b[k + 1] > aged) /\ Len(b) - k <= MaxEventsPerStream
Evicted(b) ==
  CHOOSE k \in 0 .. Len(b) : MayKeep(b, k) /\ \A j \in 0 .. k - 1 : ~MayKeep(b, j)
Prune(b) == SubSeq(b, Evicted(b) + 1, Len(b))

\* What a walk standing at `next` passes over when a message is appended and the
\* first k go: the rest moves to the front under it, and it goes on where it stood,
\* which is beyond the new message when enough have gone before.
PassedOver(b, k) ==
  {b[i] : i \in {j \in DOMAIN b : j < next + k /\ (next <= j \/ j = Len(b))}}

StoreEvent ==
  /\ made < MaxMessages
  /\ made' = made + 1
  /\ LET b == Append(buf, made')
     IN /\ buf' = Prune(b)
        /\ skipped' = IF stream = "replaying" THEN skipped \cup PassedOver(b, Evicted(b))
                      ELSE skipped
  /\ wire' = IF stream = "live" THEN Append(wire, made') ELSE wire
  /\ UNCHANGED <<aged, stream, next, taken, cursor>>

TimePasses ==
  /\ aged < made
  /\ aged' = aged + 1
  /\ UNCHANGED <<made, buf, stream, next, wire, taken, cursor, skipped>>

ClientTakes ==
  /\ wire # <<>>
  /\ taken' = taken \cup {Head(wire)}
  /\ cursor' = Head(wire)
  /\ wire' = Tail(wire)
  /\ UNCHANGED <<made, aged, buf, stream, next, skipped>>

\* The connection breaks, with what is on it.
Breaks ==
  /\ stream # "lost"
  /\ stream' = "lost"
  /\ wire' = <<>>
  /\ UNCHANGED <<made, aged, buf, next, taken, cursor, skipped>>

Index(id) == CHOOSE i \in DOMAIN buf : buf[i] = id

\* A mutation of Start: the walk sends the cursor's message too.
StartAtCursor(id) == IF id \in ToSet(buf) THEN Index(id) ELSE Len(buf) + 1

\* Where the replay starts; past the end when the cursor was evicted, so that not
\* even the later messages the buffer still has are sent.
Start(id) == IF id \in ToSet(buf) THEN Index(id) + 1 ELSE Len(buf) + 1

ReplayEventsAfter ==
  /\ stream = "lost" /\ cursor > 0
  /\ stream' = "replaying"
  /\ next' = Start(cursor)
  /\ skipped' = (skipped \cap 1 .. cursor)
                  \cup (IF cursor \in ToSet(buf) THEN {} ELSE cursor + 1 .. made)
  /\ UNCHANGED <<made, aged, buf, wire, taken, cursor>>

\* The loop's next turn after an awaited send; at the end the stream is live.
ReplayNext ==
  /\ stream = "replaying"
  /\ IF next <= Len(buf)
       THEN /\ wire' = Append(wire, buf[next])
            /\ next' = next + 1
            /\ UNCHANGED stream
       ELSE stream' = "live" /\ UNCHANGED <<wire, next>>
  /\ UNCHANGED <<made, aged, buf, taken, cursor, skipped>>

Next ==
  \/ StoreEvent \/ TimePasses \/ ClientTakes \/ Breaks
  \/ ReplayEventsAfter \/ ReplayNext

Spec == Init /\ [][Next]_vars

-----------------------------------------------------------------------------
Ahead == [i \in 1 .. Len(wire) + 1 |-> IF i = 1 THEN cursor ELSE wire[i - 1]]

\* However often the connection breaks, also in a replay, and whatever is stored
\* meanwhile, the client gets no message twice or out of order, and the buffer
\* keeps its bound.  A message it does not get is one a resume passed over, in one
\* of two ways: the cursor it resumed from was evicted, or an insert pruned the
\* buffer under the replay.  So it misses nothing otherwise, and a live stream owes
\* it nothing else.
StreamResumes ==
  /\ Len(buf) <= MaxEventsPerStream
  /\ \A i \in DOMAIN wire : Ahead[i] < wire[i]
  /\ (1 .. cursor) \ taken \subseteq skipped
  /\ stream = "live" => (cursor + 1 .. made) \ ToSet(wire) \subseteq skipped
=============================================================================

---------------------------- MODULE ContentBlocks ----------------------------
(***************************************************************************)
(* What a client of the Anthropic Messages API may count on while it reads *)
(* one streamed message: message_start comes first, every content block is *)
(* started once, gets its deltas while it is open and is stopped once, the *)
(* end comes when no block is open, and nothing comes after it.  If the    *)
(* model sends its items one after the other, so are the blocks, and their *)
(* indices count from 0.                                                   *)
(***************************************************************************)
EXTENDS Naturals, FiniteSets

CONSTANT Index  \* the indices blocks may have

VARIABLES
  ordered,  \* whether the items come one after the other
  phase,    \* "before", "streaming", "ended" or "failed"
  open,     \* the indices of the blocks that are open
  closed,   \* the indices of the blocks that are complete
  last      \* the event that came last

vars == <<ordered, phase, open, closed, last>>

Init ==
  /\ ordered \in BOOLEAN
  /\ phase = "before" /\ open = {} /\ closed = {} /\ last = <<"none", 0>>

MessageStart ==
  /\ phase = "before" /\ phase' = "streaming"
  /\ last' = <<"message_start", 0>>
  /\ UNCHANGED <<ordered, open, closed>>

BlockStart(i) ==
  /\ last' = <<"start", i>>
  /\ phase = "streaming" /\ i \notin open \cup closed
  /\ ordered => open = {} /\ i = Cardinality(closed)
  /\ open' = open \cup {i}
  /\ UNCHANGED <<ordered, phase, closed>>

BlockDelta(i) ==
  /\ last' = <<"delta", i>>
  /\ phase = "streaming" /\ i \in open
  /\ UNCHANGED <<ordered, phase, open, closed>>

BlockStop(i) ==
  /\ last' = <<"stop", i>>
  /\ phase = "streaming" /\ i \in open
  /\ open' = open \ {i} /\ closed' = closed \cup {i}
  /\ UNCHANGED <<ordered, phase>>

MessageStop ==
  /\ phase = "streaming" /\ open = {} /\ phase' = "ended"
  /\ last' = <<"message_stop", 0>>
  /\ UNCHANGED <<ordered, open, closed>>

Error ==
  /\ phase \in {"before", "streaming"} /\ phase' = "failed"
  /\ last' = <<"error", 0>>
  /\ UNCHANGED <<ordered, open, closed>>

Next ==
  \/ MessageStart \/ MessageStop \/ Error
  \/ \E i \in Index : BlockStart(i) \/ BlockDelta(i) \/ BlockStop(i)

Spec == Init /\ [][Next]_vars
=============================================================================

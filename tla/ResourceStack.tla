---------------------------- MODULE ResourceStack ----------------------------
(***************************************************************************)
(* What a lifecycle manager promises: resources are opened one on top of   *)
(* the other, in order, until the stack is closed; from then on they are   *)
(* only released, the most recent first, until none is left.               *)
(***************************************************************************)
EXTENDS Naturals

CONSTANT MaxEntries

VARIABLES
  running,  \* the resources that are open
  closed    \* nothing will be opened any more

stackVars == <<running, closed>>

Init == running = {} /\ closed = FALSE

(* Resource i is opened on top of all earlier ones; a failure right after  *)
(* it may close the stack at once.                                         *)
Open(i) ==
  /\ ~closed
  /\ running = 1..(i - 1)
  /\ running' = running \cup {i}
  /\ closed' \in BOOLEAN

Close == closed' = TRUE /\ UNCHANGED running

(* Only the resource on top is released.                                   *)
Release(i) ==
  /\ closed
  /\ i \in running
  /\ \A j \in running : j <= i
  /\ running' = running \ {i}
  /\ UNCHANGED closed

Next ==
  \/ \E i \in 1..MaxEntries : Open(i) \/ Release(i)
  \/ Close

Spec == Init /\ [][Next]_stackVars

FairSpec == Spec /\ WF_stackVars(\E i \in 1..MaxEntries : Release(i))

=============================================================================

--------------------------------- MODULE MCWeb ---------------------------------
(* Three interchangeable requests of one browser, for TLC.                 *)
EXTENDS Web, TLC

MCKeys == Requests \cup {Counter}

(* What can still be told apart: the answer of the store is used within    *)
(* the step that gets it, data is not read again once the response is out, *)
(* and of a session that will be deleted only that is used.                *)
ContextLeft(r) ==
  IF ctx[r].isDestroyed THEN [ctx[r] EXCEPT !.data = {}, !.replaced = FALSE, !.renewed = FALSE]
  ELSE IF pc[r] \in {"sent", "done"} THEN [ctx[r] EXCEPT !.data = {}]
  ELSE ctx[r]

WhatMatters ==
  <<now, live, jar, pc, [r \in Requests |-> ContextLeft(r)], cookie, overlaps, limitVars>>

RequestSymmetry == Permutations(Requests)

(* A bound: the store fails once.                                          *)
Failed ==
  {r \in Requests :
     \/ verdict[r] \in {"open", "unavailable"}
     \/ Answered(r, "none") /\ (ctx[r].isNew \/ ctx[r].isDirty \/ ctx[r].expires = 0)}

OneFailure == Cardinality(Failed) <= 1
=============================================================================

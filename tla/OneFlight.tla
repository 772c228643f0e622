----------------------------- MODULE OneFlight -----------------------------
(***************************************************************************)
(* What the guard of a toggle promises, whatever the order of the events   *)
(* and of the tasks: an order is decided only when no other is being       *)
(* decided and no toggle is still without effect, and it is the only one   *)
(* to leave until its effect is known.  A restart forgets everything.      *)
(***************************************************************************)
CONSTANT Order

VARIABLES
  deciding,   \* orders whose guard is running
  flying      \* orders whose toggle left and has had no visible effect yet

Decide(o) ==
  /\ deciding = {} /\ flying = {}
  /\ deciding' = {o}
  /\ UNCHANGED flying

Abandon(o) ==
  /\ deciding = {o}
  /\ deciding' = {}
  /\ UNCHANGED flying

Send(o) ==
  /\ deciding = {o}
  /\ deciding' = {}
  /\ flying' = {o}

Effect(o) ==
  /\ flying = {o}
  /\ flying' = {}
  /\ UNCHANGED deciding

Forget ==
  /\ deciding' = {}
  /\ flying' = {}

Init == deciding = {} /\ flying = {}

Next ==
  \/ \E o \in Order : Decide(o) \/ Abandon(o) \/ Send(o) \/ Effect(o)
  \/ Forget

Spec == Init /\ [][Next]_<<deciding, flying>>
=============================================================================

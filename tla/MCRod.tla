------------------------------- MODULE MCRod --------------------------------
(***************************************************************************)
(* Rod with a history of the statements about it that have failed, for     *)
(* TLC: the driver goes on after each of them.                             *)
(***************************************************************************)
EXTENDS Rod

VARIABLE rodFailed  \* statements that did not hold in some state so far

RodStated == [array |-> RodInsideArray, order |-> RodInOrder]

RodHistoryInit == RodInit /\ rodFailed = {}

RodHistoryNext ==
  /\ RodNext
  /\ rodFailed' = rodFailed \cup {s \in DOMAIN RodStated : ~RodStated'[s]}

RodHistorySpec == RodHistoryInit /\ [][RodHistoryNext]_<<rodVars, rodFailed>>

\* No behaviour breaks both "<= REORD_WINDOW" (rod.h, 62: packets stay inside
\* nbuf) and "Retire packets in order from head" (rod.c, 177), whatever windows
\* the peer asks for.  Each of them implies this, so that a behaviour against it
\* refutes each.
RodStatements == rodFailed # DOMAIN RodStated
=============================================================================

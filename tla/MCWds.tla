------------------------------- MODULE MCWds --------------------------------
(***************************************************************************)
(* Wds with a history of the statements about it that have failed, for     *)
(* TLC: the driver goes on after each of them.                             *)
(***************************************************************************)
EXTENDS Wds

VARIABLE wdsFailed  \* statements that did not hold in some state so far

WdsStated == [duplicate |-> WdsNoDuplicateEntry, alive |-> WdsPeerAlive,
              disconnect |-> WdsDisconnectionGoesOn]

WdsHistoryInit == WdsInit /\ wdsFailed = {}

WdsHistoryNext ==
  /\ WdsNext
  /\ wdsFailed' = wdsFailed \cup {s \in DOMAIN WdsStated : ~WdsStated'[s]}

WdsHistorySpec == WdsHistoryInit /\ [][WdsHistoryNext]_<<wdsVars, wdsFailed>>

\* No behaviour breaks all three of "Assert on duplicated entry" (wds.c, 150),
\* "Protect content of peers list entries" (wds.h, 28) and "terminate further
\* disconnection. Wait for UMI_DISCONNECTED" (wds.c, 784).  Each of them implies
\* this, so that a behaviour against it refutes each.
WdsStatements == wdsFailed # DOMAIN WdsStated
=============================================================================

------------------------------ MODULE MCAddba -------------------------------
(***************************************************************************)
(* Addba with a history of the assertions that have failed, for TLC: where *)
(* they are compiled out, the driver goes on after each of them.           *)
(***************************************************************************)
EXTENDS Addba

VARIABLE baFailed  \* assertions that did not hold in some state so far

BaAsserted == [unref |-> BaUnrefSane, owner |-> BaOwnerKnows, status |-> BaStatusCounted]

BaHistoryInit == AddbaInit /\ baFailed = {}

BaHistoryNext ==
  /\ AddbaNext
  /\ baFailed' = baFailed \cup {a \in DOMAIN BaAsserted : ~BaAsserted'[a]}

BaHistorySpec == BaHistoryInit /\ [][BaHistoryNext]_<<baVars, baFailed>>

\* No behaviour breaks all three assertions "MTLK_ASSERT(cur < reflim->max)"
\* (mtlk_reflim.h, 69), "MTLK_ASSERT(sta->aggr_inited[prior_class] == TRUE)"
\* (stadb.c, 343) and "MTLK_ASSERT(tid_rx->addba_res_attempt != 0)" (addba.c,
\* 1638).  Each of them implies this, so that a behaviour against it refutes each.
BaAssertions == baFailed # DOMAIN BaAsserted
=============================================================================

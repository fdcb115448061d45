----------------------------- MODULE MCDataPath -----------------------------
(***************************************************************************)
(* Instances of the recovery, of the send queue and of a ring of TXMM for  *)
(* TLC, in one model: `part' says which of them runs, the others stay in   *)
(* their initial states.                                                   *)
(***************************************************************************)
EXTENDS FwRecovery, MCSendQueue, TxmmRing

VARIABLE part

DataPathInit == part \in {"recovery", "send_queue", "ring"} /\ RcvryInit /\ SqInit /\ Init

DataPathNext ==
  \/ part = "recovery" /\ RcvryNext /\ UNCHANGED <<part, sqVars, vars>>
  \/ part = "send_queue" /\ SqNext /\ UNCHANGED <<part, rcVars, vars>>
  \/ part = "ring" /\ Next /\ UNCHANGED <<part, rcVars, sqVars>>

\* In its initial states no fair action of a part is enabled, so that its
\* fairness asks nothing while another one runs.
DataPathSpec ==
  /\ DataPathInit /\ [][DataPathNext]_<<part, rcVars, sqVars, vars>>
  /\ RcvryFairness /\ SqFairness

\* States, semaphores, queues, limits and descriptors of the recovery and of the
\* send queue stay in their ranges.
DataPathTypeOK == RcvryTypeOK /\ SqTypeOK
=============================================================================

---------------------------- MODULE MCSendQueue -----------------------------
(***************************************************************************)
(* Constants of SendQueue for TLC: all stations are those of one VAP.      *)
(***************************************************************************)
EXTENDS SendQueue

StaVapMC == [x \in SqSta |-> SqMaster]
LimitsMC == {[g |-> 3, r |-> 70]}
=============================================================================

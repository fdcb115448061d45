----------------------------- MODULE MCBuffers ------------------------------
(***************************************************************************)
(* Instances of TXMM, of the block acknowledgement agreements, of the      *)
(* reordering queue, of the WDS peer manager and of the scan for TLC, in   *)
(* one model: `part' says which of them runs, the others stay in their     *)
(* initial states.                                                         *)
(***************************************************************************)
EXTENDS Txmm, Addba, Rod, Wds, Scan

VARIABLE part

\* TXMM puts its blocks into FREE in the order of its storage; they are alike, so
\* that one order stands for all.
Storage == CHOOSE s \in [1 .. Cardinality(Block) -> Block] : Elems(s) = Block

BuffersInit ==
  /\ part \in {"messages", "agreements", "reordering", "peers", "scanning"}
  /\ Init /\ AddbaInit /\ RodInit /\ WdsInit /\ ScanInit
  /\ base.que["FREE"] = Storage

BuffersNext ==
  \/ part = "messages" /\ Next /\ UNCHANGED <<part, baVars, rodVars, wdsVars, scVars>>
  \/ part = "agreements" /\ AddbaNext /\ UNCHANGED <<part, vars, rodVars, wdsVars, scVars>>
  \/ part = "reordering" /\ RodNext /\ UNCHANGED <<part, vars, baVars, wdsVars, scVars>>
  \/ part = "peers" /\ WdsNext /\ UNCHANGED <<part, vars, baVars, rodVars, scVars>>
  \/ part = "scanning" /\ ScanNext /\ UNCHANGED <<part, vars, baVars, rodVars, wdsVars>>

BuffersSpec ==
  BuffersInit /\ [][BuffersNext]_<<part, vars, baVars, rodVars, wdsVars, scVars>>

\* States and counters of agreements, reordering, peers and scan stay in their
\* ranges, and no packet is stored outside the array of the reordering queue.
BuffersTypeOK == AddbaTypeOK /\ RodTypeOK /\ WdsTypeOK /\ ScanTypeOK
=============================================================================

------------------------------ MODULE TxmmFifo ------------------------------
(***************************************************************************)
(* What a queue of blocks promises to the rest of txmm.c: a sequence of    *)
(* different blocks with an insertion at the end, a removal at the front   *)
(* and two deletions from the middle, one that keeps the order and one     *)
(* that moves the first block into the gap.                                *)
(***************************************************************************)
EXTENDS Lists

CONSTANT Block

VARIABLE q

Init == q = <<>>

Put(b) == b \notin Elems(q) /\ q' = Append(q, b)

Get == q # <<>> /\ q' = Tail(q)

Del(i) == q' \in {DelKeep(q, i), DelSwap(q, i)}

Next == (\E b \in Block : Put(b)) \/ Get \/ (\E i \in DOMAIN q : Del(i))

Spec == Init /\ [][Next]_q
=============================================================================

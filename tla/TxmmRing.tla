------------------------------ MODULE TxmmRing ------------------------------
(***************************************************************************)
(* One ring buffer of txmm.c (mtlk_txmm_que_t): an array of max_msgs block *)
(* pointers with the indices from and to and the counter total.  Every     *)
(* block records in idx where it is in the ring it was put in last.  The   *)
(* other rings of the object appear only in that they take a block that    *)
(* has left this ring, and so change its idx (OtherRing).                  *)
(***************************************************************************)
EXTENDS Naturals, Sequences, FiniteSets

CONSTANTS Block, NULL

ASSUME BlockAssumption == IsFiniteSet(Block) /\ Block # {} /\ NULL \notin Block

N == Cardinality(Block)     \* obj->cfg.max_msgs

VARIABLES ptr, from, to, total, idx

vars == <<ptr, from, to, total, idx>>

IncIdxNoWrap(i) == i + 1               \* mutant
INC_WRAP_IDX(i) == (i + 1) % N

TypeOK ==
  /\ ptr \in [0 .. N - 1 -> Block \cup {NULL}]
  /\ from \in 0 .. N - 1 /\ to \in 0 .. N - 1
  /\ total \in 0 .. N
  /\ idx \in [Block -> 0 .. N - 1]

\* The ring as a sequence, oldest first (the loop of _mtlk_txmm_enum_que).
Contents == [k \in 1 .. total |-> ptr[(from + k - 1) % N]]

InRing(b) == \E k \in 1 .. total : Contents[k] = b

Init ==
  /\ ptr = [i \in 0 .. N - 1 |-> NULL]
  /\ from = 0 /\ to = 0 /\ total = 0
  /\ idx = [b \in Block |-> 0]

GetBuf ==
  /\ total # 0
  /\ from' = INC_WRAP_IDX(from)
  /\ total' = total - 1
  /\ UNCHANGED <<ptr, to, idx>>

PutBuf(b) ==
  /\ ~InRing(b)
  /\ idx' = [idx EXCEPT ![b] = to]
  /\ ptr' = [ptr EXCEPT ![to] = b]
  /\ to' = INC_WRAP_IDX(to)
  /\ total' = total + 1
  /\ UNCHANGED from

ShiftOnce(b) ==                        \* mutant: leaves the loop too early
  LET prev == IF idx[b] = 0 THEN N - 1 ELSE idx[b] - 1
  IN  [ptr |-> [ptr EXCEPT ![idx[b]] = ptr[prev]],
       idx |-> [idx EXCEPT ![ptr[prev]] = idx[b]]]

\* The do-while loop that shifts the blocks in front of position idx[b] one
\* place towards it: the state after n rounds, from position idx[b] down.
Rounds(b) ==
  LET after[n \in 0 .. N] ==
        IF n = 0
          THEN [ptr |-> ptr, idx |-> idx, i |-> idx[b]]
          ELSE LET s    == after[n - 1]
                   prev == IF s.i = 0 THEN N - 1 ELSE s.i - 1
               IN  [ptr |-> [s.ptr EXCEPT ![s.i] = s.ptr[prev]],
                    idx |-> [s.idx EXCEPT ![s.ptr[prev]] = s.i],
                    i   |-> prev]
  IN  after

\* The loop ends when it reaches the first block.
Shift(b) ==
  Rounds(b)[CHOOSE n \in 1 .. N : /\ Rounds(b)[n].i = from
                                  /\ \A k \in 1 .. n - 1 : Rounds(b)[k].i # from]

SwapKeepsIdx(b) ==                     \* mutant: forgets the index of the moved block
  [ptr |-> [ptr EXCEPT ![idx[b]] = ptr[from]], idx |-> idx]

\* Move the first block to position idx[b].
Swap(b) ==
  [ptr |-> [ptr EXCEPT ![idx[b]] = ptr[from]],
   idx |-> [idx EXCEPT ![ptr[from]] = idx[b]]]

DelBufFromQue(b, preserve_order) ==
  /\ InRing(b)
  /\ ptr[idx[b]] = b
  /\ IF idx[b] = from
       THEN UNCHANGED <<ptr, idx>>
       ELSE LET s == IF preserve_order THEN Shift(b) ELSE Swap(b)
            IN  ptr' = s.ptr /\ idx' = s.idx
  /\ from' = INC_WRAP_IDX(from)
  /\ total' = total - 1
  /\ UNCHANGED to

\* A block outside this ring is put into another one.
OtherRing(b) ==
  /\ ~InRing(b)
  /\ \E i \in 0 .. N - 1 : idx' = [idx EXCEPT ![b] = i]
  /\ UNCHANGED <<ptr, from, to, total>>

Next ==
  \/ GetBuf
  \/ \E b \in Block : PutBuf(b)
  \/ \E b \in Block : DelBufFromQue(b, TRUE)
  \/ \E b \in Block : DelBufFromQue(b, FALSE)
  \/ \E b \in Block : OtherRing(b)

Spec == Init /\ [][Next]_vars

-----------------------------------------------------------------------------
\* The blocks the loop "i = from; while (i != to)" of the timer visits.
TimerScan ==
  LET walk[n \in 0 .. N] == (from + n) % N
  IN  [k \in 1 .. (CHOOSE n \in 0 .. N - 1 : walk[n] = to) |-> ptr[walk[k - 1]]]

\* The blocks the loop "do ... while (i != to)" of on_cfm can visit.
CfmScan ==
  LET walk[n \in 0 .. N] == (from + n) % N
  IN  [k \in 1 .. (CHOOSE n \in 1 .. N : walk[n] = to) |-> ptr[walk[k - 1]]]

\* idx of a block in the ring leads back to the block, through wrap-around,
\* both deletions and the moves of other blocks: otherwise the deletion
\* "of invalid block" would fail and the block stay queued for ever.  And the
\* loops see what is queued: that of the timer visits every block, except
\* that it visits none when the ring is full, that of on_cfm visits them all,
\* full or not.
RingCoherent ==
  /\ \A k \in 1 .. total : idx[Contents[k]] = (from + k - 1) % N
  /\ TimerScan = IF total = N THEN <<>> ELSE Contents
  /\ total # 0 => CfmScan = Contents

\* The ring implements the queue of TxmmFifo: no call loses, duplicates or
\* reorders a block beyond what its deletion mode allows.
Fifo == INSTANCE TxmmFifo WITH q <- Contents
FifoSpec == Fifo!Spec
=============================================================================

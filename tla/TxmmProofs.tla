----------------------------- MODULE TxmmProofs -----------------------------
(***************************************************************************)
(* Safety of the management-message layer on one CPU, for every number of  *)
(* blocks, descriptors and messages: its queues and states; then its       *)
(* descriptors, the order of its sends, the results of its blocked sends   *)
(* and the references that its cleanup waits for, each with an invariant   *)
(* of its own that rests on IInv.                                          *)
(***************************************************************************)
EXTENDS Txmm, ListsProofs, FiniteSetTheorems

-----------------------------------------------------------------------------
(***************************************************************************)
(* The helpers of txmm.c on queues and blocks.                             *)
(***************************************************************************)

\* Each block is once in the queue that its field que names.
Coherent(r) ==
  /\ \A q \in Ring : Distinct(r.que[q])
  /\ \A b \in Block, q \in Ring : b \in Elems(r.que[q]) <=> r.blk[b].que = q

\* The parts of a ring state are well typed.
LEMMA RingParts ==
  ASSUME NEW r \in RingState
  PROVE  /\ r.que \in [Ring -> Seq(Block)]
         /\ r.blk \in [Block -> BlockState]
         /\ \A b \in Block : /\ r.blk[b].que \in Ring \cup {"NONE"}
                             /\ r.blk[b].msg \in Msg \cup {NULL}
                             /\ r.blk[b].slot \in Slot \cup {NULL}
  BY DEF RingState, BlockState

\* A block, in no queue or in the one its field names, is in no other queue.
LEMMA NotElsewhere == "NONE" \notin Ring /\ {"FREE", "QUEUED", "SENT", "TIMED_OUT"} = Ring
  BY DEF Ring

\* Fields other than que do not matter for the queues.
LEMMA SetBlockEffect ==
  ASSUME NEW r \in RingState, Coherent(r), NEW b \in Block, NEW v \in BlockState,
         v.que = r.blk[b].que
  PROVE  /\ SetBlock(r, b, v) \in RingState /\ Coherent(SetBlock(r, b, v))
         /\ SetBlock(r, b, v).blk = [r.blk EXCEPT ![b] = v]
         /\ SetBlock(r, b, v).que = r.que
<1> DEFINE r2 == SetBlock(r, b, v)
<1>1. r2.que = r.que /\ r2.blk = [r.blk EXCEPT ![b] = v]
  BY DEF SetBlock
<1>2. r2 \in RingState
  BY RingParts DEF SetBlock, RingState
<1>3. r2.blk[b] = v /\ \A c \in Block \ {b} : r2.blk[c] = r.blk[c]
  BY <1>1, RingParts
<1> HIDE DEF r2
<1>4. Coherent(r2)
  BY <1>1, <1>3 DEF Coherent
<1> QED BY <1>1, <1>2, <1>4 DEF r2

\* Appending a block that is in no queue to queue q; its fields become v.
LEMMA EnterQueue ==
  ASSUME NEW r \in RingState, Coherent(r), NEW q \in Ring, NEW b \in Block, NEW v \in BlockState,
         r.blk[b].que = "NONE", v.que = q,
         NEW r2, r2 = [que |-> [r.que EXCEPT ![q] = Append(@, b)],
                       blk |-> [r.blk EXCEPT ![b] = v]]
  PROVE  r2 \in RingState /\ Coherent(r2)
<1> DEFINE que2 == [r.que EXCEPT ![q] = Append(@, b)]
           blk2 == [r.blk EXCEPT ![b] = v]
<1>2. r2.que = que2 /\ r2.blk = blk2
  OBVIOUS
<1>3. que2 \in [Ring -> Seq(Block)]
  BY RingParts
<1>4. blk2 \in [Block -> BlockState]
  BY RingParts
<1>5. r2 \in RingState
  BY <1>3, <1>4 DEF RingState
<1>7. b \notin Elems(r.que[q]) /\ Distinct(r.que[q]) /\ r.que[q] \in Seq(Block)
  BY NotElsewhere, RingParts DEF Coherent
<1>8. Elems(que2[q]) = Elems(r.que[q]) \cup {b} /\ Distinct(que2[q])
  BY <1>7, AppendElems, RingParts
<1>9. /\ blk2[b].que = q
      /\ \A c \in Block \ {b} : blk2[c] = r.blk[c]
      /\ \A p \in Ring \ {q} : que2[p] = r.que[p]
  BY RingParts
<1> HIDE DEF que2, blk2
<1>10. Coherent(r2)
  <2>1. \A p \in Ring : Distinct(que2[p])
    BY <1>8, <1>9 DEF Coherent
  <2>2. ASSUME NEW c \in Block, NEW p \in Ring PROVE c \in Elems(que2[p]) <=> blk2[c].que = p
    <3>1. c \in Elems(r.que[p]) <=> r.blk[c].que = p
      BY DEF Coherent
    <3>2. CASE p = q
      BY <1>8, <1>9, <3>1, <3>2, NotElsewhere
    <3>3. CASE p # q
      BY <1>9, <3>1, <3>3, NotElsewhere
    <3> QED BY <3>2, <3>3
  <2> QED BY <1>2, <2>1, <2>2 DEF Coherent
<1> QED BY <1>5, <1>10

\* Replacing queue q by t, which lacks just b; the fields of b become v.
LEMMA LeaveQueue ==
  ASSUME NEW r \in RingState, Coherent(r), NEW q \in Ring, NEW b \in Block, NEW v \in BlockState,
         r.blk[b].que = q, v.que = "NONE",
         NEW t \in Seq(Block), Distinct(t), Elems(t) = Elems(r.que[q]) \ {b},
         NEW r2, r2 = [que |-> [r.que EXCEPT ![q] = t], blk |-> [r.blk EXCEPT ![b] = v]]
  PROVE  r2 \in RingState /\ Coherent(r2)
<1> DEFINE que2 == [r.que EXCEPT ![q] = t]
           blk2 == [r.blk EXCEPT ![b] = v]
<1>2. r2.que = que2 /\ r2.blk = blk2
  OBVIOUS
<1>3. que2 \in [Ring -> Seq(Block)] /\ blk2 \in [Block -> BlockState]
  BY RingParts
<1>4. r2 \in RingState
  BY <1>3 DEF RingState
<1>5. /\ blk2[b].que = "NONE" /\ que2[q] = t
      /\ \A c \in Block \ {b} : blk2[c] = r.blk[c]
      /\ \A p \in Ring \ {q} : que2[p] = r.que[p]
  BY RingParts
<1> HIDE DEF que2, blk2
<1>6. Coherent(r2)
  <2>1. \A p \in Ring : Distinct(que2[p])
    BY <1>5 DEF Coherent
  <2>2. ASSUME NEW c \in Block, NEW p \in Ring PROVE c \in Elems(que2[p]) <=> blk2[c].que = p
    <3>1. c \in Elems(r.que[p]) <=> r.blk[c].que = p
      BY DEF Coherent
    <3>2. CASE p = q
      BY <1>5, <3>1, <3>2, NotElsewhere
    <3>3. CASE p # q
      BY <1>5, <3>1, <3>3, NotElsewhere
    <3> QED BY <3>2, <3>3
  <2> QED BY <1>2, <2>1, <2>2 DEF Coherent
<1> QED BY <1>4, <1>6

\* _mtlk_txmm_put_buf of a block that is in no queue.
LEMMA PutBufEffect ==
  ASSUME NEW r \in RingState, Coherent(r), NEW q \in Ring, NEW b \in Block,
         r.blk[b].que = "NONE"
  PROVE  /\ PutBuf(r, q, b) \in RingState /\ Coherent(PutBuf(r, q, b))
         /\ PutBuf(r, q, b).blk = [r.blk EXCEPT ![b] = [r.blk[b] EXCEPT !.que = q]]
<1> DEFINE v == [r.blk[b] EXCEPT !.que = q]
<1>1. v \in BlockState /\ v.que = q
  BY RingParts DEF BlockState
<1>2. PutBuf(r, q, b) = [que |-> [r.que EXCEPT ![q] = Append(@, b)],
                         blk |-> [r.blk EXCEPT ![b] = v]]
  BY DEF PutBuf
<1> HIDE DEF v
<1>3. PutBuf(r, q, b) \in RingState /\ Coherent(PutBuf(r, q, b))
  BY <1>1, <1>2, EnterQueue
<1> QED BY <1>2, <1>3 DEF v

\* _mtlk_txmm_del_buf_from_que of a block that is in the queue.
LEMMA DelBufEffect ==
  ASSUME NEW r \in RingState, Coherent(r), NEW q \in Ring, NEW b \in Block,
         r.blk[b].que = q, NEW o \in BOOLEAN, NEW r2, r2 = DelBufFromQue(r, q, b, o)
  PROVE  /\ r2 \in RingState /\ Coherent(r2)
         /\ r2.blk = [r.blk EXCEPT ![b] = [r.blk[b] EXCEPT !.que = "NONE"]]
         /\ \A p \in Ring \ {q} : r2.que[p] = r.que[p]
         /\ Elems(r2.que[q]) = Elems(r.que[q]) \ {b}
<1> DEFINE s == r.que[q]
           i == Position(s, b)
           t == IF o THEN DelKeep(s, i) ELSE DelSwap(s, i)
           v == [r.blk[b] EXCEPT !.que = "NONE"]
<1>1. s \in Seq(Block) /\ Distinct(s) /\ b \in Elems(s)
  BY RingParts DEF Coherent
<1>2. i \in DOMAIN s /\ s[i] = b
  BY <1>1, PositionFinds
<1>3. t \in Seq(Block) /\ Distinct(t) /\ Elems(t) = Elems(s) \ {b}
  BY <1>1, <1>2, DelKeepElems, DelSwapElems
<1>4. v \in BlockState /\ v.que = "NONE"
  BY RingParts DEF BlockState
<1>5. r2 = [que |-> [r.que EXCEPT ![q] = t], blk |-> [r.blk EXCEPT ![b] = v]]
  BY <1>1 DEF DelBufFromQue
<1> HIDE DEF t, v, i
<1>6. r2 \in RingState /\ Coherent(r2)
  BY <1>3, <1>4, <1>5, LeaveQueue
<1>7. /\ r2.blk = [r.blk EXCEPT ![b] = v]
      /\ \A p \in Ring \ {q} : r2.que[p] = r.que[p]
      /\ r2.que[q] = t
  BY <1>5, RingParts
<1> QED BY <1>3, <1>6, <1>7 DEF v, t, i

\* _mtlk_txmm_free_buf of a block that is in no queue.
LEMMA FreeBufEffect ==
  ASSUME NEW r \in RingState, Coherent(r), NEW b \in Block, r.blk[b].que = "NONE"
  PROVE  LET r2 == FreeBuf(r, b)
         IN  /\ r2 \in RingState /\ Coherent(r2)
             /\ r2.blk = [r.blk EXCEPT ![b] = ZeroBlock]
             /\ \A p \in Ring \ {"FREE"} : r2.que[p] = r.que[p]
<1> DEFINE r2 == FreeBuf(r, b)
<1>1. r2 = [que |-> [r.que EXCEPT !["FREE"] = Append(@, b)],
            blk |-> [[r.blk EXCEPT ![b] = ZeroBlock] EXCEPT ![b].que = "FREE"]]
  BY DEF FreeBuf, PutBuf, SetBlock
<1>2. [[r.blk EXCEPT ![b] = ZeroBlock] EXCEPT ![b].que = "FREE"] = [r.blk EXCEPT ![b] = ZeroBlock]
  BY RingParts DEF ZeroBlock
<1>3. r2 = [que |-> [r.que EXCEPT !["FREE"] = Append(@, b)], blk |-> [r.blk EXCEPT ![b] = ZeroBlock]]
  BY <1>1, <1>2
<1>4. ZeroBlock \in BlockState /\ ZeroBlock.que = "FREE" /\ "FREE" \in Ring
  BY DEF ZeroBlock, BlockState, Ring
<1> HIDE DEF r2
<1>5. r2 \in RingState /\ Coherent(r2)
  BY <1>3, <1>4, EnterQueue
<1>6. /\ r2.blk = [r.blk EXCEPT ![b] = ZeroBlock]
      /\ \A p \in Ring \ {"FREE"} : r2.que[p] = r.que[p]
  BY <1>3, RingParts
<1> QED BY <1>5, <1>6 DEF r2

\* What a helper does to the blocks: r2 is a ring state again, coherent, and
\* differs from r in no block but b, whose message is m.
Touches(r, r2, b, m) ==
  /\ r2 \in RingState /\ Coherent(r2)
  /\ \A c \in Block \ {b} : r2.blk[c] = r.blk[c]
  /\ r2.blk[b].msg = m

\* _mtlk_txmm_del_buf_from_que again, as a change of one block.
LEMMA DelBufTouches ==
  ASSUME NEW r \in RingState, Coherent(r), NEW q \in Ring, NEW b \in Block,
         r.blk[b].que = q, NEW o \in BOOLEAN
  PROVE  /\ Touches(r, DelBufFromQue(r, q, b, o), b, r.blk[b].msg)
         /\ DelBufFromQue(r, q, b, o).blk[b].que = "NONE"
         /\ Elems(DelBufFromQue(r, q, b, o).que[q]) = Elems(r.que[q]) \ {b}
<1>0. PICK r2 : r2 = DelBufFromQue(r, q, b, o)
  OBVIOUS
<1>1. /\ r2 \in RingState /\ Coherent(r2)
      /\ r2.blk = [r.blk EXCEPT ![b] = [r.blk[b] EXCEPT !.que = "NONE"]]
  BY <1>0, DelBufEffect
<1>2. /\ r2.blk[b].que = "NONE" /\ r2.blk[b].msg = r.blk[b].msg
      /\ \A c \in Block \ {b} : r2.blk[c] = r.blk[c]
  BY <1>1, RingParts DEF BlockState
<1>3. Touches(r, r2, b, r.blk[b].msg)
  BY <1>1, <1>2 DEF Touches
<1>4. Elems(r2.que[q]) = Elems(r.que[q]) \ {b}
  <2>1. Elems(r2.que[q]) \subseteq Block /\ Elems(r.que[q]) \subseteq Block
    <3>1. \A s \in Seq(Block) : Elems(s) \subseteq Block
      BY DEF Elems
    <3> QED BY <1>1, <3>1, RingParts
  <2>2. /\ \A c \in Block : c \in Elems(r2.que[q]) <=> r2.blk[c].que = q
        /\ \A c \in Block : c \in Elems(r.que[q]) <=> r.blk[c].que = q
    BY <1>1 DEF Coherent
  <2>3. q # "NONE"
    BY NotElsewhere
  <2>4. \A c \in Block : c \in Elems(r2.que[q]) <=> c \in Elems(r.que[q]) /\ c # b
    BY <1>2, <2>2, <2>3
  <2> QED BY <2>1, <2>4
<1> QED BY <1>0, <1>2, <1>3, <1>4

\* _mtlk_txmm_free of a block that is not in the TIMED_OUT queue.
LEMMA FreeEffect ==
  ASSUME NEW r \in RingState, Coherent(r), NEW b \in Block,
         r.blk[b].que \in {"QUEUED", "SENT", "NONE"}
  PROVE  Touches(r, Free(r, b), b, NULL) /\ Free(r, b).blk[b].que = "FREE"
<1>0. ZeroBlock.msg = NULL /\ ZeroBlock.que = "FREE"
  BY DEF ZeroBlock
<1>1. CASE r.blk[b].que = "NONE"
  <2>1. Free(r, b) = FreeBuf(r, b)
    BY <1>1 DEF Free
  <2>2. /\ FreeBuf(r, b) \in RingState /\ Coherent(FreeBuf(r, b))
        /\ FreeBuf(r, b).blk = [r.blk EXCEPT ![b] = ZeroBlock]
    BY <1>1, FreeBufEffect
  <2>3. FreeBuf(r, b).blk[b] = ZeroBlock /\ \A c \in Block \ {b} : FreeBuf(r, b).blk[c] = r.blk[c]
    BY <2>2, RingParts
  <2> QED BY <1>0, <2>1, <2>2, <2>3 DEF Touches
<1>2. ASSUME NEW q \in {"QUEUED", "SENT"}, r.blk[b].que = q
      PROVE  Touches(r, Free(r, b), b, NULL) /\ Free(r, b).blk[b].que = "FREE"
  <2> DEFINE o  == (q = "QUEUED")
             r1 == DelBufFromQue(r, q, b, o)
  <2>1. Free(r, b) = FreeBuf(r1, b)
    BY <1>2 DEF Free
  <2>2. o \in BOOLEAN /\ q \in Ring
    BY DEF Ring
  <2> HIDE DEF o
  <2>3. /\ r1 \in RingState /\ Coherent(r1)
        /\ r1.blk = [r.blk EXCEPT ![b] = [r.blk[b] EXCEPT !.que = "NONE"]]
    BY <1>2, <2>2, DelBufEffect
  <2> HIDE DEF r1
  <2>4. r1.blk[b].que = "NONE" /\ \A c \in Block \ {b} : r1.blk[c] = r.blk[c]
    BY <2>3, RingParts DEF BlockState
  <2>5. /\ FreeBuf(r1, b) \in RingState /\ Coherent(FreeBuf(r1, b))
        /\ FreeBuf(r1, b).blk = [r1.blk EXCEPT ![b] = ZeroBlock]
    BY <2>3, <2>4, FreeBufEffect
  <2>6. FreeBuf(r1, b).blk[b] = ZeroBlock /\ \A c \in Block \ {b} : FreeBuf(r1, b).blk[c] = r.blk[c]
    BY <2>3, <2>4, <2>5, RingParts
  <2> QED BY <1>0, <2>1, <2>5, <2>6 DEF Touches
<1> QED BY <1>1, <1>2

\* _mtlk_txmm_send_block_prepare of a block that is in no queue.
LEMMA PrepareEffect ==
  ASSUME NEW r \in RingState, Coherent(r), NEW b \in Block, r.blk[b].que = "NONE", NEW x \in Slot
  PROVE  /\ Touches(r, SendBlockPrepare(r, b, x), b, r.blk[b].msg)
         /\ SendBlockPrepare(r, b, x).blk[b].que = "SENT"
<1> DEFINE v  == [r.blk[b] EXCEPT !.slot = x]
           r1 == SetBlock(r, b, v)
<1>1. v \in BlockState /\ v.que = r.blk[b].que /\ v.que = "NONE" /\ v.msg = r.blk[b].msg
  BY RingParts DEF BlockState
<1>3. SendBlockPrepare(r, b, x) = PutBuf(r1, "SENT", b)
  BY DEF SendBlockPrepare
<1> HIDE DEF v
<1>2. r1 \in RingState /\ Coherent(r1) /\ r1.blk = [r.blk EXCEPT ![b] = v]
  BY <1>1, SetBlockEffect
<1> HIDE DEF r1
<1>4. r1.blk[b] = v /\ \A c \in Block \ {b} : r1.blk[c] = r.blk[c]
  BY <1>2, RingParts
<1>5. /\ PutBuf(r1, "SENT", b) \in RingState /\ Coherent(PutBuf(r1, "SENT", b))
      /\ PutBuf(r1, "SENT", b).blk = [r1.blk EXCEPT ![b] = [r1.blk[b] EXCEPT !.que = "SENT"]]
  BY <1>1, <1>2, <1>4, PutBufEffect, NotElsewhere
<1>6. /\ PutBuf(r1, "SENT", b).blk[b].que = "SENT"
      /\ PutBuf(r1, "SENT", b).blk[b].msg = v.msg
      /\ \A c \in Block \ {b} : PutBuf(r1, "SENT", b).blk[c] = r.blk[c]
  BY <1>1, <1>2, <1>4, <1>5, RingParts DEF BlockState
<1> QED BY <1>1, <1>3, <1>5, <1>6 DEF Touches

\* The first block of a queue: where it is and what its removal leaves.
LEMMA FirstOf ==
  ASSUME NEW r \in RingState, Coherent(r), NEW q \in Ring, r.que[q] # <<>>
  PROVE  /\ Head(r.que[q]) \in Block /\ r.blk[Head(r.que[q])].que = q
         /\ Tail(r.que[q]) \in Seq(Block) /\ Distinct(Tail(r.que[q]))
         /\ Elems(Tail(r.que[q])) = Elems(r.que[q]) \ {Head(r.que[q])}
<1> DEFINE s == r.que[q]
<1>1. s \in Seq(Block) /\ Distinct(s) /\ s # <<>>
  BY RingParts DEF Coherent
<1>2. /\ Head(s) \in Block /\ Head(s) \in Elems(s) /\ Tail(s) \in Seq(Block)
      /\ Elems(Tail(s)) = Elems(s) \ {Head(s)} /\ Distinct(Tail(s))
  BY <1>1, TailElems
<1> QED BY <1>2 DEF Coherent

\* _mtlk_txmm_pump moves the first block of QUEUED to SENT.
LEMMA PumpEffect ==
  ASSUME NEW r \in RingState, Coherent(r), r.que["QUEUED"] # <<>>, NEW x \in Slot
  PROVE  LET b == Head(r.que["QUEUED"])
         IN  /\ b \in Block /\ r.blk[b].que = "QUEUED"
             /\ Touches(r, PumpBlock(r, x), b, r.blk[b].msg)
             /\ PumpBlock(r, x).blk[b].que = "SENT"
<1> DEFINE b  == Head(r.que["QUEUED"])
           t  == Tail(r.que["QUEUED"])
           u  == [r.blk[b] EXCEPT !.que = "NONE"]
           v  == [[r.blk[b] EXCEPT !.slot = x] EXCEPT !.que = "SENT"]
           r1 == [que |-> [r.que EXCEPT !["QUEUED"] = t], blk |-> [r.blk EXCEPT ![b] = u]]
           r2 == PumpBlock(r, x)
<1>1. /\ b \in Block /\ r.blk[b].que = "QUEUED"
      /\ t \in Seq(Block) /\ Distinct(t) /\ Elems(t) = Elems(r.que["QUEUED"]) \ {b}
  BY FirstOf, NotElsewhere
<1>2. u \in BlockState /\ v \in BlockState /\ u.que = "NONE" /\ v.que = "SENT" /\ v.msg = r.blk[b].msg
  <2>1. r.blk[b] \in [que : Ring \cup {"NONE"}, msg : Msg \cup {NULL}, slot : Slot \cup {NULL}]
    BY <1>1, RingParts DEF BlockState
  <2>2. "SENT" \in Ring
    BY DEF Ring
  <2> HIDE DEF b
  <2>3. u \in BlockState /\ u.que = "NONE"
    BY <2>1 DEF BlockState
  <2>4. v \in BlockState /\ v.que = "SENT" /\ v.msg = r.blk[b].msg
    BY <2>1, <2>2 DEF BlockState
  <2> QED BY <2>3, <2>4
<1>3. r2 = [que |-> [[r.que EXCEPT !["QUEUED"] = t] EXCEPT !["SENT"] = Append(@, b)],
            blk |-> [[r.blk EXCEPT ![b] = [r.blk[b] EXCEPT !.slot = x]] EXCEPT ![b].que = "SENT"]]
  BY DEF PumpBlock, SendBlockPrepare, PutBuf, SetBlock, GetBuf
<1>4. [[r.blk EXCEPT ![b] = [r.blk[b] EXCEPT !.slot = x]] EXCEPT ![b].que = "SENT"]
        = [r1.blk EXCEPT ![b] = v]
  BY <1>1, RingParts
<1>5. r2 = [que |-> [r1.que EXCEPT !["SENT"] = Append(@, b)], blk |-> [r1.blk EXCEPT ![b] = v]]
  BY <1>3, <1>4
<1>6. r1.blk[b].que = "NONE" /\ \A c \in Block \ {b} : r1.blk[c] = r.blk[c]
  BY <1>1, <1>2, RingParts
<1> HIDE DEF b, t, u, v, r2
<1>7. r1 \in RingState /\ Coherent(r1)
  BY <1>1, <1>2, NotElsewhere, LeaveQueue
<1> HIDE DEF r1
<1>8. r2 \in RingState /\ Coherent(r2)
  BY <1>1, <1>2, <1>5, <1>6, <1>7, NotElsewhere, EnterQueue
<1>9. r2.blk[b] = v /\ \A c \in Block \ {b} : r2.blk[c] = r.blk[c]
  BY <1>1, <1>5, <1>6, <1>7, RingParts
<1>10. Touches(r, r2, b, r.blk[b].msg) /\ r2.blk[b].que = "SENT"
  BY <1>2, <1>8, <1>9 DEF Touches
<1> QED BY <1>1, <1>10 DEF b, r2

\* _mtlk_txmm_attach_data takes the first free block for message m.
LEMMA AttachEffect ==
  ASSUME NEW r \in RingState, Coherent(r), r.que["FREE"] # <<>>, NEW m \in Msg
  PROVE  LET b  == Head(r.que["FREE"])
             r2 == SetBlock(GetBuf(r, "FREE"), b, [r.blk[b] EXCEPT !.msg = m, !.que = "NONE"])
         IN  /\ b \in Block /\ r.blk[b].que = "FREE"
             /\ Touches(r, r2, b, m)
             /\ r2.blk[b].que = "NONE"
<1> DEFINE b  == Head(r.que["FREE"])
           t  == Tail(r.que["FREE"])
           v  == [r.blk[b] EXCEPT !.msg = m, !.que = "NONE"]
           r2 == SetBlock(GetBuf(r, "FREE"), b, v)
<1>1. /\ b \in Block /\ r.blk[b].que = "FREE"
      /\ t \in Seq(Block) /\ Distinct(t) /\ Elems(t) = Elems(r.que["FREE"]) \ {b}
  BY FirstOf, NotElsewhere
<1>2. v \in BlockState /\ v.que = "NONE" /\ v.msg = m
  <2>1. PICK w \in BlockState : w = r.blk[b]
    BY <1>1, RingParts
  <2>2. v = [w EXCEPT !.msg = m, !.que = "NONE"]
    BY <2>1
  <2> HIDE DEF v
  <2> QED BY <2>2 DEF BlockState
<1> HIDE DEF v
<1>3. r2 = [que |-> [r.que EXCEPT !["FREE"] = t], blk |-> [r.blk EXCEPT ![b] = v]]
  BY DEF SetBlock, GetBuf
<1> HIDE DEF b, t, r2
<1>4. r2 \in RingState /\ Coherent(r2)
  BY <1>1, <1>2, <1>3, NotElsewhere, LeaveQueue
<1>5. r2.blk[b] = v /\ \A c \in Block \ {b} : r2.blk[c] = r.blk[c]
  BY <1>1, <1>3, RingParts
<1>6. Touches(r, r2, b, m) /\ r2.blk[b].que = "NONE"
  BY <1>2, <1>4, <1>5 DEF Touches
<1> QED BY <1>1, <1>6 DEF b, r2, v

\* _mtlk_txmm_put_buf again, as a change of one block.
LEMMA QueueEffect ==
  ASSUME NEW r \in RingState, Coherent(r), NEW q \in Ring, NEW b \in Block, r.blk[b].que = "NONE"
  PROVE  /\ Touches(r, PutBuf(r, q, b), b, r.blk[b].msg)
         /\ PutBuf(r, q, b).blk[b].que = q
         /\ PutBuf(r, q, b).que[q] # <<>>
<1> DEFINE r2 == PutBuf(r, q, b)
<1>1. /\ r2 \in RingState /\ Coherent(r2)
      /\ r2.blk = [r.blk EXCEPT ![b] = [r.blk[b] EXCEPT !.que = q]]
  BY PutBufEffect
<1>0. r2.que = [r.que EXCEPT ![q] = Append(@, b)]
  BY DEF PutBuf
<1> HIDE DEF r2
<1>2. /\ r2.blk[b].que = q /\ r2.blk[b].msg = r.blk[b].msg
      /\ \A c \in Block \ {b} : r2.blk[c] = r.blk[c]
  BY <1>1, RingParts DEF BlockState
<1>3. r.que[q] \in Seq(Block) /\ r2.que[q] = Append(r.que[q], b)
  BY <1>0, RingParts
<1>4. r2.que[q] # <<>>
  BY <1>3
<1> QED BY <1>1, <1>2, <1>4 DEF Touches, r2

\* What a send with a descriptor in hand does to the blocks.
Sends(r, r2, b) ==
  /\ r2 \in RingState /\ Coherent(r2)
  /\ \A c \in Block : r2.blk[c].msg = r.blk[c].msg
  /\ r2.blk[b].que \in {"SENT", "QUEUED"}
  /\ \A c \in Block \ {b} : \/ r2.blk[c].que = r.blk[c].que
                            \/ r.blk[c].que = "QUEUED" /\ r2.blk[c].que = "SENT"

\* With a descriptor in hand, _mtlk_txmm_send_ex sends the block or queues it and
\* sends the first of the queue.
LEMMA DirectOrPumpEffect ==
  ASSUME NEW r \in RingState, Coherent(r), NEW b \in Block, r.blk[b].que = "NONE", NEW x \in Slot
  PROVE  Sends(r, DirectOrPump(r, b, x), b)
<1>1. CASE r.que["QUEUED"] = <<>>
  <2>1. DirectOrPump(r, b, x) = SendBlockPrepare(r, b, x)
    BY <1>1 DEF DirectOrPump
  <2>2. /\ Touches(r, SendBlockPrepare(r, b, x), b, r.blk[b].msg)
        /\ SendBlockPrepare(r, b, x).blk[b].que = "SENT"
    BY PrepareEffect
  <2> DEFINE r2 == SendBlockPrepare(r, b, x)
  <2> HIDE DEF r2
  <2>3. Touches(r, r2, b, r.blk[b].msg) /\ r2.blk[b].que = "SENT"
    BY <2>2 DEF r2
  <2>4. \A c \in Block : r2.blk[c].msg = r.blk[c].msg
    BY <2>3 DEF Touches
  <2>5. Sends(r, r2, b)
    BY <2>3, <2>4 DEF Touches, Sends
  <2> QED BY <2>1, <2>5 DEF r2
<1>2. CASE r.que["QUEUED"] # <<>>
  <2> DEFINE r1 == PutBuf(r, "QUEUED", b)
             c  == Head(r1.que["QUEUED"])
             r2 == PumpBlock(r1, x)
  <2>1. DirectOrPump(r, b, x) = r2
    BY <1>2 DEF DirectOrPump
  <2>2. Touches(r, r1, b, r.blk[b].msg) /\ r1.blk[b].que = "QUEUED" /\ r1.que["QUEUED"] # <<>>
    BY QueueEffect, NotElsewhere
  <2>3. r1 \in RingState /\ Coherent(r1)
    BY <2>2 DEF Touches
  <2> HIDE DEF r1
  <2>4. /\ c \in Block /\ r1.blk[c].que = "QUEUED"
        /\ Touches(r1, r2, c, r1.blk[c].msg) /\ r2.blk[c].que = "SENT"
    BY <2>2, <2>3, PumpEffect
  <2> HIDE DEF c, r2
  <2>5. \A d \in Block : r2.blk[d].msg = r.blk[d].msg
    BY <2>2, <2>4 DEF Touches
  <2>6. r2.blk[b].que \in {"SENT", "QUEUED"}
    BY <2>2, <2>4 DEF Touches
  <2>7. \A d \in Block \ {b} : \/ r2.blk[d].que = r.blk[d].que
                               \/ r.blk[d].que = "QUEUED" /\ r2.blk[d].que = "SENT"
    <3> SUFFICES ASSUME NEW d \in Block \ {b}
                 PROVE  \/ r2.blk[d].que = r.blk[d].que
                        \/ r.blk[d].que = "QUEUED" /\ r2.blk[d].que = "SENT"
      OBVIOUS
    <3>1. r1.blk[d] = r.blk[d]
      BY <2>2 DEF Touches
    <3>2. d = c \/ r2.blk[d] = r1.blk[d]
      BY <2>4 DEF Touches
    <3> QED BY <2>4, <3>1, <3>2
  <2> QED BY <2>1, <2>4, <2>5, <2>6, <2>7 DEF Touches, Sends
<1> QED BY <1>1, <1>2

-----------------------------------------------------------------------------
(***************************************************************************)
(* The inductive invariant.                                                *)
(***************************************************************************)

\* A process between attaching and sending owns a block that is in no queue.
Attached ==
  \A m \in Msg : pc[m] \in {"ready", "mutex"} =>
    data[m] \in Block /\ base.blk[data[m]].que = "NONE"

\* A process on its way to msg_send has a descriptor.
HasSlot == \A m \in Msg : pc[m] = "sending" => tx[m] \in Slot

\* A claimed block is in no queue; its message is known and already sent.
Claimed(b) ==
  /\ b \in Block
  /\ base.blk[b].que = "NONE"
  /\ base.blk[b].msg \in Msg
  /\ pc[base.blk[b].msg] \notin {"ready", "mutex"}

TaskletInv ==
  /\ bh.pc # "idle" => bh.slot \in Slot /\ tm.pc = "idle"
  /\ bh.pc = "clb" => Claimed(bh.block)

\* The timer leaves no block in TIMED_OUT when it returns, and the blocks its
\* scan has still to visit are in the queue it scans.
TimerInv ==
  /\ tm.pc = "idle" => \A b \in Block : base.blk[b].que # "TIMED_OUT"
  /\ tm.pc = "scan" => Distinct(tm.left) /\ Elems(tm.left) \subseteq Elems(base.que[tm.que])
  /\ tm.pc = "clb" => Claimed(tm.block)

IInv ==
  /\ TypeOK
  /\ BlocksCoherent
  /\ Attached
  /\ HasSlot
  /\ TaskletInv
  /\ TimerInv

\* The first two parts of BlocksCoherent, as the lemmas on the helpers have them.
LEMMA CoherentBase == BlocksCoherent => Coherent(base)
  BY DEF BlocksCoherent, Coherent

\* A step that leaves queues, blocks and messages alone keeps BlocksCoherent.
LEMMA BaseKept ==
  ASSUME BlocksCoherent, UNCHANGED <<base, data>>
  PROVE  BlocksCoherent'
  BY DEF BlocksCoherent

\* A block moves to another queue; its message stays the same.
LEMMA OwnerKept ==
  ASSUME TypeOK, BlocksCoherent, NEW b \in Block, Touches(base, base', b, base.blk[b].msg),
         base'.blk[b].que # "FREE", base.blk[b].que # "FREE", data' = data
  PROVE  BlocksCoherent'
<1>1. Coherent(base')
  BY DEF Touches
<1>2. \A c \in Block : base'.blk[c].msg = base.blk[c].msg
  BY DEF Touches
<1>3. \A c \in Block : base'.blk[c].que = "FREE" <=> base.blk[c].que = "FREE"
  BY DEF Touches
<1> QED BY <1>1, <1>2, <1>3 DEF BlocksCoherent, Coherent

\* Message m gives its block back.
LEMMA OwnerDropped ==
  ASSUME TypeOK, BlocksCoherent, NEW m \in Msg, NEW b \in Block, data[m] = b,
         Touches(base, base', b, NULL), base'.blk[b].que = "FREE",
         data' = [data EXCEPT ![m] = NULL]
  PROVE  BlocksCoherent'
<1>1. Coherent(base')
  BY DEF Touches
<1>2. /\ base'.blk[b].msg = NULL /\ base.blk[b].msg = m
      /\ \A c \in Block \ {b} : base'.blk[c] = base.blk[c]
      /\ data'[m] = NULL /\ \A n \in Msg \ {m} : data'[n] = data[n]
  BY DEF Touches, TypeOK, BlocksCoherent
<1>3. \A c \in Block : base'.blk[c].que = "FREE" <=> base'.blk[c].msg = NULL
  BY <1>2 DEF BlocksCoherent
<1>4. ASSUME NEW c \in Block, NEW n \in Msg PROVE base'.blk[c].msg = n <=> data'[n] = c
  BY <1>2, ConstantsAssumption DEF BlocksCoherent
<1> QED BY <1>1, <1>3, <1>4 DEF BlocksCoherent, Coherent

\* Message m, which has none, takes a free block.
LEMMA OwnerTaken ==
  ASSUME TypeOK, BlocksCoherent, NEW m \in Msg, NEW b \in Block, data[m] = NULL,
         base.blk[b].que = "FREE", Touches(base, base', b, m), base'.blk[b].que = "NONE",
         data' = [data EXCEPT ![m] = b]
  PROVE  BlocksCoherent'
<1>1. Coherent(base')
  BY DEF Touches
<1>2. /\ base'.blk[b].msg = m /\ base.blk[b].msg = NULL /\ m # NULL
      /\ \A c \in Block \ {b} : base'.blk[c] = base.blk[c]
      /\ data'[m] = b /\ \A n \in Msg \ {m} : data'[n] = data[n]
  BY ConstantsAssumption DEF Touches, TypeOK, BlocksCoherent
<1>3. \A c \in Block : base'.blk[c].que = "FREE" <=> base'.blk[c].msg = NULL
  BY <1>2 DEF BlocksCoherent
<1>4. ASSUME NEW c \in Block, NEW n \in Msg PROVE base'.blk[c].msg = n <=> data'[n] = c
  BY <1>2, ConstantsAssumption DEF BlocksCoherent
<1> QED BY <1>1, <1>3, <1>4 DEF BlocksCoherent, Coherent

\* Two messages never have the same block, and a held block is not free.
LEMMA HeldBlock ==
  ASSUME TypeOK, BlocksCoherent, NEW m \in Msg, data[m] # NULL
  PROVE  /\ data[m] \in Block /\ base.blk[data[m]].msg = m /\ base.blk[data[m]].que # "FREE"
         /\ \A n \in Msg : data[n] = data[m] => n = m
  BY ConstantsAssumption DEF TypeOK, BlocksCoherent

\* Only processes in ready and mutex matter for Attached.
LEMMA AttachedKept ==
  ASSUME Attached,
         \A m \in Msg : pc'[m] \in {"ready", "mutex"} =>
           /\ pc[m] \in {"ready", "mutex"}
           /\ data'[m] = data[m]
           /\ base'.blk[data[m]].que = "NONE"
  PROVE  Attached'
  BY DEF Attached

-----------------------------------------------------------------------------
(***************************************************************************)
(* The steps of the processes.  On one CPU neither tasklet nor timer is    *)
(* in the middle of something then.                                        *)
(***************************************************************************)
LEMMA ProcessAlone ==
  ASSUME ~SMP, NEW m, ProcessRuns(m)
  PROVE  bh.pc = "idle" /\ tm.pc = "idle"
  BY DEF ProcessRuns

\* With tasklet and timer idle only the emptiness of TIMED_OUT is left to show.
LEMMA IdleInvs ==
  ASSUME bh'.pc = "idle", tm'.pc = "idle", \A b \in Block : base'.blk[b].que # "TIMED_OUT"
  PROVE  TaskletInv' /\ TimerInv'
  BY DEF TaskletInv, TimerInv

\* mtlk_txmm_msg_get_empty_data keeps the invariant.
LEMMA GetEmptyDataStep ==
  ASSUME ~SMP, IInv, NEW m \in Msg, GetEmptyData(m)
  PROVE  IInv'
<1> DEFINE b == Head(base.que["FREE"])
<1>0. TypeOK /\ BlocksCoherent /\ Attached /\ HasSlot /\ TimerInv /\ Coherent(base)
  BY CoherentBase DEF IInv
<1>1. base \in RingState /\ base.que["FREE"] # <<>> /\ data[m] = NULL /\ pc[m] = "idle"
  BY <1>0 DEF TypeOK, GetEmptyData
<1>2. b \in Block /\ base.blk[b].que = "FREE" /\ Touches(base, base', b, m)
      /\ base'.blk[b].que = "NONE"
  BY <1>0, <1>1, AttachEffect DEF GetEmptyData
<1>3. /\ data' = [data EXCEPT ![m] = b] /\ pc' = [pc EXCEPT ![m] = "ready"]
      /\ UNCHANGED <<pool, fw, tx, active, timer, events, pending, phase, mutex, refs, evt, res,
                     cfmd, bh, tm>>
  BY DEF GetEmptyData
<1> HIDE DEF b
<1>4. TypeOK'
  BY <1>0, <1>2, <1>3 DEF TypeOK, Touches
<1>5. BlocksCoherent'
  BY <1>0, <1>1, <1>2, <1>3, OwnerTaken
<1>6. Attached'
  <2> SUFFICES ASSUME NEW n \in Msg, pc'[n] \in {"ready", "mutex"}
               PROVE  data'[n] \in Block /\ base'.blk[data'[n]].que = "NONE"
    BY DEF Attached
  <2>1. CASE n = m
    BY <1>0, <1>2, <1>3, <2>1 DEF TypeOK
  <2>2. CASE n # m
    BY <1>0, <1>2, <1>3, <2>2 DEF TypeOK, Attached, Touches
  <2> QED BY <2>1, <2>2
<1>7. HasSlot'
  BY <1>0, <1>3 DEF HasSlot, TypeOK
<1>8. TaskletInv' /\ TimerInv'
  <2>1. bh.pc = "idle" /\ tm.pc = "idle"
    BY ProcessAlone DEF GetEmptyData
  <2>2. \A c \in Block : base'.blk[c].que # "TIMED_OUT"
    BY <1>0, <1>2, <2>1 DEF TimerInv, Touches
  <2> QED BY <1>3, <2>1, <2>2, IdleInvs
<1> QED BY <1>4, <1>5, <1>6, <1>7, <1>8 DEF IInv

\* The lock section of _mtlk_txmm_send_ex, of a process whose block is in no
\* queue.
LEMMA SendExEffect ==
  ASSUME TypeOK, BlocksCoherent, Attached, HasSlot, NEW m \in Msg,
         pc[m] \in {"ready", "mutex"}, NEW asleep \in {"idle", "waiting"}, SendEx(m, asleep),
         data' = data, tm.pc = "idle", TimerInv
  PROVE  /\ base' \in RingState /\ pool' \subseteq Slot
         /\ tx' \in [Msg -> Slot \cup {NULL}]
         /\ pc' \in [Msg -> {"idle", "ready", "mutex", "sending", "waiting", "done"}]
         /\ BlocksCoherent' /\ Attached' /\ HasSlot'
         /\ \A c \in Block : base'.blk[c].que # "TIMED_OUT"
<1> DEFINE b == data[m]
           v == [base.blk[b] EXCEPT !.slot = NULL]
           r == SetBlock(base, b, v)
<1>0. base \in RingState /\ Coherent(base) /\ b \in Block /\ base.blk[b].que = "NONE"
  BY CoherentBase DEF TypeOK, Attached
<1>1. v \in BlockState /\ v.que = base.blk[b].que /\ v.msg = base.blk[b].msg
  BY <1>0, RingParts DEF BlockState
<1>2. \/ /\ base' = PutBuf(r, "QUEUED", b)
         /\ pc' = [pc EXCEPT ![m] = asleep]
         /\ UNCHANGED <<pool, tx>>
      \/ \E x \in pool :
           /\ pool' = pool \ {x}
           /\ base' = DirectOrPump(r, b, x)
           /\ tx' = [tx EXCEPT ![m] = x]
           /\ pc' = [pc EXCEPT ![m] = "sending"]
  BY DEF SendEx
<1> HIDE DEF v, b
<1>3. /\ r \in RingState /\ Coherent(r)
      /\ r.blk = [base.blk EXCEPT ![b] = v] /\ r.que = base.que
  BY <1>0, <1>1, SetBlockEffect
<1>4. r.blk[b] = v /\ \A c \in Block \ {b} : r.blk[c] = base.blk[c]
  BY <1>0, <1>3, RingParts
<1> HIDE DEF r
<1>5. ASSUME NEW r2, Sends(r, r2, b) PROVE Sends(base, r2, b)
  BY <1>0, <1>1, <1>4, <1>5 DEF Sends
<1>6. Sends(r, PutBuf(r, "QUEUED", b), b)
  <2>0. r.blk[b].que = "NONE" /\ "QUEUED" \in Ring
    BY <1>0, <1>1, <1>4, NotElsewhere
  <2> DEFINE r2 == PutBuf(r, "QUEUED", b)
  <2>1. Touches(r, r2, b, r.blk[b].msg) /\ r2.blk[b].que = "QUEUED"
    BY <1>0, <1>3, <2>0, QueueEffect
  <2> HIDE DEF r2
  <2>2. \A c \in Block : r2.blk[c].msg = r.blk[c].msg
    BY <2>1 DEF Touches
  <2>3. Sends(r, r2, b)
    BY <2>1, <2>2 DEF Touches, Sends
  <2> QED BY <2>3 DEF r2
<1>7. ASSUME NEW x \in Slot PROVE Sends(r, DirectOrPump(r, b, x), b)
  BY <1>0, <1>1, <1>3, <1>4, DirectOrPumpEffect
<1>8. Sends(base, base', b)
  <2>1. CASE base' = PutBuf(r, "QUEUED", b)
    BY <1>5, <1>6, <2>1
  <2>2. CASE \E x \in Slot : base' = DirectOrPump(r, b, x)
    BY <1>5, <1>7, <2>2
  <2> QED BY <1>2, <2>1, <2>2 DEF TypeOK
<1>9. /\ pool' \subseteq Slot /\ tx' \in [Msg -> Slot \cup {NULL}]
      /\ pc' \in [Msg -> {"idle", "ready", "mutex", "sending", "waiting", "done"}]
      /\ pc'[m] \in {"idle", "waiting", "sending"} /\ (pc'[m] = "sending" => tx'[m] \in Slot)
      /\ \A n \in Msg \ {m} : pc'[n] = pc[n] /\ tx'[n] = tx[n]
  <2>1. CASE pc' = [pc EXCEPT ![m] = asleep] /\ UNCHANGED <<pool, tx>>
    BY <2>1 DEF TypeOK
  <2>2. CASE \E x \in pool : /\ pool' = pool \ {x} /\ tx' = [tx EXCEPT ![m] = x]
                             /\ pc' = [pc EXCEPT ![m] = "sending"]
    <3>1. PICK x \in pool : /\ pool' = pool \ {x} /\ tx' = [tx EXCEPT ![m] = x]
                            /\ pc' = [pc EXCEPT ![m] = "sending"]
      BY <2>2
    <3>2. x \in Slot
      BY DEF TypeOK
    <3> QED BY <3>1, <3>2 DEF TypeOK
  <2> QED BY <1>2, <2>1, <2>2
<1>10. BlocksCoherent'
  <2>1. \A d \in Block : base'.blk[d].que = "FREE" <=> base.blk[d].que = "FREE"
    BY <1>0, <1>8 DEF Sends
  <2> QED BY <1>8, <2>1 DEF BlocksCoherent, Coherent, Sends
<1>11. Attached'
  <2> SUFFICES ASSUME NEW n \in Msg, pc'[n] \in {"ready", "mutex"}
               PROVE  data[n] \in Block /\ base'.blk[data[n]].que = "NONE"
    BY DEF Attached
  <2>1. n # m /\ data[n] \in Block /\ base.blk[data[n]].que = "NONE"
    BY <1>9 DEF Attached
  <2>2. data[n] # b
    BY <1>0, <2>1, HeldBlock, ConstantsAssumption DEF b
  <2> QED BY <1>8, <2>1, <2>2 DEF Sends
<1>12. HasSlot'
  BY <1>9 DEF HasSlot
<1>13. \A c \in Block : base'.blk[c].que # "TIMED_OUT"
  BY <1>8 DEF TimerInv, Sends
<1> QED BY <1>8, <1>9, <1>10, <1>11, <1>12, <1>13 DEF Sends

\* A step of a process or of the control code is done when it keeps types,
\* blocks, Attached and HasSlot and puts nothing into TIMED_OUT.
LEMMA ProcessStep ==
  ASSUME ~SMP, IInv, NEW m, ProcessRuns(m), UNCHANGED <<bh, tm>>,
         TypeOK', BlocksCoherent', Attached', HasSlot',
         \A b \in Block : base'.blk[b].que # "TIMED_OUT"
  PROVE  IInv'
<1>1. bh'.pc = "idle" /\ tm'.pc = "idle"
  BY ProcessAlone
<1> QED BY <1>1, IdleInvs DEF IInv

\* A step that leaves queues, blocks and messages alone and brings no process
\* to ready or mutex keeps what is said of them.
LEMMA QuietStep ==
  ASSUME IInv, UNCHANGED <<base, data>>,
         \A m \in Msg : pc'[m] \in {"ready", "mutex"} => pc[m] \in {"ready", "mutex"}
  PROVE  BlocksCoherent' /\ Attached'
  BY BaseKept DEF IInv, Attached

\* On one CPU TIMED_OUT is empty whenever a process runs.
LEMMA NothingTimedOut ==
  ASSUME ~SMP, IInv, NEW m, ProcessRuns(m)
  PROVE  \A b \in Block : base.blk[b].que # "TIMED_OUT"
  BY ProcessAlone DEF IInv, TimerInv

\* The action of mtlk_txmm_msg_send keeps the invariant.
LEMMA MsgSendAsyncStep ==
  ASSUME ~SMP, IInv, NEW m \in Msg, MsgSendAsync(m)
  PROVE  IInv'
<1>1. /\ SendEx(m, "idle") /\ pc[m] = "ready" /\ ProcessRuns(m)
      /\ UNCHANGED <<data, fw, active, timer, events, pending, phase, mutex, refs, evt, res, cfmd,
                     bh, tm>>
  BY DEF MsgSendAsync
<1>2. tm.pc = "idle" /\ TypeOK
  BY <1>1, ProcessAlone DEF IInv
<1>3. /\ base' \in RingState /\ pool' \subseteq Slot
      /\ tx' \in [Msg -> Slot \cup {NULL}]
      /\ pc' \in [Msg -> {"idle", "ready", "mutex", "sending", "waiting", "done"}]
      /\ BlocksCoherent' /\ Attached' /\ HasSlot'
      /\ \A c \in Block : base'.blk[c].que # "TIMED_OUT"
  BY <1>1, <1>2, SendExEffect DEF IInv
<1>4. TypeOK'
  BY <1>1, <1>2, <1>3 DEF TypeOK
<1> QED BY <1>1, <1>3, <1>4, ProcessStep

\* The first part of _mtlk_txmm_send_blocked keeps the invariant.
LEMMA SendBlockedEnterStep ==
  ASSUME ~SMP, IInv, NEW m \in Msg, SendBlockedEnter(m)
  PROVE  IInv'
<1>1. /\ ProcessRuns(m) /\ m \in BMsg /\ pc[m] = "ready"
      /\ UNCHANGED <<base, data, pool, fw, tx, active, timer, events, pending, phase, mutex,
                     evt, cfmd, bh, tm>>
      /\ \/ pc' = [pc EXCEPT ![m] = "done"] /\ res' = [res EXCEPT ![m] = "TIMEOUT"]
         \/ pc' = [pc EXCEPT ![m] = "mutex"] /\ UNCHANGED res
      /\ refs' = refs \/ refs' = refs + 1
  BY DEF SendBlockedEnter, RmlockAcquire
<1>2. TypeOK'
  <2>1. pc' \in [Msg -> {"idle", "ready", "mutex", "sending", "waiting", "done"}]
    BY <1>1 DEF IInv, TypeOK
  <2>2. res' \in [BMsg -> {"NONE", "OK", "TIMEOUT"}] /\ refs' \in Int
    BY <1>1 DEF IInv, TypeOK
  <2> QED BY <1>1, <2>1, <2>2 DEF IInv, TypeOK
<1>3. BlocksCoherent' /\ Attached'
  BY <1>1, QuietStep DEF IInv, TypeOK
<1>4. HasSlot'
  BY <1>1 DEF IInv, HasSlot, TypeOK
<1>5. \A b \in Block : base'.blk[b].que # "TIMED_OUT"
  BY <1>1, NothingTimedOut
<1> QED BY <1>1, <1>2, <1>3, <1>4, <1>5, ProcessStep

\* What the label FINISH of _mtlk_txmm_send_blocked leaves well typed.
LEMMA FinishType ==
  ASSUME TypeOK, NEW m \in BMsg, NEW r \in {"OK", "TIMEOUT"}, Finish(m, r)
  PROVE  /\ pc' \in [Msg -> {"idle", "ready", "mutex", "sending", "waiting", "done"}]
         /\ res' \in [BMsg -> {"NONE", "OK", "TIMEOUT"}]
         /\ mutex' \in BMsg \cup {NULL} /\ refs' \in Int
         /\ pc'[m] = "done" /\ \A n \in Msg \ {m} : pc'[n] = pc[n]
<1>1. m \in Msg
  BY ConstantsAssumption
<1> QED BY <1>1 DEF Finish, RmlockRelease, TypeOK

\* The second part of _mtlk_txmm_send_blocked keeps the invariant.
LEMMA SendBlockedLockedStep ==
  ASSUME ~SMP, IInv, NEW m \in Msg, SendBlockedLocked(m)
  PROVE  IInv'
<1>1. /\ ProcessRuns(m) /\ m \in BMsg /\ pc[m] = "mutex"
      /\ UNCHANGED <<data, fw, active, timer, events, pending, phase, bh, tm>>
  BY DEF SendBlockedLocked
<1>0. TypeOK /\ BlocksCoherent /\ Attached /\ HasSlot /\ TimerInv /\ tm.pc = "idle"
  BY <1>1, ProcessAlone DEF IInv
<1>2. CASE Finish(m, "OK") /\ UNCHANGED <<base, pool, tx, evt, cfmd>>
  <2>1. TypeOK' /\ pc'[m] = "done" /\ \A n \in Msg \ {m} : pc'[n] = pc[n]
    BY <1>0, <1>1, <1>2, FinishType DEF TypeOK
  <2>2. BlocksCoherent' /\ Attached'
    BY <1>1, <1>2, <2>1, QuietStep
  <2>3. HasSlot'
    BY <1>0, <1>2, <2>1 DEF HasSlot
  <2>4. \A b \in Block : base'.blk[b].que # "TIMED_OUT"
    BY <1>1, <1>2, NothingTimedOut
  <2> QED BY <1>1, <2>1, <2>2, <2>3, <2>4, ProcessStep
<1>3. CASE /\ mutex' = m /\ evt' = EventReset /\ cfmd' = [cfmd EXCEPT ![m] = FALSE]
           /\ SendEx(m, "waiting") /\ UNCHANGED <<res, refs>>
  <2>1. /\ base' \in RingState /\ pool' \subseteq Slot
        /\ tx' \in [Msg -> Slot \cup {NULL}]
        /\ pc' \in [Msg -> {"idle", "ready", "mutex", "sending", "waiting", "done"}]
        /\ BlocksCoherent' /\ Attached' /\ HasSlot'
        /\ \A c \in Block : base'.blk[c].que # "TIMED_OUT"
    BY <1>0, <1>1, <1>3, SendExEffect
  <2>2. evt' \in [wait : BOOLEAN, term : BOOLEAN] /\ cfmd' \in [BMsg -> BOOLEAN]
    BY <1>0, <1>3 DEF TypeOK, EventReset
  <2>3. TypeOK'
    BY <1>0, <1>1, <1>3, <2>1, <2>2 DEF TypeOK
  <2> QED BY <1>1, <2>1, <2>3, ProcessStep
<1> QED BY <1>2, <1>3 DEF SendBlockedLocked

\* The call of api.msg_send keeps the invariant.
LEMMA MsgSendStep ==
  ASSUME ~SMP, IInv, NEW m \in Msg, MsgSend(m)
  PROVE  IInv'
<1>1. /\ ProcessRuns(m) /\ pc[m] = "sending" /\ fw' = fw \cup {tx[m]}
      /\ tx' = [tx EXCEPT ![m] = NULL]
      /\ pc' = [pc EXCEPT ![m] = IF m \in BMsg THEN "waiting" ELSE "idle"]
      /\ UNCHANGED <<base, data, pool, active, timer, events, pending, phase, mutex, refs, evt,
                     res, cfmd, bh, tm>>
  BY DEF MsgSend
<1>0. TypeOK /\ HasSlot
  BY DEF IInv
<1>2. pc' \in [Msg -> {"idle", "ready", "mutex", "sending", "waiting", "done"}]
  BY <1>0, <1>1 DEF TypeOK
<1>3. pc'[m] \in {"idle", "waiting"} /\ \A n \in Msg \ {m} : pc'[n] = pc[n] /\ tx'[n] = tx[n]
  BY <1>0, <1>1 DEF TypeOK
<1>4. tx[m] \in Slot
  BY <1>0, <1>1 DEF HasSlot
<1>5. TypeOK'
  BY <1>0, <1>1, <1>2, <1>4 DEF TypeOK
<1>6. BlocksCoherent' /\ Attached'
  BY <1>1, <1>3, QuietStep
<1>7. HasSlot'
  BY <1>0, <1>3 DEF HasSlot
<1>8. \A b \in Block : base'.blk[b].que # "TIMED_OUT"
  BY <1>1, NothingTimedOut
<1> QED BY <1>1, <1>5, <1>6, <1>7, <1>8, ProcessStep

\* The return of a blocked send keeps the invariant.
LEMMA SendBlockedReturnStep ==
  ASSUME ~SMP, IInv, NEW m \in Msg, SendBlockedReturn(m)
  PROVE  IInv'
<1> DEFINE r == IF evt.wait /\ ~evt.term THEN "OK" ELSE "TIMEOUT"
<1>1. /\ ProcessRuns(m) /\ m \in BMsg /\ Finish(m, r)
      /\ UNCHANGED <<base, data, pool, fw, tx, active, timer, events, pending, phase, evt, cfmd,
                     bh, tm>>
  BY DEF SendBlockedReturn
<1>0. TypeOK /\ HasSlot /\ r \in {"OK", "TIMEOUT"}
  BY DEF IInv
<1> HIDE DEF r
<1>2. TypeOK' /\ pc'[m] = "done" /\ \A n \in Msg \ {m} : pc'[n] = pc[n]
  BY <1>0, <1>1, FinishType DEF TypeOK
<1>3. BlocksCoherent' /\ Attached'
  BY <1>1, <1>2, QuietStep
<1>4. HasSlot'
  BY <1>0, <1>1, <1>2 DEF HasSlot
<1>5. \A b \in Block : base'.blk[b].que # "TIMED_OUT"
  BY <1>1, NothingTimedOut
<1> QED BY <1>1, <1>2, <1>3, <1>4, <1>5, ProcessStep

\* mtlk_txmm_msg_cancel keeps the invariant: on one CPU the block is not in
\* TIMED_OUT, the one queue _mtlk_txmm_free does not take it out of.
LEMMA MsgCancelStep ==
  ASSUME ~SMP, IInv, NEW m \in Msg, MsgCancel(m)
  PROVE  IInv'
<1> DEFINE b == data[m]
<1>1. /\ ProcessRuns(m) /\ b # NULL /\ base' = Free(base, b)
      /\ data' = [data EXCEPT ![m] = NULL] /\ pc' = [pc EXCEPT ![m] = "idle"]
      /\ UNCHANGED <<pool, fw, tx, active, timer, events, pending, phase, mutex, refs, evt, bh,
                     tm>>
  BY DEF MsgCancel
<1>0. TypeOK /\ BlocksCoherent /\ Attached /\ HasSlot /\ Coherent(base) /\ base \in RingState
  BY CoherentBase DEF IInv, TypeOK
<1>2. b \in Block /\ base.blk[b].que # "FREE" /\ \A n \in Msg : data[n] = b => n = m
  BY <1>0, <1>1, HeldBlock
<1>3. \A c \in Block : base.blk[c].que # "TIMED_OUT"
  BY <1>1, NothingTimedOut
<1>4. base.blk[b].que \in {"QUEUED", "SENT", "NONE"}
  <2>1. base.blk[b].que \in Ring \cup {"NONE"}
    BY <1>0, <1>2, RingParts
  <2> QED BY <1>2, <1>3, <2>1 DEF Ring
<1>5. Touches(base, base', b, NULL) /\ base'.blk[b].que = "FREE"
  BY <1>0, <1>1, <1>2, <1>4, FreeEffect
<1>6. BlocksCoherent'
  BY <1>0, <1>1, <1>2, <1>5, OwnerDropped
<1>7. res' \in [BMsg -> {"NONE", "OK", "TIMEOUT"}] /\ cfmd' \in [BMsg -> BOOLEAN]
  BY <1>0 DEF TypeOK, MsgCancel
<1>8. TypeOK'
  BY <1>0, <1>1, <1>5, <1>7 DEF TypeOK, Touches
<1> HIDE DEF b
<1>9. Attached'
  <2> SUFFICES ASSUME NEW n \in Msg, pc'[n] \in {"ready", "mutex"}
               PROVE  /\ pc[n] \in {"ready", "mutex"} /\ data'[n] = data[n]
                      /\ base'.blk[data[n]].que = "NONE"
    BY <1>0, AttachedKept
  <2>1. n # m /\ pc[n] \in {"ready", "mutex"} /\ data'[n] = data[n]
    BY <1>0, <1>1 DEF TypeOK
  <2>2. data[n] \in Block \ {b} /\ base.blk[data[n]].que = "NONE"
    BY <1>0, <1>2, <2>1 DEF Attached
  <2> QED BY <1>5, <2>1, <2>2 DEF Touches
<1>10. HasSlot'
  BY <1>0, <1>1 DEF HasSlot, TypeOK
<1>11. \A c \in Block : base'.blk[c].que # "TIMED_OUT"
  BY <1>3, <1>5 DEF Touches
<1> QED BY <1>1, <1>6, <1>8, <1>9, <1>10, <1>11, ProcessStep

-----------------------------------------------------------------------------
(***************************************************************************)
(* The steps of the tasklet and of the timer.                              *)
(***************************************************************************)

\* One block, which is neither free nor attached, changes queue or is freed:
\* the blocks of the processes between attaching and sending stay as they are.
LEMMA OthersAttached ==
  ASSUME Attached, NEW b \in Block, pc' = pc,
         \A c \in Block \ {b} : base'.blk[c] = base.blk[c],
         \A m \in Msg : pc[m] \in {"ready", "mutex"} => data[m] # b /\ data'[m] = data[m]
  PROVE  Attached'
  BY DEF Attached

\* _mtlk_txmm_call_usr_clb_locked of a claimed block.
LEMMA CallUsrClbEffect ==
  ASSUME TypeOK, BlocksCoherent, Attached, NEW b \in Block, Claimed(b), CallUsrClb(b), pc' = pc
  PROVE  /\ base' \in RingState /\ data' \in [Msg -> Block \cup {NULL}]
         /\ evt' \in [wait : BOOLEAN, term : BOOLEAN]
         /\ BlocksCoherent' /\ Attached'
         /\ \A c \in Block : base'.blk[c].que = "TIMED_OUT" => base.blk[c].que = "TIMED_OUT"
<1> DEFINE m == base.blk[b].msg
<1>0. /\ base \in RingState /\ Coherent(base) /\ m \in Msg /\ base.blk[b].que = "NONE"
      /\ data[m] = b /\ pc[m] \notin {"ready", "mutex"}
      /\ \A n \in Msg : data[n] = b => n = m
  BY CoherentBase DEF TypeOK, Claimed, BlocksCoherent
<1>1. \/ UNCHANGED <<base, data>> /\ evt' \in {evt, EventSet}
      \/ base' = FreeBuf(base, b) /\ data' = [data EXCEPT ![m] = NULL] /\ UNCHANGED evt
      \/ base' = PutBuf(base, "QUEUED", b) /\ UNCHANGED <<data, evt>>
  BY DEF CallUsrClb
<1> HIDE DEF m
<1>2. EventSet \in [wait : BOOLEAN, term : BOOLEAN]
  BY DEF TypeOK, EventSet
<1>3. CASE UNCHANGED <<base, data>> /\ evt' \in {evt, EventSet}
  <2>1. BlocksCoherent' /\ Attached'
    BY <1>3, BaseKept DEF Attached
  <2> QED BY <1>2, <1>3, <2>1 DEF TypeOK
<1>4. CASE base' = FreeBuf(base, b) /\ data' = [data EXCEPT ![m] = NULL] /\ UNCHANGED evt
  <2>1. /\ base' \in RingState /\ Coherent(base')
        /\ base'.blk = [base.blk EXCEPT ![b] = ZeroBlock]
    BY <1>0, <1>4, FreeBufEffect
  <2>2. /\ base'.blk[b].msg = NULL /\ base'.blk[b].que = "FREE"
        /\ \A c \in Block \ {b} : base'.blk[c] = base.blk[c]
    BY <1>0, <2>1, RingParts DEF ZeroBlock
  <2>3. Touches(base, base', b, NULL)
    BY <2>1, <2>2 DEF Touches
  <2>4. BlocksCoherent'
    BY <1>0, <1>4, <2>2, <2>3, OwnerDropped
  <2>5. \A n \in Msg : pc[n] \in {"ready", "mutex"} => data[n] # b /\ data'[n] = data[n]
    BY <1>0, <1>4 DEF TypeOK
  <2>6. Attached'
    BY <2>2, <2>5, OthersAttached
  <2>7. data' \in [Msg -> Block \cup {NULL}] /\ evt' \in [wait : BOOLEAN, term : BOOLEAN]
    BY <1>4 DEF TypeOK
  <2>8. \A c \in Block : base'.blk[c].que = "TIMED_OUT" => base.blk[c].que = "TIMED_OUT"
    BY <2>2
  <2> QED BY <2>1, <2>4, <2>6, <2>7, <2>8
<1>5. CASE base' = PutBuf(base, "QUEUED", b) /\ UNCHANGED <<data, evt>>
  <2>1. Touches(base, base', b, base.blk[b].msg) /\ base'.blk[b].que = "QUEUED"
    BY <1>0, <1>5, QueueEffect, NotElsewhere
  <2>2. BlocksCoherent'
    BY <1>0, <1>5, <2>1, OwnerKept
  <2>3. base' \in RingState /\ \A c \in Block \ {b} : base'.blk[c] = base.blk[c]
    BY <2>1 DEF Touches
  <2>4. \A n \in Msg : pc[n] \in {"ready", "mutex"} => data[n] # b /\ data'[n] = data[n]
    BY <1>0, <1>5
  <2>5. Attached'
    BY <2>3, <2>4, OthersAttached
  <2>6. \A c \in Block : base'.blk[c].que = "TIMED_OUT" => base.blk[c].que = "TIMED_OUT"
    BY <2>1, <2>3
  <2> QED BY <1>5, <2>2, <2>3, <2>5, <2>6 DEF TypeOK
<1> QED BY <1>1, <1>3, <1>4, <1>5

\* A block in a queue other than FREE moves to another place and keeps its message.
LEMMA MovedBlock ==
  ASSUME TypeOK, BlocksCoherent, Attached, NEW b \in Block,
         base.blk[b].que \in {"QUEUED", "SENT", "TIMED_OUT"},
         Touches(base, base', b, base.blk[b].msg), base'.blk[b].que # "FREE",
         UNCHANGED <<data, pc>>
  PROVE  BlocksCoherent' /\ Attached'
<1>1. BlocksCoherent'
  BY OwnerKept
<1>2. \A c \in Block \ {b} : base'.blk[c] = base.blk[c]
  BY DEF Touches
<1>3. \A m \in Msg : pc[m] \in {"ready", "mutex"} => data[m] # b /\ data'[m] = data[m]
  BY DEF Attached
<1> QED BY <1>1, <1>2, <1>3, OthersAttached

\* A block that leaves its queue for nowhere is claimed by who took it out.
LEMMA ClaimEffect ==
  ASSUME TypeOK, BlocksCoherent, Attached, NEW b \in Block, NEW q \in {"SENT", "TIMED_OUT"},
         base.blk[b].que = q, base' = DelBufFromQue(base, q, b, FALSE),
         UNCHANGED <<data, pc>>
  PROVE  /\ base' \in RingState /\ BlocksCoherent' /\ Attached'
         /\ b \in Block /\ base'.blk[b].que = "NONE" /\ base'.blk[b].msg \in Msg
         /\ pc'[base'.blk[b].msg] \notin {"ready", "mutex"}
         /\ \A c \in Block \ {b} : base'.blk[c] = base.blk[c]
<1>0. base \in RingState /\ Coherent(base) /\ q \in Ring /\ FALSE \in BOOLEAN
  BY CoherentBase DEF TypeOK, Ring
<1>1. Touches(base, base', b, base.blk[b].msg) /\ base'.blk[b].que = "NONE"
  <2> DEFINE o == FALSE
  <2>1. o \in BOOLEAN /\ base' = DelBufFromQue(base, q, b, o)
    OBVIOUS
  <2> HIDE DEF o
  <2>2. /\ Touches(base, DelBufFromQue(base, q, b, o), b, base.blk[b].msg)
        /\ DelBufFromQue(base, q, b, o).blk[b].que = "NONE"
    BY <1>0, <2>1, DelBufTouches
  <2> QED BY <2>1, <2>2
<1>2. /\ base' \in RingState /\ base'.blk[b].msg = base.blk[b].msg
      /\ \A c \in Block \ {b} : base'.blk[c] = base.blk[c]
  BY <1>1 DEF Touches
<1>4. BlocksCoherent' /\ Attached'
  BY <1>1, MovedBlock
<1>5. base.blk[b].msg \in Msg
  BY <1>0, RingParts DEF BlocksCoherent
<1>6. data[base.blk[b].msg] = b
  BY <1>5 DEF BlocksCoherent
<1>7. pc[base.blk[b].msg] \notin {"ready", "mutex"}
  BY <1>5, <1>6 DEF Attached
<1> QED BY <1>1, <1>2, <1>4, <1>5, <1>7

\* A confirmation keeps the invariant.
LEMMA OnCfmStep ==
  ASSUME ~SMP, IInv, NEW s \in Slot, OnCfm(s)
  PROVE  IInv'
<1>1. /\ bh.pc = "idle" /\ tm.pc = "idle" /\ fw' = fw \ {s}
      /\ UNCHANGED <<data, pool, tx, active, timer, events, pending, phase, mutex, refs, evt, pc,
                     res, cfmd, tm>>
  BY DEF OnCfm, BhRuns
<1>0. /\ TypeOK /\ BlocksCoherent /\ Attached /\ HasSlot
      /\ \A c \in Block : base.blk[c].que # "TIMED_OUT"
  BY <1>1 DEF IInv, TimerInv
<1>2. HasSlot'
  BY <1>0, <1>1 DEF HasSlot
<1>3. CASE \E b \in Elems(base.que["SENT"]) :
             /\ base' = DelBufFromQue(base, "SENT", b, FALSE)
             /\ bh' = [pc |-> "clb", slot |-> s, block |-> b]
  <2>1. PICK b \in Elems(base.que["SENT"]) :
             /\ base' = DelBufFromQue(base, "SENT", b, FALSE)
             /\ bh' = [pc |-> "clb", slot |-> s, block |-> b]
    BY <1>3
  <2>2. b \in Block /\ base.blk[b].que = "SENT"
    <3>1. base.que["SENT"] \in Seq(Block)
      BY <1>0, RingParts, NotElsewhere DEF TypeOK
    <3>2. b \in Block
      BY <3>1 DEF Elems
    <3> QED BY <1>0, <3>2, NotElsewhere DEF BlocksCoherent
  <2>3. /\ base' \in RingState /\ BlocksCoherent' /\ Attached'
        /\ b \in Block /\ base'.blk[b].que = "NONE" /\ base'.blk[b].msg \in Msg
        /\ pc'[base'.blk[b].msg] \notin {"ready", "mutex"}
        /\ \A c \in Block \ {b} : base'.blk[c] = base.blk[c]
    BY <1>0, <1>1, <2>1, <2>2, ClaimEffect
  <2>4. TypeOK'
    <3>1. bh' \in [pc : {"idle", "clb", "pump", "send"}, slot : Slot \cup {NULL},
                   block : Block \cup {NULL}]
      BY <2>1, <2>2
    <3>2. base' \in RingState /\ fw' \subseteq Slot
      BY <1>0, <1>1, <2>3 DEF TypeOK
    <3> QED BY <1>0, <1>1, <3>1, <3>2 DEF TypeOK
  <2>5. TaskletInv'
    BY <1>1, <2>1, <2>3 DEF TaskletInv, Claimed
  <2>6. TimerInv'
    BY <1>0, <1>1, <2>3 DEF TimerInv
  <2> QED BY <1>2, <2>3, <2>4, <2>5, <2>6 DEF IInv
<1>4. CASE bh' = [pc |-> "pump", slot |-> s, block |-> NULL] /\ UNCHANGED base
  <2>1. TypeOK'
    BY <1>0, <1>1, <1>4 DEF TypeOK
  <2>2. BlocksCoherent' /\ Attached'
    BY <1>1, <1>4, QuietStep
  <2>3. TaskletInv'
    BY <1>1, <1>4 DEF TaskletInv
  <2>4. TimerInv'
    BY <1>0, <1>1, <1>4 DEF TimerInv
  <2> QED BY <1>2, <2>1, <2>2, <2>3, <2>4 DEF IInv
<1> QED BY <1>3, <1>4 DEF OnCfm

\* The callback of the tasklet keeps the invariant.
LEMMA OnCfmClbStep ==
  ASSUME ~SMP, IInv, OnCfmClb
  PROVE  IInv'
<1>1. /\ bh.pc = "clb" /\ CallUsrClb(bh.block)
      /\ cfmd' = [m \in BMsg |-> cfmd[m] \/ (data[m] = bh.block)]
      /\ bh' = [bh EXCEPT !.pc = "pump", !.block = NULL]
      /\ UNCHANGED <<pool, fw, tx, active, timer, events, pending, phase, mutex, refs, pc, res, tm>>
  BY DEF OnCfmClb
<1>0. /\ TypeOK /\ BlocksCoherent /\ Attached /\ HasSlot /\ tm.pc = "idle"
      /\ \A c \in Block : base.blk[c].que # "TIMED_OUT"
      /\ bh.block \in Block /\ Claimed(bh.block) /\ bh.slot \in Slot
  BY <1>1 DEF IInv, TimerInv, TaskletInv, Claimed
<1>2. /\ base' \in RingState /\ data' \in [Msg -> Block \cup {NULL}]
      /\ evt' \in [wait : BOOLEAN, term : BOOLEAN]
      /\ BlocksCoherent' /\ Attached'
      /\ \A c \in Block : base'.blk[c].que = "TIMED_OUT" => base.blk[c].que = "TIMED_OUT"
  BY <1>0, <1>1, CallUsrClbEffect
<1>3. cfmd' \in [BMsg -> BOOLEAN]
  <2>1. \A m \in BMsg : (cfmd[m] \/ (data[m] = bh.block)) \in BOOLEAN
    OBVIOUS
  <2> QED BY <1>1, <2>1
<1>4. /\ bh' \in [pc : {"idle", "clb", "pump", "send"}, slot : Slot \cup {NULL},
                  block : Block \cup {NULL}]
      /\ bh'.pc = "pump" /\ bh'.slot \in Slot
  BY <1>0, <1>1 DEF TypeOK
<1>5. TypeOK'
  BY <1>0, <1>1, <1>2, <1>3, <1>4 DEF TypeOK
<1>6. HasSlot'
  BY <1>0, <1>1 DEF HasSlot
<1>7. TaskletInv' /\ TimerInv'
  BY <1>0, <1>1, <1>2, <1>4 DEF TaskletInv, TimerInv
<1> QED BY <1>2, <1>5, <1>6, <1>7 DEF IInv

\* mtlk_txmm_pump keeps the invariant.
LEMMA PumpStep ==
  ASSUME ~SMP, IInv, Pump
  PROVE  IInv'
<1>1. /\ bh.pc = "pump"
      /\ UNCHANGED <<data, fw, tx, active, timer, events, pending, phase, mutex, refs, evt, pc,
                     res, cfmd, tm>>
  BY DEF Pump
<1>0. /\ TypeOK /\ BlocksCoherent /\ Attached /\ HasSlot /\ tm.pc = "idle"
      /\ \A c \in Block : base.blk[c].que # "TIMED_OUT"
      /\ bh.slot \in Slot /\ base \in RingState /\ Coherent(base)
  BY <1>1, CoherentBase DEF IInv, TimerInv, TaskletInv, TypeOK
<1>2. HasSlot'
  BY <1>0, <1>1 DEF HasSlot
<1>3. CASE /\ base.que["QUEUED"] # <<>> /\ base' = PumpBlock(base, bh.slot)
           /\ bh' = [bh EXCEPT !.pc = "send"] /\ UNCHANGED pool
  <2> DEFINE b == Head(base.que["QUEUED"])
  <2>1. /\ b \in Block /\ base.blk[b].que = "QUEUED"
        /\ Touches(base, base', b, base.blk[b].msg) /\ base'.blk[b].que = "SENT"
    BY <1>0, <1>3, PumpEffect
  <2> HIDE DEF b
  <2>2. BlocksCoherent' /\ Attached'
    BY <1>0, <1>1, <2>1, MovedBlock
  <2>3. /\ bh' \in [pc : {"idle", "clb", "pump", "send"}, slot : Slot \cup {NULL},
                    block : Block \cup {NULL}]
        /\ bh'.pc = "send" /\ bh'.slot \in Slot
    BY <1>0, <1>3 DEF TypeOK
  <2>4. TypeOK'
    BY <1>0, <1>1, <1>3, <2>1, <2>3 DEF TypeOK, Touches
  <2>5. TaskletInv' /\ TimerInv'
    BY <1>0, <1>1, <2>1, <2>3 DEF TaskletInv, TimerInv, Touches
  <2> QED BY <1>2, <2>2, <2>4, <2>5 DEF IInv
<1>4. CASE pool' = pool \cup {bh.slot} /\ bh' = BhIdle /\ UNCHANGED base
  <2>1. TypeOK'
    BY <1>0, <1>1, <1>4 DEF TypeOK, BhIdle
  <2>2. BlocksCoherent' /\ Attached'
    BY <1>1, <1>4, QuietStep
  <2>3. TaskletInv' /\ TimerInv'
    BY <1>0, <1>1, <1>4 DEF TaskletInv, TimerInv, BhIdle
  <2> QED BY <1>2, <2>1, <2>2, <2>3 DEF IInv
<1> QED BY <1>3, <1>4 DEF Pump

\* The tasklet's msg_send keeps the invariant.
LEMMA PumpSendStep ==
  ASSUME ~SMP, IInv, PumpSend
  PROVE  IInv'
<1>1. /\ bh.pc = "send" /\ fw' = fw \cup {bh.slot} /\ bh' = BhIdle
      /\ UNCHANGED <<base, data, pool, tx, active, timer, events, pending, phase, mutex, refs, evt,
                     pc, res, cfmd, tm>>
  BY DEF PumpSend
<1>0. /\ TypeOK /\ HasSlot /\ tm.pc = "idle" /\ bh.slot \in Slot
      /\ \A c \in Block : base.blk[c].que # "TIMED_OUT"
  BY <1>1 DEF IInv, TimerInv, TaskletInv
<1>2. TypeOK'
  BY <1>0, <1>1 DEF TypeOK, BhIdle
<1>3. BlocksCoherent' /\ Attached'
  BY <1>1, QuietStep
<1>4. HasSlot'
  BY <1>0, <1>1 DEF HasSlot
<1>5. TaskletInv' /\ TimerInv'
  BY <1>0, <1>1 DEF TaskletInv, TimerInv, BhIdle
<1> QED BY <1>2, <1>3, <1>4, <1>5 DEF IInv

\* On one CPU the tasklet is not in the middle of something when the timer is.
LEMMA TimerAlone ==
  ASSUME ~SMP, IInv, tm.pc # "idle"
  PROVE  bh.pc = "idle"
  BY DEF IInv, TaskletInv, TypeOK

\* The blocks a scan of queue q has before it.
LEMMA ScannedType ==
  ASSUME TypeOK, BlocksCoherent, NEW q \in {"SENT", "QUEUED"}
  PROVE  /\ Scanned(q) \in Seq(Block) /\ Distinct(Scanned(q))
         /\ Elems(Scanned(q)) \subseteq Elems(base.que[q])
<1>1. base.que[q] \in Seq(Block) /\ Distinct(base.que[q])
  BY RingParts DEF TypeOK, BlocksCoherent, Ring
<1>2. <<>> \in Seq(Block) /\ Distinct(<<>>) /\ Elems(<<>>) = {}
  BY DEF Distinct, Elems
<1>3. Scanned(q) = <<>> \/ Scanned(q) = base.que[q]
  BY DEF Scanned
<1>4. CASE Scanned(q) = <<>>
  BY <1>2, <1>4
<1>5. CASE Scanned(q) = base.que[q]
  BY <1>1, <1>5
<1> QED BY <1>3, <1>4, <1>5

\* A step of the timer is done when it keeps types, blocks and its own part.
LEMMA TimerStep ==
  ASSUME ~SMP, IInv, bh.pc = "idle", UNCHANGED <<bh, tx, pc>>,
         TypeOK', BlocksCoherent', Attached', TimerInv'
  PROVE  IInv'
  BY DEF IInv, HasSlot, TaskletInv

\* The start of the timer keeps the invariant.
LEMMA OnTimerStep ==
  ASSUME ~SMP, IInv, OnTimer
  PROVE  IInv'
<1>1. /\ bh.pc = "idle"
      /\ tm' = [pc |-> "scan", que |-> "SENT", left |-> Scanned("SENT"), block |-> NULL]
      /\ UNCHANGED <<base, data, pool, fw, tx, active, timer, events, pending, phase, mutex, refs,
                     evt, pc, res, cfmd, bh>>
  BY DEF OnTimer, TmRuns
<1>0. TypeOK /\ BlocksCoherent
  BY DEF IInv
<1>2. /\ Scanned("SENT") \in Seq(Block) /\ Distinct(Scanned("SENT"))
      /\ Elems(Scanned("SENT")) \subseteq Elems(base.que["SENT"])
  BY <1>0, ScannedType
<1>3. TypeOK'
  BY <1>0, <1>1, <1>2 DEF TypeOK
<1>4. BlocksCoherent' /\ Attached'
  BY <1>1, QuietStep
<1>5. TimerInv'
  BY <1>1, <1>2 DEF TimerInv
<1> QED BY <1>1, <1>3, <1>4, <1>5, TimerStep

\* The timer's move of an expired block to TIMED_OUT keeps the invariant.
LEMMA TimerExpiresStep ==
  ASSUME ~SMP, IInv, NEW m \in Timed, TimerExpires(m)
  PROVE  IInv'
<1> DEFINE b  == Head(tm.left)
           q  == tm.que
           o  == (tm.que = "QUEUED")
           r  == DelBufFromQue(base, q, b, o)
<1>1. /\ tm.pc = "scan" /\ tm.left # <<>> /\ base' = PutBuf(r, "TIMED_OUT", b)
      /\ tm' = [tm EXCEPT !.left = Tail(@)]
      /\ UNCHANGED <<data, pool, fw, tx, active, timer, events, pending, phase, mutex, refs, evt,
                     pc, res, cfmd, bh>>
  BY DEF TimerExpires
<1>0. /\ TypeOK /\ BlocksCoherent /\ Attached /\ Coherent(base) /\ base \in RingState
      /\ Distinct(tm.left) /\ Elems(tm.left) \subseteq Elems(base.que[q]) /\ bh.pc = "idle"
      /\ tm.left \in Seq(Block) /\ q \in {"SENT", "QUEUED"} /\ q \in Ring /\ o \in BOOLEAN
  BY <1>1, CoherentBase, TimerAlone, NotElsewhere DEF IInv, TypeOK, TimerInv
<1>2. /\ b \in Block /\ b \in Elems(tm.left) /\ Tail(tm.left) \in Seq(Block)
      /\ Elems(Tail(tm.left)) = Elems(tm.left) \ {b} /\ Distinct(Tail(tm.left))
  BY <1>0, <1>1, TailElems
<1> HIDE DEF b, q, o
<1>3. base.blk[b].que = q
  BY <1>0, <1>2 DEF Coherent
<1>4. Touches(base, r, b, base.blk[b].msg) /\ r.blk[b].que = "NONE"
  BY <1>0, <1>2, <1>3, DelBufTouches
<1> HIDE DEF r
<1>5. Touches(r, base', b, r.blk[b].msg) /\ base'.blk[b].que = "TIMED_OUT"
  <2>1. r \in RingState /\ Coherent(r) /\ "TIMED_OUT" \in Ring
    BY <1>4, NotElsewhere DEF Touches
  <2>2. /\ Touches(r, PutBuf(r, "TIMED_OUT", b), b, r.blk[b].msg)
        /\ PutBuf(r, "TIMED_OUT", b).blk[b].que = "TIMED_OUT"
    BY <1>2, <1>4, <2>1, QueueEffect
  <2> QED BY <1>1, <2>2
<1>6. Touches(base, base', b, base.blk[b].msg)
  BY <1>4, <1>5 DEF Touches
<1>7. BlocksCoherent' /\ Attached'
  BY <1>0, <1>1, <1>2, <1>3, <1>5, <1>6, MovedBlock
<1>8. /\ tm' \in [pc : {"idle", "scan", "drain", "clb"}, que : {"SENT", "QUEUED"},
                  left : Seq(Block), block : Block \cup {NULL}]
      /\ tm'.pc = "scan" /\ tm'.left = Tail(tm.left) /\ tm'.que = q
  BY <1>0, <1>1, <1>2 DEF TypeOK, q
<1>9. TypeOK'
  BY <1>0, <1>1, <1>6, <1>8 DEF TypeOK, Touches
<1>10. TimerInv'
  <2>1. ASSUME NEW c \in Elems(Tail(tm.left)) PROVE c \in Elems(base'.que[q])
    <3>0. \A d \in Elems(tm.left) : d \in Block
      BY <1>0 DEF Elems
    <3>1. c \in Block \ {b} /\ c \in Elems(base.que[q])
      BY <1>0, <1>2, <2>1, <3>0
    <3>2. base'.blk[c].que = q
      BY <1>0, <1>6, <3>1 DEF Touches, Coherent
    <3> QED BY <1>0, <1>6, <3>1, <3>2 DEF Touches, Coherent
  <2> QED BY <1>2, <1>8, <2>1 DEF TimerInv
<1> QED BY <1>0, <1>1, <1>7, <1>9, <1>10, TimerStep

\* Passing a block over, or ending the scan, keeps the invariant.
LEMMA TimerSkipsStep ==
  ASSUME ~SMP, IInv, TimerSkips
  PROVE  IInv'
<1>1. /\ tm.pc = "scan"
      /\ \/ tm.left # <<>> /\ tm' = [tm EXCEPT !.left = Tail(@)]
         \/ tm' = [tm EXCEPT !.pc = "drain"]
      /\ UNCHANGED <<base, data, pool, fw, tx, active, timer, events, pending, phase, mutex, refs,
                     evt, pc, res, cfmd, bh>>
  BY DEF TimerSkips
<1>0. /\ TypeOK /\ Distinct(tm.left) /\ Elems(tm.left) \subseteq Elems(base.que[tm.que])
      /\ bh.pc = "idle" /\ tm.left \in Seq(Block)
  BY <1>1, TimerAlone DEF IInv, TypeOK, TimerInv
<1>2. BlocksCoherent' /\ Attached'
  BY <1>1, QuietStep
<1>3. CASE tm.left # <<>> /\ tm' = [tm EXCEPT !.left = Tail(@)]
  <2>1. /\ Tail(tm.left) \in Seq(Block) /\ Distinct(Tail(tm.left))
        /\ Elems(Tail(tm.left)) = Elems(tm.left) \ {Head(tm.left)}
    BY <1>0, <1>3, TailElems
  <2>2. /\ tm' \in [pc : {"idle", "scan", "drain", "clb"}, que : {"SENT", "QUEUED"},
                    left : Seq(Block), block : Block \cup {NULL}]
        /\ tm'.pc = "scan" /\ tm'.left = Tail(tm.left) /\ tm'.que = tm.que
    BY <1>0, <1>1, <1>3, <2>1 DEF TypeOK
  <2>3. TypeOK'
    BY <1>0, <1>1, <2>2 DEF TypeOK
  <2>4. TimerInv'
    BY <1>0, <1>1, <2>1, <2>2 DEF TimerInv
  <2> QED BY <1>0, <1>1, <1>2, <2>3, <2>4, TimerStep
<1>4. CASE tm' = [tm EXCEPT !.pc = "drain"]
  <2>1. /\ tm' \in [pc : {"idle", "scan", "drain", "clb"}, que : {"SENT", "QUEUED"},
                    left : Seq(Block), block : Block \cup {NULL}]
        /\ tm'.pc = "drain"
    BY <1>0, <1>4 DEF TypeOK
  <2>2. TypeOK'
    BY <1>0, <1>1, <2>1 DEF TypeOK
  <2>3. TimerInv'
    BY <2>1 DEF TimerInv
  <2> QED BY <1>0, <1>1, <1>2, <2>2, <2>3, TimerStep
<1> QED BY <1>1, <1>3, <1>4

\* The timer's second loop keeps the invariant.
LEMMA TimerDrainsStep ==
  ASSUME ~SMP, IInv, TimerDrains
  PROVE  IInv'
<1>1. /\ tm.pc = "drain"
      /\ UNCHANGED <<data, pool, fw, tx, active, timer, events, pending, phase, mutex, refs, evt,
                     pc, res, cfmd, bh>>
  BY DEF TimerDrains
<1>0. /\ TypeOK /\ BlocksCoherent /\ Attached /\ Coherent(base) /\ base \in RingState
      /\ bh.pc = "idle"
  BY <1>1, TimerAlone, CoherentBase DEF IInv, TypeOK
<1>2. CASE /\ base.que["TIMED_OUT"] # <<>>
           /\ base' = DelBufFromQue(base, "TIMED_OUT", Head(base.que["TIMED_OUT"]), FALSE)
           /\ tm' = [tm EXCEPT !.pc = "clb", !.block = Head(base.que["TIMED_OUT"])]
  <2> DEFINE b == Head(base.que["TIMED_OUT"])
  <2>1. b \in Block /\ base.blk[b].que = "TIMED_OUT"
    BY <1>0, <1>2, FirstOf, NotElsewhere
  <2>2. base' = DelBufFromQue(base, "TIMED_OUT", b, FALSE) /\ tm' = [tm EXCEPT !.pc = "clb", !.block = b]
    BY <1>2
  <2> HIDE DEF b
  <2>3. /\ base' \in RingState /\ BlocksCoherent' /\ Attached'
        /\ b \in Block /\ base'.blk[b].que = "NONE" /\ base'.blk[b].msg \in Msg
        /\ pc'[base'.blk[b].msg] \notin {"ready", "mutex"}
    BY <1>0, <1>1, <2>1, <2>2, ClaimEffect
  <2>4. /\ tm' \in [pc : {"idle", "scan", "drain", "clb"}, que : {"SENT", "QUEUED"},
                    left : Seq(Block), block : Block \cup {NULL}]
        /\ tm'.pc = "clb" /\ tm'.block = b
    BY <1>0, <2>1, <2>2 DEF TypeOK
  <2>5. TypeOK'
    BY <1>0, <1>1, <2>3, <2>4 DEF TypeOK
  <2>6. TimerInv'
    BY <2>3, <2>4 DEF TimerInv, Claimed
  <2> QED BY <1>0, <1>1, <2>3, <2>5, <2>6, TimerStep
<1>3. CASE /\ tm' = [pc |-> "scan", que |-> "QUEUED", left |-> Scanned("QUEUED"), block |-> NULL]
           /\ UNCHANGED base
  <2>1. /\ Scanned("QUEUED") \in Seq(Block) /\ Distinct(Scanned("QUEUED"))
        /\ Elems(Scanned("QUEUED")) \subseteq Elems(base.que["QUEUED"])
    BY <1>0, ScannedType
  <2>2. TypeOK'
    BY <1>0, <1>1, <1>3, <2>1 DEF TypeOK
  <2>3. TimerInv'
    BY <1>3, <2>1 DEF TimerInv
  <2>4. BlocksCoherent' /\ Attached'
    BY <1>1, <1>3, QuietStep
  <2> QED BY <1>0, <1>1, <2>2, <2>3, <2>4, TimerStep
<1>4. CASE base.que["TIMED_OUT"] = <<>> /\ tm' = TmIdle /\ UNCHANGED base
  <2>1. Elems(base.que["TIMED_OUT"]) = {}
    BY <1>4 DEF Elems
  <2>2. \A b \in Block : base'.blk[b].que # "TIMED_OUT"
    BY <1>0, <1>4, <2>1, NotElsewhere DEF Coherent
  <2>3. TypeOK'
    BY <1>0, <1>1, <1>4 DEF TypeOK, TmIdle
  <2>4. TimerInv'
    BY <1>4, <2>2 DEF TimerInv, TmIdle
  <2>5. BlocksCoherent' /\ Attached'
    BY <1>1, <1>4, QuietStep
  <2> QED BY <1>0, <1>1, <2>3, <2>4, <2>5, TimerStep
<1> QED BY <1>2, <1>3, <1>4 DEF TimerDrains

\* The callback of the timer keeps the invariant.
LEMMA TimerClbStep ==
  ASSUME ~SMP, IInv, TimerClb
  PROVE  IInv'
<1>1. /\ tm.pc = "clb" /\ CallUsrClb(tm.block) /\ tm' = [tm EXCEPT !.pc = "drain", !.block = NULL]
      /\ UNCHANGED <<pool, fw, tx, active, timer, events, pending, phase, mutex, refs, pc, res,
                     cfmd, bh>>
  BY DEF TimerClb
<1>0. /\ TypeOK /\ BlocksCoherent /\ Attached /\ bh.pc = "idle"
      /\ tm.block \in Block /\ Claimed(tm.block)
  BY <1>1, TimerAlone DEF IInv, TimerInv, Claimed
<1>2. /\ base' \in RingState /\ data' \in [Msg -> Block \cup {NULL}]
      /\ evt' \in [wait : BOOLEAN, term : BOOLEAN]
      /\ BlocksCoherent' /\ Attached'
  BY <1>0, <1>1, CallUsrClbEffect
<1>3. /\ tm' \in [pc : {"idle", "scan", "drain", "clb"}, que : {"SENT", "QUEUED"},
                  left : Seq(Block), block : Block \cup {NULL}]
      /\ tm'.pc = "drain"
  BY <1>0, <1>1 DEF TypeOK
<1>4. TypeOK'
  BY <1>0, <1>1, <1>2, <1>3 DEF TypeOK
<1>5. TimerInv'
  BY <1>3 DEF TimerInv
<1> QED BY <1>0, <1>1, <1>2, <1>4, <1>5, TimerStep

-----------------------------------------------------------------------------
(***************************************************************************)
(* Faults, recovery and shutdown, and the theorems.                        *)
(***************************************************************************)

\* None of the control steps touches a block or a process.
LEMMA ControlStep ==
  ASSUME ~SMP, IInv, Control
  PROVE  IInv'
<1>1. /\ bh.pc = "idle" /\ tm.pc = "idle"
      /\ UNCHANGED <<base, data, tx, mutex, pc, res, cfmd, bh, tm>>
  BY DEF Control, MacFatal, Halt, Isolate, Restore, StopCard, CleanupBegins, CleanupEnds, ProcessRuns
<1>0. TypeOK /\ HasSlot /\ TimerInv
  BY DEF IInv
<1>2. TypeOK'
  <2>1. /\ pool' \subseteq Slot /\ fw' \subseteq Slot
        /\ phase' \in {"run", "isolated", "stopped", "closing", "gone"}
        /\ refs' \in Int
    BY <1>0 DEF Control, MacFatal, Halt, Isolate, Restore, StopCard, CleanupBegins, CleanupEnds,
                TypeOK, RmlockRelease
  <2>2. /\ active' \in BOOLEAN /\ timer' \in BOOLEAN /\ events' \in BOOLEAN /\ pending' \in BOOLEAN
    BY <1>0 DEF Control, MacFatal, Halt, Isolate, Restore, StopCard, CleanupBegins, CleanupEnds,
                TypeOK
  <2>3. evt' \in [wait : BOOLEAN, term : BOOLEAN]
    <3>1. EventSet \in [wait : BOOLEAN, term : BOOLEAN]
      BY <1>0 DEF TypeOK, EventSet
    <3>2. EventTerminate \in [wait : BOOLEAN, term : BOOLEAN]
      BY DEF EventTerminate
    <3>3. evt' = evt \/ evt' = EventSet \/ evt' = EventTerminate
      BY DEF Control, MacFatal, Halt, Isolate, Restore, StopCard, CleanupBegins, CleanupEnds
    <3> QED BY <1>0, <3>1, <3>2, <3>3 DEF TypeOK
  <2> QED BY <1>0, <1>1, <2>1, <2>2, <2>3 DEF TypeOK
<1>3. BlocksCoherent' /\ Attached'
  BY <1>1, QuietStep
<1>4. HasSlot'
  BY <1>0, <1>1 DEF HasSlot
<1>5. TaskletInv' /\ TimerInv'
  BY <1>0, <1>1, IdleInvs DEF TimerInv
<1> QED BY <1>2, <1>3, <1>4, <1>5 DEF IInv

\* mtlk_txmm_init leaves every block in FREE and nothing under way.
LEMMA InitIInv == Init => IInv
<1> SUFFICES ASSUME Init PROVE IInv
  OBVIOUS
<1>1. PICK s \in [1 .. Cardinality(Block) -> Block] :
        /\ Elems(s) = Block /\ Distinct(s)
        /\ base = [que |-> [q \in Ring |-> IF q = "FREE" THEN s ELSE <<>>],
                   blk |-> [b \in Block |-> ZeroBlock]]
  BY DEF Init
<1>2. s \in Seq(Block)
  <2>1. Cardinality(Block) \in Nat
    BY FS_CardinalityType, ConstantsAssumption
  <2> QED BY <2>1
<1>3. /\ base.que["FREE"] = s /\ \A q \in Ring \ {"FREE"} : base.que[q] = <<>>
      /\ \A b \in Block : base.blk[b] = ZeroBlock
      /\ base.que \in [Ring -> Seq(Block)]
  BY <1>1, <1>2, NotElsewhere
<1>4. ZeroBlock \in BlockState /\ ZeroBlock.que = "FREE" /\ ZeroBlock.msg = NULL
  BY DEF ZeroBlock, BlockState, Ring
<1>5. base \in RingState
  BY <1>1, <1>3, <1>4 DEF RingState
<1>6. TypeOK
  <2>1. /\ data \in [Msg -> Block \cup {NULL}] /\ tx \in [Msg -> Slot \cup {NULL}]
        /\ pool \subseteq Slot /\ fw \subseteq Slot /\ refs \in Int
        /\ phase \in {"run", "isolated", "stopped", "closing", "gone"}
        /\ mutex \in BMsg \cup {NULL}
        /\ pc \in [Msg -> {"idle", "ready", "mutex", "sending", "waiting", "done"}]
        /\ res \in [BMsg -> {"NONE", "OK", "TIMEOUT"}]
    BY DEF Init
  <2>2. /\ active \in BOOLEAN /\ timer \in BOOLEAN /\ events \in BOOLEAN /\ pending \in BOOLEAN
        /\ evt \in [wait : BOOLEAN, term : BOOLEAN]
    BY DEF Init
  <2>3. cfmd \in [BMsg -> BOOLEAN]
    BY DEF Init
  <2>4. /\ bh \in [pc : {"idle", "clb", "pump", "send"}, slot : Slot \cup {NULL},
                   block : Block \cup {NULL}]
        /\ tm \in [pc : {"idle", "scan", "drain", "clb"}, que : {"SENT", "QUEUED"},
                   left : Seq(Block), block : Block \cup {NULL}]
    BY DEF Init, BhIdle, TmIdle
  <2> QED BY <1>5, <2>1, <2>2, <2>3, <2>4 DEF TypeOK
<1>7. BlocksCoherent
  <2>1. Elems(<<>>) = {} /\ Distinct(<<>>)
    BY DEF Elems, Distinct
  <2>2. \A q \in Ring : Distinct(base.que[q])
    BY <1>1, <1>3, <2>1
  <2>3. \A b \in Block, q \in Ring : b \in Elems(base.que[q]) <=> base.blk[b].que = q
    BY <1>1, <1>3, <1>4, <2>1
  <2>4. \A b \in Block, m \in Msg : base.blk[b].msg = m <=> data[m] = b
    BY <1>3, <1>4, ConstantsAssumption DEF Init
  <2> QED BY <1>3, <1>4, <2>2, <2>3, <2>4 DEF BlocksCoherent
<1>8. Attached
  BY <1>3, <1>4 DEF Init, Attached
<1>9. HasSlot
  BY <1>3, <1>4 DEF Init, HasSlot
<1>10. TaskletInv
  BY <1>3, <1>4 DEF Init, TaskletInv, BhIdle
<1>11. TimerInv
  BY <1>3, <1>4 DEF Init, TimerInv, TmIdle
<1> QED BY <1>6, <1>7, <1>8, <1>9, <1>10, <1>11 DEF IInv

\* On one CPU every step of the layer, its users, the tasklet, the timer and
\* the recovery keeps the invariant.
LEMMA NextIInv ==
  ASSUME ~SMP, IInv, [Next]_vars
  PROVE  IInv'
<1>1. ASSUME NEW m \in Msg, User(m) PROVE IInv'
  BY <1>1, GetEmptyDataStep, MsgSendAsyncStep, SendBlockedEnterStep, SendBlockedLockedStep,
     MsgSendStep, SendBlockedReturnStep, MsgCancelStep DEF User
<1>2. CASE Tasklet
  BY <1>2, OnCfmStep, OnCfmClbStep, PumpStep, PumpSendStep DEF Tasklet
<1>3. CASE Timer
  BY <1>3, OnTimerStep, TimerExpiresStep, TimerSkipsStep, TimerDrainsStep, TimerClbStep DEF Timer
<1>4. CASE Control
  BY <1>4, ControlStep
<1>5. CASE UNCHANGED vars
  BY <1>5 DEF vars, IInv, TypeOK, BlocksCoherent, Attached, HasSlot, TaskletInv, TimerInv, Claimed
<1> QED BY <1>1, <1>2, <1>3, <1>4, <1>5 DEF Next

\* The inductive invariant holds of the layer on one CPU.
THEOREM TxmmInvariance ==
  ASSUME ~SMP
  PROVE  Spec => []IInv
<1>1. Init => IInv
  BY InitIInv
<1>2. IInv /\ [Next]_vars => IInv'
  BY NextIInv
<1> QED BY <1>1, <1>2, PTL DEF Spec

\* Type correctness of the layer on one CPU.
THEOREM TxmmTypeCorrect ==
  ASSUME ~SMP
  PROVE  Spec => []TypeOK
<1>1. IInv => TypeOK
  BY DEF IInv
<1> QED BY <1>1, TxmmInvariance, PTL

\* However confirmations, timeouts, cancellations, faults, recovery and
\* shutdown interleave on one CPU, every block is once in the queue its field
\* names, is free exactly when no message holds it, and is held by one message.
THEOREM BlocksAlwaysCoherent ==
  ASSUME ~SMP
  PROVE  Spec => []BlocksCoherent
<1>1. IInv => BlocksCoherent
  BY DEF IInv
<1> QED BY <1>1, TxmmInvariance, PTL

\* On one CPU the assertion of _mtlk_txmm_call_usr_clb_locked holds: the block
\* that tasklet or timer claimed still has its message when it is called back.
THEOREM ClaimedAlwaysOwned ==
  ASSUME ~SMP
  PROVE  Spec => []ClaimedBlockOwned
<1>1. IInv => ClaimedBlockOwned
  BY ConstantsAssumption DEF IInv, TaskletInv, TimerInv, Claimed, ClaimedBlockOwned
<1> QED BY <1>1, TxmmInvariance, PTL

-----------------------------------------------------------------------------
(***************************************************************************)
(* What a step does to the blocks that are queued and sent.                *)
(***************************************************************************)

\* No block is sent, and none changes while it is.
NothingSent == \A c \in Block : base'.blk[c].que = "SENT" => base'.blk[c] = base.blk[c]

\* No block is queued.
NothingQueued == \A c \in Block : base'.blk[c].que = "QUEUED" => base.blk[c].que = "QUEUED"

\* Block `d' is sent in descriptor `x', and no other.
SentIn(d, x) ==
  /\ d \in Block /\ base.blk[d].que # "SENT"
  /\ base'.blk[d].que = "SENT" /\ base'.blk[d].slot = x
  /\ \A c \in Block \ {d} : base'.blk[c].que = "SENT" => base'.blk[c] = base.blk[c]

\* The facts about queues and blocks that the lemmas below start from.
LEMMA BaseFacts ==
  ASSUME IInv
  PROVE  /\ TypeOK /\ BlocksCoherent /\ Attached /\ HasSlot /\ TaskletInv /\ TimerInv
         /\ base \in RingState /\ Coherent(base)
         /\ "QUEUED" \in Ring /\ "SENT" \in Ring /\ "TIMED_OUT" \in Ring /\ "FREE" \in Ring
         /\ \A b \in Block : base.blk[b] \in BlockState
  BY CoherentBase, NotElsewhere, RingParts DEF IInv, TypeOK

\* A queue is empty exactly when no block names it.
LEMMA QueueEmpty ==
  ASSUME NEW r \in RingState, Coherent(r), NEW q \in Ring
  PROVE  r.que[q] = <<>> <=> \A b \in Block : r.blk[b].que # q
<1>1. r.que[q] \in Seq(Block)
  BY RingParts
<1>2. CASE r.que[q] = <<>>
  <2>1. Elems(r.que[q]) = {}
    BY <1>2 DEF Elems
  <2> QED BY <1>2, <2>1 DEF Coherent
<1>3. CASE r.que[q] # <<>>
  <2>1. Head(r.que[q]) \in Block /\ r.blk[Head(r.que[q])].que = q
    BY <1>3, FirstOf
  <2> QED BY <1>3, <2>1
<1> QED BY <1>2, <1>3

\* A change of one block that ends in none of the two queues.
LEMMA TouchedQuietly ==
  ASSUME NEW b \in Block, NEW m, Touches(base, base', b, m),
         base'.blk[b].que \notin {"SENT", "QUEUED"}
  PROVE  NothingSent /\ NothingQueued
  BY DEF Touches, NothingSent, NothingQueued

\* A step that leaves the queues alone.
LEMMA BaseUnchanged == UNCHANGED base => NothingSent /\ NothingQueued
  BY DEF NothingSent, NothingQueued

\* mtlk_txmm_msg_get_empty_data sends and queues nothing.
LEMMA GetEmptyDataBase ==
  ASSUME IInv, NEW m \in Msg, GetEmptyData(m) PROVE NothingSent /\ NothingQueued
<1>1. base.que["FREE"] # <<>>
  BY DEF GetEmptyData
<1> DEFINE b == Head(base.que["FREE"])
<1>2. b \in Block /\ Touches(base, base', b, m) /\ base'.blk[b].que = "NONE"
  BY <1>1, BaseFacts, AttachEffect DEF GetEmptyData
<1> QED BY <1>2, TouchedQuietly

\* Neither does mtlk_txmm_msg_cancel.
LEMMA MsgCancelBase ==
  ASSUME ~SMP, IInv, NEW m \in Msg, MsgCancel(m) PROVE NothingSent /\ NothingQueued
<1> DEFINE b == data[m]
<1>1. ProcessRuns(m) /\ b # NULL /\ base' = Free(base, b)
  BY DEF MsgCancel
<1>2. b \in Block /\ base.blk[b].que # "FREE"
  BY <1>1, BaseFacts, HeldBlock
<1>3. base.blk[b].que # "TIMED_OUT"
  BY <1>1, <1>2, NothingTimedOut
<1>4. base.blk[b].que \in {"QUEUED", "SENT", "NONE"}
  BY <1>2, <1>3, BaseFacts, RingParts DEF Ring
<1>5. Touches(base, base', b, NULL) /\ base'.blk[b].que = "FREE"
  BY <1>1, <1>2, <1>4, BaseFacts, FreeEffect
<1> QED BY <1>2, <1>5, TouchedQuietly

\* A block that is claimed leaves its queue.
LEMMA ClaimBase ==
  ASSUME IInv, NEW b \in Block, NEW q \in {"SENT", "TIMED_OUT"}, base.blk[b].que = q,
         base' = DelBufFromQue(base, q, b, FALSE)
  PROVE  /\ NothingSent /\ NothingQueued
         /\ base'.blk[b].que = "NONE" /\ base'.blk[b].msg = base.blk[b].msg
         /\ \A c \in Block \ {b} : base'.blk[c] = base.blk[c]
<1>1. q \in Ring
  BY DEF Ring
<1> DEFINE o == FALSE
<1>2. o \in BOOLEAN /\ base' = DelBufFromQue(base, q, b, o)
  OBVIOUS
<1> HIDE DEF o
<1>3. Touches(base, base', b, base.blk[b].msg) /\ base'.blk[b].que = "NONE"
  <2>1. base \in RingState /\ Coherent(base)
    BY BaseFacts
  <2>2. /\ Touches(base, DelBufFromQue(base, q, b, o), b, base.blk[b].msg)
        /\ DelBufFromQue(base, q, b, o).blk[b].que = "NONE"
    BY <1>1, <1>2, <2>1, DelBufTouches
  <2> QED BY <1>2, <2>2
<1> QED BY <1>3, TouchedQuietly DEF Touches

\* A confirmation takes its block out of SENT.
LEMMA OnCfmBase ==
  ASSUME IInv, NEW s \in Slot, OnCfm(s)
  PROVE  /\ NothingSent /\ NothingQueued
         /\ \/ \E b \in Block : /\ base.blk[b].que = "SENT" /\ base.blk[b].slot = s
                                /\ bh' = [pc |-> "clb", slot |-> s, block |-> b]
                                /\ base'.blk[b].que = "NONE"
                                /\ \A c \in Block \ {b} : base'.blk[c] = base.blk[c]
            \/ /\ \A b \in Block : base.blk[b].que = "SENT" => base.blk[b].slot # s
               /\ bh' = [pc |-> "pump", slot |-> s, block |-> NULL]
               /\ UNCHANGED base
<1>1. \A b \in Block : b \in Elems(base.que["SENT"]) <=> base.blk[b].que = "SENT"
  BY BaseFacts DEF Coherent
<1>2. \A b \in Elems(base.que["SENT"]) : b \in Block
  <2>1. base.que["SENT"] \in Seq(Block)
    BY BaseFacts, RingParts
  <2> QED BY <2>1 DEF Elems
<1>3. CASE \E b \in Elems(base.que["SENT"]) :
             /\ base.blk[b].slot = s
             /\ base' = DelBufFromQue(base, "SENT", b, FALSE)
             /\ bh' = [pc |-> "clb", slot |-> s, block |-> b]
  <2>1. PICK b \in Block : /\ base.blk[b].que = "SENT" /\ base.blk[b].slot = s
                           /\ base' = DelBufFromQue(base, "SENT", b, FALSE)
                           /\ bh' = [pc |-> "clb", slot |-> s, block |-> b]
    BY <1>1, <1>2, <1>3
  <2>2. /\ NothingSent /\ NothingQueued /\ base'.blk[b].que = "NONE"
        /\ \A c \in Block \ {b} : base'.blk[c] = base.blk[c]
    BY <2>1, ClaimBase
  <2> QED BY <2>1, <2>2
<1>4. CASE /\ \A b \in Elems(base.que["SENT"]) : base.blk[b].slot # s
           /\ bh' = [pc |-> "pump", slot |-> s, block |-> NULL]
           /\ UNCHANGED base
  BY <1>1, <1>4, BaseUnchanged
<1> QED BY <1>3, <1>4 DEF OnCfm

\* A callback sends nothing; it queues only when it asks for a re-send.
LEMMA CallUsrClbBase ==
  ASSUME IInv, NEW b \in Block, Claimed(b), CallUsrClb(b)
  PROVE  /\ NothingSent /\ ("SEND" \notin ClbActions => NothingQueued)
         /\ \A c \in Block \ {b} : base'.blk[c] = base.blk[c]
         /\ base'.blk[b].que # "TIMED_OUT"
         /\ \A n \in BMsg : data'[n] = data[n]
         /\ evt' = evt \/ (evt' = EventSet /\ base.blk[b].msg \in BMsg)
<1> DEFINE m == base.blk[b].msg
<1>1. m \in Msg /\ base.blk[b].que = "NONE"
  BY DEF Claimed
<1>2. \/ UNCHANGED <<base, data>> /\ (evt' = evt \/ (evt' = EventSet /\ m \in BMsg))
      \/ base' = FreeBuf(base, b) /\ data' = [data EXCEPT ![m] = NULL] /\ UNCHANGED evt /\ m \in AMsg
      \/ base' = PutBuf(base, "QUEUED", b) /\ UNCHANGED <<data, evt>> /\ "SEND" \in ClbActions
  BY DEF CallUsrClb
<1> HIDE DEF m
<1>3. CASE UNCHANGED <<base, data>> /\ (evt' = evt \/ (evt' = EventSet /\ m \in BMsg))
  BY <1>1, <1>3, BaseUnchanged DEF m
<1>4. CASE base' = FreeBuf(base, b) /\ data' = [data EXCEPT ![m] = NULL] /\ UNCHANGED evt /\ m \in AMsg
  <2>1. base' \in RingState /\ base'.blk = [base.blk EXCEPT ![b] = ZeroBlock]
    BY <1>1, <1>4, BaseFacts, FreeBufEffect
  <2>2. /\ base'.blk[b].que = "FREE"
        /\ \A c \in Block \ {b} : base'.blk[c] = base.blk[c]
    BY <2>1, BaseFacts, RingParts DEF ZeroBlock
  <2>3. \A n \in BMsg : data'[n] = data[n]
    BY <1>4, BaseFacts DEF AMsg, TypeOK
  <2> QED BY <1>4, <2>2, <2>3 DEF NothingSent, NothingQueued
<1>5. CASE base' = PutBuf(base, "QUEUED", b) /\ UNCHANGED <<data, evt>> /\ "SEND" \in ClbActions
  <2>1. Touches(base, base', b, base.blk[b].msg) /\ base'.blk[b].que = "QUEUED"
    BY <1>1, <1>5, BaseFacts, QueueEffect
  <2> QED BY <1>5, <2>1 DEF Touches, NothingSent
<1> QED BY <1>2, <1>3, <1>4, <1>5

\* The timer moves an expired block of an asynchronous message to TIMED_OUT.
LEMMA TimerExpiresBase ==
  ASSUME IInv, NEW m \in Timed, TimerExpires(m)
  PROVE  /\ NothingSent /\ NothingQueued
         /\ \E b \in Block : /\ base.blk[b].que \in {"SENT", "QUEUED"} /\ base'.blk[b].msg = m
                             /\ base'.blk[b].que = "TIMED_OUT"
                             /\ \A c \in Block \ {b} : base'.blk[c] = base.blk[c]
<1> DEFINE b  == Head(tm.left)
           q  == tm.que
           o  == (tm.que = "QUEUED")
           r  == DelBufFromQue(base, q, b, o)
<1>1. /\ tm.pc = "scan" /\ tm.left # <<>> /\ base' = PutBuf(r, "TIMED_OUT", b)
      /\ base.blk[b].msg = m
  BY DEF TimerExpires
<1>2. /\ Elems(tm.left) \subseteq Elems(base.que[q])
      /\ tm.left \in Seq(Block) /\ q \in {"SENT", "QUEUED"} /\ q \in Ring /\ o \in BOOLEAN
  BY <1>1, BaseFacts DEF TypeOK, TimerInv
<1>3. b \in Block /\ b \in Elems(tm.left)
  BY <1>1, <1>2, BaseFacts, TailElems DEF TimerInv
<1> HIDE DEF b, q, o
<1>4. base.blk[b].que = q
  BY <1>2, <1>3, BaseFacts DEF Coherent
<1>5. Touches(base, r, b, base.blk[b].msg) /\ r.blk[b].que = "NONE"
  BY <1>2, <1>3, <1>4, BaseFacts, DelBufTouches
<1> HIDE DEF r
<1>6. r \in RingState /\ Coherent(r) /\ r.blk[b].msg = m
  BY <1>1, <1>5 DEF Touches
<1>7. Touches(r, base', b, m) /\ base'.blk[b].que = "TIMED_OUT"
  BY <1>1, <1>3, <1>5, <1>6, BaseFacts, QueueEffect
<1>8. Touches(base, base', b, m)
  BY <1>5, <1>7 DEF Touches
<1>9. base'.blk[b].msg = m /\ \A c \in Block \ {b} : base'.blk[c] = base.blk[c]
  BY <1>8 DEF Touches
<1> QED BY <1>2, <1>3, <1>4, <1>7, <1>8, <1>9, TouchedQuietly

\* The timer claims the blocks of TIMED_OUT.
LEMMA TimerDrainsBase ==
  ASSUME IInv, TimerDrains
  PROVE  /\ NothingSent /\ NothingQueued
         /\ \/ \E b \in Block : /\ base.blk[b].que = "TIMED_OUT" /\ base'.blk[b].que = "NONE"
                                /\ base'.blk[b].msg = base.blk[b].msg
                                /\ \A c \in Block \ {b} : base'.blk[c] = base.blk[c]
                                /\ tm'.pc = "clb" /\ tm'.block = b
            \/ UNCHANGED base /\ tm'.pc # "clb"
<1>1. CASE UNCHANGED base /\ tm'.pc # "clb"
  BY <1>1, BaseUnchanged
<1>2. CASE /\ base.que["TIMED_OUT"] # <<>>
           /\ LET b == Head(base.que["TIMED_OUT"])
              IN  /\ base' = DelBufFromQue(base, "TIMED_OUT", b, FALSE)
                  /\ tm' = [tm EXCEPT !.pc = "clb", !.block = b]
  <2> DEFINE b == Head(base.que["TIMED_OUT"])
  <2>1. b \in Block /\ base.blk[b].que = "TIMED_OUT"
    BY <1>2, BaseFacts, FirstOf
  <2>2. base' = DelBufFromQue(base, "TIMED_OUT", b, FALSE) /\ tm'.pc = "clb" /\ tm'.block = b
    BY <1>2, BaseFacts DEF TypeOK
  <2> HIDE DEF b
  <2>3. /\ NothingSent /\ NothingQueued
        /\ base'.blk[b].que = "NONE" /\ base'.blk[b].msg = base.blk[b].msg
        /\ \A c \in Block \ {b} : base'.blk[c] = base.blk[c]
    BY <2>1, <2>2, ClaimBase
  <2> QED BY <2>1, <2>2, <2>3
<1>3. TmIdle.pc # "clb"
  BY DEF TmIdle
<1>4. tm'.pc # "clb" \/ base.que["TIMED_OUT"] # <<>>
  <2> SUFFICES ASSUME base.que["TIMED_OUT"] = <<>> PROVE tm'.pc # "clb"
    OBVIOUS
  <2>1. PICK l : l = Scanned("QUEUED")
    OBVIOUS
  <2>2. \/ tm' = [pc |-> "scan", que |-> "QUEUED", left |-> l, block |-> NULL]
        \/ tm' = TmIdle
    BY <2>1 DEF TimerDrains
  <2> QED BY <1>3, <2>2
<1>5. base.que["TIMED_OUT"] = <<>> => UNCHANGED base
  BY DEF TimerDrains
<1>6. CASE base.que["TIMED_OUT"] = <<>>
  BY <1>1, <1>4, <1>5, <1>6
<1>7. CASE base.que["TIMED_OUT"] # <<>>
  BY <1>2, <1>7 DEF TimerDrains
<1> QED BY <1>6, <1>7

\* _mtlk_txmm_send_block_prepare changes one block.
LEMMA PrepareBlock ==
  ASSUME NEW r, r.blk \in [Block -> BlockState], NEW b \in Block, NEW x \in Slot
  PROVE  /\ SendBlockPrepare(r, b, x).blk[b].que = "SENT"
         /\ SendBlockPrepare(r, b, x).blk[b].slot = x
         /\ \A c \in Block \ {b} : SendBlockPrepare(r, b, x).blk[c] = r.blk[c]
<1> DEFINE v == [r.blk[b] EXCEPT !.slot = x]
           w == [v EXCEPT !.que = "SENT"]
<1>1. v \in BlockState /\ v.slot = x
  BY DEF BlockState
<1>2. w.que = "SENT" /\ w.slot = x
  BY <1>1, NotElsewhere DEF BlockState
<1>3. SendBlockPrepare(r, b, x).blk = [[r.blk EXCEPT ![b] = v] EXCEPT ![b].que = "SENT"]
  BY DEF SendBlockPrepare, PutBuf, SetBlock
<1> HIDE DEF v
<1>4. SendBlockPrepare(r, b, x).blk = [r.blk EXCEPT ![b] = w]
  BY <1>1, <1>3
<1> HIDE DEF w
<1> QED BY <1>2, <1>4

\* The first of a queue stays the first when a block is appended.
LEMMA HeadAppend ==
  ASSUME NEW S, NEW s \in Seq(S), s # <<>>, NEW e \in S PROVE Head(Append(s, e)) = Head(s)
  OBVIOUS

\* _mtlk_txmm_pump sends the first of QUEUED.
LEMMA PumpBase ==
  ASSUME NEW r, r.blk \in [Block -> BlockState], NEW x \in Slot, NEW d \in Block,
         d = Head(r.que["QUEUED"])
  PROVE  /\ PumpBlock(r, x).blk[d].que = "SENT" /\ PumpBlock(r, x).blk[d].slot = x
         /\ \A c \in Block \ {d} : PumpBlock(r, x).blk[c] = r.blk[c]
<1>1. PICK g : g = GetBuf(r, "QUEUED")
  OBVIOUS
<1>2. g.blk = r.blk
  BY <1>1 DEF GetBuf
<1>3. PumpBlock(r, x) = SendBlockPrepare(g, d, x)
  BY <1>1 DEF PumpBlock
<1>4. /\ SendBlockPrepare(g, d, x).blk[d].que = "SENT" /\ SendBlockPrepare(g, d, x).blk[d].slot = x
      /\ \A c \in Block \ {d} : SendBlockPrepare(g, d, x).blk[c] = g.blk[c]
  BY <1>2, PrepareBlock
<1> QED BY <1>2, <1>3, <1>4

\* The lock section of _mtlk_txmm_send_ex: without a descriptor the block is
\* queued, with one the first in line is sent in it.
LEMMA SendExBase ==
  ASSUME IInv, NEW m \in Msg, pc[m] \in {"ready", "mutex"}, NEW asleep, SendEx(m, asleep)
  PROVE  \/ /\ pool = {} /\ NothingSent
            /\ pc' = [pc EXCEPT ![m] = asleep] /\ UNCHANGED <<pool, tx>>
         \/ \E x \in pool, d \in Block :
              /\ pool' = pool \ {x} /\ tx' = [tx EXCEPT ![m] = x]
              /\ pc' = [pc EXCEPT ![m] = "sending"]
              /\ SentIn(d, x)
              /\ base.que["QUEUED"] # <<>> => d = Head(base.que["QUEUED"])
              /\ base.que["QUEUED"] = <<>> => NothingQueued
<1> DEFINE b == data[m]
           v == [base.blk[b] EXCEPT !.slot = NULL]
           r == SetBlock(base, b, v)
<1>0. base \in RingState /\ Coherent(base) /\ b \in Block /\ base.blk[b].que = "NONE"
  BY BaseFacts DEF Attached
<1>1. v \in BlockState /\ v.que = base.blk[b].que
  <2>1. base.blk[b] \in BlockState
    BY <1>0, RingParts
  <2> QED BY <2>1 DEF BlockState
<1>2. \/ /\ pool = {} /\ base' = PutBuf(r, "QUEUED", b)
         /\ pc' = [pc EXCEPT ![m] = asleep] /\ UNCHANGED <<pool, tx>>
      \/ \E x \in pool :
           /\ pool' = pool \ {x} /\ base' = DirectOrPump(r, b, x)
           /\ tx' = [tx EXCEPT ![m] = x] /\ pc' = [pc EXCEPT ![m] = "sending"]
  BY DEF SendEx
<1> HIDE DEF v, b
<1>3. /\ r \in RingState /\ Coherent(r)
      /\ r.blk = [base.blk EXCEPT ![b] = v] /\ r.que = base.que
  BY <1>0, <1>1, SetBlockEffect
<1>4. /\ r.blk \in [Block -> BlockState] /\ r.blk[b].que = "NONE"
      /\ \A c \in Block \ {b} : r.blk[c] = base.blk[c]
  BY <1>0, <1>1, <1>3, RingParts
<1> HIDE DEF r
<1>5. PICK r1 : r1 = PutBuf(r, "QUEUED", b)
  OBVIOUS
<1>6. /\ r1 \in RingState /\ r1.blk[b].que = "QUEUED"
      /\ \A c \in Block \ {b} : r1.blk[c] = base.blk[c]
      /\ r1.que["QUEUED"] = Append(base.que["QUEUED"], b)
  <2>0. "QUEUED" \in Ring
    BY NotElsewhere
  <2>1. Touches(r, r1, b, r.blk[b].msg) /\ r1.blk[b].que = "QUEUED"
    <3>1. /\ Touches(r, PutBuf(r, "QUEUED", b), b, r.blk[b].msg)
          /\ PutBuf(r, "QUEUED", b).blk[b].que = "QUEUED"
      BY <1>0, <1>3, <1>4, <2>0, QueueEffect
    <3> QED BY <1>5, <3>1, Zenon
  <2>2. r1.que = [r.que EXCEPT !["QUEUED"] = Append(@, b)]
    BY <1>5 DEF PutBuf
  <2>3. r1.que["QUEUED"] = Append(base.que["QUEUED"], b)
    BY <1>3, <2>2, RingParts, NotElsewhere
  <2> QED BY <1>4, <2>1, <2>3 DEF Touches
<1>7. CASE /\ pool = {} /\ base' = PutBuf(r, "QUEUED", b)
           /\ pc' = [pc EXCEPT ![m] = asleep] /\ UNCHANGED <<pool, tx>>
  BY <1>5, <1>6, <1>7 DEF NothingSent
<1>8. ASSUME NEW x \in pool, pool' = pool \ {x}, base' = DirectOrPump(r, b, x),
             tx' = [tx EXCEPT ![m] = x], pc' = [pc EXCEPT ![m] = "sending"]
      PROVE  \E d \in Block :
               /\ SentIn(d, x)
               /\ base.que["QUEUED"] # <<>> => d = Head(base.que["QUEUED"])
               /\ base.que["QUEUED"] = <<>> => NothingQueued
  <2>0. x \in Slot
    BY BaseFacts DEF TypeOK
  <2>1. CASE base.que["QUEUED"] = <<>>
    <3>1. base' = SendBlockPrepare(r, b, x)
      BY <1>3, <1>8, <2>1 DEF DirectOrPump
    <3>2. /\ base'.blk[b].que = "SENT" /\ base'.blk[b].slot = x
          /\ \A c \in Block \ {b} : base'.blk[c] = r.blk[c]
      BY <1>0, <1>4, <2>0, <3>1, PrepareBlock
    <3>3. SentIn(b, x) /\ NothingQueued
      BY <1>0, <1>4, <3>2 DEF SentIn, NothingQueued
    <3> QED BY <1>0, <2>1, <3>3
  <2>2. CASE base.que["QUEUED"] # <<>>
    <3>1. base' = PumpBlock(r1, x)
      BY <1>3, <1>5, <1>8, <2>2 DEF DirectOrPump
    <3>2. PICK d \in Block : d = Head(base.que["QUEUED"]) /\ base.blk[d].que = "QUEUED"
      BY <1>0, <2>2, FirstOf, NotElsewhere
    <3>3. d = Head(r1.que["QUEUED"])
      <4>1. base.que["QUEUED"] \in Seq(Block)
        BY <1>0, RingParts, NotElsewhere
      <4> QED BY <1>0, <1>6, <2>2, <3>2, <4>1, HeadAppend
    <3>4. /\ base'.blk[d].que = "SENT" /\ base'.blk[d].slot = x
          /\ \A c \in Block \ {d} : base'.blk[c] = r1.blk[c]
      BY <1>6, <2>0, <3>1, <3>3, PumpBase, RingParts
    <3>5. SentIn(d, x)
      BY <1>6, <3>2, <3>4 DEF SentIn
    <3> QED BY <2>2, <3>2, <3>5
  <2> QED BY <2>1, <2>2
<1> QED BY <1>2, <1>7, <1>8

\* mtlk_txmm_pump sends the first in line or frees the descriptor.
LEMMA PumpSends ==
  ASSUME IInv, Pump
  PROVE  /\ bh.slot \in Slot
         /\ \/ \E d \in Block :
                 /\ d = Head(base.que["QUEUED"]) /\ SentIn(d, bh.slot) /\ NothingQueued
                 /\ bh' = [bh EXCEPT !.pc = "send"] /\ UNCHANGED pool
                 /\ \A c \in Block : base.blk[c].que # "QUEUED" => base'.blk[c] = base.blk[c]
            \/ /\ base.que["QUEUED"] = <<>> /\ UNCHANGED base
               /\ pool' = pool \cup {bh.slot} /\ bh' = BhIdle
<1>1. bh.slot \in Slot
  BY BaseFacts DEF Pump, TaskletInv
<1>2. ASSUME base.que["QUEUED"] # <<>>, base' = PumpBlock(base, bh.slot)
      PROVE  \E d \in Block : /\ d = Head(base.que["QUEUED"]) /\ SentIn(d, bh.slot) /\ NothingQueued
                              /\ \A c \in Block : base.blk[c].que # "QUEUED" => base'.blk[c] = base.blk[c]
  <2>1. PICK d \in Block : d = Head(base.que["QUEUED"]) /\ base.blk[d].que = "QUEUED"
    BY <1>2, BaseFacts, FirstOf
  <2>2. /\ base'.blk[d].que = "SENT" /\ base'.blk[d].slot = bh.slot
        /\ \A c \in Block \ {d} : base'.blk[c] = base.blk[c]
    <3>1. base.blk \in [Block -> BlockState]
      BY BaseFacts, RingParts
    <3> QED BY <1>1, <1>2, <2>1, <3>1, PumpBase
  <2> QED BY <2>1, <2>2 DEF SentIn, NothingQueued
<1> QED BY <1>1, <1>2 DEF Pump


-----------------------------------------------------------------------------
(***************************************************************************)
(* Descriptors.  Each is free, with the firmware, with the tasklet or with *)
(* one process (SlotPlaces), and a block that waits for a confirmation has *)
(* one that is none of the free, the just confirmed or another block's     *)
(* (SlotsUsed).                                                            *)
(***************************************************************************)
SlotPlaces ==
  /\ \A m \in Msg : tx[m] # NULL <=> pc[m] = "sending"
  /\ bh.slot # NULL <=> bh.pc # "idle"
  /\ \A x \in Slot :
       /\ x \in pool => x \notin fw /\ bh.slot # x /\ \A m \in Msg : tx[m] # x
       /\ x \in fw => bh.slot # x /\ \A m \in Msg : tx[m] # x
       /\ bh.slot = x => \A m \in Msg : tx[m] # x
       /\ \A m, n \in Msg : tx[m] = x /\ tx[n] = x => m = n
       /\ x \in pool \/ x \in fw \/ bh.slot = x \/ \E m \in Msg : tx[m] = x

SlotsUsed ==
  \A b \in Block : base.blk[b].que = "SENT" =>
    /\ base.blk[b].slot \in Slot \ pool
    /\ bh.pc \in {"clb", "pump"} => base.blk[b].slot # bh.slot
    /\ \A c \in Block \ {b} : base.blk[c].que = "SENT" => base.blk[c].slot # base.blk[b].slot

SlotInv == SlotPlaces /\ SlotsUsed

\* A step that moves no descriptor keeps SlotPlaces.
LEMMA PlacesKept ==
  ASSUME SlotPlaces, UNCHANGED <<pool, fw, tx>>, bh'.slot = bh.slot,
         bh'.pc = "idle" <=> bh.pc = "idle",
         \A m \in Msg : pc'[m] = "sending" <=> pc[m] = "sending"
  PROVE  SlotPlaces'
  BY DEF SlotPlaces

\* A step that sends nothing and frees no descriptor keeps SlotsUsed.
LEMMA UsedKept ==
  ASSUME SlotsUsed, NothingSent, UNCHANGED pool,
         bh'.pc \in {"clb", "pump"} => bh.pc \in {"clb", "pump"} /\ bh'.slot = bh.slot
  PROVE  SlotsUsed'
  BY DEF SlotsUsed, NothingSent

\* Block `d' is sent in a descriptor that no waiting block has.
LEMMA UsedBySent ==
  ASSUME SlotsUsed, NEW d \in Block, NEW x \in Slot, SentIn(d, x),
         \A b \in Block : base.blk[b].que = "SENT" => base.blk[b].slot # x,
         pool' = pool \ {x}, bh'.pc \notin {"clb", "pump"}
  PROVE  SlotsUsed'
  BY DEF SlotsUsed, SentIn

\* Send_ex takes a free descriptor, if any, into the hands of the process.
LEMMA SendExSlots ==
  ASSUME ~SMP, IInv, SlotInv, NEW m \in Msg, pc[m] \in {"ready", "mutex"},
         NEW asleep \in {"idle", "waiting"}, SendEx(m, asleep), ProcessRuns(m),
         UNCHANGED <<fw, bh>>
  PROVE  SlotInv'
<1>0. /\ SlotPlaces /\ SlotsUsed /\ TypeOK /\ bh.pc = "idle" /\ tx[m] = NULL
      /\ pc \in [Msg -> {"idle", "ready", "mutex", "sending", "waiting", "done"}]
      /\ tx \in [Msg -> Slot \cup {NULL}] /\ NULL \notin Slot /\ pool \subseteq Slot
  BY BaseFacts, ProcessAlone, ConstantsAssumption DEF SlotInv, SlotPlaces, TypeOK
<1>1. CASE /\ pool = {} /\ NothingSent
           /\ pc' = [pc EXCEPT ![m] = asleep] /\ UNCHANGED <<pool, tx>>
  <2>1. \A n \in Msg : pc'[n] = "sending" <=> pc[n] = "sending"
    BY <1>0, <1>1
  <2>2. SlotPlaces'
    BY <1>0, <1>1, <2>1, PlacesKept
  <2>3. SlotsUsed'
    BY <1>0, <1>1, UsedKept
  <2> QED BY <2>2, <2>3 DEF SlotInv
<1>2. ASSUME NEW x \in pool, NEW d \in Block, pool' = pool \ {x},
             tx' = [tx EXCEPT ![m] = x], pc' = [pc EXCEPT ![m] = "sending"], SentIn(d, x)
      PROVE  SlotInv'
  <2>1. x \in Slot /\ x # NULL
    BY <1>0
  <2>2. /\ tx'[m] = x /\ pc'[m] = "sending"
        /\ \A n \in Msg \ {m} : tx'[n] = tx[n] /\ pc'[n] = pc[n]
    BY <1>0, <1>2
  <2>3. \A y \in Slot \ {x} : \A n \in Msg : tx'[n] = y <=> tx[n] = y
    BY <1>0, <2>1, <2>2
  <2>4. \A n \in Msg : tx[n] # x /\ (tx'[n] = x <=> n = m)
    BY <1>0, <2>1, <2>2 DEF SlotPlaces
  <2>5. SlotPlaces'
    <3>1. \A n \in Msg : tx'[n] # NULL <=> pc'[n] = "sending"
      BY <1>0, <2>1, <2>2 DEF SlotPlaces
    <3>2. ASSUME NEW y \in Slot
          PROVE  /\ y \in pool' => y \notin fw' /\ bh'.slot # y /\ \A n \in Msg : tx'[n] # y
                 /\ y \in fw' => bh'.slot # y /\ \A n \in Msg : tx'[n] # y
                 /\ bh'.slot = y => \A n \in Msg : tx'[n] # y
                 /\ \A k, n \in Msg : tx'[k] = y /\ tx'[n] = y => k = n
                 /\ y \in pool' \/ y \in fw' \/ bh'.slot = y \/ \E n \in Msg : tx'[n] = y
      <4>1. CASE y = x
        BY <1>0, <1>2, <2>4, <4>1 DEF SlotPlaces
      <4>2. CASE y # x
        BY <1>0, <1>2, <2>3, <4>2 DEF SlotPlaces
      <4> QED BY <4>1, <4>2
    <3>3. bh'.slot # NULL <=> bh'.pc # "idle"
      BY <1>0 DEF SlotPlaces
    <3> QED BY <3>1, <3>2, <3>3 DEF SlotPlaces
  <2>6. SlotsUsed'
    <3>1. \A b \in Block : base.blk[b].que = "SENT" => base.blk[b].slot # x
      BY <1>0 DEF SlotsUsed
    <3> QED BY <1>0, <1>2, <2>1, <3>1, UsedBySent
  <2> QED BY <2>5, <2>6 DEF SlotInv
<1> QED BY <1>1, <1>2, SendExBase


\* The other calls of the users: msg_send passes the descriptor on.
LEMMA UserSlots ==
  ASSUME ~SMP, IInv, SlotInv, NEW m \in Msg, User(m) PROVE SlotInv'
<1>0. /\ SlotPlaces /\ SlotsUsed
      /\ pc \in [Msg -> {"idle", "ready", "mutex", "sending", "waiting", "done"}]
      /\ tx \in [Msg -> Slot \cup {NULL}] /\ NULL \notin Slot /\ fw \subseteq Slot
  BY BaseFacts, ConstantsAssumption DEF SlotInv, TypeOK
<1>1. ASSUME NothingSent, UNCHANGED <<pool, fw, tx, bh>>, pc[m] # "sending",
             NEW p \in {"idle", "ready", "mutex", "waiting", "done"}, pc' = [pc EXCEPT ![m] = p]
      PROVE  SlotInv'
  <2>1. \A n \in Msg : pc'[n] = "sending" <=> pc[n] = "sending"
    BY <1>0, <1>1
  <2>2. SlotPlaces'
    BY <1>0, <1>1, <2>1, PlacesKept
  <2>3. SlotsUsed'
    BY <1>0, <1>1, UsedKept
  <2> QED BY <2>2, <2>3 DEF SlotInv
<1>2. CASE GetEmptyData(m)
  <2>1. /\ UNCHANGED <<pool, fw, tx, bh>> /\ pc[m] # "sending" /\ pc' = [pc EXCEPT ![m] = "ready"]
    BY <1>2 DEF GetEmptyData
  <2> QED BY <1>1, <1>2, <2>1, GetEmptyDataBase
<1>3. CASE MsgSendAsync(m)
  BY <1>3, SendExSlots DEF MsgSendAsync
<1>4. CASE SendBlockedEnter(m)
  <2>1. /\ UNCHANGED <<base, pool, fw, tx, bh>> /\ pc[m] # "sending"
        /\ (pc' = [pc EXCEPT ![m] = "done"] \/ pc' = [pc EXCEPT ![m] = "mutex"])
    BY <1>4 DEF SendBlockedEnter
  <2> QED BY <1>1, <2>1, BaseUnchanged
<1>5. CASE SendBlockedLocked(m)
  <2>0. pc[m] = "mutex" /\ ProcessRuns(m) /\ UNCHANGED <<fw, bh>>
    BY <1>5 DEF SendBlockedLocked
  <2>1. CASE Finish(m, "OK") /\ UNCHANGED <<base, pool, tx>>
    <3>1. pc' = [pc EXCEPT ![m] = "done"]
      BY <2>1 DEF Finish
    <3> QED BY <1>1, <2>0, <2>1, <3>1, BaseUnchanged
  <2>2. CASE SendEx(m, "waiting")
    BY <2>0, <2>2, SendExSlots
  <2> QED BY <1>5, <2>1, <2>2 DEF SendBlockedLocked
<1>6. CASE MsgSend(m)
  <2>1. /\ pc[m] = "sending" /\ fw' = fw \cup {tx[m]} /\ tx' = [tx EXCEPT ![m] = NULL]
        /\ UNCHANGED <<base, pool, bh>>
        /\ (pc' = [pc EXCEPT ![m] = "waiting"] \/ pc' = [pc EXCEPT ![m] = "idle"])
    BY <1>6 DEF MsgSend
  <2>2. PICK x \in Slot : x = tx[m] /\ x # NULL
    BY <1>0, <2>1 DEF SlotPlaces
  <2>3. /\ tx'[m] = NULL /\ pc'[m] # "sending"
        /\ \A n \in Msg \ {m} : tx'[n] = tx[n] /\ pc'[n] = pc[n]
    BY <1>0, <2>1
  <2>4. \A n \in Msg : tx'[n] # x
    BY <1>0, <2>2, <2>3 DEF SlotPlaces
  <2>5. \A y \in Slot \ {x} : \A n \in Msg : tx'[n] = y <=> tx[n] = y
    BY <1>0, <2>2, <2>3
  <2>6. \A n \in Msg : tx'[n] # NULL <=> pc'[n] = "sending"
    BY <1>0, <2>3 DEF SlotPlaces
  <2>7. ASSUME NEW y \in Slot
        PROVE  /\ y \in pool' => y \notin fw' /\ bh'.slot # y /\ \A n \in Msg : tx'[n] # y
               /\ y \in fw' => bh'.slot # y /\ \A n \in Msg : tx'[n] # y
               /\ bh'.slot = y => \A n \in Msg : tx'[n] # y
               /\ \A k, n \in Msg : tx'[k] = y /\ tx'[n] = y => k = n
               /\ y \in pool' \/ y \in fw' \/ bh'.slot = y \/ \E n \in Msg : tx'[n] = y
    <3>1. CASE y = x
      BY <1>0, <2>1, <2>2, <2>4, <3>1 DEF SlotPlaces
    <3>2. CASE y # x
      BY <1>0, <2>1, <2>2, <2>5, <3>2 DEF SlotPlaces
    <3> QED BY <3>1, <3>2
  <2>8. bh'.slot # NULL <=> bh'.pc # "idle"
    BY <1>0, <2>1 DEF SlotPlaces
  <2>9. SlotPlaces'
    BY <2>6, <2>7, <2>8 DEF SlotPlaces
  <2>10. SlotsUsed'
    BY <1>0, <2>1, BaseUnchanged, UsedKept
  <2> QED BY <2>9, <2>10 DEF SlotInv
<1>7. CASE SendBlockedReturn(m)
  <2>1. /\ UNCHANGED <<base, pool, fw, tx, bh>> /\ pc[m] # "sending"
        /\ pc' = [pc EXCEPT ![m] = "done"]
    BY <1>7 DEF SendBlockedReturn, Finish
  <2> QED BY <1>1, <2>1, BaseUnchanged
<1>8. CASE MsgCancel(m)
  <2>1. /\ UNCHANGED <<pool, fw, tx, bh>> /\ pc[m] # "sending"
        /\ pc' = [pc EXCEPT ![m] = "idle"]
    BY <1>8 DEF MsgCancel
  <2> QED BY <1>1, <1>8, <2>1, MsgCancelBase
<1> QED BY <1>2, <1>3, <1>4, <1>5, <1>6, <1>7, <1>8 DEF User

\* The tasklet takes the descriptor of a confirmation and, after the callback,
\* frees it or passes it on with the next block.
LEMMA TaskletSlots ==
  ASSUME ~SMP, IInv, SlotInv, Tasklet PROVE SlotInv'
<1>0. /\ SlotPlaces /\ SlotsUsed /\ NULL \notin Slot /\ fw \subseteq Slot /\ pool \subseteq Slot
      /\ bh \in [pc : {"idle", "clb", "pump", "send"}, slot : Slot \cup {NULL},
                 block : Block \cup {NULL}]
      /\ (bh.pc # "idle" => bh.slot \in Slot)
  BY BaseFacts, ConstantsAssumption DEF SlotInv, TypeOK, TaskletInv
<1>1. BhIdle.pc = "idle" /\ BhIdle.slot = NULL
  BY DEF BhIdle
<1>2. ASSUME NEW s \in Slot, OnCfm(s) PROVE SlotInv'
  <2>1. /\ bh.pc = "idle" /\ s \in fw /\ fw' = fw \ {s} /\ UNCHANGED <<pool, tx, pc>>
    BY <1>2 DEF OnCfm
  <2>2. NothingSent /\ bh'.slot = s /\ bh'.pc # "idle"
    BY <1>2, OnCfmBase
  <2>3. SlotPlaces'
    BY <1>0, <2>1, <2>2 DEF SlotPlaces
  <2>4. \A b \in Block : base'.blk[b].que = "SENT" => base'.blk[b].slot # s
    <3>1. CASE \E b \in Block : /\ base.blk[b].que = "SENT" /\ base.blk[b].slot = s
                                /\ base'.blk[b].que = "NONE"
                                /\ \A c \in Block \ {b} : base'.blk[c] = base.blk[c]
      BY <1>0, <3>1 DEF SlotsUsed
    <3>2. CASE UNCHANGED base /\ \A b \in Block : base.blk[b].que = "SENT" => base.blk[b].slot # s
      BY <3>2
    <3> QED BY <1>2, <3>1, <3>2, OnCfmBase
  <2>5. SlotsUsed'
    BY <1>0, <2>1, <2>2, <2>4 DEF SlotsUsed, NothingSent
  <2> QED BY <2>3, <2>5 DEF SlotInv
<1>3. CASE OnCfmClb
  <2>1. /\ bh.pc = "clb" /\ CallUsrClb(bh.block) /\ UNCHANGED <<pool, fw, tx, pc>>
        /\ bh' = [bh EXCEPT !.pc = "pump", !.block = NULL]
    BY <1>3 DEF OnCfmClb
  <2>2. Claimed(bh.block) /\ bh.block \in Block
    BY <2>1, BaseFacts DEF TaskletInv, Claimed
  <2>3. NothingSent
    BY <2>1, <2>2, CallUsrClbBase
  <2>4. bh'.pc = "pump" /\ bh'.slot = bh.slot
    BY <1>0, <2>1
  <2>5. SlotPlaces'
    BY <1>0, <2>1, <2>4, PlacesKept
  <2>6. SlotsUsed'
    BY <1>0, <2>1, <2>3, <2>4, UsedKept
  <2> QED BY <2>5, <2>6 DEF SlotInv
<1>4. CASE Pump
  <2>1. bh.pc = "pump" /\ bh.slot \in Slot /\ UNCHANGED <<fw, tx, pc>>
    BY <1>0, <1>4 DEF Pump
  <2>2. \A b \in Block : base.blk[b].que = "SENT" => base.blk[b].slot # bh.slot
    BY <1>0, <2>1 DEF SlotsUsed
  <2>3. ASSUME NEW d \in Block, SentIn(d, bh.slot), bh' = [bh EXCEPT !.pc = "send"], UNCHANGED pool
        PROVE  SlotInv'
    <3>1. bh'.pc = "send" /\ bh'.slot = bh.slot
      BY <1>0, <2>3
    <3>2. SlotPlaces'
      BY <1>0, <2>1, <2>3, <3>1, PlacesKept
    <3>3. pool' = pool \ {bh.slot}
      BY <1>0, <2>1, <2>3 DEF SlotPlaces
    <3>4. SlotsUsed'
      BY <1>0, <2>1, <2>2, <2>3, <3>1, <3>3, UsedBySent
    <3> QED BY <3>2, <3>4 DEF SlotInv
  <2>4. CASE UNCHANGED base /\ pool' = pool \cup {bh.slot} /\ bh' = BhIdle
    <3>1. SlotPlaces'
      BY <1>0, <1>1, <2>1, <2>4 DEF SlotPlaces
    <3>2. SlotsUsed'
      BY <1>0, <1>1, <2>2, <2>4 DEF SlotsUsed
    <3> QED BY <3>1, <3>2 DEF SlotInv
  <2> QED BY <1>4, <2>3, <2>4, PumpSends
<1>5. CASE PumpSend
  <2>1. /\ bh.pc = "send" /\ bh.slot \in Slot /\ fw' = fw \cup {bh.slot} /\ bh' = BhIdle
        /\ UNCHANGED <<base, pool, tx, pc>>
    BY <1>0, <1>5 DEF PumpSend
  <2>2. SlotPlaces'
    BY <1>0, <1>1, <2>1 DEF SlotPlaces
  <2>3. SlotsUsed'
    BY <1>0, <1>1, <2>1, BaseUnchanged, UsedKept
  <2> QED BY <2>2, <2>3 DEF SlotInv
<1> QED BY <1>2, <1>3, <1>4, <1>5 DEF Tasklet

\* The timer moves no descriptor.
LEMMA TimerBase ==
  ASSUME IInv, Timer
  PROVE  /\ NothingSent /\ ("SEND" \notin ClbActions => NothingQueued)
         /\ UNCHANGED <<pool, fw, tx, active, timer, events, pending, phase, mutex, refs, pc, res,
                        cfmd, bh>>
<1>1. CASE OnTimer
  BY <1>1, BaseUnchanged DEF OnTimer
<1>2. ASSUME NEW m \in Timed, TimerExpires(m) PROVE NothingSent /\ NothingQueued
  BY <1>2, TimerExpiresBase
<1>3. CASE TimerSkips
  BY <1>3, BaseUnchanged DEF TimerSkips
<1>4. CASE TimerDrains
  <2>1. NothingSent /\ NothingQueued
    BY <1>4, TimerDrainsBase
  <2> QED BY <1>4, <2>1 DEF TimerDrains
<1>5. CASE TimerClb
  <2>1. CallUsrClb(tm.block) /\ tm.block \in Block /\ Claimed(tm.block)
    BY <1>5, BaseFacts DEF TimerClb, TimerInv, Claimed
  <2>2. NothingSent /\ ("SEND" \notin ClbActions => NothingQueued)
    BY <2>1, CallUsrClbBase
  <2> QED BY <1>5, <2>2 DEF TimerClb
<1>6. ASSUME NEW m \in Timed, TimerExpires(m)
      PROVE  UNCHANGED <<pool, fw, tx, active, timer, events, pending, phase, mutex, refs, pc, res,
                         cfmd, bh>>
  BY <1>6 DEF TimerExpires
<1> QED BY <1>1, <1>2, <1>3, <1>4, <1>5, <1>6 DEF Timer

\* The timer moves no descriptor.
LEMMA TimerSlots ==
  ASSUME IInv, SlotInv, Timer PROVE SlotInv'
  BY TimerBase, PlacesKept, UsedKept DEF SlotInv

\* Of recovery and shutdown only mtlk_hw_mmb_restore touches the descriptors:
\* when all messages are cancelled and no process is sending.
LEMMA ControlSlots ==
  ASSUME ~SMP, IInv, SlotInv, Control PROVE SlotInv'
<1>0. SlotPlaces /\ SlotsUsed /\ UNCHANGED <<base, tx, pc, bh>>
  BY DEF SlotInv, Control, MacFatal, Halt, Isolate, Restore, StopCard, CleanupBegins, CleanupEnds
<1>1. CASE UNCHANGED <<pool, fw>>
  BY <1>0, <1>1, BaseUnchanged, PlacesKept, UsedKept DEF SlotInv
<1>2. CASE Restore
  <2>1. /\ \A m \in Msg : data[m] = NULL /\ Sleeping(m)
        /\ pool' = Slot /\ fw' = {} /\ bh.pc = "idle"
    <3>1. NULL \notin Msg
      BY ConstantsAssumption
    <3> QED BY <1>2, <3>1 DEF Restore, ProcessRuns
  <2>2. ASSUME NEW b \in Block PROVE base.blk[b].que # "SENT"
    <3>1. base.blk[b].msg \in Msg \cup {NULL} /\ base.blk[b].que \in Ring \cup {"NONE"}
      BY BaseFacts, RingParts
    <3>2. base.blk[b].msg = NULL
      BY <2>1, <3>1, BaseFacts, ConstantsAssumption DEF BlocksCoherent
    <3> QED BY <3>2, BaseFacts DEF BlocksCoherent
  <2>3. bh.slot = NULL /\ (\A m \in Msg : tx[m] = NULL /\ pc[m] # "sending") /\ NULL \notin Slot
    BY <1>0, <2>1, ConstantsAssumption DEF SlotPlaces, Sleeping
  <2>4. SlotPlaces'
    BY <1>0, <2>1, <2>3 DEF SlotPlaces
  <2>5. SlotsUsed'
    BY <1>0, <2>2 DEF SlotsUsed
  <2> QED BY <2>4, <2>5 DEF SlotInv
<1> QED BY <1>1, <1>2 DEF Control, MacFatal, Halt, Isolate, StopCard, CleanupBegins, CleanupEnds


\* Initially every descriptor is free and no block waits.
LEMMA InitSlots == Init => SlotInv
<1> SUFFICES ASSUME Init PROVE SlotInv
  OBVIOUS
<1>1. \A b \in Block : base.blk[b].que # "SENT"
  BY DEF Init, ZeroBlock
<1>2. SlotsUsed
  BY <1>1 DEF SlotsUsed
<1>3. SlotPlaces
  BY ConstantsAssumption DEF Init, SlotPlaces, BhIdle
<1> QED BY <1>2, <1>3 DEF SlotInv

\* A step that changes nothing.
LEMMA StutterSlots == ASSUME SlotInv, UNCHANGED vars PROVE SlotInv'
  BY DEF vars, SlotInv, SlotPlaces, SlotsUsed

\* The only holder of a descriptor.
LEMMA OneHolder ==
  ASSUME SlotPlaces, NEW s \in Slot PROVE Cardinality(Holders(s)) = 1
<1>1. \E h : Holders(s) = {h}
  <2>1. CASE s \in pool
    <3>1. Holders(s) = {<<"pool">>}
      BY <2>1 DEF SlotPlaces, Holders
    <3> QED BY <3>1
  <2>2. CASE s \in fw
    <3>1. Holders(s) = {<<"fw">>}
      BY <2>2 DEF SlotPlaces, Holders
    <3> QED BY <3>1
  <2>3. CASE bh.slot = s
    <3>1. Holders(s) = {<<"bh">>}
      BY <2>3 DEF SlotPlaces, Holders
    <3> QED BY <3>1
  <2>4. ASSUME NEW m \in Msg, tx[m] = s PROVE \E h : Holders(s) = {h}
    <3>1. s \notin pool /\ s \notin fw /\ bh.slot # s /\ {n \in Msg : tx[n] = s} = {m}
      BY <2>4 DEF SlotPlaces
    <3>2. Holders(s) = {<<"tx", m>>}
      BY <3>1 DEF Holders
    <3> QED BY <3>2
  <2> QED BY <2>1, <2>2, <2>3, <2>4 DEF SlotPlaces
<1> QED BY <1>1, FS_Singleton

\* On one CPU no descriptor is lost or used twice: each is free, with the
\* firmware, with the tasklet or with one process, and no two waiting blocks
\* wait for the same confirmation, whatever is cancelled, times out or is
\* restored.
THEOREM SlotsAlwaysAccounted ==
  ASSUME ~SMP
  PROVE  Spec => []SlotsAccounted
<1>1. Init => SlotInv
  BY InitSlots
<1>2. IInv /\ SlotInv /\ [Next]_vars => SlotInv'
  BY UserSlots, TaskletSlots, TimerSlots, ControlSlots, StutterSlots DEF Next
<1>3. SlotInv => SlotsAccounted
  <2> SUFFICES ASSUME SlotInv PROVE SlotsAccounted
    OBVIOUS
  <2>1. \A s \in Slot : Cardinality(Holders(s)) = 1
    BY OneHolder DEF SlotInv
  <2> QED BY <2>1 DEF SlotInv, SlotsUsed, SlotsAccounted
<1> QED BY <1>1, <1>2, <1>3, TxmmInvariance, PTL DEF Spec

-----------------------------------------------------------------------------
(***************************************************************************)
(* The order of the sends.                                                 *)
(***************************************************************************)

\* What a call of a user sends is the first in line, or its own block when
\* none is.
LEMMA UserSends ==
  ASSUME ~SMP, IInv, NEW m \in Msg, User(m)
  PROVE  \/ NothingSent
         \/ \E d \in Block, x \in Slot :
              SentIn(d, x) /\ (base.que["QUEUED"] # <<>> => d = Head(base.que["QUEUED"]))
<1>0. pool \subseteq Slot
  BY BaseFacts DEF TypeOK
<1>1. ASSUME NEW asleep, SendEx(m, asleep), pc[m] \in {"ready", "mutex"}
      PROVE  \/ NothingSent
             \/ \E d \in Block, x \in Slot :
                  SentIn(d, x) /\ (base.que["QUEUED"] # <<>> => d = Head(base.que["QUEUED"]))
  BY <1>0, <1>1, SendExBase
<1>2. CASE GetEmptyData(m)
  BY <1>2, GetEmptyDataBase
<1>3. CASE MsgSendAsync(m)
  BY <1>1, <1>3 DEF MsgSendAsync
<1>4. CASE SendBlockedLocked(m)
  <2>1. CASE UNCHANGED base
    BY <2>1, BaseUnchanged
  <2>2. CASE SendEx(m, "waiting") /\ pc[m] = "mutex"
    BY <1>1, <2>2
  <2> QED BY <1>4, <2>1, <2>2 DEF SendBlockedLocked
<1>5. CASE MsgCancel(m)
  BY <1>5, MsgCancelBase
<1>6. CASE SendBlockedEnter(m) \/ MsgSend(m) \/ SendBlockedReturn(m)
  BY <1>6, BaseUnchanged DEF SendBlockedEnter, MsgSend, SendBlockedReturn
<1> QED BY <1>2, <1>3, <1>4, <1>5, <1>6 DEF User

\* The tasklet sends the first in line.
LEMMA TaskletSends ==
  ASSUME IInv, Tasklet
  PROVE  \/ NothingSent
         \/ \E d \in Block, x \in Slot : SentIn(d, x) /\ d = Head(base.que["QUEUED"])
<1>1. ASSUME NEW s \in Slot, OnCfm(s) PROVE NothingSent
  BY <1>1, OnCfmBase
<1>2. CASE OnCfmClb
  <2>1. CallUsrClb(bh.block) /\ bh.block \in Block /\ Claimed(bh.block)
    BY <1>2, BaseFacts DEF OnCfmClb, TaskletInv, Claimed
  <2> QED BY <2>1, CallUsrClbBase
<1>3. CASE Pump
  BY <1>3, PumpSends, BaseUnchanged
<1>4. CASE PumpSend
  BY <1>4, BaseUnchanged DEF PumpSend
<1> QED BY <1>1, <1>2, <1>3, <1>4 DEF Tasklet

\* On one CPU no message goes to the firmware ahead of one that has been
\* waiting in QUEUED before it: send_ex and pump keep the order of the sends.
THEOREM NeverOvertakes ==
  ASSUME ~SMP
  PROVE  Spec => NoOvertaking
<1>1. ASSUME IInv, [Next]_vars, NEW b \in Block, base.que["QUEUED"] # <<>>,
             base.blk[b].que # "SENT", base.blk'[b].que = "SENT"
      PROVE  b = Head(base.que["QUEUED"])
  <2>0. ~NothingSent
    BY <1>1 DEF NothingSent
  <2>1. \E d \in Block, x \in Slot :
          SentIn(d, x) /\ (base.que["QUEUED"] # <<>> => d = Head(base.que["QUEUED"]))
    <3>1. CASE Control \/ UNCHANGED vars
      BY <2>0, <3>1, BaseUnchanged DEF vars, Control, MacFatal, Halt, Isolate, Restore, StopCard,
                                       CleanupBegins, CleanupEnds
    <3>2. CASE Timer
      BY <1>1, <2>0, <3>2, TimerBase
    <3>3. CASE Tasklet
      BY <1>1, <2>0, <3>3, TaskletSends
    <3>4. CASE \E m \in Msg : User(m)
      BY <1>1, <2>0, <3>4, UserSends
    <3> QED BY <1>1, <3>1, <3>2, <3>3, <3>4 DEF Next
  <2>2. PICK d \in Block, x \in Slot :
          SentIn(d, x) /\ (base.que["QUEUED"] # <<>> => d = Head(base.que["QUEUED"]))
    BY <2>1
  <2>3. b = d
    BY <1>1, <2>2 DEF SentIn
  <2> QED BY <1>1, <2>2, <2>3
<1>2. IInv /\ [Next]_vars =>
        [\A b \in Block :
           (/\ base.que["QUEUED"] # <<>>
            /\ base.blk[b].que # "SENT" /\ base.blk'[b].que = "SENT")
             => b = Head(base.que["QUEUED"])]_vars
  BY <1>1
<1> QED BY <1>2, TxmmInvariance, PTL DEF Spec, NoOvertaking

\* Nothing waits in QUEUED after a step that queues nothing and frees no
\* descriptor.
LEMMA ConservingKept ==
  ASSUME IInv, IInv', WorkConserving, NothingQueued, pool' \subseteq pool PROVE WorkConserving'
<1> SUFFICES ASSUME base'.que["QUEUED"] # <<>> PROVE pool' = {}
  BY DEF WorkConserving
<1>1. base' \in RingState /\ Coherent(base') /\ "QUEUED" \in Ring
  BY BaseFacts, CoherentBase, NotElsewhere DEF IInv, BlocksCoherent, TypeOK, Coherent
<1>2. PICK b \in Block : base'.blk[b].que = "QUEUED"
  BY <1>1, QueueEmpty
<1>3. base.blk[b].que = "QUEUED"
  BY <1>2 DEF NothingQueued
<1>4. base.que["QUEUED"] # <<>>
  BY <1>3, BaseFacts, QueueEmpty
<1> QED BY <1>4 DEF WorkConserving

\* Send_ex queues only when no descriptor is free.
LEMMA SendExConserves ==
  ASSUME IInv, IInv', WorkConserving, NEW m \in Msg, pc[m] \in {"ready", "mutex"}, NEW asleep,
         SendEx(m, asleep)
  PROVE  WorkConserving'
<1>1. CASE pool = {} /\ UNCHANGED pool
  BY <1>1 DEF WorkConserving
<1>2. ASSUME NEW x \in pool, pool' = pool \ {x}, base.que["QUEUED"] = <<>> => NothingQueued
      PROVE  WorkConserving'
  <2>1. base.que["QUEUED"] = <<>>
    BY DEF WorkConserving
  <2> QED BY <1>2, <2>1, ConservingKept
<1> QED BY <1>1, <1>2, SendExBase

\* On one CPU, and as long as no callback asks for a re-send, no message waits
\* in QUEUED while a descriptor is free: every confirmation is followed by a
\* pump, and a send that finds the line empty uses the descriptor itself.
THEOREM AlwaysWorkConserving ==
  ASSUME ~SMP, "SEND" \notin ClbActions
  PROVE  Spec => []WorkConserving
<1>1. Init => WorkConserving
  BY NotElsewhere DEF Init, WorkConserving
<1>2. ASSUME IInv, IInv', WorkConserving, [Next]_vars PROVE WorkConserving'
  <2>1. ASSUME NEW m \in Msg, User(m) PROVE WorkConserving'
    <3>1. CASE GetEmptyData(m)
      <4>1. pool' = pool
        BY <3>1 DEF GetEmptyData
      <4> QED BY <1>2, <3>1, <4>1, GetEmptyDataBase, ConservingKept
    <3>2. CASE MsgSendAsync(m)
      BY <1>2, <3>2, SendExConserves DEF MsgSendAsync
    <3>3. CASE SendBlockedLocked(m)
      <4>1. CASE UNCHANGED <<base, pool>>
        BY <1>2, <4>1 DEF WorkConserving
      <4>2. CASE SendEx(m, "waiting") /\ pc[m] = "mutex"
        BY <1>2, <4>2, SendExConserves
      <4> QED BY <3>3, <4>1, <4>2 DEF SendBlockedLocked
    <3>4. CASE MsgCancel(m)
      <4>1. pool' = pool
        BY <3>4 DEF MsgCancel
      <4> QED BY <1>2, <3>4, <4>1, MsgCancelBase, ConservingKept
    <3>5. CASE SendBlockedEnter(m) \/ MsgSend(m) \/ SendBlockedReturn(m)
      BY <1>2, <3>5 DEF WorkConserving, SendBlockedEnter, MsgSend, SendBlockedReturn
    <3> QED BY <2>1, <3>1, <3>2, <3>3, <3>4, <3>5 DEF User
  <2>2. CASE Tasklet
    <3>1. ASSUME NEW s \in Slot, OnCfm(s) PROVE WorkConserving'
      <4>1. NothingQueued /\ pool' = pool
        BY <1>2, <3>1, OnCfmBase DEF OnCfm
      <4> QED BY <1>2, <4>1, ConservingKept
    <3>2. CASE OnCfmClb
      <4>1. CallUsrClb(bh.block) /\ bh.block \in Block /\ Claimed(bh.block) /\ pool' = pool
        BY <1>2, <3>2, BaseFacts DEF OnCfmClb, TaskletInv, Claimed
      <4> QED BY <1>2, <4>1, CallUsrClbBase, ConservingKept
    <3>3. CASE Pump
      <4>1. CASE NothingQueued /\ UNCHANGED pool
        BY <1>2, <4>1, ConservingKept
      <4>2. CASE base.que["QUEUED"] = <<>> /\ UNCHANGED base
        BY <4>2 DEF WorkConserving
      <4> QED BY <1>2, <3>3, <4>1, <4>2, PumpSends
    <3>4. CASE PumpSend
      BY <1>2, <3>4 DEF WorkConserving, PumpSend
    <3> QED BY <2>2, <3>1, <3>2, <3>3, <3>4 DEF Tasklet
  <2>3. CASE Timer
    BY <1>2, <2>3, TimerBase, ConservingKept
  <2>4. CASE Restore
    <3>1. ASSUME NEW b \in Block PROVE base.blk[b].que # "QUEUED"
      <4>1. base.blk[b].msg \in Msg \cup {NULL}
        BY <1>2, BaseFacts, RingParts
      <4>2. base.blk[b].msg = NULL
        BY <1>2, <2>4, <4>1, BaseFacts, ConstantsAssumption DEF BlocksCoherent, Restore
      <4> QED BY <1>2, <4>2, BaseFacts DEF BlocksCoherent
    <3>2. base.que["QUEUED"] = <<>>
      BY <1>2, <3>1, BaseFacts, QueueEmpty
    <3> QED BY <2>4, <3>2 DEF WorkConserving, Restore
  <2>5. CASE UNCHANGED <<base, pool>>
    BY <1>2, <2>5 DEF WorkConserving
  <2>6. CASE Control
    BY <2>4, <2>5, <2>6 DEF Control, MacFatal, Halt, Isolate, StopCard, CleanupBegins, CleanupEnds
  <2> QED BY <1>2, <2>1, <2>2, <2>3, <2>5, <2>6 DEF Next, vars
<1>3. IInv /\ IInv' /\ WorkConserving /\ [Next]_vars => WorkConserving'
  BY <1>2
<1> QED BY <1>1, <1>3, TxmmInvariance, PTL DEF Spec


-----------------------------------------------------------------------------
(***************************************************************************)
(* The result of a blocked send.  The sender that has bsend.mutex is the   *)
(* one that waits for bsend.evt (Turn); a message object keeps its block   *)
(* until the sender has looked at the result (Keeps).  A late confirmation *)
(* of a send that has returned finds its block, but only until another     *)
(* sender has the mutex and has reset the event (Settled): on one CPU the  *)
(* first sender releases its message before another one runs.  The timer   *)
(* never calls back for a blocked send (Expired).  So the event of an      *)
(* active layer is set by the confirmation of the sender that waits        *)
(* (Woken).                                                                *)
(***************************************************************************)
Turn == \A m \in BMsg : pc[m] \in {"sending", "waiting"} <=> mutex = m

Keeps == \A m \in BMsg : pc[m] # "idle" <=> data[m] # NULL

Settled ==
  \A m \in BMsg : pc[m] = "done" /\ mutex # NULL =>
    base.blk[data[m]].que = "NONE" /\ (bh.pc = "clb" => bh.block # data[m])

Expired ==
  /\ \A b \in Block : base.blk[b].que = "TIMED_OUT" => base.blk[b].msg \in Timed
  /\ tm.pc = "clb" => base.blk[tm.block].msg \in Timed

Woken == \A m \in BMsg : mutex = m /\ active /\ evt.wait /\ ~evt.term => cfmd[m]

BlockedInv == Turn /\ Keeps /\ Settled /\ Expired /\ Woken /\ OkConfirmedWhileActive

\* What is known when a process runs on one CPU.
LEMMA ProcessFacts ==
  ASSUME ~SMP, NEW m, ProcessRuns(m)
  PROVE  bh.pc = "idle" /\ tm.pc = "idle" /\ \A n \in Msg \ {m} : pc[n] # "done"
  BY DEF ProcessRuns, Sleeping

\* The types that the steps below need.
LEMMA BlockedTypes ==
  ASSUME TypeOK
  PROVE  /\ pc \in [Msg -> {"idle", "ready", "mutex", "sending", "waiting", "done"}]
         /\ data \in [Msg -> Block \cup {NULL}] /\ cfmd \in [BMsg -> BOOLEAN]
         /\ res \in [BMsg -> {"NONE", "OK", "TIMEOUT"}]
         /\ NULL \notin Block \cup Slot \cup Msg /\ BMsg \subseteq Msg
  BY ConstantsAssumption DEF TypeOK

\* A call of a user that concerns neither mutex, event nor result.
LEMMA UserAside ==
  ASSUME ~SMP, IInv, IInv', BlockedInv, NEW m \in Msg, ProcessRuns(m),
         UNCHANGED <<active, mutex, evt, bh, tm>>,
         \A n \in Msg \ {m} : pc'[n] = pc[n] /\ data'[n] = data[n],
         \A n \in BMsg \ {m} : res'[n] = res[n] /\ cfmd'[n] = cfmd[n],
         m \in BMsg => /\ pc'[m] \notin {"sending", "waiting"} /\ pc[m] \notin {"sending", "waiting"}
                       /\ pc'[m] # "idle" <=> data'[m] # NULL
                       /\ pc'[m] = "done" => base'.blk[data'[m]].que = "NONE" /\ res'[m] # "OK"
  PROVE  BlockedInv'
<1>0. /\ TypeOK /\ bh.pc = "idle" /\ tm.pc = "idle" /\ \A n \in Msg \ {m} : pc[n] # "done"
      /\ Turn /\ Keeps /\ Woken /\ OkConfirmedWhileActive /\ BMsg \subseteq Msg
  BY ProcessFacts, BaseFacts, BlockedTypes DEF BlockedInv
<1>1. Turn'
  BY <1>0 DEF Turn
<1>2. Keeps'
  BY <1>0 DEF Keeps
<1>3. Settled'
  BY <1>0 DEF Settled
<1>4. Expired'
  <2>1. tm'.pc = "idle" /\ TimerInv'
    BY <1>0 DEF IInv
  <2> QED BY <2>1 DEF Expired, TimerInv
<1>5. Woken'
  BY <1>0 DEF Woken, Turn
<1>6. OkConfirmedWhileActive'
  BY <1>0 DEF OkConfirmedWhileActive, BlockedOkIsConfirmed
<1> QED BY <1>1, <1>2, <1>3, <1>4, <1>5, <1>6 DEF BlockedInv

\* The calls of the users before the mutex, and the release of the message.
LEMMA OutsideMutex ==
  ASSUME ~SMP, IInv, IInv', BlockedInv, NEW m \in Msg,
         \/ GetEmptyData(m) \/ MsgSendAsync(m) \/ SendBlockedEnter(m) \/ MsgCancel(m)
  PROVE  BlockedInv'
<1>0. /\ TypeOK /\ Attached /\ BMsg \subseteq Msg /\ BMsg \cap AMsg = {} /\ Turn /\ Keeps
      /\ pc \in [Msg -> {"idle", "ready", "mutex", "sending", "waiting", "done"}]
      /\ data \in [Msg -> Block \cup {NULL}] /\ cfmd \in [BMsg -> BOOLEAN]
      /\ res \in [BMsg -> {"NONE", "OK", "TIMEOUT"}] /\ NULL \notin Block
  BY BaseFacts, BlockedTypes DEF BlockedInv, AMsg
<1>1. CASE GetEmptyData(m)
  <2>1. PICK b \in Block : data' = [data EXCEPT ![m] = b]
    <3>1. base.que["FREE"] # <<>> /\ data' = [data EXCEPT ![m] = Head(base.que["FREE"])]
      BY <1>1 DEF GetEmptyData
    <3> QED BY <3>1, BaseFacts, FirstOf
  <2>2. /\ ProcessRuns(m) /\ pc[m] = "idle" /\ pc' = [pc EXCEPT ![m] = "ready"]
        /\ UNCHANGED <<active, mutex, evt, bh, tm, res, cfmd>>
    BY <1>1 DEF GetEmptyData
  <2>3. /\ \A n \in Msg \ {m} : pc'[n] = pc[n] /\ data'[n] = data[n]
        /\ pc'[m] = "ready" /\ data'[m] # NULL
    BY <1>0, <2>1, <2>2
  <2> QED BY <2>2, <2>3, UserAside
<1>2. CASE MsgSendAsync(m)
  <2>1. /\ ProcessRuns(m) /\ m \in AMsg /\ SendEx(m, "idle") /\ pc[m] = "ready"
        /\ UNCHANGED <<data, active, mutex, evt, bh, tm, res, cfmd>>
    BY <1>2 DEF MsgSendAsync
  <2>2. \A n \in Msg \ {m} : pc'[n] = pc[n]
    BY <1>0, <2>1, SendExBase
  <2> QED BY <1>0, <2>1, <2>2, UserAside
<1>3. CASE SendBlockedEnter(m)
  <2>1. /\ ProcessRuns(m) /\ m \in BMsg /\ pc[m] = "ready"
        /\ UNCHANGED <<base, data, active, mutex, evt, bh, tm, cfmd>>
        /\ \/ pc' = [pc EXCEPT ![m] = "done"] /\ res' = [res EXCEPT ![m] = "TIMEOUT"]
           \/ pc' = [pc EXCEPT ![m] = "mutex"] /\ UNCHANGED res
    BY <1>3 DEF SendBlockedEnter
  <2>2. /\ \A n \in Msg \ {m} : pc'[n] = pc[n]
        /\ \A n \in BMsg \ {m} : res'[n] = res[n]
        /\ pc'[m] \in {"done", "mutex"} /\ (pc'[m] = "done" => res'[m] # "OK")
    BY <1>0, <2>1
  <2>3. data'[m] # NULL /\ base'.blk[data'[m]].que = "NONE"
    BY <1>0, <2>1 DEF Attached
  <2> QED BY <2>1, <2>2, <2>3, UserAside
<1>4. CASE MsgCancel(m)
  <2>1. /\ ProcessRuns(m) /\ pc[m] \in {"done", "idle"}
        /\ data' = [data EXCEPT ![m] = NULL] /\ pc' = [pc EXCEPT ![m] = "idle"]
        /\ UNCHANGED <<active, mutex, evt, bh, tm>>
    BY <1>4 DEF MsgCancel
  <2>2. /\ \A n \in Msg \ {m} : pc'[n] = pc[n] /\ data'[n] = data[n]
        /\ pc'[m] = "idle" /\ data'[m] = NULL
    BY <1>0, <2>1
  <2>3. \A n \in BMsg \ {m} : res'[n] = res[n] /\ cfmd'[n] = cfmd[n]
    <3>1. CASE m \in BMsg
      <4>1. res' = [res EXCEPT ![m] = "NONE"] /\ cfmd' = [cfmd EXCEPT ![m] = FALSE]
        BY <1>4, <3>1 DEF MsgCancel
      <4> QED BY <1>0, <4>1
    <3>2. CASE m \notin BMsg
      BY <1>4, <3>2 DEF MsgCancel
    <3> QED BY <3>1, <3>2
  <2> QED BY <2>1, <2>2, <2>3, UserAside
<1> QED BY <1>1, <1>2, <1>3, <1>4


\* The sender that has the mutex: it resets the event before it sends, and the
\* event it waits for is its own.
LEMMA InsideMutex ==
  ASSUME ~SMP, IInv, IInv', BlockedInv, NEW m \in Msg,
         SendBlockedLocked(m) \/ MsgSend(m) \/ SendBlockedReturn(m)
  PROVE  BlockedInv'
<1>0. /\ TypeOK /\ BMsg \subseteq Msg /\ Turn /\ Keeps /\ Woken /\ OkConfirmedWhileActive
      /\ pc \in [Msg -> {"idle", "ready", "mutex", "sending", "waiting", "done"}]
      /\ data \in [Msg -> Block \cup {NULL}] /\ cfmd \in [BMsg -> BOOLEAN]
      /\ res \in [BMsg -> {"NONE", "OK", "TIMEOUT"}] /\ NULL \notin Block \cup Msg
  BY BaseFacts, BlockedTypes DEF BlockedInv
<1>1. ProcessRuns(m) /\ UNCHANGED <<data, active, bh, tm>>
  BY DEF SendBlockedLocked, MsgSend, SendBlockedReturn
<1>2. bh.pc = "idle" /\ tm.pc = "idle" /\ \A n \in Msg \ {m} : pc[n] # "done"
  BY <1>1, ProcessFacts
<1>3. Expired'
  <2>1. tm'.pc = "idle" /\ TimerInv'
    BY <1>1, <1>2 DEF IInv
  <2> QED BY <2>1 DEF Expired, TimerInv
<1>4. ASSUME m \in BMsg, NEW r, Finish(m, r), pc[m] \in {"mutex", "waiting"}, UNCHANGED <<evt, cfmd>>,
             pc[m] = "mutex" => mutex = NULL,
             active /\ r = "OK" => cfmd[m]
      PROVE  BlockedInv'
  <2>1. /\ pc' = [pc EXCEPT ![m] = "done"] /\ res' = [res EXCEPT ![m] = r] /\ mutex' = NULL
    BY <1>4 DEF Finish
  <2>2. /\ \A n \in Msg \ {m} : pc'[n] = pc[n]
        /\ \A n \in BMsg \ {m} : res'[n] = res[n]
        /\ pc'[m] = "done" /\ res'[m] = r
    BY <1>0, <1>4, <2>1
  <2>3. mutex = m \/ mutex = NULL
    BY <1>0, <1>4 DEF Turn
  <2>4. Turn'
    BY <1>0, <2>1, <2>2, <2>3 DEF Turn
  <2>5. Keeps'
    BY <1>0, <1>1, <1>4, <2>2 DEF Keeps
  <2>6. Settled' /\ Woken'
    BY <1>0, <2>1 DEF Settled, Woken
  <2>7. OkConfirmedWhileActive'
    BY <1>0, <1>1, <1>4, <2>2 DEF OkConfirmedWhileActive, BlockedOkIsConfirmed
  <2> QED BY <1>3, <2>4, <2>5, <2>6, <2>7 DEF BlockedInv
<1>5. CASE SendBlockedReturn(m)
  <2>1. PICK r : r = IF evt.wait /\ ~evt.term THEN "OK" ELSE "TIMEOUT"
    OBVIOUS
  <2>2. m \in BMsg /\ pc[m] = "waiting" /\ Finish(m, r) /\ UNCHANGED <<evt, cfmd>>
    BY <1>5, <2>1 DEF SendBlockedReturn
  <2>3. active /\ r = "OK" => cfmd[m]
    BY <1>0, <2>1, <2>2 DEF Turn, Woken
  <2> QED BY <1>4, <2>2, <2>3
<1>6. CASE MsgSend(m)
  <2>1. /\ pc[m] = "sending" /\ UNCHANGED <<base, mutex, evt, res, cfmd>>
        /\ pc' = [pc EXCEPT ![m] = IF m \in BMsg THEN "waiting" ELSE "idle"]
    BY <1>6 DEF MsgSend
  <2>2. /\ \A n \in Msg \ {m} : pc'[n] = pc[n]
        /\ m \in BMsg => pc'[m] = "waiting"
    BY <1>0, <2>1
  <2>3. Turn' /\ Keeps'
    BY <1>0, <1>1, <2>1, <2>2 DEF Turn, Keeps
  <2>4. \A n \in BMsg : pc'[n] # "done"
    BY <1>0, <1>2, <2>2
  <2>5. Settled' /\ OkConfirmedWhileActive'
    BY <2>4 DEF Settled, OkConfirmedWhileActive, BlockedOkIsConfirmed
  <2>6. Woken'
    BY <1>0, <1>1, <2>1 DEF Woken
  <2> QED BY <1>3, <2>3, <2>5, <2>6 DEF BlockedInv
<1>7. CASE SendBlockedLocked(m)
  <2>0. m \in BMsg /\ pc[m] = "mutex" /\ mutex = NULL
    BY <1>7 DEF SendBlockedLocked
  <2>1. CASE ~active /\ Finish(m, "OK") /\ UNCHANGED <<evt, cfmd>>
    BY <1>4, <2>0, <2>1
  <2>2. CASE mutex' = m /\ evt' = EventReset /\ SendEx(m, "waiting") /\ UNCHANGED res
    <3>1. /\ \A n \in Msg \ {m} : pc'[n] = pc[n]
          /\ pc'[m] \in {"sending", "waiting"}
      BY <1>0, <2>0, <2>2, SendExBase
    <3>2. Turn'
      BY <1>0, <2>0, <2>2, <3>1 DEF Turn
    <3>3. Keeps'
      BY <1>0, <1>1, <2>0, <3>1 DEF Keeps
    <3>4. \A n \in BMsg : pc'[n] # "done"
      BY <1>0, <1>2, <3>1
    <3>5. Settled' /\ OkConfirmedWhileActive'
      BY <3>4 DEF Settled, OkConfirmedWhileActive, BlockedOkIsConfirmed
    <3>6. evt'.wait = FALSE
      BY <2>2 DEF EventReset
    <3>7. Woken'
      BY <3>6 DEF Woken
    <3> QED BY <1>3, <3>2, <3>3, <3>5, <3>7 DEF BlockedInv
  <2> QED BY <1>7, <2>1, <2>2 DEF SendBlockedLocked
<1> QED BY <1>5, <1>6, <1>7

\* The tasklet sets the event for the sender whose confirmation came.
LEMMA TaskletBlocked ==
  ASSUME ~SMP, IInv, IInv', BlockedInv, Tasklet PROVE BlockedInv'
<1>0. /\ TypeOK /\ BMsg \subseteq Msg /\ Turn /\ Keeps /\ Settled /\ Woken /\ OkConfirmedWhileActive
      /\ data \in [Msg -> Block \cup {NULL}] /\ cfmd \in [BMsg -> BOOLEAN]
      /\ NULL \notin Block \cup Msg /\ BlocksCoherent
  BY BaseFacts, BlockedTypes DEF BlockedInv
<1>1. UNCHANGED <<active, mutex, pc, res, tm>> /\ tm.pc = "idle"
  BY DEF Tasklet, OnCfm, OnCfmClb, Pump, PumpSend, BhRuns
<1>2. Expired'
  <2>1. tm'.pc = "idle" /\ TimerInv'
    BY <1>1 DEF IInv
  <2> QED BY <2>1 DEF Expired, TimerInv
<1>3. ASSUME UNCHANGED <<data, evt, cfmd>>, Settled' PROVE BlockedInv'
  <2>1. Turn' /\ Keeps'
    BY <1>0, <1>1, <1>3 DEF Turn, Keeps
  <2>2. Woken' /\ OkConfirmedWhileActive'
    BY <1>0, <1>1, <1>3 DEF Woken, OkConfirmedWhileActive, BlockedOkIsConfirmed
  <2> QED BY <1>2, <1>3, <2>1, <2>2 DEF BlockedInv
<1>4. ASSUME NEW m \in BMsg, pc[m] = "done" PROVE data[m] \in Block /\ base.blk[data[m]].msg = m
  BY <1>0, <1>4, HeldBlock DEF Keeps
<1>5. ASSUME NEW s \in Slot, OnCfm(s) PROVE BlockedInv'
  <2>1. UNCHANGED <<data, evt, cfmd>>
    BY <1>5 DEF OnCfm
  <2>2. CASE \E b \in Block : /\ base.blk[b].que = "SENT"
                              /\ bh' = [pc |-> "clb", slot |-> s, block |-> b]
                              /\ \A c \in Block \ {b} : base'.blk[c] = base.blk[c]
    <3>1. PICK b \in Block : /\ base.blk[b].que = "SENT" /\ bh'.block = b
                             /\ \A c \in Block \ {b} : base'.blk[c] = base.blk[c]
      BY <2>2
    <3>2. Settled'
      BY <1>0, <1>1, <1>4, <2>1, <3>1 DEF Settled
    <3> QED BY <1>3, <2>1, <3>2
  <2>3. CASE UNCHANGED base /\ bh' = [pc |-> "pump", slot |-> s, block |-> NULL]
    <3>1. bh'.pc # "clb"
      BY <2>3
    <3>2. Settled'
      BY <1>0, <1>1, <2>1, <2>3, <3>1 DEF Settled
    <3> QED BY <1>3, <2>1, <3>2
  <2> QED BY <1>5, <2>2, <2>3, OnCfmBase
<1>6. CASE OnCfmClb
  <2>1. /\ bh.pc = "clb" /\ CallUsrClb(bh.block)
        /\ cfmd' = [m \in BMsg |-> cfmd[m] \/ (data[m] = bh.block)]
        /\ bh' = [bh EXCEPT !.pc = "pump", !.block = NULL]
    BY <1>6 DEF OnCfmClb
  <2>2. PICK b \in Block : b = bh.block /\ Claimed(b)
    BY <2>1, BaseFacts DEF TaskletInv, Claimed
  <2>3. /\ \A c \in Block \ {b} : base'.blk[c] = base.blk[c]
        /\ \A n \in BMsg : data'[n] = data[n]
        /\ evt' = evt \/ (evt' = EventSet /\ base.blk[b].msg \in BMsg)
    BY <2>1, <2>2, CallUsrClbBase
  <2>4. /\ \A n \in BMsg : cfmd[n] => cfmd'[n]
        /\ \A n \in BMsg : data[n] = b => cfmd'[n]
    BY <2>1, <2>2
  <2>5. bh'.pc = "pump"
    BY <2>1, BaseFacts DEF TypeOK
  <2>6. Turn' /\ Keeps'
    BY <1>0, <1>1, <2>3 DEF Turn, Keeps
  <2>7. Settled'
    BY <1>0, <1>1, <1>4, <2>1, <2>2, <2>3, <2>5 DEF Settled
  <2>8. OkConfirmedWhileActive'
    BY <1>0, <1>1, <2>4 DEF OkConfirmedWhileActive, BlockedOkIsConfirmed
  <2>9. Woken'
    <3>1. CASE evt' = evt
      BY <1>0, <1>1, <2>4, <3>1 DEF Woken
    <3>2. CASE base.blk[b].msg \in BMsg
      <4>1. PICK k \in BMsg : k = base.blk[b].msg
        BY <3>2
      <4>2. data[k] = b /\ pc[k] \notin {"idle", "ready", "mutex"}
        BY <1>0, <2>2, <4>1 DEF BlocksCoherent, Claimed, Keeps
      <4>3. mutex # NULL => mutex = k
        <5>1. pc[k] \in {"sending", "waiting", "done"}
          BY <1>0, <4>2 DEF TypeOK
        <5>2. mutex # NULL => pc[k] # "done"
          BY <1>0, <2>1, <2>2, <4>2 DEF Settled
        <5> QED BY <1>0, <5>1, <5>2 DEF Turn
      <4> QED BY <1>0, <1>1, <2>4, <4>2, <4>3 DEF Woken
    <3> QED BY <2>3, <3>1, <3>2
  <2> QED BY <1>2, <2>6, <2>7, <2>8, <2>9 DEF BlockedInv
<1>7. CASE Pump
  <2>1. UNCHANGED <<data, evt, cfmd>>
    BY <1>7 DEF Pump
  <2>2. /\ \A c \in Block : base.blk[c].que # "QUEUED" => base'.blk[c] = base.blk[c]
        /\ bh'.pc # "clb"
    <3>1. CASE UNCHANGED base /\ bh' = BhIdle
      BY <3>1 DEF BhIdle
    <3>2. CASE /\ \A c \in Block : base.blk[c].que # "QUEUED" => base'.blk[c] = base.blk[c]
               /\ bh' = [bh EXCEPT !.pc = "send"]
      BY <3>2, BaseFacts DEF TypeOK
    <3> QED BY <1>7, <3>1, <3>2, PumpSends
  <2>3. Settled'
    BY <1>0, <1>1, <1>4, <2>1, <2>2 DEF Settled
  <2> QED BY <1>3, <2>1, <2>3
<1>8. CASE PumpSend
  <2>1. UNCHANGED <<base, data, evt, cfmd>> /\ bh'.pc # "clb"
    BY <1>8 DEF PumpSend, BhIdle
  <2>2. Settled'
    BY <1>0, <1>1, <2>1 DEF Settled
  <2> QED BY <1>3, <2>1, <2>2
<1> QED BY <1>5, <1>6, <1>7, <1>8 DEF Tasklet


\* The timer calls back for asynchronous messages only.
LEMMA TimerBlocked ==
  ASSUME IInv, IInv', BlockedInv, Timer PROVE BlockedInv'
<1>0. /\ TypeOK /\ BMsg \subseteq Msg /\ Timed \cap BMsg = {} /\ Turn /\ Keeps /\ Settled /\ Expired
      /\ Woken /\ OkConfirmedWhileActive /\ data \in [Msg -> Block \cup {NULL}] /\ BlocksCoherent
      /\ NULL \notin Block \cup Msg
  BY BaseFacts, BlockedTypes, ConstantsAssumption DEF BlockedInv, AMsg
<1>1. UNCHANGED <<active, mutex, pc, res, cfmd, bh>>
  BY TimerBase
<1>2. ASSUME NEW m \in BMsg, pc[m] = "done" PROVE data[m] \in Block /\ base.blk[data[m]].msg = m
  BY <1>0, <1>2, HeldBlock DEF Keeps
<1>3. ASSUME \A m \in BMsg : data'[m] = data[m], UNCHANGED evt, Settled', Expired' PROVE BlockedInv'
  <2>1. Turn' /\ Keeps'
    BY <1>0, <1>1, <1>3 DEF Turn, Keeps
  <2>2. Woken' /\ OkConfirmedWhileActive'
    BY <1>0, <1>1, <1>3 DEF Woken, OkConfirmedWhileActive, BlockedOkIsConfirmed
  <2> QED BY <1>3, <2>1, <2>2 DEF BlockedInv
<1>4. ASSUME UNCHANGED <<base, data, evt>>, tm'.pc # "clb" PROVE BlockedInv'
  <2>1. Settled'
    BY <1>0, <1>1, <1>4 DEF Settled
  <2>2. Expired'
    BY <1>0, <1>4 DEF Expired
  <2> QED BY <1>3, <1>4, <2>1, <2>2
<1>5. CASE OnTimer
  <2>1. PICK l : l = Scanned("SENT")
    OBVIOUS
  <2>2. /\ tm' = [pc |-> "scan", que |-> "SENT", left |-> l, block |-> NULL]
        /\ UNCHANGED <<base, data, evt>>
    BY <1>5, <2>1 DEF OnTimer
  <2>3. tm'.pc # "clb"
    BY <2>2
  <2> QED BY <1>4, <2>2, <2>3
<1>6. CASE TimerSkips
  <2>1. /\ tm.pc = "scan" /\ UNCHANGED <<base, data, evt>>
        /\ (tm' = [tm EXCEPT !.left = Tail(@)] \/ tm' = [tm EXCEPT !.pc = "drain"])
    BY <1>6 DEF TimerSkips
  <2>2. tm'.pc # "clb"
    BY <1>0, <2>1 DEF TypeOK
  <2> QED BY <1>4, <2>1, <2>2
<1>7. ASSUME NEW k \in Timed, TimerExpires(k) PROVE BlockedInv'
  <2>1. PICK b \in Block : /\ base.blk[b].que \in {"SENT", "QUEUED"} /\ base'.blk[b].msg = k
                           /\ \A c \in Block \ {b} : base'.blk[c] = base.blk[c]
    BY <1>7, TimerExpiresBase
  <2>2. UNCHANGED <<data, evt>> /\ tm.pc = "scan" /\ tm' = [tm EXCEPT !.left = Tail(@)]
    BY <1>7 DEF TimerExpires
  <2>3. tm'.pc # "clb"
    BY <1>0, <2>2 DEF TypeOK
  <2>4. Settled'
    BY <1>0, <1>1, <1>2, <2>1, <2>2 DEF Settled
  <2>5. Expired'
    BY <1>0, <2>1, <2>3 DEF Expired
  <2> QED BY <1>3, <2>2, <2>4, <2>5
<1>8. CASE TimerDrains
  <2>1. UNCHANGED <<data, evt>>
    BY <1>8 DEF TimerDrains
  <2>2. CASE UNCHANGED base /\ tm'.pc # "clb"
    BY <1>4, <2>1, <2>2
  <2>3. ASSUME NEW b \in Block, base.blk[b].que = "TIMED_OUT", base'.blk[b].que = "NONE",
               base'.blk[b].msg = base.blk[b].msg, tm'.block = b,
               \A c \in Block \ {b} : base'.blk[c] = base.blk[c]
        PROVE  BlockedInv'
    <3>1. Settled'
      BY <1>0, <1>1, <1>2, <2>1, <2>3 DEF Settled
    <3>2. Expired'
      BY <1>0, <2>3 DEF Expired
    <3> QED BY <1>3, <2>1, <3>1, <3>2
  <2> QED BY <1>8, <2>2, <2>3, TimerDrainsBase
<1>9. CASE TimerClb
  <2>1. PICK b \in Block : b = tm.block /\ CallUsrClb(b) /\ Claimed(b) /\ base.blk[b].msg \in Timed
    BY <1>0, <1>9, BaseFacts DEF TimerClb, TimerInv, Claimed, Expired
  <2>2. /\ \A c \in Block \ {b} : base'.blk[c] = base.blk[c]
        /\ base'.blk[b].que # "TIMED_OUT"
        /\ \A n \in BMsg : data'[n] = data[n]
        /\ UNCHANGED evt
    BY <1>0, <2>1, CallUsrClbBase
  <2>3. tm'.pc = "drain"
    BY <1>0, <1>9 DEF TimerClb, TypeOK
  <2>4. Settled'
    BY <1>0, <1>1, <1>2, <2>1, <2>2 DEF Settled
  <2>5. Expired'
    BY <1>0, <2>2, <2>3 DEF Expired
  <2> QED BY <1>3, <2>2, <2>4, <2>5
<1> QED BY <1>5, <1>6, <1>7, <1>8, <1>9 DEF Timer

\* The end of the firmware sets the event of a layer that is no longer active,
\* or sets terminate_flag with it; the layer is active again when nobody waits.
LEMMA ControlBlocked ==
  ASSUME ~SMP, IInv, IInv', BlockedInv, Control PROVE BlockedInv'
<1>0. /\ TypeOK /\ BMsg \subseteq Msg /\ Turn /\ Keeps /\ Settled /\ Expired /\ Woken
      /\ OkConfirmedWhileActive /\ active \in BOOLEAN /\ mutex \in BMsg \cup {NULL}
      /\ NULL \notin Msg
  BY BaseFacts, BlockedTypes DEF BlockedInv, TypeOK
<1>1. UNCHANGED <<base, data, mutex, pc, res, cfmd, bh, tm>>
  BY DEF Control, MacFatal, Halt, Isolate, Restore, StopCard, CleanupBegins, CleanupEnds
<1>2. Turn' /\ Keeps' /\ Settled' /\ Expired'
  BY <1>0, <1>1 DEF Turn, Keeps, Settled, Expired
<1>3. \/ active' = FALSE
      \/ active' = active /\ (evt' = evt \/ evt' = EventTerminate)
      \/ \A m \in Msg : data[m] = NULL
  BY DEF Control, MacFatal, Halt, Isolate, Restore, StopCard, CleanupBegins, CleanupEnds
<1>4. CASE active' = FALSE
  BY <1>2, <1>4 DEF BlockedInv, Woken, OkConfirmedWhileActive
<1>5. CASE active' = active /\ (evt' = evt \/ evt' = EventTerminate)
  <2>1. evt' = evt \/ evt'.term = TRUE
    BY <1>5 DEF EventTerminate
  <2>2. Woken'
    BY <1>0, <1>1, <1>5, <2>1 DEF Woken
  <2>3. OkConfirmedWhileActive'
    BY <1>0, <1>1, <1>5 DEF OkConfirmedWhileActive, BlockedOkIsConfirmed
  <2> QED BY <1>2, <2>2, <2>3 DEF BlockedInv
<1>6. CASE \A m \in Msg : data[m] = NULL
  <2>1. \A m \in BMsg : pc[m] = "idle" /\ mutex # m
    BY <1>0, <1>6 DEF Turn, Keeps
  <2> QED BY <1>1, <1>2, <2>1 DEF BlockedInv, Woken, OkConfirmedWhileActive, BlockedOkIsConfirmed
<1> QED BY <1>3, <1>4, <1>5, <1>6

\* BlockedInv holds of the layer on one CPU.
THEOREM BlockedInvariance ==
  ASSUME ~SMP
  PROVE  Spec => []BlockedInv
<1>1. Init => BlockedInv
  <2> SUFFICES ASSUME Init PROVE BlockedInv
    OBVIOUS
  <2>1. \A b \in Block : base.blk[b].que # "TIMED_OUT"
    BY DEF Init, ZeroBlock
  <2>2. /\ \A m \in BMsg : pc[m] = "idle" /\ data[m] = NULL /\ mutex # m
        /\ tm.pc = "idle"
    BY ConstantsAssumption DEF Init, TmIdle
  <2> QED BY <2>1, <2>2 DEF BlockedInv, Turn, Keeps, Settled, Expired, Woken,
                            OkConfirmedWhileActive, BlockedOkIsConfirmed
<1>2. ASSUME IInv, IInv', BlockedInv, [Next]_vars PROVE BlockedInv'
  <2>1. ASSUME NEW m \in Msg, User(m) PROVE BlockedInv'
    BY <1>2, <2>1, OutsideMutex, InsideMutex DEF User
  <2>2. CASE UNCHANGED vars
    BY <1>2, <2>2 DEF vars, BlockedInv, Turn, Keeps, Settled, Expired, Woken,
                      OkConfirmedWhileActive, BlockedOkIsConfirmed
  <2> QED BY <1>2, <2>1, <2>2, TaskletBlocked, TimerBlocked, ControlBlocked DEF Next
<1>3. IInv /\ IInv' /\ BlockedInv /\ [Next]_vars => BlockedInv'
  BY <1>2
<1> QED BY <1>1, <1>3, TxmmInvariance, PTL DEF Spec

\* On one CPU, while the layer is neither halted nor cleaned up, a blocked
\* send returns MTLK_ERR_OK only after the confirmation of its own message: an
\* event set by a late confirmation never wakes another sender.
THEOREM OkAlwaysConfirmed ==
  ASSUME ~SMP
  PROVE  Spec => []OkConfirmedWhileActive
<1>1. BlockedInv => OkConfirmedWhileActive
  BY DEF BlockedInv
<1> QED BY <1>1, BlockedInvariance, PTL


-----------------------------------------------------------------------------
(***************************************************************************)
(* The remove lock of the blocked sends: one reference per send in         *)
(* progress and one of the layer, which cleanup gives up.  Cleanup waits   *)
(* for it only in an active layer.  One that a dead firmware halted and    *)
(* that was not recovered keeps its reference; nothing is said of it once  *)
(* its storage is released.                                                *)
(***************************************************************************)
OwnReference == IF phase \in {"closing", "gone"} THEN 0 ELSE 1

RefsCounted == refs = OwnReference + Cardinality(InSendBlocked)

RefsInv ==
  /\ (phase = "gone" /\ pending) \/ RefsCounted
  /\ ~pending => (active <=> phase \in {"run", "stopped"})
  /\ phase = "gone" /\ ~pending => \A m \in BMsg : pc[m] = "idle"

\* The blocked sends in progress are finitely many.
LEMMA SendsFinite ==
  /\ IsFiniteSet(InSendBlocked) /\ Cardinality(InSendBlocked) \in Nat
  /\ Cardinality(InSendBlocked) = 0 <=> InSendBlocked = {}
<1>1. InSendBlocked \subseteq BMsg
  BY DEF InSendBlocked
<1>2. IsFiniteSet(InSendBlocked)
  BY <1>1, ConstantsAssumption, FS_Subset
<1> QED BY <1>2, FS_CardinalityType, FS_EmptySet

\* A process that enters, stays in or leaves the blocked send.
LEMMA SendsCounted ==
  ASSUME TypeOK, RefsCounted, UNCHANGED phase, NEW m \in Msg, \A n \in Msg \ {m} : pc'[n] = pc[n],
         refs' = refs + (IF m \in InSendBlocked' THEN 1 ELSE 0)
                      - (IF m \in InSendBlocked THEN 1 ELSE 0)
  PROVE  RefsCounted'
<1>0. BMsg \subseteq Msg /\ refs \in Int /\ OwnReference' = OwnReference /\ OwnReference \in Int
  BY ConstantsAssumption DEF TypeOK, OwnReference
<1>1. \A n \in Msg \ {m} : n \in InSendBlocked' <=> n \in InSendBlocked
  BY <1>0 DEF InSendBlocked
<1>2. InSendBlocked \subseteq Msg /\ InSendBlocked' \subseteq Msg
  BY <1>0 DEF InSendBlocked
<1>3. PICK S : S = InSendBlocked
  OBVIOUS
<1>4. PICK T : T = InSendBlocked'
  OBVIOUS
<1>5. IsFiniteSet(S) /\ Cardinality(S) \in Nat /\ refs = OwnReference + Cardinality(S)
  BY <1>3, SendsFinite DEF RefsCounted
<1>6. refs' = OwnReference + Cardinality(T)
  <2>1. CASE m \in S <=> m \in T
    <3>1. S = T
      BY <1>1, <1>2, <1>3, <1>4, <2>1
    <3> QED BY <1>0, <1>3, <1>4, <1>5, <2>1, <3>1
  <2>2. CASE m \notin S /\ m \in T
    <3>1. T = S \cup {m}
      BY <1>1, <1>2, <1>3, <1>4, <2>2
    <3>2. Cardinality(T) = Cardinality(S) + 1
      BY <1>5, <2>2, <3>1, FS_AddElement
    <3> QED BY <1>0, <1>3, <1>4, <1>5, <2>2, <3>2
  <2>3. CASE m \in S /\ m \notin T
    <3>1. T = S \ {m}
      BY <1>1, <1>2, <1>3, <1>4, <2>3
    <3>2. Cardinality(T) = Cardinality(S) - 1
      BY <1>5, <2>3, <3>1, FS_RemoveElement
    <3> QED BY <1>0, <1>3, <1>4, <1>5, <2>3, <3>2
  <2> QED BY <2>1, <2>2, <2>3
<1> QED BY <1>0, <1>4, <1>6 DEF RefsCounted

\* Each call of a user counts itself.
LEMMA UserRefs ==
  ASSUME ~SMP, IInv, BlockedInv, RefsInv, NEW m \in Msg, User(m) PROVE RefsInv'
<1>0. /\ TypeOK /\ Turn /\ Keeps /\ BMsg \subseteq Msg /\ BMsg \cap AMsg = {}
      /\ pc \in [Msg -> {"idle", "ready", "mutex", "sending", "waiting", "done"}] /\ refs \in Int
  BY BaseFacts, BlockedTypes DEF BlockedInv, RefsInv, AMsg, TypeOK
<1>1. UNCHANGED <<active, pending, phase>>
  BY DEF User, GetEmptyData, MsgSendAsync, SendBlockedEnter, SendBlockedLocked, MsgSend,
         SendBlockedReturn, MsgCancel
<1>2. ASSUME \A n \in Msg \ {m} : pc'[n] = pc[n],
             refs' = refs + (IF m \in InSendBlocked' THEN 1 ELSE 0)
                          - (IF m \in InSendBlocked THEN 1 ELSE 0),
             phase = "gone" /\ m \in BMsg => pc[m] # "idle" \/ pc'[m] = "idle"
      PROVE  RefsInv'
  <2>1. RefsCounted => RefsCounted'
    BY <1>0, <1>1, <1>2, SendsCounted
  <2>2. phase' = "gone" /\ ~pending' => \A n \in BMsg : pc'[n] = "idle"
    BY <1>0, <1>1, <1>2 DEF RefsInv
  <2> QED BY <1>1, <2>1, <2>2 DEF RefsInv
<1>3. m \in InSendBlocked <=> m \in BMsg /\ pc[m] \in {"mutex", "sending", "waiting"}
  BY DEF InSendBlocked
<1>4. m \in InSendBlocked' <=> m \in BMsg /\ pc'[m] \in {"mutex", "sending", "waiting"}
  BY DEF InSendBlocked
<1>5. CASE GetEmptyData(m)
  <2>1. pc[m] = "idle" /\ pc' = [pc EXCEPT ![m] = "ready"] /\ phase = "run" /\ UNCHANGED refs
    BY <1>5 DEF GetEmptyData
  <2>2. pc'[m] = "ready" /\ \A n \in Msg \ {m} : pc'[n] = pc[n]
    BY <1>0, <2>1
  <2> QED BY <1>0, <1>2, <1>3, <1>4, <2>1, <2>2
<1>6. CASE MsgSendAsync(m)
  <2>1. m \in AMsg /\ pc[m] = "ready" /\ SendEx(m, "idle") /\ UNCHANGED refs
    BY <1>6 DEF MsgSendAsync
  <2>2. \A n \in Msg \ {m} : pc'[n] = pc[n]
    BY <1>0, <2>1, SendExBase
  <2> QED BY <1>0, <1>2, <1>3, <1>4, <2>1, <2>2
<1>7. CASE SendBlockedEnter(m)
  <2>1. m \in BMsg /\ pc[m] = "ready" /\ m \notin InSendBlocked
    BY <1>3, <1>7 DEF SendBlockedEnter
  <2>2. CASE pending
    <3>1. pc' = [pc EXCEPT ![m] = "done"] /\ UNCHANGED refs
      BY <1>7, <2>2 DEF SendBlockedEnter
    <3>2. pc'[m] = "done" /\ \A n \in Msg \ {m} : pc'[n] = pc[n]
      BY <1>0, <3>1
    <3>3. m \notin InSendBlocked' /\ refs' = refs + 0 - 0
      BY <1>0, <1>4, <3>1, <3>2
    <3> QED BY <1>2, <2>1, <3>2, <3>3
  <2>3. CASE ~pending
    <3>1. pc' = [pc EXCEPT ![m] = "mutex"] /\ refs' = refs + 1
      BY <1>7, <2>3 DEF SendBlockedEnter, RmlockAcquire
    <3>2. pc'[m] = "mutex" /\ \A n \in Msg \ {m} : pc'[n] = pc[n]
      BY <1>0, <3>1
    <3>3. m \in InSendBlocked' /\ refs' = refs + 1 - 0
      BY <1>0, <1>4, <2>1, <3>1, <3>2
    <3> QED BY <1>2, <2>1, <3>2, <3>3
  <2> QED BY <2>2, <2>3
<1>8. ASSUME NEW r, Finish(m, r), m \in BMsg, pc[m] \in {"mutex", "waiting"} PROVE RefsInv'
  <2>1. pc' = [pc EXCEPT ![m] = "done"] /\ refs' = refs - 1
    BY <1>8 DEF Finish, RmlockRelease
  <2>2. pc'[m] = "done" /\ \A n \in Msg \ {m} : pc'[n] = pc[n]
    BY <1>0, <2>1
  <2>3. m \notin InSendBlocked' /\ m \in InSendBlocked
    BY <1>3, <1>4, <1>8, <2>2
  <2>4. pc[m] # "idle" /\ refs' = refs + 0 - 1
    BY <1>0, <1>8, <2>1
  <2> QED BY <1>2, <2>2, <2>3, <2>4
<1>9. CASE SendBlockedLocked(m)
  <2>1. m \in BMsg /\ pc[m] = "mutex"
    BY <1>9 DEF SendBlockedLocked
  <2>2. CASE Finish(m, "OK")
    BY <1>8, <2>1, <2>2
  <2>3. CASE SendEx(m, "waiting") /\ UNCHANGED refs
    <3>1. pc'[m] \in {"sending", "waiting"} /\ \A n \in Msg \ {m} : pc'[n] = pc[n]
      BY <1>0, <2>1, <2>3, SendExBase
    <3> QED BY <1>0, <1>2, <1>3, <1>4, <2>1, <2>3, <3>1
  <2> QED BY <1>9, <2>2, <2>3 DEF SendBlockedLocked
<1>10. CASE MsgSend(m)
  <2>1. /\ pc[m] = "sending" /\ UNCHANGED refs
        /\ pc' = [pc EXCEPT ![m] = IF m \in BMsg THEN "waiting" ELSE "idle"]
    BY <1>10 DEF MsgSend
  <2>2. (m \in BMsg => pc'[m] = "waiting") /\ \A n \in Msg \ {m} : pc'[n] = pc[n]
    BY <1>0, <2>1
  <2> QED BY <1>0, <1>2, <1>3, <1>4, <2>1, <2>2
<1>11. CASE SendBlockedReturn(m)
  <2>1. PICK r : Finish(m, r)
    BY <1>11 DEF SendBlockedReturn
  <2> QED BY <1>8, <1>11, <2>1 DEF SendBlockedReturn
<1>12. CASE MsgCancel(m)
  <2>1. /\ pc[m] \in {"done", "idle"} /\ pc' = [pc EXCEPT ![m] = "idle"] /\ UNCHANGED refs
    BY <1>12 DEF MsgCancel
  <2>2. pc'[m] = "idle" /\ \A n \in Msg \ {m} : pc'[n] = pc[n]
    BY <1>0, <2>1
  <2> QED BY <1>0, <1>2, <1>3, <1>4, <2>1, <2>2
<1> QED BY <1>5, <1>6, <1>7, <1>9, <1>10, <1>11, <1>12 DEF User

\* Cleanup releases the storage when it has waited for all references.
LEMMA ControlRefs ==
  ASSUME ~SMP, IInv, RefsInv, Control PROVE RefsInv'
<1>0. /\ RefsCounted /\ phase # "gone" /\ BMsg \subseteq Msg /\ NULL \notin Msg /\ refs \in Int
      /\ ~pending => (active <=> phase \in {"run", "stopped"})
  BY BaseFacts, BlockedTypes DEF RefsInv, TypeOK, Control, MacFatal, Halt, Isolate, Restore,
         StopCard, CleanupBegins, CleanupEnds
<1>1. UNCHANGED pc /\ InSendBlocked' = InSendBlocked
  BY DEF Control, MacFatal, Halt, Isolate, Restore, StopCard, CleanupBegins, CleanupEnds,
         InSendBlocked
<1>2. PICK k : k = Cardinality(InSendBlocked)
  OBVIOUS
<1>3. k \in Nat /\ refs = OwnReference + k /\ (k = 0 => InSendBlocked = {})
  BY <1>0, <1>2, SendsFinite DEF RefsCounted
<1>4. ASSUME refs' = OwnReference' + k PROVE RefsCounted'
  BY <1>1, <1>2, <1>4 DEF RefsCounted
<1>5. CASE Isolate \/ Restore \/ StopCard
  <2>1. /\ phase' \in {"isolated", "run", "stopped"} /\ UNCHANGED refs
        /\ phase \in {"run", "isolated"}
    BY <1>5 DEF Isolate, Restore, StopCard
  <2>2. ~pending' => (active' <=> phase' \in {"run", "stopped"})
    BY <1>0, <1>5 DEF Isolate, Restore, StopCard
  <2>3. RefsCounted'
    BY <1>3, <1>4, <2>1 DEF OwnReference
  <2> QED BY <2>1, <2>2, <2>3 DEF RefsInv
<1>6. CASE CleanupBegins
  <2>1. phase = "stopped" /\ UNCHANGED pending
    BY <1>6 DEF CleanupBegins
  <2>2. CASE active
    <3>1. active' = FALSE /\ refs' = refs - 1 /\ phase' = "closing"
      BY <1>6, <2>2 DEF CleanupBegins, RmlockRelease
    <3>2. RefsCounted'
      BY <1>3, <1>4, <2>1, <3>1 DEF OwnReference
    <3> QED BY <2>1, <3>1, <3>2 DEF RefsInv
  <2>3. CASE ~active
    <3>1. pending /\ phase' = "gone"
      BY <1>0, <1>6, <2>1, <2>3 DEF CleanupBegins
    <3>2. pending'
      BY <2>1, <3>1
    <3> QED BY <3>1, <3>2 DEF RefsInv
  <2> QED BY <2>2, <2>3
<1>7. CASE CleanupEnds
  <2>1. /\ phase = "closing" /\ refs = 0 /\ phase' = "gone" /\ UNCHANGED <<active, pending, refs>>
        /\ ProcessRuns(NULL)
    BY <1>7 DEF CleanupEnds
  <2>2. k = 0 /\ InSendBlocked = {}
    BY <1>3, <2>1 DEF OwnReference
  <2>3. \A m \in BMsg : pc[m] = "idle"
    BY <1>0, <2>1, <2>2 DEF ProcessRuns, Sleeping, InSendBlocked
  <2>4. RefsCounted'
    BY <1>4, <2>1, <2>2 DEF OwnReference
  <2> QED BY <1>0, <1>1, <2>1, <2>3, <2>4 DEF RefsInv
<1>8. CASE MacFatal \/ Halt
  <2>1. UNCHANGED <<phase, refs>> /\ pending'
    BY <1>8 DEF MacFatal, Halt
  <2>2. RefsCounted'
    BY <1>3, <1>4, <2>1 DEF OwnReference
  <2> QED BY <2>1, <2>2 DEF RefsInv
<1> QED BY <1>5, <1>6, <1>7, <1>8 DEF Control

\* On one CPU, and unless a firmware fault has halted the layer for good,
\* mtlk_txmm_cleanup releases the storage only when no blocked send is in
\* progress, and none begins afterwards.
THEOREM CleanupAlwaysWaits ==
  ASSUME ~SMP
  PROVE  Spec => []CleanupWaits
<1>1. Init => RefsInv
  <2> SUFFICES ASSUME Init PROVE RefsInv
    OBVIOUS
  <2>1. InSendBlocked = {}
    BY ConstantsAssumption DEF Init, InSendBlocked
  <2>2. RefsCounted
    BY <2>1, SendsFinite DEF Init, RefsCounted, OwnReference
  <2> QED BY <2>2 DEF Init, RefsInv
<1>2. ASSUME IInv, BlockedInv, RefsInv, [Next]_vars PROVE RefsInv'
  <2>1. CASE UNCHANGED <<active, pending, phase, refs, pc>>
    BY <1>2, <2>1 DEF RefsInv, RefsCounted, OwnReference, InSendBlocked
  <2>2. CASE Tasklet
    BY <2>1, <2>2 DEF Tasklet, OnCfm, OnCfmClb, Pump, PumpSend
  <2>3. CASE Timer
    BY <1>2, <2>1, <2>3, TimerBase
  <2> QED BY <1>2, <2>1, <2>2, <2>3, UserRefs, ControlRefs DEF Next, vars
<1>3. IInv /\ BlockedInv /\ RefsInv /\ [Next]_vars => RefsInv'
  BY <1>2
<1>4. RefsInv => CleanupWaits
  BY DEF RefsInv, CleanupWaits, InSendBlocked
<1> QED BY <1>1, <1>3, <1>4, TxmmInvariance, BlockedInvariance, PTL DEF Spec
=============================================================================

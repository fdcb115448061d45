----------------------------- MODULE TxmmQueues -----------------------------
(***************************************************************************)
(* The block queues of the management-message layer (txmm.c).              *)
(*                                                                         *)
(* A driver object of type mtlk_txmm_base_t owns max_msgs blocks and four  *)
(* queues of blocks.  A value r of RingState is that part of the object:   *)
(* r.que[q] is the contents of ques[q], oldest first, and r.blk[b] the     *)
(* fields of block b that steer control.  Each queue is here a sequence;   *)
(* module TxmmRing shows that the ring buffers of the code behave so.      *)
(*                                                                         *)
(* The operators are the static helpers of txmm.c, which all run under     *)
(* obj->lock: each maps the state at its call to the state at its return.  *)
(***************************************************************************)
EXTENDS Lists

CONSTANTS
  Block,   \* the blocks of obj->storage; max_msgs of them
  Slot,    \* the hardware message descriptors, PMSG_OBJ
  Msg,     \* the mtlk_txmm_msg_t objects of the users
  NULL     \* the null pointer

Ring == {"FREE", "QUEUED", "SENT", "TIMED_OUT"}

\* Field que of a block may also be MTLK_TXMMB_NONE: at user responsibility.
BlockState == [que : Ring \cup {"NONE"}, msg : Msg \cup {NULL}, slot : Slot \cup {NULL}]

RingState == [que : [Ring -> Seq(Block)], blk : [Block -> BlockState]]

ZeroBlock == [que |-> "FREE", msg |-> NULL, slot |-> NULL]

SetBlock(r, b, v) == [que |-> r.que, blk |-> [r.blk EXCEPT ![b] = v]]

GetBuf(r, q) == [que |-> [r.que EXCEPT ![q] = Tail(@)], blk |-> r.blk]

PutBuf(r, q, b) ==
  [que |-> [r.que EXCEPT ![q] = Append(@, b)], blk |-> [r.blk EXCEPT ![b].que = q]]

(* A block that is not in the queue is left alone and an error is logged.  *)
DelBufFromQue(r, q, b, preserve_order) ==
  IF b \in Elems(r.que[q])
    THEN LET i == Position(r.que[q], b)
         IN  [que |-> [r.que EXCEPT ![q] = IF preserve_order THEN DelKeep(@, i) ELSE DelSwap(@, i)],
              blk |-> [r.blk EXCEPT ![b].que = "NONE"]]
    ELSE r

FreeBuf(r, b) ==
  IF r.blk[b].que = "FREE"
    THEN r
    ELSE PutBuf(SetBlock(r, b, ZeroBlock), "FREE", b)

FreeInPlace(r, b) == FreeBuf(r, b)     \* mutant: forgets the deletion

\* _mtlk_txmm_free: a second free is only reported.  A block of the TIMED_OUT
\* queue takes the default branch, which leaves it in that queue.
Free(r, b) ==
  LET q == r.blk[b].que
  IN  CASE q = "QUEUED" -> FreeBuf(DelBufFromQue(r, "QUEUED", b, TRUE), b)
        [] q = "SENT"   -> FreeBuf(DelBufFromQue(r, "SENT", b, FALSE), b)
        [] OTHER        -> FreeBuf(r, b)

SendBlockPrepare(r, b, s) == PutBuf(SetBlock(r, b, [r.blk[b] EXCEPT !.slot = s]), "SENT", b)

\* _mtlk_txmm_pump with a slot in hand and a block waiting.
PumpBlock(r, s) == SendBlockPrepare(GetBuf(r, "QUEUED"), Head(r.que["QUEUED"]), s)
=============================================================================

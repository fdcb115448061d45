-------------------------------- MODULE Txmm --------------------------------
(***************************************************************************)
(* The management-message layer of the driver (txmm.c) between its users,  *)
(* the firmware and the recovery of the firmware.                          *)
(*                                                                         *)
(* A user attaches a block to its message object and sends it, either      *)
(* blocked (BMsg: it sleeps until the confirmation, a timeout or the end   *)
(* of the firmware) or asynchronously (AMsg: a callback reports the        *)
(* confirmation or, if the sender gave a timeout, its end).  A block       *)
(* travels in one of the hardware descriptors of Slot; when none is free   *)
(* it waits in the QUEUED queue until a confirmation releases one.  The    *)
(* users in addba.c give no timeout: their messages are not in Timed.      *)
(*                                                                         *)
(* Actors: one process per message object; the tasklet bh that handles     *)
(* confirmations; the timer tm; the recovery and shutdown code.  A lock    *)
(* section of the code is one step.  With SMP = FALSE there is one CPU     *)
(* and a non-preemptive kernel: tasklet and timer interrupt a process      *)
(* outside its lock sections and run to completion, and a process runs     *)
(* until it waits for the event or comes to the mutex.  With SMP = TRUE    *)
(* all of them run in parallel.                                            *)
(***************************************************************************)
EXTENDS TxmmQueues, Integers, FiniteSets

CONSTANTS
  BMsg,        \* message objects sent blocked
  Timed,       \* asynchronous ones that are sent with timeout_ms # 0
  ClbActions,  \* what the callback of an asynchronous message may return
  Faults,      \* the parts of the environment that are present
  SMP          \* more than one CPU

AMsg == Msg \ BMsg

ASSUME ConstantsAssumption ==
  /\ IsFiniteSet(Block) /\ IsFiniteSet(BMsg)
  /\ BMsg \subseteq Msg /\ Timed \subseteq AMsg
  /\ NULL \notin Block \cup Slot \cup Msg
  /\ ClbActions \subseteq {"FREE", "SEND", "KEEP"}
  /\ Faults \subseteq {"fatal", "recovery", "cleanup"}
  /\ SMP \in BOOLEAN

VARIABLES
  base,     \* the queues and blocks, in RingState
  data,     \* data[m]: the block behind msg->data
  pool,     \* free hardware descriptors (hw_mmb.c, tx_man.free_list)
  fw,       \* descriptors the firmware has and has not yet confirmed
  tx,       \* tx[m]: the descriptor process m is about to pass to msg_send
  active,   \* TXMM_FLAGS_ACTIVE
  timer,    \* the timeout timer is armed
  events,   \* ~hw->mac_events_stopped_completely
  pending,  \* the core's is_mac_fatal_pending
  phase,    \* progress of recovery and of shutdown
  mutex,    \* bsend.mutex: its holder
  refs,     \* bsend.rmlock: its reference count
  evt,      \* bsend.evt: wait_flag and terminate_flag
  pc,       \* where the process of each message object is
  res,      \* what the last blocked send of a message object returned
  cfmd,     \* history: a confirmation of the current send has arrived
  bh,       \* the confirmation tasklet
  tm        \* the timer handler

vars == <<base, data, pool, fw, tx, active, timer, events, pending, phase,
          mutex, refs, evt, pc, res, cfmd, bh, tm>>

BhIdle == [pc |-> "idle", slot |-> NULL, block |-> NULL]
TmIdle == [pc |-> "idle", que |-> "SENT", left |-> <<>>, block |-> NULL]

TypeOK ==
  /\ base \in RingState
  /\ data \in [Msg -> Block \cup {NULL}]
  /\ pool \subseteq Slot
  /\ fw \subseteq Slot
  /\ tx \in [Msg -> Slot \cup {NULL}]
  /\ active \in BOOLEAN /\ timer \in BOOLEAN
  /\ events \in BOOLEAN /\ pending \in BOOLEAN
  /\ phase \in {"run", "isolated", "stopped", "closing", "gone"}
  /\ mutex \in BMsg \cup {NULL}
  /\ refs \in Int
  /\ evt \in [wait : BOOLEAN, term : BOOLEAN]
  /\ pc \in [Msg -> {"idle", "ready", "mutex", "sending", "waiting", "done"}]
  /\ res \in [BMsg -> {"NONE", "OK", "TIMEOUT"}]
  /\ cfmd \in [BMsg -> BOOLEAN]
  /\ bh \in [pc : {"idle", "clb", "pump", "send"}, slot : Slot \cup {NULL},
             block : Block \cup {NULL}]
  /\ tm \in [pc : {"idle", "scan", "drain", "clb"}, que : {"SENT", "QUEUED"},
             left : Seq(Block), block : Block \cup {NULL}]

\* mtlk_txmm_init and mtlk_txmm_start: all blocks in FREE, the timer armed.  The
\* storage is not zeroed, but nothing reads msg and slot of a block in FREE.
Init ==
  /\ \E s \in [1 .. Cardinality(Block) -> Block] :
       /\ Elems(s) = Block /\ Distinct(s)
       /\ base = [que |-> [q \in Ring |-> IF q = "FREE" THEN s ELSE <<>>],
                  blk |-> [b \in Block |-> ZeroBlock]]
  /\ data = [m \in Msg |-> NULL]
  /\ pool = Slot
  /\ fw = {}
  /\ tx = [m \in Msg |-> NULL]
  /\ active = TRUE
  /\ timer = TRUE
  /\ events = TRUE
  /\ pending = FALSE
  /\ phase = "run"
  /\ mutex = NULL
  /\ refs = 1
  /\ evt = [wait |-> FALSE, term |-> FALSE]
  /\ pc = [m \in Msg |-> "idle"]
  /\ res = [m \in BMsg |-> "NONE"]
  /\ cfmd = [m \in BMsg |-> FALSE]
  /\ bh = BhIdle
  /\ tm = TmIdle

(***************************************************************************)
(* Scheduling.  The timer holds obj->lock while it scans a queue.          *)
(***************************************************************************)
Unlocked == tm.pc # "scan"

\* Where another process may have the CPU.
Sleeping(m) == pc[m] \in {"idle", "mutex", "waiting"}

\* A process other than the one of m, if any, may run.
ProcessRuns(m) ==
  SMP \/ (bh.pc = "idle" /\ tm.pc = "idle" /\ \A n \in Msg \ {m} : Sleeping(n))

(***************************************************************************)
(* The kernel objects of the blocked send.  The operators named "mutant"   *)
(* in the comments, here and below, are slips that the code could contain; *)
(* each shows that some property would notice.                             *)
(***************************************************************************)
EventSet == [evt EXCEPT !.wait = TRUE]
EventTerminate == [wait |-> TRUE, term |-> TRUE]
EventResetForgotten == evt                                           \* mutant
EventReset == [wait |-> FALSE, term |-> FALSE]

RmlockAcquireForgotten == refs                                       \* mutant
RmlockAcquire == refs + 1
RmlockRelease == refs - 1

FinishKeepsMutex(m, r) ==                                            \* mutant
  /\ pc' = [pc EXCEPT ![m] = "done"]
  /\ res' = [res EXCEPT ![m] = r]
  /\ refs' = RmlockRelease
  /\ UNCHANGED mutex

FinishKeepsRmlock(m, r) ==                                           \* mutant
  /\ pc' = [pc EXCEPT ![m] = "done"]
  /\ res' = [res EXCEPT ![m] = r]
  /\ mutex' = NULL
  /\ UNCHANGED refs

\* The label FINISH of _mtlk_txmm_send_blocked, with r in res.
Finish(m, r) ==
  /\ pc' = [pc EXCEPT ![m] = "done"]
  /\ res' = [res EXCEPT ![m] = r]
  /\ mutex' = NULL
  /\ refs' = RmlockRelease

(***************************************************************************)
(* The users' calls.                                                       *)
(***************************************************************************)

\* mtlk_txmm_msg_get_empty_data.  Without a free block, or when the layer is
\* not active, the caller gets no data and nothing changes.  The VAPs, which are the
\* users, are gone when the hardware layer stops (phase "stopped").
GetEmptyData(m) ==
  /\ ProcessRuns(m) /\ Unlocked
  /\ pc[m] = "idle" /\ data[m] = NULL
  /\ active /\ phase = "run"
  /\ base.que["FREE"] # <<>>
  /\ LET b == Head(base.que["FREE"])
     IN  /\ base' = SetBlock(GetBuf(base, "FREE"), b,
                             [base.blk[b] EXCEPT !.msg = m, !.que = "NONE"])
         /\ data' = [data EXCEPT ![m] = b]
  /\ pc' = [pc EXCEPT ![m] = "ready"]
  /\ UNCHANGED <<pool, fw, tx, active, timer, events, pending, phase, mutex, refs, evt, res,
                 cfmd, bh, tm>>

DirectSend(r, b, s) == SendBlockPrepare(r, b, s)                      \* mutant

\* With a descriptor, send the block, or queue it and send the first in line.
DirectOrPump(r, b, s) ==
  IF r.que["QUEUED"] = <<>>
    THEN SendBlockPrepare(r, b, s)
    ELSE PumpBlock(PutBuf(r, "QUEUED", b), s)

SendExWithoutCheck(m, asleep) ==                                     \* mutant
  /\ base' = PutBuf(base, "QUEUED", data[m])
  /\ pc' = [pc EXCEPT ![m] = "sending"]
  /\ UNCHANGED <<pool, tx>>

\* The lock section of _mtlk_txmm_send_ex; asleep is where the process is
\* when it has no descriptor to hand to msg_send.
SendEx(m, asleep) ==
  LET b == data[m]
      r == SetBlock(base, b, [base.blk[b] EXCEPT !.slot = NULL])
  IN  \/ /\ pool = {}
         /\ base' = PutBuf(r, "QUEUED", b)
         /\ pc' = [pc EXCEPT ![m] = asleep]
         /\ UNCHANGED <<pool, tx>>
      \/ \E s \in pool :
           /\ pool' = pool \ {s}
           /\ base' = DirectOrPump(r, b, s)
           /\ tx' = [tx EXCEPT ![m] = s]
           /\ pc' = [pc EXCEPT ![m] = "sending"]

\* mtlk_txmm_msg_send of an asynchronous message.
MsgSendAsync(m) ==
  /\ ProcessRuns(m) /\ Unlocked
  /\ m \in AMsg /\ pc[m] = "ready"
  /\ SendEx(m, "idle")
  /\ UNCHANGED <<data, fw, active, timer, events, pending, phase, mutex, refs, evt, res, cfmd,
                 bh, tm>>

\* _mtlk_txmm_send_blocked up to mtlk_osal_mutex_acquire.
SendBlockedEnter(m) ==
  /\ ProcessRuns(m)
  /\ m \in BMsg /\ pc[m] = "ready"
  /\ IF pending
       THEN pc' = [pc EXCEPT ![m] = "done"] /\ res' = [res EXCEPT ![m] = "TIMEOUT"]
       ELSE pc' = [pc EXCEPT ![m] = "mutex"] /\ UNCHANGED res
  /\ refs' = IF pending THEN refs ELSE RmlockAcquire
  /\ UNCHANGED <<base, data, pool, fw, tx, active, timer, events, pending, phase, mutex,
                 evt, cfmd, bh, tm>>

\* From the acquisition of the mutex to the end of send_ex's lock section.
\* When the layer is no longer active, res still is what get_prop returned.
SendBlockedLocked(m) ==
  /\ ProcessRuns(m) /\ Unlocked
  /\ m \in BMsg /\ pc[m] = "mutex"
  /\ mutex = NULL
  /\ \/ /\ ~active
        /\ Finish(m, "OK")
        /\ UNCHANGED <<base, pool, tx, evt, cfmd>>
     \/ /\ active
        /\ mutex' = m
        /\ evt' = EventReset
        /\ cfmd' = [cfmd EXCEPT ![m] = FALSE]
        /\ SendEx(m, "waiting")
        /\ UNCHANGED <<res, refs>>
  /\ UNCHANGED <<data, fw, active, timer, events, pending, phase, bh, tm>>

\* api.msg_send, called after the lock section with the descriptor in hand.
MsgSend(m) ==
  /\ ProcessRuns(m)
  /\ pc[m] = "sending"
  /\ fw' = fw \cup {tx[m]}
  /\ tx' = [tx EXCEPT ![m] = NULL]
  /\ pc' = [pc EXCEPT ![m] = IF m \in BMsg THEN "waiting" ELSE "idle"]
  /\ UNCHANGED <<base, data, pool, active, timer, events, pending, phase, mutex, refs, evt, res,
                 cfmd, bh, tm>>

\* The return of mtlk_osal_event_wait, by the event or by its timeout, and
\* the rest of _mtlk_txmm_send_blocked.  msg_timed_out, called when the wait
\* failed, resets the firmware: that is MacFatal and Isolate, which need no cause.
SendBlockedReturn(m) ==
  /\ ProcessRuns(m)
  /\ m \in BMsg /\ pc[m] = "waiting"
  /\ Finish(m, IF evt.wait /\ ~evt.term THEN "OK" ELSE "TIMEOUT")
  /\ UNCHANGED <<base, data, pool, fw, tx, active, timer, events, pending, phase, evt, cfmd,
                 bh, tm>>

\* mtlk_txmm_msg_cancel: the users of blocked sends call it in
\* mtlk_txmm_msg_cleanup, the users of asynchronous ones whenever they stop.
MsgCancel(m) ==
  /\ ProcessRuns(m) /\ Unlocked
  /\ pc[m] = IF m \in BMsg THEN "done" ELSE "idle"
  /\ data[m] # NULL
  /\ base' = Free(base, data[m])
  /\ data' = [data EXCEPT ![m] = NULL]
  /\ pc' = [pc EXCEPT ![m] = "idle"]
  /\ IF m \in BMsg
       THEN res' = [res EXCEPT ![m] = "NONE"] /\ cfmd' = [cfmd EXCEPT ![m] = FALSE]
       ELSE UNCHANGED <<res, cfmd>>
  /\ UNCHANGED <<pool, fw, tx, active, timer, events, pending, phase, mutex, refs, evt, bh, tm>>

(***************************************************************************)
(* The user callback, under obj->lock and msg->lock.  The code asserts     *)
(* that the block still has a message: see ClaimedBlockOwned.              *)
(***************************************************************************)
CallUsrClb(b) ==
  LET m == base.blk[b].msg
  IN  /\ m # NULL
      /\ IF data[m] = NULL
           THEN UNCHANGED <<base, data, evt>>           \* the message was cancelled
           ELSE \/ /\ m \in BMsg                        \* _mtlk_txmm_blocked_send_clb
                   /\ evt' = EventSet
                   /\ UNCHANGED <<base, data>>
                \/ /\ m \in AMsg /\ "FREE" \in ClbActions
                   /\ base' = FreeBuf(base, b)
                   /\ data' = [data EXCEPT ![m] = NULL]
                   /\ UNCHANGED evt
                \/ /\ m \in AMsg /\ "SEND" \in ClbActions
                   /\ base' = PutBuf(base, "QUEUED", b)
                   /\ UNCHANGED <<data, evt>>
                \/ /\ m \in AMsg /\ "KEEP" \in ClbActions
                   /\ UNCHANGED <<base, data, evt>>

(***************************************************************************)
(* The tasklet: a confirmation in descriptor s (_mtlk_mmb_handle_cm_cfm,   *)
(* txmm_on_cfm: mtlk_txmm_on_cfm and then mtlk_txmm_pump).                 *)
(***************************************************************************)
BhRuns == SMP \/ tm.pc = "idle"

OnCfm(s) ==
  /\ BhRuns /\ Unlocked
  /\ bh.pc = "idle"
  /\ events
  /\ s \in fw
  /\ fw' = fw \ {s}
  /\ \/ \E b \in Elems(base.que["SENT"]) :
          /\ base.blk[b].slot = s
          /\ base' = DelBufFromQue(base, "SENT", b, FALSE)
          /\ bh' = [pc |-> "clb", slot |-> s, block |-> b]
     \/ /\ \A b \in Elems(base.que["SENT"]) : base.blk[b].slot # s
        /\ bh' = [pc |-> "pump", slot |-> s, block |-> NULL]
        /\ UNCHANGED base
  /\ UNCHANGED <<data, pool, tx, active, timer, events, pending, phase, mutex, refs, evt, pc, res,
                 cfmd, tm>>

OnCfmClb ==
  /\ BhRuns /\ Unlocked
  /\ bh.pc = "clb"
  /\ CallUsrClb(bh.block)
  /\ cfmd' = [m \in BMsg |-> cfmd[m] \/ (data[m] = bh.block)]
  /\ bh' = [bh EXCEPT !.pc = "pump", !.block = NULL]
  /\ UNCHANGED <<pool, fw, tx, active, timer, events, pending, phase, mutex, refs, pc, res, tm>>

PumpFreesOnly ==                                                      \* mutant
  /\ BhRuns /\ Unlocked
  /\ bh.pc = "pump"
  /\ pool' = pool \cup {bh.slot}
  /\ bh' = BhIdle
  /\ UNCHANGED <<base, data, fw, tx, active, timer, events, pending, phase, mutex, refs, evt,
                 pc, res, cfmd, tm>>

PumpFreesToo ==                                                       \* mutant
  /\ BhRuns /\ Unlocked
  /\ bh.pc = "pump"
  /\ base' = IF base.que["QUEUED"] # <<>> THEN PumpBlock(base, bh.slot) ELSE base
  /\ bh' = IF base.que["QUEUED"] # <<>> THEN [bh EXCEPT !.pc = "send"] ELSE BhIdle
  /\ pool' = pool \cup {bh.slot}
  /\ UNCHANGED <<data, fw, tx, active, timer, events, pending, phase, mutex, refs, evt, pc,
                 res, cfmd, tm>>

Pump ==
  /\ BhRuns /\ Unlocked
  /\ bh.pc = "pump"
  /\ \/ /\ base.que["QUEUED"] # <<>>
        /\ base' = PumpBlock(base, bh.slot)
        /\ bh' = [bh EXCEPT !.pc = "send"]
        /\ UNCHANGED pool
     \/ /\ base.que["QUEUED"] = <<>>
        /\ pool' = pool \cup {bh.slot}
        /\ bh' = BhIdle
        /\ UNCHANGED base
  /\ UNCHANGED <<data, fw, tx, active, timer, events, pending, phase, mutex, refs, evt, pc, res,
                 cfmd, tm>>

PumpSend ==
  /\ BhRuns
  /\ bh.pc = "send"
  /\ fw' = fw \cup {bh.slot}
  /\ bh' = BhIdle
  /\ UNCHANGED <<base, data, pool, tx, active, timer, events, pending, phase, mutex, refs, evt, pc,
                 res, cfmd, tm>>

(***************************************************************************)
(* The timer, _mtlk_txmm_on_timer: _mtlk_txmm_on_timer_que for SENT and    *)
(* then for QUEUED.  A blocked send has no timeout here: it waits itself.  *)
(***************************************************************************)
TmRuns == SMP \/ bh.pc = "idle"

ScannedSentOnly(q) == IF q = "SENT" THEN base.que[q] ELSE <<>>         \* mutant

\* The loop runs from que->from to que->to, which are equal in a full ring.
Scanned(q) == IF Len(base.que[q]) = Cardinality(Block) THEN <<>> ELSE base.que[q]

OnTimer ==
  /\ TmRuns
  /\ timer
  /\ tm.pc = "idle"
  /\ tm' = [pc |-> "scan", que |-> "SENT", left |-> Scanned("SENT"), block |-> NULL]
  /\ UNCHANGED <<base, data, pool, fw, tx, active, timer, events, pending, phase, mutex, refs, evt,
                 pc, res, cfmd, bh>>

\* The next block of the scan has waited for its timeout.
TimerExpires(m) ==
  /\ TmRuns
  /\ tm.pc = "scan" /\ tm.left # <<>>
  /\ LET b == Head(tm.left)
     IN  /\ m \in Timed /\ base.blk[b].msg = m
         /\ base' = PutBuf(DelBufFromQue(base, tm.que, b, tm.que = "QUEUED"), "TIMED_OUT", b)
  /\ tm' = [tm EXCEPT !.left = Tail(@)]
  /\ UNCHANGED <<data, pool, fw, tx, active, timer, events, pending, phase, mutex, refs, evt, pc,
                 res, cfmd, bh>>

\* It has not, or has none; at the end of the queue the lock is released.
TimerSkips ==
  /\ TmRuns
  /\ tm.pc = "scan"
  /\ tm' = IF tm.left # <<>> THEN [tm EXCEPT !.left = Tail(@)] ELSE [tm EXCEPT !.pc = "drain"]
  /\ UNCHANGED <<base, data, pool, fw, tx, active, timer, events, pending, phase, mutex, refs, evt,
                 pc, res, cfmd, bh>>

\* The second loop: claim the first timed-out block, or end this queue.
TimerDrains ==
  /\ TmRuns
  /\ tm.pc = "drain"
  /\ \/ /\ base.que["TIMED_OUT"] # <<>>
        /\ LET b == Head(base.que["TIMED_OUT"])
           IN  /\ base' = DelBufFromQue(base, "TIMED_OUT", b, FALSE)
               /\ tm' = [tm EXCEPT !.pc = "clb", !.block = b]
     \/ /\ base.que["TIMED_OUT"] = <<>> /\ tm.que = "SENT"
        /\ tm' = [pc |-> "scan", que |-> "QUEUED", left |-> Scanned("QUEUED"), block |-> NULL]
        /\ UNCHANGED base
     \/ /\ base.que["TIMED_OUT"] = <<>> /\ tm.que = "QUEUED"
        /\ tm' = TmIdle
        /\ UNCHANGED base
  /\ UNCHANGED <<data, pool, fw, tx, active, timer, events, pending, phase, mutex, refs, evt, pc,
                 res, cfmd, bh>>

TimerClb ==
  /\ TmRuns
  /\ tm.pc = "clb"
  /\ CallUsrClb(tm.block)
  /\ tm' = [tm EXCEPT !.pc = "drain", !.block = NULL]
  /\ UNCHANGED <<pool, fw, tx, active, timer, events, pending, phase, mutex, refs, pc, res, cfmd,
                 bh>>

(***************************************************************************)
(* The end of the firmware, its recovery, and the shutdown of the driver.  *)
(***************************************************************************)

\* _mtlk_handle_mac_fatal_sync, in the tasklet.
MacFatal ==
  /\ "fatal" \in Faults
  /\ SMP \/ (bh.pc = "idle" /\ tm.pc = "idle")
  /\ events /\ ~pending /\ phase = "run"
  /\ pending' = TRUE
  /\ evt' = EventTerminate
  /\ UNCHANGED <<base, data, pool, fw, tx, active, timer, events, phase, mutex, refs, pc, res, cfmd,
                 bh, tm>>

\* The task it schedules sets MTLK_HW_PROP_STATE: mtlk_txmm_halt.
Halt ==
  /\ pending /\ active /\ phase = "run"
  /\ ProcessRuns(NULL)
  /\ active' = FALSE
  /\ UNCHANGED <<base, data, pool, fw, tx, timer, events, pending, phase, mutex, refs, evt, pc, res,
                 cfmd, bh, tm>>

\* master_recovery first waits until the serializers of all VAPs, which send
\* the blocked messages, are parked; then mtlk_hw_mmb_isolate.
Isolate ==
  /\ "recovery" \in Faults
  /\ phase = "run"
  /\ \A m \in BMsg : pc[m] = "idle"
  /\ ProcessRuns(NULL)
  /\ tm.pc = "idle"                        \* mtlk_osal_timer_cancel_sync
  /\ events' = FALSE
  /\ timer' = FALSE
  /\ active' = FALSE
  /\ phase' = "isolated"
  /\ UNCHANGED <<base, data, pool, fw, tx, pending, mutex, refs, evt, pc, res, cfmd, bh, tm>>

\* core_on_rcvry_isol has removed the stations and so cancelled the
\* asynchronous messages; then mtlk_hw_mmb_restore.  mtlk_txmm_restore finds
\* no block to discard (the messages have all given theirs back) and leaves the
\* queues as they are.
Restore ==
  /\ phase = "isolated"
  /\ \A m \in Msg : data[m] = NULL
  /\ ProcessRuns(NULL)
  /\ bh.pc = "idle"
  /\ events' = TRUE
  /\ pending' = FALSE
  /\ pool' = Slot
  /\ fw' = {}
  /\ timer' = TRUE
  /\ active' = TRUE
  /\ phase' = "run"
  /\ UNCHANGED <<base, data, tx, mutex, refs, evt, pc, res, cfmd, bh, tm>>

\* mtlk_hw_mmb_stop_card, after the VAPs are stopped.
StopCard ==
  /\ "cleanup" \in Faults
  /\ phase = "run"
  /\ \A m \in AMsg : data[m] = NULL
  /\ ProcessRuns(NULL)
  /\ tm.pc = "idle"
  /\ events' = FALSE
  /\ timer' = FALSE
  /\ phase' = "stopped"
  /\ UNCHANGED <<base, data, pool, fw, tx, active, pending, mutex, refs, evt, pc, res, cfmd, bh, tm>>

\* mtlk_txmm_cleanup up to mtlk_rmlock_wait.
CleanupBegins ==
  /\ phase = "stopped"
  /\ ProcessRuns(NULL)
  /\ IF active
       THEN /\ active' = FALSE
            /\ evt' = EventSet
            /\ refs' = RmlockRelease
            /\ phase' = "closing"
       ELSE phase' = "gone" /\ UNCHANGED <<active, evt, refs>>
  /\ UNCHANGED <<base, data, pool, fw, tx, timer, events, pending, mutex, pc, res, cfmd, bh, tm>>

\* mtlk_rmlock_wait returns and the storage is released.
CleanupEnds ==
  /\ phase = "closing"
  /\ ProcessRuns(NULL)
  /\ refs = 0
  /\ phase' = "gone"
  /\ UNCHANGED <<base, data, pool, fw, tx, active, timer, events, pending, mutex, refs, evt, pc, res,
                 cfmd, bh, tm>>

User(m) ==
  \/ GetEmptyData(m)
  \/ MsgSendAsync(m)
  \/ SendBlockedEnter(m)
  \/ SendBlockedLocked(m)
  \/ MsgSend(m)
  \/ SendBlockedReturn(m)
  \/ MsgCancel(m)

Tasklet ==
  \/ \E s \in Slot : OnCfm(s)
  \/ OnCfmClb
  \/ Pump
  \/ PumpSend

Timer ==
  \/ OnTimer
  \/ \E m \in Timed : TimerExpires(m)
  \/ TimerSkips
  \/ TimerDrains
  \/ TimerClb

Control ==
  \/ MacFatal
  \/ Halt
  \/ Isolate
  \/ Restore
  \/ StopCard
  \/ CleanupBegins
  \/ CleanupEnds

Next == (\E m \in Msg : User(m)) \/ Tasklet \/ Timer \/ Control

Spec == Init /\ [][Next]_vars

(***************************************************************************)
(* Fairness.  The kernel schedules every runnable process, tasklet and     *)
(* timer again and again; tasklet and timer may keep a process off the     *)
(* CPU, but not for ever, so processes need strong fairness.  Waiters of   *)
(* bsend.mutex are served in order.  A timeout passes sooner or later.     *)
(* Nobody has to attach a message or to cancel one, a confirmation may     *)
(* never come, and nothing forces a fault.                                 *)
(***************************************************************************)
\* What process m does once it has a message to send; a step per place.
Proceeds(m) ==
  \/ MsgSendAsync(m)
  \/ SendBlockedEnter(m)
  \/ SendBlockedLocked(m)
  \/ MsgSend(m)
  \/ SendBlockedReturn(m)
  \/ m \in BMsg /\ MsgCancel(m)

Fairness ==
  /\ \A m \in Msg : SF_vars(Proceeds(m))
  /\ WF_vars(OnCfmClb \/ Pump \/ PumpSend)
  /\ SF_vars(OnTimer)
  /\ \A m \in Timed : SF_vars(TimerExpires(m))
  /\ WF_vars(TimerSkips \/ TimerDrains \/ TimerClb)
  /\ SF_vars(CleanupBegins \/ CleanupEnds)

FairSpec == Spec /\ Fairness

(***************************************************************************)
(* Safety.                                                                 *)
(***************************************************************************)

\* Every block is in exactly the queue its que field names, once; it is in
\* FREE exactly when no message holds it; and message and block point at
\* each other.  So no block leaks or serves two messages, whichever of
\* confirmation, timeout and cancellation ends the send (txmm.c, _mtlk_txmm_free,
\* _mtlk_txmm_call_usr_clb_locked).
BlocksCoherent ==
  /\ \A q \in Ring : Distinct(base.que[q])
  /\ \A b \in Block, q \in Ring : b \in Elems(base.que[q]) <=> base.blk[b].que = q
  /\ \A b \in Block : base.blk[b].que = "FREE" <=> base.blk[b].msg = NULL
  /\ \A b \in Block, m \in Msg : base.blk[b].msg = m <=> data[m] = b

Holders(s) ==
  {<<"pool">> : x \in {s} \cap pool} \cup {<<"fw">> : x \in {s} \cap fw}
    \cup {<<"bh">> : x \in {s} \cap {bh.slot}} \cup {<<"tx", m>> : m \in {n \in Msg : tx[n] = s}}

\* Every descriptor is in one place: free, with the firmware, in the hands of
\* the tasklet or of one sending process; none is lost when a message is
\* cancelled or times out before its late confirmation, and two blocks that
\* wait for a confirmation never wait for the same one (txmm.c, pump and send_ex).
SlotsAccounted ==
  /\ \A s \in Slot : Cardinality(Holders(s)) = 1
  /\ \A b \in Block : base.blk[b].que = "SENT" =>
       /\ base.blk[b].slot \in Slot \ pool
       /\ \A c \in Block \ {b} : base.blk[c].que = "SENT" => base.blk[c].slot # base.blk[b].slot

\* A message goes to the firmware ahead of the queued ones only if it is the
\* first of them: send_ex and pump keep the order of the users' sends.
NoOvertaking ==
  [][\A b \in Block :
       (/\ base.que["QUEUED"] # <<>>
        /\ base.blk[b].que # "SENT" /\ base.blk'[b].que = "SENT")
         => b = Head(base.que["QUEUED"])]_vars

\* No message waits in QUEUED while a descriptor is free, as long as no
\* callback asks for a re-send: txmm_on_cfm pumps after every confirmation.
WorkConserving == base.que["QUEUED"] # <<>> => pool = {}

\* A block that the tasklet or the timer has claimed and is about to call back
\* for still belongs to its message: the assertion of
\* _mtlk_txmm_call_usr_clb_locked, which is reached after the lock was released.
ClaimedBlockOwned ==
  /\ bh.pc = "clb" => base.blk[bh.block].msg # NULL
  /\ tm.pc = "clb" => base.blk[tm.block].msg # NULL

\* What txmm.h promises of a blocked send: MTLK_ERR_OK means that a
\* confirmation of this message was received.
BlockedOkIsConfirmed ==
  \A m \in BMsg : (pc[m] = "done" /\ res[m] = "OK") => cfmd[m]

\* What the code keeps of it on one CPU: the promise holds unless the layer
\* was halted or cleaned up before the caller looks at the result.
OkConfirmedWhileActive == active => BlockedOkIsConfirmed

InSendBlocked == {m \in BMsg : pc[m] \in {"mutex", "sending", "waiting"}}

\* mtlk_txmm_cleanup releases the storage only when no blocked send is in
\* progress: the remove lock counts them all.  A layer that a dead firmware has
\* halted is not active, and cleanup does not wait there.
CleanupWaits == phase = "gone" /\ ~pending => InSendBlocked = {}

(***************************************************************************)
(* Liveness.                                                               *)
(***************************************************************************)

\* A blocked send returns and its message is released, even if the firmware
\* never answers and other senders compete for the mutex.
BlockedReturns == \A m \in BMsg : pc[m] = "ready" ~> pc[m] = "idle"

\* An asynchronous message with a timeout is called back: with its confirmation
\* or, within the timeout, with MTLK_TXMM_CLBR_TIMEOUT_SENT or _UNSENT, also when
\* the layer is halted, unless a recovery stops the timer first.
AsyncAnswered ==
  \A m \in Timed : (data[m] # NULL /\ pc[m] = "idle") ~> (data[m] = NULL \/ ~timer)

\* mtlk_txmm_cleanup gets past its wait for the remove lock.
CleanupCompletes == phase = "closing" ~> phase = "gone"
=============================================================================

------------------------------- MODULE Addba -------------------------------
(***************************************************************************)
(* Block acknowledgement agreements of one station (addba.c) together with *)
(* their owner, the station entry (stadb.c).                               *)
(*                                                                         *)
(* Per traffic identifier there are two automata: baTx negotiates an       *)
(* aggregation we send, baRx a reordering for what the peer sends.  Both   *)
(* talk to the firmware through one asynchronous TXMM message each, sent   *)
(* without a timeout, and share two limited reference counters with all    *)
(* the other stations.  The station entry counts the packets of a TID,     *)
(* asks for an aggregation by a task of the serializer (revive) and        *)
(* remembers in aggr_inited that it has asked.                             *)
(*                                                                         *)
(* Contexts.  Confirmations and frames of the peer come in the tasklet;    *)
(* transmission statuses, revivals, connection and disconnection are tasks *)
(* of the serializer; the timer runs under the lock of the station         *)
(* database.  A section under addba->lock is one step.  A disconnection    *)
(* takes several; it holds the lock of the database with the tasklet off,  *)
(* so only on more than one CPU ("smp") does a confirmation come between.  *)
(*                                                                         *)
(* Left out: counters and logs, dialog tokens other than "the one of the   *)
(* current request", window sizes other than "too small", all lengths of   *)
(* time (a timeout may come whenever its state lasts).                     *)
(***************************************************************************)
EXTENDS Integers, Sequences, FiniteSets

CONSTANTS
  TxTid,       \* TIDs that carry our traffic
  RxTid,       \* TIDs for which the peer asks for a block acknowledgement
  AggrMax,     \* max of aggr_reflim
  ReordMax,    \* max of reord_reflim
  MaxRetransmissions,  \* MTLK_ADDBA_RSP_ and MTLK_DELBA_REQ_MAX_RETRANSMISSIONS
  MaxRejects,  \* MTLK_ADDBA_MAX_REJECTS
  StatusMax,   \* bound on the statuses of a TID that wait for the serializer
  ReviveMax,   \* bound on the revivals of a TID that wait for the serializer
  OthersMax,   \* bound on the references that other stations hold
  BaFaults     \* {"smp"} when the driver runs on more than one CPU

Tid == TxTid \cup RxTid

ASSUME AddbaConstants ==
  /\ IsFiniteSet(Tid) /\ Tid # {}
  /\ AggrMax \in Nat /\ ReordMax \in Nat
  /\ MaxRetransmissions \in Nat \ {0} /\ MaxRejects \in Nat \ {0}
  /\ StatusMax \in Nat /\ ReviveMax \in Nat /\ OthersMax \in Nat
  /\ BaFaults \subseteq {"smp"}

VARIABLES
  baActive,  \* the station is in the database and its peer is_active
  baStop,    \* progress of _mtlk_addba_peer_stop
  baTx,      \* peer->tid[].tx
  baRx,      \* peer->tid[].rx
  aggrCur,   \* aggr_reflim.cur
  reordCur,  \* reord_reflim.cur
  baOthers,  \* references of the other stations to aggr_reflim and reord_reflim
  inited,    \* sta->aggr_inited
  revive,    \* revivals that wait for the serializer
  status     \* BA_TX_STATUS indications that wait for the serializer

baVars == <<baActive, baStop, baTx, baRx, aggrCur, reordCur, baOthers, inited, revive,
            status>>

TxState == {"NONE", "ADDBA_REQ_SENT", "ADDBA_REQ_CFMD", "ADD_AGGR_REQ_SENT", "AGGR_OPENED",
            "DEL_AGGR_REQ_SENT", "STA_POWER_SAVE"}
RxState == {"NONE", "NEGATIVE_RES_SENT", "POSITIVE_RES_SENT", "REORD_IN_PROCESS",
            "DELBA_REQ_SENT", "DELBA_REQ_SENT_WITHOUT_REORDERING"}

\* "held": a block is attached to the message and was never sent.
TxMsg == {"free", "ADDBA_REQ", "OPEN_AGGR", "CLOSE_AGGR", "held"}
RxMsg == {"free", "ADDBA_RES", "DELBA_RX", "DELBA_TX"}

\* A station entry as _mtlk_sta_init and mtlk_addba_peer_start leave it.
FreshTx == [state |-> "NONE", msg |-> "free", dlgt |-> FALSE, ts |-> FALSE, rejects |-> 0,
            rejected |-> FALSE, delba |-> 0]
FreshRx == [state |-> "NONE", msg |-> "free", reord |-> FALSE, accept |-> FALSE, res |-> 0,
            delba |-> 0]

StopIdle == [left |-> {}, step |-> "idle", aggr |-> FALSE]

AddbaTypeOK ==
  /\ baActive \in BOOLEAN
  /\ baStop \in [left : SUBSET Tid, aggr : BOOLEAN,
                step : {"idle", "tx", "cancel_tx", "rx", "cancel_rx", "reorder"}]
  /\ baTx \in [Tid -> [state : TxState, msg : TxMsg, dlgt : BOOLEAN, ts : BOOLEAN,
                       rejects : 0 .. MaxRejects - 1, rejected : BOOLEAN,
                       delba : 0 .. MaxRetransmissions]]
  /\ baRx \in [Tid -> [state : RxState, msg : RxMsg, reord : BOOLEAN, accept : BOOLEAN,
                       res : 0 .. MaxRetransmissions, delba : 0 .. MaxRetransmissions]]
  /\ aggrCur \in Int /\ reordCur \in Int
  /\ baOthers \in [aggr : Nat, reord : Nat]
  /\ inited \in [Tid -> BOOLEAN]
  /\ revive \in [Tid -> 0 .. ReviveMax]
  /\ status \in [Tid -> Seq(RxMsg \ {"free"})]

AddbaInit ==
  /\ baActive = FALSE /\ baStop = StopIdle
  /\ baTx = [t \in Tid |-> FreshTx] /\ baRx = [t \in Tid |-> FreshRx]
  /\ aggrCur = 0 /\ reordCur = 0 /\ baOthers = [aggr |-> 0, reord |-> 0]
  /\ inited = [t \in Tid |-> FALSE] /\ revive = [t \in Tid |-> 0]
  /\ status = [t \in Tid |-> <<>>]

-----------------------------------------------------------------------------
(* Pieces of the handlers, as functions of the record of one TID.          *)

Stopping == baStop.step # "idle"

\* The tasklet, and whatever else does not take the lock of the database.
Runs == ~Stopping \/ "smp" \in BaFaults

AggrOn(s) == s \in {"AGGR_OPENED", "DEL_AGGR_REQ_SENT"}
HasRef(s) == s \notin {"NONE", "STA_POWER_SAVE"}
One(b) == IF b THEN 1 ELSE 0

\* mtlk_reflim_try_ref: the counter is an uint32, so that one which was
\* decremented below zero is far above max.
CanRef(cur, max) == cur + 1 \in 0 .. max

\* _mtlk_addba_peer_reset_tx_state, without its mtlk_reflim_unref.
ResetTx(r) ==
  IF r.state = "NONE" THEN r ELSE [r EXCEPT !.state = "NONE", !.dlgt = FALSE, !.ts = FALSE]

\* mtlk_reflim_unref of _mtlk_addba_peer_reset_tx_state.
UnrefTx(t) == aggrCur - One(HasRef(baTx[t].state))

ResetRx(r) == [r EXCEPT !.state = "NONE", !.res = 0, !.delba = 0]

ReorderingStop(r) == [ResetRx(r) EXCEPT !.reord = FALSE]
UnrefRx(t) == reordCur - One(baRx[t].reord)

\* mtlk_txmm_msg_get_empty_data: it fails when the message is in use, and may
\* fail for lack of a block.  A message that has got a block is always sent.
Get(r) == IF r.msg = "free" THEN BOOLEAN ELSE {FALSE}

\* _mtlk_addba_peer_send_delba_req.
SendDelba(r, dir, got) ==
  IF ~got THEN r
  ELSE [r EXCEPT !.msg = dir,
                 !.state = CASE dir = "DELBA_TX" -> @
                             [] dir = "DELBA_RX" /\ r.reord -> "DELBA_REQ_SENT"
                             [] OTHER -> "DELBA_REQ_SENT_WITHOUT_REORDERING"]

\* _mtlk_addba_peer_send_rx_addba_res.
SendRes(r, got) ==
  IF ~got THEN r
  ELSE [r EXCEPT !.msg = "ADDBA_RES",
                 !.state = IF r.accept THEN "POSITIVE_RES_SENT" ELSE "NEGATIVE_RES_SENT"]

\* _mtlk_addba_peer_close_aggr_req.
CloseAggr(r, got) ==
  IF /\ r.state \in {"ADD_AGGR_REQ_SENT", "AGGR_OPENED"}
     /\ r.ts /\ got
  THEN [r EXCEPT !.msg = "CLOSE_AGGR", !.state = "DEL_AGGR_REQ_SENT"]
  ELSE r

SetTx(t, r) == baTx' = [baTx EXCEPT ![t] = r]
SetRx(t, r) == baRx' = [baRx EXCEPT ![t] = r]

\* _mtlk_sta_addba_restart_tx_count_tid, the owner's on_stop_aggregation and
\* on_ba_req_unconfirmed, when `stop'.
RestartTxCount(t, stop) == inited' = [inited EXCEPT ![t] = @ /\ ~stop]

\* _mtlk_sta_schedule_aggregation_revival_tid; the task may be refused.
ScheduleRevival(t) ==
  \/ revive[t] < ReviveMax /\ revive' = [revive EXCEPT ![t] = @ + 1]
  \/ UNCHANGED revive

\* A handler that checks is_active before it takes addba->lock.
Hears == baActive \/ (Stopping /\ "smp" \in BaFaults)

-----------------------------------------------------------------------------
(* The station entry.                                                      *)

\* mtlk_sta_update_tx, when the count of packets reaches aggr_open_threshold.
UpdateTx(t) ==
  /\ baActive /\ t \in TxTid /\ ~inited[t]
  /\ inited' = [inited EXCEPT ![t] = TRUE]
  /\ ScheduleRevival(t)
  /\ UNCHANGED <<baOthers, baActive, baStop, baTx, baRx, aggrCur, reordCur, status>>

\* _mtlk_addba_peer_tx_addba_req.
TxAddbaReq(t, ps) ==
  \/ /\ baTx[t].state = "NONE" /\ ps
     /\ SetTx(t, [baTx[t] EXCEPT !.state = "STA_POWER_SAVE"])
     /\ UNCHANGED aggrCur
  \/ /\ baTx[t].state = "NONE" /\ ~ps /\ CanRef(aggrCur, AggrMax) /\ TRUE \in Get(baTx[t])
     /\ SetTx(t, [baTx[t] EXCEPT !.state = "ADDBA_REQ_SENT", !.msg = "ADDBA_REQ",
                                 !.dlgt = TRUE])
     /\ aggrCur' = aggrCur + 1
  \/ UNCHANGED <<baTx, aggrCur>>

\* _mtlk_stadb_on_addba_revive_aggregation_tid, a task of the serializer.
Revive(t) ==
  /\ ~Stopping /\ revive[t] > 0
  /\ revive' = [revive EXCEPT ![t] = @ - 1]
  /\ IF baActive THEN \E ps \in BOOLEAN : TxAddbaReq(t, ps) ELSE UNCHANGED <<baTx, aggrCur>>
  /\ UNCHANGED <<baOthers, baActive, baStop, baRx, reordCur, inited, status>>

\* _mtlk_sta_addba_exit_ps, in the tasklet.
ExitPs(t) ==
  /\ baActive /\ inited[t] /\ baTx[t].state = "STA_POWER_SAVE"
  /\ SetTx(t, [baTx[t] EXCEPT !.state = "NONE"])
  /\ RestartTxCount(t, TRUE)
  /\ UNCHANGED <<baOthers, baActive, baStop, baRx, aggrCur, reordCur, revive, status>>

\* mtlk_stadb_add_sta: a task of the serializer, behind the statuses that were
\* indicated before it and, having a higher priority, ahead of the revivals:
\* one that was asked for before the disconnection finds the new station.
StaStart ==
  /\ ~baActive /\ ~Stopping
  /\ \A t \in Tid : status[t] = <<>>
  /\ baActive' = TRUE
  /\ baTx' = [t \in Tid |-> FreshTx] /\ baRx' = [t \in Tid |-> FreshRx]
  /\ inited' = [t \in Tid |-> FALSE]
  /\ UNCHANGED <<baOthers, baStop, aggrCur, reordCur, revive, status>>

-----------------------------------------------------------------------------
(* _mtlk_addba_peer_stop of mtlk_stadb_remove_sta, one section after the   *)
(* other, TID after TID.                                                   *)

StopTid == CHOOSE t \in baStop.left : TRUE

StaStop ==
  /\ baActive
  /\ baActive' = FALSE
  /\ baStop' = [left |-> Tid, step |-> "tx", aggr |-> FALSE]
  /\ UNCHANGED <<baOthers, baTx, baRx, aggrCur, reordCur, inited, revive, status>>

StopTx ==
  LET t == StopTid IN
  /\ baStop.step = "tx"
  /\ SetTx(t, ResetTx(baTx[t])) /\ aggrCur' = UnrefTx(t)
  /\ baStop' = [baStop EXCEPT !.step = "cancel_tx", !.aggr = AggrOn(baTx[t].state)]
  /\ UNCHANGED <<baOthers, baActive, baRx, reordCur, inited, revive, status>>

StopCancelTx ==
  LET t == StopTid IN
  /\ baStop.step = "cancel_tx"
  /\ SetTx(t, [baTx[t] EXCEPT !.msg = "free"])
  /\ RestartTxCount(t, baStop.aggr)
  /\ baStop' = [baStop EXCEPT !.step = "rx", !.aggr = FALSE]
  /\ UNCHANGED <<baOthers, baActive, baRx, aggrCur, reordCur, revive, status>>

StopRx ==
  LET t == StopTid IN
  /\ baStop.step = "rx"
  /\ SetRx(t, ResetRx(baRx[t]))
  /\ baStop' = [baStop EXCEPT !.step = "cancel_rx"]
  /\ UNCHANGED <<baOthers, baActive, baTx, aggrCur, reordCur, inited, revive, status>>

StopCancelRx ==
  LET t == StopTid IN
  /\ baStop.step = "cancel_rx"
  /\ SetRx(t, [baRx[t] EXCEPT !.msg = "free"])
  /\ baStop' = [baStop EXCEPT !.step = "reorder"]
  /\ UNCHANGED <<baOthers, baActive, baTx, aggrCur, reordCur, inited, revive, status>>

\* _mtlk_addba_peer_reordering_stop and the memset of what precedes man_msg.
StopReorder ==
  LET t == StopTid IN
  /\ baStop.step = "reorder"
  /\ SetTx(t, [baTx[t] EXCEPT !.state = "NONE", !.dlgt = FALSE, !.rejects = 0])
  /\ SetRx(t, ReorderingStop(baRx[t])) /\ reordCur' = UnrefRx(t)
  /\ baStop' = IF baStop.left = {t} THEN StopIdle
               ELSE [left |-> baStop.left \ {t}, step |-> "tx", aggr |-> FALSE]
  /\ UNCHANGED <<baOthers, baActive, aggrCur, inited, revive, status>>
-----------------------------------------------------------------------------
(* Confirmations of the firmware: callbacks of TXMM in the tasklet.        *)

\* _mtlk_addba_peer_on_addba_req_tx_cfm_clb: whatever the state and the status.
OnAddbaReqCfm(t) ==
  /\ Runs /\ baTx[t].msg = "ADDBA_REQ"
  /\ SetTx(t, [baTx[t] EXCEPT !.msg = "free", !.state = "ADDBA_REQ_CFMD"])
  /\ UNCHANGED <<baOthers, baActive, baStop, baRx, aggrCur, reordCur, inited, revive, status>>

\* _mtlk_addba_peer_on_open_aggr_cfm_clb: ts_id is stored when the status is OK.
OnOpenAggrCfm(t) ==
  /\ Runs /\ baTx[t].msg = "OPEN_AGGR"
  /\ \E ok \in BOOLEAN :
       SetTx(t, [baTx[t] EXCEPT !.msg = "free", !.state = "AGGR_OPENED", !.ts = @ \/ ok])
  /\ UNCHANGED <<baOthers, baActive, baStop, baRx, aggrCur, reordCur, inited, revive, status>>

\* _mtlk_addba_peer_on_close_aggr_cfm_clb.
OnCloseAggrCfm(t) ==
  /\ Runs /\ baTx[t].msg = "CLOSE_AGGR"
  /\ SetTx(t, [ResetTx(baTx[t]) EXCEPT !.msg = "free"]) /\ aggrCur' = UnrefTx(t)
  /\ RestartTxCount(t, AggrOn(baTx[t].state))
  /\ UNCHANGED <<baOthers, baActive, baStop, baRx, reordCur, revive, status>>

\* "activate retransmission counter"
Activate(n) == IF n = 0 THEN 1 ELSE n

\* The confirmation of a frame to the peer; when the frame was sent, the
\* firmware will indicate what became of it.
Confirmed(t) ==
  /\ \/ UNCHANGED status
     \/ Len(status[t]) < StatusMax /\ status' = [status EXCEPT ![t] = Append(@, baRx[t].msg)]
  /\ UNCHANGED <<baOthers, baActive, baStop, aggrCur, reordCur, inited, revive>>

\* _mtlk_addba_peer_on_addba_res_tx_cfm_clb.
OnAddbaResCfm(t) ==
  /\ Runs /\ baRx[t].msg = "ADDBA_RES"
  /\ SetRx(t, [baRx[t] EXCEPT !.msg = "free", !.res = Activate(@)])
  /\ Confirmed(t) /\ UNCHANGED baTx

\* _mtlk_addba_peer_on_delba_req_tx_cfm_clb.
OnDelbaCfm(t) ==
  /\ Runs
  /\ \/ /\ baRx[t].msg = "DELBA_RX"
        /\ SetRx(t, [baRx[t] EXCEPT !.msg = "free", !.delba = Activate(@)])
        /\ UNCHANGED baTx
     \/ /\ baRx[t].msg = "DELBA_TX"
        /\ SetRx(t, [baRx[t] EXCEPT !.msg = "free"])
        /\ SetTx(t, [baTx[t] EXCEPT !.delba = Activate(@)])
  /\ Confirmed(t)

-----------------------------------------------------------------------------
(* Frames of the peer, in the tasklet.                                     *)

AddbaResRxAnyState(t) ==                                                \* mutant
  /\ Hears /\ baTx[t].dlgt /\ HasRef(baTx[t].state)
  /\ \/ /\ TRUE \in Get(baTx[t])
        /\ SetTx(t, [baTx[t] EXCEPT !.msg = "OPEN_AGGR", !.state = "ADD_AGGR_REQ_SENT"])
        /\ UNCHANGED aggrCur
     \/ SetTx(t, ResetTx(baTx[t])) /\ aggrCur' = UnrefTx(t)
  /\ UNCHANGED <<baOthers, baActive, baStop, baRx, reordCur, inited, revive, status>>

\* mtlk_addba_peer_on_addba_res_rx with the token of the current request.  The
\* answer may come before the confirmation of the request, whose message is
\* then still in use.
AddbaResRx(t) ==
  /\ Hears /\ baTx[t].dlgt /\ baTx[t].state \in {"ADDBA_REQ_SENT", "ADDBA_REQ_CFMD"}
  /\ \/ \E got \in Get(baTx[t]) :                      \* accepted
          /\ SetTx(t, IF got THEN [baTx[t] EXCEPT !.rejects = 0, !.msg = "OPEN_AGGR",
                                                  !.state = "ADD_AGGR_REQ_SENT"]
                             ELSE [baTx[t] EXCEPT !.rejects = 0])
          /\ UNCHANGED <<aggrCur, revive>>
     \/ \E got \in Get(baTx[t]) :                      \* with too small a window
          /\ SetTx(t, [baTx[t] EXCEPT !.rejects = 0, !.msg = IF got THEN "held" ELSE @])
          /\ UNCHANGED <<aggrCur, revive>>
     \/ /\ baTx[t].rejects + 1 < MaxRejects            \* rejected
        /\ SetTx(t, [ResetTx(baTx[t]) EXCEPT !.rejects = @ + 1]) /\ aggrCur' = UnrefTx(t)
        /\ ScheduleRevival(t)
     \/ /\ baTx[t].rejects + 1 >= MaxRejects           \* rejected once too often
        /\ SetTx(t, [ResetTx(baTx[t]) EXCEPT !.rejects = 0, !.rejected = TRUE])
        /\ aggrCur' = UnrefTx(t)
        /\ UNCHANGED revive
  /\ UNCHANGED <<baOthers, baActive, baStop, baRx, reordCur, inited, status>>

\* mtlk_addba_peer_on_delba_req_rx.
DelbaRx(t) ==
  /\ Hears
  /\ \/ /\ SetRx(t, ReorderingStop(baRx[t])) /\ reordCur' = UnrefRx(t)
        /\ UNCHANGED baTx
     \/ /\ \E got \in Get(baTx[t]) : SetTx(t, CloseAggr(baTx[t], got))
        /\ UNCHANGED <<baRx, reordCur>>
  /\ UNCHANGED <<baOthers, baActive, baStop, aggrCur, inited, revive, status>>

\* mtlk_addba_peer_on_addba_req_rx: a request with the token of the current
\* session, or during an answer, is dropped; any other ends the session first.
AddbaReqRx(t) ==
  /\ Hears /\ t \in RxTid
  /\ baRx[t].state \notin {"POSITIVE_RES_SENT", "NEGATIVE_RES_SENT"}
  /\ \E accept \in BOOLEAN, got \in Get(baRx[t]) :
       LET start == accept /\ CanRef(UnrefRx(t), ReordMax)
           r     == [ReorderingStop(baRx[t]) EXCEPT !.accept = start, !.reord = start]
       IN  /\ SetRx(t, IF got THEN SendRes(r, got) ELSE ReorderingStop(r))
           /\ reordCur' = UnrefRx(t) + One(start /\ got)
  /\ UNCHANGED <<baOthers, baActive, baStop, baTx, aggrCur, inited, revive, status>>

\* mtlk_addba_peer_on_bar and mtlk_addba_on_qos_without_reord.
DataWithoutReordering(t) ==
  /\ Hears /\ t \in RxTid /\ baRx[t].state \in {"NONE", "NEGATIVE_RES_SENT"}
  /\ \E got \in Get(baRx[t]) : SetRx(t, SendDelba(baRx[t], "DELBA_RX", got))
  /\ UNCHANGED <<baOthers, baActive, baStop, baTx, aggrCur, reordCur, inited, revive, status>>
-----------------------------------------------------------------------------
(* The timer (mtlk_addba_peer_iterate) and the requests to stop sending.   *)

IterateTxForget(t) ==                                                   \* mutant
  /\ baActive
  /\ \/ /\ baTx[t].state = "ADDBA_REQ_CFMD"
        /\ SetTx(t, [baTx[t] EXCEPT !.state = "NONE"])
        /\ UNCHANGED aggrCur
     \/ /\ baTx[t].state = "NONE" /\ baTx[t].rejected
        /\ SetTx(t, [baTx[t] EXCEPT !.rejected = FALSE])
        /\ UNCHANGED aggrCur
  /\ RestartTxCount(t, TRUE)
  /\ UNCHANGED <<baOthers, baActive, baStop, baRx, reordCur, revive, status>>

\* _mtlk_addba_peer_check_addba_res_rx_timeouts.
IterateTx(t) ==
  /\ baActive
  /\ \/ /\ baTx[t].state = "ADDBA_REQ_CFMD"
        /\ SetTx(t, ResetTx(baTx[t])) /\ aggrCur' = UnrefTx(t)
     \/ /\ baTx[t].state = "NONE" /\ baTx[t].rejected
        /\ SetTx(t, [baTx[t] EXCEPT !.rejected = FALSE])
        /\ UNCHANGED aggrCur
  /\ RestartTxCount(t, TRUE)
  /\ UNCHANGED <<baOthers, baActive, baStop, baRx, reordCur, revive, status>>

\* _mtlk_addba_peer_check_delba_timeouts.
IterateRx(t) ==
  /\ baActive /\ baRx[t].state = "REORD_IN_PROCESS"
  /\ \E got \in Get(baRx[t]) : SetRx(t, SendDelba(baRx[t], "DELBA_RX", got))
  /\ UNCHANGED <<baOthers, baActive, baStop, baTx, aggrCur, reordCur, inited, revive, status>>

\* mtlk_addba_delba_req, for a user, for all TIDs, or on an ACK on a BAR.
DelbaReq(t) ==
  /\ baActive /\ baTx[t].state \in {"ADD_AGGR_REQ_SENT", "AGGR_OPENED"}
  /\ \E got \in Get(baTx[t]) : SetTx(t, CloseAggr(baTx[t], got))
  /\ \E got \in Get(baRx[t]) : SetRx(t, SendDelba(baRx[t], "DELBA_TX", got))
  /\ UNCHANGED <<baOthers, baActive, baStop, aggrCur, reordCur, inited, revive, status>>

-----------------------------------------------------------------------------
(* What became of a frame: mtlk_addba_peer_on_ba_tx_status, a task of the  *)
(* serializer.                                                             *)

\* _mtlk_addba_peer_on_rx_delba_req_tx_status; the reference is dropped by
\* the caller when the reordering ends.
RxDelbaStatus(r, ok, got) ==
  CASE ok /\ r.state = "DELBA_REQ_SENT"                    -> ReorderingStop(r)
    [] r.state = "DELBA_REQ_SENT_WITHOUT_REORDERING"       -> ResetRx(r)
    [] ok /\ r.state \notin {"DELBA_REQ_SENT", "DELBA_REQ_SENT_WITHOUT_REORDERING"} -> r
    [] ~ok /\ r.state \notin {"DELBA_REQ_SENT", "DELBA_REQ_SENT_WITHOUT_REORDERING"} ->
         [r EXCEPT !.delba = 0]
    [] ~ok /\ r.state = "DELBA_REQ_SENT" /\ r.delba >= MaxRetransmissions -> ReorderingStop(r)
    [] OTHER -> SendDelba([r EXCEPT !.delba = @ + 1], "DELBA_RX", got)

ResStatusKeep(r, ok, got) ==                                            \* mutant
  LET answered == r.state \in {"POSITIVE_RES_SENT", "NEGATIVE_RES_SENT"} IN
  CASE ok /\ r.state = "POSITIVE_RES_SENT" -> [r EXCEPT !.state = "REORD_IN_PROCESS", !.res = 0]
    [] ok /\ r.state = "NEGATIVE_RES_SENT" -> ResetRx(r)
    [] ~answered                           -> [r EXCEPT !.res = 0]
    [] ~ok /\ answered /\ r.res >= MaxRetransmissions -> ResetRx(r)
    [] OTHER                               -> SendRes([r EXCEPT !.res = @ + 1], got)

\* _mtlk_addba_peer_on_addba_res_tx_req_tx_status.
ResStatus(r, ok, got) ==
  LET answered == r.state \in {"POSITIVE_RES_SENT", "NEGATIVE_RES_SENT"} IN
  CASE ok /\ r.state = "POSITIVE_RES_SENT" -> [r EXCEPT !.state = "REORD_IN_PROCESS", !.res = 0]
    [] ok /\ r.state = "NEGATIVE_RES_SENT" -> ResetRx(r)
    [] ~answered                           -> [r EXCEPT !.res = 0]
    [] ~ok /\ answered /\ r.res >= MaxRetransmissions -> ReorderingStop(r)
    [] OTHER                               -> SendRes([r EXCEPT !.res = @ + 1], got)

\* _mtlk_addba_peer_on_tx_delba_req_tx_status: the new number of attempts.
TxDelbaAttempt(r, ok) ==
  CASE ok -> r.delba
    [] ~ok /\ r.state \notin {"NONE", "DEL_AGGR_REQ_SENT"} -> 0
    [] ~ok /\ r.state \in {"NONE", "DEL_AGGR_REQ_SENT"} ->
         IF r.delba >= MaxRetransmissions THEN 0 ELSE r.delba + 1

BaTxStatus(t) ==
  /\ ~Stopping /\ status[t] # <<>>
  /\ status' = [status EXCEPT ![t] = Tail(@)]
  /\ \/ ~baActive /\ UNCHANGED <<baTx, baRx, reordCur>>
     \/ /\ baActive /\ Head(status[t]) \in {"DELBA_RX", "ADDBA_RES"}
        /\ \E ok \in BOOLEAN, got \in Get(baRx[t]) :
             SetRx(t, IF Head(status[t]) = "DELBA_RX" THEN RxDelbaStatus(baRx[t], ok, got)
                                                       ELSE ResStatus(baRx[t], ok, got))
        /\ reordCur' = reordCur - One(baRx[t].reord /\ ~baRx'[t].reord)
        /\ UNCHANGED baTx
     \/ /\ baActive /\ Head(status[t]) = "DELBA_TX"
        /\ \E ok \in BOOLEAN, got \in Get(baRx[t]) :
             LET n == TxDelbaAttempt(baTx[t], ok) IN
             /\ SetTx(t, [baTx[t] EXCEPT !.delba = n])
             /\ SetRx(t, SendDelba(baRx[t], "DELBA_TX", got /\ n > baTx[t].delba))
        /\ UNCHANGED reordCur
  /\ UNCHANGED <<baOthers, baActive, baStop, aggrCur, inited, revive>>

\* The counters are shared: the other stations of the card take references
\* while there are some (mtlk_reflim_try_ref) and give their own back.
OtherStations ==
  \/ /\ CanRef(aggrCur, AggrMax) /\ baOthers.aggr + baOthers.reord < OthersMax
     /\ aggrCur' = aggrCur + 1 /\ baOthers' = [baOthers EXCEPT !.aggr = @ + 1]
     /\ UNCHANGED <<baActive, baStop, baTx, baRx, reordCur, inited, revive, status>>
  \/ /\ baOthers.aggr > 0
     /\ aggrCur' = aggrCur - 1 /\ baOthers' = [baOthers EXCEPT !.aggr = @ - 1]
     /\ UNCHANGED <<baActive, baStop, baTx, baRx, reordCur, inited, revive, status>>
  \/ /\ CanRef(reordCur, ReordMax) /\ baOthers.aggr + baOthers.reord < OthersMax
     /\ reordCur' = reordCur + 1 /\ baOthers' = [baOthers EXCEPT !.reord = @ + 1]
     /\ UNCHANGED <<baActive, baStop, baTx, baRx, aggrCur, inited, revive, status>>
  \/ /\ baOthers.reord > 0
     /\ reordCur' = reordCur - 1 /\ baOthers' = [baOthers EXCEPT !.reord = @ - 1]
     /\ UNCHANGED <<baActive, baStop, baTx, baRx, aggrCur, inited, revive, status>>

-----------------------------------------------------------------------------
AddbaNext ==
  \/ OtherStations
  \/ StaStart \/ StaStop \/ StopTx \/ StopCancelTx \/ StopRx \/ StopCancelRx \/ StopReorder
  \/ \E t \in Tid :
       \/ UpdateTx(t) \/ Revive(t) \/ ExitPs(t)
       \/ OnAddbaReqCfm(t) \/ OnOpenAggrCfm(t) \/ OnCloseAggrCfm(t)
       \/ OnAddbaResCfm(t) \/ OnDelbaCfm(t)
       \/ AddbaResRx(t) \/ DelbaRx(t) \/ AddbaReqRx(t) \/ DataWithoutReordering(t)
       \/ IterateTx(t) \/ IterateRx(t) \/ DelbaReq(t) \/ BaTxStatus(t)

AddbaSpec == AddbaInit /\ [][AddbaNext]_baVars

-----------------------------------------------------------------------------
(* Properties.                                                             *)

\* No reference is leaked: whatever the order of answers, confirmations, statuses,
\* timeouts, retransmissions and reconnections, the counter of aggregations never
\* counts more than the TIDs that hold one of its references (those of other
\* stations included), so that a disconnection leaves nothing behind and the
\* limit cannot be used up by sessions that are over.  The counter of
\* reorderings is exact.  Both stay within their limits (mtlk_reflim_try_ref).
BaReferences ==
  /\ aggrCur <= baOthers.aggr + Cardinality({t \in Tid : HasRef(baTx[t].state)})
  /\ aggrCur <= AggrMax
  /\ reordCur = baOthers.reord + Cardinality({t \in Tid : baRx[t].reord})
  /\ reordCur \in 0 .. ReordMax

\* "MTLK_ASSERT(cur < reflim->max)" of mtlk_reflim_unref: no reference to the
\* counter of aggregations is given back that was not taken.
BaUnrefSane == aggrCur >= 0

\* A TID reorders what it receives exactly in the states that follow an
\* accepted request and have not yet ended by a DELBA, so that no reordering
\* is left open by a session that was declined, lost or replaced.
BaReorderingMatchesState ==
  ~Stopping => \A t \in Tid :
    baRx[t].reord <=> baRx[t].state \in {"POSITIVE_RES_SENT", "REORD_IN_PROCESS", "DELBA_REQ_SENT"}

\* "MTLK_ASSERT(tid_rx->addba_res_attempt != 0)" of
\* _mtlk_addba_peer_on_addba_res_tx_req_tx_status: the status of an answer that
\* finds an answer waiting for its status finds the attempts of that answer counted.
BaStatusCounted ==
  baActive => \A t \in Tid :
    /\ status[t] # <<>> /\ Head(status[t]) = "ADDBA_RES"
    /\ baRx[t].state \in {"POSITIVE_RES_SENT", "NEGATIVE_RES_SENT"}
    => baRx[t].res # 0

\* A confirmation of the firmware never overwrites what it does not belong to.  The
\* one of a request may find the request answered, or the next one put off by power
\* save, but never an aggregation that is open or on its way; those of opening and
\* closing find the TID waiting for them (assertion of
\* _mtlk_addba_peer_on_open_aggr_cfm_clb), also after repeated answers, after a
\* reconnection and after a DELBA of the peer in between.
BaNegotiation ==
  Runs => \A t \in Tid :
    /\ baTx[t].msg = "ADDBA_REQ" => baTx[t].state \in {"ADDBA_REQ_SENT", "NONE", "STA_POWER_SAVE"}
    /\ baTx[t].msg = "OPEN_AGGR" => baTx[t].state = "ADD_AGGR_REQ_SENT"
    /\ baTx[t].msg = "CLOSE_AGGR" => baTx[t].state = "DEL_AGGR_REQ_SENT"

\* "MTLK_ASSERT(sta->aggr_inited[prior_class] == TRUE)" of
\* _mtlk_sta_addba_restart_tx_count_tid, the end of every negotiation: as long as a
\* TID negotiates, sends aggregations or sits out its rejections, the owner knows
\* it has asked.  Stated for the histories in which no reference was given back
\* twice (BaUnrefSane is about those).
BaOwnerKnows ==
  /\ baActive
  /\ aggrCur = baOthers.aggr + Cardinality({t \in Tid : HasRef(baTx[t].state)})
  => \A t \in Tid : baTx[t].state # "NONE" \/ baTx[t].rejected => inited[t]
=============================================================================

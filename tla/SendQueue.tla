----------------------------- MODULE SendQueue ------------------------------
(***************************************************************************)
(* The send queue and the flow control of the data path (mtlk_sq.c,        *)
(* mtlk_sq_osdep.c, mtlkflctrl.c, and what core.c, core_ext.c, mcast.c and *)
(* hw_mmb.c do with them).                                                 *)
(*                                                                         *)
(* Every station, and every VAP for its broadcasts, has a context with one *)
(* list of packets per access category.  A packet is Own, or a clone of a  *)
(* reliable multicast: the clones of one frame share a counted record (an  *)
(* Extra) and count as one packet.  A tasklet moves packets to the buffer  *)
(* descriptors (BDs) of the hardware as long as the context is below its   *)
(* limit and the data flow is not stopped; a confirmation gives its BD     *)
(* back.  The flow is stopped by the VAP that takes the last BD and by a   *)
(* scan, each under its own identifier.                                    *)
(*                                                                         *)
(* mtlk_sq_flush is only called by the tasklet, which never runs on two    *)
(* processors at a time, so that its own guard (flush_in_progress and      *)
(* flush_count) never acts; it is left out, as are statistics and AOCS.    *)
(* On one processor everything here runs with bottom halves disabled or in *)
(* one, and only whole handlers interleave; with SqSmp their halves do.    *)
(***************************************************************************)
EXTENDS Integers, Sequences, FiniteSets, FiniteSetsExt, Functions, Lists

CONSTANTS
  SqVap,        \* VAPs; a VAP also stands for its sq_broadcast_ctx
  SqMaster,     \* the master VAP
  SqSta,        \* stations
  StaVap,       \* StaVap[s] is the VAP of s
  NAc,          \* access categories, the highest number goes first
  NBds,         \* BDs of the data ring
  TxLimit,      \* limit_cfg of a context
  PmLimit,      \* MTLK_PACKETS_IN_MAC_DURING_PM
  UapsdLimit,   \* limit_per_ac of a station that asks for U-APSD
  SqLimits,     \* limits an administrator sets: [g : global, r : per cent per peer]
  SqExtra,      \* records of clones
  QMax,         \* bound on the lists of packets
  NullMax,      \* bound on the keep-alives
  SqRecovers,   \* the firmware may die and be recovered
  SqSmp         \* more than one processor

Ac == 1 .. NAc
Ctx == SqSta \cup SqVap
VapOf(c) == IF c \in SqVap THEN c ELSE StaVap[c]

ASSUME SqConstants ==
  /\ SqMaster \in SqVap /\ SqSta \cap SqVap = {} /\ StaVap \in [SqSta -> SqVap]
  /\ IsFiniteSet(Ctx) /\ IsFiniteSet(SqExtra)
  /\ NAc \in Nat \ {0} /\ NBds \in Nat \ {0, 1} /\ TxLimit \in Nat \ {0}
  /\ PmLimit \in Nat \ {0} /\ UapsdLimit \in Nat \ {0} /\ QMax \in Nat /\ NullMax \in Nat
  /\ SqLimits \subseteq [g : Nat \ {0}, r : 5 .. 100]
  /\ SqRecovers \in BOOLEAN /\ SqSmp \in BOOLEAN
  /\ "own" \notin SqExtra /\ "scan" \notin SqVap

Own == "own"

VARIABLES
  sqCtx,     \* mtlk_sq_peer_ctx_t of every context; on: it is linked
  sqList,    \* peer_queue[ac].list
  sqSize,    \* peer_queue[ac].size
  sqLim,     \* limits: g global, p per peer
  sqRef,     \* ref_cnt of every Extra (0: free) and its ac
  sqMc,      \* the multicast frame being cloned: its Extra and the stations left
  sqXmit,    \* a packet between the choice of its context and mtlk_sq_enqueue
  sqTask,    \* the tasklet is scheduled
  sqFlush,   \* the flush that runs: ac, position in the list, packets_sent
  flMask,    \* stop_requests_mask
  sqProhib,  \* hw_tx_prohibited
  sqFree,    \* tx_data_nof_free_bds
  sqAir,     \* BDs in use per context and ac
  sqOld,     \* BDs in use by stations that are gone, per VAP
  sqCfm,     \* the confirmation being handled
  sqPs,      \* stas_in_ps_mode
  sqNulls    \* keep-alives sent

qv == <<sqCtx, sqList, sqSize, sqRef>>
fv == <<flMask, sqProhib>>
bv == <<sqFree, sqAir, sqOld>>
sqVars == <<qv, fv, bv, sqLim, sqMc, sqXmit, sqTask, sqFlush, sqCfm, sqPs, sqNulls>>

NoXmit == [on |-> FALSE]
NoMc == [on |-> FALSE]
NoCfm == [on |-> FALSE]
NoFlush == [on |-> FALSE]

\* mtlk_sq_peer_ctx_init
Fresh(limAc) == [on |-> TRUE, q |-> [a \in Ac |-> <<>>], used |-> 0, usedAc |-> [a \in Ac |-> 0],
                 limit |-> TxLimit, ps |-> FALSE, limAc |-> limAc]
Gone == [Fresh([a \in Ac |-> 0]) EXCEPT !.on = FALSE]

SqTypeOK ==
  /\ sqCtx \in [Ctx -> [on : BOOLEAN, q : [Ac -> Seq({Own} \cup SqExtra)], used : Nat,
                        usedAc : [Ac -> Nat], limit : {TxLimit, PmLimit}, ps : BOOLEAN,
                        limAc : [Ac -> {0, UapsdLimit}]]]
  /\ sqList \in [Ac -> Seq(Ctx)] /\ sqSize \in [Ac -> Nat]
  /\ sqLim \in [g : Nat, p : Nat]
  /\ sqRef \in [SqExtra -> [ref : Nat, ac : Ac]]
  /\ sqMc = NoMc \/ sqMc \in [on : {TRUE}, ex : SqExtra, left : SUBSET SqSta]
  /\ sqXmit = NoXmit \/ sqXmit \in [on : {TRUE}, ctx : Ctx, stale : BOOLEAN]
  /\ sqTask \in BOOLEAN /\ sqProhib \in BOOLEAN
  /\ sqFlush = NoFlush \/ sqFlush \in [on : {TRUE}, ac : Ac, pos : Nat, sent : BOOLEAN]
  /\ flMask \subseteq SqVap \cup {"scan"}
  /\ sqFree \in 0 .. NBds /\ sqAir \in [Ctx -> [Ac -> 0 .. NBds]] /\ sqOld \in [SqVap -> 0 .. NBds]
  /\ sqCfm = NoCfm \/ sqCfm \in [on : {TRUE}, ctx : Ctx, ac : Ac, old : BOOLEAN]
  /\ sqPs \in [SqVap -> Nat] /\ sqNulls \in 0 .. NullMax

SqInit ==
  /\ sqCtx = [c \in Ctx |-> IF c \in SqVap THEN Fresh([a \in Ac |-> 0]) ELSE Gone]
  /\ \E s \in [1 .. Cardinality(SqVap) -> SqVap] : Distinct(s) /\ sqList = [a \in Ac |-> s]
  /\ sqSize = [a \in Ac |-> 0]
  /\ \E l \in SqLimits : sqLim = [g |-> l.g, p |-> (l.r * l.g) \div 100]
  /\ sqRef = [e \in SqExtra |-> [ref |-> 0, ac |-> 1]]
  /\ sqMc = NoMc /\ sqXmit = NoXmit /\ sqTask = FALSE /\ sqFlush = NoFlush /\ sqCfm = NoCfm
  /\ flMask = {} /\ sqProhib = FALSE
  /\ sqFree = NBds /\ sqAir = [c \in Ctx |-> [a \in Ac |-> 0]] /\ sqOld = [v \in SqVap |-> 0]
  /\ sqPs = [v \in SqVap |-> 0] /\ sqNulls = 0

-----------------------------------------------------------------------------
(* Interleaving: one processor finishes a handler before it starts another *)
(* one; the flush holds queue_lock to its end on any number of them.       *)

Idle == ~sqFlush.on /\ ~sqCfm.on /\ ~sqMc.on /\ ~sqXmit.on
MayStart == SqSmp \/ Idle
LockFree == ~sqFlush.on

-----------------------------------------------------------------------------
(* Flow control (mtlkflctrl.c with the hooks of core_ext.c).               *)

FlStop(id) == flMask' = flMask \cup {id} /\ sqProhib' = (flMask = {} \/ sqProhib)

FlStart(id) ==
  /\ flMask' = flMask \ {id}
  /\ sqProhib' = (sqProhib /\ flMask' # {})
  /\ sqTask' = (sqTask \/ flMask' = {})

\* A scan stops the flow of all and starts it again.
ScanStops ==
  /\ MayStart /\ "scan" \notin flMask /\ FlStop("scan")
  /\ UNCHANGED <<qv, bv, sqLim, sqMc, sqXmit, sqTask, sqFlush, sqCfm, sqPs, sqNulls>>

ScanEnds ==
  /\ MayStart /\ "scan" \in flMask /\ FlStart("scan")
  /\ UNCHANGED <<qv, bv, sqLim, sqMc, sqXmit, sqFlush, sqCfm, sqPs, sqNulls>>

-----------------------------------------------------------------------------
(* Releasing packets.                                                      *)

\* How often a packet is in the lists of a category, and how many clones of a
\* frame are in all the lists, of the contexts S.
InLists(S, a, pkt) == SumFunction([c \in S |-> Count(sqCtx[c].q[a], pkt)])
Clones(S, e) == SumFunction([a \in Ac |-> InLists(S, a, e)])

\* _mtlk_sq_release_packet of all the packets of the contexts S: a clone counts
\* when it is the last of its frame.
CancelIn(S) ==
  /\ sqSize' = [a \in Ac |-> sqSize[a] - InLists(S, a, Own)
                 - Cardinality({e \in SqExtra : sqRef[e].ac = a /\ sqRef[e].ref > 0
                                                /\ sqRef[e].ref = Clones(S, e)})]
  /\ sqRef' = [e \in SqExtra |-> [sqRef[e] EXCEPT !.ref = @ - Clones(S, e)]]

ReleaseEach(a, pkt) ==                                                  \* mutant
  /\ sqSize' = [sqSize EXCEPT ![a] = @ - 1]
  /\ sqRef' = IF pkt = Own THEN sqRef ELSE [sqRef EXCEPT ![pkt].ref = @ - 1]

\* _mtlk_sq_release_packet
Release(a, pkt) ==
  /\ sqSize' = IF pkt = Own \/ sqRef[pkt].ref = 1 THEN [sqSize EXCEPT ![a] = @ - 1] ELSE sqSize
  /\ sqRef' = IF pkt = Own THEN sqRef ELSE [sqRef EXCEPT ![pkt].ref = @ - 1]

Purged(x) == [x EXCEPT !.q = [a \in Ac |-> <<>>]]

\* mtlk_sq_peer_ctx_cancel_all_packets: a new key for a station, or the
\* broadcasts of a VAP that disconnects.
CancelPackets(c) ==
  /\ MayStart /\ LockFree /\ sqCtx[c].on
  /\ CancelIn({c}) /\ sqCtx' = [sqCtx EXCEPT ![c] = Purged(@)]
  /\ UNCHANGED <<fv, bv, sqList, sqLim, sqMc, sqXmit, sqTask, sqFlush, sqCfm, sqPs, sqNulls>>

-----------------------------------------------------------------------------
(* Stations.                                                               *)

\* mtlk_sq_peer_ctx_init, and the access categories with U-APSD.
StaConnects(s) ==
  /\ MayStart /\ LockFree /\ ~sqCtx[s].on
  /\ \E l \in [Ac -> {0, UapsdLimit}] : sqCtx' = [sqCtx EXCEPT ![s] = Fresh(l)]
  /\ sqList' = [a \in Ac |-> <<s>> \o sqList[a]]
  /\ UNCHANGED <<fv, bv, sqSize, sqRef, sqLim, sqMc, sqXmit, sqTask, sqFlush, sqCfm, sqPs, sqNulls>>

\* mtlk_core_set_pm_enabled for the broadcasts of a VAP.
BcastPm(x, n) == [x EXCEPT !.limit = IF n > 0 THEN Min({PmLimit, TxLimit}) ELSE TxLimit,
                           !.ps = n > 0]

\* _mtlk_sta_stop: _mtlk_sta_ps_mode_cleanup and mtlk_sq_peer_ctx_cleanup.  The
\* packets it has with the firmware keep the old entry alive.
StaLeaves(s) ==
  LET v == StaVap[s]
      n == IF sqCtx[s].ps THEN sqPs[v] - 1 ELSE sqPs[v]
  IN
  /\ MayStart /\ LockFree /\ sqCtx[s].on
  /\ CancelIn({s})
  /\ sqPs' = [sqPs EXCEPT ![v] = n]
  /\ sqCtx' = [sqCtx EXCEPT ![s] = Gone, ![v] = IF sqCtx[s].ps THEN BcastPm(@, n) ELSE @]
  /\ sqList' = [a \in Ac |-> Without(sqList[a], {s})]
  /\ sqOld' = [sqOld EXCEPT ![v] = @ + SumFunction(sqAir[s])]
  /\ sqAir' = [sqAir EXCEPT ![s] = [a \in Ac |-> 0]]
  /\ sqMc' = IF sqMc.on THEN [sqMc EXCEPT !.left = @ \ {s}] ELSE sqMc
  /\ sqXmit' = IF sqXmit.on /\ sqXmit.ctx = s THEN [sqXmit EXCEPT !.stale = TRUE] ELSE sqXmit
  /\ sqCfm' = IF sqCfm.on /\ sqCfm.ctx = s THEN [sqCfm EXCEPT !.old = TRUE] ELSE sqCfm
  /\ UNCHANGED <<fv, sqFree, sqLim, sqTask, sqFlush, sqNulls>>

\* _handle_pm_update_event: duplicates are skipped, a wake-up always flushes.
PmUpdate(s, enabled) ==
  LET v == StaVap[s]
      n == IF enabled THEN sqPs[v] + 1 ELSE sqPs[v] - 1
  IN
  /\ MayStart /\ sqCtx[s].on
  /\ IF sqCtx[s].ps # enabled
     THEN /\ sqCtx' = [sqCtx EXCEPT ![s].limit = IF enabled THEN Min({PmLimit, TxLimit}) ELSE TxLimit,
                                    ![s].ps = enabled,
                                    ![v] = BcastPm(@, n)]
          /\ sqPs' = [sqPs EXCEPT ![v] = n]
     ELSE UNCHANGED <<sqCtx, sqPs>>
  /\ sqTask' = (sqTask \/ ~enabled)
  /\ UNCHANGED <<fv, bv, sqList, sqSize, sqRef, sqLim, sqMc, sqXmit, sqFlush, sqCfm, sqNulls>>

-----------------------------------------------------------------------------
(* Enqueueing.                                                             *)

\* The test of mtlk_sq_enqueue_pkt; size counts the packet already.
Refused(size, len, front) == ~front /\ (size >= sqLim.g \/ len >= sqLim.p)

Put(x, a, pkt, front) ==
  [x EXCEPT !.q[a] = IF front THEN <<pkt>> \o @ ELSE Append(@, pkt)]

\* mtlk_mc_transmit chooses the context of a packet.
XmitBegins(c) ==
  /\ MayStart /\ ~sqXmit.on /\ sqCtx[c].on /\ \A a \in Ac : Len(sqCtx[c].q[a]) <= QMax
  /\ sqXmit' = [on |-> TRUE, ctx |-> c, stale |-> FALSE]
  /\ UNCHANGED <<qv, fv, bv, sqLim, sqMc, sqTask, sqFlush, sqCfm, sqPs, sqNulls>>

\* mtlk_sq_enqueue and mtlk_sq_schedule_flush.  An urgent packet goes to the
\* front of the highest category.  A station that left meanwhile keeps the
\* packet, in a list that nobody visits any more.
XmitEnqueues ==
  /\ sqXmit.on /\ LockFree /\ sqXmit' = NoXmit
  /\ \E urgent \in BOOLEAN, ac \in Ac :
       LET a == IF urgent THEN NAc ELSE ac
           x == IF sqXmit.stale THEN Gone ELSE sqCtx[sqXmit.ctx]
           refused == Refused(sqSize[a] + 1, Len(x.q[a]), urgent)
       IN
       /\ urgent => ac = NAc /\ Len(x.q[a]) < QMax
       /\ sqSize' = IF refused THEN sqSize ELSE [sqSize EXCEPT ![a] = @ + 1]
       /\ sqCtx' = IF refused \/ sqXmit.stale THEN sqCtx
                   ELSE [sqCtx EXCEPT ![sqXmit.ctx] = Put(x, a, Own, urgent)]
       /\ sqTask' = (sqTask \/ ~refused)
  /\ UNCHANGED <<fv, bv, sqList, sqRef, sqLim, sqMc, sqFlush, sqCfm, sqPs, sqNulls>>

\* mtlk_sq_enqueue_clone_begin for the stations of a multicast group, or for
\* the peers of a WDS broadcast.
McBegins ==
  /\ MayStart /\ ~sqMc.on
  /\ \E e \in SqExtra, ac \in Ac, group \in SUBSET {s \in SqSta : sqCtx[s].on} :
       /\ sqRef[e].ref = 0 /\ group # {}
       /\ sqRef' = [sqRef EXCEPT ![e] = [ref |-> 1, ac |-> ac]]
       /\ sqSize' = [sqSize EXCEPT ![ac] = @ + 1]
       /\ sqMc' = [on |-> TRUE, ex |-> e, left |-> group]
  /\ UNCHANGED <<fv, bv, sqCtx, sqList, sqLim, sqXmit, sqTask, sqFlush, sqCfm, sqPs, sqNulls>>

\* mtlk_sq_enqueue_clone; the clone may not be allocated, or be refused.
McClones(s) ==
  /\ sqMc.on /\ s \in sqMc.left /\ LockFree
  /\ sqMc' = [sqMc EXCEPT !.left = @ \ {s}]
  /\ LET e == sqMc.ex
         a == sqRef[e].ac
         x == sqCtx[s]
     IN \/ /\ ~Refused(sqSize[a], Len(x.q[a]), FALSE) /\ Len(x.q[a]) < QMax + 1
           /\ sqRef' = [sqRef EXCEPT ![e].ref = @ + 1]
           /\ sqCtx' = [sqCtx EXCEPT ![s] = Put(x, a, e, FALSE)]
        \/ UNCHANGED <<sqRef, sqCtx>>
  /\ UNCHANGED <<fv, bv, sqList, sqSize, sqLim, sqXmit, sqTask, sqFlush, sqCfm, sqPs, sqNulls>>

\* mtlk_sq_enqueue_clone_end and mtlk_sq_schedule_flush
McEnds ==
  /\ sqMc.on /\ sqMc.left = {} /\ sqMc' = NoMc
  /\ Release(sqRef[sqMc.ex].ac, sqMc.ex)
  /\ sqTask' = TRUE
  /\ UNCHANGED <<fv, bv, sqCtx, sqList, sqLim, sqXmit, sqFlush, sqCfm, sqPs, sqNulls>>

\* sq_set_limits keeps the ratio of the peers, rounded down twice;
\* sq_set_peer_limits sets it.
SetLimits ==
  /\ MayStart /\ LockFree
  /\ \E l \in SqLimits :
       \/ sqLim' = [g |-> l.g, p |-> (((100 * sqLim.p) \div sqLim.g) * l.g) \div 100]
       \/ sqLim' = [sqLim EXCEPT !.p = Max({1, (l.r * sqLim.g) \div 100})]
  /\ UNCHANGED <<qv, fv, bv, sqMc, sqXmit, sqTask, sqFlush, sqCfm, sqPs, sqNulls>>

-----------------------------------------------------------------------------
(* The tasklet: mtlk_sq_flush and process_packets_by_ac.                   *)

FlushAc(a) == [on |-> TRUE, ac |-> a, pos |-> 1, sent |-> FALSE]

FlushBegins ==
  /\ sqTask /\ ~sqFlush.on /\ MayStart
  /\ sqTask' = FALSE /\ sqFlush' = FlushAc(NAc)
  /\ UNCHANGED <<qv, fv, bv, sqLim, sqMc, sqXmit, sqCfm, sqPs, sqNulls>>

AtLimit(x, a) == IF x.ps /\ x.limAc[a] > 0 THEN x.usedAc[a] >= x.limAc[a] ELSE x.used >= x.limit

NextPos(sent) == sqFlush' = [sqFlush EXCEPT !.pos = @ + 1, !.sent = @ \/ sent]

\* A context without packets, or with as many at the firmware as it may have.
FlushSkips ==
  /\ sqFlush.on /\ sqFlush.pos <= Len(sqList[sqFlush.ac])
  /\ LET x == sqCtx[sqList[sqFlush.ac][sqFlush.pos]]
     IN x.q[sqFlush.ac] = <<>> \/ AtLimit(x, sqFlush.ac)
  /\ NextPos(FALSE)
  /\ UNCHANGED <<qv, fv, bv, sqLim, sqMc, sqXmit, sqTask, sqCfm, sqPs, sqNulls>>

\* The head of the list goes to mtlk_xmit: dropped by a filter or a stopping VAP,
\* without a BD (the flow stops and the packet is dropped), or sent; the last BD
\* stops the flow.  When the flow is stopped the packet goes back and the flush
\* ends.
FlushSends ==
  /\ sqFlush.on /\ sqFlush.pos <= Len(sqList[sqFlush.ac])
  /\ LET a == sqFlush.ac
         c == sqList[a][sqFlush.pos]
         x == sqCtx[c]
     IN
     /\ x.q[a] # <<>> /\ ~AtLimit(x, a)
     /\ \/ /\ sqProhib /\ sqFlush' = NoFlush
           /\ UNCHANGED <<sqCtx, sqSize, sqRef, fv, bv>>
        \/ /\ ~sqProhib /\ NextPos(TRUE)
           /\ Release(a, Head(x.q[a]))
           /\ \/ /\ sqCtx' = [sqCtx EXCEPT ![c].q[a] = Tail(@)]      \* not sent
                 /\ UNCHANGED <<fv, bv>>
              \/ /\ sqFree = 0
                 /\ sqCtx' = [sqCtx EXCEPT ![c].q[a] = Tail(@)]
                 /\ FlStop(VapOf(c)) /\ UNCHANGED bv
              \/ /\ sqFree > 0
                 /\ sqCtx' = [sqCtx EXCEPT ![c].q[a] = Tail(@), ![c].used = @ + 1,
                                           ![c].usedAc[a] = @ + 1]
                 /\ sqFree' = sqFree - 1 /\ sqAir' = [sqAir EXCEPT ![c][a] = @ + 1]
                 /\ IF sqFree = 1 THEN FlStop(VapOf(c)) ELSE UNCHANGED fv
                 /\ UNCHANGED sqOld
  /\ UNCHANGED <<sqList, sqLim, sqMc, sqXmit, sqTask, sqCfm, sqPs, sqNulls>>

\* A pass over the list that sent something is repeated; otherwise the list is
\* rotated and the next category follows.
FlushEndsPass ==
  /\ sqFlush.on /\ sqFlush.pos > Len(sqList[sqFlush.ac])
  /\ IF sqFlush.sent
     THEN sqFlush' = FlushAc(sqFlush.ac) /\ UNCHANGED sqList
     ELSE /\ sqList' = [sqList EXCEPT ![sqFlush.ac] = Tail(@) \o <<Head(@)>>]
          /\ sqFlush' = IF sqFlush.ac > 1 THEN FlushAc(sqFlush.ac - 1) ELSE NoFlush
  /\ UNCHANGED <<sqCtx, sqSize, sqRef, fv, bv, sqLim, sqMc, sqXmit, sqTask, sqCfm, sqPs, sqNulls>>

FlushStep == FlushBegins \/ FlushSkips \/ FlushSends \/ FlushEndsPass

\* mtlk_send_null_packet: a keep-alive takes a BD past the queue.
NullPacket(s) ==
  /\ MayStart /\ sqCtx[s].on /\ sqCtx[s].used = 0 /\ sqFree > 0
  /\ sqNulls < NullMax /\ sqNulls' = sqNulls + 1
  /\ sqFree' = sqFree - 1 /\ sqAir' = [sqAir EXCEPT ![s][1] = @ + 1]
  /\ sqCtx' = [sqCtx EXCEPT ![s].used = @ + 1, ![s].usedAc[1] = @ + 1]
  /\ UNCHANGED <<fv, sqOld, sqList, sqSize, sqRef, sqLim, sqMc, sqXmit, sqTask, sqFlush, sqCfm, sqPs>>

-----------------------------------------------------------------------------
(* Confirmations: _mtlk_mmb_handle_dat_cfm and _mtlk_core_release_tx_data. *)

WakeOnlyStopped(v) ==                                                   \* mutant
  IF sqFree = 0 \/ flMask = {} THEN UNCHANGED <<fv, sqTask>> ELSE FlStart(v)

WakeFlushOnly(v) ==                                                     \* mutant
  /\ sqTask' = (sqTask \/ sqFree > 0)
  /\ UNCHANGED fv

\* resources_free is read before the BD of this packet is given back.
Wake(v) ==
  IF sqFree = 0 THEN UNCHANGED <<fv, sqTask>>
  ELSE IF flMask # {} THEN FlStart(v)
  ELSE sqTask' = TRUE /\ UNCHANGED fv

CfmBegins(c, ac) ==
  /\ MayStart /\ ~sqCfm.on /\ sqAir[c][ac] > 0
  /\ Wake(VapOf(c))
  /\ sqCfm' = [on |-> TRUE, ctx |-> c, ac |-> ac, old |-> FALSE]
  /\ UNCHANGED <<qv, bv, sqLim, sqMc, sqXmit, sqFlush, sqPs, sqNulls>>

\* mtlk_sq_on_tx_cfm, then the BD becomes free.
CfmEnds ==
  /\ sqCfm.on /\ sqCfm' = NoCfm
  /\ sqFree' = sqFree + 1
  /\ IF sqCfm.old
     THEN sqOld' = [sqOld EXCEPT ![VapOf(sqCfm.ctx)] = @ - 1] /\ UNCHANGED <<sqCtx, sqAir>>
     ELSE /\ sqAir' = [sqAir EXCEPT ![sqCfm.ctx][sqCfm.ac] = @ - 1]
          /\ sqCtx' = [sqCtx EXCEPT ![sqCfm.ctx].used = @ - 1,
                                    ![sqCfm.ctx].usedAc[sqCfm.ac] = @ - 1]
          /\ UNCHANGED sqOld
  /\ UNCHANGED <<fv, sqList, sqSize, sqRef, sqLim, sqMc, sqXmit, sqTask, sqFlush, sqPs, sqNulls>>

\* The packet of a station that is gone.
CfmOld(v) ==
  /\ MayStart /\ ~sqCfm.on /\ sqOld[v] > 0
  /\ Wake(v) /\ sqFree' = sqFree + 1 /\ sqOld' = [sqOld EXCEPT ![v] = @ - 1]
  /\ UNCHANGED <<qv, sqAir, sqLim, sqMc, sqXmit, sqFlush, sqCfm, sqPs, sqNulls>>

-----------------------------------------------------------------------------
(* Recovery of the firmware, as far as the data path goes: the flow of the *)
(* master is stopped, stations leave, all BDs are freed unconfirmed, the   *)
(* broadcast contexts are reset and the flow of the master is started.     *)

Recovery ==
  /\ SqRecovers /\ Idle /\ CancelIn(Ctx)
  /\ sqCtx' = [c \in Ctx |-> IF c \in SqVap THEN Fresh([a \in Ac |-> 0]) ELSE Gone]
  /\ sqList' = [a \in Ac |-> Without(sqList[a], SqSta)]
  /\ sqFree' = NBds /\ sqAir' = [c \in Ctx |-> [a \in Ac |-> 0]] /\ sqOld' = [v \in SqVap |-> 0]
  /\ sqPs' = [v \in SqVap |-> 0]
  /\ FlStart(SqMaster)
  /\ UNCHANGED <<sqLim, sqMc, sqXmit, sqFlush, sqCfm, sqNulls>>

-----------------------------------------------------------------------------
CfmStep == CfmEnds \/ (\E c \in Ctx, a \in Ac : CfmBegins(c, a)) \/ (\E v \in SqVap : CfmOld(v))

SqNext ==
  \/ ScanStops \/ ScanEnds \/ SetLimits \/ Recovery
  \/ FlushStep \/ CfmStep
  \/ XmitEnqueues \/ McBegins \/ McEnds
  \/ \E c \in Ctx : CancelPackets(c) \/ XmitBegins(c)
  \/ \E s \in SqSta : \/ StaConnects(s) \/ StaLeaves(s) \/ McClones(s) \/ NullPacket(s)
                      \/ \E e \in BOOLEAN : PmUpdate(s, e)

\* A scheduled tasklet runs, the firmware confirms every packet and what was
\* begun is finished; a scan ends.
SqFairness ==
  /\ WF_sqVars(FlushStep) /\ WF_sqVars(CfmEnds) /\ WF_sqVars(XmitEnqueues) /\ WF_sqVars(ScanEnds)
  /\ WF_sqVars(McEnds \/ \E s \in SqSta : McClones(s))
  /\ \A c \in Ctx, a \in Ac : SF_sqVars(CfmBegins(c, a))
  /\ \A v \in SqVap : SF_sqVars(CfmOld(v))

SqSpec == SqInit /\ [][SqNext]_sqVars /\ SqFairness

-----------------------------------------------------------------------------
(* Properties.                                                             *)

Pending(a) == Cardinality({e \in SqExtra : sqRef[e].ref > 0 /\ sqRef[e].ac = a})
Linked == {c \in Ctx : sqCtx[c].on}

\* The counter behind the global limit of a category counts every queued packet
\* once, and every multicast frame once as long as a clone of it is queued,
\* across refusals, cancellations, drops and stations that come and go.  A
\* context is charged for the packets the firmware still has, per category and
\* together, also after its station came back and after a recovery.  And the
\* broadcasts of a VAP are held to the limit of power saving exactly while one
\* of its connected stations saves power, however that station leaves.
SqCounted ==
  /\ \A a \in Ac : sqSize[a] = InLists(Linked, a, Own) + Pending(a)
  /\ \A c \in Linked :
       /\ \A a \in Ac : sqCtx[c].usedAc[a] = sqAir[c][a]
       /\ sqCtx[c].used = SumFunction(sqAir[c])
  /\ \A v \in SqVap :
       /\ sqPs[v] = Cardinality({s \in SqSta : sqCtx[s].on /\ StaVap[s] = v /\ sqCtx[s].ps})
       /\ sqCtx[v].ps = (sqPs[v] > 0)
       /\ sqCtx[v].limit = IF sqPs[v] > 0 THEN Min({PmLimit, TxLimit}) ELSE TxLimit

\* No packet is forgotten: when everything was confirmed, the flow is not
\* stopped and no flush runs or is scheduled, the queues are empty.
SqNoneForgotten ==
  Idle /\ ~sqTask /\ ~sqProhib /\ sqFree = NBds =>
    \A c \in Linked, a \in Ac : sqCtx[c].q[a] = <<>>

\* A stop of the flow for want of a BD ends when the firmware confirms packets:
\* "The use of the ID ensures proper data start."
SqFlowResumes == \A v \in SqVap : v \in flMask ~> v \notin flMask
=============================================================================

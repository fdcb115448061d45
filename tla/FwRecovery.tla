----------------------------- MODULE FwRecovery -----------------------------
(***************************************************************************)
(* Recovery of a dead firmware (fw_recovery.c, with its hooks in core.c,   *)
(* core_ext.c and hw_mmb.c).                                               *)
(*                                                                         *)
(* Every VAP has its own serializer, a thread with a queue of tasks.  The  *)
(* recovery is one task per VAP: those of the slaves report to slave_sync  *)
(* and wait on slave_rlse, the one of the master takes slave_sync once per *)
(* VAP, rebuilds hardware, cores and stations while nobody else runs, and  *)
(* gives slave_rlse once per VAP.  Both "mutexes" are Linux semaphores     *)
(* that start with 1: up() hands its unit to the first sleeper, if any.    *)
(*                                                                         *)
(* A firmware may die with an indication (a task on the master) or without *)
(* one (found by the watchdog); any context may ask for a reset as well.   *)
(* Left out: notifications to the application, the memory dump, counters,  *)
(* and which of the many steps of a restoration or configuration failed.   *)
(***************************************************************************)
EXTENDS Integers, Sequences, FiniteSets

CONSTANTS
  Vap,          \* VAPs of the card
  MasterVap,    \* the master VAP
  FastNum,      \* cfg.fast_rcvry_num
  FullNum,      \* cfg.full_rcvry_num
  CompleteRcvry,  \* cfg.complete_rcvry
  RcFaults      \* what may go wrong beside the firmware and the configuration

ASSUME RcvryConstants ==
  /\ IsFiniteSet(Vap) /\ MasterVap \in Vap
  /\ FastNum \in Nat /\ FullNum \in Nat /\ CompleteRcvry \in BOOLEAN
  /\ RcFaults \subseteq {"no_memory", "forced_none"}

VARIABLES
  rc,        \* fields of _rcvry_t
  rcInfo,    \* vap_info: was_connected per VAP, or NoInfo
  rcSync,    \* slave_sync_mutex
  rcRlse,    \* slave_rlse_mutex
  emergency, \* emergency tasks of each serializer
  fatalTask, \* a MAC exception waits at the priority of the hardware
  rcPc,      \* where the task of each serializer is
  rcLeft,    \* loop counter of master_recovery
  net,       \* core->net_state
  hw,        \* hw->state is READY, the firmware is alive, interrupts are
             \* enabled, is_mac_fatal_pending, the watchdog is armed
  rcWas      \* history: the VAPs connected when the first attempt was initiated

rcVars == <<rc, rcInfo, rcSync, rcRlse, emergency, fatalTask, rcPc, rcLeft, net, hw, rcWas>>

NoInfo == [v \in {} |-> FALSE]
Slaves == Vap \ {MasterVap}

RcvryTypeOK ==
  /\ rc \in [type : {"UNDEF", "NONE", "FAST", "FULL", "COMPLETE"}, forced : {"UNDEF", "NONE"},
             error : BOOLEAN, scheduled : BOOLEAN, fast : 0 .. FastNum, full : 0 .. FullNum,
             timer : BOOLEAN]
  /\ rcInfo = NoInfo \/ rcInfo \in [Vap -> BOOLEAN]
  /\ rcSync \in [n : Nat, q : Seq(Vap)] /\ rcRlse \in [n : Nat, q : Seq(Vap)]
  /\ emergency \in [Vap -> Seq({"recovery", "fatal"})] /\ fatalTask \in BOOLEAN
  /\ rcPc \in [Vap -> {"idle", "sync", "sync_wait", "isolate", "restore", "configure",
                       "finalize", "release", "finish", "on_error", "up", "down", "wait",
                       "fatal"}]
  /\ rcLeft \in 0 .. Cardinality(Vap)
  /\ net \in [Vap -> {"HALTED", "IDLE", "READY", "CONNECTED"}]
  /\ hw \in [ready : BOOLEAN, alive : BOOLEAN, intr : BOOLEAN, pending : BOOLEAN, wdog : BOOLEAN]
  /\ rcWas \subseteq Vap

RcvryInit ==
  /\ rc = [type |-> "UNDEF", forced |-> "UNDEF", error |-> FALSE, scheduled |-> FALSE,
           fast |-> 0, full |-> 0, timer |-> FALSE]
  /\ rcInfo = NoInfo
  /\ rcSync = [n |-> 1, q |-> <<>>] /\ rcRlse = [n |-> 1, q |-> <<>>]
  /\ emergency = [v \in Vap |-> <<>>] /\ fatalTask = FALSE
  /\ rcPc = [v \in Vap |-> "idle"] /\ rcLeft = 0
  /\ net = [v \in Vap |-> "READY"]
  /\ hw = [ready |-> TRUE, alive |-> TRUE, intr |-> TRUE, pending |-> FALSE, wdog |-> TRUE]
  /\ rcWas = {}

-----------------------------------------------------------------------------
(* Semaphores: mtlk_osal_mutex_acquire and mtlk_osal_mutex_release.        *)

SemUp(s) == IF s.q = <<>> THEN [s EXCEPT !.n = @ + 1] ELSE [s EXCEPT !.q = Tail(@)]
SemDown(s, v) == IF s.n > 0 THEN [s EXCEPT !.n = @ - 1] ELSE [s EXCEPT !.q = Append(@, v)]
Sleeps(s, v) == \E i \in 1 .. Len(s.q) : s.q[i] = v

Goto(v, pc) == rcPc' = [rcPc EXCEPT ![v] = pc]

-----------------------------------------------------------------------------
(* Initiation.                                                             *)

DetermineTypeOneMore(r) ==                                              \* mutant
  CASE r.forced # "UNDEF"                                  -> [r EXCEPT !.type = r.forced, !.forced = "UNDEF"]
    [] r.forced = "UNDEF" /\ r.fast <= FastNum             -> [r EXCEPT !.type = "FAST", !.fast = @ + 1]
    [] OTHER -> [r EXCEPT !.type = "NONE"]

\* _rcvry_determine_type, for an access point.
DetermineType(r) ==
  CASE r.forced # "UNDEF"                                  -> [r EXCEPT !.type = r.forced, !.forced = "UNDEF"]
    [] r.forced = "UNDEF" /\ r.fast < FastNum              -> [r EXCEPT !.type = "FAST", !.fast = @ + 1]
    [] r.forced = "UNDEF" /\ r.fast >= FastNum /\ r.full < FullNum ->
         [r EXCEPT !.type = "FULL", !.full = @ + 1]
    [] OTHER -> [r EXCEPT !.type = IF CompleteRcvry THEN "COMPLETE" ELSE "NONE"]

Connected == {v \in Vap : net[v] = "CONNECTED"}

InitiateAfresh(nowHw) ==                                                \* mutant
  LET r == DetermineType([rc EXCEPT !.timer = FALSE]) IN
  IF rc.type # "UNDEF"
  THEN /\ rc' = [rc EXCEPT !.timer = FALSE] /\ hw' = nowHw
       /\ UNCHANGED <<rcInfo, rcRlse, emergency, rcWas>>
  ELSE IF r.type \in {"NONE", "COMPLETE"}
  THEN /\ rc' = [r EXCEPT !.error = FALSE] /\ hw' = nowHw
       /\ rcInfo' = IF rc.error THEN NoInfo ELSE rcInfo
       /\ UNCHANGED <<rcRlse, emergency, rcWas>>
  ELSE /\ rc' = [r EXCEPT !.error = FALSE, !.scheduled = TRUE]
       /\ hw' = [nowHw EXCEPT !.intr = FALSE]
       /\ rcInfo' = [v \in Vap |-> v \in Connected]
       /\ rcWas' = IF rc.error THEN rcWas ELSE Connected
       /\ rcRlse' = [rcRlse EXCEPT !.n = @ - 1]
       /\ emergency' = [v \in Vap |-> Append(emergency[v], "recovery")]

\* rcvry_initiate.  It takes slave_rlse with rcvry->lock held, and so must not
\* find it empty; nowHw is what the caller does to the hardware.
Initiate(nowHw) ==
  LET r == DetermineType([rc EXCEPT !.timer = FALSE]) IN
  IF rc.type # "UNDEF"
  THEN /\ rc' = [rc EXCEPT !.timer = FALSE] /\ hw' = nowHw
       /\ UNCHANGED <<rcInfo, rcRlse, emergency, rcWas>>
  ELSE IF r.type \in {"NONE", "COMPLETE"}
  THEN /\ rc' = [r EXCEPT !.error = FALSE] /\ hw' = nowHw
       /\ rcInfo' = IF rc.error THEN NoInfo ELSE rcInfo
       /\ UNCHANGED <<rcRlse, emergency, rcWas>>
  ELSE \/ /\ rc' = [r EXCEPT !.error = FALSE, !.scheduled = TRUE]
          /\ hw' = [nowHw EXCEPT !.intr = FALSE]
          /\ rcInfo' = IF rc.error THEN rcInfo ELSE [v \in Vap |-> v \in Connected]
          /\ rcWas' = IF rc.error THEN rcWas ELSE Connected
          /\ rcRlse' = [rcRlse EXCEPT !.n = @ - 1]
          /\ emergency' = [v \in Vap |-> Append(emergency[v], "recovery")]
       \/ /\ "no_memory" \in RcFaults /\ ~rc.error      \* _rcvry_vap_info_create fails
          /\ rc' = r /\ hw' = [nowHw EXCEPT !.intr = FALSE]
          /\ UNCHANGED <<rcInfo, rcRlse, emergency, rcWas>>

\* MTLK_HW_RESET: ignored when the hardware is known to be dead or a recovery
\* is scheduled; it traps the firmware.
HwReset(after) ==
  IF hw.ready /\ ~rc.scheduled
  THEN Initiate([after EXCEPT !.alive = FALSE])
  ELSE hw' = after /\ UNCHANGED <<rc, rcInfo, rcRlse, emergency, rcWas>>

\* mtlk_core_set_net_state(NET_STATE_HALTED), then what the caller does to hw.
SetHalted(v, after) ==
  /\ net' = [net EXCEPT ![v] = "HALTED"]
  /\ IF net[v] # "HALTED"
     THEN HwReset(after)
     ELSE hw' = after /\ UNCHANGED <<rc, rcInfo, rcRlse, emergency, rcWas>>

-----------------------------------------------------------------------------
(* The firmware, the watchdog and the other sources of a reset.            *)

\* The firmware dies.  If it can still tell, a fatal error during a recovery is a
\* task of the highest priority (_mtlk_handle_mac_fatal_sync); an exception, and a
\* fatal error at another time, is one at the priority of the hardware
\* (_mtlk_handle_mac_exception_sync).
FwDies ==
  /\ hw.alive /\ rcPc[MasterVap] # "restore"
  /\ \/ hw' = [hw EXCEPT !.alive = FALSE] /\ UNCHANGED <<emergency, fatalTask>>
     \/ /\ hw.intr
        /\ hw' = [hw EXCEPT !.alive = FALSE, !.pending = TRUE]
        /\ \/ /\ rc.type # "UNDEF"
              /\ emergency' = [emergency EXCEPT ![MasterVap] = Append(@, "fatal")]
              /\ UNCHANGED fatalTask
           \/ fatalTask' = TRUE /\ UNCHANGED emergency
  /\ UNCHANGED <<rc, rcInfo, rcSync, rcRlse, rcPc, rcLeft, net, rcWas>>

\* A message without confirmation or packets without confirmation, in any
\* context (_txm_msg_timed_out, mtlk_stadb_disconnect_all).
ResetAsked ==
  /\ ~hw.pending /\ hw.ready /\ ~rc.scheduled
  /\ HwReset(hw)
  /\ UNCHANGED <<rcSync, fatalTask, rcPc, rcLeft, net>>

\* check_mac_watchdog, a task of low priority on the master's serializer.
Watchdog ==
  /\ rcPc[MasterVap] = "idle" /\ emergency[MasterVap] = <<>> /\ ~fatalTask
  /\ hw.wdog /\ ~hw.alive
  /\ SetHalted(MasterVap, [hw EXCEPT !.wdog = FALSE])
  /\ UNCHANGED <<rcSync, fatalTask, rcPc, rcLeft>>

\* _rcvry_fail_timer_handler.
FailTimer ==
  /\ rc.timer
  /\ rc' = [rc EXCEPT !.timer = FALSE, !.fast = 0, !.full = 0]
  /\ UNCHANGED <<rcInfo, rcSync, rcRlse, emergency, fatalTask, rcPc, rcLeft, net, hw, rcWas>>

\* rcvry_set_forced_type(NONE), before the driver stops.
ForceNone ==
  /\ "forced_none" \in RcFaults /\ rc.forced = "UNDEF"
  /\ rc' = [rc EXCEPT !.forced = "NONE"]
  /\ UNCHANGED <<rcInfo, rcSync, rcRlse, emergency, fatalTask, rcPc, rcLeft, net, hw, rcWas>>

\* A VAP is activated or deactivated by an ordinary task of its serializer.
VapToggles(v) ==
  /\ rcPc[v] = "idle" /\ hw.ready /\ hw.alive /\ net[v] \in {"READY", "CONNECTED"}
  /\ net' = [net EXCEPT ![v] = IF @ = "READY" THEN "CONNECTED" ELSE "READY"]
  /\ UNCHANGED <<rc, rcInfo, rcSync, rcRlse, emergency, fatalTask, rcPc, rcLeft, hw, rcWas>>
-----------------------------------------------------------------------------
(* The serializers.  Emergency tasks come first.                           *)

TakeTask(v) ==
  /\ rcPc[v] = "idle" /\ emergency[v] # <<>>
  /\ emergency' = [emergency EXCEPT ![v] = Tail(@)]
  /\ Goto(v, CASE Head(emergency[v]) = "fatal" -> "fatal"
               [] v = MasterVap /\ Head(emergency[v]) = "recovery" -> "sync"
               [] OTHER -> "up")
  /\ rcLeft' = IF v = MasterVap THEN Cardinality(DOMAIN rcInfo) ELSE rcLeft
  /\ UNCHANGED <<rc, rcInfo, rcSync, rcRlse, fatalTask, net, hw, rcWas>>

TakeFatal ==
  /\ rcPc[MasterVap] = "idle" /\ emergency[MasterVap] = <<>> /\ fatalTask
  /\ fatalTask' = FALSE /\ Goto(MasterVap, "fatal")
  /\ UNCHANGED <<rc, rcInfo, rcSync, rcRlse, emergency, rcLeft, net, hw, rcWas>>

\* _mtlk_process_mac_hang: nothing if the firmware has been recovered since.
MacHang ==
  /\ rcPc[MasterVap] = "fatal" /\ Goto(MasterVap, "idle")
  /\ IF hw.pending
     THEN SetHalted(MasterVap, [hw EXCEPT !.ready = FALSE])
     ELSE UNCHANGED <<rc, rcInfo, rcRlse, emergency, net, hw, rcWas>>
  /\ UNCHANGED <<rcSync, fatalTask, rcLeft>>

\* slave_recovery.
SlaveUp(v) ==
  /\ rcPc[v] = "up" /\ Goto(v, "down")
  /\ rcSync' = SemUp(rcSync)
  /\ UNCHANGED <<rc, rcInfo, rcRlse, emergency, fatalTask, rcLeft, net, hw, rcWas>>

SlaveDown(v) ==
  /\ rcPc[v] = "down" /\ Goto(v, IF rcRlse.n > 0 THEN "idle" ELSE "wait")
  /\ rcRlse' = SemDown(rcRlse, v)
  /\ UNCHANGED <<rc, rcInfo, rcSync, emergency, fatalTask, rcLeft, net, hw, rcWas>>

SlaveWakes(v) ==
  /\ rcPc[v] = "wait" /\ ~Sleeps(rcRlse, v) /\ Goto(v, "idle")
  /\ UNCHANGED <<rc, rcInfo, rcSync, rcRlse, emergency, fatalTask, rcLeft, net, hw, rcWas>>

MasterSyncShort ==                                                      \* mutant
  /\ rcPc[MasterVap] = "sync" /\ rcLeft > 1
  /\ rcLeft' = rcLeft - 2
  /\ rcSync' = SemDown(rcSync, MasterVap)
  /\ Goto(MasterVap, IF rcSync.n > 0 THEN "sync" ELSE "sync_wait")
  /\ UNCHANGED <<rc, rcInfo, rcRlse, emergency, fatalTask, net, hw, rcWas>>

\* master_recovery: once per VAP, so that all the slaves have reported.
MasterSync ==
  /\ rcPc[MasterVap] = "sync" /\ rcLeft > 0
  /\ rcLeft' = rcLeft - 1
  /\ rcSync' = SemDown(rcSync, MasterVap)
  /\ Goto(MasterVap, IF rcSync.n > 0 THEN "sync" ELSE "sync_wait")
  /\ UNCHANGED <<rc, rcInfo, rcRlse, emergency, fatalTask, net, hw, rcWas>>

MasterWakes ==
  /\ rcPc[MasterVap] = "sync_wait" /\ ~Sleeps(rcSync, MasterVap)
  /\ Goto(MasterVap, "sync")
  /\ UNCHANGED <<rc, rcInfo, rcSync, rcRlse, emergency, fatalTask, rcLeft, net, hw, rcWas>>

MasterStarts ==
  /\ rcPc[MasterVap] = "sync" /\ rcLeft = 0
  /\ rcSync' = SemUp(rcSync)
  /\ rc' = [rc EXCEPT !.scheduled = FALSE]
  /\ Goto(MasterVap, "isolate")
  /\ UNCHANGED <<rcInfo, rcRlse, emergency, fatalTask, rcLeft, net, hw, rcWas>>

\* _rcvry_isolate: mtlk_hw_mmb_isolate and core_on_rcvry_isol of every VAP.
Isolate ==
  /\ rcPc[MasterVap] = "isolate" /\ Goto(MasterVap, "restore")
  /\ net' = [v \in Vap |-> "HALTED"]
  /\ hw' = [hw EXCEPT !.wdog = FALSE, !.alive = FALSE]
  /\ UNCHANGED <<rc, rcInfo, rcSync, rcRlse, emergency, fatalTask, rcLeft, rcWas>>

Failed == Goto(MasterVap, "release") /\ rc' = [rc EXCEPT !.error = TRUE]
          /\ rcLeft' = Cardinality(DOMAIN rcInfo)

RestoreNoWatchdog ==                                                    \* mutant
  /\ rcPc[MasterVap] = "restore"
  /\ hw' = [ready |-> TRUE, alive |-> TRUE, intr |-> TRUE, pending |-> FALSE, wdog |-> FALSE]
  /\ net' = [v \in Vap |-> "IDLE"]
  /\ Goto(MasterVap, "configure")
  /\ UNCHANGED <<rc, rcLeft, rcInfo, rcSync, rcRlse, emergency, fatalTask, rcWas>>

\* The hardware after mtlk_hw_mmb_restore and the core_on_rcvry_restore of the
\* VAPs `done': the one of the master arms the watchdog.
HwRestored(done) == [ready |-> TRUE, alive |-> TRUE, intr |-> TRUE, pending |-> FALSE,
                     wdog |-> MasterVap \in done]

\* _rcvry_restore: mtlk_hw_mmb_restore, then core_on_rcvry_restore VAP by VAP.
Restore ==
  /\ rcPc[MasterVap] = "restore"
  /\ \/ /\ hw' = [hw EXCEPT !.pending = FALSE, !.ready = FALSE, !.intr = TRUE]
        /\ Failed /\ UNCHANGED net
     \/ \E done \in SUBSET Vap :
          /\ hw' = HwRestored(done)
          /\ net' = [v \in Vap |-> IF v \in done THEN "IDLE" ELSE net[v]]
          /\ IF done = Vap THEN Goto(MasterVap, "configure") /\ UNCHANGED <<rc, rcLeft>>
                           ELSE Failed
  /\ UNCHANGED <<rcInfo, rcSync, rcRlse, emergency, fatalTask, rcWas>>

\* The state in which core_on_rcvry_configure leaves a VAP when it succeeds.
CoreConfigured(v) == IF rcInfo[v] THEN "CONNECTED" ELSE "READY"

\* _rcvry_configure: core_on_rcvry_configure VAP by VAP; nothing can be
\* configured when the firmware is dead.
Configure ==
  /\ rcPc[MasterVap] = "configure"
  /\ \E done \in SUBSET Vap :
       /\ hw.alive \/ done # Vap
       /\ net' = [v \in Vap |-> IF v \in done THEN CoreConfigured(v) ELSE net[v]]
       /\ IF done = Vap THEN Goto(MasterVap, "finalize") /\ UNCHANGED <<rc, rcLeft>>
                        ELSE Failed
  /\ UNCHANGED <<rcInfo, rcSync, rcRlse, emergency, fatalTask, hw, rcWas>>

\* _rcvry_finalize.
Finalize ==
  /\ rcPc[MasterVap] = "finalize" /\ Goto(MasterVap, "release")
  /\ rc' = [rc EXCEPT !.timer = TRUE] /\ rcLeft' = Cardinality(DOMAIN rcInfo)
  /\ UNCHANGED <<rcInfo, rcSync, rcRlse, emergency, fatalTask, net, hw, rcWas>>

MasterReleasesShort ==                                                  \* mutant
  /\ rcPc[MasterVap] = "release"
  /\ IF rcLeft > 1
     THEN rcLeft' = rcLeft - 1 /\ rcRlse' = SemUp(rcRlse) /\ UNCHANGED rcPc
     ELSE Goto(MasterVap, "finish") /\ UNCHANGED <<rcLeft, rcRlse>>
  /\ UNCHANGED <<rc, rcInfo, rcSync, emergency, fatalTask, net, hw, rcWas>>

MasterReleases ==
  /\ rcPc[MasterVap] = "release"
  /\ IF rcLeft > 0
     THEN rcLeft' = rcLeft - 1 /\ rcRlse' = SemUp(rcRlse) /\ UNCHANGED rcPc
     ELSE Goto(MasterVap, "finish") /\ UNCHANGED <<rcLeft, rcRlse>>
  /\ UNCHANGED <<rc, rcInfo, rcSync, emergency, fatalTask, net, hw, rcWas>>

MasterFinishesInType ==                                                 \* mutant
  /\ rcPc[MasterVap] = "finish" /\ UNCHANGED rc
  /\ IF rc.error THEN Goto(MasterVap, "on_error") /\ UNCHANGED rcInfo
                 ELSE Goto(MasterVap, "idle") /\ rcInfo' = NoInfo
  /\ UNCHANGED <<rcSync, rcRlse, emergency, fatalTask, rcLeft, net, hw, rcWas>>

\* The last section under rcvry->lock.
MasterFinishes ==
  /\ rcPc[MasterVap] = "finish"
  /\ rc' = [rc EXCEPT !.type = "UNDEF"]
  /\ IF rc.error THEN Goto(MasterVap, "on_error") /\ UNCHANGED rcInfo
                 ELSE Goto(MasterVap, "idle") /\ rcInfo' = NoInfo
  /\ UNCHANGED <<rcSync, rcRlse, emergency, fatalTask, rcLeft, net, hw, rcWas>>

\* _rcvry_on_error, in whose place another context may have initiated already.
OnError ==
  /\ rcPc[MasterVap] = "on_error" /\ Goto(MasterVap, "idle")
  /\ net' = [v \in Vap |-> "HALTED"]
  /\ Initiate(hw)
  /\ UNCHANGED <<rcSync, fatalTask, rcLeft>>

MasterStep ==
  \/ TakeFatal \/ MacHang \/ MasterSync \/ MasterWakes \/ MasterStarts \/ Isolate \/ Restore
  \/ Configure \/ Finalize \/ MasterReleases \/ MasterFinishes \/ OnError

SlaveStep(v) == SlaveUp(v) \/ SlaveDown(v) \/ SlaveWakes(v)

\* No recovery is left: the card stays as it is until the driver is reloaded.
GivenUp == rc.type \in {"NONE", "COMPLETE"} /\ UNCHANGED rcVars

RcvryNext ==
  \/ GivenUp
  \/ FwDies \/ ResetAsked \/ Watchdog \/ FailTimer \/ ForceNone
  \/ MasterStep
  \/ \E v \in Vap : VapToggles(v) \/ TakeTask(v) \/ SlaveStep(v)

\* The serializers are threads, the watchdog is a periodic timer.
RcvryFairness ==
  /\ WF_rcVars(MasterStep) /\ WF_rcVars(Watchdog)
  /\ \A v \in Vap : WF_rcVars(TakeTask(v)) /\ WF_rcVars(SlaveStep(v))

RcvrySpec == RcvryInit /\ [][RcvryNext]_rcVars /\ RcvryFairness

-----------------------------------------------------------------------------
(* Properties.                                                             *)

Rebuilding == rcPc[MasterVap] \in {"isolate", "restore", "configure", "finalize"}

\* While the master rebuilds the card, every slave serializer is blocked inside
\* its recovery task ("Wait until all slave serializers blocked").
RcvryAlone == Rebuilding => \A v \in Slaves : rcPc[v] \in {"down", "wait"}

\* What an attempt leaves to the next one: a recovery task that starts finds the
\* table of VAPs it was scheduled with, as the master frees it only when no task
\* needs it any more; and when the recovery is over, however it ended, the unit
\* that rcvry_initiate takes from slave_rlse under a spin lock is there, so that
\* it does not sleep.
RcvryLeftReady ==
  /\ rc.type = "UNDEF" => rcRlse.n > 0
  /\ \A v \in Vap :
       rcPc[v] \in {"sync", "sync_wait", "up", "isolate", "restore", "configure", "finalize",
                    "release", "finish"}
         \/ (\E i \in 1 .. Len(emergency[v]) : emergency[v][i] = "recovery")
       => rcInfo # NoInfo

\* A recovery that succeeds, after however many failed attempts, brings back
\* exactly the VAPs that were connected when the firmware died.
RcvryRestores ==
  rcPc[MasterVap] = "finalize" => \A v \in Vap : net[v] = "CONNECTED" <=> v \in rcWas

\* A recovery that was initiated ends, whoever runs first.
RcvryEnds == rc.type \in {"FAST", "FULL"} ~> rc.type \notin {"FAST", "FULL"}

\* A dead firmware is replaced, whether it told of its death or not, unless
\* the recoveries are used up or were switched off.
RcvryRevives == ~hw.alive ~> (hw.alive \/ rc.type \in {"NONE", "COMPLETE"})
=============================================================================

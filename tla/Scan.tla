-------------------------------- MODULE Scan --------------------------------
(***************************************************************************)
(* The scan module of a station (shared/scan.c with its callers in core.c  *)
(* and core_ext.c).  A scan goes through the bands, and through the        *)
(* channels of a band in chunks.  A chunk is a request to the firmware     *)
(* whose confirmation starts the next one, after a pause when the scan is  *)
(* a background scan; during a chunk the data flow is held and, in the     *)
(* background, the firmware is in power save mode.                         *)
(*                                                                         *)
(* All handlers run in the thread of the VAP's serializer, which sleeps in *)
(* blocked messages; the process that removes the driver terminates a scan *)
(* and waits for it.  A step is the code between two sleeps of a process.  *)
(***************************************************************************)
EXTENDS Integers, FiniteSets

CONSTANTS
  ScanBands,    \* number of bands the configuration asks to scan, 1 or 2
  BssBands,     \* the bands where access points are
  ChunkMax      \* bound on the chunks of a band

ASSUME ScanAssumption ==
  /\ ScanBands \in 1 .. 2 /\ ChunkMax \in Nat \ {0}
  /\ BssBands \subseteq 1 .. ScanBands

VARIABLES
  scRunning,    \* is_running
  scTerminate,  \* treminate_scan
  scCompleted,  \* the event completed
  scBackground, \* params.is_background
  scRescan,     \* rescan
  scPos,        \* cur_band; is there a next_band; chunks left in the vector
  scRequest,    \* async_scan_msg: where it is, and the status it brings
  scTimedOut,   \* is_cfm_timeout
  scPause,      \* the pause timer: "off", "set", or its task is queued
  scThread,     \* the message in which the serializer's thread sleeps
  scStatus,     \* status and error of mtlk_scan_handle_evt_scan_confirmed
  scConnect,    \* the band of the connection that scans, 0 if none does
  scHeld,       \* has the scan module stopped the data flow?
  scPowerSave,  \* is the firmware in power save mode?
  scForgotten,  \* history: why power save was not ended with its chunk, or "no"
  scNet,        \* net_state
  scCbScanned,  \* cb_scanned_bands
  scCache,      \* bands of the access points in the BSS cache
  scCountry,    \* is the country code set?
  scIface,      \* is_iface_stopping
  scStop        \* _mtlk_core_prepare_stop
scPlan == <<scRunning, scTerminate, scCompleted, scRescan, scPos, scRequest,
            scTimedOut, scPause, scThread, scStatus>>
scCore == <<scBackground, scConnect, scNet, scCbScanned, scCountry, scIface, scStop>>
scEffects == <<scHeld, scPowerSave, scForgotten>>
scVars == <<scPlan, scCore, scEffects, scCache>>

ScanTypeOK ==
  /\ {scRunning, scTerminate, scCompleted, scBackground, scRescan, scTimedOut,
      scHeld, scPowerSave, scCountry, scIface} \subseteq BOOLEAN
  /\ scForgotten \in {"no", "refused", "timeout", "disconnected"}
  /\ scPos \in [cur : 1 .. 2, next : BOOLEAN, left : 0 .. ChunkMax]
  /\ scRequest \in {"none", "sent", "ok", "error"}
  /\ scPause \in {"off", "set", "task"}
  /\ scThread \in {"idle", "preload", "sync", "ps_on", "load", "undo", "back", "ps_off"}
  /\ scStatus \in {"ok", "error"}
  /\ scConnect \in 0 .. 2
  /\ scNet \in {"ready", "connected"}
  /\ scCbScanned \subseteq 1 .. 2 /\ scCache \subseteq 1 .. 2
  /\ scStop \in {"no", "waiting", "done"}

ScanInit ==
  /\ scRunning = FALSE /\ scTerminate = FALSE /\ scCompleted = FALSE
  /\ scBackground = FALSE /\ scRescan = FALSE
  /\ scPos = [cur |-> 1, next |-> FALSE, left |-> 0]
  /\ scRequest = "none" /\ scTimedOut = FALSE /\ scPause = "off"
  /\ scThread = "idle" /\ scStatus = "ok" /\ scConnect = 0
  /\ scHeld = FALSE /\ scPowerSave = FALSE /\ scForgotten = "no"
  /\ scNet = "ready" /\ scCbScanned = {} /\ scCache = {}
  /\ scCountry = FALSE /\ scIface = FALSE /\ scStop = "no"

\* mtlk_core_is_stopping
ScanStopping == scStop # "no" \/ scIface

-----------------------------------------------------------------------------
(***************************************************************************)
(* What the handlers do in the end.  ScanReturns: a handler returns to the *)
(* loop of mtlk_scan_sync or to the serializer.                            *)
(***************************************************************************)
ScanReturns(conn) == scThread' = IF conn = 0 THEN "idle" ELSE "sync"

\* scan_complete, or complete_or_continue after the last band.
ScanCompletes(conn) ==
  /\ scRunning' = FALSE /\ scCompleted' = TRUE
  /\ scPos' = [scPos EXCEPT !.next = FALSE]
  /\ ScanReturns(conn)

\* The beginning of scan_next_chunk, up to its first message.
ScanNextChunk(pos, bg) ==
  /\ scPos' = pos
  /\ scHeld' = TRUE
  /\ scThread' = IF bg THEN "ps_on" ELSE "load"

\* scan_current_band finds channels in the band, or in the one after it.
ScanFindsBand(band, next, bg) ==
  \E n \in 1 .. ChunkMax, second \in {FALSE} \cup {next} :
    ScanNextChunk([cur  |-> IF second THEN 2 ELSE band,
                   next |-> next /\ ~second, left |-> n], bg)

\* scan_current_band, while the flow is not held.
ScanCurrentBand(band, next) ==
  \/ ScanFindsBand(band, next, scBackground) /\ UNCHANGED <<scRunning, scCompleted>>
  \/ ScanCompletes(scConnect) /\ scHeld' = FALSE

\* complete_or_continue
ScanCompleteOrContinue ==
  IF scPos.next THEN ScanCurrentBand(2, FALSE)
                ELSE ScanCompletes(scConnect) /\ scHeld' = FALSE

-----------------------------------------------------------------------------
(***************************************************************************)
(* do_scan, up to its sleep in preload_progmodels, which reads files.      *)
(***************************************************************************)
ScanDoKeepsEvent(band, next) ==                 \* mutant: no reset of completed
  /\ ~ScanStopping /\ ~scRunning
  /\ scRunning' = TRUE /\ scTerminate' = FALSE /\ scCache' = {}
  /\ scPos' = [cur |-> band, next |-> next, left |-> 0]
  /\ scThread' = "preload"
  /\ UNCHANGED <<scCompleted, scRescan, scRequest, scTimedOut, scPause, scStatus, scEffects>>

ScanDo(band, next) ==
  /\ ~ScanStopping /\ ~scRunning
  /\ scRunning' = TRUE /\ scTerminate' = FALSE /\ scCompleted' = FALSE /\ scCache' = {}
  /\ scPos' = [cur |-> band, next |-> next, left |-> 0]
  /\ scThread' = "preload"
  /\ UNCHANGED <<scRescan, scRequest, scTimedOut, scPause, scStatus, scEffects>>

\* The rest of do_scan.  When it fails, mtlk_scan_sync does not wait.
ScanPreloaded ==
  /\ scThread = "preload"
  /\ \/ /\ ScanFindsBand(scPos.cur, scPos.next, scBackground)
        /\ UNCHANGED <<scRunning, scCompleted, scConnect>>
     \/ ScanCompletes(0) /\ scConnect' = 0 /\ UNCHANGED scHeld
  /\ UNCHANGED <<scTerminate, scRescan, scRequest, scTimedOut, scPause, scStatus,
                 scBackground, scNet, scCbScanned, scCountry, scIface, scStop,
                 scPowerSave, scForgotten, scCache>>

\* _mtlk_core_start_scanning
ScanStart ==
  /\ scThread = "idle"
  /\ scBackground' = (scNet = "connected")
  /\ ScanDo(1, ScanBands = 2)
  /\ UNCHANGED <<scConnect, scNet, scCbScanned, scCountry, scIface, scStop>>

-----------------------------------------------------------------------------
(***************************************************************************)
(* The sleeps of scan_next_chunk end; the message succeeds or fails.       *)
(***************************************************************************)
\* send_ps_req(TRUE)
ScanPsOn ==
  /\ scThread = "ps_on"
  /\ \/ /\ scPowerSave' = TRUE /\ scForgotten' = "no" /\ scThread' = "load"
        /\ UNCHANGED <<scRunning, scCompleted, scPos, scHeld>>
     \/ /\ ScanCompletes(scConnect) /\ scHeld' = FALSE
        /\ UNCHANGED <<scPowerSave, scForgotten>>
  /\ UNCHANGED <<scTerminate, scRescan, scRequest, scTimedOut, scPause, scStatus,
                 scCore, scCache>>

\* After load_and_configure_progmodel: mtlk_scan_send_scan_req, or the errors of
\* both.  A request takes some of the channels that are left.
ScanLoadForgets ==                \* mutant: the caller does not complete the scan
  /\ scThread = "load"
  /\ \/ /\ scRequest' = "sent" /\ scTimedOut' = FALSE
        /\ \E n \in 0 .. scPos.left - 1 : scPos' = [scPos EXCEPT !.left = n]
        /\ UNCHANGED scHeld
     \/ /\ scHeld' = FALSE
        /\ UNCHANGED <<scRequest, scTimedOut, scPos>>
  /\ ScanReturns(scConnect)
  /\ UNCHANGED <<scRunning, scCompleted, scTerminate, scRescan, scPause, scStatus,
                 scPowerSave, scForgotten, scCore, scCache>>

ScanLoad ==
  /\ scThread = "load"
  /\ \/ /\ scRequest' = "sent" /\ scTimedOut' = FALSE
        /\ \E n \in 0 .. scPos.left - 1 : scPos' = [scPos EXCEPT !.left = n]
        /\ ScanReturns(scConnect)
        /\ UNCHANGED <<scRunning, scCompleted, scHeld>>
     \/ /\ scBackground /\ scThread' = "undo"
        /\ UNCHANGED <<scRequest, scTimedOut, scPos, scRunning, scCompleted, scHeld>>
     \/ /\ ~scBackground /\ ScanCompletes(scConnect) /\ scHeld' = FALSE
        /\ UNCHANGED <<scRequest, scTimedOut>>
  /\ UNCHANGED <<scTerminate, scRescan, scPause, scStatus, scPowerSave, scForgotten,
                 scCore, scCache>>

\* History: the chunk is over, or its mode is changed, and power save is still `on'.
ScanForgets(on, cause) ==
  scForgotten' = IF ~on THEN "no" ELSE IF scForgotten = "no" THEN cause ELSE scForgotten

\* send_ps_req(FALSE): the answer decides the mode, and a refusal is forgotten.
ScanPsEnds(ok) ==
  /\ scPowerSave' = (scPowerSave /\ ~ok)
  /\ ScanForgets(scPowerSave /\ ~ok, "refused")

ScanUndo ==
  /\ scThread = "undo"
  /\ \E ok \in BOOLEAN : ScanPsEnds(ok)
  /\ ScanCompletes(scConnect) /\ scHeld' = FALSE
  /\ UNCHANGED <<scTerminate, scRescan, scRequest, scTimedOut, scPause, scStatus,
                 scCore, scCache>>

-----------------------------------------------------------------------------
(***************************************************************************)
(* The firmware confirms, or the request times out.  The beacons of the    *)
(* band have filled the BSS cache meanwhile (frame.c, 954).                *)
(***************************************************************************)
ScanConfirm ==
  /\ scRequest = "sent"
  /\ scRequest' \in {"ok", "error"}
  /\ scTimedOut' \in {FALSE} \cup {scRequest' = "error"}
  /\ scCache' = scCache \cup ({scPos.cur} \cap BssBands)
  /\ UNCHANGED <<scRunning, scTerminate, scCompleted, scRescan, scPos, scPause,
                 scThread, scStatus, scCore, scEffects>>

\* _mtlk_scan_handle_evt_pause_elapsed; the flow is not held when it runs.
ScanContinues ==
  \/ /\ scTerminate
     /\ ScanCompletes(scConnect) /\ scHeld' = FALSE
     /\ UNCHANGED <<scRescan, scCache>>
  \/ /\ ~scTerminate /\ scRescan
     /\ scRescan' = FALSE
     /\ scCache' = IF scBackground THEN scCache ELSE {}
     /\ IF scConnect # 0
          THEN ScanCurrentBand(scConnect, FALSE)
          ELSE ScanCurrentBand(1, ScanBands = 2)
  \/ /\ ~scTerminate /\ ~scRescan
     /\ IF scPos.left > 0
          THEN ScanNextChunk(scPos, scBackground) /\ UNCHANGED <<scRunning, scCompleted>>
          ELSE ScanCompleteOrContinue
     /\ UNCHANGED <<scRescan, scCache>>

\* The rest of mtlk_scan_handle_evt_scan_confirmed, from mtlk_flctrl_start_data.
ScanConfirmEnds(status) ==
  \/ /\ scTerminate \/ status = "error"
     /\ ScanCompletes(scConnect) /\ scHeld' = FALSE
     /\ UNCHANGED <<scRescan, scCache, scPause>>
  \/ /\ ~scTerminate /\ status = "ok" /\ scBackground
     /\ scPause' = "set" /\ scHeld' = FALSE
     /\ ScanReturns(scConnect)
     /\ UNCHANGED <<scRunning, scCompleted, scPos, scRescan, scCache>>
  \/ /\ ~scTerminate /\ status = "ok" /\ ~scBackground
     /\ ScanContinues /\ UNCHANGED scPause

\* mtlk_scan_handle_evt_scan_confirmed, as a task or called by mtlk_scan_sync.
ScanConfirmed ==
  /\ scThread \in {"idle", "sync"} /\ scRequest \in {"ok", "error"}
  /\ scRequest' = "none"
  /\ \/ /\ scTimedOut
        /\ ScanCompletes(scConnect)
        /\ ScanForgets(scPowerSave, "timeout")
        /\ UNCHANGED <<scHeld, scStatus, scRescan, scCache, scPause>>
     \/ /\ ~scTimedOut /\ scBackground
        /\ scThread' = "back" /\ scStatus' = scRequest
        /\ UNCHANGED <<scRunning, scCompleted, scPos, scHeld, scForgotten, scRescan,
                       scCache, scPause>>
     \/ /\ ~scTimedOut /\ ~scBackground
        /\ ScanConfirmEnds(scRequest)
        /\ UNCHANGED <<scStatus, scForgotten>>
  /\ UNCHANGED <<scTerminate, scTimedOut, scPowerSave, scCore>>

\* switch_back_progmodel has answered.
ScanBack ==
  /\ scThread = "back"
  /\ scThread' = "ps_off"
  /\ scStatus' \in {scStatus, "error"}
  /\ UNCHANGED <<scRunning, scTerminate, scCompleted, scRescan, scPos, scRequest,
                 scTimedOut, scPause, scCore, scEffects, scCache>>

ScanPsOff ==
  /\ scThread = "ps_off"
  /\ \E ok \in BOOLEAN :
       ScanPsEnds(ok) /\ ScanConfirmEnds(IF ok THEN scStatus ELSE "error")
  /\ UNCHANGED <<scTerminate, scRequest, scTimedOut, scStatus, scCore>>

\* pause_timer_handler
ScanPauseTimer ==
  /\ scPause = "set"
  /\ scPause' = "task"
  /\ UNCHANGED <<scRunning, scTerminate, scCompleted, scRescan, scPos, scRequest,
                 scTimedOut, scThread, scStatus, scCore, scEffects, scCache>>

\* Its task, which needs the serializer's thread.
ScanPauseElapsed ==
  /\ scThread = "idle" /\ scPause = "task"
  /\ scPause' = "off"
  /\ ScanContinues
  /\ UNCHANGED <<scTerminate, scRequest, scTimedOut, scStatus, scPowerSave,
                 scForgotten, scCore>>

\* mtlk_scan_schedule_rescan, when the first country code is received.
ScanScheduleRescan ==
  /\ ~scCountry /\ scCountry' = TRUE
  /\ scRescan' = TRUE
  /\ UNCHANGED <<scRunning, scTerminate, scCompleted, scPos, scRequest, scTimedOut,
                 scPause, scThread, scStatus, scBackground, scConnect, scNet,
                 scCbScanned, scIface, scStop, scEffects, scCache>>

-----------------------------------------------------------------------------
(***************************************************************************)
(* The core.  _mtlk_core_connect_sta scans a band once, by mtlk_scan_sync, *)
(* before its first connection there.                                      *)
(***************************************************************************)
ScanConnects(band) ==
  /\ scThread = "idle" /\ scNet = "ready" /\ ~scRunning /\ ~ScanStopping
  /\ band \in scCache
  /\ \/ /\ band \notin scCbScanned
        /\ ScanDo(band, FALSE)
        /\ scConnect' = band
        /\ UNCHANGED scNet
     \/ /\ band \in scCbScanned
        /\ scNet' \in {"ready", "connected"}
        /\ UNCHANGED <<scConnect, scPlan, scEffects, scCache>>
  /\ UNCHANGED <<scBackground, scCbScanned, scCountry, scIface, scStop>>

\* mtlk_scan_sync returns; its result, and the firmware, decide whether the
\* connection goes on, which is left open.
ScanSyncReturns ==
  /\ scThread = "sync" /\ scCompleted
  /\ scThread' = "idle" /\ scConnect' = 0
  /\ \/ UNCHANGED <<scNet, scCbScanned>>
     \/ /\ scCbScanned' = scCbScanned \cup {scConnect}
        /\ scNet' \in {"ready", "connected"}
  /\ UNCHANGED <<scRunning, scTerminate, scCompleted, scRescan, scPos, scRequest,
                 scTimedOut, scPause, scStatus, scBackground, scCountry, scIface,
                 scStop, scEffects, scCache>>

\* _mtlk_core_disconnect_sta: the user's request waits for the end of a scan.
ScanUserDisconnects ==
  /\ scThread = "idle" /\ scNet = "connected" /\ ~scRunning
  /\ scNet' = "ready"
  /\ UNCHANGED <<scPlan, scBackground, scConnect, scCbScanned, scCountry, scIface,
                 scStop, scEffects, scCache>>

\* _mtlk_core_disconnect_sta_blocked, on the firmware's indication: terminates
\* a scan without waiting for it, and leaves the background mode.
ScanDisconnected ==
  /\ scThread = "idle" /\ scNet = "connected"
  /\ scTerminate' = (scTerminate \/ scRunning)
  /\ scBackground' = FALSE
  /\ ScanForgets(scPowerSave, "disconnected")
  /\ scNet' = "ready"
  /\ UNCHANGED <<scRunning, scCompleted, scRescan, scPos, scRequest, scTimedOut,
                 scPause, scThread, scStatus, scConnect, scCbScanned, scCountry,
                 scIface, scStop, scHeld, scPowerSave, scCache>>

\* _mtlk_core_deactivate, called again until no scan is running.
ScanDeactivate ==
  /\ scThread = "idle"
  /\ IF scRunning
       THEN /\ scTerminate' = (scTerminate \/ ~scIface)
            /\ scIface' = TRUE
            /\ UNCHANGED <<scNet, scCbScanned, scCache>>
       ELSE /\ scIface' = FALSE /\ scNet' = "ready"
            /\ scCbScanned' = {} /\ scCache' = {}
            /\ UNCHANGED scTerminate
  /\ UNCHANGED <<scRunning, scCompleted, scRescan, scPos, scRequest, scTimedOut,
                 scPause, scThread, scStatus, scBackground, scConnect, scCountry,
                 scStop, scEffects>>

\* _mtlk_core_prepare_stop with scan_terminate_and_wait_completion, in the
\* process that removes the driver; the firmware is alive.
ScanPrepareStop ==
  /\ scStop = "no"
  /\ scStop' = IF scRunning THEN "waiting" ELSE "done"
  /\ scTerminate' = (scTerminate \/ scRunning)
  /\ UNCHANGED <<scRunning, scCompleted, scRescan, scPos, scRequest, scTimedOut,
                 scPause, scThread, scStatus, scBackground, scConnect, scNet,
                 scCbScanned, scCountry, scIface, scEffects, scCache>>

ScanStopWaited ==
  /\ scStop = "waiting" /\ scCompleted
  /\ scStop' = "done" /\ scCache' = {}
  /\ UNCHANGED <<scPlan, scBackground, scConnect, scNet, scCbScanned, scCountry,
                 scIface, scEffects>>

ScanThread == ScanPreloaded \/ ScanPsOn \/ ScanLoad \/ ScanUndo \/ ScanConfirmed \/ ScanBack
              \/ ScanPsOff \/ ScanPauseElapsed \/ ScanSyncReturns

ScanNext ==
  \/ ScanThread \/ ScanConfirm \/ ScanPauseTimer
  \/ ScanStart \/ ScanScheduleRescan
  \/ \E band \in BssBands : ScanConnects(band)
  \/ ScanUserDisconnects \/ ScanDisconnected \/ ScanDeactivate
  \/ ScanPrepareStop \/ ScanStopWaited

\* The thread is scheduled, blocked messages and requests are answered or time
\* out, timers expire, a waiting process is woken; nobody has to ask for
\* anything.
ScanFairness ==
  WF_scVars(ScanThread) /\ WF_scVars(ScanConfirm) /\ WF_scVars(ScanPauseTimer)
  /\ WF_scVars(ScanStopWaited)

ScanSpec == ScanInit /\ [][ScanNext]_scVars /\ ScanFairness

-----------------------------------------------------------------------------
\* Where the next step of a scan can come from: the thread is in its code, the
\* request is out or confirmed, the timer is set or its task is queued.
ScanPending ==
  {p \in {"thread", "request", "pause"} :
     CASE p = "thread"  -> scThread \notin {"idle", "sync"}
       [] p = "request" -> scRequest # "none"
       [] p = "pause"   -> scPause # "off"}

(***************************************************************************)
(* A running scan has exactly one continuation and a finished one none, in *)
(* whatever order confirmations, failed messages, timers, rescans,         *)
(* disconnections and terminations come: no scan is forgotten, none is     *)
(* completed twice (scan.c asserts it in complete_or_continue), and the    *)
(* scan can be cleaned up when it does not run.                            *)
(***************************************************************************)
ScanOneContinuation == Cardinality(ScanPending) = IF scRunning THEN 1 ELSE 0

(***************************************************************************)
(* What a scan may leave behind, over all its errors.  When no scan runs,  *)
(* the data flow is held only if the last request timed out (which is      *)
(* ScanFlowWoken's case), power save is on only if the firmware refused to *)
(* end it, the request of the chunk timed out, or a disconnection changed  *)
(* the mode of the scan under way (ScanPowerSaveEnds' case); no other      *)
(* failed message, pause, rescan or termination leaves either.  The        *)
(* process that removes the driver goes on only when no scan runs, and     *)
(* none starts afterwards.                                                 *)
(***************************************************************************)
ScanLeavesNothing ==
  /\ ~scRunning => (scHeld => scTimedOut) /\ (scPowerSave => scForgotten # "no")
  /\ scStop = "done" => ~scRunning

(***************************************************************************)
(* "We should wake flow even in case of error, because someone might want  *)
(* to reconnect without scan after this" (scan.c, 819): when no scan runs, *)
(* the scan module does not hold the data flow.                            *)
(***************************************************************************)
ScanFlowWoken == ~scRunning => ~scHeld

(***************************************************************************)
(* "It must be terminated because scan module is not ready for background  *)
(* scan to normal scan mode switch on the fly" (core_ext.c, 1902): a       *)
(* disconnection during a background scan does not leave power save on.    *)
(***************************************************************************)
ScanPowerSaveEnds == ~scRunning /\ scPowerSave => scForgotten # "disconnected"

(***************************************************************************)
(* A scan that runs finishes: scan_terminate_and_wait_completion waits for *)
(* it without limit, as "The maximum waiting timeout depends on            *)
(* pause_between_chunks parameter" (scan.c, 995).                          *)
(***************************************************************************)
ScanFinishes == scRunning ~> ~scRunning

(***************************************************************************)
(* No behaviour breaks all three of these statements.  Each of them        *)
(* implies this, so that a behaviour against it refutes each.              *)
(***************************************************************************)
ScanStatements == ScanFinishes \/ []ScanFlowWoken \/ []ScanPowerSaveEnds
=============================================================================

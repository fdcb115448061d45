----------------------------- MODULE Serializer -----------------------------
(***************************************************************************)
(* The command serializer of a core (mtlk_serializer.c) and its thread     *)
(* (mtlk_serializer_osdep.c).                                              *)
(*                                                                         *)
(* Clients enqueue commands with a priority; one thread executes them one  *)
(* by one, the highest priority first.  A command of Sync is executed with *)
(* mtlk_serializer_execute_blocked and lives on its caller's stack; the    *)
(* others are enqueued and belong to their owner again, who may free them, *)
(* when the completion callback has been called (core.c).                  *)
(*                                                                         *)
(* Every section under szr->lock is one step; the thread, the clients and  *)
(* the caller of mtlk_serializer_stop run in parallel.  The operators      *)
(* named "mutant" in the comments are slips that the code could contain;   *)
(* each shows that some property would notice.                             *)
(***************************************************************************)
EXTENDS Lists, Integers, FiniteSets

CONSTANTS
  Cmd,      \* command objects
  Sync,     \* those executed blocked
  NumPrio,  \* szr->num_priorities
  NULL

ASSUME ConstantsAssumption ==
  /\ IsFiniteSet(Cmd)
  /\ Sync \subseteq Cmd
  /\ NumPrio \in Nat \ {0}
  /\ NULL \notin Cmd

Prio == 0 .. NumPrio - 1

VARIABLES
  commands,    \* szr->commands: a list per priority
  is_in_queue, \* of each command
  priority,    \* of each command, as of its last enqueue
  is_running,  \* the serializer accepts commands
  refs,        \* tasks_pending_lock: reference count
  zero,        \* tasks_pending_lock: its event, set when the count gets zero
  current,     \* szr->current_command
  new_event,   \* osdep: wakes the thread
  stop,        \* osdep: asks the thread to end
  th,          \* the thread: where it is, and the priority it looks at
  phase,       \* the progress of mtlk_serializer_start and _stop
  cl,          \* where the client of each command is
  result,      \* completion_ctx of execute_blocked: event and szr_result
  live,        \* history: the command's memory belongs to the command
  log,         \* history: what happened to the command since its enqueue
  bypassed     \* history: commands of lower priority started since then

vars == <<commands, is_in_queue, priority, is_running, refs, zero, current, new_event,
          stop, th, phase, cl, result, live, log, bypassed>>

queue_vars == <<commands, is_in_queue, priority, refs, zero, bypassed>>
thread_vars == <<current, stop, th>>
client_vars == <<cl, result, live, log>>

TypeOK ==
  /\ commands \in [Prio -> Seq(Cmd)]
  /\ is_in_queue \in [Cmd -> BOOLEAN]
  /\ priority \in [Cmd -> Prio]
  /\ is_running \in BOOLEAN
  /\ refs \in Int /\ zero \in BOOLEAN
  /\ current \in Cmd \cup {NULL}
  /\ new_event \in BOOLEAN /\ stop \in BOOLEAN
  /\ th \in [pc : {"dead", "wait", "reset", "scan", "run", "post", "clear", "exit"}, i : Prio]
  /\ phase \in {"stopped", "up", "draining", "joining"}
  /\ cl \in [Cmd -> {"idle", "queued", "waiting", "expired", "canceling", "waiting2"}]
  /\ result \in [Cmd -> {"none", "EXECUTED", "CANCELED"}]
  /\ live \in [Cmd -> BOOLEAN]
  /\ log \in [Cmd -> Seq({"run", "EXECUTED", "CANCELED"})]
  /\ bypassed \in [Cmd -> Nat]

Init ==
  /\ commands = [p \in Prio |-> <<>>]
  /\ is_in_queue = [c \in Cmd |-> FALSE]
  /\ priority = [c \in Cmd |-> 0]
  /\ is_running = FALSE
  /\ refs = 0 /\ zero = FALSE
  /\ current = NULL
  /\ new_event = FALSE /\ stop = FALSE
  /\ th = [pc |-> "dead", i |-> 0]
  /\ phase = "stopped"
  /\ cl = [c \in Cmd |-> "idle"]
  /\ result = [c \in Cmd |-> "none"]
  /\ live = [c \in Cmd |-> FALSE]
  /\ log = [c \in Cmd |-> <<>>]
  /\ bypassed = [c \in Cmd |-> 0]

\* mtlk_rmlock_release.
RmlockRelease ==
  /\ refs' = refs - 1
  /\ zero' = (zero \/ refs - 1 = 0)

(***************************************************************************)
(* Start and stop.                                                         *)
(***************************************************************************)
Start ==
  /\ phase = "stopped"
  /\ refs' = 1 /\ zero' = FALSE
  /\ stop' = FALSE /\ new_event' = FALSE
  /\ th' = [pc |-> "wait", i |-> 0]
  /\ is_running' = TRUE
  /\ phase' = "up"
  /\ UNCHANGED <<commands, is_in_queue, priority, current, bypassed, client_vars>>

\* _mtlk_serializer_stop_processing up to mtlk_rmlock_wait.
StopProcessing ==
  /\ phase = "up"
  /\ is_running' = FALSE
  /\ RmlockRelease
  /\ phase' = "draining"
  /\ UNCHANGED <<commands, is_in_queue, priority, bypassed, new_event, thread_vars, client_vars>>

OsdepStopAtOnce ==                                                   \* mutant
  /\ phase = "draining"
  /\ stop' = TRUE
  /\ new_event' = TRUE
  /\ phase' = "joining"
  /\ UNCHANGED <<queue_vars, is_running, current, th, client_vars>>

\* mtlk_rmlock_wait returns; _mtlk_serializer_osdep_stop up to kthread_stop.
OsdepStop ==
  /\ phase = "draining"
  /\ zero
  /\ stop' = TRUE
  /\ new_event' = TRUE
  /\ phase' = "joining"
  /\ UNCHANGED <<queue_vars, is_running, current, th, client_vars>>

\* kthread_stop returns when the thread has left its loop.
Joined ==
  /\ phase = "joining"
  /\ th.pc = "exit"
  /\ th' = [th EXCEPT !.pc = "dead"]
  /\ phase' = "stopped"
  /\ UNCHANGED <<queue_vars, is_running, current, new_event, stop, client_vars>>

(***************************************************************************)
(* The clients.  A command that is refused leaves no trace.                *)
(***************************************************************************)
Enqueue(c, p) ==
  /\ cl[c] = "idle"
  /\ is_running /\ ~is_in_queue[c]
  /\ commands' = [commands EXCEPT ![p] = Append(@, c)]
  /\ is_in_queue' = [is_in_queue EXCEPT ![c] = TRUE]
  /\ priority' = [priority EXCEPT ![c] = p]
  /\ refs' = refs + 1
  /\ new_event' = TRUE
  /\ cl' = [cl EXCEPT ![c] = IF c \in Sync THEN "waiting" ELSE "queued"]
  /\ result' = [result EXCEPT ![c] = "none"]
  /\ live' = [live EXCEPT ![c] = TRUE]
  /\ log' = [log EXCEPT ![c] = <<>>]
  /\ bypassed' = [bypassed EXCEPT ![c] = 0]
  /\ UNCHANGED <<is_running, zero, phase, thread_vars>>

PostExecForgetsEvent(c, r) ==                                        \* mutant
  /\ log' = [log EXCEPT ![c] = Append(@, r)]
  /\ live' = [live EXCEPT ![c] = c \in Sync]
  /\ UNCHANGED result

\* The completion callback, res being EXECUTED or CANCELED.  The one of
\* execute_blocked stores res and sets the event; any other gives the command
\* back to its owner.
PostExec(c, r) ==
  /\ log' = [log EXCEPT ![c] = Append(@, r)]
  /\ IF c \in Sync
       THEN result' = [result EXCEPT ![c] = r] /\ UNCHANGED live
       ELSE live' = [live EXCEPT ![c] = FALSE] /\ UNCHANGED result

TakeOutKeepsRef(c) ==                                                \* mutant
  /\ commands' = [commands EXCEPT ![priority[c]] = DelKeep(@, Position(@, c))]
  /\ is_in_queue' = [is_in_queue EXCEPT ![c] = FALSE]
  /\ UNCHANGED <<refs, zero>>

TakeOutKeepsEntry(c) ==                                              \* mutant
  /\ is_in_queue' = [is_in_queue EXCEPT ![c] = FALSE]
  /\ RmlockRelease
  /\ UNCHANGED commands

\* What mtlk_serializer_cancel does with a queued command.
TakeOut(c) ==
  /\ commands' = [commands EXCEPT ![priority[c]] = DelKeep(@, Position(@, c))]
  /\ is_in_queue' = [is_in_queue EXCEPT ![c] = FALSE]
  /\ RmlockRelease

\* The lock section of mtlk_serializer_cancel; it fails if the command is not
\* in the queue any more.
Cancel(c) ==
  /\ cl[c] = IF c \in Sync THEN "expired" ELSE "queued"
  /\ IF is_in_queue[c]
       THEN /\ TakeOut(c)
            /\ cl' = [cl EXCEPT ![c] = "canceling"]
       ELSE /\ cl' = [cl EXCEPT ![c] = IF c \in Sync THEN "waiting2" ELSE @]
            /\ UNCHANGED <<commands, is_in_queue, refs, zero>>
  /\ UNCHANGED <<priority, bypassed, is_running, new_event, phase, thread_vars, result, live, log>>

\* The completion callback of a cancelled command, after the lock section;
\* execute_blocked then returns MTLK_ERR_TIMEOUT and its frame is gone.
CancelCompletes(c) ==
  /\ cl[c] = "canceling"
  /\ cl' = [cl EXCEPT ![c] = "idle"]
  /\ live' = [live EXCEPT ![c] = FALSE]
  /\ log' = [log EXCEPT ![c] = Append(@, "CANCELED")]
  /\ result' = [result EXCEPT ![c] = IF c \in Sync THEN "CANCELED" ELSE @]
  /\ UNCHANGED <<queue_vars, is_running, new_event, phase, thread_vars>>

\* The time to live of execute_blocked ends before its event is set.
TtlExpires(c) ==
  /\ cl[c] = "waiting" /\ result[c] = "none"
  /\ cl' = [cl EXCEPT ![c] = "expired"]
  /\ UNCHANGED <<queue_vars, is_running, new_event, phase, thread_vars, result, live, log>>

BlockedReturnsEarly(c) ==                                            \* mutant
  /\ \/ cl[c] = "waiting" /\ result[c] # "none"
     \/ cl[c] = "waiting2"
  /\ cl' = [cl EXCEPT ![c] = "idle"]
  /\ live' = [live EXCEPT ![c] = FALSE]
  /\ UNCHANGED <<queue_vars, is_running, new_event, phase, thread_vars, result, log>>

\* execute_blocked sees its event and returns; its frame is gone.
BlockedReturns(c) ==
  /\ cl[c] \in {"waiting", "waiting2"} /\ result[c] # "none"
  /\ cl' = [cl EXCEPT ![c] = "idle"]
  /\ live' = [live EXCEPT ![c] = FALSE]
  /\ UNCHANGED <<queue_vars, is_running, new_event, phase, thread_vars, result, log>>

(***************************************************************************)
(* The thread.                                                             *)
(***************************************************************************)

\* mtlk_osal_event_wait returns and stop is tested.
ThreadWakes ==
  /\ th.pc = "wait"
  /\ new_event
  /\ th' = [th EXCEPT !.pc = IF stop THEN "exit" ELSE "reset"]
  /\ UNCHANGED <<queue_vars, is_running, current, new_event, stop, phase, client_vars>>

ThreadResets ==
  /\ th.pc = "reset"
  /\ new_event' = FALSE
  /\ th' = [pc |-> "scan", i |-> NumPrio - 1]
  /\ UNCHANGED <<queue_vars, is_running, current, stop, phase, client_vars>>

\* One round of the for loop of process_commands that finds a command.
ThreadPops ==
  /\ th.pc = "scan"
  /\ commands[th.i] # <<>>
  /\ LET c == Head(commands[th.i])
     IN  /\ current' = c
         /\ is_in_queue' = [is_in_queue EXCEPT ![c] = FALSE]
  /\ commands' = [commands EXCEPT ![th.i] = Tail(@)]
  /\ RmlockRelease
  /\ bypassed' = [c \in Cmd |-> IF is_in_queue[c] /\ priority[c] > th.i
                                  THEN bypassed[c] + 1 ELSE bypassed[c]]
  /\ th' = [th EXCEPT !.pc = "run"]
  /\ UNCHANGED <<priority, is_running, new_event, stop, phase, client_vars>>

ThreadFindsNonePastZero ==                                           \* mutant
  /\ th.pc = "scan"
  /\ commands[th.i] = <<>>
  /\ th' = IF th.i >= 0 THEN [th EXCEPT !.i = @ - 1] ELSE [th EXCEPT !.pc = "wait"]
  /\ UNCHANGED <<queue_vars, is_running, current, new_event, stop, phase, client_vars>>

ThreadFindsNoneResets ==                         \* mutant: the reset comes too late
  /\ th.pc = "scan"
  /\ commands[th.i] = <<>>
  /\ th' = IF th.i > 0 THEN [th EXCEPT !.i = @ - 1] ELSE [th EXCEPT !.pc = "wait"]
  /\ new_event' = (th.i > 0 /\ new_event)
  /\ UNCHANGED <<queue_vars, is_running, current, stop, phase, client_vars>>

\* One round that does not; after the last one the thread waits again.
ThreadFindsNone ==
  /\ th.pc = "scan"
  /\ commands[th.i] = <<>>
  /\ th' = IF th.i > 0 THEN [th EXCEPT !.i = @ - 1] ELSE [th EXCEPT !.pc = "wait"]
  /\ UNCHANGED <<queue_vars, is_running, current, new_event, stop, phase, client_vars>>

\* _mtlk_serializer_invoke_command: the command's callback ...
ThreadRuns ==
  /\ th.pc = "run"
  /\ log' = [log EXCEPT ![current] = Append(@, "run")]
  /\ th' = [th EXCEPT !.pc = "post"]
  /\ UNCHANGED <<queue_vars, is_running, current, new_event, stop, phase, cl, result, live>>

\* ... and its completion callback.
ThreadCompletes ==
  /\ th.pc = "post"
  /\ PostExec(current, "EXECUTED")
  /\ cl' = [cl EXCEPT ![current] = IF current \in Sync THEN @ ELSE "idle"]
  /\ th' = [th EXCEPT !.pc = "clear"]
  /\ UNCHANGED <<queue_vars, is_running, current, new_event, stop, phase>>

ThreadClearsAndGoesOn ==                         \* mutant: no break out of the for loop
  /\ th.pc = "clear"
  /\ current' = NULL
  /\ th' = [th EXCEPT !.pc = "scan"]
  /\ UNCHANGED <<queue_vars, is_running, new_event, stop, phase, client_vars>>

\* current_command is reset and the search starts again at the top.
ThreadClears ==
  /\ th.pc = "clear"
  /\ current' = NULL
  /\ th' = [pc |-> "scan", i |-> NumPrio - 1]
  /\ UNCHANGED <<queue_vars, is_running, new_event, stop, phase, client_vars>>

Thread ==
  \/ ThreadWakes
  \/ ThreadResets
  \/ ThreadPops
  \/ ThreadFindsNone
  \/ ThreadRuns
  \/ ThreadCompletes
  \/ ThreadClears

Client(c) ==
  \/ \E p \in Prio : Enqueue(c, p)
  \/ Cancel(c)
  \/ CancelCompletes(c)
  \/ TtlExpires(c)
  \/ BlockedReturns(c)

Stopper == StopProcessing \/ OsdepStop \/ Joined

Next == Start \/ Stopper \/ Thread \/ \E c \in Cmd : Client(c)

Spec == Init /\ [][Next]_vars

(***************************************************************************)
(* Fairness.  Thread, waiting callers and the stopping process are         *)
(* scheduled; a time to live ends; nobody has to enqueue, to cancel an     *)
(* asynchronous command, to stop or to start.                              *)
(***************************************************************************)
Fairness ==
  /\ WF_vars(Thread)
  /\ WF_vars(OsdepStop \/ Joined)
  /\ \A c \in Cmd : WF_vars((c \in Sync /\ Cancel(c)) \/ CancelCompletes(c)
                              \/ TtlExpires(c) \/ BlockedReturns(c))

FairSpec == Spec /\ Fairness

(***************************************************************************)
(* Safety.                                                                 *)
(***************************************************************************)

\* A command is in the list of its priority, once, when is_in_queue says so,
\* and in no other list.
QueuesCoherent ==
  /\ \A p \in Prio : Distinct(commands[p])
  /\ \A c \in Cmd, p \in Prio :
       c \in Elems(commands[p]) <=> (is_in_queue[c] /\ priority[c] = p)

Queued == {c \in Cmd : is_in_queue[c]}

\* The remove lock counts the queued commands, and one more while the
\* serializer runs: mtlk_rmlock_wait cannot return early nor wait for ever,
\* whichever of thread, cancellation and timeout takes a command out.
PendingCounted ==
  /\ QueuesCoherent
  /\ phase # "stopped" => refs = Cardinality(Queued) + (IF phase = "up" THEN 1 ELSE 0)

\* An accepted command is executed and then completed, or only completed as
\* cancelled: its callback and its completion callback run at most once each,
\* in this order, whatever the race of cancellation, timeout and thread.
CompletesOnce ==
  \A c \in Cmd :
    log[c] \in {<<>>, <<"run">>, <<"run", "EXECUTED">>, <<"CANCELED">>}

\* The thread touches a command, and a command is in a queue, only while its
\* memory is the command's: execute_blocked never leaves its frame early.
CommandAlive ==
  /\ \A p \in Prio : \A c \in Elems(commands[p]) : live[c]
  /\ th.pc \in {"run", "post"} => live[current]

\* A command that was enqueued waits for at most one start of a command of
\* lower priority: process_commands goes back to the top after each command,
\* and looks at the priorities one lock section at a time.
BypassedAtMostOnce == \A c \in Cmd : bypassed[c] <= 1

\* When mtlk_serializer_stop goes on to end the thread no command is queued,
\* and when it has returned none is executing: the completion of all pending
\* commands that its description promises.
StopDrains ==
  /\ phase \in {"joining", "stopped"} => \A p \in Prio : commands[p] = <<>>
  /\ phase = "stopped" => current = NULL /\ th.pc = "dead"

(***************************************************************************)
(* Liveness.                                                               *)
(***************************************************************************)

\* execute_blocked returns: after its time to live it gets the command back,
\* or the thread has it and completes it.
ExecuteBlockedReturns == \A c \in Sync : cl[c] = "waiting" ~> cl[c] = "idle"

\* A command of the highest priority is started or cancelled, even if it was
\* enqueued between the reset of new_event and the scan, or during a stop.
TopPriorityServed ==
  \A c \in Cmd : (is_in_queue[c] /\ priority[c] = NumPrio - 1) ~> ~is_in_queue[c]

\* mtlk_serializer_stop returns: "Wait for all pending commands completion and
\* stop the serializer object".
StopReturns == phase = "draining" ~> phase = "stopped"
=============================================================================

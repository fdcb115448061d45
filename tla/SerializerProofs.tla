-------------------------- MODULE SerializerProofs --------------------------
(***************************************************************************)
(* Safety of the serializer for every set of commands, every number of     *)
(* priorities and every mix of blocked and asynchronous commands.          *)
(***************************************************************************)
EXTENDS Serializer, ListsProofs, FiniteSetTheorems

\* The remove lock: is_running goes with the phase "up", the count is right,
\* and the event can only be set once nothing is queued any more.
Counting ==
  /\ is_running <=> phase = "up"
  /\ phase # "stopped" => refs = Cardinality(Queued) + (IF phase = "up" THEN 1 ELSE 0)
  /\ phase = "up" => ~zero
  /\ phase = "draining" /\ zero => Queued = {}
  /\ phase \in {"joining", "stopped"} => Queued = {}

Busy == {"queued", "waiting", "expired", "waiting2"}

\* Where a command is between its enqueue and its completion.
Lifecycle ==
  /\ \A c \in Queued : /\ cl[c] \in Busy \ {"waiting2"}
                       /\ live[c] /\ log[c] = <<>> /\ result[c] = "none"
  /\ \A c \in Cmd : cl[c] = "canceling" => c \notin Queued /\ log[c] = <<>>
  /\ th.pc \in {"run", "post"} =>
       /\ current \in Cmd \ Queued
       /\ cl[current] \in Busy
       /\ live[current] /\ result[current] = "none"
       /\ log[current] = IF th.pc = "run" THEN <<>> ELSE <<"run">>
  /\ th.pc = "clear" => current \in Cmd
  /\ th.pc \notin {"run", "post", "clear"} => current = NULL
  /\ phase = "stopped" => th.pc = "dead"

\* A queued command that the scan has already passed was enqueued behind it.
PassedIsNew ==
  th.pc = "scan" => \A c \in Queued : priority[c] > th.i => bypassed[c] = 0

IInv ==
  /\ TypeOK
  /\ QueuesCoherent
  /\ Counting
  /\ Lifecycle
  /\ CompletesOnce
  /\ PassedIsNew
  /\ BypassedAtMostOnce

-----------------------------------------------------------------------------
\* The highest and the lowest priority.
LEMMA PrioEnds == 0 \in Prio /\ NumPrio - 1 \in Prio
  BY ConstantsAssumption DEF Prio

\* Dropping a reference keeps the types.
LEMMA ReleaseType ==
  ASSUME TypeOK, RmlockRelease
  PROVE  refs' \in Int /\ zero' \in BOOLEAN
<1>1. refs' \in Int
  BY DEF TypeOK, RmlockRelease
<1>2. zero' \in BOOLEAN
  BY Zenon DEF RmlockRelease
<1> QED BY <1>1, <1>2

\* The steps that leave the lists alone keep them coherent.
LEMMA QueuesKept ==
  ASSUME QueuesCoherent, UNCHANGED <<commands, is_in_queue, priority>>
  PROVE  QueuesCoherent' /\ Queued' = Queued
  BY DEF QueuesCoherent, Queued

\* mtlk_serializer_enqueue adds one command to one list.
LEMMA EnqueueEffect ==
  ASSUME TypeOK, QueuesCoherent, NEW c \in Cmd, NEW p \in Prio, Enqueue(c, p)
  PROVE  QueuesCoherent' /\ Queued' = Queued \cup {c} /\ c \notin Queued
<1>1. /\ commands \in [Prio -> Seq(Cmd)] /\ is_in_queue \in [Cmd -> BOOLEAN]
      /\ priority \in [Cmd -> Prio] /\ ~is_in_queue[c]
      /\ commands' = [commands EXCEPT ![p] = Append(@, c)]
      /\ is_in_queue' = [is_in_queue EXCEPT ![c] = TRUE]
      /\ priority' = [priority EXCEPT ![c] = p]
  BY DEF TypeOK, Enqueue
<1>2. c \notin Elems(commands[p])
  BY <1>1 DEF QueuesCoherent
<1>3. /\ Elems(Append(commands[p], c)) = Elems(commands[p]) \cup {c}
      /\ Distinct(Append(commands[p], c))
  BY <1>1, <1>2, AppendElems DEF QueuesCoherent
<1>4. \A q \in Prio : Distinct(commands'[q])
  BY <1>1, <1>3 DEF QueuesCoherent
<1>5. ASSUME NEW d \in Cmd, NEW q \in Prio
      PROVE  d \in Elems(commands'[q]) <=> (is_in_queue'[d] /\ priority'[d] = q)
  <2>1. CASE d = c
    BY <1>1, <1>2, <1>3, <2>1 DEF QueuesCoherent
  <2>2. CASE d # c
    BY <1>1, <1>3, <2>2 DEF QueuesCoherent
  <2> QED BY <2>1, <2>2
<1>6. Queued' = Queued \cup {c} /\ c \notin Queued
  BY <1>1 DEF Queued
<1> QED BY <1>4, <1>5, <1>6 DEF QueuesCoherent

\* A command leaves the lists: t is the list of its priority without it.
LEMMA LeaveEffect ==
  ASSUME TypeOK, QueuesCoherent, NEW c \in Queued, NEW t,
         Distinct(t), Elems(t) = Elems(commands[priority[c]]) \ {c},
         commands' = [commands EXCEPT ![priority[c]] = t],
         is_in_queue' = [is_in_queue EXCEPT ![c] = FALSE],
         priority' = priority
  PROVE  QueuesCoherent' /\ Queued' = Queued \ {c}
<1>1. /\ commands \in [Prio -> Seq(Cmd)] /\ is_in_queue \in [Cmd -> BOOLEAN]
      /\ priority \in [Cmd -> Prio] /\ c \in Cmd /\ is_in_queue[c] /\ priority[c] \in Prio
  BY DEF TypeOK, Queued
<1>2. \A q \in Prio : Distinct(commands'[q])
  BY <1>1 DEF QueuesCoherent
<1>3. ASSUME NEW d \in Cmd, NEW q \in Prio
      PROVE  d \in Elems(commands'[q]) <=> (is_in_queue'[d] /\ priority'[d] = q)
  <2>1. CASE d = c
    BY <1>1, <2>1 DEF QueuesCoherent
  <2>2. CASE d # c
    BY <1>1, <2>2 DEF QueuesCoherent
  <2> QED BY <2>1, <2>2
<1>4. Queued' = Queued \ {c}
  BY <1>1 DEF Queued
<1> QED BY <1>2, <1>3, <1>4 DEF QueuesCoherent

\* mtlk_serializer_cancel of a queued command.
LEMMA TakeOutEffect ==
  ASSUME TypeOK, QueuesCoherent, NEW c \in Cmd, is_in_queue[c], TakeOut(c), priority' = priority
  PROVE  /\ QueuesCoherent' /\ c \in Queued /\ Queued' = Queued \ {c}
         /\ commands' \in [Prio -> Seq(Cmd)]
<1> DEFINE s == commands[priority[c]]
           t == DelKeep(s, Position(s, c))
<1>1. s \in Seq(Cmd) /\ Distinct(s) /\ c \in Elems(s) /\ c \in Queued
  BY DEF TypeOK, QueuesCoherent, Queued
<1>2. Position(s, c) \in DOMAIN s /\ s[Position(s, c)] = c
  BY <1>1, PositionFinds
<1>3. t \in Seq(Cmd) /\ Elems(t) = Elems(s) \ {c} /\ Distinct(t)
  BY <1>1, <1>2, DelKeepElems
<1>4. /\ commands' = [commands EXCEPT ![priority[c]] = t]
      /\ is_in_queue' = [is_in_queue EXCEPT ![c] = FALSE]
  BY DEF TakeOut
<1>5. commands' \in [Prio -> Seq(Cmd)]
  BY <1>3, <1>4 DEF TypeOK
<1> QED BY <1>1, <1>3, <1>4, <1>5, LeaveEffect

\* The thread takes the first command of the list it looks at.
LEMMA PopEffect ==
  ASSUME TypeOK, QueuesCoherent, ThreadPops
  PROVE  /\ QueuesCoherent' /\ current' \in Queued /\ Queued' = Queued \ {current'}
         /\ priority[current'] = th.i
         /\ commands' \in [Prio -> Seq(Cmd)]
<1> DEFINE s == commands[th.i]
           c == Head(s)
<1>1. s \in Seq(Cmd) /\ Distinct(s) /\ s # <<>> /\ th.i \in Prio
  BY DEF TypeOK, QueuesCoherent, ThreadPops
<1>2. /\ c \in Cmd /\ c \in Elems(s) /\ Tail(s) \in Seq(Cmd)
      /\ Elems(Tail(s)) = Elems(s) \ {c} /\ Distinct(Tail(s))
  BY <1>1, TailElems
<1>3. c \in Queued /\ priority[c] = th.i
  BY <1>1, <1>2 DEF QueuesCoherent, Queued
<1>4. /\ commands' = [commands EXCEPT ![priority[c]] = Tail(s)]
      /\ is_in_queue' = [is_in_queue EXCEPT ![c] = FALSE]
      /\ priority' = priority /\ current' = c
  BY <1>3 DEF ThreadPops
<1>5. commands' \in [Prio -> Seq(Cmd)]
  BY <1>1, <1>2, <1>4 DEF TypeOK
<1>6. QueuesCoherent' /\ Queued' = Queued \ {c}
  BY <1>2, <1>3, <1>4, LeaveEffect
<1> QED BY <1>3, <1>4, <1>5, <1>6

\* The counts that go with these changes.
LEMMA QueuedCount ==
  ASSUME TypeOK
  PROVE  /\ Cardinality(Queued) \in Nat
         /\ Cardinality(Queued) = 0 <=> Queued = {}
         /\ \A c \in Queued : Cardinality(Queued \ {c}) = Cardinality(Queued) - 1
         /\ \A c \in Cmd \ Queued : Cardinality(Queued \cup {c}) = Cardinality(Queued) + 1
<1>1. Queued \in SUBSET Cmd /\ IsFiniteSet(Queued)
  <2>1. Queued \in SUBSET Cmd
    BY DEF Queued
  <2> QED BY <2>1, ConstantsAssumption, FS_Subset
<1>2. /\ Cardinality(Queued) \in Nat
      /\ Cardinality(Queued) = 0 <=> Queued = {}
  BY <1>1, FS_CardinalityType, FS_EmptySet
<1>3. ASSUME NEW c \in Queued PROVE Cardinality(Queued \ {c}) = Cardinality(Queued) - 1
  BY <1>1, FS_RemoveElement
<1>4. ASSUME NEW c \in Cmd \ Queued
      PROVE  Cardinality(Queued \cup {c}) = Cardinality(Queued) + 1
  BY <1>1, FS_AddElement
<1> QED BY <1>2, <1>3, <1>4

-----------------------------------------------------------------------------
\* The invariant holds at the beginning.
LEMMA InitIInv == Init => IInv
<1> SUFFICES ASSUME Init PROVE IInv
  OBVIOUS
<1>1. 0 \in Prio
  BY PrioEnds
<1>2. TypeOK
  <2>1. commands \in [Prio -> Seq(Cmd)] /\ log \in [Cmd -> Seq({"run", "EXECUTED", "CANCELED"})]
    BY DEF Init
  <2>2. /\ is_in_queue \in [Cmd -> BOOLEAN] /\ priority \in [Cmd -> Prio]
        /\ refs \in Int /\ bypassed \in [Cmd -> Nat] /\ live \in [Cmd -> BOOLEAN]
    BY <1>1 DEF Init
  <2>3. th \in [pc : {"dead", "wait", "reset", "scan", "run", "post", "clear", "exit"}, i : Prio]
    BY <1>1 DEF Init
  <2>4. /\ cl \in [Cmd -> {"idle", "queued", "waiting", "expired", "canceling", "waiting2"}]
        /\ result \in [Cmd -> {"none", "EXECUTED", "CANCELED"}]
    BY DEF Init
  <2> QED BY <2>1, <2>2, <2>3, <2>4 DEF Init, TypeOK
<1>3. Queued = {} /\ \A p \in Prio : Elems(commands[p]) = {} /\ Distinct(commands[p])
  BY DEF Init, Queued, Elems, Distinct
<1>4. QueuesCoherent
  BY <1>3 DEF Init, QueuesCoherent
<1>5. Counting
  BY <1>3 DEF Init, Counting
<1>7. Lifecycle /\ PassedIsNew
  BY <1>2, <1>3 DEF Init, TypeOK, Lifecycle, PassedIsNew
<1>6. CompletesOnce /\ BypassedAtMostOnce
  BY DEF Init, CompletesOnce, BypassedAtMostOnce
<1> QED BY <1>2, <1>4, <1>5, <1>6, <1>7 DEF IInv

\* Every step of the system keeps the types.
LEMMA TypeStep ==
  ASSUME TypeOK, QueuesCoherent, Lifecycle, [Next]_vars
  PROVE  TypeOK'
<1> USE DEF TypeOK
<1>1. CASE Start
  <2>1. th' \in [pc : {"dead", "wait", "reset", "scan", "run", "post", "clear", "exit"}, i : Prio]
    BY <1>1, PrioEnds DEF Start
  <2>2. refs' \in Int /\ phase' \in {"stopped", "up", "draining", "joining"}
    BY <1>1 DEF Start
  <2>3. /\ zero' \in BOOLEAN /\ stop' \in BOOLEAN /\ new_event' \in BOOLEAN
        /\ is_running' \in BOOLEAN
    BY <1>1 DEF Start
  <2>4. UNCHANGED <<commands, is_in_queue, priority, current, bypassed, cl, result, live, log>>
    BY <1>1 DEF Start, client_vars
  <2> QED BY <2>1, <2>2, <2>3, <2>4
<1>2. CASE StopProcessing
  <2>1. refs' \in Int /\ zero' \in BOOLEAN
    BY <1>2, ReleaseType DEF StopProcessing
  <2> QED BY <1>2, <2>1 DEF StopProcessing, thread_vars, client_vars
<1>3. CASE OsdepStop
  BY <1>3 DEF OsdepStop, queue_vars, client_vars
<1>4. CASE Joined
  BY <1>4 DEF Joined, queue_vars, client_vars
<1>5. ASSUME NEW c \in Cmd, NEW p \in Prio, Enqueue(c, p) PROVE TypeOK'
  <2>1. commands' \in [Prio -> Seq(Cmd)]
    BY <1>5 DEF Enqueue
  <2>2. /\ is_in_queue' \in [Cmd -> BOOLEAN] /\ priority' \in [Cmd -> Prio]
        /\ refs' \in Int /\ bypassed' \in [Cmd -> Nat] /\ live' \in [Cmd -> BOOLEAN]
    BY <1>5 DEF Enqueue
  <2>3. cl' \in [Cmd -> {"idle", "queued", "waiting", "expired", "canceling", "waiting2"}]
    BY <1>5 DEF Enqueue
  <2>4. /\ result' \in [Cmd -> {"none", "EXECUTED", "CANCELED"}]
        /\ log' \in [Cmd -> Seq({"run", "EXECUTED", "CANCELED"})]
    BY <1>5 DEF Enqueue
  <2> QED BY <1>5, <2>1, <2>2, <2>3, <2>4 DEF Enqueue, thread_vars
<1>6. ASSUME NEW c \in Cmd, Cancel(c) PROVE TypeOK'
  <2>1. UNCHANGED <<priority, bypassed, is_running, new_event, phase, thread_vars, result, live, log>>
    BY <1>6 DEF Cancel
  <2>2. CASE is_in_queue[c]
    <3>1. TakeOut(c) /\ cl' = [cl EXCEPT ![c] = "canceling"]
      BY <1>6, <2>2 DEF Cancel
    <3>2. commands' \in [Prio -> Seq(Cmd)]
      BY <2>1, <2>2, <3>1, TakeOutEffect
    <3>3. refs' \in Int /\ zero' \in BOOLEAN
      BY <3>1, ReleaseType DEF TakeOut
    <3> QED BY <2>1, <3>1, <3>2, <3>3 DEF TakeOut, thread_vars
  <2>3. CASE ~is_in_queue[c]
    BY <1>6, <2>1, <2>3 DEF Cancel, thread_vars
  <2> QED BY <2>2, <2>3
<1>7. ASSUME NEW c \in Cmd, CancelCompletes(c) PROVE TypeOK'
  BY <1>7 DEF CancelCompletes, queue_vars, thread_vars
<1>8. ASSUME NEW c \in Cmd, TtlExpires(c) PROVE TypeOK'
  BY <1>8 DEF TtlExpires, queue_vars, thread_vars
<1>9. ASSUME NEW c \in Cmd, BlockedReturns(c) PROVE TypeOK'
  BY <1>9 DEF BlockedReturns, queue_vars, thread_vars
<1>10. CASE ThreadWakes
  BY <1>10 DEF ThreadWakes, queue_vars, client_vars
<1>11. CASE ThreadResets
  BY <1>11, PrioEnds DEF ThreadResets, queue_vars, client_vars
<1>12. CASE ThreadPops
  <2>1. commands' \in [Prio -> Seq(Cmd)] /\ current' \in Cmd
    BY <1>12, PopEffect DEF Queued
  <2>2. bypassed' \in [Cmd -> Nat]
    <3>1. bypassed' = [c \in Cmd |-> IF is_in_queue[c] /\ priority[c] > th.i
                                       THEN bypassed[c] + 1 ELSE bypassed[c]]
      BY <1>12 DEF ThreadPops
    <3>2. \A c \in Cmd : bypassed[c] \in Nat /\ bypassed[c] + 1 \in Nat
      OBVIOUS
    <3> QED BY <3>1, <3>2, Zenon
  <2>3. refs' \in Int /\ zero' \in BOOLEAN
    BY <1>12, ReleaseType DEF ThreadPops
  <2>4. is_in_queue' \in [Cmd -> BOOLEAN]
    BY <1>12 DEF ThreadPops
  <2> QED BY <1>12, <2>1, <2>2, <2>3, <2>4 DEF ThreadPops, client_vars
<1>13. CASE ThreadFindsNone
  <2>1. th.i > 0 => th.i - 1 \in Prio
    BY ConstantsAssumption DEF Prio
  <2>2. th' \in [pc : {"dead", "wait", "reset", "scan", "run", "post", "clear", "exit"}, i : Prio]
    BY <1>13, <2>1 DEF ThreadFindsNone
  <2> QED BY <1>13, <2>2 DEF ThreadFindsNone, queue_vars, client_vars
<1>14. CASE ThreadRuns
  <2>1. current \in Cmd
    BY <1>14 DEF ThreadRuns, Lifecycle
  <2>2. log' \in [Cmd -> Seq({"run", "EXECUTED", "CANCELED"})]
    BY <1>14, <2>1 DEF ThreadRuns
  <2> QED BY <1>14, <2>2 DEF ThreadRuns, queue_vars
<1>15. CASE ThreadCompletes
  <2>1. current \in Cmd
    BY <1>15 DEF ThreadCompletes, Lifecycle
  <2>2. log' \in [Cmd -> Seq({"run", "EXECUTED", "CANCELED"})]
    BY <1>15, <2>1 DEF ThreadCompletes, PostExec
  <2>3. /\ result' \in [Cmd -> {"none", "EXECUTED", "CANCELED"}]
        /\ live' \in [Cmd -> BOOLEAN]
    BY <1>15, <2>1 DEF ThreadCompletes, PostExec
  <2>4. cl' \in [Cmd -> {"idle", "queued", "waiting", "expired", "canceling", "waiting2"}]
    BY <1>15, <2>1 DEF ThreadCompletes
  <2> QED BY <1>15, <2>2, <2>3, <2>4 DEF ThreadCompletes, queue_vars
<1>16. CASE ThreadClears
  BY <1>16, PrioEnds DEF ThreadClears, queue_vars, client_vars
<1>17. CASE UNCHANGED vars
  BY <1>17 DEF vars
<1> QED BY <1>1, <1>2, <1>3, <1>4, <1>5, <1>6, <1>7, <1>8, <1>9, <1>10, <1>11, <1>12, <1>13,
           <1>14, <1>15, <1>16, <1>17 DEF Next, Thread, Client, Stopper

\* The release of the reference of a command that leaves its list.
LEMMA ReleaseCounts ==
  ASSUME TypeOK, Counting, NEW c \in Queued, Queued' = Queued \ {c}, RmlockRelease,
         UNCHANGED <<is_running, phase>>
  PROVE  Counting'
<1> DEFINE n == Cardinality(Queued)
<1>1. n \in Nat /\ n # 0 /\ Cardinality(Queued') = n - 1
  BY QueuedCount
<1>2. refs \in Int /\ phase \in {"stopped", "up", "draining", "joining"}
  BY DEF TypeOK
<1>3. phase \in {"up", "draining"} /\ (phase = "draining" => ~zero)
  BY <1>2 DEF Counting
<1>4. refs' = refs - 1 /\ (zero' <=> (zero \/ refs - 1 = 0))
  BY DEF RmlockRelease
<1>5. CASE phase = "up"
  <2>1. refs = n + 1 /\ ~zero
    BY <1>5 DEF Counting
  <2>2. refs' = n /\ ~zero'
    BY <1>1, <1>4, <2>1
  <2>3. refs' = Cardinality(Queued') + 1
    BY <1>1, <2>2
  <2> QED BY <1>5, <2>2, <2>3 DEF Counting
<1>6. CASE phase = "draining"
  <2>1. refs = n /\ ~zero
    BY <1>1, <1>3, <1>6 DEF Counting
  <2>2. refs' = Cardinality(Queued') /\ (zero' => Cardinality(Queued') = 0)
    BY <1>1, <1>4, <2>1
  <2>3. zero' => Queued' = {}
    <3>1. IsFiniteSet(Queued)
      <4>1. Queued \in SUBSET Cmd
        BY DEF Queued
      <4> QED BY <4>1, ConstantsAssumption, FS_Subset
    <3>2. IsFiniteSet(Queued')
      BY <3>1, FS_RemoveElement
    <3> QED BY <2>2, <3>2, FS_EmptySet
  <2>4. refs' = Cardinality(Queued') + 0
    BY <1>1, <2>2
  <2> QED BY <1>6, <2>3, <2>4 DEF Counting
<1> QED BY <1>3, <1>5, <1>6

\* The remove lock is right after every step.
LEMMA CountingStep ==
  ASSUME TypeOK, QueuesCoherent, Counting, [Next]_vars
  PROVE  QueuesCoherent' /\ Counting'
<1> DEFINE n == Cardinality(Queued)
<1>0. n \in Nat /\ refs \in Int /\ (n = 0 <=> Queued = {})
  BY QueuedCount DEF TypeOK
<1>1. CASE Start
  <2>1. QueuesCoherent' /\ Queued' = Queued /\ Queued = {} /\ n = 0
    BY <1>0, <1>1, QueuesKept DEF Start, Counting
  <2>2. refs' = Cardinality(Queued') + 1
    BY <1>1, <2>1 DEF Start
  <2> QED BY <1>1, <2>1, <2>2 DEF Start, Counting
<1>2. CASE StopProcessing
  <2>1. QueuesCoherent' /\ Queued' = Queued
    BY <1>2, QueuesKept DEF StopProcessing
  <2>2. refs = n + 1 /\ ~zero
    BY <1>2 DEF StopProcessing, Counting
  <2>3. refs' = refs - 1 /\ (zero' <=> (zero \/ refs - 1 = 0))
    BY <1>2 DEF StopProcessing, RmlockRelease
  <2>4. refs' = Cardinality(Queued') + 0 /\ (zero' => Queued' = {})
    BY <1>0, <2>1, <2>2, <2>3
  <2> QED BY <1>2, <2>1, <2>4 DEF StopProcessing, Counting
<1>3. CASE OsdepStop
  <2>1. QueuesCoherent' /\ Queued' = Queued
    BY <1>3, QueuesKept DEF OsdepStop, queue_vars
  <2> QED BY <1>3, <2>1 DEF OsdepStop, queue_vars, Counting
<1>4. CASE Joined
  <2>1. QueuesCoherent' /\ Queued' = Queued
    BY <1>4, QueuesKept DEF Joined, queue_vars
  <2> QED BY <1>4, <2>1 DEF Joined, queue_vars, Counting
<1>5. ASSUME NEW c \in Cmd, NEW p \in Prio, Enqueue(c, p) PROVE QueuesCoherent' /\ Counting'
  <2>1. QueuesCoherent' /\ Queued' = Queued \cup {c} /\ c \notin Queued
    BY <1>5, EnqueueEffect
  <2>2. Cardinality(Queued') = n + 1
    BY <2>1, QueuedCount
  <2>3. phase = "up" /\ refs = n + 1 /\ ~zero
    BY <1>5 DEF Enqueue, Counting
  <2>4. refs' = Cardinality(Queued') + 1
    BY <1>0, <1>5, <2>2, <2>3 DEF Enqueue
  <2> QED BY <1>5, <2>1, <2>3, <2>4 DEF Enqueue, Counting
<1>6. ASSUME NEW c \in Cmd, Cancel(c) PROVE QueuesCoherent' /\ Counting'
  <2>1. CASE is_in_queue[c]
    <3>1. TakeOut(c) /\ priority' = priority /\ UNCHANGED <<is_running, phase>>
      BY <1>6, <2>1 DEF Cancel
    <3>2. QueuesCoherent' /\ c \in Queued /\ Queued' = Queued \ {c}
      BY <2>1, <3>1, TakeOutEffect
    <3> QED BY <3>1, <3>2, ReleaseCounts DEF TakeOut
  <2>2. CASE ~is_in_queue[c]
    <3>1. UNCHANGED <<commands, is_in_queue, priority, refs, zero, is_running, phase>>
      BY <1>6, <2>2 DEF Cancel
    <3> QED BY <3>1, QueuesKept DEF Counting
  <2> QED BY <2>1, <2>2
<1>7. CASE ThreadPops
  BY <1>7, PopEffect, ReleaseCounts DEF ThreadPops
<1>8. CASE UNCHANGED <<queue_vars, is_running, phase>>
  BY <1>8, QueuesKept DEF queue_vars, Counting
<1>9. ASSUME NEW c \in Cmd, CancelCompletes(c) \/ TtlExpires(c) \/ BlockedReturns(c)
      PROVE  UNCHANGED <<queue_vars, is_running, phase>>
  BY <1>9 DEF CancelCompletes, TtlExpires, BlockedReturns
<1>10. ASSUME ThreadWakes \/ ThreadResets \/ ThreadFindsNone \/ ThreadRuns
              \/ ThreadCompletes \/ ThreadClears
       PROVE  UNCHANGED <<queue_vars, is_running, phase>>
  BY <1>10 DEF ThreadWakes, ThreadResets, ThreadFindsNone, ThreadRuns, ThreadCompletes, ThreadClears
<1>11. CASE UNCHANGED vars
  BY <1>8, <1>11 DEF vars, queue_vars
<1> QED BY <1>1, <1>2, <1>3, <1>4, <1>5, <1>6, <1>7, <1>8, <1>9, <1>10, <1>11
        DEF Next, Thread, Client, Stopper

\* Where the commands are, after every step.
LEMMA LifecycleStep ==
  ASSUME TypeOK, QueuesCoherent, Counting, Lifecycle, CompletesOnce, [Next]_vars
  PROVE  Lifecycle' /\ CompletesOnce'
<1> USE ConstantsAssumption DEF Busy
<1>0. /\ Queued \subseteq Cmd /\ current \in Cmd \cup {NULL}
      /\ cl \in [Cmd -> {"idle", "queued", "waiting", "expired", "canceling", "waiting2"}]
      /\ result \in [Cmd -> {"none", "EXECUTED", "CANCELED"}]
      /\ live \in [Cmd -> BOOLEAN]
      /\ log \in [Cmd -> Seq({"run", "EXECUTED", "CANCELED"})]
      /\ th \in [pc : {"dead", "wait", "reset", "scan", "run", "post", "clear", "exit"}, i : Prio]
  BY DEF TypeOK, Queued
<1>1. CASE Start
  <2>1. Queued' = Queued /\ th.pc = "dead"
    BY <1>1, QueuesKept DEF Start, Lifecycle
  <2> QED BY <1>0, <1>1, <2>1 DEF Start, client_vars, Lifecycle, CompletesOnce
<1>2. CASE StopProcessing
  <2>1. Queued' = Queued
    BY <1>2, QueuesKept DEF StopProcessing
  <2> QED BY <1>2, <2>1 DEF StopProcessing, thread_vars, client_vars, Lifecycle, CompletesOnce
<1>3. CASE OsdepStop
  <2>1. Queued' = Queued
    BY <1>3, QueuesKept DEF OsdepStop, queue_vars
  <2> QED BY <1>3, <2>1 DEF OsdepStop, client_vars, Lifecycle, CompletesOnce
<1>4. CASE Joined
  <2>1. Queued' = Queued /\ current = NULL /\ th'.pc = "dead"
    BY <1>0, <1>4, QueuesKept DEF Joined, queue_vars, Lifecycle
  <2> QED BY <1>4, <2>1 DEF Joined, client_vars, Lifecycle, CompletesOnce
<1>5. ASSUME NEW c \in Cmd, NEW p \in Prio, Enqueue(c, p) PROVE Lifecycle' /\ CompletesOnce'
  <2>1. Queued' = Queued \cup {c} /\ c \notin Queued
    BY <1>5, EnqueueEffect
  <2>2. th.pc \in {"run", "post"} => current # c
    BY <1>5 DEF Enqueue, Lifecycle
  <2>3. /\ cl'[c] \in {"queued", "waiting"} /\ live'[c] /\ log'[c] = <<>> /\ result'[c] = "none"
        /\ \A d \in Cmd \ {c} : /\ cl'[d] = cl[d] /\ live'[d] = live[d]
                                /\ log'[d] = log[d] /\ result'[d] = result[d]
        /\ th' = th /\ current' = current /\ phase' = phase
    BY <1>0, <1>5 DEF Enqueue, thread_vars
  <2>4. Lifecycle'
    BY <1>0, <2>1, <2>2, <2>3 DEF Lifecycle
  <2>5. CompletesOnce'
    BY <1>0, <2>3 DEF CompletesOnce
  <2> QED BY <2>4, <2>5
<1>6. ASSUME NEW c \in Cmd, Cancel(c) PROVE Lifecycle' /\ CompletesOnce'
  <2>0. UNCHANGED <<priority, phase, current, th, result, live, log>>
    BY <1>6 DEF Cancel, thread_vars
  <2>1. CASE is_in_queue[c]
    <3>1. TakeOut(c) /\ cl' = [cl EXCEPT ![c] = "canceling"]
      BY <1>6, <2>1 DEF Cancel
    <3>2. c \in Queued /\ Queued' = Queued \ {c}
      BY <2>0, <2>1, <3>1, TakeOutEffect
    <3>3. cl'[c] = "canceling" /\ \A d \in Cmd \ {c} : cl'[d] = cl[d]
      BY <1>0, <3>1
    <3>4. th.pc \in {"run", "post"} => current # c
      BY <3>2 DEF Lifecycle
    <3> QED BY <1>0, <2>0, <3>2, <3>3, <3>4 DEF Lifecycle, CompletesOnce
  <2>2. CASE ~is_in_queue[c]
    <3>1. /\ UNCHANGED <<commands, is_in_queue>>
          /\ cl' = [cl EXCEPT ![c] = IF c \in Sync THEN "waiting2" ELSE @]
          /\ cl[c] \in Busy /\ c \notin Queued
      BY <1>6, <2>2 DEF Cancel, Queued
    <3>2. Queued' = Queued
      BY <2>0, <3>1, QueuesKept
    <3>3. cl'[c] \in {cl[c], "waiting2"} /\ \A d \in Cmd \ {c} : cl'[d] = cl[d]
      BY <1>0, <3>1
    <3> QED BY <1>0, <2>0, <3>1, <3>2, <3>3 DEF Lifecycle, CompletesOnce
  <2> QED BY <2>1, <2>2
<1>7. ASSUME NEW c \in Cmd, CancelCompletes(c) PROVE Lifecycle' /\ CompletesOnce'
  <2>1. Queued' = Queued /\ UNCHANGED <<phase, current, th>>
    BY <1>7, QueuesKept DEF CancelCompletes, queue_vars, thread_vars
  <2>2. c \notin Queued /\ log[c] = <<>> /\ (th.pc \in {"run", "post"} => current # c)
    BY <1>0, <1>7 DEF CancelCompletes, Lifecycle
  <2>3. /\ cl'[c] = "idle" /\ log'[c] = Append(log[c], "CANCELED")
        /\ \A d \in Cmd \ {c} : /\ cl'[d] = cl[d] /\ live'[d] = live[d]
                                /\ log'[d] = log[d] /\ result'[d] = result[d]
    BY <1>0, <1>7 DEF CancelCompletes
  <2>4. log'[c] = <<"CANCELED">>
    BY <2>2, <2>3
  <2>5. Lifecycle'
    <3>1. /\ cl'[c] = "idle"
          /\ \A d \in Cmd \ {c} : /\ cl'[d] = cl[d] /\ live'[d] = live[d]
                                  /\ log'[d] = log[d] /\ result'[d] = result[d]
      BY <2>3
    <3>2. \A d \in Queued' : d \in Cmd \ {c}
      BY <2>1, <2>2 DEF Queued
    <3>3. \A d \in Queued' : /\ cl'[d] \in Busy \ {"waiting2"}
                              /\ live'[d] /\ log'[d] = <<>> /\ result'[d] = "none"
      BY <1>0, <2>1, <3>1, <3>2 DEF Lifecycle
    <3>4. \A d \in Cmd : cl'[d] = "canceling" => d \notin Queued' /\ log'[d] = <<>>
      BY <1>0, <2>1, <3>1 DEF Lifecycle
    <3>5. th'.pc \in {"run", "post"} =>
            /\ current' \in Cmd \ Queued'
            /\ cl'[current'] \in Busy
            /\ live'[current'] /\ result'[current'] = "none"
            /\ log'[current'] = IF th'.pc = "run" THEN <<>> ELSE <<"run">>
      BY <1>0, <2>1, <2>2, <3>1 DEF Lifecycle
    <3> QED BY <1>0, <2>1, <3>3, <3>4, <3>5 DEF Lifecycle
  <2>6. CompletesOnce'
    BY <1>0, <2>3, <2>4 DEF CompletesOnce
  <2> QED BY <2>5, <2>6
<1>8. ASSUME NEW c \in Cmd, TtlExpires(c) PROVE Lifecycle' /\ CompletesOnce'
  <2>1. Queued' = Queued /\ UNCHANGED <<phase, current, th, result, live, log>>
    BY <1>8, QueuesKept DEF TtlExpires, queue_vars, thread_vars
  <2>2. cl'[c] = "expired" /\ \A d \in Cmd \ {c} : cl'[d] = cl[d]
    BY <1>0, <1>8 DEF TtlExpires
  <2> QED BY <1>0, <2>1, <2>2 DEF Lifecycle, CompletesOnce
<1>9. ASSUME NEW c \in Cmd, BlockedReturns(c) PROVE Lifecycle' /\ CompletesOnce'
  <2>1. Queued' = Queued /\ UNCHANGED <<phase, current, th, result, log>>
    BY <1>9, QueuesKept DEF BlockedReturns, queue_vars, thread_vars
  <2>2. c \notin Queued /\ (th.pc \in {"run", "post"} => current # c)
    BY <1>0, <1>9 DEF BlockedReturns, Lifecycle
  <2>3. cl'[c] = "idle" /\ \A d \in Cmd \ {c} : cl'[d] = cl[d] /\ live'[d] = live[d]
    BY <1>0, <1>9 DEF BlockedReturns
  <2> QED BY <1>0, <2>1, <2>2, <2>3 DEF Lifecycle, CompletesOnce
<1>10. ASSUME ThreadWakes \/ ThreadResets \/ ThreadFindsNone
       PROVE  Lifecycle' /\ CompletesOnce'
  <2>1. Queued' = Queued /\ UNCHANGED <<phase, current, cl, result, live, log>>
    BY <1>10, QueuesKept
       DEF ThreadWakes, ThreadResets, ThreadFindsNone, queue_vars, client_vars
  <2>2. /\ th.pc \in {"wait", "reset", "scan"}
        /\ th'.pc \in {"wait", "reset", "scan", "exit"}
    BY <1>0, <1>10 DEF ThreadWakes, ThreadResets, ThreadFindsNone
  <2> QED BY <1>0, <2>1, <2>2 DEF Lifecycle, CompletesOnce
<1>11. CASE ThreadPops
  <2>1. /\ current' \in Queued /\ Queued' = Queued \ {current'}
        /\ UNCHANGED <<phase, cl, result, live, log>>
    BY <1>11, PopEffect DEF ThreadPops, client_vars
  <2>2. th'.pc = "run" /\ phase # "stopped"
    BY <1>0, <1>11 DEF ThreadPops, Lifecycle
  <2> QED BY <1>0, <2>1, <2>2 DEF Lifecycle, CompletesOnce
<1>12. CASE ThreadRuns
  <2>1. Queued' = Queued /\ UNCHANGED <<phase, current, cl, result, live>>
    BY <1>12, QueuesKept DEF ThreadRuns, queue_vars
  <2>2. current \in Cmd \ Queued /\ log[current] = <<>> /\ cl[current] # "canceling"
    BY <1>12 DEF ThreadRuns, Lifecycle
  <2>3. /\ th'.pc = "post" /\ th.pc = "run" /\ log'[current] = Append(log[current], "run")
        /\ \A d \in Cmd \ {current} : log'[d] = log[d]
    BY <1>0, <1>12, <2>2 DEF ThreadRuns
  <2>4. log'[current] = <<"run">>
    BY <2>2, <2>3
  <2>5. Lifecycle'
    BY <1>0, <2>1, <2>2, <2>3, <2>4 DEF Lifecycle
  <2>6. CompletesOnce'
    BY <1>0, <2>3, <2>4 DEF CompletesOnce
  <2> QED BY <2>5, <2>6
<1>13. CASE ThreadCompletes
  <2>1. Queued' = Queued /\ UNCHANGED <<phase, current>>
    BY <1>13, QueuesKept DEF ThreadCompletes, queue_vars
  <2>2. current \in Cmd \ Queued /\ log[current] = <<"run">> /\ cl[current] # "canceling"
    BY <1>13 DEF ThreadCompletes, Lifecycle
  <2>3. /\ th'.pc = "clear" /\ th.pc = "post"
        /\ log'[current] = Append(log[current], "EXECUTED")
        /\ cl'[current] \in {cl[current], "idle"}
        /\ \A d \in Cmd \ {current} : /\ log'[d] = log[d] /\ cl'[d] = cl[d]
                                      /\ live'[d] = live[d] /\ result'[d] = result[d]
    BY <1>0, <1>13, <2>2 DEF ThreadCompletes, PostExec
  <2>4. log'[current] = <<"run", "EXECUTED">>
    <3>1. Append(<<"run">>, "EXECUTED") = <<"run", "EXECUTED">>
      <4>1. "run" \in {"run", "EXECUTED"} /\ "EXECUTED" \in {"run", "EXECUTED"}
        OBVIOUS
      <4> QED BY <4>1, AppendToOne, Zenon
    <3> QED BY <2>2, <2>3, <3>1
  <2>5. Lifecycle'
    BY <1>0, <2>1, <2>2, <2>3 DEF Lifecycle
  <2>6. CompletesOnce'
    BY <1>0, <2>3, <2>4 DEF CompletesOnce
  <2> QED BY <2>5, <2>6
<1>14. CASE ThreadClears
  <2>1. Queued' = Queued /\ UNCHANGED <<phase, cl, result, live, log>>
    BY <1>14, QueuesKept DEF ThreadClears, queue_vars, client_vars
  <2>2. th'.pc = "scan" /\ current' = NULL /\ phase # "stopped"
    BY <1>0, <1>14 DEF ThreadClears, Lifecycle
  <2> QED BY <1>0, <2>1, <2>2 DEF Lifecycle, CompletesOnce
<1>15. CASE UNCHANGED vars
  <2>1. Queued' = Queued
    BY <1>15, QueuesKept DEF vars
  <2> QED BY <1>15, <2>1 DEF vars, Lifecycle, CompletesOnce
<1> QED BY <1>1, <1>2, <1>3, <1>4, <1>5, <1>6, <1>7, <1>8, <1>9, <1>10, <1>11, <1>12, <1>13,
           <1>14, <1>15 DEF Next, Thread, Client, Stopper

\* The scan never passes a queued command, and a command that was passed by
\* while it was not queued is passed at most once more.
LEMMA BypassStep ==
  ASSUME TypeOK, QueuesCoherent, PassedIsNew, BypassedAtMostOnce, [Next]_vars
  PROVE  PassedIsNew' /\ BypassedAtMostOnce'
<1>0. /\ Queued \subseteq Cmd /\ bypassed \in [Cmd -> Nat] /\ priority \in [Cmd -> Prio]
      /\ th \in [pc : {"dead", "wait", "reset", "scan", "run", "post", "clear", "exit"}, i : Prio]
  BY DEF TypeOK, Queued
<1>1. ASSUME NEW c \in Cmd, NEW p \in Prio, Enqueue(c, p)
      PROVE  PassedIsNew' /\ BypassedAtMostOnce'
  <2>1. Queued' = Queued \cup {c} /\ c \notin Queued
    BY <1>1, EnqueueEffect
  <2>2. /\ bypassed'[c] = 0 /\ th' = th
        /\ \A d \in Cmd \ {c} : bypassed'[d] = bypassed[d] /\ priority'[d] = priority[d]
    BY <1>0, <1>1 DEF Enqueue, thread_vars
  <2> QED BY <1>0, <2>1, <2>2 DEF PassedIsNew, BypassedAtMostOnce
<1>2. ASSUME NEW c \in Cmd, Cancel(c) PROVE PassedIsNew' /\ BypassedAtMostOnce'
  <2>1. UNCHANGED <<priority, bypassed, th>>
    BY <1>2 DEF Cancel, thread_vars
  <2>2. Queued' \subseteq Queued
    <3>1. CASE is_in_queue[c]
      BY <1>2, <2>1, <3>1, TakeOutEffect DEF Cancel
    <3>2. CASE ~is_in_queue[c]
      BY <1>2, <2>1, <3>2, QueuesKept DEF Cancel
    <3> QED BY <3>1, <3>2
  <2> QED BY <2>1, <2>2 DEF PassedIsNew, BypassedAtMostOnce
<1>3. CASE ThreadPops
  <2>1. th'.pc = "run" /\ th.pc = "scan"
    BY <1>0, <1>3 DEF ThreadPops
  <2>2. ASSUME NEW c \in Cmd PROVE bypassed'[c] <= 1
    <3>1. CASE c \in Queued /\ priority[c] > th.i
      <4>1. bypassed'[c] = bypassed[c] + 1 /\ bypassed[c] = 0
        BY <1>0, <1>3, <2>1, <3>1 DEF ThreadPops, Queued, PassedIsNew
      <4> QED BY <4>1
    <3>2. CASE ~(c \in Queued /\ priority[c] > th.i)
      <4>1. bypassed'[c] = bypassed[c]
        BY <1>0, <1>3, <3>2 DEF ThreadPops, Queued
      <4> QED BY <4>1 DEF BypassedAtMostOnce
    <3> QED BY <3>1, <3>2
  <2> QED BY <2>1, <2>2 DEF PassedIsNew, BypassedAtMostOnce
<1>4. CASE ThreadFindsNone
  <2>1. Queued' = Queued /\ UNCHANGED <<priority, bypassed>>
    BY <1>4, QueuesKept DEF ThreadFindsNone, queue_vars
  <2>2. \A c \in Queued : priority[c] # th.i
    BY <1>0, <1>4 DEF ThreadFindsNone, QueuesCoherent, Queued, Elems
  <2>3. th'.pc = "scan" => th.pc = "scan" /\ th'.i = th.i - 1
    BY <1>0, <1>4 DEF ThreadFindsNone
  <2>4. ASSUME th'.pc = "scan", NEW c \in Queued, priority[c] > th'.i PROVE bypassed[c] = 0
    <3>1. priority[c] \in Int /\ th.i \in Int
      BY <1>0, ConstantsAssumption DEF Prio
    <3>2. priority[c] > th.i
      BY <2>2, <2>3, <2>4, <3>1
    <3> QED BY <2>3, <2>4, <3>2 DEF PassedIsNew
  <2> QED BY <2>1, <2>4 DEF PassedIsNew, BypassedAtMostOnce
<1>5. ASSUME th' = [pc |-> "scan", i |-> NumPrio - 1], UNCHANGED queue_vars
      PROVE  PassedIsNew' /\ BypassedAtMostOnce'
  <2>1. Queued' = Queued /\ UNCHANGED <<priority, bypassed>>
    BY <1>5, QueuesKept DEF queue_vars
  <2>2. \A c \in Queued : ~(priority[c] > th'.i)
    BY <1>0, <1>5, ConstantsAssumption DEF Prio
  <2> QED BY <2>1, <2>2 DEF PassedIsNew, BypassedAtMostOnce
<1>6. ASSUME th'.pc # "scan" \/ th' = th,
             UNCHANGED <<commands, is_in_queue, priority, bypassed>>
      PROVE  PassedIsNew' /\ BypassedAtMostOnce'
  <2>1. Queued' = Queued
    BY <1>6, QueuesKept
  <2> QED BY <1>6, <2>1 DEF PassedIsNew, BypassedAtMostOnce
<1>7. ASSUME NEW c \in Cmd, CancelCompletes(c) \/ TtlExpires(c) \/ BlockedReturns(c)
      PROVE  PassedIsNew' /\ BypassedAtMostOnce'
  <2>1. UNCHANGED <<commands, is_in_queue, priority, bypassed, th>>
    BY <1>7 DEF CancelCompletes, TtlExpires, BlockedReturns, queue_vars, thread_vars
  <2> QED BY <1>6, <2>1
<1>8. ASSUME ThreadResets \/ ThreadClears PROVE PassedIsNew' /\ BypassedAtMostOnce'
  BY <1>5, <1>8 DEF ThreadResets, ThreadClears
<1>9. ASSUME ThreadWakes \/ ThreadRuns \/ ThreadCompletes \/ Start \/ Stopper
      PROVE  PassedIsNew' /\ BypassedAtMostOnce'
  <2>1. UNCHANGED <<commands, is_in_queue, priority, bypassed>>
    BY <1>9 DEF ThreadWakes, ThreadRuns, ThreadCompletes, Start, Stopper, StopProcessing,
                OsdepStop, Joined, queue_vars
  <2>2. th'.pc # "scan" \/ th' = th
    BY <1>0, <1>9 DEF ThreadWakes, ThreadRuns, ThreadCompletes, Start, Stopper, StopProcessing,
                OsdepStop, Joined, thread_vars
  <2> QED BY <1>6, <2>1, <2>2
<1>10. CASE UNCHANGED vars
  BY <1>6, <1>10 DEF vars
<1> QED BY <1>1, <1>2, <1>3, <1>4, <1>7, <1>8, <1>9, <1>10 DEF Next, Thread, Client

-----------------------------------------------------------------------------
\* The invariant is inductive, and so it always holds.
THEOREM Invariance == Spec => []IInv
<1>1. Init => IInv
  BY InitIInv
<1>2. IInv /\ [Next]_vars => IInv'
  <2> SUFFICES ASSUME IInv, [Next]_vars PROVE IInv'
    OBVIOUS
  <2>1. TypeOK /\ QueuesCoherent /\ Counting /\ Lifecycle /\ CompletesOnce /\ PassedIsNew
        /\ BypassedAtMostOnce
    BY DEF IInv
  <2>2. TypeOK'
    BY <2>1, TypeStep
  <2>3. QueuesCoherent' /\ Counting'
    BY <2>1, CountingStep
  <2>4. Lifecycle' /\ CompletesOnce'
    BY <2>1, LifecycleStep
  <2>5. PassedIsNew' /\ BypassedAtMostOnce'
    BY <2>1, BypassStep
  <2> QED BY <2>2, <2>3, <2>4, <2>5 DEF IInv
<1> QED BY <1>1, <1>2, PTL DEF Spec

\* Type correctness of the serializer's state.
THEOREM TypeCorrect == Spec => []TypeOK
<1>1. IInv => TypeOK
  BY DEF IInv
<1> QED BY <1>1, Invariance, PTL

\* mtlk_serializer_stop can neither go on early nor miss its event: the remove
\* lock counts exactly the commands that are in the lists.
THEOREM PendingAlwaysCounted == Spec => []PendingCounted
<1>1. IInv => PendingCounted
  BY DEF IInv, Counting, PendingCounted
<1> QED BY <1>1, Invariance, PTL

\* Cancellation, timeout and thread never both complete a command.
THEOREM AlwaysCompletesOnce == Spec => []CompletesOnce
<1>1. IInv => CompletesOnce
  BY DEF IInv
<1> QED BY <1>1, Invariance, PTL

\* The thread and the lists only hold commands whose memory is still theirs,
\* although execute_blocked keeps the command on its stack.
THEOREM CommandAlwaysAlive == Spec => []CommandAlive
<1>1. IInv => CommandAlive
  <2> SUFFICES ASSUME IInv PROVE CommandAlive
    OBVIOUS
  <2>1. ASSUME NEW p \in Prio, NEW c \in Elems(commands[p]) PROVE live[c]
    <3>1. c \in Cmd
      BY Domain DEF IInv, TypeOK
    <3>2. c \in Queued
      BY <3>1 DEF IInv, QueuesCoherent, Queued
    <3> QED BY <3>2 DEF IInv, Lifecycle
  <2>2. th.pc \in {"run", "post"} => live[current]
    BY DEF IInv, Lifecycle
  <2> QED BY <2>1, <2>2 DEF CommandAlive
<1> QED BY <1>1, Invariance, PTL

\* Priority inversion by process_commands is bounded by one command.
THEOREM AlwaysBypassedAtMostOnce == Spec => []BypassedAtMostOnce
<1>1. IInv => BypassedAtMostOnce
  BY DEF IInv
<1> QED BY <1>1, Invariance, PTL

\* mtlk_serializer_stop ends the thread with empty lists and returns with
\* nothing in execution.
THEOREM StopAlwaysDrains == Spec => []StopDrains
<1>1. IInv => StopDrains
  <2> SUFFICES ASSUME IInv PROVE StopDrains
    OBVIOUS
  <2>1. ASSUME phase \in {"joining", "stopped"}, NEW p \in Prio PROVE commands[p] = <<>>
    <3>1. Queued = {}
      BY <2>1 DEF IInv, Counting
    <3>2. commands[p] \in Seq(Cmd)
      BY DEF IInv, TypeOK
    <3>3. Elems(commands[p]) = {}
      BY <3>1, <3>2, Domain DEF IInv, QueuesCoherent, Queued
    <3>4. ASSUME commands[p] # <<>> PROVE FALSE
      <4>1. 1 \in DOMAIN commands[p]
        BY <3>2, <3>4
      <4> QED BY <3>3, <4>1 DEF Elems
    <3> QED BY <3>4
  <2>2. phase = "stopped" => current = NULL /\ th.pc = "dead"
    BY DEF IInv, Lifecycle
  <2> QED BY <2>1, <2>2 DEF StopDrains
<1> QED BY <1>1, Invariance, PTL
=============================================================================

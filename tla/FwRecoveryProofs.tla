-------------------------- MODULE FwRecoveryProofs --------------------------
(***************************************************************************)
(* Safety of the firmware recovery, for every number of VAPs.              *)
(***************************************************************************)
EXTENDS FwRecovery, ListsProofs

-----------------------------------------------------------------------------
(***************************************************************************)
(* The invariant counts the units of the two semaphores.  An attempt is    *)
(* scheduled (its task waits in the serializer of the master), syncs,      *)
(* rebuilds, releases and finishes.  A slave is pending until it has       *)
(* reported to slave_sync in this attempt.  It may be late: when the next  *)
(* attempt begins, it may still be on its way to, or asleep on, slave_rlse *)
(* in the task of the one before.                                          *)
(***************************************************************************)
MasterAt == rcPc[MasterVap]

Scheduled == "recovery" \in Elems(emergency[MasterVap])

Syncing == MasterAt \in {"sync", "sync_wait"}

Attempt == Scheduled \/ Syncing \/ Rebuilding \/ MasterAt \in {"release", "finish"}

Unreported == {v \in Slaves : emergency[v] # <<>> \/ rcPc[v] = "up"}

AtDown == {v \in Slaves : rcPc[v] = "down"}

\* The units that the master has still to take from slave_sync; one is left
\* there between the attempts.
ToSync == IF Scheduled THEN Cardinality(Vap) ELSE IF Syncing THEN rcLeft ELSE 1

\* The units that the master has still to give to slave_rlse.
Owed ==
  IF Scheduled \/ Syncing \/ Rebuilding THEN Cardinality(Vap)
  ELSE IF MasterAt = "release" THEN rcLeft ELSE 0

\* At most one recovery task is in a queue of tasks.
OneRecovery(e) == \A i, j \in DOMAIN e : e[i] = "recovery" /\ e[j] = "recovery" => i = j

MasterInv ==
  /\ Scheduled => MasterAt \in {"idle", "fatal", "on_error"}
  /\ OneRecovery(emergency[MasterVap])
  /\ MasterAt \notin {"up", "down", "wait"}

SlaveInv ==
  \A v \in Slaves :
    /\ emergency[v] \in {<<>>, <<"recovery">>}
    /\ rcPc[v] \in {"idle", "up", "down", "wait"}
    /\ rcPc[v] = "up" => emergency[v] = <<>>
    /\ v \in Unreported => Scheduled \/ Syncing

\* Only the master sleeps on slave_sync.
SyncInv ==
  /\ \/ rcSync.q = <<>>
     \/ rcSync.q = <<MasterVap>> /\ MasterAt = "sync_wait" /\ rcSync.n = 0
  /\ rcSync.n - Len(rcSync.q) = ToSync - Cardinality(Unreported)

\* Only slaves sleep on slave_rlse.
RlseInv ==
  /\ Distinct(rcRlse.q)
  /\ \A v \in Elems(rcRlse.q) : v \in Slaves /\ rcPc[v] = "wait"
  /\ rcRlse.q # <<>> => rcRlse.n = 0
  /\ rcRlse.n - Len(rcRlse.q) = Cardinality(AtDown) + Cardinality(Unreported) + 1 - Owed

\* The table of VAPs outlives a failed attempt, and says which VAPs were
\* connected when the first one was initiated.
InfoInv ==
  /\ Attempt => rc.type \in {"FAST", "FULL"} /\ rcInfo # NoInfo
  /\ rc.error => rcInfo # NoInfo
  /\ rcInfo # NoInfo => \A v \in Vap : rcInfo[v] <=> v \in rcWas

TaskInv == MasterInv /\ SlaveInv /\ SyncInv /\ RlseInv

RcvryInv == RcvryTypeOK /\ TaskInv /\ InfoInv /\ RcvryRestores

-----------------------------------------------------------------------------
(***************************************************************************)
(* Tasks, semaphores and types.                                            *)
(***************************************************************************)
Task == {"recovery", "fatal"}

\* Where the task of a serializer may be.
AnyPlace == {"idle", "sync", "sync_wait", "isolate", "restore", "configure", "finalize", "release",
             "finish", "on_error", "up", "down", "wait", "fatal"}

\* A task is queued.
LEMMA TaskQueued ==
  ASSUME NEW e \in Seq(Task), NEW x \in Task, OneRecovery(e),
         x # "recovery" \/ "recovery" \notin Elems(e)
  PROVE  /\ Append(e, x) \in Seq(Task) /\ OneRecovery(Append(e, x))
         /\ Elems(Append(e, x)) = Elems(e) \cup {x}
<1>1. Append(e, x) \in Seq(Task) /\ Elems(Append(e, x)) = Elems(e) \cup {x}
  BY AppendElems
<1>2. /\ \A i \in 1 .. Len(e) : Append(e, x)[i] = e[i]
      /\ Append(e, x)[Len(e) + 1] = x
      /\ DOMAIN Append(e, x) = 1 .. Len(e) + 1 /\ DOMAIN e = 1 .. Len(e) /\ Len(e) \in Nat
  OBVIOUS
<1>3. \A i \in DOMAIN e : e[i] \in Elems(e)
  BY DEF Elems
<1>4. PICK t : t = Append(e, x)
  OBVIOUS
<1>5. OneRecovery(t)
  <2> SUFFICES ASSUME NEW i \in DOMAIN t, NEW j \in DOMAIN t, t[i] = "recovery", t[j] = "recovery"
               PROVE  i = j
    BY DEF OneRecovery
  <2> QED BY <1>2, <1>3, <1>4 DEF OneRecovery
<1> QED BY <1>1, <1>4, <1>5

\* A task is taken.
LEMMA TaskTaken ==
  ASSUME NEW e \in Seq(Task), e # <<>>, OneRecovery(e)
  PROVE  /\ Tail(e) \in Seq(Task) /\ OneRecovery(Tail(e)) /\ Head(e) \in Task
         /\ Head(e) = "recovery" => "recovery" \in Elems(e) /\ "recovery" \notin Elems(Tail(e))
         /\ Head(e) # "recovery" => ("recovery" \in Elems(Tail(e)) <=> "recovery" \in Elems(e))
<1>1. PICK t : t = Tail(e)
  OBVIOUS
<1>2. /\ \A i \in 1 .. Len(e) - 1 : t[i] = e[i + 1]
      /\ DOMAIN t = 1 .. Len(e) - 1 /\ DOMAIN e = 1 .. Len(e) /\ Len(e) \in Nat /\ Len(e) > 0
      /\ Head(e) = e[1] /\ Head(e) \in Task /\ t \in Seq(Task)
  BY <1>1
<1>3. OneRecovery(t)
  <2> SUFFICES ASSUME NEW i \in DOMAIN t, NEW j \in DOMAIN t, t[i] = "recovery", t[j] = "recovery"
               PROVE  i = j
    BY DEF OneRecovery
  <2>1. e[i + 1] = "recovery" /\ e[j + 1] = "recovery" /\ i + 1 \in DOMAIN e /\ j + 1 \in DOMAIN e
    BY <1>2
  <2>2. i + 1 = j + 1
    BY <2>1 DEF OneRecovery
  <2> QED BY <1>2, <2>2
<1>4. "recovery" \in Elems(t) <=> \E i \in DOMAIN e \ {1} : e[i] = "recovery"
  <2>1. ASSUME NEW i \in DOMAIN e \ {1}, e[i] = "recovery" PROVE "recovery" \in Elems(t)
    <3>1. i - 1 \in DOMAIN t /\ t[i - 1] = e[i]
      BY <1>2
    <3> QED BY <2>1, <3>1 DEF Elems
  <2>2. ASSUME NEW i \in DOMAIN t, t[i] = "recovery" PROVE \E k \in DOMAIN e \ {1} : e[k] = "recovery"
    <3>1. i + 1 \in DOMAIN e \ {1} /\ e[i + 1] = "recovery"
      BY <1>2, <2>2
    <3> QED BY <3>1
  <2> QED BY <2>1, <2>2 DEF Elems
<1>5. 1 \in DOMAIN e
  BY <1>2
<1>6. Head(e) = "recovery" => "recovery" \in Elems(e) /\ "recovery" \notin Elems(t)
  BY <1>2, <1>4, <1>5 DEF Elems, OneRecovery
<1>7. Head(e) # "recovery" => ("recovery" \in Elems(t) <=> "recovery" \in Elems(e))
  BY <1>2, <1>4, <1>5 DEF Elems
<1> QED BY <1>1, <1>2, <1>3, <1>6, <1>7

\* mtlk_osal_mutex_release adds a unit or wakes the first sleeper.
LEMMA SemUpEffect ==
  ASSUME NEW s \in [n : Nat, q : Seq(Vap)], s.q # <<>> => s.n = 0, Distinct(s.q)
  PROVE  /\ SemUp(s) \in [n : Nat, q : Seq(Vap)]
         /\ SemUp(s).n - Len(SemUp(s).q) = s.n - Len(s.q) + 1
         /\ SemUp(s).q # <<>> => SemUp(s).n = 0
         /\ Distinct(SemUp(s).q) /\ Elems(SemUp(s).q) \subseteq Elems(s.q)
<1>1. CASE s.q = <<>>
  <2>1. SemUp(s) = [s EXCEPT !.n = @ + 1]
    BY <1>1 DEF SemUp
  <2> QED BY <1>1, <2>1
<1>2. CASE s.q # <<>>
  <2>1. SemUp(s) = [s EXCEPT !.q = Tail(@)]
    BY <1>2 DEF SemUp
  <2>2. /\ Tail(s.q) \in Seq(Vap) /\ Elems(Tail(s.q)) \subseteq Elems(s.q) /\ Distinct(Tail(s.q))
    BY <1>2, TailElems
  <2>3. Len(Tail(s.q)) = Len(s.q) - 1 /\ Len(s.q) \in Nat /\ s.n = 0
    BY <1>2
  <2>4. PICK t \in Seq(Vap) : t = Tail(s.q)
    BY <2>2
  <2>5. SemUp(s).n = 0 /\ SemUp(s).q = t /\ SemUp(s) \in [n : Nat, q : Seq(Vap)]
    BY <2>1, <2>3, <2>4
  <2> QED BY <2>2, <2>3, <2>4, <2>5
<1> QED BY <1>1, <1>2

\* mtlk_osal_mutex_acquire takes a unit or sleeps.
LEMMA SemDownEffect ==
  ASSUME NEW s \in [n : Nat, q : Seq(Vap)], s.q # <<>> => s.n = 0, Distinct(s.q), NEW v \in Vap,
         v \notin Elems(s.q)
  PROVE  /\ SemDown(s, v) \in [n : Nat, q : Seq(Vap)]
         /\ SemDown(s, v).n - Len(SemDown(s, v).q) = s.n - Len(s.q) - 1
         /\ SemDown(s, v).q # <<>> => SemDown(s, v).n = 0
         /\ Distinct(SemDown(s, v).q)
         /\ s.n > 0 => SemDown(s, v).q = s.q
         /\ s.n = 0 => SemDown(s, v).q = Append(s.q, v)
         /\ s.n = 0 => Elems(SemDown(s, v).q) = Elems(s.q) \cup {v}
<1>1. CASE s.n > 0
  <2>1. SemDown(s, v) = [s EXCEPT !.n = @ - 1]
    BY <1>1 DEF SemDown
  <2> QED BY <1>1, <2>1
<1>2. CASE s.n = 0
  <2>1. SemDown(s, v) = [s EXCEPT !.q = Append(@, v)]
    BY <1>2 DEF SemDown
  <2>2. /\ Append(s.q, v) \in Seq(Vap) /\ Elems(Append(s.q, v)) = Elems(s.q) \cup {v}
        /\ Distinct(Append(s.q, v))
    BY AppendElems
  <2>3. Len(Append(s.q, v)) = Len(s.q) + 1 /\ Len(s.q) \in Nat
    OBVIOUS
  <2>4. PICK t \in Seq(Vap) : t = Append(s.q, v)
    BY <2>2
  <2>5. /\ SemDown(s, v).n = 0 /\ SemDown(s, v).q = t
        /\ SemDown(s, v) \in [n : Nat, q : Seq(Vap)]
    BY <1>2, <2>1, <2>4
  <2> QED BY <1>2, <2>2, <2>3, <2>4, <2>5
<1> QED BY <1>1, <1>2

\* The slaves are finitely many, one less than the VAPs.
LEMMA Counts ==
  /\ Cardinality(Vap) \in Nat /\ Cardinality(Vap) > 0 /\ IsFiniteSet(Slaves)
  /\ Cardinality(Slaves) = Cardinality(Vap) - 1
  /\ IsFiniteSet(Unreported) /\ Cardinality(Unreported) \in Nat
  /\ IsFiniteSet(AtDown) /\ Cardinality(AtDown) \in Nat
  /\ Cardinality({}) = 0
<1>1. Unreported \subseteq Slaves /\ AtDown \subseteq Slaves /\ Slaves \subseteq Vap
  BY DEF Unreported, AtDown, Slaves
<1>2. IsFiniteSet(Vap) /\ MasterVap \in Vap
  BY RcvryConstants
<1>3. IsFiniteSet(Slaves) /\ Cardinality(Slaves) = Cardinality(Vap) - 1
  BY <1>2, FS_RemoveElement DEF Slaves
<1>4. Cardinality(Vap) \in Nat /\ Cardinality(Slaves) \in Nat
  BY <1>2, <1>3, FS_CardinalityType
<1>5. Cardinality(Vap) > 0
  BY <1>3, <1>4
<1>6. IsFiniteSet(Unreported) /\ IsFiniteSet(AtDown)
  BY <1>1, <1>3, FS_Subset
<1> QED BY <1>3, <1>4, <1>5, <1>6, FS_CardinalityType, FS_EmptySet

\* The parts of the type invariant.
LEMMA RcvryTypes ==
  ASSUME RcvryTypeOK
  PROVE  /\ rcSync \in [n : Nat, q : Seq(Vap)] /\ rcRlse \in [n : Nat, q : Seq(Vap)]
         /\ emergency \in [Vap -> Seq(Task)] /\ rcLeft \in Nat /\ rcLeft <= Cardinality(Vap)
         /\ rcPc \in [Vap -> AnyPlace]
         /\ MasterVap \in Vap /\ MasterVap \notin Slaves /\ Slaves \subseteq Vap
         /\ rcInfo # NoInfo => rcInfo \in [Vap -> BOOLEAN] /\ DOMAIN rcInfo = Vap
         /\ Cardinality(DOMAIN rcInfo) \in 0 .. Cardinality(Vap)
<1>1. MasterVap \in Vap /\ MasterVap \notin Slaves /\ Slaves \subseteq Vap
  BY RcvryConstants DEF Slaves
<1>2. DOMAIN NoInfo = {}
  BY DEF NoInfo
<1>3. rcInfo # NoInfo => rcInfo \in [Vap -> BOOLEAN] /\ DOMAIN rcInfo = Vap
  BY DEF RcvryTypeOK
<1>4. Cardinality(DOMAIN rcInfo) \in 0 .. Cardinality(Vap)
  BY <1>2, <1>3, Counts
<1>5. rcLeft \in Nat /\ rcLeft <= Cardinality(Vap)
  BY Counts DEF RcvryTypeOK
<1> QED BY <1>1, <1>3, <1>4, <1>5 DEF RcvryTypeOK, Task, AnyPlace

-----------------------------------------------------------------------------
(***************************************************************************)
(* What the counts say.                                                    *)
(***************************************************************************)

\* Outside an attempt every slave has reported, and slave_rlse has a unit for
\* each slave that is late and one for rcvry_initiate.
LEMMA BetweenAttempts ==
  ASSUME RcvryTypeOK, TaskInv, ~Attempt
  PROVE  /\ Unreported = {} /\ rcRlse.n > 0 /\ rcRlse.q = <<>>
         /\ rcRlse.n = Cardinality(AtDown) + 1
         /\ rcSync.q = <<>> /\ rcSync.n = 1
<1>1. ~Scheduled /\ ~Syncing /\ ~Rebuilding /\ MasterAt # "release" /\ MasterAt # "sync_wait"
  BY DEF Attempt, Syncing
<1>2. Unreported = {}
  BY <1>1 DEF TaskInv, SlaveInv, Unreported
<1>3. Owed = 0 /\ ToSync = 1
  BY <1>1 DEF Owed, ToSync
<1>4. rcRlse.n \in Nat /\ Len(rcRlse.q) \in Nat /\ rcSync.n \in Nat
  BY RcvryTypes
<1>5. rcRlse.n - Len(rcRlse.q) = Cardinality(AtDown) + 1 /\ rcSync.n - Len(rcSync.q) = 1
  BY <1>2, <1>3, Counts DEF TaskInv, RlseInv, SyncInv
<1>6. rcRlse.n > 0
  BY <1>4, <1>5, Counts
<1>7. rcRlse.q = <<>> /\ rcSync.q = <<>>
  BY <1>1, <1>6 DEF TaskInv, RlseInv, SyncInv
<1>8. Len(<<>>) = 0
  OBVIOUS
<1> QED BY <1>2, <1>4, <1>5, <1>6, <1>7, <1>8, Counts

\* While the master rebuilds, as many slaves sleep on slave_rlse as are not on
\* their way to it: all of them.
LEMMA Alone ==
  ASSUME RcvryTypeOK, TaskInv, Rebuilding
  PROVE  \A v \in Slaves : rcPc[v] \in {"down", "wait"}
<1>1. ~Scheduled /\ ~Syncing
  BY DEF TaskInv, MasterInv, Rebuilding, MasterAt, Syncing
<1>2. Unreported = {} /\ Owed = Cardinality(Vap)
  BY <1>1 DEF TaskInv, SlaveInv, Unreported, Owed
<1> DEFINE E == Elems(rcRlse.q)
           R == Slaves \ AtDown
<1>3. Cardinality(E) = Len(rcRlse.q) /\ E \subseteq R /\ rcRlse.n \in Nat /\ Len(rcRlse.q) \in Nat
  <2>1. rcRlse.q \in Seq(Vap) /\ Distinct(rcRlse.q) /\ rcRlse.n \in Nat /\ Len(rcRlse.q) \in Nat
    BY RcvryTypes DEF TaskInv, RlseInv
  <2>2. \A v \in E : v \in Slaves /\ rcPc[v] = "wait"
    BY DEF TaskInv, RlseInv
  <2>3. Cardinality(E) = Len(rcRlse.q)
    BY <2>1, LengthIsCardinality
  <2> QED BY <2>1, <2>2, <2>3 DEF AtDown
<1>4. IsFiniteSet(R) /\ Cardinality(R) = Cardinality(Vap) - 1 - Cardinality(AtDown)
  <2>1. AtDown \subseteq Slaves /\ IsFiniteSet(Slaves) /\ IsFiniteSet(AtDown)
    BY Counts DEF AtDown
  <2>2. Slaves \cap AtDown = AtDown
    BY <2>1
  <2>3. IsFiniteSet(R) /\ Cardinality(R) = Cardinality(Slaves) - Cardinality(Slaves \cap AtDown)
    BY <2>1, FS_Difference
  <2> QED BY <2>2, <2>3, Counts
<1>5. rcRlse.n - Len(rcRlse.q) = Cardinality(AtDown) + 1 - Cardinality(Vap)
  BY <1>2, Counts DEF TaskInv, RlseInv
<1> HIDE DEF E, R
<1>6. IsFiniteSet(E) /\ Cardinality(E) <= Cardinality(R) /\ (Cardinality(R) = Cardinality(E) => E = R)
  BY <1>3, <1>4, FS_Subset
<1>7. E = R
  BY <1>3, <1>4, <1>5, <1>6, Counts
<1> QED BY <1>7 DEF TaskInv, RlseInv, AtDown, E, R

\* A step that leaves the semaphores and the slaves alone.
LEMMA TasksKept ==
  ASSUME TaskInv, UNCHANGED <<rcSync, rcRlse>>, MasterInv', ToSync' = ToSync, Owed' = Owed,
         \A v \in Slaves : emergency'[v] = emergency[v] /\ rcPc'[v] = rcPc[v],
         Scheduled \/ Syncing => (Scheduled \/ Syncing)',
         rcSync.q # <<>> => MasterAt' = "sync_wait"
  PROVE  TaskInv'
<1>1. Unreported' = Unreported /\ AtDown' = AtDown
  BY DEF Unreported, AtDown
<1>2. SlaveInv'
  BY <1>1 DEF TaskInv, SlaveInv
<1>3. SyncInv'
  BY <1>1 DEF TaskInv, SyncInv
<1>4. RlseInv'
  BY <1>1 DEF TaskInv, RlseInv
<1> QED BY <1>2, <1>3, <1>4 DEF TaskInv

\* Rcvry_initiate takes the unit between the attempts and gives every
\* serializer its task.
LEMMA TasksScheduled ==
  ASSUME RcvryTypeOK, TaskInv, ~Attempt, UNCHANGED rcSync,
         rcRlse' = [rcRlse EXCEPT !.n = @ - 1],
         emergency' = [v \in Vap |-> Append(emergency[v], "recovery")],
         \A v \in Slaves : rcPc'[v] = rcPc[v],
         MasterAt' \in {"idle", "fatal", "on_error"}
  PROVE  TaskInv' /\ Scheduled' /\ rcRlse' \in [n : Nat, q : Seq(Vap)]
         /\ emergency' \in [Vap -> Seq(Task)]
<1>0. /\ Unreported = {} /\ rcRlse.n > 0 /\ rcRlse.q = <<>> /\ rcRlse.n = Cardinality(AtDown) + 1
      /\ rcSync.q = <<>> /\ rcSync.n = 1 /\ ~Scheduled
  BY BetweenAttempts DEF Attempt
<1>1. emergency \in [Vap -> Seq(Task)] /\ MasterVap \in Vap /\ Slaves \subseteq Vap
      /\ rcRlse \in [n : Nat, q : Seq(Vap)] /\ "recovery" \in Task
  BY RcvryTypes DEF Task
<1>2. /\ emergency'[MasterVap] = Append(emergency[MasterVap], "recovery")
      /\ \A v \in Slaves : emergency'[v] = Append(emergency[v], "recovery")
  BY <1>1
<1>3. OneRecovery(emergency'[MasterVap]) /\ Scheduled'
  <2>1. emergency[MasterVap] \in Seq(Task) /\ OneRecovery(emergency[MasterVap])
    BY <1>1 DEF TaskInv, MasterInv
  <2> QED BY <1>0, <1>1, <1>2, <2>1, TaskQueued DEF Scheduled
<1>4. MasterInv'
  BY <1>3 DEF MasterInv
<1>5. \A v \in Slaves : emergency'[v] = <<"recovery">> /\ rcPc[v] # "up" /\ emergency'[v] # <<>>
  <2> SUFFICES ASSUME NEW v \in Slaves
               PROVE  emergency'[v] = <<"recovery">> /\ rcPc[v] # "up" /\ emergency'[v] # <<>>
    OBVIOUS
  <2>1. emergency[v] = <<>> /\ rcPc[v] # "up"
    BY <1>0 DEF Unreported
  <2>2. Append(<<>>, "recovery") = <<"recovery">> /\ <<"recovery">> # <<>>
    OBVIOUS
  <2> QED BY <1>2, <2>1, <2>2
<1>6. Unreported' = Slaves /\ AtDown' = AtDown
  BY <1>5 DEF Unreported, AtDown
<1>7. SlaveInv'
  BY <1>3, <1>5 DEF TaskInv, SlaveInv
<1>8. ToSync' = Cardinality(Vap) /\ Owed' = Cardinality(Vap)
  BY <1>3 DEF ToSync, Owed
<1>9. Len(<<>>) = 0
  OBVIOUS
<1>10. SyncInv'
  BY <1>0, <1>6, <1>8, <1>9, Counts DEF SyncInv
<1>11. rcRlse'.n = Cardinality(AtDown) /\ rcRlse'.q = <<>> /\ rcRlse' \in [n : Nat, q : Seq(Vap)]
  <2>1. PICK k \in Nat : k = Cardinality(AtDown)
    BY Counts
  <2>2. rcRlse.n - 1 = k
    BY <1>0, <2>1
  <2> QED BY <1>0, <1>1, <2>1, <2>2
<1>12. RlseInv'
  <2>1. Elems(<<>>) = {} /\ Distinct(<<>>)
    BY DEF Elems, Distinct
  <2> QED BY <1>6, <1>8, <1>9, <1>11, <2>1, Counts DEF RlseInv
<1>13. emergency' \in [Vap -> Seq(Task)]
  BY <1>1
<1> QED BY <1>3, <1>4, <1>7, <1>10, <1>11, <1>12, <1>13 DEF TaskInv

-----------------------------------------------------------------------------
(***************************************************************************)
(* The tasks of the slaves.                                                *)
(***************************************************************************)

\* A step that leaves the master alone.
LEMMA MasterKept ==
  ASSUME rcPc'[MasterVap] = rcPc[MasterVap], emergency'[MasterVap] = emergency[MasterVap],
         UNCHANGED rcLeft
  PROVE  /\ MasterAt' = MasterAt /\ (Scheduled' <=> Scheduled) /\ (Syncing' <=> Syncing)
         /\ (Rebuilding' <=> Rebuilding) /\ (Attempt' <=> Attempt)
         /\ ToSync' = ToSync /\ Owed' = Owed /\ (MasterInv => MasterInv')
<1>1. MasterAt' = MasterAt /\ (Scheduled' <=> Scheduled)
  BY DEF MasterAt, Scheduled
<1>2. (Syncing' <=> Syncing) /\ (Rebuilding' <=> Rebuilding)
  BY <1>1 DEF Syncing, Rebuilding, MasterAt
<1>3. Attempt' <=> Attempt
  BY <1>1, <1>2 DEF Attempt
<1>4. ToSync' = ToSync /\ Owed' = Owed
  BY <1>1, <1>2 DEF ToSync, Owed
<1>5. MasterInv => MasterInv'
  BY <1>1 DEF MasterInv
<1> QED BY <1>1, <1>2, <1>3, <1>4, <1>5

\* A slave takes its recovery task.
LEMMA SlaveTakes ==
  ASSUME RcvryTypeOK, TaskInv, NEW v \in Slaves, TakeTask(v)
  PROVE  /\ TaskInv' /\ UNCHANGED <<rcLeft, rcSync, rcRlse>> /\ (Attempt' <=> Attempt)
         /\ emergency' \in [Vap -> Seq(Task)]
         /\ rcPc' = [rcPc EXCEPT ![v] = "up"]
<1>0. /\ rcPc[v] = "idle" /\ emergency[v] # <<>> /\ emergency' = [emergency EXCEPT ![v] = Tail(@)]
      /\ UNCHANGED <<rcSync, rcRlse>>
  BY DEF TakeTask
<1>1. /\ emergency \in [Vap -> Seq(Task)] /\ v \in Vap /\ v # MasterVap /\ MasterVap \in Vap
      /\ Slaves \subseteq Vap /\ TaskInv
  BY RcvryTypes
<1>2. emergency[v] = <<"recovery">>
  BY <1>0 DEF TaskInv, SlaveInv
<1>3. Head(emergency[v]) = "recovery" /\ Tail(emergency[v]) = <<>>
  BY <1>2
<1>4. rcPc' = [rcPc EXCEPT ![v] = "up"] /\ UNCHANGED rcLeft
  BY <1>1, <1>3 DEF TakeTask, Goto
<1>5. /\ rcPc'[v] = "up" /\ emergency'[v] = <<>>
      /\ \A w \in Vap \ {v} : rcPc'[w] = rcPc[w] /\ emergency'[w] = emergency[w]
  BY <1>0, <1>1, <1>3, <1>4, RcvryTypes
<1>6. /\ MasterAt' = MasterAt /\ (Scheduled' <=> Scheduled) /\ (Syncing' <=> Syncing)
      /\ ToSync' = ToSync /\ Owed' = Owed /\ MasterInv' /\ (Attempt' <=> Attempt)
  BY <1>1, <1>4, <1>5, MasterKept DEF TaskInv
<1>7. Unreported' = Unreported /\ AtDown' = AtDown
  <2>1. \A w \in Slaves : w \in Unreported' <=> w \in Unreported
    BY <1>0, <1>1, <1>5 DEF Unreported
  <2>2. \A w \in Slaves : w \in AtDown' <=> w \in AtDown
    BY <1>0, <1>1, <1>5 DEF AtDown
  <2> QED BY <2>1, <2>2 DEF Unreported, AtDown
<1>8. SlaveInv'
  <2> SUFFICES ASSUME NEW w \in Slaves
               PROVE  /\ emergency'[w] \in {<<>>, <<"recovery">>}
                      /\ rcPc'[w] \in {"idle", "up", "down", "wait"}
                      /\ rcPc'[w] = "up" => emergency'[w] = <<>>
                      /\ w \in Unreported' => Scheduled' \/ Syncing'
    BY DEF SlaveInv
  <2> QED BY <1>1, <1>5, <1>6, <1>7 DEF TaskInv, SlaveInv
<1>9. SyncInv'
  BY <1>0, <1>1, <1>6, <1>7 DEF TaskInv, SyncInv
<1>10. RlseInv'
  <2>1. \A w \in Elems(rcRlse.q) : w \in Slaves /\ rcPc'[w] = "wait"
    BY <1>0, <1>1, <1>5 DEF TaskInv, RlseInv
  <2> QED BY <1>0, <1>6, <1>7, <2>1 DEF TaskInv, RlseInv
<1>11. emergency' \in [Vap -> Seq(Task)]
  BY <1>0, <1>1, <1>3
<1> QED BY <1>0, <1>4, <1>6, <1>8, <1>9, <1>10, <1>11 DEF TaskInv

\* What a step of the task of a slave moves.
LEMMA SlaveMoves ==
  ASSUME RcvryTypeOK, TaskInv, NEW v \in Slaves, NEW p \in {"idle", "down", "wait"}, Goto(v, p),
         UNCHANGED <<emergency, rcLeft>>
  PROVE  /\ rcPc'[v] = p /\ \A w \in Vap \ {v} : rcPc'[w] = rcPc[w]
         /\ MasterAt' = MasterAt /\ (Scheduled' <=> Scheduled) /\ (Syncing' <=> Syncing)
         /\ ToSync' = ToSync /\ Owed' = Owed /\ MasterInv' /\ SlaveInv' /\ (Attempt' <=> Attempt)
         /\ \A w \in Slaves \ {v} : /\ w \in Unreported' <=> w \in Unreported
                                    /\ w \in AtDown' <=> w \in AtDown
         /\ v \in Unreported' <=> emergency[v] # <<>>
         /\ v \in AtDown' <=> p = "down"
         /\ Unreported' \subseteq Slaves /\ AtDown' \subseteq Slaves
         /\ Unreported \subseteq Slaves /\ AtDown \subseteq Slaves
         /\ rcPc' \in [Vap -> AnyPlace]
<1>1. /\ v \in Vap /\ v # MasterVap /\ MasterVap \in Vap /\ Slaves \subseteq Vap
      /\ rcPc \in [Vap -> AnyPlace]
  BY RcvryTypes
<1>2. rcPc'[v] = p /\ \A w \in Vap \ {v} : rcPc'[w] = rcPc[w]
  BY <1>1 DEF Goto
<1>3. /\ MasterAt' = MasterAt /\ (Scheduled' <=> Scheduled) /\ (Syncing' <=> Syncing)
      /\ ToSync' = ToSync /\ Owed' = Owed /\ MasterInv' /\ (Attempt' <=> Attempt)
  BY <1>1, <1>2, MasterKept DEF TaskInv
<1>4. /\ \A w \in Slaves \ {v} : /\ w \in Unreported' <=> w \in Unreported
                                 /\ w \in AtDown' <=> w \in AtDown
      /\ v \in Unreported' <=> emergency[v] # <<>>
      /\ v \in AtDown' <=> p = "down"
      /\ Unreported' \subseteq Slaves /\ AtDown' \subseteq Slaves
      /\ Unreported \subseteq Slaves /\ AtDown \subseteq Slaves
  BY <1>1, <1>2 DEF Unreported, AtDown
<1>5. SlaveInv'
  <2> SUFFICES ASSUME NEW w \in Slaves
               PROVE  /\ emergency'[w] \in {<<>>, <<"recovery">>}
                      /\ rcPc'[w] \in {"idle", "up", "down", "wait"}
                      /\ rcPc'[w] = "up" => emergency'[w] = <<>>
                      /\ w \in Unreported' => Scheduled' \/ Syncing'
    BY DEF SlaveInv
  <2>1. v \in Unreported' => v \in Unreported
    BY <1>4 DEF Unreported
  <2> QED BY <1>1, <1>2, <1>3, <1>4, <2>1 DEF TaskInv, SlaveInv
<1>6. rcPc' \in [Vap -> AnyPlace]
  BY <1>1 DEF Goto, AnyPlace
<1> QED BY <1>2, <1>3, <1>4, <1>5, <1>6

\* A slave reports: it is no longer pending, and slave_sync has a unit more.
LEMMA SlaveReports ==
  ASSUME RcvryTypeOK, TaskInv, NEW v \in Slaves, SlaveUp(v)
  PROVE  TaskInv' /\ rcSync' \in [n : Nat, q : Seq(Vap)]
<1>0. /\ rcPc[v] = "up" /\ Goto(v, "down") /\ rcSync' = SemUp(rcSync)
      /\ UNCHANGED <<rcRlse, emergency, rcLeft>>
  BY DEF SlaveUp
<1>1. emergency[v] = <<>>
  BY <1>0 DEF TaskInv, SlaveInv
<1>2. /\ rcPc'[v] = "down" /\ \A w \in Vap \ {v} : rcPc'[w] = rcPc[w]
      /\ MasterAt' = MasterAt /\ ToSync' = ToSync /\ Owed' = Owed /\ MasterInv' /\ SlaveInv'
      /\ \A w \in Slaves \ {v} : /\ w \in Unreported' <=> w \in Unreported
                                 /\ w \in AtDown' <=> w \in AtDown
      /\ v \notin Unreported' /\ v \in AtDown'
      /\ Unreported' \subseteq Slaves /\ AtDown' \subseteq Slaves
      /\ Unreported \subseteq Slaves /\ AtDown \subseteq Slaves
  BY <1>0, <1>1, SlaveMoves
<1>3. v \in Unreported /\ v \notin AtDown
  BY <1>0 DEF Unreported, AtDown
<1>4. Unreported' = Unreported \ {v} /\ AtDown' = AtDown \cup {v}
  BY <1>2, <1>3
<1>5. Cardinality(Unreported') = Cardinality(Unreported) - 1 /\ Cardinality(AtDown') = Cardinality(AtDown) + 1
  <2>1. Cardinality(Unreported \ {v}) = Cardinality(Unreported) - 1
    BY <1>3, Counts, FS_RemoveElement
  <2>2. Cardinality(AtDown \cup {v}) = Cardinality(AtDown) + 1
    BY <1>3, Counts, FS_AddElement
  <2> QED BY <1>4, <2>1, <2>2
<1>6. /\ rcSync \in [n : Nat, q : Seq(Vap)] /\ (rcSync.q # <<>> => rcSync.n = 0)
      /\ Distinct(rcSync.q) /\ rcLeft \in Nat
  <2>1. Distinct(<<>>) /\ Distinct(<<MasterVap>>)
    BY DEF Distinct
  <2> QED BY <2>1, RcvryTypes DEF TaskInv, SyncInv
<1>7. /\ rcSync' \in [n : Nat, q : Seq(Vap)]
      /\ rcSync'.n - Len(rcSync'.q) = rcSync.n - Len(rcSync.q) + 1
  BY <1>0, <1>6, SemUpEffect
<1>8. rcSync'.q = <<>>
  <2>1. CASE rcSync.q = <<>>
    BY <1>0, <1>6, <2>1 DEF SemUp
  <2>2. CASE rcSync.q = <<MasterVap>>
    <3>1. rcSync.q # <<>> /\ Tail(rcSync.q) = <<>>
      BY <2>2
    <3> QED BY <1>0, <1>6, <3>1 DEF SemUp
  <2> QED BY <2>1, <2>2 DEF TaskInv, SyncInv
<1>9. SyncInv'
  <2>1. ToSync \in Int
    BY <1>6, Counts DEF ToSync
  <2>2. rcSync.n - Len(rcSync.q) = ToSync - Cardinality(Unreported)
    BY DEF TaskInv, SyncInv
  <2>3. rcSync'.n - Len(rcSync'.q) = ToSync' - Cardinality(Unreported')
    BY <1>2, <1>5, <1>7, <2>1, <2>2, Counts
  <2> QED BY <1>8, <2>3 DEF SyncInv
<1>10. RlseInv'
  <2>1. Owed \in Int /\ rcRlse.n - Len(rcRlse.q) = Cardinality(AtDown) + Cardinality(Unreported) + 1 - Owed
    BY <1>6, Counts DEF Owed, TaskInv, RlseInv
  <2>2. rcRlse'.n - Len(rcRlse'.q) = Cardinality(AtDown') + Cardinality(Unreported') + 1 - Owed'
    BY <1>0, <1>2, <1>5, <2>1, Counts
  <2>3. \A w \in Elems(rcRlse.q) : w \in Slaves /\ rcPc'[w] = "wait"
    BY <1>0, <1>2, RcvryTypes DEF TaskInv, RlseInv
  <2> QED BY <1>0, <2>2, <2>3 DEF TaskInv, RlseInv
<1> QED BY <1>2, <1>7, <1>9, <1>10 DEF TaskInv

\* A slave takes its unit of slave_rlse, or sleeps until the master gives it.
LEMMA SlaveWaits ==
  ASSUME RcvryTypeOK, TaskInv, NEW v \in Slaves, SlaveDown(v)
  PROVE  TaskInv' /\ rcRlse' \in [n : Nat, q : Seq(Vap)]
<1>0. /\ rcPc[v] = "down" /\ rcRlse' = SemDown(rcRlse, v) /\ UNCHANGED <<rcSync, emergency, rcLeft>>
  BY DEF SlaveDown
<1>1. PICK p \in {"idle", "wait"} : p = IF rcRlse.n > 0 THEN "idle" ELSE "wait"
  OBVIOUS
<1>2. /\ rcPc'[v] = p /\ \A w \in Vap \ {v} : rcPc'[w] = rcPc[w]
      /\ MasterAt' = MasterAt /\ ToSync' = ToSync /\ Owed' = Owed /\ MasterInv' /\ SlaveInv'
      /\ \A w \in Slaves \ {v} : /\ w \in Unreported' <=> w \in Unreported
                                 /\ w \in AtDown' <=> w \in AtDown
      /\ v \in Unreported' <=> emergency[v] # <<>>
      /\ v \notin AtDown'
      /\ Unreported' \subseteq Slaves /\ AtDown' \subseteq Slaves
      /\ Unreported \subseteq Slaves /\ AtDown \subseteq Slaves
  BY <1>0, <1>1, SlaveMoves DEF SlaveDown
<1>3. v \in AtDown /\ (v \in Unreported <=> emergency[v] # <<>>)
  BY <1>0 DEF Unreported, AtDown
<1>4. Unreported' = Unreported /\ AtDown' = AtDown \ {v}
  <2>1. v \in Unreported' <=> v \in Unreported
    BY <1>2, <1>3
  <2>2. Unreported' = Unreported
    <3>1. \A w \in Slaves : w \in Unreported' <=> w \in Unreported
      BY <1>2, <2>1
    <3>2. Unreported' \subseteq Slaves /\ Unreported \subseteq Slaves
      BY <1>2
    <3> QED BY <3>1, <3>2
  <2>3. AtDown' = AtDown \ {v}
    BY <1>2, <1>3
  <2> QED BY <2>2, <2>3
<1>5. Cardinality(AtDown') = Cardinality(AtDown) - 1
  <2>1. Cardinality(AtDown \ {v}) = Cardinality(AtDown) - 1
    BY <1>3, Counts, FS_RemoveElement
  <2> QED BY <1>4, <2>1
<1>6. /\ rcRlse \in [n : Nat, q : Seq(Vap)] /\ (rcRlse.q # <<>> => rcRlse.n = 0)
      /\ Distinct(rcRlse.q) /\ v \notin Elems(rcRlse.q) /\ v \in Vap /\ rcLeft \in Nat
  BY <1>0, RcvryTypes DEF TaskInv, RlseInv
<1>7. /\ rcRlse' \in [n : Nat, q : Seq(Vap)]
      /\ rcRlse'.n - Len(rcRlse'.q) = rcRlse.n - Len(rcRlse.q) - 1
      /\ rcRlse'.q # <<>> => rcRlse'.n = 0
      /\ Distinct(rcRlse'.q)
      /\ rcRlse.n > 0 => rcRlse'.q = rcRlse.q
      /\ rcRlse.n = 0 => Elems(rcRlse'.q) = Elems(rcRlse.q) \cup {v}
  BY <1>0, <1>6, SemDownEffect
<1>8. SyncInv'
  BY <1>0, <1>2, <1>4 DEF TaskInv, SyncInv
<1>9. RlseInv'
  <2>1. Owed \in Int /\ rcRlse.n - Len(rcRlse.q) = Cardinality(AtDown) + Cardinality(Unreported) + 1 - Owed
    BY <1>6, Counts DEF Owed, TaskInv, RlseInv
  <2>2. rcRlse'.n - Len(rcRlse'.q) = Cardinality(AtDown') + Cardinality(Unreported') + 1 - Owed'
    <3>1. Owed' = Owed /\ Cardinality(Unreported') = Cardinality(Unreported)
      BY <1>2, <1>4
    <3>2. rcRlse.n \in Int /\ Len(rcRlse.q) \in Int
      BY <1>6
    <3>3. PICK k \in Int : k = rcRlse.n - Len(rcRlse.q)
      BY <3>2
    <3>4. PICK d \in Nat, u \in Nat : d = Cardinality(AtDown) /\ u = Cardinality(Unreported)
      BY Counts
    <3>5. rcRlse'.n - Len(rcRlse'.q) = k - 1 /\ k = d + u + 1 - Owed
      BY <1>7, <2>1, <3>3, <3>4
    <3>6. rcRlse'.n - Len(rcRlse'.q) = (d - 1) + u + 1 - Owed
      BY <2>1, <3>5
    <3> QED BY <1>5, <3>1, <3>4, <3>6
  <2>3. \A w \in Elems(rcRlse'.q) : w \in Slaves /\ rcPc'[w] = "wait"
    <3>1. \A w \in Elems(rcRlse.q) : w \in Slaves /\ w \in Vap \ {v} /\ rcPc[w] = "wait"
      BY <1>6, RcvryTypes DEF TaskInv, RlseInv
    <3>2. CASE rcRlse.n > 0
      BY <1>2, <1>7, <3>1, <3>2
    <3>3. CASE rcRlse.n = 0
      BY <1>1, <1>2, <1>7, <3>1, <3>3
    <3> QED BY <1>6, <3>2, <3>3
  <2> QED BY <1>7, <2>2, <2>3 DEF RlseInv
<1> QED BY <1>2, <1>7, <1>8, <1>9 DEF TaskInv

\* A slave that was woken is done.
LEMMA SlaveDone ==
  ASSUME RcvryTypeOK, TaskInv, NEW v \in Slaves, SlaveWakes(v)
  PROVE  TaskInv'
<1>0. /\ rcPc[v] = "wait" /\ Goto(v, "idle") /\ ~Sleeps(rcRlse, v)
      /\ UNCHANGED <<rcRlse, rcSync, emergency, rcLeft>>
  BY DEF SlaveWakes
<1>1. v \notin Elems(rcRlse.q)
  <2>1. rcRlse.q \in Seq(Vap)
    BY RcvryTypes
  <2>2. DOMAIN rcRlse.q = 1 .. Len(rcRlse.q)
    BY <2>1
  <2> QED BY <1>0, <2>2 DEF Sleeps, Elems
<1>2. /\ rcPc'[v] = "idle" /\ \A w \in Vap \ {v} : rcPc'[w] = rcPc[w]
      /\ MasterAt' = MasterAt /\ ToSync' = ToSync /\ Owed' = Owed /\ MasterInv' /\ SlaveInv'
      /\ \A w \in Slaves \ {v} : /\ w \in Unreported' <=> w \in Unreported
                                 /\ w \in AtDown' <=> w \in AtDown
      /\ v \in Unreported' <=> emergency[v] # <<>>
      /\ v \notin AtDown'
      /\ Unreported' \subseteq Slaves /\ AtDown' \subseteq Slaves
      /\ Unreported \subseteq Slaves /\ AtDown \subseteq Slaves
  BY <1>0, SlaveMoves
<1>3. v \notin AtDown /\ (v \in Unreported <=> emergency[v] # <<>>)
  BY <1>0 DEF Unreported, AtDown
<1>4. Unreported' = Unreported /\ AtDown' = AtDown
  <2>1. v \in Unreported' <=> v \in Unreported
    BY <1>2, <1>3
  <2>2. Unreported' = Unreported
    <3>1. \A w \in Slaves : w \in Unreported' <=> w \in Unreported
      BY <1>2, <2>1
    <3>2. Unreported' \subseteq Slaves /\ Unreported \subseteq Slaves
      BY <1>2
    <3> QED BY <3>1, <3>2
  <2>3. AtDown' = AtDown
    <3>1. \A w \in Slaves : w \in AtDown' <=> w \in AtDown
      BY <1>2, <1>3
    <3>2. AtDown' \subseteq Slaves /\ AtDown \subseteq Slaves
      BY <1>2
    <3> QED BY <3>1, <3>2
  <2> QED BY <2>2, <2>3
<1>5. SyncInv'
  BY <1>0, <1>2, <1>4 DEF TaskInv, SyncInv
<1>6. RlseInv'
  <2>1. \A w \in Elems(rcRlse.q) : w \in Slaves /\ rcPc'[w] = "wait"
    BY <1>1, <1>2, RcvryTypes DEF TaskInv, RlseInv
  <2> QED BY <1>0, <1>2, <1>4, <2>1 DEF TaskInv, RlseInv
<1> QED BY <1>2, <1>5, <1>6 DEF TaskInv

-----------------------------------------------------------------------------
(***************************************************************************)
(* The task of the master.                                                 *)
(***************************************************************************)
Place == {"idle", "sync", "sync_wait", "isolate", "restore", "configure", "finalize", "release",
          "finish", "on_error", "fatal"}

\* What a step of the master moves.
LEMMA MasterMoves ==
  ASSUME RcvryTypeOK, NEW p \in Place, Goto(MasterVap, p), UNCHANGED emergency
  PROVE  /\ MasterAt' = p /\ (Scheduled' <=> Scheduled)
         /\ \A v \in Slaves : emergency'[v] = emergency[v] /\ rcPc'[v] = rcPc[v]
         /\ Unreported' = Unreported /\ AtDown' = AtDown
         /\ rcPc' \in [Vap -> AnyPlace]
<1>1. /\ MasterVap \in Vap /\ Slaves \subseteq Vap /\ MasterVap \notin Slaves
      /\ rcPc \in [Vap -> AnyPlace]
  BY RcvryTypes
<1>2. rcPc'[MasterVap] = p /\ \A v \in Slaves : rcPc'[v] = rcPc[v]
  BY <1>1 DEF Goto
<1>3. Unreported' = Unreported /\ AtDown' = AtDown
  BY <1>2 DEF Unreported, AtDown
<1>4. rcPc' \in [Vap -> AnyPlace]
  BY <1>1 DEF Goto, Place, AnyPlace
<1> QED BY <1>2, <1>3, <1>4 DEF MasterAt, Scheduled

\* The master goes on without touching a semaphore.
LEMMA MasterGoesOn ==
  ASSUME RcvryTypeOK, TaskInv, NEW p \in Place, Goto(MasterVap, p),
         UNCHANGED <<emergency, rcSync, rcRlse>>, rcSync.q = <<>>,
         \/ MasterAt = "sync_wait" /\ p = "sync" /\ UNCHANGED rcLeft
         \/ Rebuilding /\ p \in {"restore", "configure", "finalize"}
         \/ Rebuilding /\ p = "release" /\ rcLeft' = Cardinality(Vap)
         \/ MasterAt = "release" /\ rcLeft = 0 /\ p = "finish"
         \/ MasterAt \in {"finish", "idle", "fatal", "on_error"} /\ p \in {"idle", "fatal", "on_error"}
  PROVE  TaskInv'
<1>1. /\ MasterAt' = p /\ (Scheduled' <=> Scheduled)
      /\ \A v \in Slaves : emergency'[v] = emergency[v] /\ rcPc'[v] = rcPc[v]
  BY MasterMoves
<1>2. MasterInv'
  BY <1>1 DEF TaskInv, MasterInv, Place, Rebuilding, MasterAt
<1>3. (Syncing' <=> p \in {"sync", "sync_wait"})
      /\ (Rebuilding' <=> p \in {"isolate", "restore", "configure", "finalize"})
  BY <1>1 DEF Syncing, Rebuilding, MasterAt
<1>4. (Syncing <=> MasterAt \in {"sync", "sync_wait"})
      /\ (Rebuilding <=> MasterAt \in {"isolate", "restore", "configure", "finalize"})
      /\ (Scheduled => MasterAt \in {"idle", "fatal", "on_error"})
  BY DEF Syncing, Rebuilding, MasterAt, TaskInv, MasterInv
<1>5. ToSync' = ToSync
  BY <1>1, <1>3, <1>4 DEF ToSync
<1>6. Owed' = Owed
  BY <1>1, <1>3, <1>4 DEF Owed
<1>7. Scheduled \/ Syncing => (Scheduled \/ Syncing)'
  BY <1>1, <1>3, <1>4
<1> QED BY <1>1, <1>2, <1>5, <1>6, <1>7, TasksKept

\* The master takes a unit of slave_sync.
LEMMA MasterSyncs ==
  ASSUME RcvryTypeOK, TaskInv, MasterSync
  PROVE  TaskInv' /\ rcSync' \in [n : Nat, q : Seq(Vap)] /\ rcLeft' \in 0 .. Cardinality(Vap)
<1>0. /\ MasterAt = "sync" /\ rcLeft > 0 /\ rcLeft' = rcLeft - 1 /\ rcSync' = SemDown(rcSync, MasterVap)
      /\ UNCHANGED <<emergency, rcRlse>>
  BY DEF MasterSync, MasterAt
<1>1. PICK p \in {"sync", "sync_wait"} : p = IF rcSync.n > 0 THEN "sync" ELSE "sync_wait"
  OBVIOUS
<1>2. p \in Place /\ Goto(MasterVap, p)
  BY <1>1 DEF MasterSync, Place
<1>3. /\ MasterAt' = p /\ (Scheduled' <=> Scheduled)
      /\ \A v \in Slaves : emergency'[v] = emergency[v] /\ rcPc'[v] = rcPc[v]
      /\ Unreported' = Unreported /\ AtDown' = AtDown
  BY <1>0, <1>2, MasterMoves
<1>4. ~Scheduled /\ rcSync.q = <<>> /\ Syncing /\ Syncing'
  BY <1>0, <1>3 DEF TaskInv, MasterInv, SyncInv, Syncing
<1>5. /\ rcSync \in [n : Nat, q : Seq(Vap)] /\ MasterVap \in Vap /\ rcLeft \in Nat
      /\ rcLeft <= Cardinality(Vap) /\ Distinct(<<>>) /\ MasterVap \notin Elems(<<>>)
  BY RcvryTypes DEF Distinct, Elems
<1>6. /\ rcSync' \in [n : Nat, q : Seq(Vap)]
      /\ rcSync'.n - Len(rcSync'.q) = rcSync.n - Len(rcSync.q) - 1
      /\ rcSync'.q # <<>> => rcSync'.n = 0
      /\ rcSync.n > 0 => rcSync'.q = <<>>
      /\ rcSync.n = 0 => rcSync'.q = Append(<<>>, MasterVap)
  BY <1>0, <1>4, <1>5, SemDownEffect
<1>7. SyncInv'
  <2>1. ToSync = rcLeft /\ ToSync' = rcLeft - 1
    BY <1>0, <1>3, <1>4 DEF ToSync
  <2>2. rcSync'.n - Len(rcSync'.q) = ToSync' - Cardinality(Unreported')
    BY <1>3, <1>5, <1>6, <2>1, Counts DEF TaskInv, SyncInv
  <2>3. Append(<<>>, MasterVap) = <<MasterVap>> /\ <<MasterVap>> # <<>>
    OBVIOUS
  <2>4. \/ rcSync'.q = <<>>
        \/ rcSync'.q = <<MasterVap>> /\ MasterAt' = "sync_wait" /\ rcSync'.n = 0
    BY <1>1, <1>3, <1>5, <1>6, <2>3
  <2> QED BY <2>2, <2>4 DEF SyncInv
<1>8. RlseInv'
  <2>1. Owed' = Owed
    BY <1>3, <1>4 DEF Owed
  <2> QED BY <1>0, <1>3, <2>1 DEF TaskInv, RlseInv
<1>9. MasterInv'
  BY <1>0, <1>1, <1>3, <1>4 DEF TaskInv, MasterInv
<1>10. SlaveInv'
  BY <1>3, <1>4 DEF TaskInv, SlaveInv
<1>11. rcLeft' \in 0 .. Cardinality(Vap)
  BY <1>0, <1>5, Counts
<1> QED BY <1>6, <1>7, <1>8, <1>9, <1>10, <1>11 DEF TaskInv

\* The master has taken a unit per VAP: all slaves have reported.
LEMMA MasterBegins ==
  ASSUME RcvryTypeOK, TaskInv, MasterStarts
  PROVE  TaskInv' /\ rcSync' \in [n : Nat, q : Seq(Vap)]
<1>0. /\ MasterAt = "sync" /\ rcLeft = 0 /\ rcSync' = SemUp(rcSync) /\ Goto(MasterVap, "isolate")
      /\ UNCHANGED <<emergency, rcRlse, rcLeft>>
  BY DEF MasterStarts, MasterAt
<1>1. /\ MasterAt' = "isolate" /\ (Scheduled' <=> Scheduled)
      /\ \A v \in Slaves : emergency'[v] = emergency[v] /\ rcPc'[v] = rcPc[v]
      /\ Unreported' = Unreported /\ AtDown' = AtDown
  BY <1>0, MasterMoves DEF Place
<1>2. ~Scheduled /\ rcSync.q = <<>> /\ Syncing /\ ~Syncing' /\ Rebuilding'
  BY <1>0, <1>1 DEF TaskInv, MasterInv, SyncInv, Syncing, Rebuilding, MasterAt
<1>3. rcSync \in [n : Nat, q : Seq(Vap)]
  BY RcvryTypes
<1>4. rcSync.n = 0 /\ Cardinality(Unreported) = 0
  <2>1. ToSync = 0 /\ Len(<<>>) = 0
    BY <1>0, <1>2 DEF ToSync
  <2> QED BY <1>2, <1>3, <2>1, Counts DEF TaskInv, SyncInv
<1>5. Unreported = {}
  BY <1>4, Counts, FS_EmptySet
<1>6. /\ rcSync' \in [n : Nat, q : Seq(Vap)] /\ rcSync'.q = <<>> /\ rcSync'.n = 1
  BY <1>0, <1>2, <1>3, <1>4 DEF SemUp
<1>7. SyncInv'
  <2>1. ToSync' = 1 /\ Len(<<>>) = 0
    BY <1>1, <1>2 DEF ToSync
  <2> QED BY <1>1, <1>4, <1>6, <2>1 DEF SyncInv
<1>8. RlseInv'
  <2>1. Owed' = Owed
    BY <1>1, <1>2 DEF Owed
  <2> QED BY <1>0, <1>1, <2>1 DEF TaskInv, RlseInv
<1>9. MasterInv'
  BY <1>0, <1>1, <1>2 DEF TaskInv, MasterInv
<1>10. SlaveInv'
  BY <1>1, <1>5 DEF TaskInv, SlaveInv
<1> QED BY <1>6, <1>7, <1>8, <1>9, <1>10 DEF TaskInv

\* The master gives a unit of slave_rlse, or has given one per VAP.
LEMMA MasterGives ==
  ASSUME RcvryTypeOK, TaskInv, MasterReleases
  PROVE  /\ TaskInv' /\ rcRlse' \in [n : Nat, q : Seq(Vap)] /\ rcLeft' \in 0 .. Cardinality(Vap)
         /\ (Attempt /\ Attempt') /\ MasterAt' # "finalize"
         /\ rcPc' \in [Vap -> AnyPlace]
<1>0. MasterAt = "release" /\ UNCHANGED <<emergency, rcSync>>
  BY DEF MasterReleases, MasterAt
<1>1. /\ rcRlse \in [n : Nat, q : Seq(Vap)] /\ rcLeft \in Nat /\ rcLeft <= Cardinality(Vap)
      /\ rcSync.q = <<>> /\ ~Scheduled /\ ~Syncing /\ ~Rebuilding /\ Attempt
      /\ rcPc \in [Vap -> AnyPlace]
  BY <1>0, RcvryTypes DEF TaskInv, MasterInv, SyncInv, Syncing, Rebuilding, MasterAt, Attempt
<1>2. CASE rcLeft > 0
  <2>1. rcLeft' = rcLeft - 1 /\ rcRlse' = SemUp(rcRlse) /\ UNCHANGED rcPc
    BY <1>2 DEF MasterReleases
  <2>2. /\ MasterAt' = MasterAt /\ (Scheduled' <=> Scheduled) /\ (Syncing' <=> Syncing)
        /\ (Rebuilding' <=> Rebuilding) /\ Unreported' = Unreported /\ AtDown' = AtDown
    BY <1>0, <2>1 DEF MasterAt, Scheduled, Syncing, Rebuilding, Unreported, AtDown
  <2>3. /\ rcRlse' \in [n : Nat, q : Seq(Vap)]
        /\ rcRlse'.n - Len(rcRlse'.q) = rcRlse.n - Len(rcRlse.q) + 1
        /\ rcRlse'.q # <<>> => rcRlse'.n = 0
        /\ Distinct(rcRlse'.q) /\ Elems(rcRlse'.q) \subseteq Elems(rcRlse.q)
    <3>1. Distinct(rcRlse.q) /\ (rcRlse.q # <<>> => rcRlse.n = 0)
      BY DEF TaskInv, RlseInv
    <3> QED BY <1>1, <2>1, <3>1, SemUpEffect
  <2>4. RlseInv'
    <3>1. Owed = rcLeft /\ Owed' = rcLeft - 1
      BY <1>0, <1>1, <2>1, <2>2 DEF Owed
    <3>2. rcRlse.n - Len(rcRlse.q) = Cardinality(AtDown) + Cardinality(Unreported) + 1 - Owed
      BY DEF TaskInv, RlseInv
    <3>3. rcRlse'.n - Len(rcRlse'.q) = Cardinality(AtDown') + Cardinality(Unreported') + 1 - Owed'
      <4>1. PICK d \in Nat, u \in Nat : d = Cardinality(AtDown) /\ u = Cardinality(Unreported)
        BY Counts
      <4>2. rcRlse'.n - Len(rcRlse'.q) = (d + u + 1 - rcLeft) + 1
        BY <2>3, <3>1, <3>2, <4>1
      <4>3. rcRlse'.n - Len(rcRlse'.q) = d + u + 1 - (rcLeft - 1)
        BY <1>1, <4>2
      <4> QED BY <2>2, <3>1, <4>1, <4>3
    <3>4. \A v \in Elems(rcRlse'.q) : v \in Slaves /\ rcPc'[v] = "wait"
      BY <2>1, <2>3 DEF TaskInv, RlseInv
    <3> QED BY <2>3, <3>3, <3>4 DEF RlseInv
  <2>5. ToSync' = ToSync
    BY <1>1, <2>2 DEF ToSync
  <2>6. SyncInv'
    BY <1>0, <2>2, <2>5 DEF TaskInv, SyncInv
  <2>7. MasterInv' /\ SlaveInv'
    BY <1>0, <2>1, <2>2 DEF TaskInv, MasterInv, SlaveInv
  <2>8. rcLeft' \in 0 .. Cardinality(Vap)
    BY <1>1, <1>2, <2>1, Counts
  <2>9. Attempt' /\ MasterAt' # "finalize"
    BY <1>0, <2>2 DEF Attempt
  <2> QED BY <1>1, <2>1, <2>3, <2>4, <2>6, <2>7, <2>8, <2>9 DEF TaskInv
<1>3. CASE rcLeft = 0
  <2>1. Goto(MasterVap, "finish") /\ UNCHANGED <<rcLeft, rcRlse>>
    BY <1>1, <1>3 DEF MasterReleases
  <2>2. TaskInv'
    BY <1>0, <1>1, <1>3, <2>1, MasterGoesOn DEF Place
  <2>3. /\ MasterAt' = "finish"
        /\ rcPc' \in [Vap -> AnyPlace]
    BY <1>0, <2>1, MasterMoves DEF Place
  <2> QED BY <1>1, <1>3, <2>1, <2>2, <2>3, Counts DEF Attempt
<1> QED BY <1>1, <1>2, <1>3

\* The master takes a task: a recovery, for which it counts the VAPs, or the
\* exception of a firmware that died in an earlier attempt.
LEMMA MasterTakes ==
  ASSUME RcvryTypeOK, TaskInv, Attempt => rcInfo # NoInfo, TakeTask(MasterVap)
  PROVE  /\ TaskInv' /\ emergency' \in [Vap -> Seq(Task)] /\ rcLeft' \in 0 .. Cardinality(Vap)
         /\ (Attempt' <=> Attempt) /\ MasterAt' # "finalize"
         /\ rcPc' \in [Vap -> AnyPlace]
<1> DEFINE e == emergency[MasterVap]
<1>0. /\ MasterAt = "idle" /\ e # <<>> /\ emergency' = [emergency EXCEPT ![MasterVap] = Tail(@)]
      /\ rcLeft' = Cardinality(DOMAIN rcInfo) /\ UNCHANGED <<rcSync, rcRlse>>
  BY DEF TakeTask, MasterAt
<1>1. /\ emergency \in [Vap -> Seq(Task)] /\ e \in Seq(Task) /\ MasterVap \in Vap
      /\ MasterVap \notin Slaves /\ Slaves \subseteq Vap /\ OneRecovery(e)
      /\ rcLeft' \in 0 .. Cardinality(Vap) /\ rcSync.q = <<>>
      /\ (rcInfo # NoInfo => rcLeft' = Cardinality(Vap))
      /\ rcPc \in [Vap -> AnyPlace]
  BY <1>0, RcvryTypes DEF TaskInv, MasterInv, SyncInv
<1>2. /\ Tail(e) \in Seq(Task) /\ OneRecovery(Tail(e)) /\ Head(e) \in Task
      /\ Head(e) = "recovery" => "recovery" \in Elems(e) /\ "recovery" \notin Elems(Tail(e))
      /\ Head(e) # "recovery" => ("recovery" \in Elems(Tail(e)) <=> "recovery" \in Elems(e))
  BY <1>0, <1>1, TaskTaken
<1>3. /\ emergency'[MasterVap] = Tail(e) /\ emergency' \in [Vap -> Seq(Task)]
      /\ \A v \in Slaves : emergency'[v] = emergency[v]
  BY <1>0, <1>1, <1>2
<1>4. \E p \in {"sync", "fatal"} : /\ rcPc' = [rcPc EXCEPT ![MasterVap] = p]
                                   /\ p = "sync" <=> Head(e) = "recovery"
  <2>1. CASE Head(e) = "recovery"
    <3>1. rcPc' = [rcPc EXCEPT ![MasterVap] = "sync"]
      BY <2>1 DEF TakeTask, Goto
    <3> QED BY <2>1, <3>1
  <2>2. CASE Head(e) = "fatal"
    <3>1. rcPc' = [rcPc EXCEPT ![MasterVap] = "fatal"]
      BY <2>2 DEF TakeTask, Goto
    <3> QED BY <2>2, <3>1
  <2> QED BY <1>2, <2>1, <2>2 DEF Task
<1>5. PICK p \in {"sync", "fatal"} : /\ rcPc' = [rcPc EXCEPT ![MasterVap] = p]
                                     /\ p = "sync" <=> Head(e) = "recovery"
  BY <1>4
<1>6. MasterAt' = p /\ \A v \in Slaves : rcPc'[v] = rcPc[v]
  BY <1>1, <1>5 DEF MasterAt
<1>7. Scheduled <=> "recovery" \in Elems(e)
  BY DEF Scheduled
<1>8. Scheduled' <=> "recovery" \in Elems(Tail(e))
  BY <1>3 DEF Scheduled
<1> HIDE DEF e
<1>9. /\ ~Syncing /\ ~Rebuilding /\ ~Rebuilding' /\ (Syncing' <=> p = "sync")
      /\ MasterAt # "release" /\ MasterAt # "finish" /\ p # "release" /\ p # "finish"
  BY <1>0, <1>6 DEF Syncing, Rebuilding, MasterAt
<1>10. Attempt' <=> Attempt
  BY <1>2, <1>5, <1>6, <1>7, <1>8, <1>9 DEF Attempt
<1>11. ASSUME p = "sync" PROVE TaskInv'
  <2>1. Scheduled /\ ~Scheduled' /\ Syncing' /\ rcLeft' = Cardinality(Vap)
    BY <1>1, <1>2, <1>5, <1>7, <1>8, <1>9, <1>11 DEF Attempt
  <2>2. ToSync' = ToSync /\ Owed' = Owed
    BY <2>1 DEF ToSync, Owed
  <2>3. MasterInv'
    BY <1>2, <1>3, <1>6, <1>11, <2>1 DEF MasterInv
  <2>4. \A v \in Slaves : emergency'[v] = emergency[v] /\ rcPc'[v] = rcPc[v]
    BY <1>3, <1>6
  <2>5. (Scheduled \/ Syncing)' /\ UNCHANGED <<rcSync, rcRlse>> /\ rcSync.q = <<>>
    BY <1>0, <1>1, <2>1
  <2> QED BY <2>2, <2>3, <2>4, <2>5, TasksKept
<1>12. ASSUME p = "fatal" PROVE TaskInv'
  <2>1. (Scheduled' <=> Scheduled) /\ ~Syncing'
    BY <1>2, <1>5, <1>7, <1>8, <1>9, <1>12
  <2>2. ToSync' = ToSync /\ Owed' = Owed
    BY <1>6, <1>9, <2>1 DEF ToSync, Owed
  <2>3. MasterInv'
    BY <1>2, <1>3, <1>6, <1>12 DEF MasterInv
  <2>4. \A v \in Slaves : emergency'[v] = emergency[v] /\ rcPc'[v] = rcPc[v]
    BY <1>3, <1>6
  <2>5. UNCHANGED <<rcSync, rcRlse>> /\ rcSync.q = <<>>
    BY <1>0, <1>1
  <2>6. Scheduled \/ Syncing => (Scheduled \/ Syncing)'
    BY <1>9, <2>1
  <2> QED BY <2>2, <2>3, <2>4, <2>5, <2>6, TasksKept
<1>13. rcPc' \in [Vap -> AnyPlace]
  BY <1>1, <1>5 DEF AnyPlace
<1> QED BY <1>1, <1>3, <1>6, <1>10, <1>11, <1>12, <1>13


-----------------------------------------------------------------------------
(***************************************************************************)
(* Rcvry_initiate and its callers.                                         *)
(***************************************************************************)
RcType == [type : {"UNDEF", "NONE", "FAST", "FULL", "COMPLETE"}, forced : {"UNDEF", "NONE"},
           error : BOOLEAN, scheduled : BOOLEAN, fast : 0 .. FastNum, full : 0 .. FullNum,
           timer : BOOLEAN]

HwType == [ready : BOOLEAN, alive : BOOLEAN, intr : BOOLEAN, pending : BOOLEAN, wdog : BOOLEAN]

NetState == {"HALTED", "IDLE", "READY", "CONNECTED"}

\* The type invariant of the next state, part by part.
LEMMA TypesKept ==
  ASSUME rc' \in RcType, rcInfo' = NoInfo \/ rcInfo' \in [Vap -> BOOLEAN],
         rcSync' \in [n : Nat, q : Seq(Vap)], rcRlse' \in [n : Nat, q : Seq(Vap)],
         emergency' \in [Vap -> Seq(Task)], fatalTask' \in BOOLEAN, rcPc' \in [Vap -> AnyPlace],
         rcLeft' \in 0 .. Cardinality(Vap), net' \in [Vap -> NetState], hw' \in HwType,
         rcWas' \subseteq Vap
  PROVE  RcvryTypeOK'
BY DEF RcvryTypeOK, RcType, HwType, NetState, Task, AnyPlace

\* The type invariant of this state, part by part.
LEMMA TypesNow ==
  ASSUME RcvryTypeOK
  PROVE  /\ rc \in RcType /\ (rcInfo = NoInfo \/ rcInfo \in [Vap -> BOOLEAN])
         /\ rcSync \in [n : Nat, q : Seq(Vap)] /\ rcRlse \in [n : Nat, q : Seq(Vap)]
         /\ emergency \in [Vap -> Seq(Task)] /\ fatalTask \in BOOLEAN /\ rcPc \in [Vap -> AnyPlace]
         /\ rcLeft \in 0 .. Cardinality(Vap) /\ net \in [Vap -> NetState] /\ hw \in HwType
         /\ rcWas \subseteq Vap
BY DEF RcvryTypeOK, RcType, HwType, NetState, Task, AnyPlace

\* _rcvry_determine_type counts the attempts up to their limits.
LEMMA Determined ==
  ASSUME NEW r \in RcType
  PROVE  /\ DetermineType(r) \in RcType /\ DetermineType(r).type # "UNDEF"
         /\ DetermineType(r).error = r.error
<1>0. FastNum \in Nat /\ FullNum \in Nat
  BY RcvryConstants
<1>1. CASE r.forced # "UNDEF"
  <2>1. DetermineType(r) = [r EXCEPT !.type = r.forced, !.forced = "UNDEF"]
    BY <1>1 DEF DetermineType
  <2>2. r.forced = "NONE"
    BY <1>1 DEF RcType
  <2> QED BY <2>1, <2>2 DEF RcType
<1>2. CASE r.forced = "UNDEF" /\ r.fast < FastNum
  <2>1. DetermineType(r) = [r EXCEPT !.type = "FAST", !.fast = @ + 1]
    <3>1. r.fast \in Nat
      BY <1>0 DEF RcType
    <3> QED BY <1>0, <1>2, <3>1 DEF DetermineType
  <2>2. PICK k \in 0 .. FastNum : k = r.fast + 1
    BY <1>0, <1>2 DEF RcType
  <2>3. DetermineType(r) = [r EXCEPT !.type = "FAST", !.fast = k]
    BY <2>1, <2>2
  <2> QED BY <2>3 DEF RcType
<1>3. CASE r.forced = "UNDEF" /\ ~(r.fast < FastNum) /\ r.full < FullNum
  <2>1. DetermineType(r) = [r EXCEPT !.type = "FULL", !.full = @ + 1]
    BY <1>0, <1>3 DEF DetermineType, RcType
  <2>2. PICK k \in 0 .. FullNum : k = r.full + 1
    BY <1>0, <1>3 DEF RcType
  <2>3. DetermineType(r) = [r EXCEPT !.type = "FULL", !.full = k]
    BY <2>1, <2>2
  <2> QED BY <2>3 DEF RcType
<1>4. CASE r.forced = "UNDEF" /\ ~(r.fast < FastNum) /\ ~(r.full < FullNum)
  <2>1. DetermineType(r) = [r EXCEPT !.type = IF CompleteRcvry THEN "COMPLETE" ELSE "NONE"]
    BY <1>4 DEF DetermineType
  <2>2. PICK t \in {"COMPLETE", "NONE"} : t = IF CompleteRcvry THEN "COMPLETE" ELSE "NONE"
    OBVIOUS
  <2>3. DetermineType(r) = [r EXCEPT !.type = t]
    BY <2>1, <2>2
  <2> QED BY <2>3 DEF RcType
<1> QED BY <1>1, <1>2, <1>3, <1>4

\* What the callers of rcvry_initiate leave alone, or end.
Caller ==
  /\ UNCHANGED <<rcSync, rcLeft>> /\ \A v \in Slaves : rcPc'[v] = rcPc[v]
  /\ MasterAt' = MasterAt \/ (MasterAt \in {"idle", "fatal", "on_error"} /\ MasterAt' = "idle")

\* What they bring about.
Initiated ==
  /\ TaskInv' /\ InfoInv' /\ (Rebuilding => rcWas' = rcWas)
  /\ rc' \in RcType /\ (rcInfo' = NoInfo \/ rcInfo' \in [Vap -> BOOLEAN])
  /\ rcRlse' \in [n : Nat, q : Seq(Vap)] /\ emergency' \in [Vap -> Seq(Task)]
  /\ rcWas' \subseteq Vap

\* Without a new task nothing changes for the tasks.
LEMMA CallerEnds ==
  ASSUME RcvryTypeOK, TaskInv, Caller, UNCHANGED <<rcRlse, emergency>>
  PROVE  TaskInv' /\ (Attempt' <=> Attempt)
<1>1. MasterAt' = MasterAt \/ (MasterAt \in {"idle", "fatal", "on_error"} /\ MasterAt' = "idle")
  BY DEF Caller
<1>2. (Scheduled' <=> Scheduled) /\ (Syncing' <=> Syncing) /\ (Rebuilding' <=> Rebuilding)
      /\ (MasterAt' = "release" <=> MasterAt = "release")
      /\ (MasterAt' = "finish" <=> MasterAt = "finish")
  BY <1>1 DEF Scheduled, Syncing, Rebuilding, MasterAt
<1>3. ToSync' = ToSync /\ Owed' = Owed
  BY <1>2 DEF Caller, ToSync, Owed
<1>4. MasterInv'
  BY <1>1, <1>2 DEF TaskInv, MasterInv
<1>5. rcSync.q # <<>> => MasterAt' = "sync_wait"
  BY <1>1 DEF TaskInv, SyncInv
<1>6. /\ \A v \in Slaves : emergency'[v] = emergency[v] /\ rcPc'[v] = rcPc[v]
      /\ UNCHANGED <<rcSync, rcRlse>>
      /\ (Scheduled \/ Syncing => (Scheduled \/ Syncing)')
  BY <1>2 DEF Caller
<1>7. TaskInv'
  BY <1>3, <1>4, <1>5, <1>6, TasksKept
<1> QED BY <1>2, <1>7 DEF Attempt

\* The type is UNDEF only between the attempts.
LEMMA UndefinedBetween ==
  ASSUME RcvryTypeOK, TaskInv, InfoInv, rc.type = "UNDEF"
  PROVE  ~Attempt /\ MasterAt \in {"idle", "fatal", "on_error"}
<1>1. ~Attempt
  BY DEF InfoInv
<1>2. MasterAt \in AnyPlace /\ MasterAt \notin {"up", "down", "wait"}
  BY RcvryTypes DEF MasterAt, TaskInv, MasterInv
<1> QED BY <1>1, <1>2 DEF Attempt, Syncing, Rebuilding, MasterAt, AnyPlace

\* Rcvry_initiate does nothing while a recovery runs; else it gives up, or finds
\* no memory, or schedules the next attempt.
LEMMA InitiateEffect ==
  ASSUME RcvryTypeOK, TaskInv, InfoInv, NEW h \in HwType, Initiate(h), Caller
  PROVE  Initiated /\ hw' \in HwType
<1>0. /\ rc \in RcType /\ rcRlse \in [n : Nat, q : Seq(Vap)] /\ emergency \in [Vap -> Seq(Task)]
      /\ (rcInfo = NoInfo \/ rcInfo \in [Vap -> BOOLEAN]) /\ rcWas \subseteq Vap
  BY TypesNow
<1>1. PICK r0 : r0 = [rc EXCEPT !.timer = FALSE]
  OBVIOUS
<1>2. r0 \in RcType /\ r0.error = rc.error /\ r0.type = rc.type
  BY <1>0, <1>1 DEF RcType
<1>3. PICK r : r = DetermineType(r0)
  OBVIOUS
<1>4. r \in RcType /\ r.type # "UNDEF" /\ r.error = rc.error
  BY <1>2, <1>3, Determined
<1>5. h \in HwType /\ [h EXCEPT !.intr = FALSE] \in HwType
  BY DEF HwType
<1>6. CASE rc.type # "UNDEF"
  <2>1. rc' = r0 /\ hw' = h /\ UNCHANGED <<rcInfo, rcRlse, emergency, rcWas>>
    BY <1>1, <1>6 DEF Initiate
  <2>2. TaskInv' /\ (Attempt' <=> Attempt)
    BY <2>1, CallerEnds
  <2>3. InfoInv'
    BY <1>2, <2>1, <2>2 DEF InfoInv
  <2> QED BY <1>0, <1>2, <2>1, <2>2, <2>3 DEF Initiated
<1>7. CASE rc.type = "UNDEF" /\ r.type \in {"NONE", "COMPLETE"}
  <2>1. /\ rc' = [r EXCEPT !.error = FALSE] /\ hw' = h
        /\ rcInfo' = IF rc.error THEN NoInfo ELSE rcInfo
        /\ UNCHANGED <<rcRlse, emergency, rcWas>>
    BY <1>1, <1>3, <1>7 DEF Initiate
  <2>2. TaskInv' /\ ~Attempt'
    BY <1>7, <2>1, CallerEnds, UndefinedBetween
  <2>3. rc' \in RcType /\ rc'.error = FALSE
    BY <1>4, <2>1 DEF RcType
  <2>4. InfoInv'
    BY <2>1, <2>2, <2>3 DEF InfoInv
  <2> QED BY <1>0, <2>1, <2>2, <2>3, <2>4 DEF Initiated
<1>8. CASE rc.type = "UNDEF" /\ r.type \notin {"NONE", "COMPLETE"}
  <2>0. ~Attempt /\ ~Rebuilding /\ MasterAt' \in {"idle", "fatal", "on_error"}
    BY <1>8, UndefinedBetween DEF Attempt, Caller
  <2>1. CASE /\ rc' = [r EXCEPT !.error = FALSE, !.scheduled = TRUE]
             /\ hw' = [h EXCEPT !.intr = FALSE]
             /\ rcInfo' = IF rc.error THEN rcInfo ELSE [v \in Vap |-> v \in Connected]
             /\ rcWas' = IF rc.error THEN rcWas ELSE Connected
             /\ rcRlse' = [rcRlse EXCEPT !.n = @ - 1]
             /\ emergency' = [v \in Vap |-> Append(emergency[v], "recovery")]
    <3>1. /\ TaskInv' /\ Scheduled' /\ rcRlse' \in [n : Nat, q : Seq(Vap)]
          /\ emergency' \in [Vap -> Seq(Task)]
      BY <2>0, <2>1, TasksScheduled DEF Caller
    <3>2. rc' \in RcType /\ rc'.type \in {"FAST", "FULL"} /\ rc'.error = FALSE
      BY <1>4, <1>8, <2>1 DEF RcType
    <3>3. /\ rcInfo' \in [Vap -> BOOLEAN] /\ rcInfo' # NoInfo /\ rcWas' \subseteq Vap
          /\ \A v \in Vap : rcInfo'[v] <=> v \in rcWas'
      <4>1. CASE rc.error
        BY <1>0, <2>1, <4>1 DEF InfoInv
      <4>2. CASE ~rc.error
        <5>1. rcInfo' = [v \in Vap |-> v \in Connected] /\ rcWas' = Connected
          BY <2>1, <4>2
        <5>2. Connected \subseteq Vap /\ MasterVap \in Vap
          BY RcvryConstants DEF Connected
        <5>3. DOMAIN rcInfo' = Vap /\ DOMAIN NoInfo = {}
          BY <5>1 DEF NoInfo
        <5>4. rcInfo' # NoInfo
          BY <5>2, <5>3
        <5>5. rcInfo' \in [Vap -> BOOLEAN]
          BY <5>1
        <5>6. \A v \in Vap : rcInfo'[v] <=> v \in rcWas'
          BY <5>1, Zenon
        <5> QED BY <5>1, <5>2, <5>4, <5>5, <5>6
      <4> QED BY <4>1, <4>2
    <3>4. InfoInv'
      BY <3>2, <3>3 DEF InfoInv
    <3> QED BY <1>5, <2>0, <2>1, <3>1, <3>2, <3>3, <3>4 DEF Initiated
  <2>2. CASE /\ rc' = r /\ hw' = [h EXCEPT !.intr = FALSE] /\ ~rc.error
             /\ UNCHANGED <<rcInfo, rcRlse, emergency, rcWas>>
    <3>1. TaskInv' /\ ~Attempt'
      BY <2>0, <2>2, CallerEnds
    <3>2. InfoInv'
      BY <1>4, <2>2, <3>1 DEF InfoInv
    <3> QED BY <1>0, <1>4, <1>5, <2>2, <3>1, <3>2 DEF Initiated
  <2>3. \/ /\ rc' = [r EXCEPT !.error = FALSE, !.scheduled = TRUE]
           /\ hw' = [h EXCEPT !.intr = FALSE]
           /\ rcInfo' = IF rc.error THEN rcInfo ELSE [v \in Vap |-> v \in Connected]
           /\ rcWas' = IF rc.error THEN rcWas ELSE Connected
           /\ rcRlse' = [rcRlse EXCEPT !.n = @ - 1]
           /\ emergency' = [v \in Vap |-> Append(emergency[v], "recovery")]
        \/ /\ rc' = r /\ hw' = [h EXCEPT !.intr = FALSE] /\ ~rc.error
           /\ UNCHANGED <<rcInfo, rcRlse, emergency, rcWas>>
    BY <1>1, <1>3, <1>8, Zenon DEF Initiate
  <2> QED BY <2>1, <2>2, <2>3
<1> QED BY <1>6, <1>7, <1>8

\* MTLK_HW_RESET.
LEMMA ResetEffect ==
  ASSUME RcvryTypeOK, TaskInv, InfoInv, NEW h \in HwType, HwReset(h), Caller
  PROVE  Initiated /\ hw' \in HwType
<1>1. CASE hw.ready /\ ~rc.scheduled
  <2>1. [h EXCEPT !.alive = FALSE] \in HwType
    BY DEF HwType
  <2>2. Initiate([h EXCEPT !.alive = FALSE])
    BY <1>1 DEF HwReset
  <2> QED BY <2>1, <2>2, InitiateEffect
<1>2. CASE ~(hw.ready /\ ~rc.scheduled)
  <2>1. hw' = h /\ UNCHANGED <<rc, rcInfo, rcRlse, emergency, rcWas>>
    BY <1>2 DEF HwReset
  <2>2. TaskInv' /\ (Attempt' <=> Attempt)
    BY <2>1, CallerEnds
  <2>3. InfoInv'
    BY <2>1, <2>2 DEF InfoInv
  <2> QED BY <2>1, <2>2, <2>3, TypesNow DEF Initiated
<1> QED BY <1>1, <1>2

\* Mtlk_core_set_net_state(NET_STATE_HALTED).
LEMMA HaltedEffect ==
  ASSUME RcvryTypeOK, TaskInv, InfoInv, NEW v \in Vap, NEW h \in HwType, SetHalted(v, h), Caller
  PROVE  Initiated /\ hw' \in HwType /\ net' \in [Vap -> NetState]
<1>1. net' \in [Vap -> NetState]
  BY TypesNow DEF SetHalted, NetState
<1>2. CASE net[v] # "HALTED"
  BY <1>1, <1>2, ResetEffect DEF SetHalted
<1>3. CASE net[v] = "HALTED"
  <2>1. hw' = h /\ UNCHANGED <<rc, rcInfo, rcRlse, emergency, rcWas>>
    BY <1>3 DEF SetHalted
  <2>2. TaskInv' /\ (Attempt' <=> Attempt)
    BY <2>1, CallerEnds
  <2>3. InfoInv'
    BY <2>1, <2>2 DEF InfoInv
  <2> QED BY <1>1, <2>1, <2>2, <2>3, TypesNow DEF Initiated
<1> QED BY <1>2, <1>3

-----------------------------------------------------------------------------
(***************************************************************************)
(* Every action preserves the invariant.                                   *)
(***************************************************************************)

\* A caller of rcvry_initiate preserves the invariant.
LEMMA CallerKeeps ==
  ASSUME RcvryInv, Caller, Initiated, hw' \in HwType, net' \in [Vap -> NetState],
         rcPc' \in [Vap -> AnyPlace], fatalTask' \in BOOLEAN,
         MasterAt' = "finalize" => UNCHANGED net
  PROVE  RcvryInv'
<1>1. RcvryTypeOK'
  <2>1. rcSync' \in [n : Nat, q : Seq(Vap)] /\ rcLeft' \in 0 .. Cardinality(Vap)
    BY TypesNow DEF RcvryInv, Caller
  <2> QED BY <2>1, TypesKept DEF Initiated
<1>2. RcvryRestores'
  <2> SUFFICES ASSUME MasterAt' = "finalize"
               PROVE  \A v \in Vap : net'[v] = "CONNECTED" <=> v \in rcWas'
    BY DEF RcvryRestores, MasterAt
  <2>1. MasterAt = "finalize" /\ UNCHANGED net
    BY DEF Caller
  <2>2. rcWas' = rcWas
    BY <2>1 DEF Initiated, Rebuilding, MasterAt
  <2> QED BY <2>1, <2>2 DEF RcvryInv, RcvryRestores, MasterAt
<1> QED BY <1>1, <1>2 DEF RcvryInv, Initiated

\* A reset may be asked for at any time, also while the master rebuilds.
LEMMA ResetAskedKeeps ==
  ASSUME RcvryInv, ResetAsked PROVE RcvryInv'
<1>1. HwReset(hw) /\ UNCHANGED <<rcSync, fatalTask, rcPc, rcLeft, net>>
  BY DEF ResetAsked
<1>2. Caller
  BY <1>1 DEF Caller, MasterAt
<1>3. hw \in HwType /\ net' \in [Vap -> NetState] /\ rcPc' \in [Vap -> AnyPlace] /\ fatalTask' \in BOOLEAN
  BY <1>1, TypesNow DEF RcvryInv
<1>4. Initiated /\ hw' \in HwType
  BY <1>1, <1>2, <1>3, ResetEffect DEF RcvryInv
<1> QED BY <1>1, <1>2, <1>3, <1>4, CallerKeeps

\* The watchdog finds a firmware that died without an indication.
LEMMA WatchdogKeeps ==
  ASSUME RcvryInv, Watchdog PROVE RcvryInv'
<1>1. /\ MasterAt = "idle" /\ SetHalted(MasterVap, [hw EXCEPT !.wdog = FALSE])
      /\ UNCHANGED <<rcSync, fatalTask, rcPc, rcLeft>>
  BY DEF Watchdog, MasterAt
<1>2. Caller /\ MasterAt' = "idle"
  BY <1>1 DEF Caller, MasterAt
<1>3. /\ [hw EXCEPT !.wdog = FALSE] \in HwType /\ rcPc' \in [Vap -> AnyPlace]
      /\ fatalTask' \in BOOLEAN /\ MasterVap \in Vap
  BY <1>1, TypesNow, RcvryTypes DEF RcvryInv, HwType
<1>4. Initiated /\ hw' \in HwType /\ net' \in [Vap -> NetState]
  BY <1>1, <1>2, <1>3, HaltedEffect DEF RcvryInv
<1> QED BY <1>2, <1>3, <1>4, CallerKeeps

\* The task of the master ends.
LEMMA MasterEnds ==
  ASSUME RcvryTypeOK, MasterAt \in {"idle", "fatal", "on_error"}, Goto(MasterVap, "idle"),
         UNCHANGED <<rcSync, rcLeft>>
  PROVE  Caller /\ MasterAt' = "idle" /\ rcPc' \in [Vap -> AnyPlace]
<1>1. rcPc \in [Vap -> AnyPlace] /\ MasterVap \in Vap /\ Slaves \subseteq Vap /\ MasterVap \notin Slaves
  BY RcvryTypes
<1>2. MasterAt' = "idle" /\ \A v \in Slaves : rcPc'[v] = rcPc[v]
  BY <1>1 DEF Goto, MasterAt
<1>3. rcPc' \in [Vap -> AnyPlace]
  BY <1>1 DEF Goto, AnyPlace
<1> QED BY <1>2, <1>3 DEF Caller

\* An exception is handled after whatever was queued before it.
LEMMA MacHangKeeps ==
  ASSUME RcvryInv, MacHang PROVE RcvryInv'
<1>1. MasterAt = "fatal" /\ Goto(MasterVap, "idle") /\ UNCHANGED <<rcSync, fatalTask, rcLeft>>
  BY DEF MacHang, MasterAt
<1>2. Caller /\ MasterAt' = "idle" /\ rcPc' \in [Vap -> AnyPlace]
  BY <1>1, MasterEnds DEF RcvryInv
<1>3. /\ [hw EXCEPT !.ready = FALSE] \in HwType /\ fatalTask' \in BOOLEAN /\ MasterVap \in Vap
  BY <1>1, TypesNow, RcvryTypes DEF RcvryInv, HwType
<1>4. CASE hw.pending
  <2>1. SetHalted(MasterVap, [hw EXCEPT !.ready = FALSE])
    BY <1>4 DEF MacHang
  <2>2. Initiated /\ hw' \in HwType /\ net' \in [Vap -> NetState]
    BY <1>2, <1>3, <2>1, HaltedEffect DEF RcvryInv
  <2> QED BY <1>2, <1>3, <2>2, CallerKeeps
<1>5. CASE ~hw.pending
  <2>1. UNCHANGED <<rc, rcInfo, rcRlse, emergency, net, hw, rcWas>>
    BY <1>5 DEF MacHang
  <2>2. TaskInv' /\ (Attempt' <=> Attempt)
    BY <1>2, <2>1, CallerEnds DEF RcvryInv
  <2>3. InfoInv'
    BY <2>1, <2>2 DEF RcvryInv, InfoInv
  <2>4. Initiated /\ hw' \in HwType /\ net' \in [Vap -> NetState]
    BY <2>1, <2>2, <2>3, TypesNow DEF Initiated, RcvryInv
  <2> QED BY <1>2, <1>3, <2>4, CallerKeeps
<1> QED BY <1>4, <1>5

\* A failed attempt is followed by the next one.
LEMMA OnErrorKeeps ==
  ASSUME RcvryInv, OnError PROVE RcvryInv'
<1>1. /\ MasterAt = "on_error" /\ Goto(MasterVap, "idle") /\ UNCHANGED <<rcSync, fatalTask, rcLeft>>
      /\ net' = [v \in Vap |-> "HALTED"] /\ Initiate(hw)
  BY DEF OnError, MasterAt
<1>2. Caller /\ MasterAt' = "idle" /\ rcPc' \in [Vap -> AnyPlace]
  BY <1>1, MasterEnds DEF RcvryInv
<1>3. hw \in HwType /\ fatalTask' \in BOOLEAN /\ net' \in [Vap -> NetState]
  BY <1>1, TypesNow DEF RcvryInv, NetState
<1>4. Initiated /\ hw' \in HwType
  BY <1>1, <1>2, <1>3, InitiateEffect DEF RcvryInv
<1> QED BY <1>2, <1>3, <1>4, CallerKeeps

\* The table of VAPs stays.
LEMMA InfoKept ==
  ASSUME InfoInv, UNCHANGED <<rcInfo, rcWas>>, Attempt' => Attempt, rc'.type = rc.type,
         rc'.error => rc.error \/ Attempt
  PROVE  InfoInv'
BY DEF InfoInv

\* Nothing is restored in this step.
LEMMA RestoresKept ==
  ASSUME RcvryRestores, UNCHANGED rcWas, MasterAt' = "finalize" => MasterAt = "finalize" /\ UNCHANGED net
  PROVE  RcvryRestores'
BY DEF RcvryRestores, MasterAt

\* An exception that is queued on the master is not a recovery.
LEMMA FwDiesKeeps ==
  ASSUME RcvryInv, FwDies PROVE RcvryInv'
<1>1. UNCHANGED <<rc, rcInfo, rcSync, rcRlse, rcPc, rcLeft, net, rcWas>>
  BY DEF FwDies
<1>2. /\ rc \in RcType /\ (rcInfo = NoInfo \/ rcInfo \in [Vap -> BOOLEAN])
      /\ rcSync \in [n : Nat, q : Seq(Vap)] /\ rcRlse \in [n : Nat, q : Seq(Vap)]
      /\ emergency \in [Vap -> Seq(Task)] /\ fatalTask \in BOOLEAN /\ rcPc \in [Vap -> AnyPlace]
      /\ rcLeft \in 0 .. Cardinality(Vap) /\ net \in [Vap -> NetState] /\ hw \in HwType
      /\ rcWas \subseteq Vap /\ MasterVap \in Vap /\ Slaves \subseteq Vap /\ MasterVap \notin Slaves
  BY TypesNow, RcvryTypes DEF RcvryInv
<1>3. hw' \in HwType /\ fatalTask' \in BOOLEAN
  BY <1>2 DEF FwDies, HwType
<1>4. CASE UNCHANGED emergency
  <2>1. /\ \A v \in Slaves : rcPc'[v] = rcPc[v]
        /\ MasterAt' = MasterAt /\ UNCHANGED <<rcSync, rcLeft, rcRlse, emergency>>
    BY <1>1, <1>4 DEF MasterAt
  <2>2. TaskInv' /\ (Attempt' <=> Attempt)
    BY <2>1, CallerEnds DEF Caller, RcvryInv
  <2>3. InfoInv' /\ RcvryRestores'
    BY <1>1, <2>1, <2>2, InfoKept, RestoresKept DEF RcvryInv
  <2>4. RcvryTypeOK'
    BY <1>1, <1>2, <1>3, <1>4, TypesKept
  <2> QED BY <2>2, <2>3, <2>4 DEF RcvryInv
<1>5. CASE emergency' = [emergency EXCEPT ![MasterVap] = Append(@, "fatal")]
  <2>1. /\ emergency'[MasterVap] = Append(emergency[MasterVap], "fatal")
        /\ \A v \in Slaves : emergency'[v] = emergency[v] /\ rcPc'[v] = rcPc[v]
        /\ emergency[MasterVap] \in Seq(Task) /\ OneRecovery(emergency[MasterVap])
        /\ "fatal" \in Task /\ "fatal" # "recovery"
    BY <1>1, <1>2, <1>5 DEF Task, RcvryInv, TaskInv, MasterInv
  <2>2. /\ Append(emergency[MasterVap], "fatal") \in Seq(Task)
        /\ OneRecovery(Append(emergency[MasterVap], "fatal"))
        /\ Elems(Append(emergency[MasterVap], "fatal")) = Elems(emergency[MasterVap]) \cup {"fatal"}
    BY <2>1, TaskQueued
  <2>3. MasterAt' = MasterAt /\ (Scheduled' <=> Scheduled) /\ emergency' \in [Vap -> Seq(Task)]
    BY <1>1, <1>2, <1>5, <2>1, <2>2 DEF MasterAt, Scheduled
  <2>4. (Syncing' <=> Syncing) /\ (Rebuilding' <=> Rebuilding)
    BY <1>1 DEF Syncing, Rebuilding, MasterAt
  <2>5. ToSync' = ToSync /\ Owed' = Owed /\ (Attempt' <=> Attempt)
    BY <1>1, <2>3, <2>4 DEF ToSync, Owed, Attempt
  <2>6. MasterInv'
    BY <2>1, <2>2, <2>3 DEF RcvryInv, TaskInv, MasterInv
  <2>7. rcSync.q # <<>> => MasterAt' = "sync_wait"
    BY <2>3 DEF RcvryInv, TaskInv, SyncInv
  <2>8. TaskInv'
    BY <1>1, <2>1, <2>3, <2>4, <2>5, <2>6, <2>7, TasksKept DEF RcvryInv
  <2>9. InfoInv' /\ RcvryRestores'
    BY <1>1, <2>3, <2>5, InfoKept, RestoresKept DEF RcvryInv
  <2>10. RcvryTypeOK'
    BY <1>1, <1>2, <1>3, <2>3, TypesKept
  <2> QED BY <2>8, <2>9, <2>10 DEF RcvryInv
<1> QED BY <1>4, <1>5 DEF FwDies

\* The counters of attempts and the forced type are not part of the tasks.
LEMMA SettingsKeep ==
  ASSUME RcvryInv, FailTimer \/ ForceNone PROVE RcvryInv'
<1>1. /\ UNCHANGED <<rcInfo, rcSync, rcRlse, emergency, fatalTask, rcPc, rcLeft, net, hw, rcWas>>
      /\ rc' \in RcType /\ rc'.type = rc.type /\ rc'.error = rc.error
  <2>1. rc \in RcType /\ FastNum \in Nat /\ FullNum \in Nat
    BY TypesNow, RcvryConstants DEF RcvryInv
  <2>2. 0 \in 0 .. FastNum /\ 0 \in 0 .. FullNum
    BY <2>1
  <2>3. CASE FailTimer
    BY <2>1, <2>2, <2>3 DEF FailTimer, RcType
  <2>4. CASE ForceNone
    BY <2>1, <2>4 DEF ForceNone, RcType
  <2> QED BY <2>3, <2>4
<1>2. MasterAt' = MasterAt /\ Caller
  BY <1>1 DEF MasterAt, Caller
<1>3. TaskInv' /\ (Attempt' <=> Attempt)
  BY <1>1, <1>2, CallerEnds DEF RcvryInv
<1>4. InfoInv' /\ RcvryRestores'
  BY <1>1, <1>2, <1>3, InfoKept, RestoresKept DEF RcvryInv
<1>5. RcvryTypeOK'
  BY <1>1, TypesNow, TypesKept DEF RcvryInv
<1> QED BY <1>3, <1>4, <1>5 DEF RcvryInv

\* No VAP changes its state between its restoration and the end of the recovery:
\* its serializer waits.
LEMMA VapTogglesKeeps ==
  ASSUME RcvryInv, NEW v \in Vap, VapToggles(v) PROVE RcvryInv'
<1>1. /\ UNCHANGED <<rc, rcInfo, rcSync, rcRlse, emergency, fatalTask, rcPc, rcLeft, hw, rcWas>>
      /\ rcPc[v] = "idle" /\ net' = [net EXCEPT ![v] = IF @ = "READY" THEN "CONNECTED" ELSE "READY"]
  BY DEF VapToggles
<1>2. MasterAt' = MasterAt /\ Caller
  BY <1>1 DEF MasterAt, Caller
<1>3. TaskInv' /\ (Attempt' <=> Attempt)
  BY <1>1, <1>2, CallerEnds DEF RcvryInv
<1>4. MasterAt # "finalize"
  <2>1. v \in Slaves \/ v = MasterVap
    BY DEF Slaves
  <2> QED BY <1>1, <2>1, Alone DEF RcvryInv, Rebuilding, MasterAt
<1>5. InfoInv' /\ RcvryRestores'
  BY <1>1, <1>2, <1>3, <1>4, InfoKept, RestoresKept DEF RcvryInv
<1>6. net' \in [Vap -> NetState]
  BY <1>1, TypesNow DEF RcvryInv, NetState
<1>7. RcvryTypeOK'
  BY <1>1, <1>6, TypesNow, TypesKept DEF RcvryInv
<1> QED BY <1>3, <1>5, <1>7 DEF RcvryInv

\* A serializer takes an emergency task.
LEMMA TakeTaskKeeps ==
  ASSUME RcvryInv, NEW v \in Vap, TakeTask(v) PROVE RcvryInv'
<1>1. UNCHANGED <<rc, rcInfo, rcSync, rcRlse, fatalTask, net, hw, rcWas>>
  BY DEF TakeTask
<1>2. CASE v = MasterVap
  <2>1. /\ TaskInv' /\ emergency' \in [Vap -> Seq(Task)] /\ rcLeft' \in 0 .. Cardinality(Vap)
        /\ (Attempt' <=> Attempt) /\ MasterAt' # "finalize" /\ rcPc' \in [Vap -> AnyPlace]
    BY <1>2, MasterTakes DEF RcvryInv, InfoInv
  <2>2. InfoInv' /\ RcvryRestores'
    BY <1>1, <2>1, InfoKept, RestoresKept DEF RcvryInv
  <2>3. RcvryTypeOK'
    BY <1>1, <2>1, TypesNow, TypesKept DEF RcvryInv
  <2> QED BY <2>1, <2>2, <2>3 DEF RcvryInv
<1>3. CASE v \in Slaves
  <2>1. /\ TaskInv' /\ UNCHANGED rcLeft /\ (Attempt' <=> Attempt)
        /\ emergency' \in [Vap -> Seq(Task)] /\ rcPc' = [rcPc EXCEPT ![v] = "up"]
    BY <1>3, SlaveTakes DEF RcvryInv
  <2>2. rcPc \in [Vap -> AnyPlace] /\ MasterVap # v
    BY <1>3, RcvryTypes DEF RcvryInv
  <2>3. rcPc' \in [Vap -> AnyPlace] /\ MasterAt' = MasterAt
    BY <2>1, <2>2 DEF AnyPlace, MasterAt
  <2>4. InfoInv' /\ RcvryRestores'
    BY <1>1, <2>1, <2>3, InfoKept, RestoresKept DEF RcvryInv
  <2>5. RcvryTypeOK'
    BY <1>1, <2>1, <2>3, TypesNow, TypesKept DEF RcvryInv
  <2> QED BY <2>1, <2>4, <2>5 DEF RcvryInv
<1> QED BY <1>2, <1>3 DEF Slaves

\* The master never runs the task of a slave.
LEMMA SlaveStepKeeps ==
  ASSUME RcvryInv, NEW v \in Vap, SlaveStep(v) PROVE RcvryInv'
<1>1. v \in Slaves
  <2>1. rcPc[v] \in {"up", "down", "wait"}
    BY DEF SlaveStep, SlaveUp, SlaveDown, SlaveWakes
  <2>2. v # MasterVap
    BY <2>1 DEF RcvryInv, TaskInv, MasterInv, MasterAt
  <2> QED BY <2>2 DEF Slaves
<1>2. UNCHANGED <<rc, rcInfo, emergency, fatalTask, rcLeft, net, hw, rcWas>>
  BY DEF SlaveStep, SlaveUp, SlaveDown, SlaveWakes
<1>3. \E p \in {"idle", "down", "wait"} : Goto(v, p)
  BY DEF SlaveStep, SlaveUp, SlaveDown, SlaveWakes
<1>4. MasterAt' = MasterAt /\ (Attempt' <=> Attempt) /\ rcPc' \in [Vap -> AnyPlace]
  BY <1>1, <1>2, <1>3, SlaveMoves DEF RcvryInv
<1>5. InfoInv' /\ RcvryRestores'
  BY <1>2, <1>4, InfoKept, RestoresKept DEF RcvryInv
<1>6. TaskInv' /\ rcSync' \in [n : Nat, q : Seq(Vap)] /\ rcRlse' \in [n : Nat, q : Seq(Vap)]
  <2>1. CASE SlaveUp(v)
    <3>1. UNCHANGED rcRlse
      BY <2>1 DEF SlaveUp
    <3> QED BY <1>1, <2>1, <3>1, SlaveReports, TypesNow DEF RcvryInv
  <2>2. CASE SlaveDown(v)
    <3>1. UNCHANGED rcSync
      BY <2>2 DEF SlaveDown
    <3> QED BY <1>1, <2>2, <3>1, SlaveWaits, TypesNow DEF RcvryInv
  <2>3. CASE SlaveWakes(v)
    <3>1. UNCHANGED <<rcSync, rcRlse>>
      BY <2>3 DEF SlaveWakes
    <3> QED BY <1>1, <2>3, <3>1, SlaveDone, TypesNow DEF RcvryInv
  <2> QED BY <2>1, <2>2, <2>3 DEF SlaveStep
<1>7. RcvryTypeOK'
  BY <1>2, <1>4, <1>6, TypesNow, TypesKept DEF RcvryInv
<1> QED BY <1>5, <1>6, <1>7 DEF RcvryInv

\* The master at a place outside the synchronisation sleeps on nothing.
LEMMA NotAsleep ==
  ASSUME RcvryInv, MasterAt # "sync_wait"
  PROVE  /\ rcSync.q = <<>>
         /\ MasterAt \notin {"idle", "fatal", "on_error"} => ~Scheduled
BY DEF RcvryInv, TaskInv, SyncInv, MasterInv

\* The master waits for the slaves, or takes an exception.
LEMMA SyncKeeps ==
  ASSUME RcvryInv, MasterSync \/ MasterStarts \/ MasterWakes \/ TakeFatal PROVE RcvryInv'
<1>1. /\ UNCHANGED <<rcInfo, rcRlse, emergency, net, hw, rcWas>>
      /\ rc' \in RcType /\ rc'.type = rc.type /\ rc'.error = rc.error /\ fatalTask' \in BOOLEAN
  <2>1. rc \in RcType /\ fatalTask \in BOOLEAN
    BY TypesNow DEF RcvryInv
  <2>2. CASE MasterStarts
    BY <2>1, <2>2 DEF MasterStarts, RcType
  <2>3. CASE MasterSync \/ MasterWakes \/ TakeFatal
    BY <2>1, <2>3 DEF MasterSync, MasterWakes, TakeFatal
  <2> QED BY <2>2, <2>3
<1>2. \/ MasterAt \in {"sync", "sync_wait"}
         /\ \E p \in {"sync", "sync_wait", "isolate"} : Goto(MasterVap, p)
      \/ MasterAt = "idle" /\ Goto(MasterVap, "fatal")
  BY DEF MasterSync, MasterStarts, MasterWakes, TakeFatal, MasterAt
<1>3. /\ MasterAt' # "finalize" /\ rcPc' \in [Vap -> AnyPlace] /\ (Scheduled' <=> Scheduled)
      /\ \/ MasterAt \in {"sync", "sync_wait"} /\ MasterAt' \in {"sync", "sync_wait", "isolate"}
         \/ MasterAt = "idle" /\ MasterAt' = "fatal"
  <2>1. {"sync", "sync_wait", "isolate", "fatal"} \subseteq Place
    BY DEF Place
  <2> QED BY <1>1, <1>2, <2>1, MasterMoves DEF RcvryInv
<1>4. Attempt' <=> Attempt
  BY <1>3 DEF Attempt, Syncing, Rebuilding, MasterAt
<1>5. InfoInv' /\ RcvryRestores'
  BY <1>1, <1>3, <1>4, InfoKept, RestoresKept DEF RcvryInv
<1>6. /\ TaskInv' /\ rcSync' \in [n : Nat, q : Seq(Vap)] /\ rcLeft' \in 0 .. Cardinality(Vap)
  <2>1. CASE MasterSync
    BY <2>1, MasterSyncs DEF RcvryInv
  <2>2. CASE MasterStarts
    <3>1. UNCHANGED rcLeft
      BY <2>2 DEF MasterStarts
    <3> QED BY <2>2, <3>1, MasterBegins, TypesNow DEF RcvryInv
  <2>3. CASE MasterWakes
    <3>1. /\ MasterAt = "sync_wait" /\ ~Sleeps(rcSync, MasterVap) /\ Goto(MasterVap, "sync")
          /\ UNCHANGED <<rcSync, rcLeft>>
      BY <2>3 DEF MasterWakes, MasterAt
    <3>2. rcSync.q = <<>>
      <4>1. rcSync.q # <<MasterVap>>
        <5> SUFFICES ASSUME rcSync.q = <<MasterVap>> PROVE FALSE
          OBVIOUS
        <5>1. 1 \in 1 .. Len(rcSync.q) /\ rcSync.q[1] = MasterVap
          OBVIOUS
        <5> QED BY <3>1, <5>1 DEF Sleeps
      <4> QED BY <4>1 DEF RcvryInv, TaskInv, SyncInv
    <3>3. TaskInv'
      BY <1>1, <3>1, <3>2, MasterGoesOn DEF RcvryInv, Place
    <3> QED BY <3>1, <3>3, TypesNow DEF RcvryInv
  <2>4. CASE TakeFatal
    <3>1. MasterAt = "idle" /\ Goto(MasterVap, "fatal") /\ UNCHANGED <<rcSync, rcLeft>>
      BY <2>4 DEF TakeFatal, MasterAt
    <3>2. TaskInv'
      BY <1>1, <3>1, NotAsleep, MasterGoesOn DEF RcvryInv, Place
    <3> QED BY <3>1, <3>2, TypesNow DEF RcvryInv
  <2> QED BY <2>1, <2>2, <2>3, <2>4
<1>7. RcvryTypeOK'
  BY <1>1, <1>3, <1>6, TypesNow, TypesKept DEF RcvryInv
<1> QED BY <1>5, <1>6, <1>7 DEF RcvryInv

\* A step of the master that rebuilds the card: it goes on, or fails and releases
\* the slaves.
LEMMA RebuildingMoves ==
  ASSUME RcvryInv, Rebuilding, UNCHANGED <<rcInfo, rcSync, rcRlse, emergency, rcWas>>,
         NEW p \in {"restore", "configure", "finalize", "release"}, Goto(MasterVap, p),
         p = "release" => rcLeft' = Cardinality(DOMAIN rcInfo),
         p # "release" => UNCHANGED rcLeft,
         rc'.type = rc.type
  PROVE  /\ TaskInv' /\ InfoInv' /\ MasterAt' = p /\ rcPc' \in [Vap -> AnyPlace]
         /\ rcLeft' \in 0 .. Cardinality(Vap)
<1>1. Attempt /\ MasterAt # "sync_wait"
  BY DEF Attempt, Rebuilding, MasterAt
<1>2. rcSync.q = <<>> /\ rcInfo # NoInfo
  BY <1>1, NotAsleep DEF RcvryInv, InfoInv
<1>3. DOMAIN rcInfo = Vap
  BY <1>2, RcvryTypes DEF RcvryInv
<1>4. p \in Place
  BY DEF Place
<1>5. TaskInv'
  <2>1. CASE p = "release"
    BY <1>2, <1>3, <1>4, <2>1, MasterGoesOn DEF RcvryInv
  <2>2. CASE p # "release"
    BY <1>2, <1>4, <2>2, MasterGoesOn DEF RcvryInv
  <2> QED BY <2>1, <2>2
<1>6. MasterAt' = p /\ rcPc' \in [Vap -> AnyPlace]
  BY <1>4, MasterMoves DEF RcvryInv
<1>7. InfoInv'
  BY <1>1, InfoKept DEF RcvryInv
<1>8. rcLeft' \in 0 .. Cardinality(Vap)
  BY <1>3, TypesNow, Counts DEF RcvryInv
<1> QED BY <1>5, <1>6, <1>7, <1>8

\* The VAPs are halted.
LEMMA IsolateKeeps ==
  ASSUME RcvryInv, Isolate PROVE RcvryInv'
<1>1. /\ MasterAt = "isolate" /\ Goto(MasterVap, "restore") /\ net' = [v \in Vap |-> "HALTED"]
      /\ hw' = [hw EXCEPT !.wdog = FALSE, !.alive = FALSE]
      /\ UNCHANGED <<rc, rcInfo, rcSync, rcRlse, emergency, fatalTask, rcLeft, rcWas>>
  BY DEF Isolate, MasterAt
<1>2. Rebuilding
  BY <1>1 DEF Rebuilding, MasterAt
<1>3. /\ TaskInv' /\ InfoInv' /\ MasterAt' = "restore" /\ rcPc' \in [Vap -> AnyPlace]
  BY <1>1, <1>2, RebuildingMoves
<1>4. net' \in [Vap -> NetState] /\ hw' \in HwType
  BY <1>1, TypesNow DEF RcvryInv, NetState, HwType
<1>5. RcvryTypeOK'
  BY <1>1, <1>3, <1>4, TypesNow, TypesKept DEF RcvryInv
<1>6. RcvryRestores'
  BY <1>1, <1>3, RestoresKept DEF RcvryInv
<1> QED BY <1>3, <1>5, <1>6 DEF RcvryInv

\* The hardware and some or all VAPs are restored.
LEMMA RestoreKeeps ==
  ASSUME RcvryInv, Restore PROVE RcvryInv'
<1>1. /\ MasterAt = "restore" /\ UNCHANGED <<rcInfo, rcSync, rcRlse, emergency, fatalTask, rcWas>>
  BY DEF Restore, MasterAt
<1>2. Rebuilding
  BY <1>1 DEF Rebuilding, MasterAt
<1>3. hw \in HwType /\ net \in [Vap -> NetState] /\ rc \in RcType
  BY TypesNow DEF RcvryInv
<1>4. hw' \in HwType
  <2>1. [hw EXCEPT !.pending = FALSE, !.ready = FALSE, !.intr = TRUE] \in HwType
    BY <1>3 DEF HwType
  <2>2. \A done \in SUBSET Vap : HwRestored(done) \in HwType
    BY DEF HwRestored, HwType
  <2> QED BY <2>1, <2>2 DEF Restore
<1>5. net' \in [Vap -> NetState]
  <2>1. CASE UNCHANGED net
    BY <1>3, <2>1
  <2>2. CASE \E done \in SUBSET Vap : net' = [v \in Vap |-> IF v \in done THEN "IDLE" ELSE net[v]]
    BY <1>3, <2>2 DEF NetState
  <2> QED BY <2>1, <2>2 DEF Restore
<1>6. \/ Failed
      \/ Goto(MasterVap, "configure") /\ UNCHANGED <<rc, rcLeft>>
  BY DEF Restore
<1>7. \E p \in {"configure", "release"} :
        /\ Goto(MasterVap, p) /\ rc' \in RcType /\ rc'.type = rc.type
        /\ p = "release" => rcLeft' = Cardinality(DOMAIN rcInfo)
        /\ p # "release" => UNCHANGED rcLeft
  <2>1. CASE Failed
    <3>1. Goto(MasterVap, "release") /\ rcLeft' = Cardinality(DOMAIN rcInfo)
      BY <2>1 DEF Failed
    <3>2. rc' \in RcType /\ rc'.type = rc.type
      BY <1>3, <2>1 DEF Failed, RcType
    <3> QED BY <3>1, <3>2
  <2> QED BY <1>3, <1>6, <2>1
<1>8. PICK p \in {"configure", "release"} :
        /\ Goto(MasterVap, p) /\ rc' \in RcType /\ rc'.type = rc.type
        /\ p = "release" => rcLeft' = Cardinality(DOMAIN rcInfo)
        /\ p # "release" => UNCHANGED rcLeft
  BY <1>7
<1>9. /\ TaskInv' /\ InfoInv' /\ MasterAt' = p /\ rcPc' \in [Vap -> AnyPlace]
      /\ rcLeft' \in 0 .. Cardinality(Vap)
  BY <1>1, <1>2, <1>8, RebuildingMoves
<1>10. RcvryTypeOK'
  BY <1>1, <1>4, <1>5, <1>8, <1>9, TypesNow, TypesKept DEF RcvryInv
<1>11. RcvryRestores'
  BY <1>1, <1>9, RestoresKept DEF RcvryInv
<1> QED BY <1>9, <1>10, <1>11 DEF RcvryInv

\* Configuring all VAPs brings back those of the table.
LEMMA ConfigureKeeps ==
  ASSUME RcvryInv, Configure PROVE RcvryInv'
<1>1. /\ MasterAt = "configure" /\ UNCHANGED <<rcInfo, rcSync, rcRlse, emergency, fatalTask, hw, rcWas>>
  BY DEF Configure, MasterAt
<1>2. Rebuilding /\ Attempt
  BY <1>1 DEF Rebuilding, Attempt, MasterAt
<1>3. /\ net \in [Vap -> NetState] /\ rc \in RcType
      /\ \A v \in Vap : CoreConfigured(v) \in NetState
  BY TypesNow DEF RcvryInv, CoreConfigured, NetState
<1>4. PICK done \in SUBSET Vap :
        /\ net' = [v \in Vap |-> IF v \in done THEN CoreConfigured(v) ELSE net[v]]
        /\ IF done = Vap THEN Goto(MasterVap, "finalize") /\ UNCHANGED <<rc, rcLeft>> ELSE Failed
  BY DEF Configure
<1>5. net' \in [Vap -> NetState]
  BY <1>3, <1>4
<1>6. CASE done = Vap
  <2>1. Goto(MasterVap, "finalize") /\ UNCHANGED <<rc, rcLeft>>
    BY <1>4, <1>6
  <2>2. /\ TaskInv' /\ InfoInv' /\ MasterAt' = "finalize" /\ rcPc' \in [Vap -> AnyPlace]
        /\ rcLeft' \in 0 .. Cardinality(Vap)
    BY <1>1, <1>2, <2>1, RebuildingMoves
  <2>3. RcvryTypeOK'
    BY <1>1, <1>5, <2>1, <2>2, TypesNow, TypesKept DEF RcvryInv
  <2>4. RcvryRestores'
    <3>1. \A v \in Vap : rcInfo[v] <=> v \in rcWas
      BY <1>2 DEF RcvryInv, InfoInv
    <3>2. \A v \in Vap : net'[v] = CoreConfigured(v)
      BY <1>4, <1>6
    <3>3. \A v \in Vap : net'[v] = "CONNECTED" <=> rcInfo[v]
      BY <3>2 DEF CoreConfigured
    <3> QED BY <1>1, <3>1, <3>3 DEF RcvryRestores
  <2> QED BY <2>2, <2>3, <2>4 DEF RcvryInv
<1>7. CASE done # Vap
  <2>1. Goto(MasterVap, "release") /\ rcLeft' = Cardinality(DOMAIN rcInfo)
    BY <1>4, <1>7 DEF Failed
  <2>2. rc' \in RcType /\ rc'.type = rc.type
    BY <1>3, <1>4, <1>7 DEF Failed, RcType
  <2>3. /\ TaskInv' /\ InfoInv' /\ MasterAt' = "release" /\ rcPc' \in [Vap -> AnyPlace]
        /\ rcLeft' \in 0 .. Cardinality(Vap)
    BY <1>1, <1>2, <2>1, <2>2, RebuildingMoves
  <2>4. RcvryTypeOK'
    BY <1>1, <1>5, <2>2, <2>3, TypesNow, TypesKept DEF RcvryInv
  <2>5. RcvryRestores'
    BY <1>1, <2>3, RestoresKept DEF RcvryInv
  <2> QED BY <2>3, <2>4, <2>5 DEF RcvryInv
<1> QED BY <1>6, <1>7

\* The card is rebuilt; the slaves are still blocked.
LEMMA FinalizeKeeps ==
  ASSUME RcvryInv, Finalize PROVE RcvryInv'
<1>1. /\ MasterAt = "finalize" /\ Goto(MasterVap, "release") /\ rc' = [rc EXCEPT !.timer = TRUE]
      /\ rcLeft' = Cardinality(DOMAIN rcInfo)
      /\ UNCHANGED <<rcInfo, rcSync, rcRlse, emergency, fatalTask, net, hw, rcWas>>
  BY DEF Finalize, MasterAt
<1>2. Rebuilding
  BY <1>1 DEF Rebuilding, MasterAt
<1>3. rc' \in RcType /\ rc'.type = rc.type
  BY <1>1, TypesNow DEF RcvryInv, RcType
<1>4. /\ TaskInv' /\ InfoInv' /\ MasterAt' = "release" /\ rcPc' \in [Vap -> AnyPlace]
      /\ rcLeft' \in 0 .. Cardinality(Vap)
  BY <1>1, <1>2, <1>3, RebuildingMoves
<1>5. RcvryTypeOK'
  BY <1>1, <1>3, <1>4, TypesNow, TypesKept DEF RcvryInv
<1>6. RcvryRestores'
  BY <1>1, <1>4, RestoresKept DEF RcvryInv
<1> QED BY <1>4, <1>5, <1>6 DEF RcvryInv

\* The slaves are released, one unit each.
LEMMA ReleaseKeeps ==
  ASSUME RcvryInv, MasterReleases PROVE RcvryInv'
<1>1. UNCHANGED <<rc, rcInfo, rcSync, emergency, fatalTask, net, hw, rcWas>>
  BY DEF MasterReleases
<1>2. /\ TaskInv' /\ rcRlse' \in [n : Nat, q : Seq(Vap)] /\ rcLeft' \in 0 .. Cardinality(Vap)
      /\ (Attempt /\ Attempt') /\ MasterAt' # "finalize" /\ rcPc' \in [Vap -> AnyPlace]
  BY MasterGives DEF RcvryInv
<1>3. InfoInv' /\ RcvryRestores'
  BY <1>1, <1>2, InfoKept, RestoresKept DEF RcvryInv
<1>4. RcvryTypeOK'
  BY <1>1, <1>2, TypesNow, TypesKept DEF RcvryInv
<1> QED BY <1>2, <1>3, <1>4 DEF RcvryInv

\* The table of VAPs is freed only when nobody needs it any more.
LEMMA FinishKeeps ==
  ASSUME RcvryInv, MasterFinishes PROVE RcvryInv'
<1>1. /\ MasterAt = "finish" /\ rc' = [rc EXCEPT !.type = "UNDEF"]
      /\ UNCHANGED <<rcSync, rcRlse, emergency, fatalTask, rcLeft, net, hw, rcWas>>
  BY DEF MasterFinishes, MasterAt
<1>2. /\ rc' \in RcType /\ rc'.error = rc.error
      /\ (rcInfo = NoInfo \/ rcInfo \in [Vap -> BOOLEAN])
  BY <1>1, TypesNow DEF RcvryInv, RcType
<1>3. /\ rcInfo' = NoInfo \/ rcInfo' = rcInfo
      /\ rc.error => rcInfo' = rcInfo
      /\ \E p \in {"on_error", "idle"} : Goto(MasterVap, p)
  BY DEF MasterFinishes
<1>4. PICK p \in {"on_error", "idle"} : Goto(MasterVap, p)
  BY <1>3
<1>5. p \in Place /\ rcSync.q = <<>> /\ ~Scheduled
  BY <1>1, NotAsleep DEF Place
<1>6. MasterAt' = p /\ rcPc' \in [Vap -> AnyPlace] /\ ~Scheduled'
  BY <1>1, <1>4, <1>5, MasterMoves DEF RcvryInv
<1>7. TaskInv'
  BY <1>1, <1>4, <1>5, MasterGoesOn DEF RcvryInv
<1>8. ~Attempt'
  BY <1>6 DEF Attempt, Syncing, Rebuilding, MasterAt
<1>9. InfoInv'
  BY <1>1, <1>2, <1>3, <1>8 DEF RcvryInv, InfoInv
<1>10. RcvryTypeOK'
  BY <1>1, <1>2, <1>3, <1>6, TypesNow, TypesKept DEF RcvryInv
<1>11. RcvryRestores'
  BY <1>1, <1>6, RestoresKept DEF RcvryInv
<1> QED BY <1>7, <1>9, <1>10, <1>11 DEF RcvryInv

\* A step that changes nothing.
LEMMA RcvryStutter ==
  ASSUME RcvryInv, UNCHANGED rcVars PROVE RcvryInv'
<1>1. UNCHANGED <<rc, rcInfo, rcSync, rcRlse, emergency, fatalTask, rcPc, rcLeft, net, hw, rcWas>>
  BY DEF rcVars
<1>2. MasterAt' = MasterAt /\ Caller
  BY <1>1 DEF MasterAt, Caller
<1>3. TaskInv' /\ (Attempt' <=> Attempt)
  BY <1>1, <1>2, CallerEnds DEF RcvryInv
<1>4. InfoInv' /\ RcvryRestores'
  BY <1>1, <1>2, <1>3, InfoKept, RestoresKept DEF RcvryInv
<1>5. RcvryTypeOK'
  BY <1>1, TypesNow, TypesKept DEF RcvryInv
<1> QED BY <1>3, <1>4, <1>5 DEF RcvryInv

\* No recovery has been initiated.
LEMMA RcvryStart == RcvryInit => RcvryInv
<1> SUFFICES ASSUME RcvryInit PROVE RcvryInv
  OBVIOUS
<1>0. /\ FastNum \in Nat /\ FullNum \in Nat /\ MasterVap \in Vap /\ Slaves \subseteq Vap
      /\ Cardinality(Vap) \in Nat /\ Cardinality({}) = 0
  BY RcvryConstants, Counts DEF Slaves
<1>1. RcvryTypeOK
  <2>1. 0 \in 0 .. FastNum /\ 0 \in 0 .. FullNum /\ 0 \in 0 .. Cardinality(Vap)
    BY <1>0
  <2>2. /\ rc \in RcType /\ hw \in HwType
    BY <2>1 DEF RcvryInit, RcType, HwType
  <2>3. /\ rcSync \in [n : Nat, q : Seq(Vap)] /\ rcRlse \in [n : Nat, q : Seq(Vap)]
        /\ emergency \in [Vap -> Seq(Task)] /\ rcPc \in [Vap -> AnyPlace]
        /\ net \in [Vap -> NetState]
    BY DEF RcvryInit, AnyPlace, NetState
  <2> QED BY <2>1, <2>2, <2>3 DEF RcvryInit, RcvryTypeOK, RcType, HwType, Task, AnyPlace, NetState
<1>2. /\ MasterAt = "idle" /\ emergency[MasterVap] = <<>>
      /\ \A v \in Slaves : rcPc[v] = "idle" /\ emergency[v] = <<>>
      /\ rcSync.n = 1 /\ rcSync.q = <<>> /\ rcRlse.n = 1 /\ rcRlse.q = <<>>
  BY <1>0 DEF RcvryInit, MasterAt
<1>3. Elems(<<>>) = {} /\ Distinct(<<>>) /\ OneRecovery(<<>>) /\ Len(<<>>) = 0
  BY DEF Elems, Distinct, OneRecovery
<1>4. ~Scheduled /\ ~Syncing /\ ~Rebuilding /\ ~Attempt
  BY <1>2, <1>3 DEF Scheduled, Syncing, Rebuilding, Attempt, MasterAt
<1>5. ToSync = 1 /\ Owed = 0
  BY <1>2, <1>4 DEF ToSync, Owed
<1>6. Unreported = {} /\ AtDown = {}
  BY <1>2 DEF Unreported, AtDown
<1>7. MasterInv /\ SlaveInv
  BY <1>2, <1>3, <1>4, <1>6 DEF MasterInv, SlaveInv
<1>8. SyncInv /\ RlseInv
  BY <1>0, <1>2, <1>3, <1>5, <1>6 DEF SyncInv, RlseInv
<1>9. InfoInv
  BY <1>4 DEF InfoInv, RcvryInit
<1>10. RcvryRestores
  BY <1>2 DEF RcvryRestores, MasterAt
<1> QED BY <1>1, <1>7, <1>8, <1>9, <1>10 DEF RcvryInv, TaskInv

\* The units of the semaphores are never lost or doubled, whatever fails and
\* however late a slave is.
THEOREM RcvryInvariant == RcvrySpec => []RcvryInv
<1>1. RcvryInv /\ [RcvryNext]_rcVars => RcvryInv'
  <2> SUFFICES ASSUME RcvryInv, [RcvryNext]_rcVars PROVE RcvryInv'
    OBVIOUS
  <2>1. CASE GivenUp \/ UNCHANGED rcVars
    BY <2>1, RcvryStutter DEF GivenUp
  <2>2. CASE FwDies
    BY <2>2, FwDiesKeeps
  <2>3. CASE ResetAsked
    BY <2>3, ResetAskedKeeps
  <2>4. CASE Watchdog
    BY <2>4, WatchdogKeeps
  <2>5. CASE FailTimer \/ ForceNone
    BY <2>5, SettingsKeep
  <2>6. CASE MasterStep
    <3>1. CASE MacHang
      BY <3>1, MacHangKeeps
    <3>2. CASE MasterSync \/ MasterStarts \/ MasterWakes \/ TakeFatal
      BY <3>2, SyncKeeps
    <3>3. CASE Isolate
      BY <3>3, IsolateKeeps
    <3>4. CASE Restore
      BY <3>4, RestoreKeeps
    <3>5. CASE Configure
      BY <3>5, ConfigureKeeps
    <3>6. CASE Finalize
      BY <3>6, FinalizeKeeps
    <3>7. CASE MasterReleases
      BY <3>7, ReleaseKeeps
    <3>8. CASE MasterFinishes
      BY <3>8, FinishKeeps
    <3>9. CASE OnError
      BY <3>9, OnErrorKeeps
    <3> QED BY <2>6, <3>1, <3>2, <3>3, <3>4, <3>5, <3>6, <3>7, <3>8, <3>9 DEF MasterStep
  <2>7. CASE \E v \in Vap : VapToggles(v) \/ TakeTask(v) \/ SlaveStep(v)
    <3>1. PICK v \in Vap : VapToggles(v) \/ TakeTask(v) \/ SlaveStep(v)
      BY <2>7
    <3> QED BY <3>1, VapTogglesKeeps, TakeTaskKeeps, SlaveStepKeeps
  <2> QED BY <2>1, <2>2, <2>3, <2>4, <2>5, <2>6, <2>7 DEF RcvryNext
<1> QED BY RcvryStart, <1>1, PTL DEF RcvrySpec

\* Every variable of the recovery keeps its type; the counters of attempts stay
\* within their limits.
THEOREM RcvryTypeCorrect == RcvrySpec => []RcvryTypeOK
<1>1. RcvryInv => RcvryTypeOK
  BY DEF RcvryInv
<1> QED BY <1>1, RcvryInvariant, PTL

\* While the master rebuilds the card no slave serializer runs, however many
\* attempts failed before and however late the slaves were then.
THEOREM RcvryAlwaysAlone == RcvrySpec => []RcvryAlone
<1>1. RcvryInv => RcvryAlone
  BY Alone DEF RcvryInv, RcvryAlone
<1> QED BY <1>1, RcvryInvariant, PTL

\* A task finds the table of VAPs, and rcvry_initiate, which takes slave_rlse
\* under a spin lock, finds a unit there.
THEOREM RcvryAlwaysLeftReady == RcvrySpec => []RcvryLeftReady
<1>1. RcvryInv => RcvryLeftReady
  <2> SUFFICES ASSUME RcvryInv PROVE RcvryLeftReady
    OBVIOUS
  <2>1. rc.type = "UNDEF" => rcRlse.n > 0
    BY UndefinedBetween, BetweenAttempts DEF RcvryInv
  <2>2. ASSUME NEW v \in Vap,
               rcPc[v] \in {"sync", "sync_wait", "up", "isolate", "restore", "configure", "finalize",
                            "release", "finish"}
                 \/ (\E i \in 1 .. Len(emergency[v]) : emergency[v][i] = "recovery")
        PROVE  rcInfo # NoInfo
    <3>1. Attempt
      <4>1. emergency[v] \in Seq(Task)
        BY RcvryTypes DEF RcvryInv
      <4>2. DOMAIN emergency[v] = 1 .. Len(emergency[v])
        BY <4>1
      <4>3. CASE v = MasterVap
        <5>1. CASE \E i \in 1 .. Len(emergency[v]) : emergency[v][i] = "recovery"
          BY <4>2, <4>3, <5>1 DEF Attempt, Scheduled, Elems
        <5>2. MasterAt # "up"
          BY DEF RcvryInv, TaskInv, MasterInv
        <5> QED BY <2>2, <4>3, <5>1, <5>2 DEF Attempt, Syncing, Rebuilding, MasterAt
      <4>4. CASE v \in Slaves
        <5>1. rcPc[v] \in {"idle", "up", "down", "wait"}
          BY <4>4 DEF RcvryInv, TaskInv, SlaveInv
        <5>2. emergency[v] # <<>> \/ rcPc[v] = "up"
          <6>1. CASE \E i \in 1 .. Len(emergency[v]) : emergency[v][i] = "recovery"
            BY <6>1
          <6> QED BY <2>2, <5>1, <6>1
        <5>3. v \in Unreported
          BY <4>4, <5>2 DEF Unreported
        <5> QED BY <4>4, <5>3 DEF RcvryInv, TaskInv, SlaveInv, Attempt
      <4> QED BY <4>3, <4>4 DEF Slaves
    <3> QED BY <3>1 DEF RcvryInv, InfoInv
  <2> QED BY <2>1, <2>2 DEF RcvryLeftReady
<1> QED BY <1>1, RcvryInvariant, PTL

\* A recovery that succeeds, after however many failed attempts, brings back
\* exactly the VAPs that were connected when the first one was initiated.
THEOREM RcvryAlwaysRestores == RcvrySpec => []RcvryRestores
<1>1. RcvryInv => RcvryRestores
  BY DEF RcvryInv
<1> QED BY <1>1, RcvryInvariant, PTL
=============================================================================

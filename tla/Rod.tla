-------------------------------- MODULE Rod ---------------------------------
(***************************************************************************)
(* Reordering of the packets of one TID (rod.c), between the start and the *)
(* end of a block acknowledgement session (Addba).                         *)
(*                                                                         *)
(* A window of win consecutive sequence numbers starts at head; a packet   *)
(* inside it waits in slot seq % win until all before it have come, or     *)
(* until the window is moved over it: by a packet beyond the window, by a  *)
(* BAR, by the timer or by the end of the session.  Sequence numbers are   *)
(* taken modulo RodLimit.  Every operation runs under the lock of the      *)
(* queue, so each is one step.  The slots are the array nbuf; an index past *)
(* its end reaches what lies behind it in memory.                          *)
(*                                                                         *)
(* A packet is modelled by the number its sender gave it before the        *)
(* reduction modulo RodLimit, which no operation looks at.  Left out: the  *)
(* detection of replays behind the queue, and statistics.                  *)
(***************************************************************************)
EXTENDS Integers, Sequences, FiniteSets

CONSTANTS
  RodLimit,    \* SEQUENCE_NUMBER_LIMIT
  RodSlots,    \* MAX_REORD_WINDOW, the length of nbuf
  RodWin,      \* window sizes that peers ask for
  PktMax       \* bound on the numbers of packets

MaxWin == CHOOSE w \in RodWin : \A x \in RodWin : x <= w

ASSUME RodConstants ==
  /\ RodLimit \in Nat /\ RodLimit % 2 = 0 /\ PktMax \in Nat /\ RodSlots \in Nat \ {0}
  /\ RodWin # {} /\ IsFiniteSet(RodWin) /\ RodWin \subseteq 1 .. RodLimit \div 2

VARIABLES
  rod,       \* reordering_queue
  rodAbs,    \* history: the number at head, not reduced
  rodOut,    \* history: the packets sent up by the last step
  rodLast    \* history: the last number sent up, or passed over, before that step

rodVars == <<rod, rodAbs, rodOut, rodLast>>

NoPkt == -1

\* The slots of nbuf, and the memory an index into it may reach.
Nbuf == 0 .. RodSlots - 1
Cell == 0 .. RodLimit - 1
Held(q) == {j \in Cell : q.slot[j] # NoPkt}

\* "window_size; /* <= REORD_WINDOW */": no packet is stored outside nbuf, whatever
\* the window that the peer asked for.
RodInsideArray == Held(rod) \subseteq Nbuf

RodTypeOK ==
  /\ rod \in [used : BOOLEAN, count : 0 .. MaxWin, head : 0 .. RodLimit - 1, win : RodWin,
              slot : [Cell -> 0 .. PktMax \cup {NoPkt}]]
  /\ rodAbs \in Nat /\ rodOut \in Seq(0 .. PktMax) /\ rodLast \in -1 .. PktMax
  /\ RodInsideArray

RodInit ==
  /\ rod = [used |-> FALSE, count |-> 0, head |-> 0, win |-> MaxWin,
            slot |-> [j \in Cell |-> NoPkt]]
  /\ rodAbs = 0 /\ rodOut = <<>> /\ rodLast = -1

-----------------------------------------------------------------------------
(* Moving the window over a path of slots.                                 *)

\* SEQ_DISTANCE
SeqDistance(seq1, seq2) == (seq2 - seq1 + RodLimit) % RodLimit

\* The slots that rod_move_window(n) retires; head is reduced after the loop.
\* retire_rod_queue takes the same path.
Path(q, n) == [i \in 1 .. n |-> (q.head + i - 1) % q.win]

\* mtlk_flush_rod_queue moves one by one and reduces head every time.
FlushPath(q, n) == [i \in 1 .. n |-> ((q.head + i - 1) % RodLimit) % q.win]

OnPath(path) == {path[i] : i \in 1 .. Len(path)}

\* retire_slot of every slot on the path, and the move of head.
Moved(q, path) ==
  [q EXCEPT !.slot = [j \in Cell |-> IF j \in OnPath(path) THEN NoPkt ELSE @[j]],
            !.count = @ - Cardinality(Held(q) \cap OnPath(path)),
            !.head = (@ + Len(path)) % RodLimit]

\* What retire_slot sends up on the way.
SentUp(q, path) ==
  LET up[i \in 0 .. Len(path)] ==
        IF i = 0 THEN <<>>
        ELSE IF q.slot[path[i]] = NoPkt \/ \E j \in 1 .. i - 1 : path[j] = path[i]
               THEN up[i - 1]
               ELSE Append(up[i - 1], q.slot[path[i]])
  IN  up[Len(path)]

\* retire_rod_queue: from head until an empty slot is reached.
RunPath(q) ==
  LET Full(n) == \A i \in 0 .. n - 1 : q.slot[(q.head + i) % q.win] # NoPkt
  IN  Path(q, CHOOSE n \in 0 .. q.win : Full(n) /\ (n = q.win \/ ~Full(n + 1)))

\* mtlk_flush_rod_queue: until count is 0.
EmptyingPath(q) ==
  LET Taken(n) == Cardinality(Held(q) \cap OnPath(FlushPath(q, n)))
  IN  FlushPath(q, CHOOSE n \in 0 .. RodLimit : Taken(n) = q.count
                                             /\ \A m \in 0 .. n - 1 : Taken(m) < q.count)

\* The queue becomes q, and `up' goes to the network stack.
Becomes(q, up) ==
  /\ rod' = q /\ rodOut' = up
  /\ rodAbs' = rodAbs + SeqDistance(rod.head, q.head)
  /\ rodLast' = IF rodOut = <<>> THEN rodLast ELSE rodOut[Len(rodOut)]

-----------------------------------------------------------------------------
(* Operations.                                                             *)

\* mtlk_create_rod_queue, when the owner starts the reordering.  A queue in use
\* is flushed first; without memory for the counters it stays as it was.
CreateRodQueue(win, ssn) ==
  LET q == IF rod.used THEN Moved(rod, EmptyingPath(rod)) ELSE rod
      up == IF rod.used THEN SentUp(rod, EmptyingPath(rod)) ELSE <<>>
  IN
  \/ /\ rod' = [q EXCEPT !.used = TRUE, !.count = 0, !.head = ssn % RodLimit, !.win = win]
     /\ rodAbs' = ssn /\ rodOut' = <<>> /\ rodLast' = ssn - 1
  \/ Becomes(q, up)

\* mtlk_clear_rod_queue
ClearRodQueue ==
  /\ rod.used
  /\ Becomes([Moved(rod, EmptyingPath(rod)) EXCEPT !.used = FALSE],
             SentUp(rod, EmptyingPath(rod)))

\* mtlk_handle_rod_queue_timer, when nothing was sent up for a while.
RodTimer ==
  /\ rod.used /\ rod.count > 0
  /\ Becomes(Moved(rod, EmptyingPath(rod)), SentUp(rod, EmptyingPath(rod)))

TooOldNever(diff) == FALSE                                              \* mutant

\* "a packet that has been already seen in the past(?)"
TooOld(diff) == diff > RodLimit \div 2

ReorderPacketUnreduced(pkt) ==                                          \* mutant
  LET seq  == pkt % RodLimit
      diff == SeqDistance(rod.head, seq)
      far  == Path(rod, IF diff >= rod.win THEN diff - rod.win + 1 ELSE 0)
      r    == [Moved(rod, far) EXCEPT !.slot[seq] = pkt, !.count = @ + 1]
  IN  /\ rod.used /\ ~TooOld(diff)
      /\ Becomes(Moved(r, RunPath(r)), SentUp(rod, far) \o SentUp(r, RunPath(r)))

\* mtlk_reorder_packet, of a packet with the number pkt.
ReorderPacket(pkt) ==
  LET seq  == pkt % RodLimit
      diff == SeqDistance(rod.head, seq)
      far  == Path(rod, IF diff >= rod.win THEN diff - rod.win + 1 ELSE 0)
      q    == Moved(rod, far)
      loc  == seq % rod.win
      r    == [q EXCEPT !.slot[loc] = pkt, !.count = @ + 1]
  IN
  \/ /\ ~rod.used \/ TooOld(diff)          \* sent up at once, or dropped
     /\ Becomes(rod, <<>>)
  \/ /\ rod.used /\ ~TooOld(diff) /\ q.slot[loc] # NoPkt     \* "duplicate packet"
     /\ Becomes(q, SentUp(rod, far))
  \/ /\ rod.used /\ ~TooOld(diff) /\ q.slot[loc] = NoPkt
     /\ Becomes(Moved(r, RunPath(r)), SentUp(rod, far) \o SentUp(r, RunPath(r)))

ProcessBarStops(ssn) ==                                                 \* mutant
  LET diff == SeqDistance(rod.head, ssn % RodLimit) IN
  /\ rod.used /\ ~TooOld(diff)
  /\ Becomes(Moved(rod, Path(rod, diff)), SentUp(rod, Path(rod, diff)))

\* mtlk_rod_process_bar: the window moves to the number in the BAR.
ProcessBar(ssn) ==
  LET diff == SeqDistance(rod.head, ssn % RodLimit)
      q    == Moved(rod, Path(rod, diff))
  IN
  /\ rod.used /\ ~TooOld(diff)
  /\ Becomes(Moved(q, RunPath(q)), SentUp(rod, Path(rod, diff)) \o SentUp(q, RunPath(q)))

\* What a peer may send: packets and BARs in any order, repeated or never, but
\* within half the space of numbers around the head.
Around == {k \in 0 .. PktMax : /\ rodAbs - RodLimit \div 2 < k
                               /\ k <= rodAbs + RodLimit \div 2}

RodNext ==
  \/ ClearRodQueue \/ RodTimer
  \/ \E win \in RodWin, ssn \in Around : CreateRodQueue(win, ssn)
  \/ \E k \in Around : ReorderPacket(k) \/ ProcessBar(k)

RodSpec == RodInit /\ [][RodNext]_rodVars

-----------------------------------------------------------------------------
(* Properties.                                                             *)

\* Within a session packets go up in the order in which the peer numbered them
\* and none goes up twice, whatever is lost, repeated, late or timed out, and
\* also when the numbers wrap around ("Retire packets in order from head").
RodInOrder ==
  rod.used => \A i \in 1 .. Len(rodOut) :
                rodOut[i] > IF i = 1 THEN rodLast ELSE rodOut[i - 1]

\* Every packet that waits is inside the window and in the slot where the head
\* will meet it, the slot at the head is empty, and count is exact, so that the
\* loop of mtlk_flush_rod_queue ends.
RodSlotsExact ==
  /\ rod.count = Cardinality(Held(rod))
  /\ ~rod.used => rod.count = 0
  /\ rod.used =>
       /\ rod.slot[rod.head % rod.win] = NoPkt
       /\ \A j \in Held(rod) : /\ rod.slot[j] \in rodAbs .. rodAbs + rod.win - 1
                               /\ (rod.slot[j] % RodLimit) % rod.win = j
=============================================================================

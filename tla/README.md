# A TLA+ model of the WAVE300 driver's core mechanisms

The repository is the Linux driver of the Lantiq WAVE300 Wi-Fi chip. Its logic is under
`wireless/driver/`: `shared/` is independent of the operating system, `linux/` adapts it.
This project models the parts on which everything else in the driver rests, checks them
with TLC on small instances, and proves their main safety properties with TLAPS.

Contents: [the system](#the-system), [the modules](#the-modules),
[the runs](#the-runs), [fairness](#fairness), [the proofs](#the-proofs),
[what the checks found](#what-the-checks-found),
[what is left out](#what-is-left-out), [plan](#plan).

## The system

The host and the firmware exchange messages through descriptor rings in shared memory.
Every request of the driver (set a channel, add a station, open an aggregation) is a
*management message*; the firmware returns the same descriptor as its *confirmation*.

| component | state | operations | hard behaviour | correct when |
|---|---|---|---|---|
| TXMM (`txmm.c`) | blocks in four rings (FREE, QUEUED, SENT, TIMED_OUT), active flag, timer, mutex, event and remove lock of blocked sends | attach, send, send blocked, pump, confirm, time out, cancel, halt, stop, restore, cleanup | confirmations, timer and users race; late and lost confirmations; death of the firmware in any state | no block or descriptor is lost or used twice, order is kept, senders are answered, restore and cleanup find what they assume |
| serializer (`mtlk_serializer.c`, `mtlk_serializer_osdep.c`) | a list per priority, pending count, current command, thread, its event and stop flag | enqueue, cancel, execute blocked, start, stop, thread | cancel, time to live, thread and stop race for one command; commands on the stack | each command completes once while it is alive; priorities; a stop drains and returns |
| OSAL (`osal_osdep_defs.h`, `mtlkrmlock.h`) | events with wait and terminate flags; remove locks (a count and an event); semaphores | set, reset, terminate, wait; acquire, release, wait | lost wakeups | modelled inside its users |
| hardware layer (`hw_mmb.c`) | descriptor pools, data rings, event state | send, confirm, isolate, restore, stop | interrupts against tasklets; recovery | its descriptors: with TXMM, recovery and the send queue |
| firmware recovery (`fw_recovery.c`) | recovery type and counters, two semaphores between master and slave VAPs | initiate, master and slave task, isolate, restore, configure, finalize, repeat or give up | one serializer thread per VAP meets the others; a second failure or death during recovery | every VAP is parked before the hardware is touched and released afterwards; the connected VAPs come back; it ends |
| ADDBA (`addba.c`, `stadb.c`) | a state per peer, TID and direction; reference limits; the owner's flags | request, answer, DELBA, confirmation, status, retransmission, timeout, stop | confirmations, frames of the peer, statuses and timers in any order | references balanced; reordering and aggregation only with an agreement |
| send queue, flow control (`mtlk_sq.c`, `mtlkflctrl.c`) | a queue per access category and context, limits, counts of clones and descriptors, stop mask | enqueue, clone, flush, confirm, power saving, cancel, stop and start the flow | limits, wakeups, stations that leave with packets in the firmware | counts exact; no packet is stuck; the flow resumes |
| reordering (`rod.c`) | head, window, slots, count | create, clear, packet, BAR, timer | wrap-around of sequence numbers, late and lost packets | in order, once |
| WDS (`wds.c`) | a state machine, timer and station pointer per peer AP; the list for beacons | user requests, beacons, events, timer, interface up and down | two serializer threads, one lock not taken everywhere, late events and tasks | references balanced, no peer forgotten, none freed in use |
| scan (`scan.c`, `core.c`, `core_ext.c`) | running, terminate and background flags, bands and chunks, pause timer, held flow, power save mode | start, chunk, confirm, pause, rescan, terminate, synchronous scan of a connection | sleeps in every handler; disconnection, deactivation and removal at any moment | one continuation, nothing left behind, it ends |
| COC, PCOC (`mtlk_coc.c`, `mtlk_pcoc.c`) | power mode, timers, counters | mode changes, timers | timers against configuration | allowed transitions only (not modelled) |
| core, VAP manager (`core.c`, `core_ext.c`, `mtlk_vap_manager.c`) | net state of each interface; VAP table | activate, connect, disconnect, mac fatal, VAP creation and removal | user requests, indications and recovery | its part in recovery, scan, WDS and data path is modelled there; the rest is not |
| station database (`stadb.c`, `cache.c`) | reference-counted stations, their timers, hosts behind them | add, find, remove, ageing | removal against use | its part in ADDBA, send queue and WDS is modelled there |
| L2NAT, multicast tables, traffic analysis, configuration, device framework, tools | see `PROJECT.json` | | | |

How they interact: a request from user space or an indication of the firmware becomes a
command of the serializer of its VAP (`core.c`, 464-545). The thread of the serializer runs
the handler, which usually sends one or more management messages *blocked* and thus sleeps in
`_mtlk_txmm_send_blocked` with the other VAPs' threads. ADDBA sends *asynchronously* from
tasklets, timers and the data path, and is called back under TXMM's locks. Confirmations
arrive in the tasklet of the hardware layer. When the firmware reports a fatal error, the
core terminates the current blocked wait (`mtlk_txmm_terminate_waiting_msg`) and schedules a
task that halts TXMM; recovery then parks all serializers, isolates the hardware, resets it and restores TXMM.

Data packets go from the network layer through the send queue into data descriptors, as long as
the flow is not stopped, and come back as data confirmations in the same tasklet. An aggregation is
negotiated by ADDBA when a station sends enough; a packet received under an agreement goes through
the reordering queue. A scan, and the recovery, hold the data flow while they use the radio.

What can go wrong, with the line where it bites, is the list `hazards` of `PROJECT.json`.

## The modules

| module | models | kind |
|---|---|---|
| `Lists` | the two deletions from a queue, and notions of sequences | definitions |
| `TxmmQueues` | blocks and queues of `txmm.c` and the helpers on them, each queue as a sequence | definitions |
| `Txmm` | TXMM with its users, tasklet, timer, firmware, recovery, shutdown | state machine |
| `TxmmRing` | one ring buffer with `from`, `to`, `total`, array and back pointers | state machine |
| `TxmmFifo` | what `Txmm` assumes of a ring: a queue with put, get and two deletions | abstract specification, implemented by `TxmmRing` |
| `Serializer` | serializer, its thread and clients | state machine |
| `Addba` | both block acknowledgement automata of every TID of a station, with the station entry that owns them | state machine |
| `Rod` | the reordering queue of a TID | state machine |
| `Wds` | the manager of WDS peers of one VAP, its two threads, the firmware's events | state machine |
| `Scan` | the scan of a station, with the core's handlers that start and end it | state machine |
| `FwRecovery` | recovery of the firmware over all VAPs | state machine |
| `SendQueue` | send queue, clones, descriptors and flow control | state machine |
| `MCSerializer`, `MCSendQueue` | instances for TLC | |
| `MCBuffers` | `Txmm`, `Addba`, `Rod`, `Wds` and `Scan` side by side | instance for TLC |
| `MCDataPath` | `FwRecovery`, `SendQueue` and `TxmmRing` side by side | instance for TLC |
| `MCAddba`, `MCRod`, `MCWds` | a component with a history variable of the statements about it that have failed | instances for TLC |
| `ListsProofs` | lists, counts and sums, induction, loops, remainders | lemmas |
| `TxmmProofs`, `RingProofs`, `SerializerProofs`, `BlockAckProofs` (of `Addba` and `Rod`), `WdsScanProofs` (of `Wds`, `Scan` and `MCBuffers`), `FwRecoveryProofs`, `SendQueueProofs` (also of `MCDataPath`) | theorems | proofs |

`MCBuffers` holds five components in one model and `MCDataPath` three: the variable `part` is chosen at the start and says
which of them runs, while the others stay in their initial states. They do not interact there; each is what its own
module says. In `MCDataPath`, whose specification is fair, no fair action of a component is enabled in its initial
state, so that the fairness of the one that does not run asks nothing.

### Txmm

`base` holds the rings and, of each block, the fields `que`, `msg` and `slot`; `data[m]` is
`msg->data`; `pool`, `fw`, `tx[m]` and `bh.slot` say where a hardware descriptor is. `evt`,
`mutex` and `refs` are the three objects of `obj->bsend`. Payloads, guards, statistics and the
history are left out; time is abstracted: any timeout may have passed.

One step is one section under `obj->lock`. The gaps between sections are where the others run, so
`_mtlk_txmm_on_cfm` and `mtlk_txmm_pump` are `OnCfm`, `OnCfmClb`, `Pump`, `PumpSend`; the
timer is `OnTimer`, then `TimerExpires` or `TimerSkips` per block, then `TimerDrains` and
`TimerClb` per timed-out block, for SENT and again for QUEUED; the blocked send is
`SendBlockedEnter` (up to the mutex), `SendBlockedLocked` (to the end of the send's lock section),
`MsgSend` (the descriptor goes to the firmware) and `SendBlockedReturn`. The scan of the timer is
broken into steps only to choose which blocks have expired; it holds the lock, and `Unlocked`
keeps everyone else out.

Who runs when: with `SMP = FALSE` a process is interrupted by tasklet and timer between its
lock sections, and these run to completion; a process gives up the CPU when it sleeps. With
`SMP = TRUE` everybody runs in parallel. The code takes spin locks everywhere and so is meant for
both; most properties are stated for one CPU, and what a second one breaks is a run of its own.

The firmware confirms descriptors in any order, or never. `MsgCancel` of an asynchronous
message may happen at any time after it was sent, that of a blocked one after its
return (`mtlk_txmm_msg_cleanup`). Callbacks of asynchronous messages return one of `ClbActions`.
`Timed` are the asynchronous messages that are sent with a timeout; the senders in `addba.c` all
give none, so runs and theorems cover both kinds.

Recovery: `Isolate` needs all VAPs parked (`master_recovery` waits for them, and the
serializers are the senders of blocked messages) and waits for the timer; `Restore` needs all
stations removed (`core_on_rcvry_isol`, which cancels the messages of ADDBA). Then
`_mtlk_txmm_free_buf` has nothing to do for a block in FREE and `mtlk_txmm_restore` leaves the
queues as they are: that no message has a block then is a guard of `Restore`, that all blocks are in FREE follows from
`BlocksCoherent`. Its loop over blocks still out, with the discard callback (`txmm.c`, 709-718), is therefore not modelled.
`GetEmptyData` asks for phase `run` besides the flag that `txmm.c`, 745 tests: between `mtlk_txmm_stop` and the cleanup the
flag is still set, but the VAPs that could ask are gone. `Halt` and `MacFatal` are the two halves of the mac-fatal
handling, in tasklet and task. `msg_timed_out` resets the firmware or reports it hung; its effect on TXMM is that of
`MacFatal` and `Isolate`, which the model allows without a cause.

The driver has a second object of this kind for debug messages (`txdm_base`); it is the same code.

### TxmmRing and TxmmFifo

`Txmm` sees each ring as a sequence. `TxmmRing` is one ring as it is in memory: an index pair
that is equal both for empty and full, an array, and the index `idx` that every block keeps of its
place in the ring it was put in last. `OtherRing` is what the other three rings do to `idx` of a
block that is not here. `TxmmRing` implements `TxmmFifo` under `q <- Contents`. `TimerScan` and
`CfmScan` are the two loops over a ring in `txmm.c`; `Txmm!Scanned` is justified by the first.

### Serializer

One step is one section under `szr->lock`; callbacks run between sections. A command of
`Sync` goes through `mtlk_serializer_execute_blocked` with a time to live and lives on the caller's
stack; another one is given back to its owner by its completion callback, as in `core.c`. `live`
records which it is at the moment, `log` what was done with the command, and `bypassed` how often a
command of lower priority was started while it waited: history variables that no guard reads.
`StopProcessing` joins the section that clears `is_running` and the release of the remove lock
after it: in between enqueue is already refused and nothing else reads either.

### Addba

`baTx[t]` and `baRx[t]` are `peer->tid[t].tx` and `.rx`: the state, the one asynchronous TXMM message of the direction
(and what it carries), counters of retransmissions and rejections. `aggrCur` and `reordCur` are the two limited
counters, which other stations (`OtherStations`) use too. `inited` and `revive` are the owner's side in `stadb.c`.
A section under `addba->lock` is one step; the removal of a station is `StaStop`, then `StopTx`, `StopCancelTx`,
`StopRx`, `StopCancelRx`, `StopReorder` per TID. Lengths of time, dialog tokens other than "the current one" and window
sizes are abstracted: a timeout may come whenever its state lasts. The messages are sent without a timeout, so a lost
one is never answered: no fairness is assumed, and every prefix in which a confirmation stays away is covered.
`StatusMax` and `ReviveMax` bound the tasks of a TID that wait in the serializer.

The peer may answer before or after the confirmation of our request is handled (`AddbaResRx`, as `addba.c`, 1170-1171 accepts
both), and a revival that was queued for a station may meet the next one of the same address (`StaStart` leaves `revive` alone). What is
only bounded is the use of the shared counters by others: `OthersMax` references of other stations at a time, of both kinds
together. `BaFaults = {"smp"}` lets confirmations come on another CPU in the middle of a removal; it is off in the runs, and
`BaAlwaysReordersInSession` holds with it. `MCAddba` adds `baFailed`: which of the three assertions that the agreements
break has failed so far.

### Rod

`rod` is the structure `reordering_queue`. Packets are the numbers their sender gave them, not reduced modulo the
limit; the code only ever looks at the reduced number. `rodAbs`, `rodOut` and `rodLast` are history: the unreduced number of the
head, what the last step sent up, and the last number sent up or passed over before it. The two ways of
moving the window differ in when they reduce the head (`Path`, `FlushPath`). `Nbuf` is the array, with `RodSlots` entries for the 64 of
`rod.h`; an index is reduced modulo the window, which is what the peer asked for, so that it may reach any `Cell` behind
the array. That it does not is part of `RodTypeOK` (`RodInsideArray`), and holds only when the windows fit.

### Wds

One slave VAP with its peers and the list for beacons of the master VAP. `wdsVap` and `wdsMaster` are the two serializer
threads, each idle or asleep in a blocked message at a named place; `wdsLock` is `peers_lock`. Events of the firmware and
tasks of timers wait in queues, and the firmware (`FwConnects`, `FwDisconnects`, `FwAnswers`) is
external. Bounds: `MaxPeers` peers, `EventMax` events and `TaskMax` tasks in a queue, `EntryMax` entries of an
address in the list for beacons. Every message may fail, DELETE_PEERAP of a lost peer (`DisconnectDeleted`, `wds.c`, 783-788) included: then
the peer stays CONNECTED without its station. `wdsBeacon` counts the entries of an address, since the assertion against
duplicates (`wds.c`, 149-151) is compiled for debugging only and does not hold; both are in run `wds_statements`. Left out: reconnection
events, calls from a recovery, WDS hosts, abilities, listings, failing allocations.

### Scan

The scan of a station. A step is the code between two sleeps of a process. `scThread` is the message in which the thread of the
serializer sleeps (power save on, progmodel, the undoing of both, and so on), or `sync` when it is in the loop of `mtlk_scan_sync`; a
confirmation is handled there or, when the thread is idle, as a task. `scPos` is the band, whether another follows, and how much of
the scan vector is left; a request takes some of it. `ScanDo` goes as far as the loading of progmodel files, in which the thread may
sleep with `is_running` set, and `ScanPreloaded` goes on from there. `scPause` is the pause timer and its task, `scHeld` and `scPowerSave` what
the scan has done to the data flow and the firmware. `ScanStart`, `ScanConnects`, `ScanUserDisconnects`,
`ScanDisconnected`, `ScanDeactivate` and `ScanPrepareStop` are the handlers in `core.c` and `core_ext.c`. `scForgotten` is
history: power save mode was not ended with its chunk because the firmware refused, the request timed out, or a disconnection
changed the mode of the scan under way. Assumed: background scans are enabled and have a pause (default 50 ms), and the firmware does not die.
Left out: the stop of a driver whose firmware is dead, which completes the scan from another process (`core_ext.c`, 4968-4971), the first scan of an access point, coexistence and interference detection,
the policy not to load progmodels.

### FwRecovery

`emergency[v]` and `rcPc[v]` are the queue and the thread of the serializer of each VAP, as far as recovery and mac-fatal tasks
go. The two "mutexes" are Linux semaphores: `up` hands its unit to the first sleeper. A death of the firmware may be
announced (`FwDies` with an indication) or silent; `Watchdog` finds it, `ResetAsked` is a request from any context. Isolation,
restoration and configuration each may fail; `rcvry_on_error` initiates the next attempt, until the numbers of fast and full
attempts are used up. `rcWas` is history: who was connected before the first attempt. `RcFaults` are `forced_none` (an
administrator switches recovery off at any moment), which is enabled in `data_path`, and `no_memory` (the table of VAPs
cannot be allocated), which is not: the code then has chosen a type but scheduled nothing, and does not try again.

### SendQueue

`sqCtx` has a context per station and per VAP (for its broadcasts) with one list per access category, `sqSize` and `sqLim` are the
global counters and limits, `sqRef` the shared counts of the clones of a frame, `sqAir` and `sqOld` the descriptors with the
firmware, for stations that are there and that are gone. `flMask` is the mask of those who have stopped the flow. The flush is a
tasklet that visits category after category and context after context (`FlushSkips`, `FlushSends`, `FlushEndsPass`); with
`SqSmp = FALSE` only whole handlers interleave. A confirmation is `CfmBegins` (count, wake and schedule the flush, lower the
context's count) and `CfmEnds` (the descriptor is free).

## The runs

| run | instance | checks |
|---|---|---|
| `txmm_live` | 3 blocks, 1 descriptor, 2 blocked senders and a timed asynchronous one, mac fatal, recovery and shutdown; fair; 54,132 states | `WorkConserving`, `CleanupWaits`, `BlockedReturns`, `AsyncAnswered`, `CleanupCompletes` |
| `buffers` | TXMM with 3 blocks, 2 descriptors, 2 blocked and 2 asynchronous senders (one with a timeout), all callback actions, mac fatal and recovery; one TID in both directions and other stations; windows 1, 2, 4 of 8 sequence numbers and 18 packets; one WDS peer; a scan of two bands with up to 2 chunks; 2,966,530 states | `TypeOK`, `BlocksCoherent`, `SlotsAccounted`, `OkConfirmedWhileActive`, `NoOvertaking`; `BuffersTypeOK` (the other four); `BaReferences`, `BaReorderingMatchesState`, `BaNegotiation`; `RodInOrder`, `RodSlotsExact`; `WdsStaReferenced`, `WdsNeverStuck`; `ScanOneContinuation`, `ScanLeavesNothing` |
| `data_path` | recovery of a master and a slave VAP with one fast and one full attempt; a send queue with a VAP, a station, one category, two descriptors and one multicast frame; a ring of 3 blocks; fair; 235,181 states | `DataPathTypeOK`; `RcvryAlone`, `RcvryLeftReady`, `RcvryRestores`, `RcvryEnds`, `RcvryRevives`; `SqCounted`, `SqNoneForgotten`, `SqFlowResumes`; `TypeOK` (the ring), `RingCoherent`, `FifoSpec` |
| `serializer` | 3 commands, 2 of them blocked, 2 priorities, any number of starts and stops; fair; 242,064 states | `TypeOK`, `PendingCounted`, `CompletesOnce`, `CommandAlive`, `BypassedAtMostOnce`, `StopDrains`, `ExecuteBlockedReturns`, `TopPriorityServed` |
| `txmm_claimed`, `serializer_stop`, `recovery_vaps`, `flow_two_vaps` | the smallest instances that show it | one statement of the repository each, violated: see [below](#what-the-checks-found) |
| `addba_asserts`, `wds_statements`, `rod_windows`, `scan_statements` | one TID; one peer; windows 3 and 4 over an array of 3; access points in both bands | two or three statements of the repository each, all violated by one behaviour |

In TXMM, the serializer, recovery and scan nothing is cut off by a bound on steps: sends, confirmations, recoveries, scans and
restarts are unlimited, and only the sets are small. They are large enough for the cases that matter:

- *TXMM*: two blocked senders so that one waits for the mutex while the other's confirmation is late; more
  senders than blocks and more blocks than descriptors in `buffers`, so that attach fails, a message is queued
  behind another, and a block is used again before the late confirmation of its previous message; a single
  descriptor in `txmm_live`, so that one lost confirmation blocks the path to the firmware. Three
  blocks for three messages there, of which at most two are sent or queued at a time because the mutex admits one
  blocked sender: no ring but FREE gets full, which the timer's loop would take for empty (`txmm.c`, 473). `txmm_live` has only the callback
  action FREE, the one of all callbacks in the repository but those of blocked sends: `WorkConserving` does not hold with SEND, which nothing pumps.
- *Ring*: one of 3 has a middle that is neither the first nor the last block, and wraps in all positions.
- *ADDBA*: limits of 1 that other stations use as well, one retransmission (two in `addba_asserts`) and two rejections, so that every counter reaches its end; one reference of another station at a time (`OthersMax`) is enough to use up either limit.
- *Reordering*: 18 packets over a limit of 8 wrap the sequence numbers twice, with every window that divides the limit and fits an array of 4.
- *WDS*: one peer, two events and two entries for beacons: a late event meets the peer's successor of the same address.
- *Scan*: two bands with one or two chunks each, so that a scan goes to a second chunk and to a second band. Access points are in one
  band only; with both, a scan may hang (`scan_statements`), and the properties checked here hold as well.
- *Recovery*: one slave shows every order of its task against the master's; with two slaves recovery may hang (`recovery_vaps`).
- *Send queue*: two descriptors, so that one is the last; limits of 1 and 2, lists of 1 (`QMax`) and one keep-alive (`NullMax`), so that every
  limit is met; one VAP, as with two the flow may stay stopped (`flow_two_vaps`).
- *Serializer*: three commands and two priorities let a command be passed while another executes.

The blocks of TXMM are alike, so `buffers` starts with one order of them in FREE; no symmetry reduction is used.
Deadlock is checked in `buffers` and `data_path`. The other fair runs switch it off because
the system may stop: TXMM is gone after its cleanup, and the serializer can hang in its stop (finding
`serializer_stop`); so do the runs that show a hang, and `txmm_claimed`.

Every property has a mutant: an operator next to a definition, marked "mutant", that differs from it by a
slip the code could contain (a missing reset of the event, a deletion that does not fix the back
pointer, a reference not dropped). Put in the place of the definition it makes the property fail.

## Fairness

*Txmm.* Processes are scheduled again and again, but tasklet and timer may come in between at
any time, hence strong fairness for each process's next step of a send. `bsend.mutex` is a semaphore
that serves its waiters in order; strong fairness of each waiter says no more than that it is
not passed for ever. Tasklet and timer run to completion once begun (weak fairness), and the
armed timer fires again and again (strong, as it may be kept off by the tasklet). A timeout passes: the expiry of a timed message that is scanned
again and again happens. The caller of cleanup is a process like the others. There is no fairness
for confirmations, cancellations, new sends, faults or shutdown.

*Serializer.* The thread, the process in `mtlk_serializer_stop` and the caller of `execute_blocked` each
make progress when they can (weak fairness; they run in parallel and nothing they wait for is taken away
again), the callback of a command returns, and a time to live ends. Nobody has to enqueue, cancel, stop or start.

*Recovery.* The threads of the serializers run when they have a task that can go on, and the armed watchdog fires (weak
fairness). No fairness for deaths, reset requests, the fail timer or configuration.

*Send queue.* The scheduled tasklet runs, what a handler has begun it ends, a scan ends (weak). The firmware confirms every packet it
has: strong fairness per context and category, since other handlers come in between; without it nothing is promised.

*Scan.* The thread runs, blocked messages and scan requests are answered or time out, the pause timer expires, a woken process
goes on (weak). Nobody has to start, connect, disconnect or stop.

Rings, agreements, reordering and WDS are checked for safety only: their progress depends on the peer and the
firmware, which owe nothing; `WdsNeverStuck` states as an invariant that someone is always responsible for a peer.

## The proofs

All theorems are checked by TLAPS for every value of the constants that satisfies the named assumption of its module
(`ConstantsAssumption`, `BlockAssumption`, `AddbaConstants`, `RodConstants`, `WdsAssumption`, `ScanAssumption`, `RcvryConstants`, `SqConstants`):
any finite set of blocks, commands, VAPs, stations or frames, any sets of descriptors, messages, TIDs or peers, any number of priorities, windows or
packets. What a theorem assumes besides is a hypothesis in its statement, and is said below. Each component has an inductive
invariant, whose parts TLC checked on the instances of the runs before they were proved.

*ListsProofs*: what `Append`, `Tail` and the two deletions do to the elements of a sequence and that
they keep them distinct. All else about queues rests on these. And what loops rest on: `NatInd` (induction over a
set of numbers, from the well-foundedness of `<`), `LoopExists` (a function defined round by round exists), and the remainders of numbers that
wrap around (`Wraps`, `ModAdd`, `ModMod`, `ModSame`). And what the counters of the send queue rest on: how often a packet is in
a list that is appended to, shortened or filtered (`CountAppend`, `CountFront`, `CountTail`, `WithoutElems`), and sums of functions over finite sets. A sum
is the number of dots in a picture that has as many dots in the column of each argument as the value there (`SumIsDots`, by induction over
the recursion of the fold); what happens to a sum when one term changes or zeros are left out is then about finite sets
(`SumUpdate`, `SumRestrict`).

*TxmmProofs* assumes `~SMP`. The inductive invariant `IInv` is `TypeOK`, `BlocksCoherent` and

- `Attached`: between attach and send the block of a message is in no queue, so that the send
  does not put it into a second one;
- `HasSlot`: who is about to call `msg_send` has a descriptor;
- `TaskletInv`, `TimerInv`: a block claimed by the tasklet or the timer is in no queue, has a message and that
  message is past its send; tasklet and timer do not overlap; what the scan has still to visit is in the queue it
  scans; and TIMED_OUT is empty whenever the timer is idle. The last is why `_mtlk_txmm_free` may treat a block
  in TIMED_OUT as one in no queue: with one CPU no cancellation ever meets one.

From it follow `TxmmTypeCorrect`, `BlocksAlwaysCoherent` and `ClaimedAlwaysOwned` (the assertion of the callback).
The assumption is needed: with two CPUs `ClaimedBlockOwned` fails (run `txmm_claimed`).

On top of `IInv` four more invariants:

- `SlotInv` says for every descriptor where it is (`SlotPlaces`) and that blocks which wait have different ones (`SlotsUsed`);
  it gives `SlotsAlwaysAccounted`.
- `NeverOvertakes` is the action property `NoOvertaking`; `AlwaysWorkConserving` needs `"SEND" \notin ClbActions`, since nothing pumps after
  that action (as in `txmm_live`).
- `BlockedInv` gives `OkAlwaysConfirmed`. The event is one for all blocked sends, so that the invariant must say whose it is: only the owner of
  the mutex sends and waits (`Turn`), a send has its block to the end (`Keeps`), a send that has returned has no callback
  to come that could set the event of the next (`Settled`), the timer never claims a blocked message (`Expired`), and an event set in an
  active layer means the confirmation of the sender that waits (`Woken`).
- `RefsInv` gives `CleanupAlwaysWaits`: the remove lock counts its owner and the blocked sends that have entered, and while no death of the
  firmware is pending the flag `TXMM_FLAGS_ACTIVE` tells the phase of the layer's life. It says nothing of a halted layer whose storage is released: there cleanup finds the flag
  down and does not wait, which `CleanupWaits` excepts.

*RingProofs*: `RingInv` says that `to` is `total` places after `from` and that `idx` of the block at each place in use is that place.
`RingAlwaysCoherent` and `RingImplementsFifo` follow for any number of blocks. The ordered deletion is the hard part: `Shift` is a loop that moves
one block a round and may wrap, and `ShiftedBy` says, by induction over the rounds, what array and back pointers look like after each. That a put
finds room follows by counting: the blocks of a ring are different, and there are as many places as blocks.
The refinement is proved step by step; a step on another ring (`OtherRing`) stutters.

*SerializerProofs*: `IInv` is `TypeOK`, `QueuesCoherent`, `CompletesOnce`, `BypassedAtMostOnce` and

- `Counting`: the remove lock's count, and that its event is set only when nothing is queued and nothing can be
  any more;
- `Lifecycle`: where a command can be in each state of its client and of the thread; this excludes that cancel and thread
  both complete it, and that a blocked caller leaves while the thread has it;
- `PassedIsNew`: a queued command above the priority the scan looks at was enqueued after the scan had passed and
  has not been bypassed yet. The scan starts at the top after each command, so it cannot be passed twice.

From it follow `TypeCorrect`, `PendingAlwaysCounted`, `AlwaysCompletesOnce`, `CommandAlwaysAlive`,
`AlwaysBypassedAtMostOnce` and `StopAlwaysDrains`.

*BlockAckProofs*, the agreements: `BaInv` is the types (`Tids`), the place of a removal (`Teardown`), the counters (`Counters`, `Counted`), and for
each TID `TidInv`: what the state of the receiver says of reordering and answers (`RxShape`), what the sections of a removal leave
behind (`StopShape`) and that a confirmation finds a state it belongs to (`Expected`). `BaAlwaysReordersInSession` holds on any number of
CPUs; `BaReferencesNeverLeak` and `BaAlwaysAgrees` need `OneCore`, nothing else. `Counted` is an inequality for the aggregations and an
equation for the reorderings: a confirmation that comes after the peer's rejection brings the TID back to a
state with a reference that it no longer has (`addba.c`, 488), so the counter may be too low, and then below zero
(`addba_asserts`); it is never too high, so no reference leaks and the limit on aggregations is never used up for good.

*BlockAckProofs*, the reordering: `RodInv` says that the window starts at the number `rodAbs`, that every packet held is of the window and in
the slot of its number (`Good`), that the slot at the head is empty while the queue is in use, and that all that went up is below the head. The
loops of `rod.c` are treated once and for all: the slots on a path of n are those of the numbers `rodAbs` to `rodAbs + n - 1` (`PathIs`), what
goes up on it rises between these (`SentUpIs`), the flush and the run to the first empty slot end within a window
(`EmptyingIs`, `RunPathIs`), and a number that is not too old is ahead of the head (`AroundIs`). Every operation is then one or two
such moves (`Advances`, `AdvancesTwice`). The theorems assume `Fits`: the windows divide the space of
numbers, which is greater than 2, and are no larger than the array. `rod_windows` shows that they fail otherwise.

*WdsScanProofs*, the peers: `WdsInv` is the types (`Maps`, `Outside`), the threads and the lock (`Whereabouts`), and per address `PeerInv`:
its entries for beacons (`Entries`), its reference (`Referenced`) and who drives it (`Driven`). `WdsStaAlwaysReferenced` and `WdsNeverForgotten` hold in all
orders of events and whichever message fails; they assume nothing. The latter is about peers that are not CONNECTED; that one
whose deletion failed may stay CONNECTED without its station is in `wds_statements`.

*WdsScanProofs*, the scan: `ScanInv` is the types, the single continuation of a scan, where the thread is, the event and power save mode (`Shape` with `OnlyContinuation`,
`ThreadPlace`, `Signalled`, `PowerSaveKnown`) and `ScanLeavesNothing`. It gives `ScanAlwaysOneContinuation` and `ScanAlwaysLeavesNothing`. The latter says exactly what may be left behind when no scan
runs: the flow stays held only after a request that timed out, power save mode stays on only after a refusal of the firmware, a request that timed out, or a
disconnection in the middle of a chunk. The repository's comments rule out the held flow and the last of these; `scan_statements` shows that both
happen.

*FwRecoveryProofs*: `RcvryInv` is the types, `TaskInv` (where master and slaves are, and the two semaphores), `InfoInv` (the table of VAPs)
and `RcvryRestores`. The semaphores are counted: the units of `slave_sync` less its sleepers are those the master has still to take less the slaves that have still
to give one (`SyncInv`); the units of `slave_rlse` less its sleepers are the slaves that have still to take one, plus one, less what the master
has still to give (`RlseInv`). A slave may be late by one attempt
and still sleep for the unit of the previous one; nevertheless the master rebuilds the card only when every slave is in its task
(`RcvryAlwaysAlone`), for any number of VAPs: with two slaves recovery may hang (`recovery_vaps`), but never rebuilds too early.

*SendQueueProofs* assumes `~SqSmp`. `SqInv` is the shape of the variables with counters that may be negative (`SqShape`), and

- `TurnsInv`: one handler runs at a time, and what it was begun with is still there when it goes on: the context of a packet, the descriptor
  of a confirmation, the stations of a multicast;
- `FlowInv`: transmission is prohibited exactly while the mask of stops is not empty, and a confirmation that found a free descriptor
  has scheduled the flush or found the flow stopped;
- `LinksInv`: the list of every category has each linked context once, and a context that is not linked is as it was left;
- `PacketsInv`: the size of a category is the number of its own packets over all contexts plus the number of frames with a clone; the
  count of a frame is the number of its clones, all in one category, plus one while it is being cloned;
- `BdsInv`: the free descriptors, those of the contexts and those of stations that are gone add up to all; a context is charged for
  its own;
- `PowerInv`: the count and the limit of a VAP follow its sleeping stations;
- `FlushInv`, `QuietInv`: behind the flush, and when nothing is scheduled, running or with the firmware and the flow is not stopped, no
  context below its limit has a packet.

That no counter is negative is a consequence, not a part: what a counter counts is a sum of lengths and cardinalities. So `SqTypeCorrect` comes last, with
`SqAlwaysCounted` and `SqNeverForgets`. The latter needs a limit of at least one per context and two descriptors
(`SqConstants`): with one, taken by a keep-alive, its confirmation finds no other free and wakes nobody, while the
packets of that station wait for it. With two, the last confirmation always finds one free. The hypothesis is needed as well: with `SqSmp` a station may
leave between the choice of its context and the enqueueing, and its packet stays counted in a list that nobody visits.

`DataPathImplements` (in `SendQueueProofs`) and `BuffersImplement` (in `WdsScanProofs`) say that the models which join components for TLC implement the specification of each one:
every step is a step of one component and leaves the others alone. `DataPathTypeCorrect` (under `~SqSmp`) and
`BuffersTypeCorrect` (under `Fits`) follow from the type theorems of the components.

Only model-checked: the liveness properties, which rest on fairness and `ENABLED` and are out of the prover's reach. Every invariant and action
property of a passing run is stated by a theorem. What the hypotheses of theorems exclude (`SMP` and `SqSmp`, windows that do not
divide the space of numbers or do not fit the array, `"smp"`) is excluded in the passing runs too, or is what a run with a violation shows.

## What the checks found

- `txmm_claimed`: with a second CPU a cancellation between the claim of a block and its callback
  violates the assertion at `txmm.c`, 409.
- `serializer_stop` (`StopReturns`): a stop between the thread's test of the stop flag and its reset of the event is lost, and
  `mtlk_serializer_stop` hangs (`mtlk_serializer_osdep.c`, 47-50).
- `recovery_vaps`: with two slaves, a slave that is slow to take its unit of `slave_rlse_mutex` loses it to another one that runs its
  task of the next attempt; both that slave and the master then wait for ever (`fw_recovery.c`, 996 and 1056).
- `flow_two_vaps`: the flow is stopped under the identifier of one VAP and started under that of the VAP whose packet
  is confirmed, and only if another descriptor is free already; with two VAPs it may stay stopped (`core_ext.c`, 3556).
- `addba_asserts` (`BaAssertions`), three assertions: a confirmation handled after the peer's answer makes a rejected TID look
  requested, and the reference is dropped twice (`addba.c`, 488; `mtlk_reflim.h`, 69); a revival queued for a station starts a negotiation of the
  station that has connected in its place (`stadb.c`, 1213 and 343); the late status of an answer is taken for that of the next one, whose attempts are
  not counted yet (`addba.c`, 1638).
- `rod_windows` (`RodStatements`), two statements: a window of more than 64 stores packets behind `nbuf` (`rod.h`, 62; `rod.c`, 254); one that does not
  divide 4096 reorders wrongly at the wrap-around (`rod.c`, 177).
- `wds_statements` (`WdsStatements`), three statements: when DELETE_PEERAP fails for a lost peer its disconnection does not go on (`wds.c`, 784-788); the task
  of an old timer puts a second entry of a peer into the list for beacons (`wds.c`, 150 and 866); the task of a peer's timer does not take `peers_lock` and may free
  the peer while the master's thread sleeps in a message about it (`wds.h`, 28; `wds.c`, 998).
- `scan_statements` (`ScanStatements`), three statements: the user's disconnection leaves the scan module in background mode, and the synchronous scan of the next
  connection waits for a task of its own thread (`core.c`, 1353; `scan.c`, 705 and 995); a request that times out leaves the flow
  held (`scan.c`, 790 against 819); a disconnection during a background chunk leaves power save mode on (`core_ext.c`, 1902-1909).

The properties of the last four runs say that no behaviour breaks *all* the statements listed. Each statement by itself implies that, so the one behaviour that
TLC finds refutes every one of them; `MCAddba`, `MCRod` and `MCWds` record in a history variable which have failed on the way, and `ScanStatements` is a
disjunction of temporal formulas. The driver goes on after each, as the assertions are compiled out of a release build.

Seen while modelling, without a run of their own: a blocked send that gets the mutex after TXMM was halted or cleaned up
returns `MTLK_ERR_OK` for a message it did not send (`txmm.c`, 852-856), against `txmm.h`, 506; while TXMM is active OK
means confirmed (`OkConfirmedWhileActive`). When all blocks are in one ring the timer's loop takes it for empty
(`txmm.c`, 473); no sender in the repository asks for a timeout now. `current_command` may point at a command already given
back to its owner (`mtlk_serializer.c`, 295-298).

## What is left out

Of the modelled components: statistics, history, memory guards, formats of messages, failing
allocations at init, and wrong calls (a second free of a block, a deletion of a block that is not queued: the
code logs these and does nothing). A newly attached block keeps old values in fields that no path reads before they are
written. What each module leaves out besides is said in its section above.

### Not modelled

Most of the repository's lines are not logic a state machine can be about: tables and conversions of ioctl requests and parameters
(`mtlk_df_user.c`, most of `core.c` and `core_ext.c`), declarations of the firmware's message formats, register access, the
loading of firmware and calibration files, parsers of frames and snooped multicast packets, tools, loggers and test servers,
vendored code, scripts and builds. Channel selection, DFS and 20/40 coexistence are in the separate rflib and only
their headers are here. Of what is left, COC and PCOC, the VAP manager, and the references and ageing of the station
database could be modelled and are in the plan; L2NAT and traffic analysis are tables and statistics under one lock.

## Plan

Done: the paths that every request, packet and failure goes through (TXMM, serializer, recovery, send queue), and the protocols with a
state of their own (ADDBA, reordering, WDS, scan), with the proofs of their invariants. Next:

1. `Coc` with `Pcoc` and the traffic analyser that drives them; the VAP manager with the order of teardown; station references
   and host ageing.
2. The locks of TXMM and ADDBA as state, for the order in which two CPUs take them.

-------------------------------- MODULE Wds ---------------------------------
(***************************************************************************)
(* The WDS peer manager of one slave VAP (shared/wds.c with its entries in *)
(* core.c and core_ext.c).  A peer AP is configured by the user, waits in  *)
(* the master's list for a beacon, is added to the firmware, connects, and *)
(* is driven by the events of the firmware and by a timer of its own.      *)
(*                                                                         *)
(* Two threads work on a peer: the serializer of the VAP (user requests,   *)
(* connection events, the task of the timer, interface up and down) and    *)
(* the serializer of the master VAP (the task of a beacon).  Both sleep in *)
(* blocked messages to the firmware; the first takes peers_lock in all its *)
(* operations but the task of the timer.                                   *)
(***************************************************************************)
EXTENDS Integers, Sequences, FiniteSets

CONSTANTS
  Addr,         \* addresses of peer APs
  MaxPeers,     \* mtlk_core_get_max_stas_supported_by_fw
  EventMax,     \* bound on connection events in the VAP's serializer
  TaskMax,      \* bound on tasks of one peer's timer, and of beacons
  EntryMax      \* bound on entries for one peer in the list for beacons

ASSUME WdsAssumption == {MaxPeers, EventMax, TaskMax, EntryMax} \subseteq Nat \ {0}

VARIABLES
  wdsPeer,      \* wds->peers_list, NoPeer when there is none of the address
  wdsBeacon,    \* master_wds->on_beacon_list: entries of each address
  wdsNet,       \* "stopping": is_iface_stopping, still CONNECTED
  wdsTimerTask, \* tasks of the timers in the VAP's serializer
  wdsEvent,     \* connection events in the VAP's serializer
  wdsProc,      \* tasks of beacons in the master's serializer
  wdsVap,       \* what the VAP's thread executes
  wdsMaster,    \* what the master's thread executes
  wdsLock,      \* owner of wds->peers_lock
  wdsDb,        \* is a station of the address in the VAP's stadb?
  wdsRef,       \* references the peer manager holds on the station
  wdsFw         \* what the firmware knows of the peer
wdsVars == <<wdsPeer, wdsBeacon, wdsNet, wdsTimerTask, wdsEvent, wdsProc,
             wdsVap, wdsMaster, wdsLock, wdsDb, wdsRef, wdsFw>>

PeerState == {"DISCONNECTED", "CONNECTING", "CONNECTED", "DISCONNECTING",
              "ERROR"}
Peer == [state : PeerState, kill : BOOLEAN, added : BOOLEAN, sta : BOOLEAN,
         timer : BOOLEAN]
NoPeer == [state |-> "none"]
NewPeer == [state |-> "DISCONNECTED", kill |-> FALSE, added |-> FALSE,
            sta |-> FALSE, timer |-> FALSE]
Peers == {a \in Addr : wdsPeer[a] # NoPeer}

\* mtlk_core_is_connected; an interface is stopped when it is not.
Connected == wdsNet # "down"

\* Entries for beacons that exist or will come of tasks of the timer.
Room(a) == wdsBeacon[a] + wdsTimerTask[a] < EntryMax

Idle == [at |-> "idle"]
At(place, a) == [at |-> place, addr |-> a]
VapPlace == {"connect_del", "disconnect_del", "user_del", "timer_del"}
Threads == {Idle} \cup [at : VapPlace \cup {"checked", "adding"}, addr : Addr]
             \cup [at : {"leaving", "stopping", "started"}]

WdsInit ==
  /\ wdsPeer = [a \in Addr |-> NoPeer]
  /\ wdsBeacon = [a \in Addr |-> 0]
  /\ wdsNet = "up"
  /\ wdsTimerTask = [a \in Addr |-> 0]
  /\ wdsEvent = <<>> /\ wdsProc = <<>>
  /\ wdsVap = Idle /\ wdsMaster = Idle
  /\ wdsLock = "free"
  /\ wdsDb = [a \in Addr |-> FALSE]
  /\ wdsRef = [a \in Addr |-> 0]
  /\ wdsFw = [a \in Addr |-> "none"]

-----------------------------------------------------------------------------
(* The state machine of a peer, _wds_peer_fsm. *)

Arm(p, state) == [p EXCEPT !.state = state, !.timer = TRUE]

PeerFsmErrorRests(p, action) ==         \* mutant: no retry after an error
  IF action = "ERROR" /\ p.state = "CONNECTING"
  THEN [p EXCEPT !.state = "ERROR", !.timer = FALSE]
  ELSE IF action = "CONNECT" /\ p.state \in {"DISCONNECTED", "ERROR"}
  THEN Arm(p, "CONNECTING") ELSE p

PeerFsm(p, action) ==
  CASE p.state \in {"DISCONNECTED", "ERROR"} /\ action = "CONNECT" ->
         Arm(p, "CONNECTING")
    [] p.state \in {"DISCONNECTED", "ERROR", "CONNECTING"} /\ action = "ERROR" ->
         Arm(p, "ERROR")
    [] p.state \in {"CONNECTING", "DISCONNECTING"} /\ action = "DISCONNECT" ->
         Arm(p, "DISCONNECTED")
    [] p.state = "CONNECTING" /\ action = "CONNECTED" ->
         [p EXCEPT !.state = "CONNECTED", !.timer = FALSE]
    [] p.state = "CONNECTED" /\ action = "DISCONNECT" ->
         Arm(p, "DISCONNECTING")
    [] OTHER -> p

\* A peer the user has deleted goes when it is disconnected.
Kills(p, action) ==
  /\ action = "DISCONNECT" /\ p.kill
  /\ p.state \in {"DISCONNECTED", "ERROR", "DISCONNECTING"}

\* wds_on_beacon_exclude takes the first entry of the address.
Exclude(a) == IF wdsBeacon[a] = 0 THEN 0 ELSE wdsBeacon[a] - 1

\* Peer `a', changed to `p' with `ref' references, goes through the machine.
RunFsm(a, p, ref, action) ==
  IF Kills(p, action)
  THEN /\ wdsPeer' = [wdsPeer EXCEPT ![a] = NoPeer]
       /\ wdsRef' = [wdsRef EXCEPT ![a] = IF p.sta THEN ref - 1 ELSE ref]
       /\ wdsBeacon' = [wdsBeacon EXCEPT ![a] = Exclude(a)]
  ELSE /\ wdsPeer' = [wdsPeer EXCEPT ![a] = PeerFsm(p, action)]
       /\ wdsRef' = [wdsRef EXCEPT ![a] = ref]
       /\ UNCHANGED wdsBeacon

\* Dropping the station of a peer.
DropSta(p) == [p EXCEPT !.sta = FALSE]
DropRefForgotten(a) == wdsRef[a]        \* mutant
DropRef(a) == IF wdsPeer[a].sta THEN wdsRef[a] - 1 ELSE wdsRef[a]

(* The firmware and its answers to _wds_send_fw_cfg_peer_ap: on success the
   flag fw_peer_sta_added follows the request. *)

FwAnswers(a, add, ok) ==
  /\ wdsFw' = [wdsFw EXCEPT ![a] =
       IF ~ok THEN @ ELSE IF ~add THEN "none"
       ELSE IF @ = "none" THEN "added" ELSE @]
  /\ IF ok /\ ~add /\ wdsFw[a] # "none" /\ Connected
     THEN wdsEvent' \in {Append(wdsEvent, <<"disconnected", a>>)}
                          \cup IF wdsFw[a] = "added" THEN {wdsEvent} ELSE {}
     ELSE UNCHANGED wdsEvent
Answered(p, add, ok) == IF ok THEN [p EXCEPT !.added = add] ELSE p

FwConnects(a) ==
  /\ wdsFw[a] = "added" /\ Connected /\ Len(wdsEvent) < EventMax
  /\ wdsFw' = [wdsFw EXCEPT ![a] = "connected"]
  /\ wdsEvent' = Append(wdsEvent, <<"connected", a>>)
  /\ UNCHANGED <<wdsPeer, wdsBeacon, wdsNet, wdsTimerTask, wdsProc, wdsVap,
                 wdsMaster, wdsLock, wdsDb, wdsRef>>

FwDisconnects(a) ==
  /\ wdsFw[a] # "none" /\ Connected /\ Len(wdsEvent) < EventMax
  /\ wdsFw' = [wdsFw EXCEPT ![a] = "added"]
  /\ wdsEvent' = Append(wdsEvent, <<"disconnected", a>>)
  /\ UNCHANGED <<wdsPeer, wdsBeacon, wdsNet, wdsTimerTask, wdsProc, wdsVap,
                 wdsMaster, wdsLock, wdsDb, wdsRef>>

-----------------------------------------------------------------------------
(* Beacons: the tasklet moves the entry to the master's serializer, whose
   thread tests the VAP before it takes the lock of its peers. *)

OnBeacon(a) ==
  /\ wdsBeacon[a] > 0 /\ Len(wdsProc) < TaskMax
  /\ Len(wdsEvent) + Len(wdsProc) < EventMax
  /\ wdsBeacon' = [wdsBeacon EXCEPT ![a] = Exclude(a)]
  /\ wdsProc' = Append(wdsProc, a)
  /\ UNCHANGED <<wdsPeer, wdsNet, wdsTimerTask, wdsEvent, wdsVap, wdsMaster,
                 wdsLock, wdsDb, wdsRef, wdsFw>>

BeaconProcChecks ==
  /\ wdsMaster = Idle /\ wdsProc # <<>>
  /\ wdsProc' = Tail(wdsProc)
  /\ wdsMaster' = IF Connected THEN At("checked", Head(wdsProc)) ELSE Idle
  /\ UNCHANGED <<wdsPeer, wdsBeacon, wdsNet, wdsTimerTask, wdsEvent, wdsVap,
                 wdsLock, wdsDb, wdsRef, wdsFw>>

BeaconProcFinds ==
  /\ wdsMaster.at = "checked" /\ wdsLock = "free"
  /\ IF wdsMaster.addr \in Peers
     THEN wdsMaster' = At("adding", wdsMaster.addr) /\ wdsLock' = "master"
     ELSE wdsMaster' = Idle /\ UNCHANGED wdsLock
  /\ UNCHANGED <<wdsPeer, wdsBeacon, wdsNet, wdsTimerTask, wdsEvent, wdsProc,
                 wdsVap, wdsDb, wdsRef, wdsFw>>

\* Without its peer (see WdsPeerAlive) the thread works on freed memory, in
\* which the machine still finds DISCONNECTING and ignores the action.
BeaconProcAdded ==
  /\ wdsMaster.at = "adding"
  /\ \E ok \in BOOLEAN : LET a == wdsMaster.addr IN
       /\ FwAnswers(a, TRUE, ok)
       /\ IF a \in Peers
          THEN RunFsm(a, Answered(wdsPeer[a], TRUE, ok), wdsRef[a],
                      IF ok THEN "CONNECT" ELSE "ERROR")
          ELSE UNCHANGED <<wdsPeer, wdsRef, wdsBeacon>>
  /\ wdsMaster' = Idle /\ wdsLock' = "free"
  /\ UNCHANGED <<wdsNet, wdsTimerTask, wdsProc, wdsVap, wdsDb>>

-----------------------------------------------------------------------------
(* The timer of a peer, and its task, which runs without the lock. *)

TimerFires(a) ==
  /\ a \in Peers /\ wdsPeer[a].timer /\ wdsTimerTask[a] < TaskMax /\ Room(a)
  /\ wdsPeer' = [wdsPeer EXCEPT ![a].timer = FALSE]
  /\ wdsTimerTask' = [wdsTimerTask EXCEPT ![a] = @ + 1]
  /\ UNCHANGED <<wdsBeacon, wdsNet, wdsEvent, wdsProc, wdsVap, wdsMaster,
                 wdsLock, wdsDb, wdsRef, wdsFw>>

FsmTimer(a) ==
  /\ wdsVap = Idle /\ wdsTimerTask[a] > 0
  /\ wdsTimerTask' = [wdsTimerTask EXCEPT ![a] = @ - 1]
  /\ CASE a \notin Peers \/ wdsPeer[a].state = "CONNECTED" ->
            UNCHANGED <<wdsPeer, wdsRef, wdsBeacon, wdsVap>>
       [] wdsPeer[a].state = "CONNECTING" ->
            wdsVap' = At("timer_del", a) /\ UNCHANGED <<wdsPeer, wdsRef, wdsBeacon>>
       [] wdsPeer[a].state = "DISCONNECTING" ->
            RunFsm(a, wdsPeer[a], wdsRef[a], "DISCONNECT") /\ UNCHANGED wdsVap
       [] OTHER ->
            /\ wdsBeacon' = [wdsBeacon EXCEPT ![a] = @ + 1]
            /\ UNCHANGED <<wdsPeer, wdsRef, wdsVap>>
  /\ UNCHANGED <<wdsNet, wdsEvent, wdsProc, wdsMaster, wdsLock, wdsDb, wdsFw>>

FsmTimerDeleted ==
  /\ wdsVap.at = "timer_del"
  /\ \E ok \in BOOLEAN : LET a == wdsVap.addr IN
       /\ FwAnswers(a, FALSE, ok)
       /\ RunFsm(a, Answered(wdsPeer[a], FALSE, ok), wdsRef[a], "ERROR")
  /\ wdsVap' = Idle
  /\ UNCHANGED <<wdsNet, wdsTimerTask, wdsProc, wdsMaster, wdsLock, wdsDb>>

-----------------------------------------------------------------------------
(* Requests of the user. *)

UsrAddPeerAp(a) ==
  /\ wdsVap = Idle /\ wdsLock = "free"
  /\ a \notin Peers /\ Cardinality(Peers) # MaxPeers
  /\ wdsPeer' = [wdsPeer EXCEPT ![a] = NewPeer]
  /\ wdsBeacon' = [wdsBeacon EXCEPT ![a] = IF Connected THEN @ + 1 ELSE @]
  /\ Room(a)
  /\ UNCHANGED <<wdsNet, wdsTimerTask, wdsEvent, wdsProc, wdsVap, wdsMaster,
                 wdsLock, wdsDb, wdsRef, wdsFw>>

UsrDelPeerAp(a) ==
  /\ wdsVap = Idle /\ wdsLock = "free" /\ a \in Peers
  /\ LET p == [wdsPeer[a] EXCEPT !.kill = TRUE] IN
       IF p.added
       THEN /\ wdsPeer' = [wdsPeer EXCEPT ![a] = p]
            /\ wdsVap' = At("user_del", a) /\ wdsLock' = "vap"
            /\ UNCHANGED <<wdsRef, wdsBeacon>>
       ELSE RunFsm(a, p, wdsRef[a], "DISCONNECT") /\ UNCHANGED <<wdsVap, wdsLock>>
  /\ UNCHANGED <<wdsNet, wdsTimerTask, wdsEvent, wdsProc, wdsMaster, wdsDb,
                 wdsFw>>

UsrDelDeleted ==
  /\ wdsVap.at = "user_del"
  /\ \E ok \in BOOLEAN : LET a == wdsVap.addr IN
       /\ FwAnswers(a, FALSE, ok)
       /\ IF ok THEN RunFsm(a, Answered(wdsPeer[a], FALSE, ok), wdsRef[a], "DISCONNECT")
                ELSE UNCHANGED <<wdsPeer, wdsRef, wdsBeacon>>
  /\ wdsVap' = Idle /\ wdsLock' = "free"
  /\ UNCHANGED <<wdsNet, wdsTimerTask, wdsProc, wdsMaster, wdsDb>>

-----------------------------------------------------------------------------
(* Connection events.  mtlk_stadb_add_sta refuses an address it has; the
   event of a stopped interface is dropped. *)

PeerConnect ==
  /\ wdsVap = Idle /\ wdsLock = "free"
  /\ wdsEvent # <<>> /\ Head(wdsEvent)[1] = "connected"
  /\ wdsEvent' = Tail(wdsEvent)
  /\ \E added \in BOOLEAN : LET a == Head(wdsEvent)[2] IN
       /\ added => Connected /\ ~wdsDb[a]
       /\ wdsDb' = [wdsDb EXCEPT ![a] = @ \/ added]
       /\ CASE added /\ a \in Peers ->
                 /\ RunFsm(a, [wdsPeer[a] EXCEPT !.sta = TRUE], wdsRef[a] + 1,
                           "CONNECTED")
                 /\ UNCHANGED <<wdsVap, wdsLock>>
            [] ~added /\ Connected /\ a \in Peers ->
                 /\ wdsVap' = At("connect_del", a) /\ wdsLock' = "vap"
                 /\ UNCHANGED <<wdsPeer, wdsRef, wdsBeacon>>
            [] OTHER -> UNCHANGED <<wdsPeer, wdsRef, wdsBeacon, wdsVap, wdsLock>>
  /\ UNCHANGED <<wdsNet, wdsTimerTask, wdsProc, wdsMaster, wdsFw>>

ConnectFailedDeleted ==
  /\ wdsVap.at = "connect_del"
  /\ \E ok \in BOOLEAN : LET a == wdsVap.addr IN
       /\ FwAnswers(a, FALSE, ok)
       /\ RunFsm(a, Answered(wdsPeer[a], FALSE, ok), wdsRef[a], "ERROR")
  /\ wdsVap' = Idle /\ wdsLock' = "free"
  /\ UNCHANGED <<wdsNet, wdsTimerTask, wdsProc, wdsMaster, wdsDb>>

\* wds_peer_disconnect, and for a peer the firmware has no more, or for
\* another station, the disconnection of the station.
PeerDisconnect(a) ==
  /\ wdsVap = Idle /\ wdsLock = "free"
  /\ IF a \in Peers /\ wdsPeer[a].added
     THEN /\ wdsPeer' = [wdsPeer EXCEPT ![a] = DropSta(@)]
          /\ wdsRef' = [wdsRef EXCEPT ![a] = DropRef(a)]
          /\ wdsVap' = At("disconnect_del", a) /\ wdsLock' = "vap"
          /\ UNCHANGED <<wdsBeacon, wdsDb>>
     ELSE /\ IF a \in Peers
             THEN RunFsm(a, DropSta(wdsPeer[a]), DropRef(a), "DISCONNECT")
             ELSE UNCHANGED <<wdsPeer, wdsRef, wdsBeacon>>
          /\ wdsDb' = [wdsDb EXCEPT ![a] = FALSE]
          /\ UNCHANGED <<wdsVap, wdsLock>>
  /\ UNCHANGED <<wdsNet, wdsTimerTask, wdsProc, wdsMaster, wdsFw>>

DisconnectEvent ==
  /\ wdsEvent # <<>> /\ Head(wdsEvent)[1] = "disconnected"
  /\ wdsEvent' = Tail(wdsEvent)
  /\ \/ Connected /\ PeerDisconnect(Head(wdsEvent)[2])
     \/ /\ ~Connected /\ wdsVap = Idle
        /\ UNCHANGED <<wdsPeer, wdsBeacon, wdsNet, wdsTimerTask, wdsProc, wdsVap,
                       wdsMaster, wdsLock, wdsDb, wdsRef, wdsFw>>

\* _mtlk_core_ap_disconnect_sta of the user, for any address.
UsrDisconnects(a) == Connected /\ PeerDisconnect(a) /\ UNCHANGED wdsEvent

\* When DELETE_PEERAP failed (no message, time-out, refusal) the state stays.
DisconnectDeleted ==
  /\ wdsVap.at = "disconnect_del"
  /\ \E ok \in BOOLEAN : LET a == wdsVap.addr IN
       /\ FwAnswers(a, FALSE, ok)
       /\ IF ok THEN RunFsm(a, Answered(wdsPeer[a], FALSE, ok), wdsRef[a], "DISCONNECT")
                ELSE UNCHANGED <<wdsPeer, wdsRef, wdsBeacon>>
  /\ wdsVap' = Idle /\ wdsLock' = "free"
  /\ UNCHANGED <<wdsNet, wdsTimerTask, wdsProc, wdsMaster, wdsDb>>

-----------------------------------------------------------------------------
(* The interface goes down and up: wds_on_if_down first clears the list for
   beacons, then waits for the lock of the peers; the messages that stop the
   VAP follow.  On the way up the VAP is connected before wds_on_if_up. *)

IfDownBeacons ==
  /\ wdsVap = Idle /\ Connected
  /\ wdsNet' = "stopping"
  /\ wdsBeacon' = [a \in Addr |-> 0]
  /\ wdsVap' = [at |-> "leaving"]
  /\ UNCHANGED <<wdsPeer, wdsTimerTask, wdsEvent, wdsProc, wdsMaster,
                 wdsLock, wdsDb, wdsRef, wdsFw>>

IfDownPeers ==
  /\ wdsVap.at = "leaving" /\ wdsLock = "free"
  /\ wdsPeer' = [a \in Addr |-> IF a \in Peers THEN NewPeer ELSE NoPeer]
  /\ wdsRef' = [a \in Addr |-> IF a \in Peers THEN DropRef(a) ELSE wdsRef[a]]
  /\ wdsVap' = [at |-> "stopping"]
  /\ UNCHANGED <<wdsBeacon, wdsNet, wdsTimerTask, wdsEvent, wdsProc, wdsMaster,
                 wdsLock, wdsDb, wdsFw>>

\* While a scan runs the request fails with NOT_READY and is repeated.
DeactivateNotReady ==
  /\ wdsVap.at = "stopping"
  /\ wdsVap' = Idle
  /\ UNCHANGED <<wdsPeer, wdsBeacon, wdsNet, wdsTimerTask, wdsEvent, wdsProc,
                 wdsMaster, wdsLock, wdsDb, wdsRef, wdsFw>>

Deactivated ==
  /\ wdsVap.at = "stopping"
  /\ wdsNet' = "down"
  /\ wdsDb' = [a \in Addr |-> FALSE]
  /\ wdsFw' = [a \in Addr |-> "none"]
  /\ wdsVap' = Idle
  /\ UNCHANGED <<wdsPeer, wdsBeacon, wdsTimerTask, wdsEvent, wdsProc, wdsMaster,
                 wdsLock, wdsRef>>

Activated ==
  /\ wdsVap = Idle /\ ~Connected /\ \A a \in Peers : Room(a)
  /\ wdsNet' = "up"
  /\ wdsVap' = [at |-> "started"]
  /\ UNCHANGED <<wdsPeer, wdsBeacon, wdsTimerTask, wdsEvent, wdsProc, wdsMaster,
                 wdsLock, wdsDb, wdsRef, wdsFw>>

IfUp ==
  /\ wdsVap.at = "started" /\ wdsLock = "free"
  /\ wdsBeacon' = [a \in Addr |-> wdsBeacon[a] + IF a \in Peers THEN 1 ELSE 0]
  /\ wdsVap' = Idle
  /\ UNCHANGED <<wdsPeer, wdsNet, wdsTimerTask, wdsEvent, wdsProc, wdsMaster,
                 wdsLock, wdsDb, wdsRef, wdsFw>>

-----------------------------------------------------------------------------
PeerStep(a) ==
  \/ FwConnects(a) \/ FwDisconnects(a) \/ OnBeacon(a)
  \/ TimerFires(a) \/ FsmTimer(a)
  \/ UsrAddPeerAp(a) \/ UsrDelPeerAp(a) \/ UsrDisconnects(a)

WdsNext ==
  \/ BeaconProcChecks \/ BeaconProcFinds \/ BeaconProcAdded
  \/ FsmTimerDeleted \/ UsrDelDeleted
  \/ PeerConnect \/ ConnectFailedDeleted
  \/ DisconnectEvent \/ DisconnectDeleted
  \/ IfDownBeacons \/ IfDownPeers \/ DeactivateNotReady
  \/ Deactivated \/ Activated \/ IfUp
  \/ \E a \in Addr : PeerStep(a)

WdsSpec == WdsInit /\ [][WdsNext]_wdsVars
-----------------------------------------------------------------------------
\* Peers, counters, threads and the lock stay in their ranges; the lock is
\* held exactly while its owner sleeps in a message.
WdsTypeOK ==
  /\ wdsPeer \in [Addr -> Peer \cup {NoPeer}]
  /\ wdsBeacon \in [Addr -> Nat]
  /\ wdsNet \in {"up", "stopping", "down"}
  /\ wdsTimerTask \in [Addr -> 0..TaskMax]
  /\ wdsEvent \in Seq({"connected", "disconnected"} \X Addr)
  /\ wdsProc \in Seq(Addr) /\ Len(wdsProc) <= TaskMax
  /\ wdsVap \in Threads /\ wdsMaster \in Threads
  /\ (wdsLock = "master") = (wdsMaster.at = "adding")
  /\ (wdsLock = "vap") =
       (wdsVap.at \in {"connect_del", "disconnect_del", "user_del"})
  /\ wdsDb \in [Addr -> BOOLEAN]
  /\ wdsFw \in [Addr -> {"none", "added", "connected"}]

\* A peer whose `sta' is set owns exactly one reference on a station that is
\* still in the database, any other peer or deleted peer owns none: neither a
\* late event, a failing connection, a deletion by the timer nor the end of
\* the interface leaks a reference or leaves a pointer behind.
WdsStaReferenced ==
  \A a \in Addr :
    LET has == a \in Peers /\ wdsPeer[a].sta IN
      /\ wdsRef[a] = IF has THEN 1 ELSE 0
      /\ has => wdsDb[a]

\* Something goes on with a peer: its timer runs, or the task of the timer is
\* queued, or it is in the list for beacons, or a beacon of it is handled.
Driven(a) ==
  \/ wdsPeer[a].timer \/ wdsTimerTask[a] > 0
  \/ wdsBeacon[a] > 0
  \/ \E i \in DOMAIN wdsProc : wdsProc[i] = a
  \/ wdsMaster.at \in {"checked", "adding"} /\ wdsMaster.addr = a

\* On an interface that is up no peer is forgotten on its way to a connection or
\* to its deletion: whichever message fails, whichever event is late, a peer at
\* rest is CONNECTED.
WdsNeverStuck ==
  wdsNet = "up" /\ wdsVap = Idle =>
    \A a \in Peers : wdsPeer[a].state = "CONNECTED" \/ Driven(a)

\* "terminate further disconnection. Wait for UMI_DISCONNECTED" (wds.c:784): a
\* peer that has lost its station is either driven on or has that event to come.
WdsDisconnectionGoesOn ==
  wdsNet = "up" /\ wdsVap = Idle =>
    \A a \in Peers :
      wdsPeer[a].state = "CONNECTED" /\ ~wdsPeer[a].sta =>
        Driven(a) \/ \E i \in DOMAIN wdsEvent : wdsEvent[i] = <<"disconnected", a>>

\* "Assert on duplicated entry" (wds.c:150): the list for beacons never has two
\* entries of one address.
WdsNoDuplicateEntry == \A a \in Addr : wdsBeacon[a] <= 1

\* "peers_lock: Protect content of peers list entries" (wds.h:28): the peer
\* that the master's thread found and works on under the lock still exists.
WdsPeerAlive == wdsMaster.at = "adding" => wdsMaster.addr \in Peers
=============================================================================

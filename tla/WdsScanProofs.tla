--------------------------- MODULE WdsScanProofs ----------------------------
(***************************************************************************)
(* Safety of the WDS peer manager, for every set of addresses and every    *)
(* bound on events, tasks and entries, and of the scan, for every number   *)
(* of bands, every set of access points and every number of chunks.        *)
(***************************************************************************)
EXTENDS MCBuffers, BlockAckProofs

-----------------------------------------------------------------------------
(* The inductive invariant: the type invariant in parts, then one predicate
   of each address, so that a step on one peer leaves those of the others. *)

Maps ==
  /\ wdsPeer \in [Addr -> Peer \cup {NoPeer}]
  /\ wdsBeacon \in [Addr -> Nat]
  /\ wdsTimerTask \in [Addr -> 0 .. TaskMax]
  /\ wdsDb \in [Addr -> BOOLEAN]
  /\ wdsRef \in [Addr -> Int]

Outside ==
  /\ wdsNet \in {"up", "stopping", "down"}
  /\ wdsEvent \in Seq({"connected", "disconnected"} \X Addr)
  /\ wdsProc \in Seq(Addr) /\ Len(wdsProc) <= TaskMax
  /\ wdsFw \in [Addr -> {"none", "added", "connected"}]

Locked == {"connect_del", "disconnect_del", "user_del"}

Whereabouts ==
  /\ wdsVap \in Threads /\ wdsMaster \in Threads
  /\ (wdsLock = "master") = (wdsMaster.at = "adding")
  /\ (wdsLock = "vap") = (wdsVap.at \in Locked)
  /\ wdsVap.at \in VapPlace => wdsVap.addr \in Peers
  /\ wdsVap.at \in {"leaving", "stopping"} => wdsNet = "stopping"

\* The entries of the list for beacons and the tasks that will make more.
Entries(a) ==
  /\ wdsBeacon[a] + wdsTimerTask[a] <= EntryMax + 1
  /\ wdsVap.at = "started" /\ a \in Peers =>
       wdsBeacon[a] + wdsTimerTask[a] <= EntryMax

HasSta(a) == a \in Peers /\ wdsPeer[a].sta

Referenced(a) ==
  /\ wdsRef[a] = IF HasSta(a) THEN 1 ELSE 0
  /\ HasSta(a) => wdsDb[a]
  /\ wdsVap.at = "stopping" => ~HasSta(a)

\* A beacon is waited for or handled.
Awaited(a) ==
  \/ wdsBeacon[a] > 0
  \/ \E i \in DOMAIN wdsProc : wdsProc[i] = a
  \/ wdsMaster.at \in {"checked", "adding"} /\ wdsMaster.addr = a

HasTimer(a) == wdsPeer[a].timer \/ wdsTimerTask[a] > 0

\* What drives a peer on, state by state.
GoesOn(a) ==
  a \in Peers =>
    /\ wdsPeer[a].state = "CONNECTING" => HasTimer(a) \/ wdsVap = At("timer_del", a)
    /\ wdsPeer[a].state = "DISCONNECTING" => HasTimer(a)
    /\ wdsPeer[a].state \in {"DISCONNECTED", "ERROR"}
         /\ wdsNet = "up" /\ wdsVap.at # "started" => HasTimer(a) \/ Awaited(a)

PeerInv(a) == Entries(a) /\ Referenced(a) /\ GoesOn(a)

WdsInv == Maps /\ Outside /\ Whereabouts /\ \A a \in Addr : PeerInv(a)

\* The parts together give the type invariant.
LEMMA WdsTypeParts == Maps /\ Outside /\ Whereabouts => WdsTypeOK
  BY DEF WdsTypeOK, Maps, Outside, Whereabouts, Locked

-----------------------------------------------------------------------------
(* Threads and peers. *)

\* The places of a thread are told apart by their fields.
LEMMA PlaceFields ==
  /\ Idle.at = "idle"
  /\ \A place, a : At(place, a).at = place /\ At(place, a).addr = a
  BY DEF Idle, At

\* Every place of a thread that has an address has one of Addr.
LEMMA ThreadAddr ==
  ASSUME NEW t \in Threads
  PROVE  /\ t.at \in VapPlace \cup {"checked", "adding"} => t.addr \in Addr
         /\ t.at \in VapPlace \cup {"checked", "adding", "idle", "leaving", "stopping", "started"}
  BY DEF Threads, Idle, VapPlace

\* The places the actions go to are places of a thread.
LEMMA ThreadPlaces ==
  /\ Idle \in Threads
  /\ \A place \in VapPlace \cup {"checked", "adding"} : \A a \in Addr : At(place, a) \in Threads
  /\ \A place \in {"leaving", "stopping", "started"} : [at |-> place] \in Threads
  BY DEF Threads, At

\* A peer is a record of Peer.
LEMMA PeerRecord ==
  ASSUME Maps PROVE \A a \in Peers : a \in Addr /\ wdsPeer[a] \in Peer
  BY DEF Maps, Peers

\* No record of Peer is NoPeer.
LEMMA PeerIsSome == \A p \in Peer : p # NoPeer
  BY DEF Peer, NoPeer, PeerState

-----------------------------------------------------------------------------
(* The machine of a peer. *)

Action == {"CONNECT", "CONNECTED", "DISCONNECT", "ERROR"}

\* The machine leaves the record as it was, arms the timer or connects.
FsmGives(p, action, q) ==
  /\ q \in Peer /\ q.sta = p.sta
  /\ \/ /\ q = p
        /\ action = "CONNECT" => p.state \notin {"DISCONNECTED", "ERROR"}
        /\ action = "ERROR" => p.state \in {"CONNECTED", "DISCONNECTING"}
        /\ action = "DISCONNECT" => p.state \in {"DISCONNECTED", "ERROR"}
        /\ action = "CONNECTED" => p.state # "CONNECTING"
     \/ q.timer = TRUE /\ q.state # "CONNECTED"
     \/ action = "CONNECTED" /\ q.state = "CONNECTED"

\* That is all _wds_peer_fsm does.
LEMMA FsmOutcome ==
  ASSUME NEW p \in Peer, NEW action \in Action
  PROVE  FsmGives(p, action, PeerFsm(p, action))
<1>1. \A s \in PeerState : Arm(p, s) \in Peer /\ Arm(p, s).sta = p.sta
                           /\ Arm(p, s).timer = TRUE /\ Arm(p, s).state = s
  BY DEF Arm, Peer
<1>2. LET q == [p EXCEPT !.state = "CONNECTED", !.timer = FALSE]
      IN  q \in Peer /\ q.sta = p.sta /\ q.state = "CONNECTED"
  BY DEF Peer, PeerState
<1>3. p.state \in PeerState
  BY DEF Peer
<1>4. CASE p.state \in {"DISCONNECTED", "ERROR"} /\ action = "CONNECT"
  BY <1>1, <1>4 DEF PeerFsm, PeerState, FsmGives
<1>5. CASE p.state \in {"DISCONNECTED", "ERROR", "CONNECTING"} /\ action = "ERROR"
  BY <1>1, <1>5 DEF PeerFsm, PeerState, FsmGives
<1>6. CASE p.state \in {"CONNECTING", "DISCONNECTING"} /\ action = "DISCONNECT"
  BY <1>1, <1>6 DEF PeerFsm, PeerState, FsmGives
<1>7. CASE p.state = "CONNECTING" /\ action = "CONNECTED"
  BY <1>2, <1>7 DEF PeerFsm, PeerState, FsmGives
<1>8. CASE p.state = "CONNECTED" /\ action = "DISCONNECT"
  BY <1>1, <1>8 DEF PeerFsm, PeerState, FsmGives
<1>9. CASE /\ ~(p.state \in {"DISCONNECTED", "ERROR"} /\ action = "CONNECT")
           /\ ~(p.state \in {"DISCONNECTED", "ERROR", "CONNECTING"} /\ action = "ERROR")
           /\ ~(p.state \in {"CONNECTING", "DISCONNECTING"} /\ action = "DISCONNECT")
           /\ ~(p.state = "CONNECTING" /\ action = "CONNECTED")
           /\ ~(p.state = "CONNECTED" /\ action = "DISCONNECT")
  <2>1. PeerFsm(p, action) = p
    BY <1>9 DEF PeerFsm
  <2> QED BY <1>3, <1>9, <2>1 DEF PeerState, FsmGives
<1> QED BY <1>4, <1>5, <1>6, <1>7, <1>8, <1>9

\* What RunFsm does to its peer and to the others.
LEMMA RunFsmEffect ==
  ASSUME Maps, NEW a \in Addr, NEW p \in Peer, NEW ref \in Int, NEW action \in Action,
         RunFsm(a, p, ref, action)
  PROVE  /\ wdsPeer' \in [Addr -> Peer \cup {NoPeer}]
         /\ wdsRef' \in [Addr -> Int] /\ wdsBeacon' \in [Addr -> Nat]
         /\ \A b \in Addr \ {a} :
              UNCHANGED <<wdsPeer[b], wdsRef[b], wdsBeacon[b]>>
         /\ Kills(p, action) => wdsPeer'[a] = NoPeer /\ wdsBeacon'[a] <= wdsBeacon[a]
                                /\ wdsRef'[a] = IF p.sta THEN ref - 1 ELSE ref
         /\ ~Kills(p, action) => wdsPeer'[a] = PeerFsm(p, action) /\ wdsRef'[a] = ref
                                 /\ wdsBeacon'[a] = wdsBeacon[a]
<1>1. PeerFsm(p, action) \in Peer
  BY FsmOutcome DEF FsmGives
<1>2. Exclude(a) \in Nat /\ Exclude(a) <= wdsBeacon[a]
  BY DEF Exclude, Maps
<1>3. CASE Kills(p, action)
  BY <1>2, <1>3 DEF RunFsm, Maps
<1>4. CASE ~Kills(p, action)
  BY <1>1, <1>4 DEF RunFsm, Maps
<1> QED BY <1>3, <1>4

-----------------------------------------------------------------------------
(* The predicate of an address after a step. *)

\* Nothing of address `b' changes but where the beacon is.
Kept(b) ==
  /\ UNCHANGED <<wdsPeer[b], wdsBeacon[b], wdsTimerTask[b], wdsRef[b], wdsDb[b]>>
  /\ wdsVap'.at \in {"started", "stopping"} => wdsVap' = wdsVap
  /\ wdsVap = At("timer_del", b) \/ wdsVap = At("disconnect_del", b) => wdsVap' = wdsVap
  /\ wdsNet' = "up" => wdsNet = "up" /\ (wdsVap.at = "started" => wdsVap' = wdsVap)
  /\ Awaited(b) => Awaited(b)'

\* Such an address keeps its predicate.
LEMMA KeptPeer == ASSUME NEW b \in Addr, PeerInv(b), Kept(b) PROVE PeerInv(b)'
<1>1. (b \in Peers)' <=> b \in Peers
  BY DEF Peers, Kept
<1>2. Entries(b)'
  BY <1>1 DEF PeerInv, Entries, Kept
<1>3. HasSta(b)' <=> HasSta(b)
  BY <1>1 DEF HasSta, Kept
<1>4. Referenced(b)'
  BY <1>3 DEF PeerInv, Referenced, Kept
<1>5. HasTimer(b)' <=> HasTimer(b)
  BY DEF HasTimer, Kept
<1>6. GoesOn(b)'
  BY <1>1, <1>5 DEF PeerInv, GoesOn, Kept
<1> QED BY <1>2, <1>4, <1>6 DEF PeerInv

\* The peer that goes through the machine keeps its predicate.
LEMMA RanPeer ==
  ASSUME Maps, NEW a \in Addr, a \in Peers, PeerInv(a),
         NEW p \in Peer, NEW ref \in Int, NEW action \in Action, RunFsm(a, p, ref, action),
         p.state = wdsPeer[a].state, p.timer = wdsPeer[a].timer,
         ref = IF p.sta THEN 1 ELSE 0,
         p.sta => wdsDb'[a],
         wdsVap'.at = "stopping" => ~p.sta,
         wdsVap'.at = "started" => wdsVap.at = "started",
         wdsTimerTask' \in [Addr -> 0 .. TaskMax], wdsTimerTask'[a] <= wdsTimerTask[a],
         wdsTimerTask'[a] = wdsTimerTask[a]
           \/ (p.state = "DISCONNECTING" /\ action = "DISCONNECT"),
         action = "CONNECTED" => p.sta,
         action = "CONNECT" => wdsVap' = wdsVap,
         action \in {"CONNECTED", "DISCONNECT"} =>
           /\ (Awaited(a) /\ wdsBeacon'[a] = wdsBeacon[a] => Awaited(a)')
           /\ (wdsNet' = "up" => wdsNet = "up" /\ (wdsVap.at = "started" => wdsVap' = wdsVap))
  PROVE  PeerInv(a)'
<1>1. CASE Kills(p, action)
  <2>1. wdsPeer'[a] = NoPeer /\ wdsBeacon'[a] <= wdsBeacon[a] /\ wdsRef'[a] = 0
        /\ wdsBeacon' \in [Addr -> Nat]
    BY <1>1, RunFsmEffect
  <2>2. ~(a \in Peers)'
    BY <2>1 DEF Peers
  <2>3. Entries(a)'
    BY <2>1, <2>2, WdsAssumption DEF Entries, PeerInv, Maps
  <2>4. Referenced(a)' /\ GoesOn(a)'
    BY <2>1, <2>2 DEF Referenced, HasSta, GoesOn
  <2> QED BY <2>3, <2>4 DEF PeerInv
<1>2. CASE ~Kills(p, action)
  <2>1. wdsPeer'[a] = PeerFsm(p, action) /\ wdsBeacon'[a] = wdsBeacon[a] /\ wdsRef'[a] = ref
    BY <1>2, RunFsmEffect
  <2>1a. FsmGives(p, action, wdsPeer'[a])
    BY <2>1, FsmOutcome
  <2>2. (a \in Peers)'
    BY <2>1a, PeerIsSome DEF Peers, FsmGives
  <2>3. Entries(a)'
    BY <2>1, <2>2, WdsAssumption DEF Entries, PeerInv, Maps
  <2>4. wdsPeer'[a].sta = p.sta
    BY <2>1a DEF FsmGives
  <2>5. Referenced(a)'
    BY <2>1, <2>2, <2>4 DEF Referenced, HasSta
  <2>6. GoesOn(a)
    BY DEF PeerInv
  <2>7. GoesOn(a)'
    <3>1. CASE wdsPeer'[a].timer = TRUE /\ wdsPeer'[a].state # "CONNECTED"
      BY <3>1 DEF GoesOn, HasTimer
    <3>2. CASE action = "CONNECTED" /\ wdsPeer'[a].state = "CONNECTED"
      BY <2>4, <3>2 DEF GoesOn
    <3>3. CASE /\ wdsPeer'[a] = p
               /\ action = "CONNECT" => p.state \notin {"DISCONNECTED", "ERROR"}
               /\ action = "ERROR" => p.state \in {"CONNECTED", "DISCONNECTING"}
               /\ action = "DISCONNECT" => p.state \in {"DISCONNECTED", "ERROR"}
               /\ action = "CONNECTED" => p.state # "CONNECTING"
      <4>1. wdsTimerTask'[a] = wdsTimerTask[a]
        BY <3>3
      <4>2. HasTimer(a)' <=> HasTimer(a)
        BY <3>3, <4>1 DEF HasTimer
      <4>3. CASE p.state = "CONNECTING"
        <5>1. action = "CONNECT"
          BY <3>3, <4>3 DEF Action
        <5> QED BY <2>6, <3>3, <4>2, <4>3, <5>1 DEF GoesOn
      <4>4. CASE p.state = "DISCONNECTING"
        BY <2>6, <3>3, <4>2, <4>4 DEF GoesOn
      <4>5. CASE p.state = "CONNECTED"
        BY <2>6, <3>3, <4>2, <4>5 DEF GoesOn
      <4>6. CASE p.state \in {"DISCONNECTED", "ERROR"}
        <5>1. action \in {"CONNECTED", "DISCONNECT"}
          BY <3>3, <4>6 DEF Action
        <5> QED BY <2>1, <2>6, <3>3, <4>2, <4>6, <5>1 DEF GoesOn
      <4> QED BY <4>3, <4>4, <4>5, <4>6 DEF Peer, PeerState
    <3> QED BY <2>1a, <3>1, <3>2, <3>3 DEF FsmGives
  <2> QED BY <2>3, <2>5, <2>7 DEF PeerInv
<1> QED BY <1>1, <1>2

-----------------------------------------------------------------------------
(* The firmware and the beacons. *)

Events == {"connected", "disconnected"} \X Addr

\* An answer of the firmware keeps its state and the queue of events typed.
LEMMA FwAnswersTyped ==
  ASSUME Outside, NEW a \in Addr, NEW add \in BOOLEAN, NEW ok \in BOOLEAN,
         FwAnswers(a, add, ok)
  PROVE  wdsFw' \in [Addr -> {"none", "added", "connected"}] /\ wdsEvent' \in Seq(Events)
<1>1. wdsEvent \in Seq(Events) /\ <<"disconnected", a>> \in Events
  BY DEF Outside, Events
<1>2. Append(wdsEvent, <<"disconnected", a>>) \in Seq(Events)
  BY <1>1
<1>3. wdsEvent' \in Seq(Events)
  BY <1>1, <1>2 DEF FwAnswers
<1>4. wdsFw' \in [Addr -> {"none", "added", "connected"}]
  BY DEF FwAnswers, Outside
<1> QED BY <1>3, <1>4

\* A step that leaves alone what the invariant says of an address keeps it.
LEMMA AllKept ==
  ASSUME WdsInv, Maps', Outside', Whereabouts', \A b \in Addr : Kept(b)
  PROVE  WdsInv'
<1>1. \A b \in Addr : PeerInv(b)'
  BY KeptPeer DEF WdsInv
<1> QED BY <1>1 DEF WdsInv

\* The firmware connects a peer, or loses it.
LEMMA FwStep ==
  ASSUME WdsInv, NEW a \in Addr, FwConnects(a) \/ FwDisconnects(a) PROVE WdsInv'
<1>1. Maps /\ Outside /\ Whereabouts
  BY DEF WdsInv
<1>2. UNCHANGED <<wdsPeer, wdsBeacon, wdsNet, wdsTimerTask, wdsProc, wdsVap, wdsMaster,
                  wdsLock, wdsDb, wdsRef>>
  BY DEF FwConnects, FwDisconnects
<1>3. wdsEvent' \in Seq(Events)
  <2>1. wdsEvent \in Seq(Events) /\ <<"disconnected", a>> \in Events
        /\ <<"connected", a>> \in Events
    BY <1>1 DEF Outside, Events
  <2>2. \A s \in Seq(Events), e \in Events : Append(s, e) \in Seq(Events)
    OBVIOUS
  <2>3. CASE FwConnects(a)
    <3>1. wdsEvent' = Append(wdsEvent, <<"connected", a>>)
      BY <2>3 DEF FwConnects
    <3> QED BY <2>1, <2>2, <3>1, Zenon
  <2>4. CASE FwDisconnects(a)
    <3>1. wdsEvent' = Append(wdsEvent, <<"disconnected", a>>)
      BY <2>4 DEF FwDisconnects
    <3> QED BY <2>1, <2>2, <3>1, Zenon
  <2> QED BY <2>3, <2>4
<1>4. wdsFw' \in [Addr -> {"none", "added", "connected"}]
  BY <1>1 DEF FwConnects, FwDisconnects, Outside
<1>5. Maps' /\ Outside' /\ Whereabouts'
  BY <1>1, <1>2, <1>3, <1>4 DEF Maps, Outside, Whereabouts, Peers, Events
<1>6. \A b \in Addr : Kept(b)
  BY <1>2 DEF Kept, Awaited
<1> QED BY <1>5, <1>6, AllKept

\* A beacon moves its entry to the master's serializer.
LEMMA OnBeaconStep == ASSUME WdsInv, NEW a \in Addr, OnBeacon(a) PROVE WdsInv'
<1>1. Maps /\ Outside /\ Whereabouts
  BY DEF WdsInv
<1>2. /\ UNCHANGED <<wdsPeer, wdsNet, wdsTimerTask, wdsEvent, wdsVap, wdsMaster, wdsLock,
                     wdsDb, wdsRef, wdsFw>>
      /\ wdsBeacon[a] > 0 /\ Len(wdsProc) < TaskMax /\ wdsProc' = Append(wdsProc, a)
      /\ wdsBeacon' = [wdsBeacon EXCEPT ![a] = wdsBeacon[a] - 1]
  <2>1. wdsBeacon[a] > 0 => Exclude(a) = wdsBeacon[a] - 1
    BY <1>1 DEF Exclude, Maps
  <2> QED BY <2>1 DEF OnBeacon
<1>3. wdsBeacon' \in [Addr -> Nat] /\ wdsBeacon'[a] = wdsBeacon[a] - 1
  BY <1>1, <1>2 DEF Maps
<1>4. wdsProc' \in Seq(Addr) /\ Len(wdsProc') <= TaskMax
      /\ DOMAIN wdsProc' = 1 .. Len(wdsProc) + 1 /\ wdsProc'[Len(wdsProc) + 1] = a
      /\ \A i \in DOMAIN wdsProc : i \in DOMAIN wdsProc' /\ wdsProc'[i] = wdsProc[i]
  BY <1>1, <1>2, WdsAssumption DEF Outside
<1>5. Maps'
  BY <1>1, <1>2, <1>3 DEF Maps
<1>6. Outside' /\ Whereabouts'
  BY <1>1, <1>2, <1>4 DEF Outside, Whereabouts, Peers
<1>7. \A b \in Addr \ {a} : Kept(b)
  BY <1>1, <1>2, <1>4 DEF Kept, Awaited, Maps
<1>8. PeerInv(a)'
  <2>1. PeerInv(a)
    BY DEF WdsInv
  <2>2. Awaited(a)'
    <3>1. Len(wdsProc) + 1 \in DOMAIN wdsProc'
      BY <1>1, <1>4 DEF Outside
    <3> QED BY <1>4, <3>1 DEF Awaited
  <2>3. Entries(a)'
    <3>1. wdsBeacon[a] \in Nat /\ wdsTimerTask[a] \in Nat /\ EntryMax \in Nat
      BY <1>1, WdsAssumption DEF Maps
    <3> QED BY <1>2, <1>3, <2>1, <3>1 DEF PeerInv, Entries, Peers
  <2>4. Referenced(a)' /\ GoesOn(a)'
    BY <1>2, <2>1, <2>2 DEF PeerInv, Referenced, HasSta, GoesOn, HasTimer, Peers
  <2> QED BY <2>3, <2>4 DEF PeerInv
<1>9. \A b \in Addr : PeerInv(b)'
  BY <1>7, <1>8, KeptPeer DEF WdsInv
<1> QED BY <1>5, <1>6, <1>9 DEF WdsInv

\* The master's thread takes the task and tests the VAP.
LEMMA BeaconProcChecksStep == ASSUME WdsInv, BeaconProcChecks PROVE WdsInv'
<1>1. Maps /\ Outside /\ Whereabouts
  BY DEF WdsInv
<1>2. /\ UNCHANGED <<wdsPeer, wdsBeacon, wdsNet, wdsTimerTask, wdsEvent, wdsVap, wdsLock,
                     wdsDb, wdsRef, wdsFw>>
      /\ wdsMaster = Idle /\ wdsProc # <<>> /\ wdsProc' = Tail(wdsProc)
      /\ wdsMaster' = IF Connected THEN At("checked", Head(wdsProc)) ELSE Idle
  BY DEF BeaconProcChecks
<1>3. /\ Head(wdsProc) \in Addr /\ Head(wdsProc) = wdsProc[1]
      /\ wdsProc' \in Seq(Addr) /\ Len(wdsProc') = Len(wdsProc) - 1
      /\ \A i \in DOMAIN wdsProc : i # 1 =>
           i - 1 \in DOMAIN wdsProc' /\ wdsProc'[i - 1] = wdsProc[i]
  BY <1>1, <1>2 DEF Outside
<1>4. wdsMaster' \in Threads /\ wdsMaster'.at \in {"checked", "idle"}
  BY <1>2, <1>3, ThreadPlaces, PlaceFields
<1>5. Maps' /\ Outside'
  <2>1. Len(wdsProc') <= TaskMax
    BY <1>1, <1>2, <1>3, WdsAssumption DEF Outside
  <2> QED BY <1>1, <1>2, <1>3, <2>1 DEF Maps, Outside
<1>6. Whereabouts'
  BY <1>1, <1>2, <1>4, PlaceFields DEF Whereabouts, Peers
<1>7. ASSUME NEW b \in Addr, Awaited(b), wdsNet = "up" PROVE Awaited(b)'
  <2>1. CASE wdsBeacon[b] > 0
    BY <1>2, <2>1 DEF Awaited
  <2>2. CASE wdsMaster.at \in {"checked", "adding"}
    BY <1>2, <2>2, PlaceFields
  <2>3. ASSUME NEW i \in DOMAIN wdsProc, wdsProc[i] = b PROVE Awaited(b)'
    <3>1. CASE i = 1
      BY <1>2, <1>3, <1>7, <2>3, <3>1, PlaceFields DEF Awaited, Connected
    <3>2. CASE i # 1
      BY <1>3, <2>3, <3>2 DEF Awaited
    <3> QED BY <3>1, <3>2
  <2> QED BY <1>7, <2>1, <2>2, <2>3 DEF Awaited
<1>8. ASSUME NEW b \in Addr PROVE PeerInv(b)'
  <2>1. PeerInv(b)
    BY DEF WdsInv
  <2>2. Entries(b)' /\ Referenced(b)'
    BY <1>2, <2>1 DEF PeerInv, Entries, Referenced, HasSta, Peers
  <2>3. GoesOn(b)'
    BY <1>2, <1>7, <2>1 DEF PeerInv, GoesOn, HasTimer, Peers
  <2> QED BY <2>2, <2>3 DEF PeerInv
<1> QED BY <1>5, <1>6, <1>8 DEF WdsInv

\* It finds the peer under the lock, or nothing.
LEMMA BeaconProcFindsStep == ASSUME WdsInv, BeaconProcFinds PROVE WdsInv'
<1>1. Maps /\ Outside /\ Whereabouts
  BY DEF WdsInv
<1>2. /\ UNCHANGED <<wdsPeer, wdsBeacon, wdsNet, wdsTimerTask, wdsEvent, wdsProc, wdsVap,
                     wdsDb, wdsRef, wdsFw>>
      /\ wdsMaster.at = "checked" /\ wdsLock = "free"
  BY DEF BeaconProcFinds
<1>3. wdsMaster.addr \in Addr
  BY <1>1, <1>2, ThreadAddr DEF Whereabouts
<1>4. \/ /\ wdsMaster.addr \in Peers
         /\ wdsMaster' = At("adding", wdsMaster.addr) /\ wdsLock' = "master"
      \/ wdsMaster.addr \notin Peers /\ wdsMaster' = Idle /\ wdsLock' = "free"
  BY <1>2 DEF BeaconProcFinds
<1>5. Maps' /\ Outside'
  BY <1>1, <1>2 DEF Maps, Outside
<1>6. Whereabouts'
  <2>1. wdsMaster' \in Threads
    BY <1>3, <1>4, ThreadPlaces
  <2>2. (wdsLock' = "master") = (wdsMaster'.at = "adding")
    BY <1>4, PlaceFields
  <2>3. (wdsLock' = "vap") = (wdsVap'.at \in Locked)
    BY <1>1, <1>2, <1>4 DEF Whereabouts
  <2>4. (wdsVap.at \in VapPlace => wdsVap.addr \in Peers)'
    BY <1>1, <1>2 DEF Whereabouts, Peers
  <2> QED BY <1>1, <1>2, <2>1, <2>2, <2>3, <2>4 DEF Whereabouts
<1>7. ASSUME NEW b \in Peers, Awaited(b) PROVE Awaited(b)'
  BY <1>2, <1>4, <1>7, PlaceFields DEF Awaited
<1>8. ASSUME NEW b \in Addr PROVE PeerInv(b)'
  <2>1. PeerInv(b)
    BY DEF WdsInv
  <2>2. Entries(b)' /\ Referenced(b)'
    BY <1>2, <2>1 DEF PeerInv, Entries, Referenced, HasSta, Peers
  <2>3. GoesOn(b)'
    BY <1>2, <1>7, <2>1 DEF PeerInv, GoesOn, HasTimer, Peers
  <2> QED BY <2>2, <2>3 DEF PeerInv
<1> QED BY <1>5, <1>6, <1>8 DEF WdsInv

\* An answer changes nothing of the record but its flag fw_peer_sta_added.
LEMMA AnsweredFields ==
  ASSUME NEW p \in Peer, NEW add \in BOOLEAN, NEW ok \in BOOLEAN
  PROVE  LET q == Answered(p, add, ok) IN
           q \in Peer /\ q.state = p.state /\ q.timer = p.timer /\ q.sta = p.sta
  BY DEF Answered, Peer

\* What the invariant says of a peer of Peers, in the words of RanPeer.
LEMMA PeerReferences ==
  ASSUME WdsInv, NEW a \in Peers
  PROVE  /\ a \in Addr /\ wdsPeer[a] \in Peer
         /\ wdsRef[a] \in Int /\ wdsRef[a] = IF wdsPeer[a].sta THEN 1 ELSE 0
         /\ wdsPeer[a].sta => wdsDb[a]
         /\ PeerInv(a)
<1>1. a \in Addr /\ wdsPeer[a] \in Peer /\ PeerInv(a)
  BY PeerRecord DEF WdsInv
<1>2. wdsRef[a] \in Int
  BY <1>1 DEF WdsInv, Maps
<1> QED BY <1>1, <1>2 DEF PeerInv, Referenced, HasSta

\* The master's thread has asked the firmware to add the peer.
LEMMA BeaconProcAddedStep == ASSUME WdsInv, BeaconProcAdded PROVE WdsInv'
<1>1. Maps /\ Outside /\ Whereabouts
  BY DEF WdsInv
<1>2. /\ wdsMaster.at = "adding" /\ wdsMaster' = Idle /\ wdsLock' = "free"
      /\ UNCHANGED <<wdsNet, wdsTimerTask, wdsProc, wdsVap, wdsDb>>
  BY DEF BeaconProcAdded
<1>3. PICK a \in Addr : a = wdsMaster.addr
  BY <1>1, <1>2, ThreadAddr DEF Whereabouts
<1>4. PICK ok \in BOOLEAN :
        /\ FwAnswers(a, TRUE, ok)
        /\ IF a \in Peers
           THEN RunFsm(a, Answered(wdsPeer[a], TRUE, ok), wdsRef[a],
                       IF ok THEN "CONNECT" ELSE "ERROR")
           ELSE UNCHANGED <<wdsPeer, wdsRef, wdsBeacon>>
  BY <1>3 DEF BeaconProcAdded
<1>5. Outside'
  BY <1>1, <1>4, <1>2, <1>3, FwAnswersTyped DEF Outside, Events
<1>6. wdsVap.at \notin Locked
  BY <1>1, <1>2 DEF Whereabouts
<1>7. ASSUME \A b \in Peers : (b \in Peers)' PROVE Whereabouts'
  BY <1>1, <1>2, <1>6, <1>7, ThreadPlaces, PlaceFields DEF Whereabouts
<1>8. CASE a \notin Peers
  <2>1. UNCHANGED <<wdsPeer, wdsRef, wdsBeacon>>
    BY <1>4, <1>8
  <2>2. Maps' /\ \A b \in Peers : (b \in Peers)'
    BY <1>1, <1>2, <2>1 DEF Maps, Peers
  <2>3. ASSUME NEW b \in Addr PROVE PeerInv(b)'
    <3>1. PeerInv(b)
      BY DEF WdsInv
    <3>2. Entries(b)' /\ Referenced(b)'
      BY <1>2, <2>1, <3>1 DEF PeerInv, Entries, Referenced, HasSta, Peers
    <3>3. b \in Peers /\ Awaited(b) => Awaited(b)'
      BY <1>2, <1>3, <1>8, <2>1 DEF Awaited
    <3>4. GoesOn(b)'
      BY <1>2, <2>1, <3>1, <3>3 DEF PeerInv, GoesOn, HasTimer, Peers
    <3> QED BY <3>2, <3>4 DEF PeerInv
  <2> QED BY <1>5, <1>7, <2>2, <2>3 DEF WdsInv
<1>9. CASE a \in Peers
  <2> DEFINE p == Answered(wdsPeer[a], TRUE, ok)
             action == IF ok THEN "CONNECT" ELSE "ERROR"
  <2>1. RunFsm(a, p, wdsRef[a], action)
    BY <1>4, <1>9
  <2>2. /\ wdsPeer[a] \in Peer
        /\ wdsRef[a] \in Int /\ wdsRef[a] = (IF wdsPeer[a].sta THEN 1 ELSE 0)
        /\ (wdsPeer[a].sta => wdsDb[a]) /\ PeerInv(a)
    BY <1>9, PeerReferences
  <2>3. p \in Peer /\ p.state = wdsPeer[a].state /\ p.timer = wdsPeer[a].timer
        /\ p.sta = wdsPeer[a].sta
    BY <2>2, AnsweredFields
  <2>4. action \in Action /\ action # "DISCONNECT" /\ action # "CONNECTED"
    BY DEF Action
  <2>5. ~Kills(p, action)
    BY <2>4 DEF Kills
  <2> HIDE DEF p, action
  <2>6. /\ wdsPeer' \in [Addr -> Peer \cup {NoPeer}]
        /\ wdsRef' \in [Addr -> Int] /\ wdsBeacon' \in [Addr -> Nat]
        /\ \A b \in Addr \ {a} : UNCHANGED <<wdsPeer[b], wdsRef[b], wdsBeacon[b]>>
        /\ wdsPeer'[a] = PeerFsm(p, action)
    BY <1>1, <1>3, <2>1, <2>2, <2>3, <2>4, <2>5, RunFsmEffect
  <2>7. Maps'
    BY <1>1, <1>2, <2>6 DEF Maps
  <2>8. wdsPeer'[a] # NoPeer
    BY <2>3, <2>4, <2>6, FsmOutcome, PeerIsSome DEF FsmGives
  <2>9. \A b \in Peers : (b \in Peers)'
    BY <2>6, <2>8 DEF Peers
  <2>10. \A b \in Addr \ {a} : Kept(b)
    BY <1>2, <1>3, <2>6 DEF Kept, Awaited
  <2>11. PeerInv(a)'
    <3>1. wdsVap.at = "stopping" => ~wdsPeer[a].sta
      BY <1>9, <2>2 DEF PeerInv, Referenced, HasSta
    <3>2. /\ wdsTimerTask' \in [Addr -> 0 .. TaskMax] /\ wdsTimerTask'[a] = wdsTimerTask[a]
          /\ wdsTimerTask'[a] <= wdsTimerTask[a]
      BY <1>1, <1>2, <1>3, WdsAssumption DEF Maps
    <3> QED BY <1>1, <1>2, <1>3, <1>9, <2>1, <2>2, <2>3, <2>4, <3>1, <3>2, RanPeer
  <2>12. \A b \in Addr : PeerInv(b)'
    BY <2>10, <2>11, KeptPeer DEF WdsInv
  <2> QED BY <1>5, <1>7, <2>7, <2>9, <2>12 DEF WdsInv
<1> QED BY <1>8, <1>9

-----------------------------------------------------------------------------
(* DELETE_PEERAP of the VAP's thread has been answered. *)

\* The machine runs on the peer.
LEMMA DeletedRuns ==
  ASSUME WdsInv, wdsVap.at \in VapPlace, NEW a, a = wdsVap.addr,
         NEW ok \in BOOLEAN, NEW action \in {"ERROR", "DISCONNECT"},
         FwAnswers(a, FALSE, ok),
         RunFsm(a, Answered(wdsPeer[a], FALSE, ok), wdsRef[a], action),
         wdsVap' = Idle,
         wdsLock' = (IF wdsVap.at = "timer_del" THEN wdsLock ELSE "free"),
         UNCHANGED <<wdsNet, wdsTimerTask, wdsProc, wdsMaster, wdsDb>>
  PROVE  WdsInv'
<1> DEFINE p == Answered(wdsPeer[a], FALSE, ok)
<1>1. Maps /\ Outside /\ Whereabouts
  BY DEF WdsInv
<1>2. a \in Peers
  BY <1>1 DEF Whereabouts
<1>3. /\ a \in Addr /\ wdsPeer[a] \in Peer
      /\ wdsRef[a] \in Int /\ wdsRef[a] = (IF wdsPeer[a].sta THEN 1 ELSE 0)
      /\ (wdsPeer[a].sta => wdsDb[a]) /\ PeerInv(a)
  BY <1>2, PeerReferences
<1>4. p \in Peer /\ p.state = wdsPeer[a].state /\ p.timer = wdsPeer[a].timer
      /\ p.sta = wdsPeer[a].sta
  BY <1>3, AnsweredFields
<1>5. action \in Action
  BY DEF Action
<1>6. RunFsm(a, p, wdsRef[a], action)
  OBVIOUS
<1> HIDE DEF p
<1>7. Outside'
  BY <1>1, <1>3, FwAnswersTyped DEF Outside, Events
<1>8. /\ wdsPeer' \in [Addr -> Peer \cup {NoPeer}]
      /\ wdsRef' \in [Addr -> Int] /\ wdsBeacon' \in [Addr -> Nat]
      /\ \A b \in Addr \ {a} : UNCHANGED <<wdsPeer[b], wdsRef[b], wdsBeacon[b]>>
  BY <1>1, <1>3, <1>4, <1>5, <1>6, RunFsmEffect
<1>9. Maps'
  BY <1>1, <1>8 DEF Maps
<1>10. Whereabouts'
  <2>1. wdsVap.at # "timer_del" => wdsVap.at \in Locked
    BY DEF VapPlace, Locked
  <2>2. (wdsLock' = "master") = (wdsMaster'.at = "adding") /\ wdsLock' # "vap"
    BY <1>1, <2>1 DEF Whereabouts, Locked
  <2> QED BY <1>1, <2>2, ThreadPlaces, PlaceFields DEF Whereabouts, Locked, VapPlace
<1>11. wdsVap.at \notin {"started", "stopping"} /\ wdsVap'.at = "idle"
  BY PlaceFields DEF VapPlace
<1>12. \A b \in Addr \ {a} : Kept(b)
  BY <1>8, <1>11, PlaceFields DEF Kept, Awaited
<1>13. PeerInv(a)'
  <2>1. /\ wdsTimerTask' \in [Addr -> 0 .. TaskMax] /\ wdsTimerTask'[a] = wdsTimerTask[a]
        /\ wdsTimerTask'[a] <= wdsTimerTask[a]
    BY <1>1, <1>3, WdsAssumption DEF Maps
  <2>2. Awaited(a) /\ wdsBeacon'[a] = wdsBeacon[a] => Awaited(a)'
    BY DEF Awaited
  <2> QED BY <1>1, <1>2, <1>3, <1>4, <1>5, <1>6, <1>11, <2>1, <2>2, RanPeer
<1>14. \A b \in Addr : PeerInv(b)'
  BY <1>12, <1>13, KeptPeer DEF WdsInv
<1> QED BY <1>7, <1>9, <1>10, <1>14 DEF WdsInv

\* The peer stays as it is: a deletion by the user or of a lost peer failed.
LEMMA DeletedRefused ==
  ASSUME WdsInv, wdsVap.at \in {"user_del", "disconnect_del"},
         NEW ok \in BOOLEAN, FwAnswers(wdsVap.addr, FALSE, ok),
         wdsVap' = Idle, wdsLock' = "free",
         UNCHANGED <<wdsPeer, wdsRef, wdsBeacon, wdsNet, wdsTimerTask, wdsProc, wdsMaster, wdsDb>>
  PROVE  WdsInv'
<1>1. Maps /\ Outside /\ Whereabouts
  BY DEF WdsInv
<1>2. wdsVap.addr \in Addr /\ wdsVap.at \in Locked
  BY <1>1 DEF Whereabouts, VapPlace, Peers, Locked
<1>3. Maps'
  BY <1>1 DEF Maps
<1>4. Outside'
  BY <1>1, <1>2, FwAnswersTyped DEF Outside, Events
<1>5. Whereabouts'
  BY <1>1, <1>2, ThreadPlaces, PlaceFields DEF Whereabouts, Locked, VapPlace
<1>6. ASSUME NEW b \in Addr PROVE PeerInv(b)'
  <2>1. PeerInv(b) /\ wdsVap'.at = "idle"
    BY PlaceFields DEF WdsInv
  <2>2. Entries(b)' /\ Referenced(b)'
    BY <2>1 DEF PeerInv, Entries, Referenced, HasSta, Peers
  <2>3. Awaited(b)' <=> Awaited(b)
    BY DEF Awaited
  <2>4. wdsVap # At("timer_del", b)
    BY PlaceFields
  <2>5. GoesOn(b)'
    BY <2>1, <2>3, <2>4 DEF PeerInv, GoesOn, HasTimer, Peers
  <2> QED BY <2>2, <2>5 DEF PeerInv
<1> QED BY <1>3, <1>4, <1>5, <1>6 DEF WdsInv

\* The four answers to DELETE_PEERAP.
LEMMA DeletedSteps ==
  ASSUME WdsInv,
         FsmTimerDeleted \/ UsrDelDeleted \/ ConnectFailedDeleted \/ DisconnectDeleted
  PROVE  WdsInv'
<1>1. CASE FsmTimerDeleted
  <2>1. PICK a : a = wdsVap.addr
    OBVIOUS
  <2>2. PICK ok \in BOOLEAN :
          /\ FwAnswers(a, FALSE, ok)
          /\ RunFsm(a, Answered(wdsPeer[a], FALSE, ok), wdsRef[a], "ERROR")
    BY <1>1, <2>1 DEF FsmTimerDeleted
  <2>3. /\ wdsVap.at = "timer_del" /\ wdsVap.at \in VapPlace /\ wdsVap' = Idle
        /\ UNCHANGED <<wdsNet, wdsTimerTask, wdsProc, wdsMaster, wdsLock, wdsDb>>
    BY <1>1 DEF FsmTimerDeleted, VapPlace
  <2> QED BY <2>1, <2>2, <2>3, DeletedRuns
<1>2. CASE ConnectFailedDeleted
  <2>1. PICK a : a = wdsVap.addr
    OBVIOUS
  <2>2. PICK ok \in BOOLEAN :
          /\ FwAnswers(a, FALSE, ok)
          /\ RunFsm(a, Answered(wdsPeer[a], FALSE, ok), wdsRef[a], "ERROR")
    BY <1>2, <2>1 DEF ConnectFailedDeleted
  <2>3. /\ wdsVap.at = "connect_del" /\ wdsVap.at \in VapPlace /\ wdsVap' = Idle
        /\ wdsLock' = "free"
        /\ UNCHANGED <<wdsNet, wdsTimerTask, wdsProc, wdsMaster, wdsDb>>
    BY <1>2 DEF ConnectFailedDeleted, VapPlace
  <2> QED BY <2>1, <2>2, <2>3, DeletedRuns
<1>3. CASE UsrDelDeleted \/ DisconnectDeleted
  <2>1. PICK a : a = wdsVap.addr
    OBVIOUS
  <2>2. PICK ok \in BOOLEAN :
          /\ FwAnswers(a, FALSE, ok)
          /\ \/ ok /\ RunFsm(a, Answered(wdsPeer[a], FALSE, ok), wdsRef[a], "DISCONNECT")
             \/ ~ok /\ UNCHANGED <<wdsPeer, wdsRef, wdsBeacon>>
    BY <1>3, <2>1 DEF UsrDelDeleted, DisconnectDeleted
  <2>3. /\ wdsVap.at \in {"user_del", "disconnect_del"} /\ wdsVap.at \in VapPlace
        /\ wdsVap' = Idle /\ wdsLock' = "free"
        /\ UNCHANGED <<wdsNet, wdsTimerTask, wdsProc, wdsMaster, wdsDb>>
    BY <1>3 DEF UsrDelDeleted, DisconnectDeleted, VapPlace
  <2>4. CASE ok /\ RunFsm(a, Answered(wdsPeer[a], FALSE, ok), wdsRef[a], "DISCONNECT")
    BY <2>1, <2>2, <2>3, <2>4, DeletedRuns
  <2>5. CASE ~ok /\ UNCHANGED <<wdsPeer, wdsRef, wdsBeacon>>
    BY <2>1, <2>2, <2>3, <2>5, DeletedRefused
  <2> QED BY <2>2, <2>4, <2>5
<1> QED BY <1>1, <1>2, <1>3

-----------------------------------------------------------------------------
(* The VAP's thread between two messages. *)

\* The thread runs the machine on a peer and sends nothing.
LEMMA VapRuns ==
  ASSUME WdsInv, wdsVap = Idle, Outside', NEW a \in Peers, NEW p \in Peer, NEW ref \in Int,
         NEW action \in {"CONNECTED", "DISCONNECT"}, RunFsm(a, p, ref, action),
         p.state = wdsPeer[a].state, p.timer = wdsPeer[a].timer,
         ref = IF p.sta THEN 1 ELSE 0,
         p.sta => wdsDb'[a],
         action = "CONNECTED" => p.sta,
         wdsDb' \in [Addr -> BOOLEAN], wdsTimerTask' \in [Addr -> 0 .. TaskMax],
         \A b \in Addr \ {a} : UNCHANGED <<wdsDb[b], wdsTimerTask[b]>>,
         wdsTimerTask'[a] <= wdsTimerTask[a],
         wdsTimerTask'[a] = wdsTimerTask[a]
           \/ (p.state = "DISCONNECTING" /\ action = "DISCONNECT"),
         UNCHANGED <<wdsNet, wdsProc, wdsVap, wdsMaster, wdsLock>>
  PROVE  WdsInv'
<1>1. Maps /\ Outside /\ Whereabouts
  BY DEF WdsInv
<1>2. a \in Addr /\ action \in Action /\ wdsVap.at = "idle" /\ PeerInv(a)
  BY PeerReferences, PlaceFields DEF Action
<1>3. /\ wdsPeer' \in [Addr -> Peer \cup {NoPeer}]
      /\ wdsRef' \in [Addr -> Int] /\ wdsBeacon' \in [Addr -> Nat]
      /\ \A b \in Addr \ {a} : UNCHANGED <<wdsPeer[b], wdsRef[b], wdsBeacon[b]>>
  BY <1>1, <1>2, RunFsmEffect
<1>4. Maps'
  BY <1>1, <1>3 DEF Maps
<1>5. Whereabouts'
  BY <1>1, <1>2 DEF Whereabouts, VapPlace
<1>6. \A b \in Addr \ {a} : Kept(b)
  BY <1>2, <1>3 DEF Kept, Awaited
<1>7. PeerInv(a)'
  <2>1. Awaited(a) /\ wdsBeacon'[a] = wdsBeacon[a] => Awaited(a)'
    BY DEF Awaited
  <2> QED BY <1>1, <1>2, <2>1, RanPeer
<1>8. \A b \in Addr : PeerInv(b)'
  BY <1>6, <1>7, KeptPeer DEF WdsInv
<1> QED BY <1>4, <1>5, <1>8 DEF WdsInv

\* The timer of a peer becomes a task.
LEMMA TimerFiresStep == ASSUME WdsInv, NEW a \in Addr, TimerFires(a) PROVE WdsInv'
<1>1. Maps /\ Outside /\ Whereabouts /\ PeerInv(a)
  BY DEF WdsInv
<1>2. /\ a \in Peers /\ wdsTimerTask[a] < TaskMax /\ Room(a)
      /\ wdsPeer' = [wdsPeer EXCEPT ![a].timer = FALSE]
      /\ wdsTimerTask' = [wdsTimerTask EXCEPT ![a] = @ + 1]
      /\ UNCHANGED <<wdsBeacon, wdsNet, wdsEvent, wdsProc, wdsVap, wdsMaster, wdsLock,
                     wdsDb, wdsRef, wdsFw>>
  BY DEF TimerFires
<1>3. /\ wdsPeer[a] \in Peer
      /\ wdsPeer' = [wdsPeer EXCEPT ![a] = [wdsPeer[a] EXCEPT !.timer = FALSE]]
  BY <1>1, <1>2, PeerRecord
<1>4. /\ wdsPeer'[a] = [wdsPeer[a] EXCEPT !.timer = FALSE]
      /\ wdsPeer'[a] \in Peer
      /\ wdsPeer'[a].state = wdsPeer[a].state /\ wdsPeer'[a].sta = wdsPeer[a].sta
  BY <1>1, <1>3 DEF Maps, Peer
<1>5. /\ wdsPeer' \in [Addr -> Peer \cup {NoPeer}]
      /\ \A b \in Addr \ {a} : wdsPeer'[b] = wdsPeer[b]
  BY <1>1, <1>3, <1>4 DEF Maps
<1>6. /\ wdsTimerTask' \in [Addr -> 0 .. TaskMax] /\ wdsTimerTask'[a] = wdsTimerTask[a] + 1
      /\ \A b \in Addr \ {a} : wdsTimerTask'[b] = wdsTimerTask[b]
  BY <1>1, <1>2, WdsAssumption DEF Maps
<1>7. (a \in Peers)' /\ Peers' = Peers
  BY <1>2, <1>4, <1>5, PeerIsSome DEF Peers
<1>8. Maps' /\ Outside' /\ Whereabouts'
  BY <1>1, <1>2, <1>5, <1>6, <1>7 DEF Maps, Outside, Whereabouts
<1>9. \A b \in Addr \ {a} : Kept(b)
  BY <1>2, <1>5, <1>6 DEF Kept, Awaited
<1>10. PeerInv(a)'
  <2>1. wdsBeacon[a] \in Nat /\ wdsTimerTask[a] \in Nat /\ EntryMax \in Nat
    BY <1>1, WdsAssumption DEF Maps
  <2>2. Entries(a)'
    BY <1>2, <1>6, <2>1 DEF Entries, Room
  <2>3. Referenced(a)'
    BY <1>1, <1>2, <1>4, <1>7 DEF PeerInv, Referenced, HasSta
  <2>4. HasTimer(a)'
    BY <1>6, <2>1 DEF HasTimer
  <2>5. GoesOn(a)'
    BY <1>1, <1>2, <1>4, <2>4 DEF PeerInv, GoesOn
  <2> QED BY <2>2, <2>3, <2>5 DEF PeerInv
<1>11. \A b \in Addr : PeerInv(b)'
  BY <1>9, <1>10, KeptPeer DEF WdsInv
<1> QED BY <1>8, <1>11 DEF WdsInv

\* The task of the timer.
LEMMA FsmTimerStep == ASSUME WdsInv, NEW a \in Addr, FsmTimer(a) PROVE WdsInv'
<1>1. Maps /\ Outside /\ Whereabouts /\ PeerInv(a)
  BY DEF WdsInv
<1>2. /\ wdsVap = Idle /\ wdsTimerTask[a] > 0
      /\ wdsTimerTask' = [wdsTimerTask EXCEPT ![a] = @ - 1]
      /\ UNCHANGED <<wdsNet, wdsEvent, wdsProc, wdsMaster, wdsLock, wdsDb, wdsFw>>
  BY DEF FsmTimer
<1>3. /\ wdsTimerTask' \in [Addr -> 0 .. TaskMax] /\ wdsTimerTask'[a] = wdsTimerTask[a] - 1
      /\ \A b \in Addr \ {a} : wdsTimerTask'[b] = wdsTimerTask[b]
      /\ wdsTimerTask[a] \in Nat /\ wdsBeacon[a] \in Nat /\ EntryMax \in Nat
  BY <1>1, <1>2, WdsAssumption DEF Maps
<1>4. wdsVap.at = "idle" /\ Outside'
  BY <1>1, <1>2, PlaceFields DEF Outside
<1>5. CASE /\ a \notin Peers \/ wdsPeer[a].state = "CONNECTED"
           /\ UNCHANGED <<wdsPeer, wdsRef, wdsBeacon, wdsVap>>
  <2>1. Maps' /\ Whereabouts' /\ Peers' = Peers
    BY <1>1, <1>2, <1>3, <1>5 DEF Maps, Whereabouts, Peers
  <2>2. \A b \in Addr \ {a} : Kept(b)
    BY <1>2, <1>3, <1>5 DEF Kept, Awaited
  <2>3. Entries(a)'
    BY <1>1, <1>3, <1>5, <2>1 DEF PeerInv, Entries
  <2>4. Referenced(a)' /\ GoesOn(a)'
    BY <1>1, <1>2, <1>5, <2>1 DEF PeerInv, Referenced, HasSta, GoesOn
  <2>5. \A b \in Addr : PeerInv(b)'
    BY <2>2, <2>3, <2>4, KeptPeer DEF WdsInv, PeerInv
  <2> QED BY <1>4, <2>1, <2>5 DEF WdsInv
<1>6. CASE /\ a \in Peers /\ wdsPeer[a].state = "CONNECTING"
           /\ wdsVap' = At("timer_del", a) /\ UNCHANGED <<wdsPeer, wdsRef, wdsBeacon>>
  <2>1. wdsVap' \in Threads /\ wdsVap'.at = "timer_del" /\ wdsVap'.addr = a
    BY <1>6, ThreadPlaces, PlaceFields DEF VapPlace
  <2>2. Maps' /\ Peers' = Peers
    BY <1>1, <1>2, <1>3, <1>6 DEF Maps, Peers
  <2>3. Whereabouts'
    BY <1>1, <1>2, <1>4, <1>6, <2>1, <2>2 DEF Whereabouts, Locked
  <2>4. \A b \in Addr \ {a} : Kept(b)
    BY <1>2, <1>3, <1>4, <1>6, <2>1, PlaceFields DEF Kept, Awaited
  <2>5. Entries(a)'
    BY <1>1, <1>3, <1>6, <2>1, <2>2 DEF PeerInv, Entries
  <2>6. Referenced(a)' /\ GoesOn(a)'
    BY <1>1, <1>2, <1>6, <2>1, <2>2 DEF PeerInv, Referenced, HasSta, GoesOn
  <2>7. \A b \in Addr : PeerInv(b)'
    BY <2>4, <2>5, <2>6, KeptPeer DEF WdsInv, PeerInv
  <2> QED BY <1>4, <2>2, <2>3, <2>7 DEF WdsInv
<1>7. CASE /\ a \in Peers /\ wdsPeer[a].state = "DISCONNECTING"
           /\ RunFsm(a, wdsPeer[a], wdsRef[a], "DISCONNECT") /\ UNCHANGED wdsVap
  <2>1. /\ wdsPeer[a] \in Peer /\ wdsRef[a] \in Int
        /\ wdsRef[a] = (IF wdsPeer[a].sta THEN 1 ELSE 0) /\ (wdsPeer[a].sta => wdsDb[a])
    BY <1>7, PeerReferences
  <2>2. wdsDb' \in [Addr -> BOOLEAN] /\ wdsTimerTask'[a] <= wdsTimerTask[a]
    BY <1>1, <1>2, <1>3 DEF Maps
  <2> QED BY <1>2, <1>3, <1>4, <1>7, <2>1, <2>2, VapRuns
<1>8. CASE /\ a \in Peers /\ wdsPeer[a].state \in {"DISCONNECTED", "ERROR"}
           /\ wdsBeacon' = [wdsBeacon EXCEPT ![a] = @ + 1]
           /\ UNCHANGED <<wdsPeer, wdsRef, wdsVap>>
  <2>1. /\ wdsBeacon' \in [Addr -> Nat] /\ wdsBeacon'[a] = wdsBeacon[a] + 1
        /\ \A b \in Addr \ {a} : wdsBeacon'[b] = wdsBeacon[b]
    BY <1>1, <1>8 DEF Maps
  <2>2. Maps' /\ Whereabouts' /\ Peers' = Peers
    BY <1>1, <1>2, <1>3, <1>8, <2>1 DEF Maps, Whereabouts, Peers
  <2>3. \A b \in Addr \ {a} : Kept(b)
    BY <1>2, <1>3, <1>8, <2>1 DEF Kept, Awaited
  <2>4. Entries(a)'
    BY <1>1, <1>3, <1>8, <2>1, <2>2 DEF PeerInv, Entries
  <2>5. Awaited(a)'
    BY <1>3, <2>1 DEF Awaited
  <2>6. Referenced(a)' /\ GoesOn(a)'
    BY <1>1, <1>2, <1>8, <2>2, <2>5 DEF PeerInv, Referenced, HasSta, GoesOn
  <2>7. \A b \in Addr : PeerInv(b)'
    BY <2>3, <2>4, <2>6, KeptPeer DEF WdsInv, PeerInv
  <2> QED BY <1>4, <2>2, <2>7 DEF WdsInv
<1>9. a \in Peers => wdsPeer[a].state \in PeerState
  BY <1>1, PeerRecord DEF Peer
<1>10. CASE a \notin Peers \/ wdsPeer[a].state = "CONNECTED"
  <2>1. wdsPeer[a].state \notin {"CONNECTING", "DISCONNECTING"}
    BY <1>10 DEF Peers, NoPeer
  <2> QED BY <1>5, <1>10, <2>1 DEF FsmTimer
<1>11. CASE a \in Peers /\ wdsPeer[a].state = "CONNECTING"
  BY <1>6, <1>11 DEF FsmTimer
<1>12. CASE a \in Peers /\ wdsPeer[a].state = "DISCONNECTING"
  BY <1>7, <1>12 DEF FsmTimer
<1>13. CASE a \in Peers /\ wdsPeer[a].state \in {"DISCONNECTED", "ERROR"}
  BY <1>8, <1>13 DEF FsmTimer
<1> QED BY <1>9, <1>10, <1>11, <1>12, <1>13 DEF PeerState

-----------------------------------------------------------------------------
(* Requests of the user. *)

\* A peer is configured.
LEMMA UsrAddPeerApStep == ASSUME WdsInv, NEW a \in Addr, UsrAddPeerAp(a) PROVE WdsInv'
<1>1. Maps /\ Outside /\ Whereabouts /\ PeerInv(a)
  BY DEF WdsInv
<1>2. /\ wdsVap = Idle /\ a \notin Peers /\ Room(a)
      /\ wdsPeer' = [wdsPeer EXCEPT ![a] = NewPeer]
      /\ wdsBeacon' = [wdsBeacon EXCEPT ![a] = IF Connected THEN @ + 1 ELSE @]
      /\ UNCHANGED <<wdsNet, wdsTimerTask, wdsEvent, wdsProc, wdsVap, wdsMaster, wdsLock,
                     wdsDb, wdsRef, wdsFw>>
  BY DEF UsrAddPeerAp
<1>3. NewPeer \in Peer /\ NewPeer.sta = FALSE /\ NewPeer.state = "DISCONNECTED"
  BY DEF NewPeer, Peer, PeerState
<1>4. /\ wdsPeer' \in [Addr -> Peer \cup {NoPeer}] /\ wdsPeer'[a] = NewPeer
      /\ \A b \in Addr \ {a} : wdsPeer'[b] = wdsPeer[b]
  BY <1>1, <1>2, <1>3 DEF Maps
<1>5. /\ wdsBeacon' \in [Addr -> Nat]
      /\ wdsBeacon'[a] = IF Connected THEN wdsBeacon[a] + 1 ELSE wdsBeacon[a]
      /\ \A b \in Addr \ {a} : wdsBeacon'[b] = wdsBeacon[b]
      /\ wdsBeacon[a] \in Nat /\ wdsTimerTask[a] \in Nat /\ EntryMax \in Nat
  BY <1>1, <1>2, WdsAssumption DEF Maps
<1>6. wdsVap.at = "idle" /\ Maps' /\ Outside'
  BY <1>1, <1>2, <1>4, <1>5, PlaceFields DEF Maps, Outside
<1>7. Whereabouts'
  BY <1>1, <1>2, <1>6 DEF Whereabouts, VapPlace
<1>8. \A b \in Addr \ {a} : Kept(b)
  BY <1>2, <1>4, <1>5 DEF Kept, Awaited
<1>9. Entries(a)'
  BY <1>2, <1>5, <1>6 DEF Entries, Room
<1>10. Referenced(a)'
  BY <1>1, <1>2, <1>3, <1>4, <1>6 DEF PeerInv, Referenced, HasSta
<1>11. GoesOn(a)'
  BY <1>2, <1>3, <1>4, <1>5 DEF GoesOn, Awaited, Connected
<1>12. \A b \in Addr : PeerInv(b)'
  BY <1>8, <1>9, <1>10, <1>11, KeptPeer DEF WdsInv, PeerInv
<1> QED BY <1>6, <1>7, <1>12 DEF WdsInv

\* The thread goes to sleep in a DELETE_PEERAP of the peer it holds the lock for.
LEMMA VapAsks ==
  ASSUME WdsInv, wdsVap = Idle, wdsLock = "free", NEW a \in Peers, NEW place \in Locked,
         wdsVap' = At(place, a), wdsLock' = "vap", Outside',
         NEW p \in Peer, wdsPeer' = [wdsPeer EXCEPT ![a] = p],
         p.state = wdsPeer[a].state, p.timer = wdsPeer[a].timer,
         wdsRef' \in [Addr -> Int], \A b \in Addr \ {a} : wdsRef'[b] = wdsRef[b],
         wdsRef'[a] = IF p.sta THEN 1 ELSE 0,
         p.sta => wdsPeer[a].sta,
         place # "disconnect_del" => p.sta = wdsPeer[a].sta,
         UNCHANGED <<wdsBeacon, wdsNet, wdsTimerTask, wdsProc, wdsMaster, wdsDb>>
  PROVE  WdsInv'
<1>1. Maps /\ Outside /\ Whereabouts
  BY DEF WdsInv
<1>2. a \in Addr /\ PeerInv(a) /\ wdsVap.at = "idle"
  BY PeerReferences, PlaceFields
<1>3. /\ wdsPeer' \in [Addr -> Peer \cup {NoPeer}] /\ wdsPeer'[a] = p
      /\ \A b \in Addr \ {a} : wdsPeer'[b] = wdsPeer[b]
  BY <1>1, <1>2 DEF Maps
<1>4. Peers' = Peers
  BY <1>3, PeerIsSome DEF Peers
<1>5. /\ wdsVap' \in Threads /\ wdsVap'.at = place /\ wdsVap'.addr = a
      /\ place \notin {"started", "stopping", "timer_del"}
  BY <1>2, ThreadPlaces, PlaceFields DEF Locked, VapPlace
<1>6. Maps' /\ Whereabouts'
  BY <1>1, <1>3, <1>4, <1>5 DEF Maps, Whereabouts, Locked
<1>7. \A b \in Addr \ {a} : Kept(b)
  BY <1>2, <1>3, <1>5, PlaceFields DEF Kept, Awaited
<1>8. Entries(a)' /\ Referenced(a)'
  BY <1>2, <1>3, <1>4, <1>5 DEF PeerInv, Entries, Referenced, HasSta
<1>9. GoesOn(a)'
  <2>1. HasTimer(a)' <=> HasTimer(a)
    BY <1>3 DEF HasTimer
  <2>2. Awaited(a)' <=> Awaited(a)
    BY DEF Awaited
  <2> QED BY <1>2, <1>3, <1>4, <1>5, <2>1, <2>2, PlaceFields DEF PeerInv, GoesOn
<1>10. \A b \in Addr : PeerInv(b)'
  BY <1>7, <1>8, <1>9, KeptPeer DEF WdsInv, PeerInv
<1> QED BY <1>6, <1>10 DEF WdsInv

\* The user deletes a peer.
LEMMA UsrDelPeerApStep == ASSUME WdsInv, NEW a \in Addr, UsrDelPeerAp(a) PROVE WdsInv'
<1> DEFINE p == [wdsPeer[a] EXCEPT !.kill = TRUE]
<1>1. /\ wdsVap = Idle /\ wdsLock = "free" /\ a \in Peers
      /\ UNCHANGED <<wdsNet, wdsTimerTask, wdsEvent, wdsProc, wdsMaster, wdsDb, wdsFw>>
  BY DEF UsrDelPeerAp
<1>2. /\ wdsPeer[a] \in Peer /\ wdsRef[a] \in Int
      /\ wdsRef[a] = (IF wdsPeer[a].sta THEN 1 ELSE 0) /\ (wdsPeer[a].sta => wdsDb[a])
  BY <1>1, PeerReferences
<1>3. p \in Peer /\ p.state = wdsPeer[a].state /\ p.timer = wdsPeer[a].timer
      /\ p.sta = wdsPeer[a].sta
  BY <1>2 DEF Peer
<1>4. Maps /\ Outside'
  BY <1>1 DEF WdsInv, Outside
<1>5. CASE /\ wdsPeer' = [wdsPeer EXCEPT ![a] = p]
           /\ wdsVap' = At("user_del", a) /\ wdsLock' = "vap"
           /\ UNCHANGED <<wdsRef, wdsBeacon>>
  <2>1. wdsRef' \in [Addr -> Int] /\ "user_del" \in Locked /\ "user_del" # "disconnect_del"
    BY <1>4, <1>5 DEF Maps, Locked
  <2> HIDE DEF p
  <2> QED BY <1>1, <1>2, <1>3, <1>4, <1>5, <2>1, VapAsks
<1>6. CASE RunFsm(a, p, wdsRef[a], "DISCONNECT") /\ UNCHANGED <<wdsVap, wdsLock>>
  <2>1. wdsDb' \in [Addr -> BOOLEAN] /\ wdsTimerTask' \in [Addr -> 0 .. TaskMax]
        /\ wdsTimerTask'[a] <= wdsTimerTask[a]
    BY <1>1, <1>4, WdsAssumption DEF Maps
  <2> HIDE DEF p
  <2> QED BY <1>1, <1>2, <1>3, <1>4, <1>6, <2>1, VapRuns
<1> QED BY <1>5, <1>6 DEF UsrDelPeerAp

-----------------------------------------------------------------------------
(* Connection events. *)

\* The tail of the queue of events is a queue of events.
LEMMA EventTail ==
  ASSUME Outside, wdsEvent # <<>>
  PROVE  /\ Head(wdsEvent)[2] \in Addr /\ Tail(wdsEvent) \in Seq(Events)
<1>1. wdsEvent \in Seq(Events)
  BY DEF Outside, Events
<1>2. Head(wdsEvent) \in Events /\ Tail(wdsEvent) \in Seq(Events)
  BY <1>1
<1> QED BY <1>2 DEF Events

\* A peer has connected: its station is added, or the peer is deleted again.
LEMMA PeerConnectStep == ASSUME WdsInv, PeerConnect PROVE WdsInv'
<1>1. Maps /\ Outside /\ Whereabouts
  BY DEF WdsInv
<1>2. /\ wdsVap = Idle /\ wdsLock = "free" /\ wdsEvent # <<>> /\ wdsEvent' = Tail(wdsEvent)
      /\ UNCHANGED <<wdsNet, wdsTimerTask, wdsProc, wdsMaster, wdsFw>>
  BY DEF PeerConnect
<1>3. PICK a \in Addr : a = Head(wdsEvent)[2]
  BY <1>1, <1>2, EventTail
<1>4. Outside' /\ wdsVap.at = "idle"
  BY <1>1, <1>2, EventTail, PlaceFields DEF Outside, Events
<1>5. PICK added \in BOOLEAN :
        /\ added => Connected /\ ~wdsDb[a]
        /\ wdsDb' = [wdsDb EXCEPT ![a] = wdsDb[a] \/ added]
        /\ CASE added /\ a \in Peers ->
                  /\ RunFsm(a, [wdsPeer[a] EXCEPT !.sta = TRUE], wdsRef[a] + 1, "CONNECTED")
                  /\ UNCHANGED <<wdsVap, wdsLock>>
             [] ~added /\ Connected /\ a \in Peers ->
                  /\ wdsVap' = At("connect_del", a) /\ wdsLock' = "vap"
                  /\ UNCHANGED <<wdsPeer, wdsRef, wdsBeacon>>
             [] OTHER -> UNCHANGED <<wdsPeer, wdsRef, wdsBeacon, wdsVap, wdsLock>>
  BY <1>3 DEF PeerConnect
<1>6. /\ wdsDb' \in [Addr -> BOOLEAN] /\ \A b \in Addr \ {a} : wdsDb'[b] = wdsDb[b]
      /\ wdsDb'[a] = (wdsDb[a] \/ added)
  <2>1. (wdsDb[a] \/ added) \in BOOLEAN
    BY <1>1, <1>5, Zenon DEF Maps
  <2> QED BY <1>1, <1>5, <2>1 DEF Maps
<1>7. CASE added /\ a \in Peers
  <2> DEFINE p == [wdsPeer[a] EXCEPT !.sta = TRUE]
  <2>1. RunFsm(a, p, wdsRef[a] + 1, "CONNECTED") /\ UNCHANGED <<wdsVap, wdsLock>>
    BY <1>5, <1>7
  <2>2. /\ wdsPeer[a] \in Peer /\ wdsRef[a] \in Int
        /\ wdsRef[a] = (IF wdsPeer[a].sta THEN 1 ELSE 0) /\ (wdsPeer[a].sta => wdsDb[a])
    BY <1>7, PeerReferences
  <2>3. p \in Peer /\ p.state = wdsPeer[a].state /\ p.timer = wdsPeer[a].timer
        /\ p.sta = TRUE
    BY <2>2 DEF Peer
  <2>4. ~wdsPeer[a].sta
    BY <1>5, <1>7, <2>2
  <2>5. wdsRef[a] + 1 = 1 /\ wdsRef[a] + 1 \in Int /\ wdsDb'[a]
    BY <1>6, <1>7, <2>2, <2>4
  <2>6. wdsTimerTask' \in [Addr -> 0 .. TaskMax] /\ wdsTimerTask'[a] <= wdsTimerTask[a]
    BY <1>1, <1>2, <1>3, WdsAssumption DEF Maps
  <2> HIDE DEF p
  <2> QED BY <1>2, <1>4, <1>6, <1>7, <2>1, <2>3, <2>5, <2>6, VapRuns
<1>8. CASE ~added /\ Connected /\ a \in Peers
  <2>1. /\ wdsVap' = At("connect_del", a) /\ wdsLock' = "vap"
        /\ UNCHANGED <<wdsPeer, wdsRef, wdsBeacon>>
    BY <1>5, <1>8
  <2>2. /\ wdsPeer[a] \in Peer /\ wdsRef[a] \in Int
        /\ wdsRef[a] = (IF wdsPeer[a].sta THEN 1 ELSE 0)
    BY <1>8, PeerReferences
  <2>3. wdsPeer' = [wdsPeer EXCEPT ![a] = wdsPeer[a]] /\ wdsRef' \in [Addr -> Int]
    BY <1>1, <1>3, <2>1 DEF Maps
  <2>4. wdsDb' = wdsDb
    BY <1>1, <1>5, <1>6, <1>8 DEF Maps
  <2>5. "connect_del" \in Locked /\ "connect_del" # "disconnect_del"
    BY DEF Locked
  <2> QED BY <1>2, <1>4, <1>8, <2>1, <2>2, <2>3, <2>4, <2>5, VapAsks
<1>9. CASE ~(added /\ a \in Peers) /\ ~(~added /\ Connected /\ a \in Peers)
  <2>1. UNCHANGED <<wdsPeer, wdsRef, wdsBeacon, wdsVap, wdsLock>>
    BY <1>5, <1>9
  <2>2. Maps' /\ Whereabouts'
    BY <1>1, <1>2, <1>6, <2>1 DEF Maps, Whereabouts, Peers
  <2>3. ASSUME NEW b \in Addr PROVE PeerInv(b)'
    <3>1. PeerInv(b)
      BY DEF WdsInv
    <3>2. b \in Peers => wdsDb'[b] = wdsDb[b]
      BY <1>1, <1>5, <1>6, <1>9 DEF Maps
    <3>3. Entries(b)' /\ Referenced(b)'
      BY <1>2, <2>1, <3>1, <3>2 DEF PeerInv, Entries, Referenced, HasSta, Peers
    <3>4. GoesOn(b)'
      BY <1>2, <2>1, <3>1 DEF PeerInv, GoesOn, HasTimer, Peers, Awaited
    <3> QED BY <3>3, <3>4 DEF PeerInv
  <2> QED BY <1>4, <2>2, <2>3 DEF WdsInv
<1> QED BY <1>7, <1>8, <1>9

\* A peer is lost or disconnected by the user.
LEMMA PeerDisconnectStep ==
  ASSUME WdsInv, NEW a \in Addr, PeerDisconnect(a), wdsEvent' \in Seq(Events)
  PROVE  WdsInv'
<1> DEFINE p == DropSta(wdsPeer[a])
<1>1. Maps /\ Outside /\ Whereabouts
  BY DEF WdsInv
<1>2. /\ wdsVap = Idle /\ wdsLock = "free"
      /\ UNCHANGED <<wdsNet, wdsTimerTask, wdsProc, wdsMaster, wdsFw>>
  BY DEF PeerDisconnect
<1>3. Outside' /\ wdsVap.at = "idle"
  BY <1>1, <1>2, PlaceFields DEF Outside, Events
<1>4. a \in Peers =>
        /\ p \in Peer /\ p.state = wdsPeer[a].state /\ p.timer = wdsPeer[a].timer
        /\ p.sta = FALSE
  BY <1>1, PeerRecord DEF Peer, DropSta
<1>5. a \in Peers => DropRef(a) = 0
  BY PeerReferences DEF DropRef
<1>6. CASE a \in Peers /\ wdsPeer[a].added
  <2>1. /\ wdsPeer' = [wdsPeer EXCEPT ![a] = p]
        /\ wdsRef' = [wdsRef EXCEPT ![a] = 0]
        /\ wdsVap' = At("disconnect_del", a) /\ wdsLock' = "vap"
        /\ UNCHANGED <<wdsBeacon, wdsDb>>
    BY <1>1, <1>5, <1>6 DEF PeerDisconnect, Maps
  <2>2. wdsRef' \in [Addr -> Int] /\ wdsRef'[a] = 0
        /\ \A b \in Addr \ {a} : wdsRef'[b] = wdsRef[b]
    BY <1>1, <2>1 DEF Maps
  <2>3. "disconnect_del" \in Locked
    BY DEF Locked
  <2> HIDE DEF p
  <2> QED BY <1>2, <1>3, <1>4, <1>6, <2>1, <2>2, <2>3, VapAsks
<1>7. CASE ~(a \in Peers /\ wdsPeer[a].added)
  <2>1. /\ wdsDb' = [wdsDb EXCEPT ![a] = FALSE] /\ UNCHANGED <<wdsVap, wdsLock>>
        /\ IF a \in Peers THEN RunFsm(a, p, DropRef(a), "DISCONNECT")
           ELSE UNCHANGED <<wdsPeer, wdsRef, wdsBeacon>>
    BY <1>7 DEF PeerDisconnect
  <2>2. wdsDb' \in [Addr -> BOOLEAN] /\ \A b \in Addr \ {a} : wdsDb'[b] = wdsDb[b]
    BY <1>1, <2>1 DEF Maps
  <2>3. CASE a \in Peers
    <3>1. wdsTimerTask' \in [Addr -> 0 .. TaskMax] /\ wdsTimerTask'[a] <= wdsTimerTask[a]
      BY <1>1, <1>2, WdsAssumption DEF Maps
    <3>2. RunFsm(a, p, 0, "DISCONNECT") /\ 0 \in Int
      BY <1>5, <2>1, <2>3
    <3> HIDE DEF p
    <3> QED BY <1>2, <1>3, <1>4, <2>1, <2>2, <2>3, <3>1, <3>2, VapRuns
  <2>4. CASE a \notin Peers
    <3>1. UNCHANGED <<wdsPeer, wdsRef, wdsBeacon>>
      BY <2>1, <2>4
    <3>2. Maps' /\ Whereabouts'
      BY <1>1, <1>2, <2>1, <2>2, <3>1 DEF Maps, Whereabouts, Peers
    <3>3. ASSUME NEW b \in Addr PROVE PeerInv(b)'
      <4>1. PeerInv(b)
        BY DEF WdsInv
      <4>2. b \in Peers => wdsDb'[b] = wdsDb[b]
        BY <2>2, <2>4
      <4>3. Entries(b)' /\ Referenced(b)'
        BY <1>2, <2>1, <3>1, <4>1, <4>2 DEF PeerInv, Entries, Referenced, HasSta, Peers
      <4>4. GoesOn(b)'
        BY <1>2, <2>1, <3>1, <4>1 DEF PeerInv, GoesOn, HasTimer, Peers, Awaited
      <4> QED BY <4>3, <4>4 DEF PeerInv
    <3> QED BY <1>3, <3>2, <3>3 DEF WdsInv
  <2> QED BY <2>3, <2>4
<1> QED BY <1>6, <1>7

\* The event of a lost peer, dropped when the interface is down.
LEMMA DisconnectEventStep == ASSUME WdsInv, DisconnectEvent PROVE WdsInv'
<1>1. Maps /\ Outside /\ Whereabouts
  BY DEF WdsInv
<1>2. wdsEvent # <<>> /\ wdsEvent' = Tail(wdsEvent)
  BY DEF DisconnectEvent
<1>3. Head(wdsEvent)[2] \in Addr /\ wdsEvent' \in Seq(Events)
  BY <1>1, <1>2, EventTail
<1>4. CASE PeerDisconnect(Head(wdsEvent)[2])
  BY <1>3, <1>4, PeerDisconnectStep
<1>5. CASE UNCHANGED <<wdsPeer, wdsBeacon, wdsNet, wdsTimerTask, wdsProc, wdsVap, wdsMaster,
                       wdsLock, wdsDb, wdsRef, wdsFw>>
  <2>1. Maps' /\ Outside' /\ Whereabouts'
    BY <1>1, <1>3, <1>5 DEF Maps, Outside, Whereabouts, Peers, Events
  <2>2. \A b \in Addr : Kept(b)
    BY <1>5 DEF Kept, Awaited
  <2> QED BY <2>1, <2>2, AllKept
<1> QED BY <1>4, <1>5 DEF DisconnectEvent

\* A disconnection by the user.
LEMMA UsrDisconnectsStep == ASSUME WdsInv, NEW a \in Addr, UsrDisconnects(a) PROVE WdsInv'
<1>1. PeerDisconnect(a) /\ wdsEvent' = wdsEvent
  BY DEF UsrDisconnects
<1>2. wdsEvent' \in Seq(Events)
  BY <1>1 DEF WdsInv, Outside, Events
<1> QED BY <1>1, <1>2, PeerDisconnectStep

-----------------------------------------------------------------------------
(* The interface goes down and up. *)

\* The list for beacons is cleared.
LEMMA IfDownBeaconsStep == ASSUME WdsInv, IfDownBeacons PROVE WdsInv'
<1>1. Maps /\ Outside /\ Whereabouts
  BY DEF WdsInv
<1>2. /\ wdsVap = Idle /\ wdsNet' = "stopping" /\ wdsBeacon' = [a \in Addr |-> 0]
      /\ wdsVap' = [at |-> "leaving"]
      /\ UNCHANGED <<wdsPeer, wdsTimerTask, wdsEvent, wdsProc, wdsMaster, wdsLock, wdsDb,
                     wdsRef, wdsFw>>
  BY DEF IfDownBeacons
<1>3. wdsVap' \in Threads /\ wdsVap'.at = "leaving" /\ wdsVap.at = "idle"
  BY <1>2, ThreadPlaces, PlaceFields
<1>4. Maps' /\ Outside'
  BY <1>1, <1>2 DEF Maps, Outside
<1>5. Whereabouts'
  BY <1>1, <1>2, <1>3 DEF Whereabouts, Locked, VapPlace
<1>6. ASSUME NEW b \in Addr PROVE PeerInv(b)'
  <2>1. PeerInv(b) /\ wdsTimerTask[b] \in Nat /\ wdsBeacon[b] \in Nat /\ EntryMax \in Nat
    BY <1>1, WdsAssumption DEF WdsInv, Maps
  <2>2. Entries(b)'
    BY <1>2, <1>3, <2>1 DEF PeerInv, Entries
  <2>3. Referenced(b)'
    BY <1>2, <1>3, <2>1 DEF PeerInv, Referenced, HasSta, Peers
  <2>4. wdsVap # At("timer_del", b) /\ wdsVap # At("disconnect_del", b)
    BY <1>3, PlaceFields
  <2>5. GoesOn(b)'
    BY <1>2, <2>1, <2>4 DEF PeerInv, GoesOn, HasTimer, Peers
  <2> QED BY <2>2, <2>3, <2>5 DEF PeerInv
<1> QED BY <1>4, <1>5, <1>6 DEF WdsInv

\* Every peer is put back to its first state.
LEMMA IfDownPeersStep == ASSUME WdsInv, IfDownPeers PROVE WdsInv'
<1>1. Maps /\ Outside /\ Whereabouts
  BY DEF WdsInv
<1>2. /\ wdsVap.at = "leaving" /\ wdsLock = "free"
      /\ wdsPeer' = [a \in Addr |-> IF a \in Peers THEN NewPeer ELSE NoPeer]
      /\ wdsRef' = [a \in Addr |-> IF a \in Peers THEN DropRef(a) ELSE wdsRef[a]]
      /\ wdsVap' = [at |-> "stopping"]
      /\ UNCHANGED <<wdsBeacon, wdsNet, wdsTimerTask, wdsEvent, wdsProc, wdsMaster, wdsLock,
                     wdsDb, wdsFw>>
  BY DEF IfDownPeers
<1>3. wdsVap' \in Threads /\ wdsVap'.at = "stopping"
  BY <1>2, ThreadPlaces
<1>4. NewPeer \in Peer /\ NewPeer.sta = FALSE /\ NewPeer.state = "DISCONNECTED"
  BY DEF NewPeer, Peer, PeerState
<1>5. \A b \in Addr : (IF b \in Peers THEN DropRef(b) ELSE wdsRef[b]) = 0
  <2> SUFFICES ASSUME NEW b \in Addr
               PROVE  (IF b \in Peers THEN DropRef(b) ELSE wdsRef[b]) = 0
    OBVIOUS
  <2>1. CASE b \in Peers
    BY <2>1, PeerReferences DEF DropRef
  <2>2. CASE b \notin Peers
    BY <2>2 DEF WdsInv, PeerInv, Referenced, HasSta
  <2> QED BY <2>1, <2>2
<1>6. wdsRef' = [a \in Addr |-> 0]
  BY <1>2, <1>5
<1>7. Peers' = Peers
  BY <1>1, <1>2, <1>4, PeerIsSome DEF Peers, Maps
<1>8. Maps'
  BY <1>1, <1>2, <1>4, <1>6 DEF Maps
<1>9. Outside'
  BY <1>1, <1>2 DEF Outside
<1>10. Whereabouts'
  BY <1>1, <1>2, <1>3 DEF Whereabouts, Locked, VapPlace
<1>11. ASSUME NEW b \in Addr PROVE PeerInv(b)'
  <2>1. PeerInv(b) /\ wdsNet' = "stopping"
    BY <1>1, <1>2 DEF WdsInv, Whereabouts
  <2>2. b \in Peers' => wdsPeer'[b] = NewPeer
    BY <1>2, <1>7
  <2>3. Entries(b)'
    BY <1>2, <1>3, <1>7, <2>1 DEF PeerInv, Entries
  <2>4. Referenced(b)'
    BY <1>4, <1>6, <2>2 DEF Referenced, HasSta
  <2>5. GoesOn(b)'
    BY <1>4, <2>1, <2>2 DEF GoesOn
  <2> QED BY <2>3, <2>4, <2>5 DEF PeerInv
<1> QED BY <1>8, <1>9, <1>10, <1>11 DEF WdsInv

\* The VAP is stopped, or the request is refused while a scan runs.
LEMMA DeactivateStep ==
  ASSUME WdsInv, DeactivateNotReady \/ Deactivated PROVE WdsInv'
<1>1. Maps /\ Outside /\ Whereabouts
  BY DEF WdsInv
<1>2. /\ wdsVap.at = "stopping" /\ wdsVap' = Idle /\ wdsVap'.at = "idle"
      /\ wdsNet' \in {"stopping", "down"}
      /\ UNCHANGED <<wdsPeer, wdsBeacon, wdsTimerTask, wdsEvent, wdsProc, wdsMaster, wdsLock,
                     wdsRef>>
  BY <1>1, PlaceFields DEF DeactivateNotReady, Deactivated, Whereabouts
<1>3. wdsDb' \in [Addr -> BOOLEAN]
  BY <1>1 DEF DeactivateNotReady, Deactivated, Maps
<1>4. wdsFw' \in [Addr -> {"none", "added", "connected"}]
  BY <1>1 DEF DeactivateNotReady, Deactivated, Outside
<1>5. Maps' /\ Outside'
  BY <1>1, <1>2, <1>3, <1>4 DEF Maps, Outside
<1>6. Whereabouts'
  BY <1>1, <1>2, ThreadPlaces DEF Whereabouts, Locked, VapPlace
<1>7. ASSUME NEW b \in Addr PROVE PeerInv(b)'
  <2>1. PeerInv(b) /\ wdsVap # At("timer_del", b) /\ wdsVap # At("disconnect_del", b)
    BY <1>2, PlaceFields DEF WdsInv
  <2>2. Entries(b)' /\ Referenced(b)'
    BY <1>2, <2>1 DEF PeerInv, Entries, Referenced, HasSta, Peers
  <2>3. GoesOn(b)'
    BY <1>2, <2>1 DEF PeerInv, GoesOn, HasTimer, Peers
  <2> QED BY <2>2, <2>3 DEF PeerInv
<1> QED BY <1>5, <1>6, <1>7 DEF WdsInv

\* The VAP is connected again, before its peers are put into the list.
LEMMA ActivatedStep == ASSUME WdsInv, Activated PROVE WdsInv'
<1>1. Maps /\ Outside /\ Whereabouts
  BY DEF WdsInv
<1>2. /\ wdsVap = Idle /\ (\A a \in Peers : Room(a))
      /\ wdsNet' = "up" /\ wdsVap' = [at |-> "started"]
      /\ UNCHANGED <<wdsPeer, wdsBeacon, wdsTimerTask, wdsEvent, wdsProc, wdsMaster, wdsLock,
                     wdsDb, wdsRef, wdsFw>>
  BY DEF Activated
<1>3. wdsVap' \in Threads /\ wdsVap'.at = "started" /\ wdsVap.at = "idle"
  BY <1>2, ThreadPlaces, PlaceFields
<1>4. Maps' /\ Outside'
  BY <1>1, <1>2 DEF Maps, Outside
<1>5. Whereabouts'
  BY <1>1, <1>2, <1>3 DEF Whereabouts, Locked, VapPlace
<1>6. ASSUME NEW b \in Addr PROVE PeerInv(b)'
  <2>1. PeerInv(b) /\ wdsTimerTask[b] \in Nat /\ wdsBeacon[b] \in Nat /\ EntryMax \in Nat
    BY <1>1, WdsAssumption DEF WdsInv, Maps
  <2>2. (b \in Peers)' <=> b \in Peers
    BY <1>2 DEF Peers
  <2>3. b \in Peers => Room(b)
    BY <1>2
  <2>4. Entries(b)'
    BY <1>2, <2>1, <2>2, <2>3 DEF PeerInv, Entries, Room
  <2>5. Referenced(b)'
    BY <1>2, <1>3, <2>1, <2>2 DEF PeerInv, Referenced, HasSta
  <2>6. wdsVap # At("timer_del", b) /\ wdsVap # At("disconnect_del", b)
    BY <1>3, PlaceFields
  <2>7. GoesOn(b)'
    BY <1>2, <1>3, <2>1, <2>2, <2>6 DEF PeerInv, GoesOn, HasTimer
  <2> QED BY <2>4, <2>5, <2>7 DEF PeerInv
<1> QED BY <1>4, <1>5, <1>6 DEF WdsInv

\* wds_on_if_up puts every peer into the list for beacons.
LEMMA IfUpStep == ASSUME WdsInv, IfUp PROVE WdsInv'
<1>1. Maps /\ Outside /\ Whereabouts
  BY DEF WdsInv
<1>2. /\ wdsVap.at = "started" /\ wdsVap' = Idle
      /\ wdsBeacon' = [a \in Addr |-> wdsBeacon[a] + IF a \in Peers THEN 1 ELSE 0]
      /\ UNCHANGED <<wdsPeer, wdsNet, wdsTimerTask, wdsEvent, wdsProc, wdsMaster, wdsLock,
                     wdsDb, wdsRef, wdsFw>>
  BY DEF IfUp
<1>3. wdsVap' \in Threads /\ wdsVap'.at = "idle"
  BY <1>2, ThreadPlaces, PlaceFields
<1>4. \A b \in Addr : wdsBeacon[b] \in Nat /\ wdsTimerTask[b] \in Nat
  BY <1>1, WdsAssumption DEF Maps
<1>5. Maps'
  BY <1>1, <1>2, <1>4 DEF Maps
<1>6. Outside' /\ Whereabouts'
  BY <1>1, <1>2, <1>3 DEF Outside, Whereabouts, Locked, VapPlace
<1>7. ASSUME NEW b \in Addr PROVE PeerInv(b)'
  <2>1. PeerInv(b) /\ wdsVap # At("timer_del", b) /\ wdsVap # At("disconnect_del", b)
    BY <1>2, PlaceFields DEF WdsInv
  <2>2. (b \in Peers)' <=> b \in Peers
    BY <1>2 DEF Peers
  <2>3. /\ wdsBeacon[b] \in Nat /\ wdsTimerTask[b] \in Nat /\ EntryMax \in Nat
        /\ wdsBeacon'[b] = wdsBeacon[b] + (IF b \in Peers THEN 1 ELSE 0)
    BY <1>2, <1>4, WdsAssumption
  <2>4. Entries(b)'
    <3>1. CASE b \in Peers
      BY <1>2, <1>3, <2>1, <2>3, <3>1 DEF PeerInv, Entries
    <3>2. CASE b \notin Peers
      BY <1>2, <1>3, <2>1, <2>3, <3>2 DEF PeerInv, Entries
    <3> QED BY <3>1, <3>2
  <2>5. Referenced(b)'
    BY <1>2, <1>3, <2>1, <2>2 DEF PeerInv, Referenced, HasSta
  <2>6. b \in Peers => Awaited(b)'
    BY <2>3 DEF Awaited
  <2>7. GoesOn(b)'
    BY <1>2, <2>1, <2>2, <2>6 DEF PeerInv, GoesOn, HasTimer
  <2> QED BY <2>4, <2>5, <2>7 DEF PeerInv
<1> QED BY <1>5, <1>6, <1>7 DEF WdsInv

-----------------------------------------------------------------------------
(* The theorems. *)

\* The invariant holds at first.
LEMMA WdsInitInv == WdsInit => WdsInv
<1> SUFFICES ASSUME WdsInit PROVE WdsInv
  OBVIOUS
<1>1. wdsVap.at = "idle" /\ wdsMaster.at = "idle" /\ Idle \in Threads /\ Peers = {}
  BY ThreadPlaces, PlaceFields DEF WdsInit, Peers
<1>2. Maps /\ Outside
  BY WdsAssumption DEF WdsInit, Maps, Outside
<1>3. Whereabouts
  BY <1>1 DEF WdsInit, Whereabouts, Locked, VapPlace
<1>4. ASSUME NEW a \in Addr PROVE PeerInv(a)
  BY <1>1, WdsAssumption DEF WdsInit, PeerInv, Entries, Referenced, HasSta, GoesOn
<1> QED BY <1>2, <1>3, <1>4 DEF WdsInv

\* The invariant is kept by every step.
LEMMA WdsNextInv == WdsInv /\ [WdsNext]_wdsVars => WdsInv'
<1> SUFFICES ASSUME WdsInv, [WdsNext]_wdsVars PROVE WdsInv'
  OBVIOUS
<1>1. CASE BeaconProcChecks \/ BeaconProcFinds \/ BeaconProcAdded
  BY <1>1, BeaconProcChecksStep, BeaconProcFindsStep, BeaconProcAddedStep
<1>2. CASE FsmTimerDeleted \/ UsrDelDeleted \/ ConnectFailedDeleted \/ DisconnectDeleted
  BY <1>2, DeletedSteps
<1>3. CASE PeerConnect \/ DisconnectEvent
  BY <1>3, PeerConnectStep, DisconnectEventStep
<1>4. CASE \/ IfDownBeacons \/ IfDownPeers \/ DeactivateNotReady
           \/ Deactivated \/ Activated \/ IfUp
  BY <1>4, IfDownBeaconsStep, IfDownPeersStep, DeactivateStep, ActivatedStep, IfUpStep
<1>5. ASSUME NEW a \in Addr, PeerStep(a) PROVE WdsInv'
  BY <1>5, FwStep, OnBeaconStep, TimerFiresStep, FsmTimerStep, UsrAddPeerApStep,
     UsrDelPeerApStep, UsrDisconnectsStep DEF PeerStep
<1>6. CASE UNCHANGED wdsVars
  <2>1. Maps' /\ Outside' /\ Whereabouts'
    BY <1>6 DEF WdsInv, wdsVars, Maps, Outside, Whereabouts, Peers
  <2>2. \A b \in Addr : Kept(b)
    BY <1>6 DEF wdsVars, Kept, Awaited
  <2> QED BY <2>1, <2>2, AllKept
<1> QED BY <1>1, <1>2, <1>3, <1>4, <1>5, <1>6 DEF WdsNext

\* The inductive invariant: what each peer waits for, the references it owns
\* and where the two threads are fit together in every reachable state.
THEOREM WdsInvariant == WdsSpec => []WdsInv
  BY WdsInitInv, WdsNextInv, PTL DEF WdsSpec

\* Records, counters and threads keep their ranges, and peers_lock is held
\* exactly while its owner sleeps in a message.
THEOREM WdsTypeCorrect == WdsSpec => []WdsTypeOK
<1>1. WdsInv => WdsTypeOK
  BY WdsTypeParts DEF WdsInv
<1> QED BY <1>1, WdsInvariant, PTL

\* A peer with a station owns exactly one reference on it, while the station
\* is in the database; any other peer owns none.
THEOREM WdsStaAlwaysReferenced == WdsSpec => []WdsStaReferenced
<1>1. WdsInv => WdsStaReferenced
  BY DEF WdsInv, PeerInv, Referenced, HasSta, WdsStaReferenced
<1> QED BY <1>1, WdsInvariant, PTL

\* Whichever message to the firmware fails, no peer of an interface that is up
\* is forgotten by timer, beacons and threads before it is CONNECTED.
THEOREM WdsNeverForgotten == WdsSpec => []WdsNeverStuck
<1>1. WdsInv => WdsNeverStuck
  <2> SUFFICES ASSUME WdsInv, wdsNet = "up", wdsVap = Idle, NEW a \in Peers
               PROVE  wdsPeer[a].state = "CONNECTED" \/ HasTimer(a) \/ Awaited(a)
    BY DEF WdsNeverStuck, Driven, HasTimer, Awaited
  <2>1. /\ wdsPeer[a].state \in PeerState /\ PeerInv(a) /\ wdsVap.at = "idle"
        /\ wdsVap # At("timer_del", a)
    BY PeerReferences, PlaceFields DEF Peer
  <2> QED BY <2>1 DEF PeerInv, GoesOn, PeerState
<1> QED BY <1>1, WdsInvariant, PTL

-----------------------------------------------------------------------------
(* The parts of the type invariant, kept apart for the provers. *)

Flags ==
  /\ scRunning \in BOOLEAN /\ scTerminate \in BOOLEAN /\ scCompleted \in BOOLEAN
  /\ scBackground \in BOOLEAN /\ scRescan \in BOOLEAN /\ scTimedOut \in BOOLEAN
  /\ scHeld \in BOOLEAN /\ scPowerSave \in BOOLEAN
  /\ scCountry \in BOOLEAN /\ scIface \in BOOLEAN

Pos == [cur : 1 .. 2, next : BOOLEAN, left : 0 .. ChunkMax]

\* Why power save was not ended with its chunk.
Cause == {"no", "refused", "timeout", "disconnected"}

Ranges ==
  /\ scForgotten \in Cause
  /\ scRequest \in {"none", "sent", "ok", "error"}
  /\ scPause \in {"off", "set", "task"}
  /\ scThread \in {"idle", "preload", "sync", "ps_on", "load", "undo", "back", "ps_off"}
  /\ scStatus \in {"ok", "error"}
  /\ scConnect \in 0 .. 2
  /\ scNet \in {"ready", "connected"}
  /\ scCbScanned \subseteq 1 .. 2 /\ scCache \subseteq 1 .. 2
  /\ scStop \in {"no", "waiting", "done"}

\* ScanTypeOK is the conjunction of its three parts.
LEMMA ScanTypeParts == ScanTypeOK <=> Flags /\ scPos \in Pos /\ Ranges
  BY DEF ScanTypeOK, Flags, Ranges, Pos, Cause

\* The same of the next state.
LEMMA ScanTypePartsNext == Flags' /\ scPos' \in Pos /\ Ranges' => ScanTypeOK'
  BY DEF ScanTypeOK, Flags, Ranges, Pos, Cause

-----------------------------------------------------------------------------
(* The inductive invariant. *)

InThread == scThread \notin {"idle", "sync"}

\* ScanOneContinuation without the cardinality.
OnlyContinuation ==
  /\ scRunning <=> (InThread \/ scRequest # "none" \/ scPause # "off")
  /\ InThread => scRequest = "none" /\ scPause = "off"
  /\ scRequest # "none" => scPause = "off"

\* A connection goes on exactly when the thread is in mtlk_scan_sync, the
\* messages of a background scan are sent in the background only, and a scan
\* that only begins has not held the data flow itself.
ThreadPlace ==
  /\ scThread = "idle" => scConnect = 0
  /\ scThread = "sync" => scConnect # 0
  /\ scThread \in {"ps_on", "undo", "back", "ps_off"} => scBackground
  /\ scThread = "preload" => (scHeld => scTimedOut)

\* The event is not set while the scan runs.
Signalled == scRunning => ~scCompleted

\* Power save mode is on outside a chunk in the background only if it was
\* forgotten, for a cause.
PowerSaveKnown ==
  \/ scRunning /\ scBackground /\ scPause = "off" /\ scThread \notin {"ps_on", "preload"}
  \/ scPowerSave => scForgotten # "no"

Shape ==
  OnlyContinuation /\ ThreadPlace /\ Signalled /\ PowerSaveKnown /\ ScanLeavesNothing

ScanInv == ScanTypeOK /\ Shape

-----------------------------------------------------------------------------
(* What a handler comes to: the scan is complete, or the next chunk begins. *)

Rest(conn) == IF conn = 0 THEN "idle" ELSE "sync"

Ended ==
  /\ scRunning' = FALSE /\ scCompleted' = TRUE /\ scThread' = Rest(scConnect)

Chunk(bg) ==
  /\ scHeld' = TRUE /\ scThread' = IF bg THEN "ps_on" ELSE "load"

\* A scan that rests leaves its thread idle or in mtlk_scan_sync.
LEMMA RestRange == \A c : Rest(c) \in {"idle", "sync"}
  BY DEF Rest

\* _mtlk_scan_complete ends the scan and sets the event.
LEMMA CompletesEnds ==
  ASSUME NEW c, ScanCompletes(c)
  PROVE  scRunning' = FALSE /\ scCompleted' = TRUE /\ scThread' = Rest(c)
  BY DEF ScanCompletes, ScanReturns, Rest

\* _mtlk_scan_complete leaves the position a position.
LEMMA CompletesPos ==
  ASSUME scPos \in Pos, NEW c, ScanCompletes(c)
  PROVE  scPos' \in Pos
  BY DEF ScanCompletes, Pos

\* A band that is found begins with a chunk, data flow held.
LEMMA FindsBandChunk ==
  ASSUME NEW b \in 1 .. 2, NEW n \in BOOLEAN, NEW bg \in BOOLEAN, ScanFindsBand(b, n, bg)
  PROVE  Chunk(bg) /\ scPos' \in Pos
<1>1. PICK k \in 1 .. ChunkMax, second \in {FALSE} \cup {n} :
        ScanNextChunk([cur  |-> IF second THEN 2 ELSE b,
                       next |-> n /\ ~second, left |-> k], bg)
  BY DEF ScanFindsBand
<1>2. second \in BOOLEAN /\ (n /\ ~second) \in BOOLEAN
  BY Zenon
<1>3. (IF second THEN 2 ELSE b) \in 1 .. 2 /\ k \in 0 .. ChunkMax
  BY <1>2, ScanAssumption
<1> QED BY <1>1, <1>2, <1>3 DEF ScanNextChunk, Chunk, Pos

\* A band is scanned from its first chunk, or the scan is complete.
LEMMA CurrentBandOutcome ==
  ASSUME Flags, scPos \in Pos, NEW b \in 1 .. 2, NEW n \in BOOLEAN, ScanCurrentBand(b, n)
  PROVE  /\ \/ Ended /\ scHeld' = FALSE
            \/ Chunk(scBackground) /\ UNCHANGED <<scRunning, scCompleted>>
         /\ scPos' \in Pos
<1>1. CASE ScanFindsBand(b, n, scBackground) /\ UNCHANGED <<scRunning, scCompleted>>
  BY <1>1, FindsBandChunk DEF Flags
<1>2. CASE ScanCompletes(scConnect) /\ scHeld' = FALSE
  BY <1>2, CompletesEnds, CompletesPos DEF Ended
<1> QED BY <1>1, <1>2 DEF ScanCurrentBand

\* _mtlk_scan_continue ends the scan or begins a chunk.
LEMMA ContinuesOutcome ==
  ASSUME Flags, scPos \in Pos, Ranges, ScanContinues
  PROVE  /\ \/ Ended /\ scHeld' = FALSE
            \/ Chunk(scBackground) /\ UNCHANGED <<scRunning, scCompleted>>
         /\ scPos' \in Pos
         /\ scRescan' \in BOOLEAN /\ scCache' \subseteq 1 .. 2
<1>0. (ScanBands = 2) \in BOOLEAN /\ FALSE \in BOOLEAN /\ 1 \in 1 .. 2 /\ 2 \in 1 .. 2
  OBVIOUS
<1>1. CASE scTerminate /\ ScanCompletes(scConnect) /\ scHeld' = FALSE
           /\ UNCHANGED <<scRescan, scCache>>
  BY <1>1, CompletesEnds, CompletesPos DEF Ended, Flags, Ranges
<1>2. CASE /\ ~scTerminate /\ scRescan
           /\ scRescan' = FALSE
           /\ scCache' = IF scBackground THEN scCache ELSE {}
           /\ IF scConnect # 0 THEN ScanCurrentBand(scConnect, FALSE)
                               ELSE ScanCurrentBand(1, ScanBands = 2)
  <2>1. scConnect # 0 => scConnect \in 1 .. 2
    BY DEF Ranges
  <2>2. scRescan' \in BOOLEAN /\ scCache' \subseteq 1 .. 2
    BY <1>2 DEF Ranges
  <2> QED BY <1>0, <1>2, <2>1, <2>2, CurrentBandOutcome
<1>3. CASE /\ ~scTerminate /\ ~scRescan
           /\ IF scPos.left > 0
                THEN ScanNextChunk(scPos, scBackground) /\ UNCHANGED <<scRunning, scCompleted>>
                ELSE ScanCompleteOrContinue
           /\ UNCHANGED <<scRescan, scCache>>
  <2>1. CASE ScanNextChunk(scPos, scBackground) /\ UNCHANGED <<scRunning, scCompleted>>
    BY <1>3, <2>1 DEF ScanNextChunk, Chunk, Flags, Ranges
  <2>2. CASE ScanCompleteOrContinue
    <3>1. CASE scPos.next /\ ScanCurrentBand(2, FALSE)
      BY <1>0, <1>3, <3>1, CurrentBandOutcome DEF Flags, Ranges
    <3>2. CASE ScanCompletes(scConnect) /\ scHeld' = FALSE
      BY <1>3, <3>2, CompletesEnds, CompletesPos DEF Ended, Flags, Ranges
    <3> QED BY <2>2, <3>1, <3>2 DEF ScanCompleteOrContinue
  <2> QED BY <1>3, <2>1, <2>2
<1> QED BY <1>1, <1>2, <1>3 DEF ScanContinues

-----------------------------------------------------------------------------
(* The invariant after the two outcomes. *)

\* The invariant once a scan is complete.
LEMMA ShapeAfterEnd ==
  ASSUME scRunning' = FALSE, scCompleted' = TRUE, scThread' = Rest(scConnect'),
         scRequest' = "none", scPause' = "off",
         scHeld' => scTimedOut', scPowerSave' => scForgotten' # "no"
  PROVE  Shape'
<1>1. OnlyContinuation'
  BY DEF OnlyContinuation, InThread, Rest
<1>2. ThreadPlace' /\ Signalled'
  BY DEF ThreadPlace, Signalled, Rest
<1>3. PowerSaveKnown' /\ ScanLeavesNothing'
  BY DEF PowerSaveKnown, ScanLeavesNothing
<1> QED BY <1>1, <1>2, <1>3 DEF Shape

\* The invariant at the first message of a chunk.
LEMMA ShapeAfterChunk ==
  ASSUME scRunning' = TRUE, scCompleted' = FALSE,
         scThread' = IF scBackground' THEN "ps_on" ELSE "load",
         scRequest' = "none", scPause' = "off",
         scPowerSave' => scForgotten' # "no", scStop' # "done"
  PROVE  Shape'
<1>1. OnlyContinuation'
  BY DEF OnlyContinuation, InThread
<1>2. ThreadPlace' /\ Signalled'
  BY DEF ThreadPlace, Signalled
<1>3. PowerSaveKnown' /\ ScanLeavesNothing'
  BY DEF PowerSaveKnown, ScanLeavesNothing
<1> QED BY <1>1, <1>2, <1>3 DEF Shape

\* What a scan that runs is known of, in the words the actions use.
LEMMA RunningFacts ==
  ASSUME Flags, Shape
  PROVE  /\ InThread => scRunning /\ scRequest = "none" /\ scPause = "off"
         /\ scRequest # "none" => scRunning /\ scPause = "off" /\ ~InThread
         /\ scPause # "off" => scRunning /\ scRequest = "none" /\ ~InThread
         /\ scRunning => scRunning = TRUE /\ scCompleted = FALSE /\ scStop # "done"
         /\ ~scRunning => scRequest = "none" /\ scPause = "off" /\ ~InThread
         /\ ~scBackground \/ ~scRunning \/ scPause # "off" \/ scThread \in {"ps_on", "preload"} =>
              (scPowerSave => scForgotten # "no")
  BY DEF Flags, Shape, OnlyContinuation, Signalled, PowerSaveKnown, ScanLeavesNothing

-----------------------------------------------------------------------------
(* The steps of the thread. *)

\* Power save mode on: the chunk is loaded, or the scan fails.
LEMMA PsOnStep == ASSUME ScanInv, ScanPsOn PROVE ScanInv'
<1>1. Flags /\ scPos \in Pos /\ Ranges /\ Shape
  BY ScanTypeParts DEF ScanInv
<1>2. /\ scThread = "ps_on" /\ InThread
      /\ UNCHANGED <<scTerminate, scRescan, scRequest, scTimedOut, scPause, scStatus,
                     scBackground, scConnect, scNet, scCbScanned, scCountry, scIface,
                     scStop, scCache>>
  BY DEF ScanPsOn, InThread, scCore
<1>3. CASE /\ scPowerSave' = TRUE /\ scForgotten' = "no" /\ scThread' = "load"
           /\ UNCHANGED <<scRunning, scCompleted, scPos, scHeld>>
  <2>1. Flags' /\ scPos' \in Pos /\ Ranges'
    BY <1>1, <1>2, <1>3 DEF Flags, Ranges, Cause
  <2>2. Shape'
    BY <1>1, <1>2, <1>3, RunningFacts
       DEF Shape, OnlyContinuation, InThread, ThreadPlace, Signalled, PowerSaveKnown,
           ScanLeavesNothing
  <2> QED BY <2>1, <2>2, ScanTypePartsNext DEF ScanInv
<1>4. CASE /\ ScanCompletes(scConnect) /\ scHeld' = FALSE
           /\ UNCHANGED <<scPowerSave, scForgotten>>
  <2>1. scRunning' = FALSE /\ scCompleted' = TRUE /\ scThread' = Rest(scConnect)
        /\ scPos' \in Pos
    BY <1>1, <1>4, CompletesEnds, CompletesPos
  <2>2. Flags'
    BY <1>1, <1>2, <1>4, <2>1 DEF Flags
  <2>2a. Ranges'
    BY <1>1, <1>2, <1>4, <2>1, RestRange DEF Ranges
  <2>3. Shape'
    BY <1>1, <1>2, <1>4, <2>1, RunningFacts, ShapeAfterEnd
  <2> QED BY <2>2a, <2>1, <2>2, <2>3, ScanTypePartsNext DEF ScanInv
<1> QED BY <1>3, <1>4 DEF ScanPsOn

\* The request is sent, or refused in the background or the foreground.
LEMMA LoadStep == ASSUME ScanInv, ScanLoad PROVE ScanInv'
<1>1. Flags /\ scPos \in Pos /\ Ranges /\ Shape
  BY ScanTypeParts DEF ScanInv
<1>2. /\ scThread = "load" /\ InThread
      /\ UNCHANGED <<scTerminate, scRescan, scPause, scStatus, scPowerSave, scForgotten,
                     scBackground, scConnect, scNet, scCbScanned, scCountry, scIface,
                     scStop, scCache>>
  BY DEF ScanLoad, InThread, scCore
<1>3. CASE /\ scRequest' = "sent" /\ scTimedOut' = FALSE
           /\ \E n \in 0 .. scPos.left - 1 : scPos' = [scPos EXCEPT !.left = n]
           /\ ScanReturns(scConnect)
           /\ UNCHANGED <<scRunning, scCompleted, scHeld>>
  <2>1. scPos' \in Pos
    <3>1. PICK n \in 0 .. scPos.left - 1 : scPos' = [scPos EXCEPT !.left = n]
      BY <1>3
    <3>2. n \in 0 .. ChunkMax
      BY <1>1, ScanAssumption DEF Pos
    <3> QED BY <1>1, <3>1, <3>2 DEF Pos
  <2>2. scThread' = Rest(scConnect)
    BY <1>3 DEF ScanReturns, Rest
  <2>3. Flags'
    BY <1>1, <1>2, <1>3, <2>2 DEF Flags
  <2>3a. Ranges'
    BY <1>1, <1>2, <1>3, <2>2, RestRange DEF Ranges
  <2>4. Shape'
    BY <1>1, <1>2, <1>3, <2>2, RunningFacts
       DEF Shape, OnlyContinuation, InThread, ThreadPlace, Signalled, PowerSaveKnown,
           ScanLeavesNothing, Rest
  <2> QED BY <2>3a, <2>1, <2>3, <2>4, ScanTypePartsNext DEF ScanInv
<1>4. CASE /\ scBackground /\ scThread' = "undo"
           /\ UNCHANGED <<scRequest, scTimedOut, scPos, scRunning, scCompleted, scHeld>>
  <2>1. Flags' /\ scPos' \in Pos /\ Ranges'
    BY <1>1, <1>2, <1>4 DEF Flags, Ranges
  <2>2. Shape'
    BY <1>1, <1>2, <1>4, RunningFacts
       DEF Shape, OnlyContinuation, InThread, ThreadPlace, Signalled, PowerSaveKnown,
           ScanLeavesNothing
  <2> QED BY <2>1, <2>2, ScanTypePartsNext DEF ScanInv
<1>5. CASE /\ ~scBackground /\ ScanCompletes(scConnect) /\ scHeld' = FALSE
           /\ UNCHANGED <<scRequest, scTimedOut>>
  <2>1. scRunning' = FALSE /\ scCompleted' = TRUE /\ scThread' = Rest(scConnect)
        /\ scPos' \in Pos
    BY <1>1, <1>5, CompletesEnds, CompletesPos
  <2>2. Flags'
    BY <1>1, <1>2, <1>5, <2>1 DEF Flags
  <2>2a. Ranges'
    BY <1>1, <1>2, <1>5, <2>1, RestRange DEF Ranges
  <2>3. Shape'
    BY <1>1, <1>2, <1>5, <2>1, RunningFacts, ShapeAfterEnd
  <2> QED BY <2>2a, <2>1, <2>2, <2>3, ScanTypePartsNext DEF ScanInv
<1> QED BY <1>3, <1>4, <1>5 DEF ScanLoad

\* A power save mode that is not ended has a cause.
LEMMA ForgetsFacts ==
  ASSUME scForgotten \in Cause, NEW on, NEW cause \in Cause \ {"no"}, ScanForgets(on, cause)
  PROVE  scForgotten' \in Cause /\ (on => scForgotten' # "no")
  BY DEF ScanForgets, Cause

\* A power save mode that could not be ended is recorded as forgotten.
LEMMA PsEndsFacts ==
  ASSUME Flags, Ranges, NEW ok \in BOOLEAN, ScanPsEnds(ok)
  PROVE  /\ scPowerSave' \in BOOLEAN /\ scForgotten' \in Cause
         /\ scPowerSave' => scForgotten' # "no"
<1>1. scPowerSave' \in BOOLEAN
  BY Zenon DEF Flags, ScanPsEnds
<1>2. /\ ScanForgets(scPowerSave /\ ~ok, "refused") /\ scPowerSave' = (scPowerSave /\ ~ok)
      /\ scForgotten \in Cause /\ "refused" \in Cause \ {"no"}
  BY DEF ScanPsEnds, Ranges, Cause
<1>3. scForgotten' \in Cause /\ (scPowerSave /\ ~ok => scForgotten' # "no")
  BY <1>2, ForgetsFacts, Zenon
<1> QED BY <1>1, <1>2, <1>3, Zenon

\* A chunk that was refused ends the scan after power save mode.
LEMMA UndoStep == ASSUME ScanInv, ScanUndo PROVE ScanInv'
<1>1. Flags /\ scPos \in Pos /\ Ranges /\ Shape
  BY ScanTypeParts DEF ScanInv
<1>2. /\ scThread = "undo" /\ InThread /\ scHeld' = FALSE
      /\ UNCHANGED <<scTerminate, scRescan, scRequest, scTimedOut, scPause, scStatus,
                     scBackground, scConnect, scNet, scCbScanned, scCountry, scIface,
                     scStop, scCache>>
  BY DEF ScanUndo, InThread, scCore
<1>3. scPowerSave' \in BOOLEAN /\ scForgotten' \in Cause /\ (scPowerSave' => scForgotten' # "no")
  BY <1>1, PsEndsFacts DEF ScanUndo
<1>4. scRunning' = FALSE /\ scCompleted' = TRUE /\ scThread' = Rest(scConnect)
      /\ scPos' \in Pos
  BY <1>1, CompletesEnds, CompletesPos DEF ScanUndo
<1>5. Flags'
  BY <1>1, <1>2, <1>3, <1>4 DEF Flags
<1>5a. Ranges'
  BY <1>1, <1>2, <1>3, <1>4, RestRange DEF Ranges
<1>6. Shape'
  BY <1>1, <1>2, <1>3, <1>4, RunningFacts, ShapeAfterEnd
<1> QED BY <1>5a, <1>4, <1>5, <1>6, ScanTypePartsNext DEF ScanInv

\* The end of a chunk: the scan ends, pauses or goes on.
LEMMA ConfirmEndsOutcome ==
  ASSUME Flags, scPos \in Pos, Ranges, NEW st, ScanConfirmEnds(st)
  PROVE  /\ \/ Ended /\ scHeld' = FALSE /\ UNCHANGED scPause
            \/ /\ scBackground /\ scPause' = "set" /\ scHeld' = FALSE
               /\ scThread' = Rest(scConnect) /\ UNCHANGED <<scRunning, scCompleted>>
            \/ /\ ~scBackground /\ Chunk(scBackground)
               /\ UNCHANGED <<scRunning, scCompleted, scPause>>
         /\ scPos' \in Pos
         /\ scRescan' \in BOOLEAN /\ scCache' \subseteq 1 .. 2
<1>1. CASE /\ ScanCompletes(scConnect) /\ scHeld' = FALSE
           /\ UNCHANGED <<scRescan, scCache, scPause>>
  BY <1>1, CompletesEnds, CompletesPos DEF Ended, Flags, Ranges
<1>2. CASE /\ scBackground /\ scPause' = "set" /\ scHeld' = FALSE
           /\ ScanReturns(scConnect)
           /\ UNCHANGED <<scRunning, scCompleted, scPos, scRescan, scCache>>
  BY <1>2 DEF ScanReturns, Rest, Flags, Ranges
<1>3. CASE ~scBackground /\ ScanContinues /\ UNCHANGED scPause
  BY <1>3, ContinuesOutcome
<1> QED BY <1>1, <1>2, <1>3 DEF ScanConfirmEnds

\* The end of mtlk_scan_handle_evt_scan_confirmed, after power save mode.
LEMMA ConfirmEndsStep ==
  ASSUME ScanInv, NEW st, ScanConfirmEnds(st),
         scRunning, scStop # "done", scPause = "off", scRequest' = "none",
         scPowerSave' \in BOOLEAN, scForgotten' \in Cause, scPowerSave' => scForgotten' # "no",
         UNCHANGED <<scTerminate, scTimedOut, scStatus, scBackground, scConnect, scNet,
                     scCbScanned, scCountry, scIface, scStop>>
  PROVE  ScanInv'
<1>1. Flags /\ scPos \in Pos /\ Ranges /\ Shape
  BY ScanTypeParts DEF ScanInv
<1>2. scPos' \in Pos /\ scRescan' \in BOOLEAN /\ scCache' \subseteq 1 .. 2
  BY <1>1, ConfirmEndsOutcome
<1>3. scRunning = TRUE /\ scCompleted = FALSE
  BY <1>1, RunningFacts
<1>4. CASE Ended /\ scHeld' = FALSE /\ UNCHANGED scPause
  <2>1. scRunning' = FALSE /\ scCompleted' = TRUE /\ scThread' = Rest(scConnect)
    BY <1>4 DEF Ended
  <2>2. Flags'
    BY <1>1, <1>2, <1>4, <2>1 DEF Flags
  <2>3. Ranges'
    BY <1>1, <1>2, <1>4, <2>1, RestRange DEF Ranges
  <2>4. Shape'
    BY <1>4, <2>1, ShapeAfterEnd
  <2> QED BY <1>2, <2>2, <2>3, <2>4, ScanTypePartsNext DEF ScanInv
<1>5. CASE /\ scBackground /\ scPause' = "set" /\ scHeld' = FALSE
           /\ scThread' = Rest(scConnect) /\ UNCHANGED <<scRunning, scCompleted>>
  <2>1. Flags'
    BY <1>1, <1>2, <1>5 DEF Flags
  <2>2. Ranges'
    BY <1>1, <1>2, <1>5, RestRange DEF Ranges
  <2>3. Shape'
    BY <1>3, <1>5
       DEF Shape, OnlyContinuation, InThread, ThreadPlace, Signalled, PowerSaveKnown,
           ScanLeavesNothing, Rest
  <2> QED BY <1>2, <2>1, <2>2, <2>3, ScanTypePartsNext DEF ScanInv
<1>6. CASE /\ ~scBackground /\ Chunk(scBackground)
           /\ UNCHANGED <<scRunning, scCompleted, scPause>>
  <2>1. scHeld' = TRUE /\ scThread' = "load"
    BY <1>6 DEF Chunk
  <2>2. Flags'
    BY <1>1, <1>2, <1>6, <2>1 DEF Flags
  <2>3. Ranges'
    BY <1>1, <1>2, <1>6, <2>1 DEF Ranges
  <2>4. Shape'
    BY <1>3, <1>6, <2>1, ShapeAfterChunk
  <2> QED BY <1>2, <2>2, <2>3, <2>4, ScanTypePartsNext DEF ScanInv
<1> QED BY <1>1, <1>4, <1>5, <1>6, ConfirmEndsOutcome

\* A confirmed chunk goes on in the thread.
LEMMA ConfirmedStep == ASSUME ScanInv, ScanConfirmed PROVE ScanInv'
<1>1. Flags /\ scPos \in Pos /\ Ranges /\ Shape
  BY ScanTypeParts DEF ScanInv
<1>2. /\ ~InThread /\ scRequest \in {"ok", "error"} /\ scRequest' = "none"
      /\ UNCHANGED <<scTerminate, scTimedOut, scPowerSave, scBackground, scConnect, scNet,
                     scCbScanned, scCountry, scIface, scStop>>
  BY DEF ScanConfirmed, InThread, scCore
<1>3. scRunning /\ scPause = "off" /\ scStop # "done" /\ scCompleted = FALSE
  BY <1>1, <1>2, RunningFacts
<1>4. CASE /\ scTimedOut
           /\ ScanCompletes(scConnect)
           /\ ScanForgets(scPowerSave, "timeout")
           /\ UNCHANGED <<scHeld, scStatus, scRescan, scCache, scPause>>
  <2>0. scForgotten' \in Cause /\ (scPowerSave => scForgotten' # "no")
    <3>1. scForgotten \in Cause /\ "timeout" \in Cause \ {"no"}
      BY <1>1 DEF Ranges, Cause
    <3> QED BY <1>4, <3>1, ForgetsFacts
  <2>1. scRunning' = FALSE /\ scCompleted' = TRUE /\ scThread' = Rest(scConnect)
        /\ scPos' \in Pos
    BY <1>1, <1>4, CompletesEnds, CompletesPos
  <2>2. Flags'
    BY <1>1, <1>2, <1>4, <2>1 DEF Flags
  <2>3. Ranges'
    BY <1>1, <1>2, <1>4, <2>0, <2>1, RestRange DEF Ranges
  <2>4. Shape'
    BY <1>2, <1>3, <1>4, <2>0, <2>1, ShapeAfterEnd
  <2> QED BY <2>1, <2>2, <2>3, <2>4, ScanTypePartsNext DEF ScanInv
<1>5. CASE /\ ~scTimedOut /\ scBackground
           /\ scThread' = "back" /\ scStatus' = scRequest
           /\ UNCHANGED <<scRunning, scCompleted, scPos, scHeld, scForgotten, scRescan,
                          scCache, scPause>>
  <2>1. Flags' /\ scPos' \in Pos
    BY <1>1, <1>2, <1>5 DEF Flags
  <2>2. Ranges'
    BY <1>1, <1>2, <1>5 DEF Ranges
  <2>3. Shape'
    BY <1>1, <1>2, <1>3, <1>5
       DEF Shape, OnlyContinuation, InThread, ThreadPlace, Signalled, PowerSaveKnown,
           ScanLeavesNothing
  <2> QED BY <2>1, <2>2, <2>3, ScanTypePartsNext DEF ScanInv
<1>6. CASE /\ ~scTimedOut /\ ~scBackground
           /\ ScanConfirmEnds(scRequest)
           /\ UNCHANGED <<scStatus, scForgotten>>
  <2>1. scPowerSave' \in BOOLEAN /\ scForgotten' \in Cause
    BY <1>1, <1>2, <1>6 DEF Flags, Ranges
  <2>2. scPowerSave' => scForgotten' # "no"
    BY <1>1, <1>2, <1>6, RunningFacts
  <2> QED BY <1>2, <1>3, <1>6, <2>1, <2>2, ConfirmEndsStep
<1> QED BY <1>4, <1>5, <1>6 DEF ScanConfirmed

\* The return to the serving channel.
LEMMA BackStep == ASSUME ScanInv, ScanBack PROVE ScanInv'
<1>1. Flags /\ scPos \in Pos /\ Ranges /\ Shape
  BY ScanTypeParts DEF ScanInv
<1>2. /\ scThread = "back" /\ scThread' = "ps_off" /\ scStatus' \in {scStatus, "error"}
      /\ UNCHANGED <<scRunning, scTerminate, scCompleted, scRescan, scPos, scRequest,
                     scTimedOut, scPause, scBackground, scConnect, scNet, scCbScanned,
                     scCountry, scIface, scStop, scHeld, scPowerSave, scForgotten, scCache>>
  BY DEF ScanBack, scCore, scEffects
<1>3. Flags' /\ scPos' \in Pos
  BY <1>1, <1>2 DEF Flags
<1>4. Ranges'
  BY <1>1, <1>2 DEF Ranges
<1>5. Shape'
  BY <1>1, <1>2
     DEF Shape, OnlyContinuation, InThread, ThreadPlace, Signalled, PowerSaveKnown,
         ScanLeavesNothing
<1> QED BY <1>3, <1>4, <1>5, ScanTypePartsNext DEF ScanInv

\* Power save mode off, then the end of the chunk.
LEMMA PsOffStep == ASSUME ScanInv, ScanPsOff PROVE ScanInv'
<1>1. Flags /\ scPos \in Pos /\ Ranges /\ Shape
  BY ScanTypeParts DEF ScanInv
<1>2. PICK ok \in BOOLEAN :
        ScanPsEnds(ok) /\ ScanConfirmEnds(IF ok THEN scStatus ELSE "error")
  BY DEF ScanPsOff
<1>3. /\ InThread
      /\ UNCHANGED <<scTerminate, scRequest, scTimedOut, scStatus, scBackground, scConnect,
                     scNet, scCbScanned, scCountry, scIface, scStop>>
  BY DEF ScanPsOff, InThread, scCore
<1>4. scRunning /\ scPause = "off" /\ scStop # "done" /\ scRequest = "none"
  BY <1>1, <1>3, RunningFacts
<1>5. scPowerSave' \in BOOLEAN /\ scForgotten' \in Cause /\ (scPowerSave' => scForgotten' # "no")
  BY <1>1, <1>2, PsEndsFacts
<1> QED BY <1>2, <1>3, <1>4, <1>5, ConfirmEndsStep

\* The task of the pause timer goes on with the scan.
LEMMA PauseElapsedStep == ASSUME ScanInv, ScanPauseElapsed PROVE ScanInv'
<1>1. Flags /\ scPos \in Pos /\ Ranges /\ Shape
  BY ScanTypeParts DEF ScanInv
<1>2. /\ scPause = "task" /\ scPause' = "off" /\ ScanContinues
      /\ UNCHANGED <<scTerminate, scRequest, scTimedOut, scStatus, scPowerSave, scForgotten,
                     scBackground, scConnect, scNet, scCbScanned, scCountry, scIface, scStop>>
  BY DEF ScanPauseElapsed, scCore
<1>3. /\ scRunning = TRUE /\ scCompleted = FALSE /\ scStop # "done" /\ scRequest = "none"
      /\ (scPowerSave => scForgotten # "no")
  BY <1>1, <1>2, RunningFacts
<1>4. scPos' \in Pos /\ scRescan' \in BOOLEAN /\ scCache' \subseteq 1 .. 2
  BY <1>1, <1>2, ContinuesOutcome
<1>5. CASE Ended /\ scHeld' = FALSE
  <2>1. scRunning' = FALSE /\ scCompleted' = TRUE /\ scThread' = Rest(scConnect)
    BY <1>5 DEF Ended
  <2>2. Flags'
    BY <1>1, <1>2, <1>4, <1>5, <2>1 DEF Flags
  <2>3. Ranges'
    BY <1>1, <1>2, <1>4, <2>1, RestRange DEF Ranges
  <2>4. Shape'
    BY <1>2, <1>3, <1>5, <2>1, ShapeAfterEnd
  <2> QED BY <1>4, <2>2, <2>3, <2>4, ScanTypePartsNext DEF ScanInv
<1>6. CASE Chunk(scBackground) /\ UNCHANGED <<scRunning, scCompleted>>
  <2>1. scHeld' = TRUE /\ scThread' = IF scBackground THEN "ps_on" ELSE "load"
    BY <1>6 DEF Chunk
  <2>2. Flags'
    BY <1>1, <1>2, <1>4, <1>6, <2>1 DEF Flags
  <2>3. Ranges'
    BY <1>1, <1>2, <1>4, <2>1 DEF Ranges
  <2>4. Shape'
    BY <1>2, <1>3, <1>6, <2>1, ShapeAfterChunk
  <2> QED BY <1>4, <2>2, <2>3, <2>4, ScanTypePartsNext DEF ScanInv
<1> QED BY <1>1, <1>2, <1>5, <1>6, ContinuesOutcome

\* mtlk_scan_sync returns to the connection.
LEMMA SyncReturnsStep == ASSUME ScanInv, ScanSyncReturns PROVE ScanInv'
<1>1. Flags /\ scPos \in Pos /\ Ranges /\ Shape
  BY ScanTypeParts DEF ScanInv
<1>2. /\ scThread = "sync" /\ scThread' = "idle" /\ scConnect' = 0
      /\ UNCHANGED <<scRunning, scTerminate, scCompleted, scRescan, scPos, scRequest,
                     scTimedOut, scPause, scStatus, scBackground, scCountry, scIface,
                     scStop, scHeld, scPowerSave, scForgotten, scCache>>
  BY DEF ScanSyncReturns, scEffects
<1>3. scNet' \in {"ready", "connected"} /\ scCbScanned' \subseteq 1 .. 2
  <2>1. CASE UNCHANGED <<scNet, scCbScanned>>
    BY <1>1, <2>1 DEF Ranges
  <2>2. CASE /\ scCbScanned' = scCbScanned \cup {scConnect}
             /\ scNet' \in {"ready", "connected"}
    <3>1. scConnect \in 1 .. 2
      BY <1>1, <1>2 DEF Ranges, Shape, ThreadPlace
    <3> QED BY <1>1, <2>2, <3>1 DEF Ranges
  <2> QED BY <2>1, <2>2 DEF ScanSyncReturns
<1>4. Flags' /\ scPos' \in Pos
  BY <1>1, <1>2 DEF Flags
<1>5. Ranges'
  BY <1>1, <1>2, <1>3 DEF Ranges
<1>6. Shape'
  BY <1>1, <1>2
     DEF Shape, OnlyContinuation, InThread, ThreadPlace, Signalled, PowerSaveKnown,
         ScanLeavesNothing
<1> QED BY <1>4, <1>5, <1>6, ScanTypePartsNext DEF ScanInv

-----------------------------------------------------------------------------
(* The firmware, the timer and the core. *)

\* The firmware confirms the request.
LEMMA ConfirmStep == ASSUME ScanInv, ScanConfirm PROVE ScanInv'
<1>1. Flags /\ scPos \in Pos /\ Ranges /\ Shape
  BY ScanTypeParts DEF ScanInv
<1>2. /\ scRequest = "sent" /\ scRequest' \in {"ok", "error"}
      /\ UNCHANGED <<scRunning, scTerminate, scCompleted, scRescan, scPos, scPause,
                     scThread, scStatus, scBackground, scConnect, scNet, scCbScanned,
                     scCountry, scIface, scStop, scHeld, scPowerSave, scForgotten>>
  BY DEF ScanConfirm, scCore, scEffects
<1>3. scTimedOut' \in BOOLEAN
  BY Zenon DEF ScanConfirm
<1>4. scCache' \subseteq 1 .. 2
  BY <1>1, ScanAssumption DEF ScanConfirm, Ranges, Pos
<1>5. Flags' /\ scPos' \in Pos
  BY <1>1, <1>2, <1>3 DEF Flags
<1>6. Ranges'
  BY <1>1, <1>2, <1>4 DEF Ranges
<1>7. Shape'
  BY <1>1, <1>2, RunningFacts
     DEF Shape, OnlyContinuation, InThread, ThreadPlace, Signalled, PowerSaveKnown,
         ScanLeavesNothing
<1> QED BY <1>5, <1>6, <1>7, ScanTypePartsNext DEF ScanInv

\* The pause timer fires.
LEMMA PauseTimerStep == ASSUME ScanInv, ScanPauseTimer PROVE ScanInv'
<1>1. Flags /\ scPos \in Pos /\ Ranges /\ Shape
  BY ScanTypeParts DEF ScanInv
<1>2. /\ scPause = "set" /\ scPause' = "task"
      /\ UNCHANGED <<scRunning, scTerminate, scCompleted, scRescan, scPos, scRequest,
                     scTimedOut, scThread, scStatus, scBackground, scConnect, scNet,
                     scCbScanned, scCountry, scIface, scStop, scHeld, scPowerSave,
                     scForgotten, scCache>>
  BY DEF ScanPauseTimer, scCore, scEffects
<1>3. Flags' /\ scPos' \in Pos
  BY <1>1, <1>2 DEF Flags
<1>4. Ranges'
  BY <1>1, <1>2 DEF Ranges
<1>5. Shape'
  BY <1>1, <1>2
     DEF Shape, OnlyContinuation, InThread, ThreadPlace, Signalled, PowerSaveKnown,
         ScanLeavesNothing
<1> QED BY <1>3, <1>4, <1>5, ScanTypePartsNext DEF ScanInv

\* do_scan, called by the thread without or with a connection that waits, sleeps.
LEMMA DoStep ==
  ASSUME ScanInv, NEW b \in 1 .. 2, NEW n \in BOOLEAN, ScanDo(b, n),
         scBackground' \in BOOLEAN, scConnect' \in 0 .. 2,
         UNCHANGED <<scNet, scCbScanned, scCountry, scIface, scStop>>
  PROVE  ScanInv'
<1>1. Flags /\ scPos \in Pos /\ Ranges /\ Shape
  BY ScanTypeParts DEF ScanInv
<1>2. /\ ~scRunning /\ scStop = "no" /\ scRunning' = TRUE /\ scCompleted' = FALSE
      /\ scTerminate' = FALSE /\ scCache' = {} /\ scThread' = "preload"
      /\ scPos' = [cur |-> b, next |-> n, left |-> 0]
      /\ UNCHANGED <<scRescan, scRequest, scTimedOut, scPause, scStatus, scHeld, scPowerSave,
                     scForgotten>>
  BY DEF ScanDo, ScanStopping, scEffects
<1>3. scPos' \in Pos
  BY <1>2, ScanAssumption DEF Pos
<1>4. /\ scRequest = "none" /\ scPause = "off" /\ (scPowerSave => scForgotten # "no")
      /\ (scHeld => scTimedOut)
  BY <1>1, <1>2, RunningFacts DEF Shape, ScanLeavesNothing
<1>5. Flags'
  BY <1>1, <1>2 DEF Flags
<1>6. Ranges'
  BY <1>1, <1>2 DEF Ranges
<1>7. Shape'
  BY <1>2, <1>4
     DEF Shape, OnlyContinuation, InThread, ThreadPlace, Signalled, PowerSaveKnown,
         ScanLeavesNothing
<1> QED BY <1>3, <1>5, <1>6, <1>7, ScanTypePartsNext DEF ScanInv

\* The rest of do_scan starts the first chunk or completes the scan.
LEMMA PreloadedStep == ASSUME ScanInv, ScanPreloaded PROVE ScanInv'
<1>1. Flags /\ scPos \in Pos /\ Ranges /\ Shape
  BY ScanTypeParts DEF ScanInv
<1>2. /\ scThread = "preload" /\ InThread
      /\ UNCHANGED <<scTerminate, scRescan, scRequest, scTimedOut, scPause, scStatus,
                     scBackground, scNet, scCbScanned, scCountry, scIface, scStop,
                     scPowerSave, scForgotten, scCache>>
  BY DEF ScanPreloaded, InThread
<1>3. /\ scRunning = TRUE /\ scCompleted = FALSE /\ scStop # "done" /\ scRequest = "none"
      /\ scPause = "off" /\ (scPowerSave => scForgotten # "no") /\ (scHeld => scTimedOut)
  BY <1>1, <1>2, RunningFacts DEF Shape, ThreadPlace
<1>4. CASE /\ ScanFindsBand(scPos.cur, scPos.next, scBackground)
           /\ UNCHANGED <<scRunning, scCompleted, scConnect>>
  <2>1. scPos.cur \in 1 .. 2 /\ scPos.next \in BOOLEAN /\ scBackground \in BOOLEAN
    BY <1>1 DEF Pos, Flags
  <2>2. Chunk(scBackground) /\ scPos' \in Pos
    BY <1>4, <2>1, FindsBandChunk
  <2>3. scHeld' = TRUE /\ scThread' = IF scBackground THEN "ps_on" ELSE "load"
    BY <2>2 DEF Chunk
  <2>4. Flags'
    BY <1>1, <1>2, <1>4, <2>3 DEF Flags
  <2>5. Ranges'
    BY <1>1, <1>2, <1>4, <2>3 DEF Ranges
  <2>6. Shape'
    BY <1>2, <1>3, <1>4, <2>3, ShapeAfterChunk
  <2> QED BY <2>2, <2>4, <2>5, <2>6, ScanTypePartsNext DEF ScanInv
<1>5. CASE ScanCompletes(0) /\ scConnect' = 0 /\ UNCHANGED scHeld
  <2>1. /\ scRunning' = FALSE /\ scCompleted' = TRUE /\ scThread' = Rest(scConnect')
        /\ scPos' \in Pos
    BY <1>1, <1>5, CompletesEnds, CompletesPos
  <2>2. Flags'
    BY <1>1, <1>2, <1>5, <2>1 DEF Flags
  <2>3. Ranges'
    BY <1>1, <1>2, <1>5, <2>1, RestRange DEF Ranges
  <2>4. Shape'
    BY <1>2, <1>3, <1>5, <2>1, ShapeAfterEnd
  <2> QED BY <2>1, <2>2, <2>3, <2>4, ScanTypePartsNext DEF ScanInv
<1> QED BY <1>4, <1>5 DEF ScanPreloaded

\* A scan of the user.
LEMMA StartStep == ASSUME ScanInv, ScanStart PROVE ScanInv'
<1>1. Flags /\ Ranges /\ Shape
  BY ScanTypeParts DEF ScanInv
<1>2. scBackground' \in BOOLEAN
  BY DEF ScanStart
<1>3. /\ ScanDo(1, ScanBands = 2)
      /\ UNCHANGED <<scConnect, scNet, scCbScanned, scCountry, scIface, scStop>>
  BY DEF ScanStart
<1>4. scConnect' \in 0 .. 2
  BY <1>1, <1>3 DEF Ranges
<1>5. 1 \in 1 .. 2 /\ (ScanBands = 2) \in BOOLEAN
  OBVIOUS
<1> QED BY <1>2, <1>3, <1>4, <1>5, DoStep

\* A connection scans the band of its access point first.
LEMMA ConnectsStep ==
  ASSUME ScanInv, NEW band \in BssBands, ScanConnects(band) PROVE ScanInv'
<1>1. Flags /\ scPos \in Pos /\ Ranges /\ Shape
  BY ScanTypeParts DEF ScanInv
<1>2. band \in 1 .. 2
  BY ScanAssumption
<1>3. /\ scThread = "idle"
      /\ UNCHANGED <<scBackground, scCbScanned, scCountry, scIface, scStop>>
  BY DEF ScanConnects
<1>4. CASE ScanDo(band, FALSE) /\ scConnect' = band /\ UNCHANGED scNet
  <2>1. scBackground' \in BOOLEAN /\ scConnect' \in 0 .. 2
    BY <1>1, <1>2, <1>3, <1>4 DEF Flags
  <2> QED BY <1>2, <1>3, <1>4, <2>1, DoStep
<1>5. CASE /\ scNet' \in {"ready", "connected"}
           /\ UNCHANGED <<scConnect, scPlan, scEffects, scCache>>
  <2>1. Flags' /\ scPos' \in Pos /\ Ranges'
    BY <1>1, <1>3, <1>5 DEF Flags, Ranges, scPlan, scEffects
  <2>2. Shape'
    BY <1>1, <1>3, <1>5
       DEF Shape, OnlyContinuation, InThread, ThreadPlace, Signalled, PowerSaveKnown,
           ScanLeavesNothing, scPlan, scEffects
  <2> QED BY <2>1, <2>2, ScanTypePartsNext DEF ScanInv
<1> QED BY <1>4, <1>5 DEF ScanConnects

\* The steps that change neither the place of the scan nor what it holds.
LEMMA ScanAsideStep ==
  ASSUME ScanInv,
         \/ ScanScheduleRescan \/ ScanUserDisconnects \/ ScanDeactivate
         \/ ScanPrepareStop \/ ScanStopWaited
  PROVE  ScanInv'
<1>1. Flags /\ scPos \in Pos /\ Ranges /\ Shape
  BY ScanTypeParts DEF ScanInv
<1>2. UNCHANGED <<scRunning, scCompleted, scPos, scRequest, scTimedOut, scPause, scThread,
                  scStatus, scBackground, scConnect, scHeld, scPowerSave, scForgotten>>
  BY DEF ScanScheduleRescan, ScanUserDisconnects, ScanDeactivate, ScanPrepareStop,
         ScanStopWaited, scPlan, scEffects
<1>3. scTerminate' \in BOOLEAN /\ scRescan' \in BOOLEAN /\ scCountry' \in BOOLEAN
      /\ scIface' \in BOOLEAN
  BY <1>1, Zenon DEF Flags, ScanScheduleRescan, ScanUserDisconnects, ScanDeactivate,
                     ScanPrepareStop, ScanStopWaited, scPlan
<1>4. /\ scNet' \in {"ready", "connected"} /\ scStop' \in {"no", "waiting", "done"}
      /\ scCbScanned' \subseteq 1 .. 2 /\ scCache' \subseteq 1 .. 2
  BY <1>1 DEF Ranges, ScanScheduleRescan, ScanUserDisconnects, ScanDeactivate,
              ScanPrepareStop, ScanStopWaited
<1>5. scStop' = "done" => ~scRunning
  BY <1>1 DEF Shape, Signalled, ScanLeavesNothing, ScanScheduleRescan, ScanUserDisconnects,
              ScanDeactivate, ScanPrepareStop, ScanStopWaited
<1>6. Flags'
  BY <1>1, <1>2, <1>3 DEF Flags
<1>7. Ranges' /\ scPos' \in Pos
  BY <1>1, <1>2, <1>4 DEF Ranges
<1>8. Shape'
  BY <1>1, <1>2, <1>5
     DEF Shape, OnlyContinuation, InThread, ThreadPlace, Signalled, PowerSaveKnown,
         ScanLeavesNothing
<1> QED BY <1>6, <1>7, <1>8, ScanTypePartsNext DEF ScanInv

\* The station is disconnected while the scan is between two steps.
LEMMA DisconnectedStep == ASSUME ScanInv, ScanDisconnected PROVE ScanInv'
<1>1. Flags /\ scPos \in Pos /\ Ranges /\ Shape
  BY ScanTypeParts DEF ScanInv
<1>2. /\ scThread = "idle" /\ scBackground' = FALSE /\ scNet' = "ready"
      /\ UNCHANGED <<scRunning, scCompleted, scRescan, scPos, scRequest, scTimedOut,
                     scPause, scThread, scStatus, scConnect, scCbScanned, scCountry,
                     scIface, scStop, scHeld, scPowerSave, scCache>>
  BY DEF ScanDisconnected
<1>3. scTerminate' \in BOOLEAN
  BY <1>1, Zenon DEF ScanDisconnected, Flags
<1>3a. scForgotten' \in Cause /\ (scPowerSave => scForgotten' # "no")
  <2>1. scForgotten \in Cause /\ "disconnected" \in Cause \ {"no"}
    BY <1>1 DEF Ranges, Cause
  <2> QED BY <2>1, ForgetsFacts DEF ScanDisconnected
<1>4. Flags'
  BY <1>1, <1>2, <1>3 DEF Flags
<1>5. Ranges' /\ scPos' \in Pos
  BY <1>1, <1>2, <1>3a DEF Ranges
<1>6. Shape'
  BY <1>1, <1>2, <1>3a
     DEF Shape, OnlyContinuation, InThread, ThreadPlace, Signalled, PowerSaveKnown,
         ScanLeavesNothing
<1> QED BY <1>4, <1>5, <1>6, ScanTypePartsNext DEF ScanInv

-----------------------------------------------------------------------------
(* The theorems. *)

\* The invariant holds at first.
LEMMA ScanInitInv == ScanInit => ScanInv
<1> SUFFICES ASSUME ScanInit PROVE ScanInv
  OBVIOUS
<1>1. Flags
  BY DEF ScanInit, Flags
<1>2. scPos \in Pos
  BY ScanAssumption DEF ScanInit, Pos
<1>3. Ranges
  BY DEF ScanInit, Ranges, Cause
<1>4. Shape
  BY DEF ScanInit, Shape, OnlyContinuation, InThread, ThreadPlace, Signalled,
         PowerSaveKnown, ScanLeavesNothing
<1> QED BY <1>1, <1>2, <1>3, <1>4, ScanTypeParts DEF ScanInv

\* The invariant is kept by every step.
LEMMA ScanNextInv == ScanInv /\ [ScanNext]_scVars => ScanInv'
<1> SUFFICES ASSUME ScanInv, [ScanNext]_scVars PROVE ScanInv'
  OBVIOUS
<1>1. CASE ScanThread
  BY <1>1, PreloadedStep, PsOnStep, LoadStep, UndoStep, ConfirmedStep, BackStep, PsOffStep,
     PauseElapsedStep, SyncReturnsStep DEF ScanThread
<1>2. CASE ScanConfirm \/ ScanPauseTimer \/ ScanStart \/ ScanDisconnected
  BY <1>2, ConfirmStep, PauseTimerStep, StartStep, DisconnectedStep
<1>3. CASE \E band \in BssBands : ScanConnects(band)
  BY <1>3, ConnectsStep
<1>4. CASE \/ ScanScheduleRescan \/ ScanUserDisconnects \/ ScanDeactivate
           \/ ScanPrepareStop \/ ScanStopWaited
  BY <1>4, ScanAsideStep
<1>5. CASE UNCHANGED scVars
  BY <1>5 DEF scVars, scPlan, scCore, scEffects, ScanInv, ScanTypeOK, Shape,
              OnlyContinuation, InThread, ThreadPlace, Signalled, PowerSaveKnown,
              ScanLeavesNothing
<1> QED BY <1>1, <1>2, <1>3, <1>4, <1>5 DEF ScanNext

\* The inductive invariant: one continuation, the places of the thread, the
\* event and power save mode fit together in every reachable state.
THEOREM ScanInvariant == ScanSpec => []ScanInv
  BY ScanInitInv, ScanNextInv, PTL DEF ScanSpec

\* The variables of the scan keep their ranges, for any number of chunks.
THEOREM ScanTypeCorrect == ScanSpec => []ScanTypeOK
<1>1. ScanInv => ScanTypeOK
  BY DEF ScanInv
<1> QED BY <1>1, ScanInvariant, PTL

\* A running scan has exactly one continuation, a finished one none.
THEOREM ScanAlwaysOneContinuation == ScanSpec => []ScanOneContinuation
<1>1. ScanInv => ScanOneContinuation
  <2> SUFFICES ASSUME ScanInv PROVE ScanOneContinuation
    OBVIOUS
  <2>1. OnlyContinuation
    BY DEF ScanInv, Shape
  <2>2. CASE ~scRunning
    <3>1. ScanPending = {}
      BY <2>1, <2>2 DEF ScanPending, OnlyContinuation, InThread
    <3> QED BY <2>2, <3>1, FS_EmptySet DEF ScanOneContinuation
  <2>3. CASE scRunning
    <3>1. PICK p : ScanPending = {p}
      <4>1. CASE InThread
        <5>1. ScanPending = {"thread"}
          BY <2>1, <4>1 DEF ScanPending, OnlyContinuation, InThread
        <5> QED BY <5>1
      <4>2. CASE scRequest # "none"
        <5>1. ScanPending = {"request"}
          BY <2>1, <4>2 DEF ScanPending, OnlyContinuation, InThread
        <5> QED BY <5>1
      <4>3. CASE scPause # "off"
        <5>1. ScanPending = {"pause"}
          BY <2>1, <4>3 DEF ScanPending, OnlyContinuation, InThread
        <5> QED BY <5>1
      <4> QED BY <2>1, <2>3, <4>1, <4>2, <4>3 DEF OnlyContinuation
    <3> QED BY <2>3, <3>1, FS_Singleton DEF ScanOneContinuation
  <2> QED BY <2>2, <2>3
<1> QED BY <1>1, ScanInvariant, PTL

\* A scan that is over holds the data flow only after a request that timed out,
\* and leaves power save on only after a refusal, such a time-out or a change of
\* its mode by a disconnection; none runs after the stop.
THEOREM ScanAlwaysLeavesNothing == ScanSpec => []ScanLeavesNothing
<1>1. ScanInv => ScanLeavesNothing
  BY DEF ScanInv, Shape
<1> QED BY <1>1, ScanInvariant, PTL


-----------------------------------------------------------------------------
(***************************************************************************)
(* The five components that MCBuffers runs in one model.                   *)
(***************************************************************************)

\* What the model of the five components does is what each of them does: a step
\* of the one that runs leaves the others alone, so that what is shown of the
\* model is shown of TXMM, the agreements, the reordering queue, the peer manager
\* and the scan.
THEOREM BuffersImplement ==
  BuffersSpec => /\ Spec /\ AddbaSpec /\ RodSpec /\ WdsSpec
                 /\ ScanInit /\ [][ScanNext]_scVars
<1>1. BuffersInit => Init /\ AddbaInit /\ RodInit /\ WdsInit /\ ScanInit
  BY DEF BuffersInit
<1> DEFINE all == <<part, vars, baVars, rodVars, wdsVars, scVars>>
<1>2. [BuffersNext]_all => [Next]_vars
  BY DEF BuffersNext
<1>3. [BuffersNext]_all => [AddbaNext]_baVars
  BY DEF BuffersNext
<1>4. [BuffersNext]_all => [RodNext]_rodVars
  BY DEF BuffersNext
<1>5. [BuffersNext]_all => [WdsNext]_wdsVars
  BY DEF BuffersNext
<1>6. [BuffersNext]_all => [ScanNext]_scVars
  BY DEF BuffersNext
<1> QED BY <1>1, <1>2, <1>3, <1>4, <1>5, <1>6, PTL
        DEF BuffersSpec, Spec, AddbaSpec, RodSpec, WdsSpec

\* Every state and counter of the agreements, the reordering queue, the peer
\* manager and the scan keeps its range, and no packet is stored outside nbuf when
\* the windows asked for divide the numbers of mtlk_reorder_packet and fit the array.
THEOREM BuffersTypeCorrect ==
  ASSUME Fits
  PROVE  BuffersSpec => []BuffersTypeOK
<1>1. AddbaTypeOK /\ RodTypeOK /\ WdsTypeOK /\ ScanTypeOK => BuffersTypeOK
  BY DEF BuffersTypeOK
<1>2. ScanInv => ScanTypeOK
  BY DEF ScanInv
<1> QED BY <1>1, <1>2, BuffersImplement, AddbaTypeCorrect, RodTypeCorrect,
           WdsTypeCorrect, ScanInitInv, ScanNextInv, PTL
=============================================================================

--------------------------- MODULE BlockAckProofs ---------------------------
(***************************************************************************)
(* Block acknowledgement: safety of the agreements for every set of TIDs   *)
(* and every limit, and of the reordering of one TID for any size of the   *)
(* space of sequence numbers, any windows that divide it and any number of *)
(* packets.                                                                *)
(***************************************************************************)
EXTENDS Addba, Rod, ListsProofs, FiniteSetTheorems

-----------------------------------------------------------------------------
(***************************************************************************)
(* The agreements.                                                         *)
(***************************************************************************)

(* The inductive invariant: the types, the place of a disconnection, what is
   said of each TID, and the two counters. *)

\* No callback comes between two sections of a disconnection.
OneCore == "smp" \notin BaFaults

TxRec == [state : TxState, msg : TxMsg, dlgt : BOOLEAN, ts : BOOLEAN,
          rejects : 0 .. MaxRejects - 1, rejected : BOOLEAN, delba : 0 .. MaxRetransmissions]
RxRec == [state : RxState, msg : RxMsg, reord : BOOLEAN, accept : BOOLEAN,
          res : 0 .. MaxRetransmissions, delba : 0 .. MaxRetransmissions]

Tids ==
  /\ baTx \in [Tid -> TxRec] /\ baRx \in [Tid -> RxRec]
  /\ inited \in [Tid -> BOOLEAN] /\ revive \in [Tid -> 0 .. ReviveMax]
  /\ status \in [Tid -> Seq(RxMsg \ {"free"})]

Teardown ==
  /\ baActive \in BOOLEAN
  /\ baStop \in [left : SUBSET Tid, aggr : BOOLEAN,
                 step : {"idle", "tx", "cancel_tx", "rx", "cancel_rx", "reorder"}]
  /\ Stopping => ~baActive /\ baStop.left # {}
  /\ ~Stopping => baStop.left = {}

Counters ==
  /\ aggrCur \in Int /\ reordCur \in Int /\ baOthers \in [aggr : Nat, reord : Nat]

\* The disconnection is at a section of TID `t'.
AtStep(t, sections) == baStop.step \in sections /\ t = StopTid

\* The disconnection has ended for TID `t'.
Done(t) == ~baActive /\ t \notin baStop.left

Reorders == {"POSITIVE_RES_SENT", "REORD_IN_PROCESS", "DELBA_REQ_SENT"}

Matches(r) == r.reord <=> r.state \in Reorders

\* The answer sent is the answer decided on.
Answers(r) ==
  /\ r.state = "POSITIVE_RES_SENT" => r.accept
  /\ r.state = "NEGATIVE_RES_SENT" => ~r.accept

\* The reordering follows the state, but between the reset of the state and
\* the end of the reordering.
RxShape(t) ==
  /\ ~AtStep(t, {"cancel_rx", "reorder"}) => Matches(baRx[t])
  /\ Answers(baRx[t])

\* What the sections of a disconnection leave behind.
StopShape(t) ==
  /\ Done(t) => /\ baTx[t].state = "NONE" /\ baTx[t].msg = "free"
                /\ baRx[t].state = "NONE" /\ baRx[t].msg = "free" /\ ~baRx[t].reord
  /\ AtStep(t, {"cancel_tx", "rx", "cancel_rx", "reorder"}) => baTx[t].state = "NONE"
  /\ AtStep(t, {"rx", "cancel_rx", "reorder"}) => baTx[t].msg = "free"
  /\ AtStep(t, {"cancel_rx", "reorder"}) => baRx[t].state = "NONE"
  /\ AtStep(t, {"reorder"}) => baRx[t].msg = "free"

\* A confirmation finds the state it belongs to.
Expected(q) ==
  /\ q.msg = "ADDBA_REQ" => q.state \in {"ADDBA_REQ_SENT", "NONE", "STA_POWER_SAVE"}
  /\ q.msg = "OPEN_AGGR" => q.state = "ADD_AGGR_REQ_SENT"
  /\ q.msg = "CLOSE_AGGR" => q.state = "DEL_AGGR_REQ_SENT"

TidInv(t) ==
  /\ RxShape(t)
  /\ OneCore => StopShape(t) /\ (~Stopping => Expected(baTx[t]))

AggrHolders == {t \in Tid : HasRef(baTx[t].state)}
ReordHolders == {t \in Tid : baRx[t].reord}

Counted ==
  /\ aggrCur <= baOthers.aggr + Cardinality(AggrHolders) /\ aggrCur <= AggrMax
  /\ reordCur = baOthers.reord + Cardinality(ReordHolders) /\ reordCur <= ReordMax

BaInv ==
  Tids /\ Teardown /\ Counters /\ (OneCore => Counted) /\ \A t \in Tid : TidInv(t)

\* The parts together give the type invariant.
LEMMA BaTypeParts == Tids /\ Teardown /\ Counters <=>
                     AddbaTypeOK /\ (Stopping => ~baActive /\ baStop.left # {})
                                 /\ (~Stopping => baStop.left = {})
  BY DEF Tids, Teardown, Counters, AddbaTypeOK, TxRec, RxRec

-----------------------------------------------------------------------------
(* The counters. *)

\* A set that changes at most at one element.
LEMMA CardinalityChange ==
  ASSUME NEW S, NEW T, IsFiniteSet(S), NEW t, \A u : u # t => (u \in T <=> u \in S)
  PROVE  Cardinality(T) = Cardinality(S) - One(t \in S) + One(t \in T)
<1>1. Cardinality(S) \in Nat
  BY FS_CardinalityType
<1>2. CASE t \in S /\ t \in T
  <2>1. T = S
    BY <1>2
  <2> QED BY <1>1, <1>2, <2>1 DEF One
<1>3. CASE t \notin S /\ t \notin T
  <2>1. T = S
    BY <1>3
  <2> QED BY <1>1, <1>3, <2>1 DEF One
<1>4. CASE t \in S /\ t \notin T
  <2>1. T = S \ {t}
    BY <1>4
  <2>2. Cardinality(T) = Cardinality(S) - 1
    BY <1>4, <2>1, FS_RemoveElement
  <2> QED BY <1>1, <1>4, <2>2 DEF One
<1>5. CASE t \notin S /\ t \in T
  <2>1. T = S \cup {t}
    BY <1>5
  <2>2. Cardinality(T) = Cardinality(S) + 1
    BY <1>5, <2>1, FS_AddElement
  <2> QED BY <1>1, <1>5, <2>2 DEF One
<1> QED BY <1>2, <1>3, <1>4, <1>5

\* The holders of references are finitely many.
LEMMA HoldersFinite ==
  /\ IsFiniteSet(AggrHolders) /\ IsFiniteSet(ReordHolders)
  /\ Cardinality(AggrHolders) \in Nat /\ Cardinality(ReordHolders) \in Nat
<1>1. AggrHolders \subseteq Tid /\ ReordHolders \subseteq Tid
  BY DEF AggrHolders, ReordHolders
<1>2. IsFiniteSet(AggrHolders) /\ IsFiniteSet(ReordHolders)
  BY <1>1, AddbaConstants, FS_Subset
<1> QED BY <1>2, FS_CardinalityType

\* The counters are right when they follow the state of the TID that changes,
\* or the TID enters a state of those with a reference without taking one.
LEMMA CountedStep ==
  ASSUME Counted, Counters, NEW t \in Tid, UNCHANGED baOthers,
         \A u \in Tid \ {t} : UNCHANGED <<baTx[u], baRx[u]>>,
         \/ aggrCur' = aggrCur - One(HasRef(baTx[t].state)) + One(HasRef(baTx'[t].state))
         \/ aggrCur' = aggrCur /\ HasRef(baTx'[t].state),
         reordCur' = reordCur - One(baRx[t].reord) + One(baRx'[t].reord),
         aggrCur' <= AggrMax, reordCur' <= ReordMax
  PROVE  Counted'
<1>1. /\ One(t \in AggrHolders) = One(HasRef(baTx[t].state))
      /\ One(t \in AggrHolders') = One(HasRef(baTx'[t].state))
      /\ One(t \in ReordHolders) = One(baRx[t].reord)
      /\ One(t \in ReordHolders') = One(baRx'[t].reord)
  BY DEF AggrHolders, ReordHolders, One
<1>2. \A u : u # t => (u \in AggrHolders' <=> u \in AggrHolders)
                      /\ (u \in ReordHolders' <=> u \in ReordHolders)
  BY DEF AggrHolders, ReordHolders
<1>3. Cardinality(AggrHolders') =
        Cardinality(AggrHolders) - One(t \in AggrHolders) + One(t \in AggrHolders')
  BY <1>2, HoldersFinite, CardinalityChange
<1>4. Cardinality(ReordHolders') =
        Cardinality(ReordHolders) - One(t \in ReordHolders) + One(t \in ReordHolders')
  BY <1>2, HoldersFinite, CardinalityChange
<1>5. \A b : One(b) \in {0, 1}
  BY DEF One
<1>6. /\ Cardinality(AggrHolders) \in Nat /\ Cardinality(ReordHolders) \in Nat
      /\ baOthers.aggr \in Nat /\ baOthers.reord \in Nat
  BY HoldersFinite DEF Counters
<1>7. aggrCur' <= baOthers.aggr + Cardinality(AggrHolders')
  <2>1. aggrCur <= baOthers.aggr + Cardinality(AggrHolders) /\ aggrCur \in Int
    BY DEF Counted, Counters
  <2>2. CASE aggrCur' = aggrCur - One(HasRef(baTx[t].state)) + One(HasRef(baTx'[t].state))
    BY <1>1, <1>3, <1>5, <1>6, <2>1, <2>2
  <2>3. CASE aggrCur' = aggrCur /\ HasRef(baTx'[t].state)
    <3>1. One(t \in AggrHolders') = 1 /\ One(t \in AggrHolders) \in {0, 1}
      BY <1>1, <1>5, <2>3 DEF One
    <3> QED BY <1>3, <1>6, <2>1, <2>3, <3>1
  <2> QED BY <2>2, <2>3
<1>8. reordCur' = baOthers.reord + Cardinality(ReordHolders')
  BY <1>1, <1>4, <1>5, <1>6 DEF Counted
<1> QED BY <1>7, <1>8 DEF Counted

-----------------------------------------------------------------------------
(* A step of one TID. *)

\* A TID of which nothing changes keeps its predicate.
LEMMA KeptTid ==
  ASSUME NEW u \in Tid, TidInv(u), UNCHANGED <<baTx[u], baRx[u], inited[u], revive[u]>>,
         UNCHANGED <<baActive, baStop>>
  PROVE  TidInv(u)'
<1>1. \A sections : AtStep(u, sections)' <=> AtStep(u, sections)
  BY DEF AtStep, StopTid
<1>2. (Done(u)' <=> Done(u)) /\ (Stopping' <=> Stopping)
  BY DEF Done, Stopping
<1>3. RxShape(u)'
  BY <1>1 DEF TidInv, RxShape
<1>4. StopShape(u) => StopShape(u)'
  BY <1>1, <1>2 DEF StopShape
<1> QED BY <1>2, <1>3, <1>4 DEF TidInv

\* One TID changes while its station is connected.
LEMMA TidStep ==
  ASSUME BaInv, NEW t \in Tid, NEW q \in TxRec, NEW r \in RxRec,
         baTx' = [baTx EXCEPT ![t] = q], baRx' = [baRx EXCEPT ![t] = r],
         UNCHANGED <<baActive, baStop, baOthers>>,
         inited' \in [Tid -> BOOLEAN], revive' \in [Tid -> 0 .. ReviveMax],
         status' \in [Tid -> Seq(RxMsg \ {"free"})],
         \A u \in Tid \ {t} : UNCHANGED <<inited[u], revive[u]>>,
         aggrCur' \in Int, reordCur' \in Int,
         ~AtStep(t, {"cancel_rx", "reorder"}) => Matches(r),
         Answers(r),
         OneCore =>
           /\ baActive /\ Expected(q)
           /\ \/ aggrCur' = aggrCur - One(HasRef(baTx[t].state)) + One(HasRef(q.state))
              \/ aggrCur' = aggrCur /\ HasRef(q.state)
           /\ reordCur' = reordCur - One(baRx[t].reord) + One(r.reord)
           /\ aggrCur' <= AggrMax /\ reordCur' <= ReordMax
  PROVE  BaInv'
<1>1. Tids /\ Teardown /\ Counters
  BY DEF BaInv
<1>2. /\ baTx' \in [Tid -> TxRec] /\ baRx' \in [Tid -> RxRec]
      /\ baTx'[t] = q /\ baRx'[t] = r
      /\ \A u \in Tid \ {t} : UNCHANGED <<baTx[u], baRx[u]>>
  BY <1>1 DEF Tids
<1>3. Tids'
  BY <1>2 DEF Tids
<1>4. Teardown' /\ Counters'
  BY <1>1 DEF Teardown, Counters, Stopping
<1>5. OneCore => Counted'
  BY <1>1, <1>2, CountedStep DEF BaInv
<1>6. \A u \in Tid \ {t} : TidInv(u)'
  BY <1>2, KeptTid DEF BaInv
<1>7. TidInv(t)'
  <2>1. RxShape(t)'
    <3>1. AtStep(t, {"cancel_rx", "reorder"})' <=> AtStep(t, {"cancel_rx", "reorder"})
      BY DEF AtStep, StopTid
    <3> QED BY <1>2, <3>1 DEF RxShape
  <2>2. OneCore => StopShape(t)' /\ Expected(baTx[t])'
    <3> SUFFICES ASSUME OneCore PROVE StopShape(t)' /\ Expected(baTx[t])'
      OBVIOUS
    <3>1. baActive' /\ baStop'.step = "idle"
      BY <1>1 DEF Teardown, Stopping
    <3>2. StopShape(t)'
      BY <3>1 DEF StopShape, Done, AtStep
    <3> QED BY <1>2, <3>2
  <2> QED BY <1>2, <2>1, <2>2 DEF TidInv
<1> QED BY <1>3, <1>4, <1>5, <1>6, <1>7 DEF BaInv

\* What the invariant says of a TID before a step.
LEMMA TidBefore ==
  ASSUME BaInv, NEW t \in Tid
  PROVE  /\ baTx[t] \in TxRec /\ baRx[t] \in RxRec
         /\ inited[t] \in BOOLEAN /\ revive[t] \in Nat
         /\ aggrCur \in Int /\ reordCur \in Int
         /\ Answers(baRx[t])
         /\ ~AtStep(t, {"cancel_rx", "reorder"}) => Matches(baRx[t])
         /\ baActive => ~Stopping /\ Matches(baRx[t])
         /\ OneCore => aggrCur <= AggrMax /\ reordCur <= ReordMax
         /\ OneCore /\ baActive => Expected(baTx[t])
         /\ OneCore /\ ~baActive /\ ~Stopping => baTx[t].msg = "free" /\ baRx[t].msg = "free"
<1>1. Tids /\ Teardown /\ Counters /\ TidInv(t) /\ (OneCore => Counted)
  BY DEF BaInv
<1>2. baTx[t] \in TxRec /\ baRx[t] \in RxRec /\ inited[t] \in BOOLEAN /\ revive[t] \in Nat
  BY <1>1, AddbaConstants DEF Tids
<1>3. baActive => ~Stopping /\ ~AtStep(t, {"cancel_rx", "reorder"})
  BY <1>1 DEF Teardown, AtStep, Stopping
<1>4. ~baActive /\ ~Stopping => Done(t)
  BY <1>1 DEF Teardown, Done
<1>5. OneCore => aggrCur <= AggrMax /\ reordCur <= ReordMax
  BY <1>1 DEF Counted
<1>6. Answers(baRx[t]) /\ (~AtStep(t, {"cancel_rx", "reorder"}) => Matches(baRx[t]))
  BY <1>1 DEF TidInv, RxShape
<1>7. OneCore /\ ~baActive /\ ~Stopping => baTx[t].msg = "free" /\ baRx[t].msg = "free"
  BY <1>1, <1>4 DEF TidInv, StopShape
<1>8. aggrCur \in Int /\ reordCur \in Int
  BY <1>1 DEF Counters
<1> QED BY <1>1, <1>2, <1>3, <1>5, <1>6, <1>7, <1>8 DEF TidInv

\* One is a number that cancels.
LEMMA OneCancels == \A b : One(b) \in {0, 1} /\ \A n \in Int : n - One(b) + One(b) = n
  BY DEF One

\* The sending half of a TID changes.
LEMMA TxStep ==
  ASSUME BaInv, NEW t \in Tid, NEW q \in TxRec, SetTx(t, q),
         UNCHANGED <<baActive, baStop, baOthers, baRx, reordCur, status>>,
         inited' \in [Tid -> BOOLEAN], revive' \in [Tid -> 0 .. ReviveMax],
         \A u \in Tid \ {t} : UNCHANGED <<inited[u], revive[u]>>,
         aggrCur' \in Int,
         OneCore =>
           /\ baActive /\ Expected(q)
           /\ \/ aggrCur' = aggrCur - One(HasRef(baTx[t].state)) + One(HasRef(q.state))
              \/ aggrCur' = aggrCur /\ HasRef(q.state)
           /\ aggrCur' <= AggrMax
  PROVE  BaInv'
<1>1. /\ baRx[t] \in RxRec /\ reordCur \in Int /\ Answers(baRx[t])
      /\ ~AtStep(t, {"cancel_rx", "reorder"}) => Matches(baRx[t])
      /\ OneCore => reordCur <= ReordMax
  BY TidBefore
<1>2. baRx' = [baRx EXCEPT ![t] = baRx[t]] /\ status' \in [Tid -> Seq(RxMsg \ {"free"})]
  BY DEF BaInv, Tids
<1>3. reordCur' = reordCur - One(baRx[t].reord) + One(baRx[t].reord)
  BY <1>1, OneCancels
<1> QED BY <1>1, <1>2, <1>3, TidStep DEF SetTx

\* The receiving half of a TID changes, and the count of attempts of the other.
LEMMA RxStep ==
  ASSUME BaInv, NEW t \in Tid, NEW r \in RxRec, SetRx(t, r),
         NEW n \in 0 .. MaxRetransmissions,
         UNCHANGED baTx \/ SetTx(t, [baTx[t] EXCEPT !.delba = n]),
         UNCHANGED <<baActive, baStop, baOthers, aggrCur, inited, revive>>,
         status' \in [Tid -> Seq(RxMsg \ {"free"})],
         reordCur' \in Int,
         ~AtStep(t, {"cancel_rx", "reorder"}) => Matches(r),
         Answers(r),
         OneCore =>
           /\ baActive
           /\ reordCur' = reordCur - One(baRx[t].reord) + One(r.reord)
           /\ reordCur' <= ReordMax
  PROVE  BaInv'
<1>1. PICK q \in TxRec :
        /\ baTx' = [baTx EXCEPT ![t] = q]
        /\ q.state = baTx[t].state /\ q.msg = baTx[t].msg /\ q.rejected = baTx[t].rejected
  <2>1. baTx[t] \in TxRec /\ baTx \in [Tid -> TxRec]
    BY TidBefore DEF BaInv, Tids
  <2>2. CASE UNCHANGED baTx
    <3>1. baTx' = [baTx EXCEPT ![t] = baTx[t]]
      BY <2>1, <2>2
    <3> QED BY <2>1, <3>1
  <2>3. CASE SetTx(t, [baTx[t] EXCEPT !.delba = n])
    <3> DEFINE q == [baTx[t] EXCEPT !.delba = n]
    <3>1. q \in TxRec /\ q.state = baTx[t].state /\ q.msg = baTx[t].msg
          /\ q.rejected = baTx[t].rejected
      BY <2>1 DEF TxRec
    <3>2. baTx' = [baTx EXCEPT ![t] = q]
      BY <2>3 DEF SetTx
    <3> QED BY <3>1, <3>2
  <2> QED BY <2>2, <2>3
<1>2. /\ aggrCur \in Int
      /\ OneCore => aggrCur <= AggrMax
      /\ OneCore /\ baActive => Expected(baTx[t])
  BY TidBefore
<1>3. aggrCur' = aggrCur - One(HasRef(baTx[t].state)) + One(HasRef(q.state))
  BY <1>1, <1>2, OneCancels
<1>4. inited' \in [Tid -> BOOLEAN] /\ revive' \in [Tid -> 0 .. ReviveMax]
  BY DEF BaInv, Tids
<1>5. OneCore => baActive /\ Expected(q)
  BY <1>1, <1>2 DEF Expected
<1> QED BY <1>1, <1>2, <1>3, <1>4, <1>5, TidStep DEF SetRx

-----------------------------------------------------------------------------
(* The pieces of the handlers. *)

\* _mtlk_addba_peer_reset_tx_state touches neither the message nor the rejections.
LEMMA ResetTxFields ==
  ASSUME NEW q \in TxRec
  PROVE  /\ ResetTx(q) \in TxRec /\ ResetTx(q).state = "NONE" /\ ResetTx(q).msg = q.msg
         /\ ResetTx(q).rejected = q.rejected /\ ResetTx(q).rejects = q.rejects
  BY DEF ResetTx, TxRec, TxState

\* The two resets of the receiving half.
LEMMA ResetRxFields ==
  ASSUME NEW r \in RxRec
  PROVE  /\ ResetRx(r) \in RxRec /\ ResetRx(r).state = "NONE" /\ ResetRx(r).msg = r.msg
         /\ ResetRx(r).reord = r.reord /\ Answers(ResetRx(r))
         /\ ReorderingStop(r) \in RxRec /\ ReorderingStop(r).state = "NONE"
         /\ ReorderingStop(r).msg = r.msg /\ ReorderingStop(r).reord = FALSE
         /\ Answers(ReorderingStop(r)) /\ Matches(ReorderingStop(r))
<1>1. 0 \in 0 .. MaxRetransmissions
  BY AddbaConstants
<1>2. ResetRx(r) \in RxRec /\ ResetRx(r).state = "NONE" /\ ResetRx(r).msg = r.msg
      /\ ResetRx(r).reord = r.reord
  BY <1>1 DEF ResetRx, RxRec, RxState
<1>3. /\ ReorderingStop(r) \in RxRec /\ ReorderingStop(r).state = "NONE"
      /\ ReorderingStop(r).msg = r.msg /\ ReorderingStop(r).reord = FALSE
  BY <1>2 DEF ReorderingStop, RxRec
<1> QED BY <1>2, <1>3 DEF Answers, Matches, Reorders

\* A DELBA for what we receive enters the state that fits the reordering.
LEMMA SendDelbaFields ==
  ASSUME NEW r \in RxRec, NEW dir \in {"DELBA_RX", "DELBA_TX"}, NEW got \in BOOLEAN
  PROVE  /\ SendDelba(r, dir, got) \in RxRec /\ SendDelba(r, dir, got).reord = r.reord
         /\ Answers(r) => Answers(SendDelba(r, dir, got))
         /\ Matches(r) => Matches(SendDelba(r, dir, got))
<1> DEFINE d == SendDelba(r, dir, got)
<1>1. CASE ~got
  BY <1>1 DEF SendDelba
<1>2. CASE got /\ dir = "DELBA_TX"
  <2>1. d = [r EXCEPT !.msg = "DELBA_TX", !.state = r.state]
    BY <1>2 DEF SendDelba
  <2>2. d \in RxRec /\ d.reord = r.reord /\ d.state = r.state /\ d.accept = r.accept
    BY <2>1 DEF RxRec, RxMsg
  <2> QED BY <2>2 DEF Answers, Matches
<1>3. CASE got /\ dir = "DELBA_RX" /\ r.reord
  <2>1. d = [r EXCEPT !.msg = "DELBA_RX", !.state = "DELBA_REQ_SENT"]
    BY <1>3 DEF SendDelba
  <2>2. d \in RxRec /\ d.reord = r.reord /\ d.state = "DELBA_REQ_SENT" /\ d.accept = r.accept
    BY <2>1 DEF RxRec, RxMsg, RxState
  <2> QED BY <1>3, <2>2 DEF Answers, Matches, Reorders
<1>4. CASE got /\ dir = "DELBA_RX" /\ ~r.reord
  <2>1. d = [r EXCEPT !.msg = "DELBA_RX", !.state = "DELBA_REQ_SENT_WITHOUT_REORDERING"]
    BY <1>4 DEF SendDelba
  <2>2. d \in RxRec /\ d.reord = r.reord /\ d.accept = r.accept
        /\ d.state = "DELBA_REQ_SENT_WITHOUT_REORDERING"
    BY <2>1 DEF RxRec, RxMsg, RxState
  <2> QED BY <1>4, <2>2 DEF Answers, Matches, Reorders
<1> QED BY <1>1, <1>2, <1>3, <1>4

\* An answer to a request enters the state of the answer.
LEMMA SendResFields ==
  ASSUME NEW r \in RxRec, NEW got \in BOOLEAN
  PROVE  /\ SendRes(r, got) \in RxRec /\ SendRes(r, got).reord = r.reord
         /\ Answers(r) => Answers(SendRes(r, got))
         /\ got /\ (r.reord <=> r.accept) => Matches(SendRes(r, got))
         /\ ~got => SendRes(r, got) = r
<1> DEFINE d == SendRes(r, got)
<1>1. CASE ~got
  BY <1>1 DEF SendRes
<1>2. CASE got /\ r.accept
  <2>1. d = [r EXCEPT !.msg = "ADDBA_RES", !.state = "POSITIVE_RES_SENT"]
    BY <1>2 DEF SendRes
  <2>2. d \in RxRec /\ d.reord = r.reord /\ d.state = "POSITIVE_RES_SENT" /\ d.accept = r.accept
    BY <2>1 DEF RxRec, RxMsg, RxState
  <2> QED BY <1>2, <2>2 DEF Answers, Matches, Reorders
<1>3. CASE got /\ ~r.accept
  <2>1. d = [r EXCEPT !.msg = "ADDBA_RES", !.state = "NEGATIVE_RES_SENT"]
    BY <1>3 DEF SendRes
  <2>2. d \in RxRec /\ d.reord = r.reord /\ d.state = "NEGATIVE_RES_SENT" /\ d.accept = r.accept
    BY <2>1 DEF RxRec, RxMsg, RxState
  <2> QED BY <1>3, <2>2 DEF Answers, Matches, Reorders
<1> QED BY <1>1, <1>2, <1>3

\* A request to close an aggregation keeps its reference.
LEMMA CloseAggrFields ==
  ASSUME NEW q \in TxRec, NEW got \in Get(q)
  PROVE  /\ CloseAggr(q, got) \in TxRec
         /\ HasRef(CloseAggr(q, got).state) = HasRef(q.state)
         /\ CloseAggr(q, got).state = "NONE" <=> q.state = "NONE"
         /\ CloseAggr(q, got).rejected = q.rejected
         /\ Expected(q) => Expected(CloseAggr(q, got))
<1> DEFINE d == CloseAggr(q, got)
<1>1. CASE q.state \in {"ADD_AGGR_REQ_SENT", "AGGR_OPENED"} /\ q.ts /\ got
  <2>1. d = [q EXCEPT !.msg = "CLOSE_AGGR", !.state = "DEL_AGGR_REQ_SENT"]
    BY <1>1 DEF CloseAggr
  <2>2. d \in TxRec /\ d.msg = "CLOSE_AGGR" /\ d.state = "DEL_AGGR_REQ_SENT"
        /\ d.rejected = q.rejected
    BY <2>1 DEF TxRec, TxMsg, TxState
  <2> QED BY <1>1, <2>2 DEF HasRef, Expected
<1>2. CASE ~(q.state \in {"ADD_AGGR_REQ_SENT", "AGGR_OPENED"} /\ q.ts /\ got)
  <2>1. d = q
    BY <1>2 DEF CloseAggr
  <2> QED BY <2>1
<1> QED BY <1>1, <1>2

\* Whether a message is got is a Boolean, and only a free one is.
LEMMA GetRange == ASSUME NEW q, NEW got \in Get(q) PROVE got \in BOOLEAN /\ (got => q.msg = "free")
  BY DEF Get

\* A revival is scheduled or refused.
LEMMA RevivalScheduled ==
  ASSUME Tids, NEW t \in Tid, ScheduleRevival(t)
  PROVE  /\ revive' \in [Tid -> 0 .. ReviveMax]
         /\ \A u \in Tid \ {t} : revive'[u] = revive[u]
         /\ revive'[t] \in {revive[t], revive[t] + 1}
<1>1. CASE UNCHANGED revive
  BY <1>1 DEF Tids
<1>2. CASE revive[t] < ReviveMax /\ revive' = [revive EXCEPT ![t] = @ + 1]
  BY <1>2, AddbaConstants DEF Tids
<1> QED BY <1>1, <1>2 DEF ScheduleRevival

\* The owner counts from the beginning.
LEMMA CountRestarted ==
  ASSUME Tids, NEW t \in Tid, NEW stop \in BOOLEAN, RestartTxCount(t, stop)
  PROVE  /\ inited' \in [Tid -> BOOLEAN] /\ inited'[t] = (inited[t] /\ ~stop)
         /\ \A u \in Tid \ {t} : inited'[u] = inited[u]
<1>1. (inited[t] /\ ~stop) \in BOOLEAN
  BY Zenon
<1> QED BY <1>1 DEF RestartTxCount, Tids

-----------------------------------------------------------------------------
(* The steps of the sending half. *)

\* The owner asks.
LEMMA UpdateTxStep == ASSUME BaInv, NEW t \in Tid, UpdateTx(t) PROVE BaInv'
<1>1. /\ baActive /\ ~inited[t]
      /\ inited' = [inited EXCEPT ![t] = TRUE] /\ ScheduleRevival(t)
      /\ UNCHANGED <<baOthers, baActive, baStop, baTx, baRx, aggrCur, reordCur, status>>
  BY DEF UpdateTx
<1>2. Tids
  BY DEF BaInv
<1>3. /\ inited' \in [Tid -> BOOLEAN] /\ inited'[t] = TRUE
      /\ \A u \in Tid \ {t} : inited'[u] = inited[u]
  BY <1>1, <1>2 DEF Tids
<1>4. /\ revive' \in [Tid -> 0 .. ReviveMax] /\ \A u \in Tid \ {t} : revive'[u] = revive[u]
      /\ revive'[t] \in {revive[t], revive[t] + 1}
  BY <1>1, <1>2, RevivalScheduled
<1>5. /\ baTx[t] \in TxRec /\ aggrCur \in Int /\ revive[t] \in Nat
      /\ OneCore => aggrCur <= AggrMax /\ Expected(baTx[t])
  BY <1>1, TidBefore
<1>6. SetTx(t, baTx[t])
  BY <1>1, <1>2 DEF SetTx, Tids
<1>7. aggrCur' = aggrCur - One(HasRef(baTx[t].state)) + One(HasRef(baTx[t].state))
  BY <1>1, <1>5, OneCancels
<1> QED BY <1>1, <1>3, <1>4, <1>5, <1>6, <1>7, TxStep

\* A task that changes the revivals only.
LEMMA RevivedInVain ==
  ASSUME BaInv, NEW t \in Tid, revive[t] > 0, revive' = [revive EXCEPT ![t] = @ - 1],
         UNCHANGED <<baOthers, baActive, baStop, baTx, baRx, aggrCur, reordCur, inited, status>>
  PROVE  BaInv'
<1>1. Tids /\ Teardown /\ Counters /\ (OneCore => Counted)
  BY DEF BaInv
<1>2. /\ revive' \in [Tid -> 0 .. ReviveMax] /\ revive'[t] = revive[t] - 1
      /\ \A u \in Tid \ {t} : revive'[u] = revive[u]
  BY <1>1, AddbaConstants DEF Tids
<1>3. Tids'
  BY <1>1, <1>2 DEF Tids
<1>4. Teardown' /\ Counters' /\ (OneCore => Counted')
  BY <1>1 DEF Teardown, Counters, Counted, Stopping, AggrHolders, ReordHolders
<1>5. \A u \in Tid \ {t} : TidInv(u)'
  BY <1>2, KeptTid DEF BaInv
<1>6. TidInv(t)'
  <2>1. TidInv(t) /\ revive[t] \in Nat
    BY TidBefore DEF BaInv
  <2>2. RxShape(t)' /\ (OneCore => StopShape(t)' /\ (~Stopping' => Expected(baTx[t])'))
    BY <2>1 DEF TidInv, RxShape, StopShape, AtStep, StopTid, Done, Stopping
  <2> QED BY <2>2 DEF TidInv
<1> QED BY <1>3, <1>4, <1>5, <1>6 DEF BaInv

\* The task of a revival asks the peer, notes its power save, or does nothing.
LEMMA ReviveStep == ASSUME BaInv, NEW t \in Tid, Revive(t) PROVE BaInv'
<1>1. /\ ~Stopping /\ revive[t] > 0 /\ revive' = [revive EXCEPT ![t] = @ - 1]
      /\ UNCHANGED <<baOthers, baActive, baStop, baRx, reordCur, inited, status>>
  BY DEF Revive
<1>2. Tids
  BY DEF BaInv
<1>3. /\ revive' \in [Tid -> 0 .. ReviveMax] /\ revive'[t] = revive[t] - 1
      /\ \A u \in Tid \ {t} : revive'[u] = revive[u]
      /\ inited' \in [Tid -> BOOLEAN]
  BY <1>1, <1>2, AddbaConstants DEF Tids
<1>4. /\ baTx[t] \in TxRec /\ aggrCur \in Int /\ revive[t] \in Nat
      /\ OneCore => aggrCur <= AggrMax
      /\ OneCore /\ baActive => Expected(baTx[t])
  BY TidBefore
<1>5. CASE UNCHANGED <<baTx, aggrCur>>
  BY <1>1, <1>5, RevivedInVain
<1>6. ASSUME baActive, baTx[t].state = "NONE",
             SetTx(t, [baTx[t] EXCEPT !.state = "STA_POWER_SAVE"]), UNCHANGED aggrCur
      PROVE  BaInv'
  <2> DEFINE q == [baTx[t] EXCEPT !.state = "STA_POWER_SAVE"]
  <2>1. q \in TxRec /\ q.state = "STA_POWER_SAVE" /\ q.msg = baTx[t].msg
        /\ q.rejected = baTx[t].rejected
    BY <1>4 DEF TxRec, TxState
  <2>2. SetTx(t, q)
    BY <1>6
  <2> HIDE DEF q
  <2>3. One(HasRef(baTx[t].state)) = 0 /\ One(HasRef(q.state)) = 0
    BY <1>6, <2>1 DEF One, HasRef
  <2>4. OneCore => baActive /\ Expected(q)
    BY <1>4, <1>6, <2>1 DEF Expected
  <2>6. aggrCur' = aggrCur - One(HasRef(baTx[t].state)) + One(HasRef(q.state))
    BY <1>4, <1>6, <2>3
  <2> QED BY <1>1, <1>3, <1>4, <1>6, <2>1, <2>2, <2>4, <2>6, TxStep
<1>7. ASSUME baActive, baTx[t].state = "NONE", CanRef(aggrCur, AggrMax), TRUE \in Get(baTx[t]),
             SetTx(t, [baTx[t] EXCEPT !.state = "ADDBA_REQ_SENT", !.msg = "ADDBA_REQ",
                                      !.dlgt = TRUE]),
             aggrCur' = aggrCur + 1
      PROVE  BaInv'
  <2> DEFINE q == [baTx[t] EXCEPT !.state = "ADDBA_REQ_SENT", !.msg = "ADDBA_REQ", !.dlgt = TRUE]
  <2>1. q \in TxRec /\ q.state = "ADDBA_REQ_SENT" /\ q.msg = "ADDBA_REQ"
        /\ q.rejected = baTx[t].rejected
    BY <1>4 DEF TxRec, TxState, TxMsg
  <2>2. SetTx(t, q)
    BY <1>7
  <2> HIDE DEF q
  <2>3. One(HasRef(baTx[t].state)) = 0 /\ One(HasRef(q.state)) = 1
    BY <1>7, <2>1 DEF One, HasRef
  <2>4. OneCore => baActive /\ Expected(q)
    BY <1>7, <2>1 DEF Expected
  <2>6. aggrCur' = aggrCur - One(HasRef(baTx[t].state)) + One(HasRef(q.state))
    BY <1>4, <1>7, <2>3
  <2>7. aggrCur' \in Int /\ aggrCur' <= AggrMax
    BY <1>4, <1>7, AddbaConstants DEF CanRef
  <2> QED BY <1>1, <1>3, <2>1, <2>2, <2>4, <2>6, <2>7, TxStep
<1>8. CASE baActive
  <2>1. PICK ps \in BOOLEAN : TxAddbaReq(t, ps)
    BY <1>8 DEF Revive
  <2> QED BY <1>5, <1>6, <1>7, <1>8, <2>1 DEF TxAddbaReq
<1>9. CASE ~baActive
  BY <1>5, <1>9 DEF Revive
<1> QED BY <1>8, <1>9

\* The end of power save mode.
LEMMA ExitPsStep == ASSUME BaInv, NEW t \in Tid, ExitPs(t) PROVE BaInv'
<1> DEFINE q == [baTx[t] EXCEPT !.state = "NONE"]
<1>1. /\ baActive /\ baTx[t].state = "STA_POWER_SAVE" /\ SetTx(t, q)
      /\ RestartTxCount(t, TRUE)
      /\ UNCHANGED <<baOthers, baActive, baStop, baRx, aggrCur, reordCur, revive, status>>
  BY DEF ExitPs
<1>2. Tids
  BY DEF BaInv
<1>3. /\ inited' \in [Tid -> BOOLEAN] /\ inited'[t] = (inited[t] /\ ~TRUE)
      /\ \A u \in Tid \ {t} : inited'[u] = inited[u]
      /\ revive' \in [Tid -> 0 .. ReviveMax]
  BY <1>1, <1>2, CountRestarted DEF Tids
<1>4. /\ baTx[t] \in TxRec /\ aggrCur \in Int /\ revive[t] \in Nat
      /\ OneCore => aggrCur <= AggrMax /\ Expected(baTx[t])
  BY <1>1, TidBefore
<1>5. q \in TxRec /\ q.state = "NONE" /\ q.msg = baTx[t].msg /\ q.rejected = baTx[t].rejected
  BY <1>4 DEF TxRec, TxState
<1> HIDE DEF q
<1>6. OneCore => baActive /\ Expected(q)
  BY <1>1, <1>4, <1>5 DEF Expected
<1>8. aggrCur' = aggrCur - One(HasRef(baTx[t].state)) + One(HasRef(q.state))
  BY <1>1, <1>4, <1>5 DEF One, HasRef
<1> QED BY <1>1, <1>3, <1>4, <1>5, <1>6, <1>8, TxStep

\* A confirmation finds a connected station, when the order is kept.
LEMMA ConfirmedActive ==
  ASSUME BaInv, NEW t \in Tid, Runs, baTx[t].msg # "free" \/ baRx[t].msg # "free"
  PROVE  OneCore => baActive
  BY TidBefore DEF Runs, OneCore

\* The confirmations of the request and of the opening.
LEMMA TxCfmStep ==
  ASSUME BaInv, NEW t \in Tid, OnAddbaReqCfm(t) \/ OnOpenAggrCfm(t) PROVE BaInv'
<1>1. Tids /\ baTx[t] \in TxRec
  BY TidBefore DEF BaInv
<1>2. /\ Runs /\ baTx[t].msg \in {"ADDBA_REQ", "OPEN_AGGR"}
      /\ UNCHANGED <<baOthers, baActive, baStop, baRx, aggrCur, reordCur, inited, revive, status>>
  BY DEF OnAddbaReqCfm, OnOpenAggrCfm
<1>3. PICK q \in TxRec :
        /\ SetTx(t, q) /\ q.msg = "free" /\ q.rejected = baTx[t].rejected
        /\ \/ baTx[t].msg = "ADDBA_REQ" /\ q.state = "ADDBA_REQ_CFMD"
           \/ baTx[t].msg = "OPEN_AGGR" /\ q.state = "AGGR_OPENED"
  <2>1. CASE OnAddbaReqCfm(t)
    <3> DEFINE q == [baTx[t] EXCEPT !.msg = "free", !.state = "ADDBA_REQ_CFMD"]
    <3>1. q \in TxRec /\ q.msg = "free" /\ q.rejected = baTx[t].rejected
          /\ q.state = "ADDBA_REQ_CFMD"
      BY <1>1 DEF TxRec, TxState, TxMsg
    <3> QED BY <2>1, <3>1 DEF OnAddbaReqCfm
  <2>2. CASE OnOpenAggrCfm(t)
    <3>1. PICK ok \in BOOLEAN :
            SetTx(t, [baTx[t] EXCEPT !.msg = "free", !.state = "AGGR_OPENED",
                                     !.ts = baTx[t].ts \/ ok])
      BY <2>2 DEF OnOpenAggrCfm
    <3> DEFINE b == baTx[t].ts \/ ok
               q == [baTx[t] EXCEPT !.msg = "free", !.state = "AGGR_OPENED", !.ts = b]
    <3>2. b \in BOOLEAN
      BY Zenon
    <3>3. SetTx(t, q)
      BY <3>1
    <3> HIDE DEF b
    <3>4. q \in TxRec /\ q.msg = "free" /\ q.rejected = baTx[t].rejected
          /\ q.state = "AGGR_OPENED"
      BY <1>1, <3>2 DEF TxRec, TxState, TxMsg
    <3> QED BY <2>2, <3>3, <3>4 DEF OnOpenAggrCfm
  <2> QED BY <2>1, <2>2
<1>4. OneCore => baActive
  BY <1>2, ConfirmedActive
<1>5. /\ aggrCur \in Int
      /\ OneCore => aggrCur <= AggrMax /\ Expected(baTx[t])
  BY <1>4, TidBefore
<1>7. aggrCur' = aggrCur /\ HasRef(q.state)
  BY <1>2, <1>3 DEF HasRef
<1>9. Expected(q)
  BY <1>3 DEF Expected
<1>10. inited' \in [Tid -> BOOLEAN] /\ revive' \in [Tid -> 0 .. ReviveMax]
  BY <1>1, <1>2 DEF Tids
<1> QED BY <1>2, <1>3, <1>4, <1>5, <1>7, <1>9, <1>10, TxStep

\* The state is reset and its reference given back.
LEMMA TxResetStep ==
  ASSUME BaInv, NEW t \in Tid, NEW q \in TxRec, SetTx(t, q), q.state = "NONE",
         aggrCur' = UnrefTx(t),
         UNCHANGED <<baActive, baStop, baOthers, baRx, reordCur, status>>,
         inited' \in [Tid -> BOOLEAN], revive' \in [Tid -> 0 .. ReviveMax],
         \A u \in Tid \ {t} : UNCHANGED <<inited[u], revive[u]>>,
         OneCore => baActive /\ q.msg \notin {"OPEN_AGGR", "CLOSE_AGGR"}
  PROVE  BaInv'
<1>1. aggrCur \in Int /\ (OneCore => aggrCur <= AggrMax)
  BY TidBefore
<1>2. One(HasRef(q.state)) = 0 /\ One(HasRef(baTx[t].state)) \in {0, 1}
  BY OneCancels DEF One, HasRef
<1>3. aggrCur' \in Int /\ (OneCore => aggrCur' <= AggrMax)
      /\ aggrCur' = aggrCur - One(HasRef(baTx[t].state)) + One(HasRef(q.state))
  BY <1>1, <1>2, AddbaConstants DEF UnrefTx
<1>4. OneCore => Expected(q)
  BY DEF Expected
<1> QED BY <1>3, <1>4, TxStep

\* The confirmation of the closing.
LEMMA CloseCfmStep == ASSUME BaInv, NEW t \in Tid, OnCloseAggrCfm(t) PROVE BaInv'
<1> DEFINE q == [ResetTx(baTx[t]) EXCEPT !.msg = "free"]
           stop == AggrOn(baTx[t].state)
<1>1. /\ Runs /\ baTx[t].msg = "CLOSE_AGGR" /\ SetTx(t, q) /\ aggrCur' = UnrefTx(t)
      /\ RestartTxCount(t, stop)
      /\ UNCHANGED <<baOthers, baActive, baStop, baRx, reordCur, revive, status>>
  BY DEF OnCloseAggrCfm
<1>2. Tids /\ baTx[t] \in TxRec
  BY TidBefore DEF BaInv
<1>3. q \in TxRec /\ q.state = "NONE" /\ q.msg = "free" /\ q.rejected = baTx[t].rejected
  BY <1>2, ResetTxFields DEF TxRec, TxMsg
<1>4. stop \in BOOLEAN
  BY DEF AggrOn
<1> HIDE DEF q
<1>5. /\ inited' \in [Tid -> BOOLEAN] /\ inited'[t] = (inited[t] /\ ~stop)
      /\ \A u \in Tid \ {t} : inited'[u] = inited[u]
      /\ revive' \in [Tid -> 0 .. ReviveMax]
  BY <1>1, <1>2, <1>4, CountRestarted DEF Tids
<1>6. OneCore => baActive
  BY <1>1, ConfirmedActive
<1>7. /\ OneCore => Expected(baTx[t])
  BY <1>6, TidBefore
<1> QED BY <1>1, <1>3, <1>5, <1>6, TxResetStep

\* A frame of the peer is heard by a connected station, when the order is kept.
LEMMA HeardActive == Hears /\ OneCore => baActive
  BY DEF Hears, OneCore

\* The number of rejections is cleared.
LEMMA RejectsInRange == 0 \in 0 .. MaxRejects - 1
  BY AddbaConstants

\* The answer of the peer.
LEMMA AddbaResRxStep == ASSUME BaInv, NEW t \in Tid, AddbaResRx(t) PROVE BaInv'
<1>1. /\ Hears /\ baTx[t].state \in {"ADDBA_REQ_SENT", "ADDBA_REQ_CFMD"}
      /\ UNCHANGED <<baOthers, baActive, baStop, baRx, reordCur, inited, status>>
  BY DEF AddbaResRx
<1>2. Tids /\ baTx[t] \in TxRec /\ aggrCur \in Int /\ revive[t] \in Nat
  BY TidBefore DEF BaInv
<1>3. OneCore => baActive
  BY <1>1, HeardActive
<1>4. /\ OneCore => aggrCur <= AggrMax /\ Expected(baTx[t])
  BY <1>3, TidBefore
<1>5. OneCore => baTx[t].msg \notin {"OPEN_AGGR", "CLOSE_AGGR"}
  BY <1>1, <1>4 DEF Expected
<1>6. inited' \in [Tid -> BOOLEAN]
  BY <1>1, <1>2 DEF Tids
<1>7. ASSUME NEW q \in TxRec, SetTx(t, q), UNCHANGED <<aggrCur, revive>>,
             q.rejected = baTx[t].rejected,
             \/ q.state = baTx[t].state /\ q.msg \in {baTx[t].msg, "held"}
             \/ q.state = "ADD_AGGR_REQ_SENT" /\ q.msg = "OPEN_AGGR"
      PROVE  BaInv'
  <2>1. revive' \in [Tid -> 0 .. ReviveMax]
    BY <1>2, <1>7 DEF Tids
  <2>2. OneCore => Expected(q)
    BY <1>4, <1>7 DEF Expected
  <2>3. HasRef(baTx[t].state) = HasRef(q.state)
    BY <1>1, <1>7 DEF HasRef
  <2>4. aggrCur' = aggrCur - One(HasRef(baTx[t].state)) + One(HasRef(q.state))
    BY <1>2, <1>7, <2>3, OneCancels
  <2> QED BY <1>1, <1>2, <1>3, <1>4, <1>6, <1>7, <2>1, <2>2, <2>4, TxStep
<1>8. ASSUME NEW got \in Get(baTx[t]), UNCHANGED <<aggrCur, revive>>,
             SetTx(t, IF got THEN [baTx[t] EXCEPT !.rejects = 0, !.msg = "OPEN_AGGR",
                                                  !.state = "ADD_AGGR_REQ_SENT"]
                             ELSE [baTx[t] EXCEPT !.rejects = 0])
      PROVE  BaInv'
  <2>1. CASE got
    <3> DEFINE q == [baTx[t] EXCEPT !.rejects = 0, !.msg = "OPEN_AGGR",
                                    !.state = "ADD_AGGR_REQ_SENT"]
    <3>1. q \in TxRec /\ q.rejected = baTx[t].rejected /\ q.state = "ADD_AGGR_REQ_SENT"
          /\ q.msg = "OPEN_AGGR"
      BY <1>2, RejectsInRange DEF TxRec, TxState, TxMsg
    <3>2. SetTx(t, q)
      BY <1>8, <2>1
    <3> QED BY <1>7, <1>8, <3>1, <3>2
  <2>2. CASE ~got
    <3> DEFINE q == [baTx[t] EXCEPT !.rejects = 0]
    <3>1. q \in TxRec /\ q.rejected = baTx[t].rejected /\ q.state = baTx[t].state
          /\ q.msg = baTx[t].msg
      BY <1>2, RejectsInRange DEF TxRec
    <3>2. SetTx(t, q)
      BY <1>8, <2>2
    <3> QED BY <1>7, <1>8, <3>1, <3>2
  <2> QED BY <2>1, <2>2
<1>9. ASSUME NEW got \in Get(baTx[t]), UNCHANGED <<aggrCur, revive>>,
             SetTx(t, [baTx[t] EXCEPT !.rejects = 0,
                                      !.msg = IF got THEN "held" ELSE baTx[t].msg])
      PROVE  BaInv'
  <2> DEFINE m == IF got THEN "held" ELSE baTx[t].msg
             q == [baTx[t] EXCEPT !.rejects = 0, !.msg = m]
  <2>1. m \in {baTx[t].msg, "held"} /\ m \in TxMsg
    BY <1>2 DEF TxRec, TxMsg
  <2>2. SetTx(t, q)
    BY <1>9
  <2> HIDE DEF m
  <2>3. q \in TxRec /\ q.rejected = baTx[t].rejected /\ q.state = baTx[t].state /\ q.msg = m
    BY <1>2, <2>1, RejectsInRange DEF TxRec
  <2> QED BY <1>7, <1>9, <2>1, <2>2, <2>3
<1>10. ASSUME baTx[t].rejects + 1 < MaxRejects,
              SetTx(t, [ResetTx(baTx[t]) EXCEPT !.rejects = @ + 1]), aggrCur' = UnrefTx(t),
              ScheduleRevival(t)
       PROVE  BaInv'
  <2> DEFINE n == ResetTx(baTx[t]).rejects + 1
             q == [ResetTx(baTx[t]) EXCEPT !.rejects = n]
  <2>1. n \in 0 .. MaxRejects - 1
    <3>1. baTx[t].rejects \in 0 .. MaxRejects - 1 /\ ResetTx(baTx[t]).rejects = baTx[t].rejects
      BY <1>2, ResetTxFields DEF TxRec
    <3> QED BY <1>10, <3>1, AddbaConstants
  <2>2. SetTx(t, q)
    BY <1>10
  <2> HIDE DEF n
  <2>3. q \in TxRec /\ q.state = "NONE" /\ q.msg = baTx[t].msg /\ q.rejected = baTx[t].rejected
    BY <1>2, <2>1, ResetTxFields DEF TxRec
  <2> HIDE DEF q
  <2>4. /\ revive' \in [Tid -> 0 .. ReviveMax] /\ \A u \in Tid \ {t} : revive'[u] = revive[u]
        /\ revive'[t] \in {revive[t], revive[t] + 1}
    BY <1>2, <1>10, RevivalScheduled
  <2> QED BY <1>1, <1>3, <1>5, <1>6, <1>10, <2>2, <2>3, <2>4, TxResetStep
<1>11. ASSUME SetTx(t, [ResetTx(baTx[t]) EXCEPT !.rejects = 0, !.rejected = TRUE]),
              aggrCur' = UnrefTx(t), UNCHANGED revive
       PROVE  BaInv'
  <2> DEFINE q == [ResetTx(baTx[t]) EXCEPT !.rejects = 0, !.rejected = TRUE]
  <2>1. q \in TxRec /\ q.state = "NONE" /\ q.msg = baTx[t].msg
    BY <1>2, RejectsInRange, ResetTxFields DEF TxRec
  <2>2. SetTx(t, q)
    BY <1>11
  <2> HIDE DEF q
  <2>3. revive' \in [Tid -> 0 .. ReviveMax]
    BY <1>2, <1>11 DEF Tids
  <2> QED BY <1>1, <1>3, <1>5, <1>6, <1>11, <2>1, <2>2, <2>3, TxResetStep
<1> QED BY <1>8, <1>9, <1>10, <1>11 DEF AddbaResRx

\* The timer gives up a request, or the time of a rejection is over.
LEMMA IterateTxStep == ASSUME BaInv, NEW t \in Tid, IterateTx(t) PROVE BaInv'
<1>1. /\ baActive /\ RestartTxCount(t, TRUE)
      /\ UNCHANGED <<baOthers, baActive, baStop, baRx, reordCur, revive, status>>
  BY DEF IterateTx
<1>2. Tids /\ baTx[t] \in TxRec /\ aggrCur \in Int /\ revive[t] \in Nat
  BY TidBefore DEF BaInv
<1>3. /\ OneCore => aggrCur <= AggrMax /\ Expected(baTx[t])
  BY <1>1, TidBefore
<1>4. /\ inited' \in [Tid -> BOOLEAN] /\ inited'[t] = (inited[t] /\ ~TRUE)
      /\ \A u \in Tid \ {t} : inited'[u] = inited[u]
      /\ revive' \in [Tid -> 0 .. ReviveMax]
  BY <1>1, <1>2, CountRestarted DEF Tids
<1>5. CASE /\ baTx[t].state = "ADDBA_REQ_CFMD"
           /\ SetTx(t, ResetTx(baTx[t])) /\ aggrCur' = UnrefTx(t)
  <2>1. /\ ResetTx(baTx[t]) \in TxRec /\ ResetTx(baTx[t]).state = "NONE"
        /\ ResetTx(baTx[t]).msg = baTx[t].msg /\ ResetTx(baTx[t]).rejected = baTx[t].rejected
    BY <1>2, ResetTxFields
  <2>2. OneCore => ResetTx(baTx[t]).msg \notin {"OPEN_AGGR", "CLOSE_AGGR"}
    BY <1>3, <1>5, <2>1 DEF Expected
  <2> QED BY <1>1, <1>4, <1>5, <2>1, <2>2, TxResetStep
<1>6. CASE /\ baTx[t].state = "NONE" /\ baTx[t].rejected
           /\ SetTx(t, [baTx[t] EXCEPT !.rejected = FALSE])
           /\ UNCHANGED aggrCur
  <2> DEFINE q == [baTx[t] EXCEPT !.rejected = FALSE]
  <2>1. q \in TxRec /\ q.state = "NONE" /\ q.msg = baTx[t].msg /\ q.rejected = FALSE
    BY <1>2, <1>6 DEF TxRec
  <2>2. SetTx(t, q)
    BY <1>6
  <2> HIDE DEF q
  <2>3. OneCore => Expected(q)
    BY <1>3, <1>6, <2>1 DEF Expected
  <2>5. aggrCur' = aggrCur - One(HasRef(baTx[t].state)) + One(HasRef(q.state))
    BY <1>2, <1>6, <2>1, OneCancels
  <2> QED BY <1>1, <1>2, <1>3, <1>4, <1>6, <2>1, <2>2, <2>3, <2>5, TxStep
<1> QED BY <1>5, <1>6 DEF IterateTx

-----------------------------------------------------------------------------
(* The steps of the receiving half. *)

\* The numbers of attempts stay within their limit.
LEMMA AttemptRange ==
  /\ 0 \in 0 .. MaxRetransmissions
  /\ \A n \in 0 .. MaxRetransmissions : Activate(n) \in 0 .. MaxRetransmissions
  /\ \A n \in 0 .. MaxRetransmissions :
       ~(n >= MaxRetransmissions) => n + 1 \in 0 .. MaxRetransmissions
  BY AddbaConstants DEF Activate

\* The confirmation of a frame adds at most a status for the serializer.
LEMMA StatusIndicated ==
  ASSUME Tids, NEW t \in Tid, Confirmed(t), baRx[t].msg # "free"
  PROVE  status' \in [Tid -> Seq(RxMsg \ {"free"})]
<1>1. baRx[t].msg \in RxMsg \ {"free"} /\ status[t] \in Seq(RxMsg \ {"free"})
  BY DEF Tids, RxRec
<1>2. Append(status[t], baRx[t].msg) \in Seq(RxMsg \ {"free"})
  BY <1>1
<1> QED BY <1>2 DEF Confirmed, Tids

\* The receiving half changes, but for its state and its reordering.
LEMMA RxKeptStep ==
  ASSUME BaInv, NEW t \in Tid, NEW r \in RxRec, SetRx(t, r),
         r.state = baRx[t].state, r.reord = baRx[t].reord, r.accept = baRx[t].accept,
         NEW n \in 0 .. MaxRetransmissions,
         UNCHANGED baTx \/ SetTx(t, [baTx[t] EXCEPT !.delba = n]),
         UNCHANGED <<baActive, baStop, baOthers, aggrCur, reordCur, inited, revive>>,
         status' \in [Tid -> Seq(RxMsg \ {"free"})],
         OneCore => baActive
  PROVE  BaInv'
<1>1. /\ Answers(baRx[t]) /\ reordCur \in Int
      /\ ~AtStep(t, {"cancel_rx", "reorder"}) => Matches(baRx[t])
      /\ OneCore => reordCur <= ReordMax
  BY TidBefore
<1>2. Answers(r) /\ (~AtStep(t, {"cancel_rx", "reorder"}) => Matches(r))
  BY <1>1 DEF Answers, Matches
<1>3. reordCur' = reordCur - One(baRx[t].reord) + One(r.reord)
  BY <1>1, OneCancels
<1> QED BY <1>1, <1>2, <1>3, RxStep

\* The confirmation of an answer to the peer.
LEMMA ResCfmStep == ASSUME BaInv, NEW t \in Tid, OnAddbaResCfm(t) PROVE BaInv'
<1> DEFINE n == Activate(baRx[t].res)
           r == [baRx[t] EXCEPT !.msg = "free", !.res = n]
<1>1. Runs /\ baRx[t].msg = "ADDBA_RES" /\ SetRx(t, r) /\ Confirmed(t) /\ UNCHANGED baTx
  BY DEF OnAddbaResCfm
<1>2. Tids /\ baRx[t] \in RxRec
  BY TidBefore DEF BaInv
<1>3. n \in 0 .. MaxRetransmissions
  BY <1>2, AttemptRange DEF RxRec
<1> HIDE DEF n
<1>4. r \in RxRec /\ r.state = baRx[t].state /\ r.reord = baRx[t].reord /\ r.accept = baRx[t].accept
  BY <1>2, <1>3 DEF RxRec, RxMsg
<1> HIDE DEF r
<1>5. status' \in [Tid -> Seq(RxMsg \ {"free"})]
  BY <1>1, <1>2, StatusIndicated
<1>6. OneCore => baActive
  BY <1>1, ConfirmedActive
<1>7. UNCHANGED <<baOthers, baActive, baStop, aggrCur, reordCur, inited, revive>>
  BY <1>1 DEF Confirmed
<1> QED BY <1>1, <1>3, <1>4, <1>5, <1>6, <1>7, RxKeptStep

\* The confirmation of a DELBA, of either direction.
LEMMA DelbaCfmStep == ASSUME BaInv, NEW t \in Tid, OnDelbaCfm(t) PROVE BaInv'
<1>1. Runs /\ Confirmed(t) /\ baRx[t].msg \in {"DELBA_RX", "DELBA_TX"}
  BY DEF OnDelbaCfm
<1>2. Tids /\ baRx[t] \in RxRec /\ baTx[t] \in TxRec
  BY TidBefore DEF BaInv
<1>3. status' \in [Tid -> Seq(RxMsg \ {"free"})]
  BY <1>1, <1>2, StatusIndicated
<1>4. OneCore => baActive
  BY <1>1, ConfirmedActive
<1>5. UNCHANGED <<baOthers, baActive, baStop, aggrCur, reordCur, inited, revive>>
  BY <1>1 DEF Confirmed
<1>6. CASE /\ SetRx(t, [baRx[t] EXCEPT !.msg = "free", !.delba = Activate(@)])
           /\ UNCHANGED baTx
  <2> DEFINE n == Activate(baRx[t].delba)
             r == [baRx[t] EXCEPT !.msg = "free", !.delba = n]
  <2>1. n \in 0 .. MaxRetransmissions
    BY <1>2, AttemptRange DEF RxRec
  <2>2. SetRx(t, r)
    BY <1>6
  <2> HIDE DEF n
  <2>3. r \in RxRec /\ r.state = baRx[t].state /\ r.reord = baRx[t].reord
        /\ r.accept = baRx[t].accept
    BY <1>2, <2>1 DEF RxRec, RxMsg
  <2> HIDE DEF r
  <2> QED BY <1>3, <1>4, <1>5, <1>6, <2>1, <2>2, <2>3, RxKeptStep
<1>7. CASE /\ SetRx(t, [baRx[t] EXCEPT !.msg = "free"])
           /\ SetTx(t, [baTx[t] EXCEPT !.delba = Activate(@)])
  <2> DEFINE n == Activate(baTx[t].delba)
             r == [baRx[t] EXCEPT !.msg = "free"]
  <2>1. n \in 0 .. MaxRetransmissions
    BY <1>2, AttemptRange DEF TxRec
  <2>2. SetRx(t, r) /\ SetTx(t, [baTx[t] EXCEPT !.delba = n])
    BY <1>7
  <2> HIDE DEF n
  <2>3. r \in RxRec /\ r.state = baRx[t].state /\ r.reord = baRx[t].reord
        /\ r.accept = baRx[t].accept
    BY <1>2 DEF RxRec, RxMsg
  <2> HIDE DEF r
  <2> QED BY <1>3, <1>4, <1>5, <2>1, <2>2, <2>3, RxKeptStep
<1> QED BY <1>6, <1>7 DEF OnDelbaCfm

\* What stays of the reference when the reordering of a TID ends.
LEMMA UnrefRxRange ==
  ASSUME BaInv, NEW t \in Tid
  PROVE  /\ UnrefRx(t) \in Int /\ UnrefRx(t) = reordCur - One(baRx[t].reord)
         /\ OneCore => UnrefRx(t) <= ReordMax
<1>1. reordCur \in Int /\ (OneCore => reordCur <= ReordMax)
  BY TidBefore
<1>2. One(baRx[t].reord) \in {0, 1}
  BY OneCancels
<1> QED BY <1>1, <1>2, AddbaConstants DEF UnrefRx

\* The peer ends a session.
LEMMA DelbaRxStep == ASSUME BaInv, NEW t \in Tid, DelbaRx(t) PROVE BaInv'
<1>1. Hears /\ UNCHANGED <<baOthers, baActive, baStop, aggrCur, inited, revive, status>>
  BY DEF DelbaRx
<1>2. Tids /\ baRx[t] \in RxRec /\ baTx[t] \in TxRec /\ aggrCur \in Int
  BY TidBefore DEF BaInv
<1>3. OneCore => baActive
  BY <1>1, HeardActive
<1>4. /\ inited' \in [Tid -> BOOLEAN] /\ revive' \in [Tid -> 0 .. ReviveMax]
      /\ status' \in [Tid -> Seq(RxMsg \ {"free"})]
  BY <1>1, <1>2 DEF Tids
<1>5. CASE /\ SetRx(t, ReorderingStop(baRx[t])) /\ reordCur' = UnrefRx(t)
           /\ UNCHANGED baTx
  <2> DEFINE r == ReorderingStop(baRx[t])
  <2>1. r \in RxRec /\ r.reord = FALSE /\ Answers(r) /\ Matches(r)
    BY <1>2, ResetRxFields
  <2>2. SetRx(t, r)
    BY <1>5
  <2> HIDE DEF r
  <2>3. /\ reordCur' \in Int /\ (OneCore => reordCur' <= ReordMax)
        /\ reordCur' = reordCur - One(baRx[t].reord) + One(r.reord)
    BY <1>5, <2>1, UnrefRxRange DEF One
  <2> QED BY <1>1, <1>3, <1>4, <1>5, <2>1, <2>2, <2>3, AttemptRange, RxStep
<1>6. CASE /\ \E got \in Get(baTx[t]) : SetTx(t, CloseAggr(baTx[t], got))
           /\ UNCHANGED <<baRx, reordCur>>
  <2>1. PICK got \in Get(baTx[t]) : SetTx(t, CloseAggr(baTx[t], got))
    BY <1>6
  <2> DEFINE q == CloseAggr(baTx[t], got)
  <2>2. /\ q \in TxRec /\ HasRef(q.state) = HasRef(baTx[t].state)
        /\ q.state = "NONE" <=> baTx[t].state = "NONE"
        /\ q.rejected = baTx[t].rejected /\ (Expected(baTx[t]) => Expected(q))
    BY <1>2, CloseAggrFields
  <2>3. SetTx(t, q)
    BY <2>1
  <2> HIDE DEF q
  <2>4. /\ OneCore => aggrCur <= AggrMax /\ Expected(baTx[t])
    BY <1>3, TidBefore
  <2>5. aggrCur' = aggrCur - One(HasRef(baTx[t].state)) + One(HasRef(q.state))
    BY <1>1, <1>2, <2>2, OneCancels
  <2> QED BY <1>1, <1>2, <1>3, <1>4, <1>6, <2>2, <2>3, <2>4, <2>5, TxStep
<1> QED BY <1>5, <1>6 DEF DelbaRx

\* The peer asks for a session; one that was going on ends first.
LEMMA AddbaReqRxStep == ASSUME BaInv, NEW t \in Tid, AddbaReqRx(t) PROVE BaInv'
<1> DEFINE start(a) == a /\ CanRef(UnrefRx(t), ReordMax)
           fresh(a) == [ReorderingStop(baRx[t]) EXCEPT !.accept = start(a), !.reord = start(a)]
           next(a, got) == IF got THEN SendRes(fresh(a), got) ELSE ReorderingStop(fresh(a))
<1>1. /\ Hears
      /\ UNCHANGED <<baOthers, baActive, baStop, baTx, aggrCur, inited, revive, status>>
  BY DEF AddbaReqRx
<1>2. PICK accept \in BOOLEAN, got \in Get(baRx[t]) :
        SetRx(t, next(accept, got)) /\ reordCur' = UnrefRx(t) + One(start(accept) /\ got)
  BY DEF AddbaReqRx
<1>3. PICK s \in BOOLEAN : s = start(accept)
  <2>1. start(accept) \in BOOLEAN
    BY Zenon
  <2> QED BY <2>1
<1>4. PICK f : f = [ReorderingStop(baRx[t]) EXCEPT !.accept = s, !.reord = s]
  OBVIOUS
<1>5. PICK r : r = IF got THEN SendRes(f, got) ELSE ReorderingStop(f)
  OBVIOUS
<1>6. SetRx(t, r) /\ reordCur' = UnrefRx(t) + One(s /\ got)
  BY <1>2, <1>3, <1>4, <1>5
<1>7. s => CanRef(UnrefRx(t), ReordMax)
  BY <1>3
<1> HIDE DEF start, fresh, next
<1>8. Tids /\ baRx[t] \in RxRec /\ got \in BOOLEAN
  BY TidBefore, GetRange DEF BaInv
<1>9. f \in RxRec /\ f.state = "NONE" /\ f.accept = s /\ f.reord = s
  BY <1>4, <1>8, ResetRxFields DEF RxRec
<1>10. r \in RxRec /\ Answers(r) /\ Matches(r) /\ r.reord = (s /\ got)
  <2>1. CASE got
    <3>1. r = SendRes(f, got)
      BY <1>5, <2>1
    <3>2. Answers(f)
      BY <1>9 DEF Answers
    <3> QED BY <1>8, <1>9, <2>1, <3>1, <3>2, SendResFields
  <2>2. CASE ~got
    <3>1. r = ReorderingStop(f)
      BY <1>5, <2>2
    <3> QED BY <1>9, <2>2, <3>1, ResetRxFields
  <2> QED BY <1>8, <2>1, <2>2
<1>11. /\ UnrefRx(t) \in Int /\ UnrefRx(t) = reordCur - One(baRx[t].reord)
       /\ OneCore => UnrefRx(t) <= ReordMax
  BY UnrefRxRange
<1>12. reordCur' = reordCur - One(baRx[t].reord) + One(r.reord)
  BY <1>6, <1>10, <1>11
<1>13. reordCur' \in Int /\ (OneCore => reordCur' <= ReordMax)
  BY <1>6, <1>7, <1>11, AddbaConstants DEF One, CanRef
<1>14. OneCore => baActive
  BY <1>1, HeardActive
<1>15. status' \in [Tid -> Seq(RxMsg \ {"free"})]
  BY <1>1, <1>8 DEF Tids
<1> QED BY <1>1, <1>6, <1>10, <1>12, <1>13, <1>14, <1>15, AttemptRange, RxStep

\* A DELBA is sent to the peer that sends without a session, or when the timer
\* ends one.
LEMMA DelbaSentStep ==
  ASSUME BaInv, NEW t \in Tid, DataWithoutReordering(t) \/ IterateRx(t) PROVE BaInv'
<1>1. /\ Hears
      /\ UNCHANGED <<baOthers, baActive, baStop, baTx, aggrCur, reordCur, inited, revive, status>>
  BY DEF DataWithoutReordering, IterateRx, Hears
<1>2. PICK got \in Get(baRx[t]) : SetRx(t, SendDelba(baRx[t], "DELBA_RX", got))
  BY DEF DataWithoutReordering, IterateRx
<1> DEFINE r == SendDelba(baRx[t], "DELBA_RX", got)
<1>3. /\ Tids /\ baRx[t] \in RxRec /\ got \in BOOLEAN /\ reordCur \in Int /\ Answers(baRx[t])
      /\ ~AtStep(t, {"cancel_rx", "reorder"}) => Matches(baRx[t])
      /\ OneCore => reordCur <= ReordMax
  BY TidBefore, GetRange DEF BaInv
<1>4. /\ r \in RxRec /\ r.reord = baRx[t].reord /\ Answers(r)
      /\ Matches(baRx[t]) => Matches(r)
  BY <1>3, SendDelbaFields
<1>5. SetRx(t, r)
  BY <1>2
<1> HIDE DEF r
<1>6. reordCur' = reordCur - One(baRx[t].reord) + One(r.reord)
  BY <1>1, <1>3, <1>4, OneCancels
<1>7. OneCore => baActive
  BY <1>1, HeardActive
<1>8. status' \in [Tid -> Seq(RxMsg \ {"free"})]
  BY <1>1, <1>3 DEF Tids
<1> QED BY <1>1, <1>3, <1>4, <1>5, <1>6, <1>7, <1>8, AttemptRange, RxStep

\* A request to stop sending aggregations.
LEMMA DelbaReqStep == ASSUME BaInv, NEW t \in Tid, DelbaReq(t) PROVE BaInv'
<1>1. /\ baActive
      /\ UNCHANGED <<baOthers, baActive, baStop, aggrCur, reordCur, inited, revive, status>>
  BY DEF DelbaReq
<1>2. PICK gotTx \in Get(baTx[t]) : SetTx(t, CloseAggr(baTx[t], gotTx))
  BY DEF DelbaReq
<1>3. PICK gotRx \in Get(baRx[t]) : SetRx(t, SendDelba(baRx[t], "DELBA_TX", gotRx))
  BY DEF DelbaReq
<1> DEFINE q == CloseAggr(baTx[t], gotTx)
           r == SendDelba(baRx[t], "DELBA_TX", gotRx)
<1>4. /\ Tids /\ baTx[t] \in TxRec /\ baRx[t] \in RxRec /\ gotRx \in BOOLEAN
      /\ aggrCur \in Int /\ reordCur \in Int /\ Answers(baRx[t]) /\ Matches(baRx[t])
      /\ OneCore => aggrCur <= AggrMax /\ reordCur <= ReordMax /\ Expected(baTx[t])
  BY <1>1, TidBefore, GetRange DEF BaInv
<1>5. r \in RxRec /\ r.reord = baRx[t].reord /\ Answers(r) /\ Matches(r)
  BY <1>4, SendDelbaFields
<1>6. /\ q \in TxRec /\ HasRef(q.state) = HasRef(baTx[t].state)
      /\ q.state = "NONE" <=> baTx[t].state = "NONE"
      /\ q.rejected = baTx[t].rejected /\ (Expected(baTx[t]) => Expected(q))
  BY <1>4, CloseAggrFields
<1>7. baTx' = [baTx EXCEPT ![t] = q] /\ baRx' = [baRx EXCEPT ![t] = r]
  BY <1>2, <1>3 DEF SetTx, SetRx
<1> HIDE DEF q, r
<1>8. /\ aggrCur' = aggrCur - One(HasRef(baTx[t].state)) + One(HasRef(q.state))
      /\ reordCur' = reordCur - One(baRx[t].reord) + One(r.reord)
  BY <1>1, <1>4, <1>5, <1>6, OneCancels
<1>10. /\ inited' \in [Tid -> BOOLEAN] /\ revive' \in [Tid -> 0 .. ReviveMax]
       /\ status' \in [Tid -> Seq(RxMsg \ {"free"})]
  BY <1>1, <1>4 DEF Tids
<1> QED BY <1>1, <1>4, <1>5, <1>6, <1>7, <1>8, <1>10, TidStep

\* What the status of a DELBA makes of the receiving half.
LEMMA RxDelbaStatusFields ==
  ASSUME NEW r \in RxRec, NEW ok \in BOOLEAN, NEW got \in BOOLEAN, Answers(r), Matches(r)
  PROVE  /\ RxDelbaStatus(r, ok, got) \in RxRec
         /\ Answers(RxDelbaStatus(r, ok, got)) /\ Matches(RxDelbaStatus(r, ok, got))
         /\ RxDelbaStatus(r, ok, got).reord => r.reord
<1> DEFINE d == RxDelbaStatus(r, ok, got)
           sent == {"DELBA_REQ_SENT", "DELBA_REQ_SENT_WITHOUT_REORDERING"}
<1>1. ASSUME d = ReorderingStop(r) PROVE d \in RxRec /\ Answers(d) /\ Matches(d) /\ (d.reord => r.reord)
  BY <1>1, ResetRxFields
<1>2. CASE ok /\ r.state = "DELBA_REQ_SENT"
  <2>1. d = ReorderingStop(r)
    BY <1>2 DEF RxDelbaStatus
  <2> QED BY <1>1, <2>1
<1>3. CASE r.state = "DELBA_REQ_SENT_WITHOUT_REORDERING"
  <2>1. d = ResetRx(r)
    BY <1>3 DEF RxDelbaStatus
  <2>2. ~r.reord
    BY <1>3 DEF Matches, Reorders
  <2>3. Matches(ResetRx(r))
    BY <2>2, ResetRxFields DEF Matches, Reorders
  <2> QED BY <2>1, <2>3, ResetRxFields
<1>4. CASE ok /\ r.state \notin sent
  <2>1. d = r
    BY <1>4 DEF RxDelbaStatus
  <2> QED BY <2>1
<1>5. CASE ~ok /\ r.state \notin sent
  <2>1. d = [r EXCEPT !.delba = 0]
    BY <1>5 DEF RxDelbaStatus
  <2>2. d \in RxRec /\ d.state = r.state /\ d.reord = r.reord /\ d.accept = r.accept
    BY <2>1, AttemptRange DEF RxRec
  <2> QED BY <2>2 DEF Answers, Matches
<1>6. CASE ~ok /\ r.state = "DELBA_REQ_SENT" /\ r.delba >= MaxRetransmissions
  <2>1. d = ReorderingStop(r)
    BY <1>6 DEF RxDelbaStatus
  <2> QED BY <1>1, <2>1
<1>7. CASE ~ok /\ r.state = "DELBA_REQ_SENT" /\ ~(r.delba >= MaxRetransmissions)
  <2> DEFINE n == r.delba + 1
             e == [r EXCEPT !.delba = n]
  <2>1. d = SendDelba(e, "DELBA_RX", got)
    BY <1>7 DEF RxDelbaStatus
  <2>2. n \in 0 .. MaxRetransmissions
    BY <1>7, AttemptRange DEF RxRec
  <2> HIDE DEF n
  <2>3. e \in RxRec /\ e.state = r.state /\ e.reord = r.reord /\ e.accept = r.accept
    BY <2>2 DEF RxRec
  <2> HIDE DEF e
  <2>4. Answers(e) /\ Matches(e)
    BY <2>3 DEF Answers, Matches
  <2>5. /\ SendDelba(e, "DELBA_RX", got) \in RxRec
        /\ SendDelba(e, "DELBA_RX", got).reord = e.reord
        /\ Answers(SendDelba(e, "DELBA_RX", got)) /\ Matches(SendDelba(e, "DELBA_RX", got))
    <3>1. "DELBA_RX" \in {"DELBA_RX", "DELBA_TX"}
      OBVIOUS
    <3> QED BY <2>3, <2>4, <3>1, SendDelbaFields, Zenon
  <2> QED BY <2>1, <2>3, <2>5, Zenon
<1> QED BY <1>2, <1>3, <1>4, <1>5, <1>6, <1>7

\* What the status of an answer makes of the receiving half.
LEMMA ResStatusFields ==
  ASSUME NEW r \in RxRec, NEW ok \in BOOLEAN, NEW got \in BOOLEAN, Answers(r), Matches(r)
  PROVE  /\ ResStatus(r, ok, got) \in RxRec
         /\ Answers(ResStatus(r, ok, got)) /\ Matches(ResStatus(r, ok, got))
         /\ ResStatus(r, ok, got).reord => r.reord
<1> DEFINE d == ResStatus(r, ok, got)
           answers == {"POSITIVE_RES_SENT", "NEGATIVE_RES_SENT"}
<1>1. CASE ok /\ r.state = "POSITIVE_RES_SENT"
  <2>1. d = [r EXCEPT !.state = "REORD_IN_PROCESS", !.res = 0]
    BY <1>1 DEF ResStatus
  <2>2. d \in RxRec /\ d.state = "REORD_IN_PROCESS" /\ d.reord = r.reord
    BY <2>1, AttemptRange DEF RxRec, RxState
  <2> QED BY <1>1, <2>2 DEF Answers, Matches, Reorders
<1>2. CASE ok /\ r.state = "NEGATIVE_RES_SENT"
  <2>1. d = ResetRx(r)
    BY <1>2 DEF ResStatus
  <2>2. ~r.reord
    BY <1>2 DEF Matches, Reorders
  <2>3. Matches(ResetRx(r))
    BY <2>2, ResetRxFields DEF Matches, Reorders
  <2> QED BY <2>1, <2>3, ResetRxFields
<1>3. CASE r.state \notin answers
  <2>1. d = [r EXCEPT !.res = 0]
    BY <1>3 DEF ResStatus
  <2>2. d \in RxRec /\ d.state = r.state /\ d.reord = r.reord /\ d.accept = r.accept
    BY <2>1, AttemptRange DEF RxRec
  <2> QED BY <2>2 DEF Answers, Matches
<1>4. CASE ~ok /\ r.state \in answers /\ r.res >= MaxRetransmissions
  <2>1. d = ReorderingStop(r)
    BY <1>4 DEF ResStatus
  <2> QED BY <2>1, ResetRxFields
<1>5. CASE ~ok /\ r.state \in answers /\ ~(r.res >= MaxRetransmissions)
  <2> DEFINE n == r.res + 1
             e == [r EXCEPT !.res = n]
  <2>1. d = SendRes(e, got)
    BY <1>5 DEF ResStatus
  <2>2. n \in 0 .. MaxRetransmissions
    BY <1>5, AttemptRange DEF RxRec
  <2> HIDE DEF n
  <2>3. e \in RxRec /\ e.state = r.state /\ e.reord = r.reord /\ e.accept = r.accept
    BY <2>2 DEF RxRec
  <2> HIDE DEF e
  <2>4. Answers(e) /\ Matches(e) /\ (e.reord <=> e.accept)
    BY <1>5, <2>3 DEF Answers, Matches, Reorders, RxRec
  <2> QED BY <2>1, <2>3, <2>4, SendResFields
<1> QED BY <1>1, <1>2, <1>3, <1>4, <1>5

\* The number of attempts to end what we send.
LEMMA TxDelbaAttemptRange ==
  ASSUME NEW q \in TxRec, NEW ok \in BOOLEAN
  PROVE  TxDelbaAttempt(q, ok) \in 0 .. MaxRetransmissions
<1>1. q.delba \in 0 .. MaxRetransmissions
  BY DEF TxRec
<1>2. CASE ok
  BY <1>1, <1>2 DEF TxDelbaAttempt
<1>3. CASE ~ok /\ q.state \notin {"NONE", "DEL_AGGR_REQ_SENT"}
  BY <1>3, AttemptRange DEF TxDelbaAttempt
<1>4. CASE ~ok /\ q.state \in {"NONE", "DEL_AGGR_REQ_SENT"}
  <2>1. TxDelbaAttempt(q, ok) = IF q.delba >= MaxRetransmissions THEN 0 ELSE q.delba + 1
    BY <1>4 DEF TxDelbaAttempt
  <2> QED BY <1>1, <2>1, AttemptRange
<1> QED BY <1>2, <1>3, <1>4

\* Nothing changes for a TID but its statuses, and the counters stay right.
LEMMA AsideStep ==
  ASSUME BaInv, UNCHANGED <<baActive, baStop, baTx, baRx, inited, revive>>,
         status' \in [Tid -> Seq(RxMsg \ {"free"})], Counters', OneCore => Counted'
  PROVE  BaInv'
<1>1. Tids'
  BY DEF BaInv, Tids
<1>2. Teardown'
  BY DEF BaInv, Teardown, Stopping
<1>3. \A u \in Tid : TidInv(u)'
  BY KeptTid DEF BaInv
<1> QED BY <1>1, <1>2, <1>3 DEF BaInv

\* The serializer takes a status.
LEMMA BaTxStatusStep == ASSUME BaInv, NEW t \in Tid, BaTxStatus(t) PROVE BaInv'
<1>1. /\ status[t] # <<>> /\ status' = [status EXCEPT ![t] = Tail(@)]
      /\ UNCHANGED <<baOthers, baActive, baStop, aggrCur, inited, revive>>
  BY DEF BaTxStatus
<1>2. /\ Tids /\ baRx[t] \in RxRec /\ baTx[t] \in TxRec /\ reordCur \in Int
      /\ Answers(baRx[t]) /\ (baActive => Matches(baRx[t]))
      /\ OneCore => reordCur <= ReordMax
  BY TidBefore DEF BaInv
<1>3. status' \in [Tid -> Seq(RxMsg \ {"free"})]
  <2>1. status[t] \in Seq(RxMsg \ {"free"}) /\ status \in [Tid -> Seq(RxMsg \ {"free"})]
    BY <1>2 DEF Tids
  <2>2. Tail(status[t]) \in Seq(RxMsg \ {"free"})
    BY <1>1, <2>1
  <2> QED BY <1>1, <2>1, <2>2
<1>4. CASE ~baActive /\ UNCHANGED <<baTx, baRx, reordCur>>
  <2>1. Counters' /\ (OneCore => Counted')
    BY <1>1, <1>4 DEF BaInv, Counters, Counted, AggrHolders, ReordHolders
  <2> QED BY <1>1, <1>3, <1>4, <2>1, AsideStep
<1>5. ASSUME baActive, NEW ok \in BOOLEAN, NEW got \in Get(baRx[t]),
             SetRx(t, IF Head(status[t]) = "DELBA_RX" THEN RxDelbaStatus(baRx[t], ok, got)
                                                      ELSE ResStatus(baRx[t], ok, got)),
             reordCur' = reordCur - One(baRx[t].reord /\ ~baRx'[t].reord), UNCHANGED baTx
      PROVE  BaInv'
  <2>1. PICK r : r = IF Head(status[t]) = "DELBA_RX" THEN RxDelbaStatus(baRx[t], ok, got)
                                                     ELSE ResStatus(baRx[t], ok, got)
    OBVIOUS
  <2>2. got \in BOOLEAN
    BY GetRange
  <2>3. r \in RxRec /\ Answers(r) /\ Matches(r) /\ (r.reord => baRx[t].reord)
    BY <1>2, <1>5, <2>1, <2>2, RxDelbaStatusFields, ResStatusFields
  <2>4. SetRx(t, r)
    BY <1>5, <2>1
  <2>5. baRx'[t] = r
    BY <1>2, <2>4 DEF SetRx, Tids
  <2>6. reordCur' = reordCur - One(baRx[t].reord) + One(r.reord)
    BY <1>2, <1>5, <2>3, <2>5 DEF One
  <2>7. reordCur' \in Int /\ (OneCore => reordCur' <= ReordMax)
    BY <1>2, <1>5, AddbaConstants DEF One
  <2> QED BY <1>1, <1>3, <1>5, <2>3, <2>4, <2>6, <2>7, AttemptRange, RxStep
<1>6. ASSUME baActive, NEW ok \in BOOLEAN, NEW got \in Get(baRx[t]), UNCHANGED reordCur,
             SetTx(t, [baTx[t] EXCEPT !.delba = TxDelbaAttempt(baTx[t], ok)]),
             SetRx(t, SendDelba(baRx[t], "DELBA_TX",
                                got /\ TxDelbaAttempt(baTx[t], ok) > baTx[t].delba))
      PROVE  BaInv'
  <2>1. PICK n \in 0 .. MaxRetransmissions : n = TxDelbaAttempt(baTx[t], ok)
    BY <1>2, TxDelbaAttemptRange
  <2>2. PICK send \in BOOLEAN : send = (got /\ n > baTx[t].delba)
    <3>1. (got /\ n > baTx[t].delba) \in BOOLEAN
      BY Zenon
    <3> QED BY <3>1
  <2> DEFINE r == SendDelba(baRx[t], "DELBA_TX", send)
  <2>3. SetRx(t, r) /\ SetTx(t, [baTx[t] EXCEPT !.delba = n])
    BY <1>6, <2>1, <2>2
  <2>4. r \in RxRec /\ r.reord = baRx[t].reord /\ Answers(r) /\ Matches(r)
    BY <1>2, <1>6, SendDelbaFields
  <2> HIDE DEF r
  <2>5. reordCur' = reordCur - One(baRx[t].reord) + One(r.reord)
    BY <1>2, <1>6, <2>4, OneCancels
  <2> QED BY <1>1, <1>2, <1>3, <1>6, <2>3, <2>4, <2>5, RxStep
<1> QED BY <1>4, <1>5, <1>6 DEF BaTxStatus

-----------------------------------------------------------------------------
(* The steps of the whole station. *)

\* Other stations take and return references.
LEMMA OtherStationsStep == ASSUME BaInv, OtherStations PROVE BaInv'
<1>1. UNCHANGED <<baActive, baStop, baTx, baRx, inited, revive, status>>
  BY DEF OtherStations
<1>2. /\ aggrCur \in Int /\ reordCur \in Int /\ baOthers \in [aggr : Nat, reord : Nat]
      /\ status' \in [Tid -> Seq(RxMsg \ {"free"})]
  BY <1>1 DEF BaInv, Counters, Tids
<1>3. Counters'
  <2>1. aggrCur' \in Int /\ reordCur' \in Int
    BY <1>2 DEF OtherStations
  <2>2. baOthers.aggr \in Nat /\ baOthers.reord \in Nat
    BY <1>2
  <2>3. \/ /\ baOthers' = [baOthers EXCEPT !.aggr = @ + 1]
        \/ /\ baOthers' = [baOthers EXCEPT !.aggr = @ - 1] /\ baOthers.aggr > 0
        \/ /\ baOthers' = [baOthers EXCEPT !.reord = @ + 1]
        \/ /\ baOthers' = [baOthers EXCEPT !.reord = @ - 1] /\ baOthers.reord > 0
    BY DEF OtherStations
  <2>4. baOthers' \in [aggr : Nat, reord : Nat]
    <3>1. CASE baOthers' = [baOthers EXCEPT !.aggr = @ + 1]
      BY <1>2, <2>2, <3>1
    <3>2. CASE baOthers' = [baOthers EXCEPT !.aggr = @ - 1] /\ baOthers.aggr > 0
      BY <1>2, <2>2, <3>2
    <3>3. CASE baOthers' = [baOthers EXCEPT !.reord = @ + 1]
      BY <1>2, <2>2, <3>3
    <3>4. CASE baOthers' = [baOthers EXCEPT !.reord = @ - 1] /\ baOthers.reord > 0
      BY <1>2, <2>2, <3>4
    <3> QED BY <2>3, <3>1, <3>2, <3>3, <3>4
  <2> QED BY <2>1, <2>4 DEF Counters
<1>4. ASSUME OneCore PROVE Counted'
  <2>1. Counted
    BY <1>4 DEF BaInv
  <2>2. AggrHolders' = AggrHolders /\ ReordHolders' = ReordHolders
    BY <1>1 DEF AggrHolders, ReordHolders
  <2>3. Cardinality(AggrHolders) \in Nat /\ Cardinality(ReordHolders) \in Nat
    BY HoldersFinite
  <2>4. /\ aggrCur' - aggrCur = baOthers'.aggr - baOthers.aggr
        /\ reordCur' - reordCur = baOthers'.reord - baOthers.reord
    BY <1>2 DEF OtherStations
  <2>5. aggrCur' <= AggrMax /\ reordCur' <= ReordMax
    <3>1. /\ \/ aggrCur' = aggrCur \/ aggrCur' = aggrCur - 1
             \/ aggrCur' = aggrCur + 1 /\ CanRef(aggrCur, AggrMax)
          /\ \/ reordCur' = reordCur \/ reordCur' = reordCur - 1
             \/ reordCur' = reordCur + 1 /\ CanRef(reordCur, ReordMax)
      BY DEF OtherStations
    <3> QED BY <1>2, <2>1, <3>1, AddbaConstants DEF Counted, CanRef
  <2>6. /\ aggrCur' \in Int /\ reordCur' \in Int
        /\ baOthers'.aggr \in Nat /\ baOthers'.reord \in Nat
        /\ baOthers.aggr \in Nat /\ baOthers.reord \in Nat
    BY <1>2, <1>3 DEF Counters
  <2>7. /\ aggrCur <= baOthers.aggr + Cardinality(AggrHolders)
        /\ reordCur = baOthers.reord + Cardinality(ReordHolders)
    BY <2>1 DEF Counted
  <2>8. /\ aggrCur' <= baOthers'.aggr + Cardinality(AggrHolders)
        /\ reordCur' = baOthers'.reord + Cardinality(ReordHolders)
    <3>1. \A c, d, o, p, n \in Int :
            d - c = p - o => (c <= o + n => d <= p + n) /\ (c = o + n => d = p + n)
      OBVIOUS
    <3>2. /\ aggrCur \in Int /\ aggrCur' \in Int /\ reordCur \in Int /\ reordCur' \in Int
          /\ baOthers.aggr \in Int /\ baOthers'.aggr \in Int
          /\ baOthers.reord \in Int /\ baOthers'.reord \in Int
          /\ Cardinality(AggrHolders) \in Int /\ Cardinality(ReordHolders) \in Int
      BY <1>2, <2>3, <2>6
    <3>3. aggrCur' <= baOthers'.aggr + Cardinality(AggrHolders)
      BY <2>4, <2>7, <3>1, <3>2
    <3>4. reordCur' = baOthers'.reord + Cardinality(ReordHolders)
      BY <2>4, <2>7, <3>1, <3>2
    <3> QED BY <3>3, <3>4
  <2> QED BY <2>2, <2>5, <2>8 DEF Counted
<1> QED BY <1>1, <1>2, <1>3, <1>4, AsideStep

\* A new entry.
LEMMA FreshRecords == FreshTx \in TxRec /\ FreshRx \in RxRec
  BY AttemptRange, RejectsInRange
     DEF FreshTx, FreshRx, TxRec, RxRec, TxState, TxMsg, RxState, RxMsg

\* The station connects; no reference is left over from its previous life.
LEMMA StaStartStep == ASSUME BaInv, StaStart PROVE BaInv'
<1>1. /\ ~baActive /\ ~Stopping
      /\ baActive' = TRUE
      /\ baTx' = [t \in Tid |-> FreshTx] /\ baRx' = [t \in Tid |-> FreshRx]
      /\ inited' = [t \in Tid |-> FALSE]
      /\ UNCHANGED <<baOthers, baStop, aggrCur, reordCur, revive, status>>
  BY DEF StaStart
<1>2. Tids /\ Teardown /\ Counters
  BY DEF BaInv
<1>3. Tids'
  BY <1>1, <1>2, FreshRecords DEF Tids
<1>4. Teardown' /\ Counters'
  BY <1>1, <1>2 DEF Teardown, Counters, Stopping
<1>5. ASSUME OneCore PROVE Counted'
  <2>1. \A t \in Tid : baTx[t].state = "NONE" /\ ~baRx[t].reord
    BY <1>1, <1>2, <1>5 DEF BaInv, TidInv, StopShape, Done, Teardown
  <2>2. \A t \in Tid : baTx'[t].state = "NONE" /\ ~baRx'[t].reord
    BY <1>1 DEF FreshTx, FreshRx
  <2>3. AggrHolders' = AggrHolders /\ ReordHolders' = ReordHolders
    BY <2>1, <2>2 DEF AggrHolders, ReordHolders, HasRef
  <2> QED BY <1>1, <1>5, <2>3 DEF BaInv, Counted
<1>6. ASSUME NEW t \in Tid PROVE TidInv(t)'
  <2>1. baTx'[t] = FreshTx /\ baRx'[t] = FreshRx /\ inited'[t] = FALSE
    BY <1>1
  <2>2. RxShape(t)'
    BY <2>1 DEF RxShape, FreshRx, Matches, Answers, Reorders
  <2>3. StopShape(t)'
    BY <1>1 DEF StopShape, Done, AtStep, Stopping
  <2>4. Expected(baTx'[t])
    BY <2>1 DEF Expected, FreshTx
  <2> QED BY <2>2, <2>3, <2>4 DEF TidInv
<1> QED BY <1>3, <1>4, <1>5, <1>6 DEF BaInv

\* The disconnection begins.
LEMMA StaStopStep == ASSUME BaInv, StaStop PROVE BaInv'
<1>1. /\ baActive /\ baActive' = FALSE
      /\ baStop' = [left |-> Tid, step |-> "tx", aggr |-> FALSE]
      /\ UNCHANGED <<baOthers, baTx, baRx, aggrCur, reordCur, inited, revive, status>>
  BY DEF StaStop
<1>2. Tids' /\ Counters' /\ (OneCore => Counted')
  BY <1>1 DEF BaInv, Tids, Counters, Counted, AggrHolders, ReordHolders
<1>3. Teardown'
  BY <1>1, AddbaConstants DEF Teardown, Stopping
<1>4. ASSUME NEW t \in Tid PROVE TidInv(t)'
  <2>1. Answers(baRx[t]) /\ Matches(baRx[t])
    BY <1>1, TidBefore
  <2>2. RxShape(t)'
    BY <1>1, <2>1 DEF RxShape
  <2>3. StopShape(t)'
    BY <1>1 DEF StopShape, Done, AtStep
  <2>4. Stopping' /\ ~baActive'
    BY <1>1 DEF Stopping
  <2> QED BY <2>2, <2>3, <2>4 DEF TidInv
<1> QED BY <1>2, <1>3, <1>4 DEF BaInv

\* The disconnection is at a TID it has not finished.
LEMMA StopTidLeft ==
  ASSUME BaInv, Stopping PROVE StopTid \in baStop.left /\ StopTid \in Tid /\ ~baActive
<1>1. baStop.left # {} /\ baStop.left \in SUBSET Tid /\ ~baActive
  BY DEF BaInv, Teardown
<1> QED BY <1>1 DEF StopTid

\* A section of the disconnection writes the halves q and r of a TID, and
\* section s is the next one.
Section(t, q, r, s, b) ==
  /\ baTx' = [baTx EXCEPT ![t] = q] /\ baRx' = [baRx EXCEPT ![t] = r]
  /\ baStop' = [baStop EXCEPT !.step = s, !.aggr = b]
  /\ UNCHANGED <<baActive, baOthers, revive, status>>
  /\ inited' \in [Tid -> BOOLEAN] /\ aggrCur' \in Int /\ reordCur' \in Int

\* The halves that it leaves behind are what section s expects.
SectionLeaves(t, q, r, s) ==
  /\ s \notin {"cancel_rx", "reorder"} => Matches(r)
  /\ Answers(r)
  /\ OneCore =>
       /\ q.state = "NONE" /\ (s # "cancel_tx" => q.msg = "free")
       /\ s \in {"cancel_rx", "reorder"} => r.state = "NONE"
       /\ s = "reorder" => r.msg = "free"
       /\ aggrCur' = aggrCur - One(HasRef(baTx[t].state)) + One(HasRef(q.state))
       /\ reordCur' = reordCur - One(baRx[t].reord) + One(r.reord)
       /\ aggrCur' <= AggrMax /\ reordCur' <= ReordMax

\* A section of the disconnection that is not the last of its TID.
LEMMA SectionStep ==
  ASSUME BaInv, Stopping, NEW t \in Tid, t = StopTid, NEW q \in TxRec, NEW r \in RxRec,
         NEW s \in {"cancel_tx", "rx", "cancel_rx", "reorder"}, NEW b \in BOOLEAN,
         Section(t, q, r, s, b), SectionLeaves(t, q, r, s)
  PROVE  BaInv'
<1> USE DEF Section, SectionLeaves
<1>1. Tids /\ Teardown /\ Counters /\ t \in baStop.left /\ ~baActive
  BY StopTidLeft DEF BaInv
<1>2. /\ baTx' \in [Tid -> TxRec] /\ baRx' \in [Tid -> RxRec]
      /\ baTx'[t] = q /\ baRx'[t] = r
      /\ \A u \in Tid \ {t} : UNCHANGED <<baTx[u], baRx[u]>>
  BY <1>1 DEF Tids
<1>3. /\ baStop' \in [left : SUBSET Tid, aggr : BOOLEAN,
                      step : {"idle", "tx", "cancel_tx", "rx", "cancel_rx", "reorder"}]
      /\ baStop'.left = baStop.left /\ baStop'.step = s
  BY <1>1 DEF Teardown
<1>4. Tids' /\ Counters'
  BY <1>1, <1>2 DEF Tids, Counters
<1>5. Teardown' /\ Stopping' /\ StopTid' = t
  BY <1>1, <1>3 DEF Teardown, Stopping, StopTid
<1>6. OneCore => Counted'
  BY <1>1, <1>2, CountedStep DEF BaInv
<1>7. ASSUME NEW u \in Tid \ {t} PROVE TidInv(u)'
  <2>1. \A sections : ~AtStep(u, sections) /\ ~AtStep(u, sections)'
    BY <1>5 DEF AtStep
  <2>2. Done(u)' <=> Done(u)
    BY <1>3 DEF Done
  <2>3. TidInv(u) /\ UNCHANGED <<baTx[u], baRx[u]>>
    BY <1>2 DEF BaInv
  <2>4. RxShape(u)'
    BY <2>1, <2>3 DEF TidInv, RxShape
  <2>5. OneCore => StopShape(u)'
    BY <2>1, <2>2, <2>3 DEF TidInv, StopShape
  <2> QED BY <1>1, <1>5, <2>4, <2>5 DEF TidInv
<1>8. TidInv(t)'
  <2>1. \A sections : AtStep(t, sections)' <=> s \in sections
    BY <1>3, <1>5 DEF AtStep
  <2>2. ~Done(t)'
    BY <1>1, <1>3 DEF Done
  <2>3. RxShape(t)'
    BY <1>2, <2>1 DEF RxShape
  <2>4. OneCore => StopShape(t)'
    BY <1>2, <2>1, <2>2 DEF StopShape
  <2> QED BY <1>1, <1>5, <2>3, <2>4 DEF TidInv
<1> QED BY <1>4, <1>5, <1>6, <1>7, <1>8 DEF BaInv

\* What a section of the disconnection finds.
LEMMA SectionBefore ==
  ASSUME BaInv, Stopping, NEW t, t = StopTid
  PROVE  /\ t \in Tid /\ t \in baStop.left /\ Tids /\ baTx[t] \in TxRec /\ baRx[t] \in RxRec
         /\ aggrCur \in Int /\ reordCur \in Int /\ Answers(baRx[t])
         /\ baStop.step \notin {"cancel_rx", "reorder"} => Matches(baRx[t])
         /\ OneCore =>
              /\ aggrCur <= AggrMax /\ reordCur <= ReordMax
              /\ baStop.step # "tx" => baTx[t].state = "NONE"
              /\ baStop.step \notin {"tx", "cancel_tx"} => baTx[t].msg = "free"
              /\ baStop.step \in {"cancel_rx", "reorder"} => baRx[t].state = "NONE"
              /\ baStop.step = "reorder" => baRx[t].msg = "free"
<1>1. t \in Tid /\ t \in baStop.left /\ Tids /\ Teardown /\ TidInv(t)
  BY StopTidLeft DEF BaInv
<1>2. \A sections : AtStep(t, sections) <=> baStop.step \in sections
  BY DEF AtStep
<1>3. /\ baTx[t] \in TxRec /\ baRx[t] \in RxRec /\ aggrCur \in Int /\ reordCur \in Int
      /\ Answers(baRx[t]) /\ (~AtStep(t, {"cancel_rx", "reorder"}) => Matches(baRx[t]))
      /\ OneCore => aggrCur <= AggrMax /\ reordCur <= ReordMax
  BY <1>1, TidBefore
<1>4. baStop.step \in {"tx", "cancel_tx", "rx", "cancel_rx", "reorder"}
  BY <1>1 DEF Teardown, Stopping
<1>5. OneCore => StopShape(t)
  BY <1>1 DEF TidInv
<1>6. OneCore =>
        /\ baStop.step # "tx" => baTx[t].state = "NONE"
        /\ baStop.step \notin {"tx", "cancel_tx"} => baTx[t].msg = "free"
        /\ baStop.step \in {"cancel_rx", "reorder"} => baRx[t].state = "NONE"
        /\ baStop.step = "reorder" => baRx[t].msg = "free"
  BY <1>2, <1>4, <1>5 DEF StopShape
<1> QED BY <1>1, <1>2, <1>3, <1>6

\* The sending half is reset.
LEMMA StopTxStep == ASSUME BaInv, StopTx PROVE BaInv'
<1>1. PICK t : t = StopTid
  OBVIOUS
<1> DEFINE q == ResetTx(baTx[t])
           b == AggrOn(baTx[t].state)
<1>2. /\ baStop.step = "tx" /\ SetTx(t, q) /\ aggrCur' = UnrefTx(t)
      /\ baStop' = [baStop EXCEPT !.step = "cancel_tx", !.aggr = b]
      /\ UNCHANGED <<baOthers, baActive, baRx, reordCur, inited, revive, status>>
  BY <1>1 DEF StopTx
<1>3. Stopping
  BY <1>2 DEF Stopping
<1>4. /\ t \in Tid /\ Tids /\ baTx[t] \in TxRec /\ baRx[t] \in RxRec
      /\ aggrCur \in Int /\ reordCur \in Int /\ Answers(baRx[t]) /\ Matches(baRx[t])
      /\ OneCore => aggrCur <= AggrMax /\ reordCur <= ReordMax
  BY <1>1, <1>2, <1>3, SectionBefore
<1>5. q \in TxRec /\ q.state = "NONE" /\ b \in BOOLEAN
  BY <1>4, ResetTxFields DEF AggrOn
<1> HIDE DEF q, b
<1>6. /\ baTx' = [baTx EXCEPT ![t] = q] /\ baRx' = [baRx EXCEPT ![t] = baRx[t]]
      /\ inited' \in [Tid -> BOOLEAN]
  BY <1>2, <1>4 DEF SetTx, Tids
<1>7. One(HasRef(q.state)) = 0 /\ One(HasRef(baTx[t].state)) \in {0, 1}
  BY <1>5, OneCancels DEF One, HasRef
<1>8. /\ aggrCur' = aggrCur - One(HasRef(baTx[t].state)) + One(HasRef(q.state))
      /\ aggrCur' \in Int /\ (OneCore => aggrCur' <= AggrMax)
  BY <1>2, <1>4, <1>7, AddbaConstants DEF UnrefTx
<1>9. reordCur' = reordCur - One(baRx[t].reord) + One(baRx[t].reord)
  BY <1>2, <1>4, OneCancels
<1>10. Section(t, q, baRx[t], "cancel_tx", b)
  BY <1>2, <1>4, <1>6, <1>8 DEF Section
<1>11. SectionLeaves(t, q, baRx[t], "cancel_tx")
  BY <1>2, <1>4, <1>5, <1>8, <1>9 DEF SectionLeaves
<1> QED BY <1>1, <1>3, <1>4, <1>5, <1>6, <1>10, <1>11, SectionStep

\* The message of the sending half is cancelled.
LEMMA StopCancelTxStep == ASSUME BaInv, StopCancelTx PROVE BaInv'
<1>1. PICK t : t = StopTid
  OBVIOUS
<1> DEFINE q == [baTx[t] EXCEPT !.msg = "free"]
<1>2. /\ baStop.step = "cancel_tx" /\ SetTx(t, q) /\ RestartTxCount(t, baStop.aggr)
      /\ baStop' = [baStop EXCEPT !.step = "rx", !.aggr = FALSE]
      /\ UNCHANGED <<baOthers, baActive, baRx, aggrCur, reordCur, revive, status>>
  BY <1>1 DEF StopCancelTx
<1>3. Stopping
  BY <1>2 DEF Stopping
<1>4. /\ t \in Tid /\ Tids /\ baTx[t] \in TxRec /\ baRx[t] \in RxRec
      /\ aggrCur \in Int /\ reordCur \in Int /\ Answers(baRx[t]) /\ Matches(baRx[t])
      /\ OneCore => aggrCur <= AggrMax /\ reordCur <= ReordMax /\ baTx[t].state = "NONE"
  BY <1>1, <1>2, <1>3, SectionBefore
<1>5. q \in TxRec /\ q.state = baTx[t].state /\ q.msg = "free"
  BY <1>4 DEF TxRec, TxMsg
<1> HIDE DEF q
<1>6. baStop.aggr \in BOOLEAN
  BY DEF BaInv, Teardown
<1>7. /\ baTx' = [baTx EXCEPT ![t] = q] /\ baRx' = [baRx EXCEPT ![t] = baRx[t]]
      /\ inited' \in [Tid -> BOOLEAN]
  BY <1>2, <1>4, <1>6, CountRestarted DEF SetTx, Tids
<1>8. /\ aggrCur' = aggrCur - One(HasRef(baTx[t].state)) + One(HasRef(q.state))
      /\ reordCur' = reordCur - One(baRx[t].reord) + One(baRx[t].reord)
  BY <1>2, <1>4, <1>5, OneCancels
<1>9. Section(t, q, baRx[t], "rx", FALSE)
  BY <1>2, <1>4, <1>7 DEF Section
<1>10. SectionLeaves(t, q, baRx[t], "rx")
  BY <1>2, <1>4, <1>5, <1>8 DEF SectionLeaves
<1> QED BY <1>1, <1>3, <1>4, <1>5, <1>9, <1>10, SectionStep

\* The receiving half is reset, then its message cancelled.
LEMMA StopRxStep == ASSUME BaInv, StopRx \/ StopCancelRx PROVE BaInv'
<1>1. PICK t : t = StopTid
  OBVIOUS
<1>2. /\ baStop.step \in {"rx", "cancel_rx"}
      /\ UNCHANGED <<baOthers, baActive, baTx, aggrCur, reordCur, inited, revive, status>>
  BY DEF StopRx, StopCancelRx
<1>3. Stopping
  BY <1>2 DEF Stopping
<1>4. /\ t \in Tid /\ Tids /\ baTx[t] \in TxRec /\ baRx[t] \in RxRec
      /\ aggrCur \in Int /\ reordCur \in Int /\ Answers(baRx[t])
      /\ OneCore => /\ aggrCur <= AggrMax /\ reordCur <= ReordMax
                    /\ baTx[t].state = "NONE" /\ baTx[t].msg = "free"
                    /\ baStop.step = "cancel_rx" => baRx[t].state = "NONE"
  BY <1>1, <1>2, <1>3, SectionBefore
<1>5. PICK r \in RxRec, s \in {"cancel_rx", "reorder"} :
        /\ SetRx(t, r) /\ baStop' = [baStop EXCEPT !.step = s]
        /\ r.reord = baRx[t].reord /\ Answers(r)
        /\ OneCore => r.state = "NONE" /\ (s = "reorder" => r.msg = "free")
  <2>1. CASE StopRx
    <3> DEFINE r == ResetRx(baRx[t])
    <3>1. r \in RxRec /\ r.state = "NONE" /\ r.reord = baRx[t].reord /\ Answers(r)
      BY <1>4, ResetRxFields
    <3>2. SetRx(t, r) /\ baStop' = [baStop EXCEPT !.step = "cancel_rx"]
      BY <1>1, <2>1 DEF StopRx
    <3> QED BY <3>1, <3>2
  <2>2. CASE StopCancelRx
    <3> DEFINE r == [baRx[t] EXCEPT !.msg = "free"]
    <3>1. /\ r \in RxRec /\ r.state = baRx[t].state /\ r.reord = baRx[t].reord
          /\ r.accept = baRx[t].accept /\ r.msg = "free"
      BY <1>4 DEF RxRec, RxMsg
    <3>2. Answers(r)
      BY <1>4, <3>1 DEF Answers
    <3>3. /\ baStop.step = "cancel_rx" /\ SetRx(t, r)
          /\ baStop' = [baStop EXCEPT !.step = "reorder"]
      BY <1>1, <2>2 DEF StopCancelRx
    <3> QED BY <1>4, <3>1, <3>2, <3>3
  <2> QED BY <2>1, <2>2
<1>6. baStop.aggr \in BOOLEAN /\ baStop' = [baStop EXCEPT !.step = s, !.aggr = baStop.aggr]
  BY <1>5 DEF BaInv, Teardown
<1>7. /\ baTx' = [baTx EXCEPT ![t] = baTx[t]] /\ baRx' = [baRx EXCEPT ![t] = r]
      /\ inited' \in [Tid -> BOOLEAN]
  BY <1>2, <1>4, <1>5 DEF SetRx, Tids
<1>8. /\ aggrCur' = aggrCur - One(HasRef(baTx[t].state)) + One(HasRef(baTx[t].state))
      /\ reordCur' = reordCur - One(baRx[t].reord) + One(r.reord)
  BY <1>2, <1>4, <1>5, OneCancels
<1>9. s \in {"cancel_tx", "rx", "cancel_rx", "reorder"}
  BY <1>5
<1>10. Section(t, baTx[t], r, s, baStop.aggr)
  BY <1>2, <1>4, <1>6, <1>7 DEF Section
<1>11. SectionLeaves(t, baTx[t], r, s)
  BY <1>2, <1>4, <1>5, <1>8 DEF SectionLeaves
<1> QED BY <1>1, <1>3, <1>4, <1>5, <1>6, <1>9, <1>10, <1>11, SectionStep

\* The reordering ends, and with it the disconnection of the TID.
LEMMA StopReorderStep == ASSUME BaInv, StopReorder PROVE BaInv'
<1>1. PICK t : t = StopTid
  OBVIOUS
<1> DEFINE q == [baTx[t] EXCEPT !.state = "NONE", !.dlgt = FALSE, !.rejects = 0]
           r == ReorderingStop(baRx[t])
<1>2. /\ baStop.step = "reorder" /\ SetTx(t, q) /\ SetRx(t, r) /\ reordCur' = UnrefRx(t)
      /\ baStop' = IF baStop.left = {t} THEN StopIdle
                   ELSE [left |-> baStop.left \ {t}, step |-> "tx", aggr |-> FALSE]
      /\ UNCHANGED <<baOthers, baActive, aggrCur, inited, revive, status>>
  BY <1>1 DEF StopReorder
<1>3. Stopping
  BY <1>2 DEF Stopping
<1>4. /\ t \in Tid /\ t \in baStop.left /\ Tids /\ baTx[t] \in TxRec /\ baRx[t] \in RxRec
      /\ aggrCur \in Int /\ reordCur \in Int
      /\ OneCore => /\ aggrCur <= AggrMax /\ reordCur <= ReordMax
                    /\ baTx[t].state = "NONE" /\ baTx[t].msg = "free"
                    /\ baRx[t].msg = "free"
  BY <1>1, <1>2, <1>3, SectionBefore
<1>5. /\ q \in TxRec /\ q.state = "NONE" /\ q.msg = baTx[t].msg
      /\ r \in RxRec /\ r.state = "NONE" /\ r.msg = baRx[t].msg /\ r.reord = FALSE
      /\ Answers(r) /\ Matches(r)
  BY <1>4, RejectsInRange, ResetRxFields DEF TxRec, TxState
<1> HIDE DEF q, r
<1>6. /\ baTx' \in [Tid -> TxRec] /\ baRx' \in [Tid -> RxRec] /\ baTx'[t] = q /\ baRx'[t] = r
      /\ \A u \in Tid \ {t} : UNCHANGED <<baTx[u], baRx[u]>>
  BY <1>2, <1>4, <1>5 DEF SetTx, SetRx, Tids
<1>7. baActive = FALSE /\ baActive' = FALSE /\ baStop.left \in SUBSET Tid
  BY <1>2, <1>3 DEF BaInv, Teardown
<1>8. /\ baStop' \in [left : SUBSET Tid, aggr : BOOLEAN,
                      step : {"idle", "tx", "cancel_tx", "rx", "cancel_rx", "reorder"}]
      /\ baStop'.left = baStop.left \ {t} /\ baStop'.step \in {"idle", "tx"}
      /\ baStop'.step = "idle" <=> baStop'.left = {}
  <2>1. CASE baStop.left = {t}
    BY <1>2, <2>1 DEF StopIdle
  <2>2. CASE baStop.left # {t}
    <3>1. baStop' = [left |-> baStop.left \ {t}, step |-> "tx", aggr |-> FALSE]
      BY <1>2, <2>2
    <3>2. baStop.left \ {t} # {}
      BY <1>4, <2>2
    <3> QED BY <1>7, <3>1, <3>2
  <2> QED BY <2>1, <2>2
<1>9. Teardown'
  BY <1>7, <1>8 DEF Teardown, Stopping
<1>10. /\ reordCur' \in Int /\ (OneCore => reordCur' <= ReordMax)
       /\ reordCur' = reordCur - One(baRx[t].reord) + One(r.reord)
  BY <1>2, <1>4, <1>5, UnrefRxRange DEF One
<1>11. Tids' /\ Counters'
  BY <1>2, <1>4, <1>6, <1>10 DEF BaInv, Tids, Counters
<1>12. ASSUME OneCore PROVE Counted'
  <2>1. aggrCur' = aggrCur - One(HasRef(baTx[t].state)) + One(HasRef(baTx'[t].state))
    BY <1>2, <1>4, <1>5, <1>6, <1>12, OneCancels
  <2>2. Counted /\ Counters
    BY <1>12 DEF BaInv
  <2> QED BY <1>2, <1>4, <1>6, <1>10, <1>12, <2>1, <2>2, CountedStep
<1>13. \A u, sections : "tx" \notin sections /\ "idle" \notin sections => ~AtStep(u, sections)'
  BY <1>8 DEF AtStep
<1>14. ASSUME NEW u \in Tid \ {t} PROVE TidInv(u)'
  <2>1. TidInv(u) /\ UNCHANGED <<baTx[u], baRx[u]>> /\ \A sections : ~AtStep(u, sections)
    BY <1>1, <1>6 DEF BaInv, AtStep
  <2>2. Done(u)' => Done(u)
    BY <1>7, <1>8 DEF Done
  <2>3. RxShape(u)'
    BY <2>1 DEF TidInv, RxShape
  <2>4. OneCore => StopShape(u)'
    BY <1>13, <2>1, <2>2 DEF TidInv, StopShape
  <2>5. OneCore /\ ~Stopping' => Expected(baTx'[u])
    <3>1. ~Stopping' => Done(u)'
      BY <1>7, <1>8 DEF Stopping, Done
    <3> QED BY <2>4, <3>1 DEF StopShape, Expected
  <2> QED BY <1>7, <2>3, <2>4, <2>5 DEF TidInv
<1>15. TidInv(t)'
  <2>1. RxShape(t)'
    BY <1>5, <1>6 DEF RxShape
  <2>2. OneCore => StopShape(t)'
    BY <1>4, <1>5, <1>6, <1>13 DEF StopShape
  <2>3. OneCore => Expected(baTx'[t])
    BY <1>4, <1>5, <1>6 DEF Expected
  <2> QED BY <1>7, <2>1, <2>2, <2>3 DEF TidInv
<1> QED BY <1>9, <1>11, <1>12, <1>14, <1>15 DEF BaInv

-----------------------------------------------------------------------------
(* The theorems. *)

\* The invariant holds at the start.
LEMMA BaInvInit == AddbaInit => BaInv
<1> SUFFICES ASSUME AddbaInit PROVE BaInv
  OBVIOUS
<1>1. Tids
  BY FreshRecords, AddbaConstants DEF AddbaInit, Tids
<1>2. Teardown /\ Counters
  <2>1. baActive = FALSE /\ baStop = StopIdle
    BY DEF AddbaInit
  <2>2. /\ StopIdle \in [left : SUBSET Tid, aggr : BOOLEAN,
                         step : {"idle", "tx", "cancel_tx", "rx", "cancel_rx", "reorder"}]
        /\ StopIdle.left = {} /\ StopIdle.step = "idle"
    BY DEF StopIdle
  <2>3. Teardown
    BY <2>1, <2>2 DEF Teardown, Stopping
  <2> QED BY <2>3 DEF AddbaInit, Counters
<1>3. \A t \in Tid : baTx[t] = FreshTx /\ baRx[t] = FreshRx /\ ~baActive
  BY DEF AddbaInit
<1>4. Counted
  <2>1. AggrHolders = {} /\ ReordHolders = {}
    BY <1>3 DEF AggrHolders, ReordHolders, HasRef, FreshTx, FreshRx
  <2>2. Cardinality({}) = 0
    BY FS_EmptySet
  <2> QED BY <2>1, <2>2, AddbaConstants DEF Counted, AddbaInit
<1>5. ASSUME NEW t \in Tid PROVE TidInv(t)
  <2>1. baTx[t] = FreshTx /\ baRx[t] = FreshRx /\ ~baActive /\ baStop.step = "idle"
    BY <1>3 DEF AddbaInit, StopIdle
  <2>2. RxShape(t)
    BY <2>1 DEF RxShape, FreshRx, Matches, Answers, Reorders
  <2>3. StopShape(t)
    BY <2>1 DEF StopShape, AtStep, FreshTx, FreshRx
  <2>4. Expected(baTx[t])
    BY <2>1 DEF Expected, FreshTx
  <2> QED BY <2>1, <2>2, <2>3, <2>4 DEF TidInv
<1> QED BY <1>1, <1>2, <1>4, <1>5 DEF BaInv

\* Every step keeps the invariant.
LEMMA BaInvNext == BaInv /\ [AddbaNext]_baVars => BaInv'
<1> SUFFICES ASSUME BaInv, [AddbaNext]_baVars PROVE BaInv'
  OBVIOUS
<1>1. CASE UNCHANGED baVars
  <2>1. status' \in [Tid -> Seq(RxMsg \ {"free"})]
    BY <1>1 DEF BaInv, Tids, baVars
  <2>2. Counters' /\ (OneCore => Counted')
    BY <1>1 DEF BaInv, Counters, Counted, AggrHolders, ReordHolders, baVars
  <2>3. UNCHANGED <<baActive, baStop, baTx, baRx, inited, revive>>
    BY <1>1 DEF baVars
  <2> QED BY <2>1, <2>2, <2>3, AsideStep
<1>2. CASE OtherStations
  BY <1>2, OtherStationsStep
<1>3. CASE StaStart \/ StaStop
  BY <1>3, StaStartStep, StaStopStep
<1>4. CASE StopTx \/ StopCancelTx
  BY <1>4, StopTxStep, StopCancelTxStep
<1>5. CASE StopRx \/ StopCancelRx \/ StopReorder
  BY <1>5, StopRxStep, StopReorderStep
<1>6. ASSUME NEW t \in Tid, UpdateTx(t) \/ Revive(t) \/ ExitPs(t) PROVE BaInv'
  BY <1>6, UpdateTxStep, ReviveStep, ExitPsStep
<1>7. ASSUME NEW t \in Tid, OnAddbaReqCfm(t) \/ OnOpenAggrCfm(t) \/ OnCloseAggrCfm(t) PROVE BaInv'
  BY <1>7, TxCfmStep, CloseCfmStep
<1>8. ASSUME NEW t \in Tid, OnAddbaResCfm(t) \/ OnDelbaCfm(t) PROVE BaInv'
  BY <1>8, ResCfmStep, DelbaCfmStep
<1>9. ASSUME NEW t \in Tid,
             AddbaResRx(t) \/ DelbaRx(t) \/ AddbaReqRx(t) \/ DataWithoutReordering(t)
      PROVE  BaInv'
  BY <1>9, AddbaResRxStep, DelbaRxStep, AddbaReqRxStep, DelbaSentStep
<1>10. ASSUME NEW t \in Tid, IterateTx(t) \/ IterateRx(t) \/ DelbaReq(t) \/ BaTxStatus(t)
       PROVE  BaInv'
  BY <1>10, IterateTxStep, DelbaSentStep, DelbaReqStep, BaTxStatusStep
<1> QED BY <1>1, <1>2, <1>3, <1>4, <1>5, <1>6, <1>7, <1>8, <1>9, <1>10 DEF AddbaNext

\* The invariant holds in every behaviour, for every set of faults.
THEOREM AddbaInvariant == AddbaSpec => []BaInv
  BY BaInvInit, BaInvNext, PTL DEF AddbaSpec

\* Every variable of the station and of its agreements keeps its type; the
\* numbers of rejections and of retransmissions stay within their limits.
THEOREM AddbaTypeCorrect == AddbaSpec => []AddbaTypeOK
<1>1. BaInv => AddbaTypeOK
  BY BaTypeParts DEF BaInv
<1> QED BY <1>1, AddbaInvariant, PTL

\* A TID reorders exactly in the states of an accepted session, whatever the
\* order of frames, confirmations, statuses and timeouts, on any number of CPUs
\* (_mtlk_addba_peer_reordering_start and _stop).
THEOREM BaAlwaysReordersInSession == AddbaSpec => []BaReorderingMatchesState
<1>1. BaInv => BaReorderingMatchesState
  <2> SUFFICES ASSUME BaInv, ~Stopping, NEW t \in Tid
               PROVE  baRx[t].reord <=> baRx[t].state \in Reorders
    BY DEF BaReorderingMatchesState, Reorders
  <2>1. ~AtStep(t, {"cancel_rx", "reorder"})
    BY DEF AtStep, Stopping
  <2> QED BY <2>1, TidBefore DEF Matches
<1> QED BY <1>1, AddbaInvariant, PTL

\* On one CPU no reference is leaked, whatever answer overtakes the confirmation of
\* its request and whatever revival meets the next station: the counter of
\* aggregations never exceeds its limit nor the references that are held, and
\* the counter of reorderings is exact.
THEOREM BaReferencesNeverLeak ==
  ASSUME OneCore PROVE AddbaSpec => []BaReferences
<1>1. BaInv => BaReferences
  <2> SUFFICES ASSUME BaInv PROVE BaReferences
    OBVIOUS
  <2>1. Counted /\ Counters
    BY DEF BaInv
  <2>2. Cardinality(AggrHolders) \in Nat /\ Cardinality(ReordHolders) \in Nat
    BY HoldersFinite
  <2>3. baOthers.aggr \in Nat /\ baOthers.reord \in Nat
    BY <2>1 DEF Counters
  <2>4. reordCur \in 0 .. ReordMax
    BY <2>1, <2>2, <2>3, AddbaConstants DEF Counted
  <2> QED BY <2>1, <2>4 DEF Counted, BaReferences, AggrHolders, ReordHolders
<1> QED BY <1>1, AddbaInvariant, PTL

\* On one CPU a confirmation of the firmware never overwrites a state it does not
\* belong to, although answers come before the confirmation and revivals are stale.
THEOREM BaAlwaysAgrees ==
  ASSUME OneCore PROVE AddbaSpec => []BaNegotiation
<1>1. BaInv => BaNegotiation
  <2>1. ASSUME BaInv, NEW t \in Tid, Runs PROVE Expected(baTx[t])
    <3>1. ~Stopping
      BY <2>1 DEF Runs, OneCore
    <3> QED BY <2>1, <3>1 DEF BaInv, TidInv
  <2> QED BY <2>1 DEF BaNegotiation, Expected
<1> QED BY <1>1, AddbaInvariant, PTL

-----------------------------------------------------------------------------
(***************************************************************************)
(* The reordering queue.                                                   *)
(***************************************************************************)

\* What the code relies on and never tests: the windows divide the space of
\* numbers and are no longer than the array.  A window and one number more are
\* less than that space.
Fits == RodLimit > 2 /\ \A w \in RodWin : RodLimit % w = 0 /\ w <= RodSlots

Queue == [used : BOOLEAN, count : 0 .. MaxWin, head : 0 .. RodLimit - 1, win : RodWin,
          slot : [Cell -> 0 .. PktMax \cup {NoPkt}]]

\* The window of q starts at the number a, and its packets are in their slots.
Window(q, a) ==
  /\ q.head = a % RodLimit
  /\ \A j \in Held(q) : q.slot[j] \in a .. a + q.win - 1 /\ j = q.slot[j] % q.win

Good(q, a) == q \in Queue /\ q.count = Cardinality(Held(q)) /\ Window(q, a)

\* s rises, from lo on and below hi.
Rising(s, lo, hi) ==
  /\ \A i \in 1 .. Len(s) : lo <= s[i] /\ s[i] < hi
  /\ \A i, j \in 1 .. Len(s) : i < j => s[i] < s[j]

\* The types, but for the place of the packets in the array.
RodTypes == rod \in Queue /\ rodAbs \in Nat /\ rodOut \in Seq(0 .. PktMax) /\ rodLast \in -1 .. PktMax

\* The inductive invariant.
RodInv ==
  /\ RodTypes /\ Good(rod, rodAbs)
  /\ ~rod.used => Held(rod) = {}
  /\ rod.used => /\ rod.slot[rod.head % rod.win] = NoPkt
                 /\ rodLast < rodAbs /\ \A i \in 1 .. Len(rodOut) : rodOut[i] < rodAbs
  /\ RodInOrder

-----------------------------------------------------------------------------
(***************************************************************************)
(* Constants and slots.                                                    *)
(***************************************************************************)

LEMMA WindowSizes ==
  /\ RodLimit \in Nat \ {0} /\ PktMax \in Nat
  /\ MaxWin \in RodWin /\ MaxWin \in Nat \ {0}
  /\ \A w \in RodWin : w \in Nat \ {0} /\ w <= MaxWin /\ w + w <= RodLimit
<1>1. \A w \in RodWin : w \in Nat \ {0} /\ w + w <= RodLimit
  BY RodConstants
<1>2. RodLimit \in Nat \ {0} /\ PktMax \in Nat
  <2>1. PICK w : w \in RodWin
    BY RodConstants
  <2> QED BY <1>1, <2>1, RodConstants
<1>3. \E w \in RodWin : \A x \in RodWin : x <= w
  <2>1. RodLimit \div 2 \in Nat /\ RodWin \subseteq 0 .. RodLimit \div 2 /\ RodWin # {}
    BY RodConstants
  <2> QED BY <2>1, GreatestNumber
<1>4. MaxWin \in RodWin /\ \A x \in RodWin : x <= MaxWin
  BY <1>3 DEF MaxWin
<1> QED BY <1>1, <1>2, <1>4

\* A set of slots of a window is finite and no larger than the window.
LEMMA SlotCount ==
  ASSUME NEW w \in Nat \ {0}, NEW H, H \subseteq 0 .. w - 1
  PROVE  IsFiniteSet(H) /\ Cardinality(H) \in Nat /\ Cardinality(H) <= w
<1>1. 0 \in Int /\ w - 1 \in Int /\ ~(0 > w - 1) /\ w - 1 - 0 + 1 = w
  OBVIOUS
<1>2. IsFiniteSet(0 .. w - 1)
      /\ Cardinality(0 .. w - 1) = IF 0 > w - 1 THEN 0 ELSE w - 1 - 0 + 1
  BY <1>1, FS_Interval
<1>3. Cardinality(0 .. w - 1) = w
  BY <1>1, <1>2
<1> QED BY <1>2, <1>3, FS_Subset, FS_CardinalityType

LEMMA QueueFacts ==
  ASSUME NEW q \in Queue
  PROVE  /\ q.win \in Nat \ {0} /\ q.win \in RodWin /\ q.win <= MaxWin /\ q.win + q.win <= RodLimit
         /\ q.head \in 0 .. RodLimit - 1 /\ q.count \in 0 .. MaxWin
         /\ q.slot \in [Cell -> 0 .. PktMax \cup {NoPkt}]
         /\ \A x \in Int : x % q.win \in Cell
         /\ \A j \in Held(q) : j \in Cell /\ q.slot[j] \in 0 .. PktMax
         /\ IsFiniteSet(Held(q))
<1>1. /\ q.win \in Nat \ {0} /\ q.win \in RodWin /\ q.win <= MaxWin /\ q.win + q.win <= RodLimit
      /\ q.head \in 0 .. RodLimit - 1 /\ q.count \in 0 .. MaxWin /\ MaxWin \in Nat
      /\ q.slot \in [Cell -> 0 .. PktMax \cup {NoPkt}]
  BY WindowSizes DEF Queue
<1>2. ASSUME NEW x \in Int PROVE x % q.win \in Cell
  <2>1. x % q.win \in 0 .. q.win - 1
    BY <1>1, DivMod
  <2> QED BY <1>1, <2>1, WindowSizes DEF Cell
<1>3. \A j \in Held(q) : j \in Cell /\ q.slot[j] \in 0 .. PktMax
  BY <1>1 DEF Held
<1>5. IsFiniteSet(Held(q))
  <2>1. Held(q) \subseteq 0 .. RodLimit - 1
    BY DEF Held, Cell
  <2> QED BY <2>1, SlotCount, WindowSizes
<1> QED BY <1>1, <1>2, <1>3, <1>5

\* The distance of the head from where it was.
LEMMA Distance ==
  ASSUME NEW a \in Nat, NEW n \in 0 .. RodLimit - 1
  PROVE  SeqDistance(a % RodLimit, (a + n) % RodLimit) = n
<1>1. RodLimit \in Nat \ {0}
  BY WindowSizes
<1>2. PICK h \in 0 .. RodLimit - 1 : h = a % RodLimit
  BY <1>1, DivMod
<1>3. a \in Int /\ n \in Int
  BY <1>1
<1>4. (a + n) % RodLimit = (h + n) % RodLimit
  <2>1. ((a % RodLimit) + n) % RodLimit = (a + n) % RodLimit
    BY <1>1, <1>3, ModAdd, Zenon
  <2> QED BY <1>2, <2>1, Zenon
<1>5. \A k \in 0 .. RodLimit : (h + k) % RodLimit = IF h + k < RodLimit THEN h + k ELSE h + k - RodLimit
  BY <1>1, Wraps
<1>6. (a + n) % RodLimit = IF h + n < RodLimit THEN h + n ELSE h + n - RodLimit
  BY <1>1, <1>4, <1>5
<1>7. ASSUME NEW x \in 0 .. 2 * RodLimit - 1
      PROVE  x % RodLimit = IF x < RodLimit THEN x ELSE x - RodLimit
  BY <1>1
<1>8. PICK g \in 0 .. RodLimit - 1 : g = (a + n) % RodLimit
  BY <1>1, <1>6
<1>9. g - h + RodLimit \in 0 .. 2 * RodLimit - 1
      /\ n = IF g - h + RodLimit < RodLimit THEN g - h + RodLimit ELSE g - h + RodLimit - RodLimit
  BY <1>1, <1>6, <1>8
<1>10. (g - h + RodLimit) % RodLimit = n
  <2>1. PICK x \in 0 .. 2 * RodLimit - 1 : x = g - h + RodLimit
    BY <1>9
  <2>2. x % RodLimit = IF x < RodLimit THEN x ELSE x - RodLimit
    BY <1>7
  <2>3. x % RodLimit = n
    BY <1>1, <1>9, <2>1, <2>2
  <2> QED BY <2>1, <2>3
<1> QED BY <1>2, <1>8, <1>10 DEF SeqDistance

-----------------------------------------------------------------------------
(***************************************************************************)
(* Moving the window.                                                      *)
(***************************************************************************)

\* The path of the head goes through the slots of the numbers from a on.  The
\* two ways of reducing the head agree, as the window divides the space.
LEMMA PathIs ==
  ASSUME Fits, NEW q, NEW a \in Nat, Good(q, a), NEW n \in Nat
  PROVE  /\ Path(q, n) = [i \in 1 .. n |-> (a + (i - 1)) % q.win]
         /\ FlushPath(q, n) = Path(q, n)
         /\ Len(Path(q, n)) = n
         /\ \A j : j \in OnPath(Path(q, n)) <=> \E i \in 0 .. n - 1 : j = (a + i) % q.win
         /\ \A i \in Nat : (q.head + i) % q.win = (a + i) % q.win
<1> DEFINE L == RodLimit
           w == q.win
<1>1. L \in Nat \ {0} /\ w \in Nat \ {0} /\ w \in RodWin /\ q.head \in 0 .. L - 1 /\ q.head = a % L
  BY WindowSizes, QueueFacts DEF Good, Window
<1>2. L % w = 0
  BY <1>1 DEF Fits
<1>3. \A x \in Int : (x % L) % w = x % w
  BY <1>1, <1>2, ModMod
<1>4. ASSUME NEW i \in Int PROVE (q.head + i) % w = (a + i) % w
  <2>1. q.head % w = a % w
    BY <1>1, <1>3
  <2>2. a \in Int /\ q.head \in Int
    BY <1>1
  <2>3. ((a % w) + i) % w = (a + i) % w /\ ((q.head % w) + i) % w = (q.head + i) % w
    <3> HIDE DEF w, L
    <3> QED BY <1>1, <2>2, ModAdd, Zenon
  <2> QED BY <2>1, <2>2, <2>3
<1>5. ASSUME NEW i \in 1 .. n
      PROVE  /\ q.head + i - 1 = q.head + (i - 1) /\ i - 1 \in Int /\ q.head + (i - 1) \in Int
  BY <1>1
<1> HIDE DEF L, w
<1>6. Path(q, n) = [i \in 1 .. n |-> (a + (i - 1)) % w]
  BY <1>4, <1>5 DEF Path, w
<1>7. FlushPath(q, n) = [i \in 1 .. n |-> (a + (i - 1)) % w]
  BY <1>3, <1>4, <1>5 DEF FlushPath, w, L
<1>8. Len(Path(q, n)) = n
  BY <1>6
<1>9. \A j : j \in OnPath(Path(q, n)) <=> \E i \in 0 .. n - 1 : j = (a + i) % w
  <2>1. OnPath(Path(q, n)) = {(a + (i - 1)) % w : i \in 1 .. n}
    BY <1>6, <1>8 DEF OnPath
  <2>2. \A i \in 1 .. n : i - 1 \in 0 .. n - 1
    OBVIOUS
  <2>3. \A i \in 0 .. n - 1 : i + 1 \in 1 .. n /\ (i + 1) - 1 = i
    OBVIOUS
  <2> QED BY <2>1, <2>2, <2>3
<1>10. \A i \in Nat : (q.head + i) % w = (a + i) % w
  BY <1>4
<1> QED BY <1>6, <1>7, <1>8, <1>9, <1>10 DEF w


\* Moved by n, the window starts n numbers later, and what was on the path is
\* gone.
LEMMA MovedGood ==
  ASSUME Fits, NEW q, NEW a \in Nat, Good(q, a), NEW n \in Nat
  PROVE  /\ Good(Moved(q, Path(q, n)), a + n)
         /\ Moved(q, Path(q, n)).win = q.win /\ Moved(q, Path(q, n)).used = q.used
         /\ Held(Moved(q, Path(q, n))) = Held(q) \ OnPath(Path(q, n))
         /\ \A j \in Cell : Moved(q, Path(q, n)).slot[j] =
                              IF j \in OnPath(Path(q, n)) THEN NoPkt ELSE q.slot[j]
<1> DEFINE m == Moved(q, Path(q, n))
           P == OnPath(Path(q, n))
           w == q.win
<1>1. /\ w \in Nat \ {0} /\ q.head \in 0 .. RodLimit - 1 /\ q.head = a % RodLimit
      /\ q.slot \in [Cell -> 0 .. PktMax \cup {NoPkt}]
      /\ IsFiniteSet(Held(q)) /\ q.count = Cardinality(Held(q))
      /\ \A j \in Held(q) : q.slot[j] \in a .. a + w - 1 /\ j = q.slot[j] % w
      /\ q \in Queue /\ RodLimit \in Nat \ {0} /\ MaxWin \in Nat
  BY WindowSizes, QueueFacts DEF Good, Window
<1>2. Len(Path(q, n)) = n /\ \A j : j \in P <=> \E i \in 0 .. n - 1 : j = (a + i) % w
  BY PathIs
<1>3. q = [used |-> q.used, count |-> q.count, head |-> q.head, win |-> q.win, slot |-> q.slot]
  BY <1>1 DEF Queue
<1> HIDE DEF P
<1>4. /\ m.used = q.used /\ m.win = w
      /\ m.slot = [j \in Cell |-> IF j \in P THEN NoPkt ELSE q.slot[j]]
      /\ m.count = q.count - Cardinality(Held(q) \cap P)
      /\ m.head = (q.head + n) % RodLimit
      /\ m = [used |-> m.used, count |-> m.count, head |-> m.head, win |-> m.win, slot |-> m.slot]
  <2> DEFINE t == [j \in Cell |-> IF j \in P THEN NoPkt ELSE q.slot[j]]
             c == q.count - Cardinality(Held(q) \cap P)
             h == (q.head + n) % RodLimit
  <2>1. m = [q EXCEPT !.slot = t, !.count = c, !.head = h]
    BY <1>2 DEF Moved, P
  <2> HIDE DEF t, c, h, m
  <2>2. m = [used |-> q.used, count |-> c, head |-> h, win |-> q.win, slot |-> t]
    BY <1>3, <2>1
  <2> QED BY <2>2 DEF t, c, h
<1> HIDE DEF m
<1>5. Held(m) = Held(q) \ P
  BY <1>1, <1>4 DEF Held
<1>6. m.count = Cardinality(Held(m)) /\ m.count \in 0 .. MaxWin
  <2>1. /\ IsFiniteSet(Held(q) \ P)
        /\ Cardinality(Held(q) \ P) = Cardinality(Held(q)) - Cardinality(Held(q) \cap P)
    BY <1>1, FS_Difference
  <2>2. m.count = Cardinality(Held(m))
    BY <1>1, <1>4, <1>5, <2>1
  <2>3. Cardinality(Held(m)) \in Nat /\ Cardinality(Held(m)) <= Cardinality(Held(q))
    <3>1. Held(m) \subseteq Held(q)
      BY <1>5
    <3> QED BY <1>1, <1>5, <2>1, <3>1, FS_Subset, FS_CardinalityType
  <2>4. Cardinality(Held(q)) \in 0 .. MaxWin
    BY <1>1 DEF Queue
  <2> QED BY <1>1, <2>2, <2>3, <2>4
<1>7. m.head = (a + n) % RodLimit /\ m.head \in 0 .. RodLimit - 1
  <2>1. a \in Int /\ n \in Int /\ a + n \in Int
    OBVIOUS
  <2>2. ((a % RodLimit) + n) % RodLimit = (a + n) % RodLimit
    BY <1>1, <2>1, ModAdd, Zenon
  <2>3. (a + n) % RodLimit \in 0 .. RodLimit - 1
    BY <1>1, <2>1, DivMod
  <2> QED BY <1>1, <1>4, <2>2, <2>3
<1>8. m \in Queue
  <2>1. m.slot \in [Cell -> 0 .. PktMax \cup {NoPkt}]
    BY <1>1, <1>4
  <2>2. m.used \in BOOLEAN /\ m.win \in RodWin
    BY <1>1, <1>4 DEF Queue
  <2> QED BY <1>4, <1>6, <1>7, <2>1, <2>2 DEF Queue
<1>9. ASSUME NEW j \in Held(m) PROVE m.slot[j] \in a + n .. a + n + w - 1 /\ j = m.slot[j] % w
  <2>1. j \in Cell /\ j \in Held(q) /\ j \notin P /\ m.slot[j] = q.slot[j]
    BY <1>4, <1>5 DEF Held
  <2>2. PICK p \in a .. a + w - 1 : p = q.slot[j] /\ j = p % w
    BY <1>1, <2>1
  <2>3. p >= a + n
    <3> SUFFICES ASSUME p < a + n PROVE FALSE
      BY <1>1
    <3>1. p - a \in 0 .. n - 1 /\ a + (p - a) = p
      BY <1>1
    <3>2. (a + (p - a)) % w \in P
      BY <1>2, <3>1
    <3> QED BY <2>1, <2>2, <3>1, <3>2
  <2> QED BY <1>1, <2>1, <2>2, <2>3
<1>10. Good(m, a + n)
  BY <1>4, <1>6, <1>7, <1>8, <1>9 DEF Good, Window
<1> QED BY <1>4, <1>5, <1>10 DEF m, P

\* Numbers of the window one round apart share their slot, others do not.
LEMMA SlotOf ==
  ASSUME Fits, NEW q, NEW a \in Nat, Good(q, a)
  PROVE  /\ \A j \in Held(q) : \E i \in 0 .. q.win - 1 : q.slot[j] = a + i /\ j = (a + i) % q.win
         /\ (a + q.win) % q.win = a % q.win
         /\ \A i \in 0 .. q.win - 1 : LET j == (a + i) % q.win
                                      IN j \in Cell /\ (j \in Held(q) => q.slot[j] = a + i)
<1>1. /\ q.win \in Nat \ {0} /\ \A x \in Int : x % q.win \in Cell
      /\ \A j \in Held(q) : q.slot[j] \in a .. a + q.win - 1 /\ j = q.slot[j] % q.win
  BY QueueFacts DEF Good, Window
<1>2. PICK w \in Nat \ {0} : w = q.win
  BY <1>1
<1>3. ASSUME NEW j \in Held(q)
      PROVE  \E i \in 0 .. w - 1 : q.slot[j] = a + i /\ j = (a + i) % w
  <2>1. PICK p \in a .. a + w - 1 : p = q.slot[j] /\ j = p % w
    BY <1>1, <1>2
  <2>2. p - a \in 0 .. w - 1 /\ a + (p - a) = p
    OBVIOUS
  <2> QED BY <2>1, <2>2
<1>4. (a + w) % w = a % w
  <2>1. a \in Int
    OBVIOUS
  <2> QED BY <2>1, ModPeriod
<1>5. ASSUME NEW i \in 0 .. w - 1, (a + i) % w \in Held(q) PROVE q.slot[(a + i) % w] = a + i
  <2>1. PICK k \in 0 .. w - 1 : q.slot[(a + i) % w] = a + k /\ (a + i) % w = (a + k) % w
    BY <1>3, <1>5
  <2>2. a + i \in Int /\ a + k \in Int /\ (a + i) - (a + k) < w /\ -w < (a + i) - (a + k)
    OBVIOUS
  <2>3. a + i = a + k
    BY <2>1, <2>2, ModSame, Zenon
  <2> QED BY <2>1, <2>3
<1>6. \A i \in 0 .. w - 1 : (a + i) % w \in Cell
  <2>1. \A i \in 0 .. w - 1 : a + i \in Int
    OBVIOUS
  <2> QED BY <1>1, <1>2, <2>1
<1> QED BY <1>2, <1>3, <1>4, <1>5, <1>6


\* retire_rod_queue stops at an empty slot, at most a window further.
LEMMA RunPathIs ==
  ASSUME Fits, NEW q, NEW a \in Nat, Good(q, a)
  PROVE  \E n \in 0 .. q.win : /\ RunPath(q) = Path(q, n)
                               /\ Moved(q, Path(q, n)).slot[(a + n) % q.win] = NoPkt
                               /\ n > 0 => \E j \in Held(q) : q.slot[j] = a + n - 1
<1> DEFINE Full(n) == \A i \in 0 .. n - 1 : q.slot[(q.head + i) % q.win] # NoPkt
           Ends(n) == Full(n) /\ (n = q.win \/ ~Full(n + 1))
<1>1. q.win \in Nat \ {0} /\ \A x \in Int : x % q.win \in Cell
  BY QueueFacts DEF Good
<1>2. \A i \in Nat : (q.head + i) % q.win = (a + i) % q.win
  BY PathIs
<1>3. \E n \in 0 .. q.win : Ends(n)
  <2> DEFINE T == {n \in 0 .. q.win : Full(n)}
  <2>1. T \subseteq 0 .. q.win /\ T # {} /\ q.win \in Nat
    <3>1. 0 \in T
      BY <1>1
    <3> QED BY <1>1, <3>1
  <2>2. PICK n \in T : \A m \in T : m <= n
    <3> HIDE DEF T
    <3> QED BY <2>1, GreatestNumber
  <2>3. n \in 0 .. q.win /\ Full(n)
    OBVIOUS
  <2> HIDE DEF Full
  <2>4. n = q.win \/ ~Full(n + 1)
    <3> SUFFICES ASSUME n # q.win, Full(n + 1) PROVE FALSE
      OBVIOUS
    <3>1. n + 1 \in 0 .. q.win
      BY <1>1, <2>3
    <3>2. n + 1 <= n
      BY <2>2, <3>1
    <3> QED BY <1>1, <2>3, <3>2
  <2> QED BY <2>3, <2>4
<1> DEFINE n == CHOOSE k \in 0 .. q.win : Ends(k)
<1>4. n \in 0 .. q.win /\ Ends(n)
  <2> HIDE DEF Ends
  <2> QED BY <1>3
<1>5. RunPath(q) = Path(q, n)
  BY DEF RunPath
<1> HIDE DEF n
<1>6. \A j \in Cell : Moved(q, Path(q, n)).slot[j] =
                        IF j \in OnPath(Path(q, n)) THEN NoPkt ELSE q.slot[j]
  BY <1>1, <1>4, MovedGood
<1>7. n \in Nat /\ a + n \in Int
  BY <1>1, <1>4
<1>10. ASSUME n > 0 PROVE \E j \in Held(q) : q.slot[j] = a + n - 1
  <2>1. PICK i \in 0 .. q.win - 1 : i = n - 1
    BY <1>1, <1>4, <1>10
  <2>2. q.slot[(q.head + i) % q.win] # NoPkt
    BY <1>4, <1>7, <2>1
  <2>3. (q.head + i) % q.win = (a + i) % q.win /\ a + i \in Int
    BY <1>2
  <2>4. (a + i) % q.win \in Held(q)
    BY <1>1, <2>2, <2>3 DEF Held
  <2>5. q.slot[(a + i) % q.win] = a + i
    BY <2>4, SlotOf
  <2>6. a + i = a + n - 1
    BY <1>7, <2>1
  <2> QED BY <2>4, <2>5, <2>6
<1>8. CASE n = q.win
  <2>1. (a + n) % q.win = a % q.win
    BY <1>8, SlotOf
  <2>2. 0 \in 0 .. n - 1 /\ a + 0 = a
    BY <1>1, <1>8
  <2>3. (a + n) % q.win \in OnPath(Path(q, n))
    BY <1>7, <2>1, <2>2, PathIs
  <2>4. (a + n) % q.win \in Cell
    BY <1>1, <1>7
  <2> QED BY <1>4, <1>5, <1>6, <1>10, <2>3, <2>4
<1>9. CASE n # q.win
  <2>1. PICK i \in 0 .. (n + 1) - 1 : q.slot[(q.head + i) % q.win] = NoPkt
    BY <1>4, <1>9
  <2>2. i = n
    <3> SUFFICES ASSUME i # n PROVE FALSE
      OBVIOUS
    <3>1. i \in 0 .. n - 1
      BY <1>7
    <3> QED BY <1>4, <2>1, <3>1
  <2>3. q.slot[(a + n) % q.win] = NoPkt
    BY <1>2, <1>7, <2>1, <2>2
  <2>4. (a + n) % q.win \in Cell
    BY <1>1, <1>7
  <2> QED BY <1>4, <1>5, <1>6, <1>10, <2>3, <2>4
<1> QED BY <1>8, <1>9

\* mtlk_flush_rod_queue ends, at most a window further, with all slots empty.
LEMMA EmptyingIs ==
  ASSUME Fits, NEW q, NEW a \in Nat, Good(q, a)
  PROVE  \E n \in 0 .. q.win : /\ EmptyingPath(q) = Path(q, n)
                               /\ Held(Moved(q, Path(q, n))) = {}
<1> DEFINE Taken(n) == Cardinality(Held(q) \cap OnPath(FlushPath(q, n)))
           Ends(n) == Taken(n) = q.count /\ \A m \in 0 .. n - 1 : Taken(m) < q.count
<1>1. q.win \in Nat \ {0} /\ q.win + q.win <= RodLimit /\ RodLimit \in Nat \ {0}
      /\ IsFiniteSet(Held(q)) /\ q.count = Cardinality(Held(q)) /\ q.count \in Nat
  BY QueueFacts, WindowSizes DEF Good
<1>2. \A n \in Nat : FlushPath(q, n) = Path(q, n)
  BY PathIs
<1>3. Taken(q.win) = q.count
  <2>1. Held(q) \subseteq OnPath(Path(q, q.win))
    <3> SUFFICES ASSUME NEW j \in Held(q) PROVE j \in OnPath(Path(q, q.win))
      OBVIOUS
    <3>1. \E i \in 0 .. q.win - 1 : j = (a + i) % q.win
      BY SlotOf
    <3> QED BY <1>1, <3>1, PathIs
  <2>2. Held(q) \cap OnPath(FlushPath(q, q.win)) = Held(q)
    BY <1>1, <1>2, <2>1
  <2> QED BY <1>1, <2>2
<1>4. \A n \in Nat : Taken(n) \in Nat /\ Taken(n) <= q.count
  <2> SUFFICES ASSUME NEW n \in Nat PROVE Taken(n) \in Nat /\ Taken(n) <= q.count
    OBVIOUS
  <2>1. Held(q) \cap OnPath(FlushPath(q, n)) \subseteq Held(q)
    OBVIOUS
  <2> QED BY <1>1, <2>1, FS_Subset, FS_CardinalityType
<1> HIDE DEF Taken
<1>5. \E n \in 0 .. RodLimit : Ends(n)
  <2> DEFINE T == {n \in Nat : Taken(n) = q.count}
  <2>1. T \subseteq Nat /\ T # {}
    BY <1>1, <1>3
  <2>2. PICK n \in T : \A m \in T : n <= m
    <3> HIDE DEF T
    <3> QED BY <2>1, LeastNumber
  <2>3. n \in 0 .. RodLimit
    BY <1>1, <1>3, <2>2
  <2>4. ASSUME NEW m \in 0 .. n - 1 PROVE Taken(m) < q.count
    <3>1. m \in Nat /\ ~(n <= m)
      BY <2>3
    <3>2. Taken(m) # q.count
      BY <2>2, <3>1
    <3> QED BY <1>1, <1>4, <3>1, <3>2
  <2> QED BY <2>3, <2>4
<1> DEFINE n == CHOOSE k \in 0 .. RodLimit : Ends(k)
<1>6. n \in 0 .. RodLimit /\ Ends(n)
  <2> HIDE DEF Ends
  <2> QED BY <1>5
<1>7. EmptyingPath(q) = FlushPath(q, n)
  BY DEF EmptyingPath, Taken
<1> HIDE DEF n
<1>8. n \in 0 .. q.win
  <2> SUFFICES ASSUME n > q.win PROVE FALSE
    BY <1>1, <1>6
  <2>1. q.win \in 0 .. n - 1
    BY <1>1, <1>6
  <2>2. Taken(q.win) < q.count
    BY <1>6, <2>1
  <2> QED BY <1>1, <1>3, <2>2
<1>9. EmptyingPath(q) = Path(q, n) /\ n \in Nat
  BY <1>1, <1>2, <1>7, <1>8
<1>10. Held(q) \subseteq OnPath(Path(q, n))
  <2>1. Cardinality(Held(q) \cap OnPath(Path(q, n))) = Cardinality(Held(q))
    BY <1>1, <1>2, <1>6, <1>9 DEF Taken
  <2>2. Held(q) \cap OnPath(Path(q, n)) \subseteq Held(q)
    OBVIOUS
  <2>3. Held(q) = Held(q) \cap OnPath(Path(q, n))
    BY <1>1, <2>1, <2>2, FS_Subset
  <2> QED BY <2>3
<1>11. Held(Moved(q, Path(q, n))) = {}
  BY <1>9, <1>10, MovedGood
<1> QED BY <1>8, <1>9, <1>11

\* What goes up on a path of n slots rises, from the number at the head on and
\* below the new one.
LEMMA SentUpIs ==
  ASSUME Fits, NEW q, NEW a \in Nat, Good(q, a), NEW n \in Nat
  PROVE  SentUp(q, Path(q, n)) \in Seq(0 .. PktMax) /\ Rising(SentUp(q, Path(q, n)), a, a + n)
<1> DEFINE path == Path(q, n)
           St == Seq(0 .. PktMax)
           Skips(i) == q.slot[path[i]] = NoPkt \/ \E j \in 1 .. i - 1 : path[j] = path[i]
           Eq(u) == u = [i \in 0 .. Len(path) |->
                           IF i = 0 THEN <<>>
                           ELSE IF Skips(i) THEN u[i - 1] ELSE Append(u[i - 1], q.slot[path[i]])]
           g == [z \in Nat \X St |-> IF z[1] \in 1 .. n /\ ~Skips(z[1])
                                       THEN Append(z[2], q.slot[path[z[1]]]) ELSE z[2]]
<1>1. /\ q.win \in Nat \ {0} /\ \A x \in Int : x % q.win \in Cell
      /\ \A j \in Held(q) : q.slot[j] \in 0 .. PktMax
  BY QueueFacts DEF Good
<1>2. Len(path) = n /\ path = [i \in 1 .. n |-> (a + (i - 1)) % q.win]
  BY PathIs
<1>3. ASSUME NEW i \in 1 .. n
      PROVE  /\ path[i] = (a + (i - 1)) % q.win /\ path[i] \in Cell
             /\ ~Skips(i) => path[i] \in Held(q) /\ q.slot[path[i]] \in 0 .. PktMax
  <2>1. a + (i - 1) \in Int
    OBVIOUS
  <2>2. path[i] = (a + (i - 1)) % q.win
    <3> HIDE DEF path
    <3> QED BY <1>2
  <2> HIDE DEF path
  <2>3. path[i] \in Cell
    BY <1>1, <2>1, <2>2
  <2> QED BY <1>1, <2>2, <2>3 DEF Held
<1> HIDE DEF path
<1>4. <<>> \in St
  OBVIOUS
<1>5. g \in [Nat \X St -> St]
  <2>1. ASSUME NEW k \in Nat, NEW s \in St
        PROVE  (IF k \in 1 .. n /\ ~Skips(k) THEN Append(s, q.slot[path[k]]) ELSE s) \in St
    <3>1. CASE k \in 1 .. n /\ ~Skips(k)
      <4>1. q.slot[path[k]] \in 0 .. PktMax
        BY <1>3, <3>1
      <4>2. Append(s, q.slot[path[k]]) \in Seq(0 .. PktMax)
        BY <4>1, AppendProperties
      <4> QED BY <3>1, <4>2
    <3> QED BY <3>1
  <2> HIDE DEF Skips, St
  <2> QED BY <2>1
<1>6. PICK f : IsLoop(f, St, g, <<>>, n)
  <2> HIDE DEF St, g
  <2> QED BY <1>4, <1>5, LoopExists
<1>7. /\ f \in [0 .. n -> St] /\ f[0] = <<>>
      /\ \A i \in 1 .. n : f[i] = IF Skips(i) THEN f[i - 1] ELSE Append(f[i - 1], q.slot[path[i]])
  <2>1. f \in [0 .. n -> St] /\ f[0] = <<>> /\ \A i \in 1 .. n : f[i] = g[<<i, f[i - 1]>>]
    BY <1>6 DEF IsLoop
  <2>2. ASSUME NEW i \in 1 .. n
        PROVE  f[i] = IF Skips(i) THEN f[i - 1] ELSE Append(f[i - 1], q.slot[path[i]])
    <3>1. i \in Nat /\ f[i - 1] \in St
      BY <2>1
    <3> HIDE DEF Skips, St
    <3> QED BY <2>1, <3>1
  <2> QED BY <2>1, <2>2
<1>8. Eq(f)
  <2>1. \A i \in 0 .. n : i = 0 \/ i \in 1 .. n
    OBVIOUS
  <2> HIDE DEF St
  <2> QED BY <1>2, <1>7, <2>1
<1>9. SentUp(q, path) = (CHOOSE u : Eq(u))[n]
  BY <1>2 DEF SentUp
<1> DEFINE up == CHOOSE u : Eq(u)
<1>10. Eq(up)
  <2> HIDE DEF Eq
  <2> QED BY <1>8
<1>11. /\ up[0] = <<>>
       /\ \A i \in 1 .. n : up[i] = IF Skips(i) THEN up[i - 1] ELSE Append(up[i - 1], q.slot[path[i]])
  <2> HIDE DEF up, Skips
  <2>1. ASSUME NEW i \in 0 .. n
        PROVE  up[i] = IF i = 0 THEN <<>>
                       ELSE IF Skips(i) THEN up[i - 1] ELSE Append(up[i - 1], q.slot[path[i]])
    BY <1>2, <1>10
  <2>2. 0 \in 0 .. n /\ \A i \in 1 .. n : i \in 0 .. n /\ i # 0
    OBVIOUS
  <2> HIDE DEF Eq
  <2> QED BY <2>1, <2>2
<1> DEFINE S == {i \in Nat : i <= n => up[i] \in St /\ Rising(up[i], a, a + i)}
<1> HIDE DEF up, Eq
<1>12. 0 \in S
  <2>1. Len(<<>>) = 0 /\ \A i \in 1 .. 0 : FALSE
    OBVIOUS
  <2>2. Rising(<<>>, a, a + 0)
    BY <2>1 DEF Rising
  <2> QED BY <1>4, <1>11, <2>2
<1>13. ASSUME NEW i \in Nat, i \in S PROVE i + 1 \in S
  <2> SUFFICES ASSUME i + 1 <= n PROVE up[i + 1] \in St /\ Rising(up[i + 1], a, a + (i + 1))
    OBVIOUS
  <2>1. i + 1 \in 1 .. n /\ (i + 1) - 1 = i /\ i <= n
    OBVIOUS
  <2>2. up[i] \in St /\ Rising(up[i], a, a + i)
    BY <1>13, <2>1
  <2>3. up[i + 1] = IF Skips(i + 1) THEN up[i] ELSE Append(up[i], q.slot[path[i + 1]])
    BY <1>11, <2>1
  <2>4. \A k \in 1 .. Len(up[i]) : up[i][k] \in Nat
    BY <2>2, WindowSizes
  <2>5. CASE Skips(i + 1)
    <3> HIDE DEF Skips
    <3> QED BY <2>2, <2>3, <2>4, <2>5 DEF Rising
  <2>6. CASE ~Skips(i + 1)
    <3>1. path[i + 1] = (a + i) % q.win /\ path[i + 1] \in Held(q)
          /\ q.slot[path[i + 1]] \in 0 .. PktMax
      BY <1>3, <2>1, <2>6
    <3>2. i < q.win
      <4> SUFFICES ASSUME i >= q.win PROVE FALSE
        BY <1>1
      <4>1. PICK k \in 1 .. n : k = i - q.win + 1
        BY <1>1, <2>1
      <4>2. k \in 1 .. (i + 1) - 1 /\ a + (k - 1) \in Int /\ a + (k - 1) + q.win = a + i
        BY <1>1, <4>1
      <4>3. path[k] = (a + (k - 1)) % q.win
        BY <1>3
      <4>4. (a + (k - 1) + q.win) % q.win = (a + (k - 1)) % q.win
        BY <1>1, <4>2, ModPeriod, Zenon
      <4>5. path[k] = path[i + 1]
        BY <3>1, <4>2, <4>3, <4>4
      <4> QED BY <2>6, <4>2, <4>5
    <3>3. q.slot[path[i + 1]] = a + i
      <4>1. i \in 0 .. q.win - 1
        BY <1>1, <3>2
      <4> QED BY <3>1, <4>1, SlotOf
    <3> DEFINE s == up[i]
               t == Append(s, a + i)
    <3>4. a + i \in 0 .. PktMax /\ up[i + 1] = t
      BY <2>3, <2>6, <3>1, <3>3
    <3> HIDE DEF s, Skips
    <3>5. /\ s \in Seq(0 .. PktMax) /\ Len(s) \in Nat
          /\ t \in Seq(0 .. PktMax) /\ Len(t) = Len(s) + 1 /\ t[Len(s) + 1] = a + i
          /\ \A k \in 1 .. Len(s) : t[k] = s[k]
      BY <2>2, <3>4, AppendProperties DEF s
    <3> HIDE DEF t
    <3>6. ASSUME NEW k \in 1 .. Len(t) PROVE a <= t[k] /\ t[k] < a + (i + 1)
      <4>1. CASE k \in 1 .. Len(s)
        <5>1. a <= s[k] /\ s[k] < a + i /\ s[k] \in Nat
          BY <2>2, <2>4, <4>1 DEF Rising, s
        <5>2. t[k] = s[k]
          BY <3>5, <4>1
        <5> QED BY <1>1, <5>1, <5>2
      <4>2. CASE k = Len(s) + 1
        BY <3>5, <4>2
      <4> QED BY <3>5, <4>1, <4>2
    <3>7. ASSUME NEW k \in 1 .. Len(t), NEW l \in 1 .. Len(t), k < l PROVE t[k] < t[l]
      <4>1. k \in 1 .. Len(s)
        BY <3>5, <3>7
      <4>2. CASE l \in 1 .. Len(s)
        BY <2>2, <3>5, <3>7, <4>1, <4>2 DEF Rising, s
      <4>3. CASE l = Len(s) + 1
        BY <2>2, <3>5, <4>1, <4>3 DEF Rising, s
      <4> QED BY <3>5, <4>2, <4>3
    <3> QED BY <3>4, <3>5, <3>6, <3>7 DEF Rising
  <2> QED BY <2>5, <2>6
<1>14. Nat \subseteq S
  <2> HIDE DEF S
  <2> QED BY <1>12, <1>13, NatInd
<1>15. up[n] \in St /\ Rising(up[n], a, a + n)
  BY <1>14
<1> QED BY <1>9, <1>15 DEF path, up


-----------------------------------------------------------------------------
(***************************************************************************)
(* The operations.                                                         *)
(***************************************************************************)

LEMMA RisingConcat ==
  ASSUME NEW s \in Seq(Nat), NEW t \in Seq(Nat), NEW lo \in Nat, NEW mid \in Nat, NEW hi \in Nat,
         lo <= mid, mid <= hi, Rising(s, lo, mid), Rising(t, mid, hi)
  PROVE  Rising(s \o t, lo, hi)
<1> DEFINE u == s \o t
<1>1. /\ Len(s) \in Nat /\ Len(t) \in Nat /\ Len(u) = Len(s) + Len(t)
      /\ \A i \in 1 .. Len(s) : u[i] = s[i] /\ s[i] \in Nat
      /\ \A i \in 1 .. Len(t) : t[i] \in Nat
  BY ConcatProperties
<1>2. ASSUME NEW i \in 1 .. Len(u), ~(i \in 1 .. Len(s))
      PROVE  i - Len(s) \in 1 .. Len(t) /\ u[i] = t[i - Len(s)]
  BY <1>1, <1>2, ConcatProperties
<1> HIDE DEF u
<1>3. ASSUME NEW i \in 1 .. Len(u) PROVE lo <= u[i] /\ u[i] < hi
  <2>1. CASE i \in 1 .. Len(s)
    <3>1. lo <= s[i] /\ s[i] < mid
      BY <2>1 DEF Rising
    <3> QED BY <1>1, <2>1, <3>1
  <2>2. CASE ~(i \in 1 .. Len(s))
    <3>1. PICK k \in 1 .. Len(t) : u[i] = t[k]
      BY <1>2, <2>2
    <3> QED BY <1>1, <3>1 DEF Rising
  <2> QED BY <2>1, <2>2
<1>4. ASSUME NEW i \in 1 .. Len(u), NEW j \in 1 .. Len(u), i < j PROVE u[i] < u[j]
  <2>1. CASE j \in 1 .. Len(s)
    <3>1. i \in 1 .. Len(s)
      BY <1>1, <1>4, <2>1
    <3> QED BY <1>1, <1>4, <2>1, <3>1 DEF Rising
  <2>2. CASE ~(j \in 1 .. Len(s)) /\ i \in 1 .. Len(s)
    <3>1. PICK k \in 1 .. Len(t) : u[j] = t[k]
      BY <1>2, <2>2
    <3>2. s[i] < mid /\ mid <= t[k] /\ u[i] = s[i] /\ s[i] \in Nat /\ t[k] \in Nat
      BY <1>1, <2>2 DEF Rising
    <3> QED BY <3>1, <3>2
  <2>3. CASE ~(i \in 1 .. Len(s))
    <3>1. ~(j \in 1 .. Len(s))
      BY <1>1, <1>4, <2>3
    <3>2. /\ i - Len(s) \in 1 .. Len(t) /\ u[i] = t[i - Len(s)]
          /\ j - Len(s) \in 1 .. Len(t) /\ u[j] = t[j - Len(s)]
      BY <1>2, <2>3, <3>1
    <3>3. i - Len(s) < j - Len(s)
      BY <1>1, <1>4
    <3> QED BY <3>2, <3>3 DEF Rising
  <2> QED BY <2>1, <2>2, <2>3
<1> QED BY <1>3, <1>4 DEF Rising, u

\* A packet or a BAR that is not too old is ahead of the head.
LEMMA AroundIs ==
  ASSUME NEW a \in Nat, NEW k \in Nat, a - RodLimit \div 2 < k, k <= a + RodLimit \div 2,
         ~TooOld(SeqDistance(a % RodLimit, k % RodLimit))
  PROVE  /\ SeqDistance(a % RodLimit, k % RodLimit) = k - a
         /\ k - a \in 0 .. RodLimit \div 2
<1>1. RodLimit \in Nat \ {0} /\ RodLimit \div 2 \in Nat /\ RodLimit = 2 * (RodLimit \div 2)
  BY WindowSizes, RodConstants
<1>2. PICK hl \in Nat \ {0} : hl = RodLimit \div 2 /\ RodLimit = 2 * hl
  BY <1>1
<1>3. CASE k >= a
  <2>1. PICK n \in 0 .. hl : n = k - a /\ k = a + n
    BY <1>2, <1>3
  <2>2. n \in 0 .. RodLimit - 1
    BY <1>2
  <2>3. SeqDistance(a % RodLimit, k % RodLimit) = n
    BY <2>1, <2>2, Distance
  <2> QED BY <1>2, <2>1, <2>3
<1>4. CASE k < a
  <2>1. PICK m \in 1 .. hl - 1 : m = a - k /\ a = k + m
    BY <1>2, <1>4
  <2>2. PICK x \in 0 .. RodLimit - 1 : x = k % RodLimit
    BY <1>1, DivMod
  <2>3. k \in Int /\ m \in Int /\ m \in 0 .. RodLimit
    BY <1>2
  <2>4. ((k % RodLimit) + m) % RodLimit = (k + m) % RodLimit
    BY <1>1, <2>3, ModAdd, Zenon
  <2>5. (x + m) % RodLimit = IF x + m < RodLimit THEN x + m ELSE x + m - RodLimit
    BY <1>1, <2>3, Wraps
  <2>6. a % RodLimit = IF x + m < RodLimit THEN x + m ELSE x + m - RodLimit
    BY <2>1, <2>2, <2>4, <2>5
  <2>7. PICK y \in 0 .. RodLimit - 1 : y = a % RodLimit
    BY <1>1, DivMod
  <2>8. PICK z \in 0 .. 2 * RodLimit - 1 : z = x - y + RodLimit
    BY <1>1
  <2>9. z % RodLimit = IF z < RodLimit THEN z ELSE z - RodLimit
    BY <1>1
  <2>10. z % RodLimit = RodLimit - m
    BY <1>1, <1>2, <2>6, <2>7, <2>8, <2>9
  <2>11. SeqDistance(a % RodLimit, k % RodLimit) = RodLimit - m
    BY <2>2, <2>7, <2>8, <2>10 DEF SeqDistance
  <2>12. RodLimit - m > hl
    BY <1>2
  <2> QED BY <1>2, <2>11, <2>12 DEF TooOld
<1> QED BY <1>1, <1>3, <1>4

\* The queue becomes q, whose window starts n numbers later.
LEMMA Advances ==
  ASSUME RodInv, NEW q, NEW n \in 0 .. RodLimit - 1, NEW up \in Seq(0 .. PktMax),
         Good(q, rodAbs + n), Rising(up, rodAbs, rodAbs + n), Becomes(q, up),
         q.used => rod.used /\ q.slot[q.head % q.win] = NoPkt,
         ~q.used => Held(q) = {}
  PROVE  RodInv'
<1>1. rodAbs \in Nat /\ RodLimit \in Nat \ {0} /\ PktMax \in Nat /\ rodLast \in -1 .. PktMax
      /\ rodOut \in Seq(0 .. PktMax) /\ Len(rodOut) \in Nat
  BY WindowSizes DEF RodInv, RodTypes
<1>2. /\ rod' = q /\ rodOut' = up
      /\ rodLast' = IF rodOut = <<>> THEN rodLast ELSE rodOut[Len(rodOut)]
  BY DEF Becomes
<1>3. rodAbs' = rodAbs + n
  <2>1. rod.head = rodAbs % RodLimit /\ q.head = (rodAbs + n) % RodLimit
    BY DEF RodInv, Good, Window
  <2>2. SeqDistance(rod.head, q.head) = n
    BY <1>1, <2>1, Distance
  <2> QED BY <2>2 DEF Becomes
<1>4. rodOut # <<>> => Len(rodOut) \in 1 .. Len(rodOut) /\ rodOut[Len(rodOut)] \in 0 .. PktMax
  BY <1>1
<1>5. rodLast' \in -1 .. PktMax
  BY <1>1, <1>2, <1>4
<1>6. RodTypes'
  <2>1. rodAbs' \in Nat
    BY <1>1, <1>3
  <2>2. rod' \in Queue
    BY <1>2 DEF Good
  <2> QED BY <1>2, <1>5, <2>1, <2>2 DEF RodTypes, Queue
<1>7. Good(rod', rodAbs')
  BY <1>2, <1>3
<1>8. \A i \in 1 .. Len(up) : up[i] \in Nat
  BY <1>1
<1>9. ASSUME q.used
      PROVE  rodLast' < rodAbs /\ \A i \in 1 .. Len(up) : rodAbs <= up[i] /\ up[i] < rodAbs + n
  <2>1. rodLast < rodAbs /\ \A i \in 1 .. Len(rodOut) : rodOut[i] < rodAbs
    BY <1>9 DEF RodInv
  <2> QED BY <1>2, <1>4, <2>1 DEF Rising
<1>10. RodInOrder'
  <2> SUFFICES ASSUME q.used, NEW i \in 1 .. Len(up)
               PROVE  up[i] > IF i = 1 THEN rodLast' ELSE up[i - 1]
    BY <1>2 DEF RodInOrder
  <2>1. CASE i = 1
    BY <1>1, <1>5, <1>8, <1>9, <2>1
  <2>2. CASE i # 1
    <3>1. i - 1 \in 1 .. Len(up) /\ i - 1 < i
      BY <2>2
    <3>2. up[i - 1] < up[i]
      BY <3>1 DEF Rising
    <3> QED BY <1>8, <2>2, <3>1, <3>2
  <2> QED BY <2>1, <2>2
<1>11. q.used => rodLast' < rodAbs + n /\ \A i \in 1 .. Len(up) : up[i] < rodAbs + n
  BY <1>1, <1>5, <1>9
<1>12. /\ ~rod'.used => Held(rod') = {}
       /\ rod'.used => /\ rod'.slot[rod'.head % rod'.win] = NoPkt
                       /\ rodLast' < rodAbs' /\ \A i \in 1 .. Len(rodOut') : rodOut'[i] < rodAbs'
  BY <1>2, <1>3, <1>11
<1> QED BY <1>6, <1>7, <1>10, <1>12 DEF RodInv, Good, Window, Held


\* The head is in the slot of the number at the head.
LEMMA HeadSlot ==
  ASSUME Fits, NEW q, NEW a \in Nat, Good(q, a)
  PROVE  q.head % q.win = a % q.win /\ q.head % q.win \in Cell
<1>1. 0 \in Nat /\ (q.head + 0) % q.win = (a + 0) % q.win
  BY PathIs
<1>2. q.head \in Int /\ \A x \in Int : x % q.win \in Cell
  BY QueueFacts, WindowSizes DEF Good
<1>3. q.head + 0 = q.head /\ a + 0 = a
  BY <1>2
<1> QED BY <1>1, <1>2, <1>3

\* Whether the queue is in use says nothing of its window.
LEMMA UsedOnly ==
  ASSUME NEW q, NEW a \in Nat, Good(q, a), NEW b \in BOOLEAN
  PROVE  /\ Good([q EXCEPT !.used = b], a) /\ Held([q EXCEPT !.used = b]) = Held(q)
         /\ [q EXCEPT !.used = b].used = b
<1> DEFINE r == [q EXCEPT !.used = b]
<1>1. /\ r \in Queue /\ r.used = b /\ r.count = q.count /\ r.head = q.head /\ r.win = q.win
      /\ r.slot = q.slot
  BY DEF Good, Queue
<1> HIDE DEF r
<1>2. Held(r) = Held(q)
  BY <1>1 DEF Held
<1> QED BY <1>1, <1>2 DEF Good, Window, r

\* The flushed queue is empty, and its window is at most a window further.
LEMMA Flushed ==
  ASSUME Fits, RodInv
  PROVE  \E n \in 0 .. RodLimit - 1 :
           LET q == Moved(rod, EmptyingPath(rod))
               up == SentUp(rod, EmptyingPath(rod))
           IN  /\ Good(q, rodAbs + n) /\ Held(q) = {} /\ q.used = rod.used
               /\ up \in Seq(0 .. PktMax) /\ Rising(up, rodAbs, rodAbs + n)
<1>1. rodAbs \in Nat /\ Good(rod, rodAbs)
  BY DEF RodInv, RodTypes
<1>2. PICK n \in 0 .. rod.win : EmptyingPath(rod) = Path(rod, n) /\ Held(Moved(rod, Path(rod, n))) = {}
  BY <1>1, EmptyingIs
<1>3. n \in Nat /\ n \in 0 .. RodLimit - 1
  <2>1. rod.win \in Nat \ {0} /\ rod.win + rod.win <= RodLimit /\ RodLimit \in Nat
    BY <1>1, QueueFacts, WindowSizes DEF Good
  <2> QED BY <2>1
<1>4. Good(Moved(rod, Path(rod, n)), rodAbs + n) /\ Moved(rod, Path(rod, n)).used = rod.used
  BY <1>1, <1>3, MovedGood
<1>5. SentUp(rod, Path(rod, n)) \in Seq(0 .. PktMax)
      /\ Rising(SentUp(rod, Path(rod, n)), rodAbs, rodAbs + n)
  BY <1>1, <1>3, SentUpIs
<1> QED BY <1>2, <1>3, <1>4, <1>5

\* An empty queue has an empty slot at its head.
LEMMA EmptyHead ==
  ASSUME Fits, NEW q, NEW a \in Nat, Good(q, a), Held(q) = {}
  PROVE  q.slot[q.head % q.win] = NoPkt
BY HeadSlot DEF Held

LEMMA FlushSteps ==
  ASSUME Fits, RodInv, ClearRodQueue \/ RodTimer
  PROVE  RodInv'
<1> DEFINE q == Moved(rod, EmptyingPath(rod))
           up == SentUp(rod, EmptyingPath(rod))
<1>1. PICK n \in 0 .. RodLimit - 1 :
         /\ Good(q, rodAbs + n) /\ Held(q) = {} /\ q.used = rod.used
         /\ up \in Seq(0 .. PktMax) /\ Rising(up, rodAbs, rodAbs + n)
  BY Flushed
<1>2. rodAbs + n \in Nat
  BY WindowSizes DEF RodInv, RodTypes
<1>3. CASE ClearRodQueue
  <2> DEFINE r == [q EXCEPT !.used = FALSE]
  <2>1. Becomes(r, up)
    BY <1>3 DEF ClearRodQueue
  <2> HIDE DEF q, up
  <2>2. Good(r, rodAbs + n) /\ Held(r) = {} /\ r.used = FALSE
    BY <1>1, <1>2, UsedOnly
  <2> HIDE DEF r
  <2> QED BY <1>1, <2>1, <2>2, Advances
<1>4. CASE RodTimer
  <2>1. Becomes(q, up) /\ rod.used
    BY <1>4 DEF RodTimer
  <2> HIDE DEF q, up
  <2>2. q.slot[q.head % q.win] = NoPkt
    BY <1>1, <1>2, EmptyHead
  <2> QED BY <1>1, <2>1, <2>2, Advances
<1> QED BY <1>3, <1>4

LEMMA CreateStep ==
  ASSUME Fits, RodInv, NEW win \in RodWin, NEW ssn \in Around, CreateRodQueue(win, ssn)
  PROVE  RodInv'
<1> DEFINE q == IF rod.used THEN Moved(rod, EmptyingPath(rod)) ELSE rod
           up == IF rod.used THEN SentUp(rod, EmptyingPath(rod)) ELSE <<>>
<1>1. PICK n \in 0 .. RodLimit - 1 :
         /\ Good(q, rodAbs + n) /\ Held(q) = {} /\ q.used = rod.used
         /\ up \in Seq(0 .. PktMax) /\ Rising(up, rodAbs, rodAbs + n)
  <2>1. CASE rod.used
    BY <2>1, Flushed
  <2>2. CASE ~rod.used
    <3>1. 0 \in 0 .. RodLimit - 1 /\ rodAbs + 0 = rodAbs
      BY WindowSizes DEF RodInv, RodTypes
    <3>2. Good(rod, rodAbs) /\ Held(rod) = {}
      BY <2>2 DEF RodInv
    <3>3. <<>> \in Seq(0 .. PktMax) /\ Rising(<<>>, rodAbs, rodAbs)
      BY DEF Rising
    <3>4. q = rod /\ up = <<>>
      BY <2>2
    <3> HIDE DEF q, up
    <3> QED BY <3>1, <3>2, <3>3, <3>4
  <2> QED BY <2>1, <2>2
<1>2. rodAbs + n \in Nat
  BY WindowSizes DEF RodInv, RodTypes
<1>3. \/ /\ rod' = [q EXCEPT !.used = TRUE, !.count = 0, !.head = ssn % RodLimit, !.win = win]
         /\ rodAbs' = ssn /\ rodOut' = <<>> /\ rodLast' = ssn - 1
      \/ Becomes(q, up)
  BY DEF CreateRodQueue
<1> HIDE DEF q, up
<1>4. CASE Becomes(q, up)
  <2>1. q.slot[q.head % q.win] = NoPkt
    BY <1>1, <1>2, EmptyHead
  <2> QED BY <1>1, <1>4, <2>1, Advances
<1>5. CASE /\ rod' = [q EXCEPT !.used = TRUE, !.count = 0, !.head = ssn % RodLimit, !.win = win]
           /\ rodAbs' = ssn /\ rodOut' = <<>> /\ rodLast' = ssn - 1
  <2>1. ssn \in 0 .. PktMax /\ ssn \in Nat /\ RodLimit \in Nat \ {0} /\ MaxWin \in Nat
    BY WindowSizes DEF Around
  <2>2. ssn % RodLimit \in 0 .. RodLimit - 1
    BY <2>1, DivMod
  <2>3. /\ rod' \in Queue /\ rod'.used = TRUE /\ rod'.count = 0 /\ rod'.head = ssn % RodLimit
        /\ rod'.win = win /\ rod'.slot = q.slot
    <3>1. q = [used |-> q.used, count |-> q.count, head |-> q.head, win |-> q.win, slot |-> q.slot]
          /\ q.slot \in [Cell -> 0 .. PktMax \cup {NoPkt}]
      BY <1>1 DEF Good, Queue
    <3>2. rod' = [used |-> TRUE, count |-> 0, head |-> ssn % RodLimit, win |-> win, slot |-> q.slot]
      BY <1>5, <3>1
    <3>3. 0 \in 0 .. MaxWin
      BY <2>1
    <3> QED BY <2>2, <3>1, <3>2, <3>3 DEF Queue
  <2>4. Held(rod') = {}
    BY <1>1, <2>3 DEF Held
  <2>5. Good(rod', ssn)
    BY <2>3, <2>4, FS_EmptySet DEF Good, Window
  <2>6. rod'.slot[rod'.head % rod'.win] = NoPkt
    BY <2>1, <2>4, <2>5, EmptyHead
  <2>7. RodTypes'
    <3>1. ssn - 1 \in -1 .. PktMax
      BY <2>1, WindowSizes
    <3>2. <<>> \in Seq(0 .. PktMax)
      OBVIOUS
    <3> QED BY <1>5, <2>1, <2>3, <3>1, <3>2 DEF RodTypes, Queue
  <2>8. RodInOrder'
    BY <1>5 DEF RodInOrder
  <2>9. Good(rod', rodAbs') /\ rodLast' < rodAbs' /\ \A i \in 1 .. Len(rodOut') : rodOut'[i] < rodAbs'
    BY <1>5, <2>1, <2>5
  <2> QED BY <2>3, <2>4, <2>6, <2>7, <2>8, <2>9 DEF RodInv, Good, Window, Held
<1> QED BY <1>3, <1>4, <1>5


\* A packet of the window in its empty slot.
LEMMA Inserted ==
  ASSUME Fits, NEW q, NEW b \in Nat, Good(q, b), NEW pkt \in 0 .. PktMax,
         b <= pkt, pkt <= b + q.win - 1, NEW loc, loc = pkt % q.win, q.slot[loc] = NoPkt,
         NEW t, t = [q.slot EXCEPT ![loc] = pkt],
         NEW r, r = [used |-> q.used, count |-> q.count + 1, head |-> q.head, win |-> q.win,
                     slot |-> t]
  PROVE  Good(r, b) /\ r.used = q.used /\ r.win = q.win
<1>1. /\ q \in Queue /\ q.win \in Nat \ {0} /\ q.slot \in [Cell -> 0 .. PktMax \cup {NoPkt}]
      /\ \A x \in Int : x % q.win \in Cell
      /\ IsFiniteSet(Held(q)) /\ q.count = Cardinality(Held(q)) /\ q.count \in Nat
      /\ q.head = b % RodLimit
      /\ \A j \in Held(q) : q.slot[j] \in b .. b + q.win - 1 /\ j = q.slot[j] % q.win
  BY QueueFacts, WindowSizes DEF Good, Window
<1>2. pkt \in Int /\ pkt # NoPkt /\ loc \in Cell
  <2>1. pkt \in Int /\ pkt # NoPkt
    BY WindowSizes DEF NoPkt
  <2> QED BY <1>1, <2>1
<1>3. /\ r.used = q.used /\ r.count = q.count + 1 /\ r.head = q.head /\ r.win = q.win
      /\ r.slot = t
  OBVIOUS
<1>4. t \in [Cell -> 0 .. PktMax \cup {NoPkt}] /\ \A j \in Cell : t[j] = IF j = loc THEN pkt ELSE q.slot[j]
  BY <1>1, <1>2
<1>5. Held(r) = Held(q) \cup {loc} /\ loc \notin Held(q)
  BY <1>2, <1>3, <1>4 DEF Held
<1>6. ASSUME NEW j \in Held(r) PROVE r.slot[j] \in b .. b + q.win - 1 /\ j = r.slot[j] % q.win
  <2>1. CASE j = loc
    <3>1. r.slot[j] = pkt
      BY <1>2, <1>3, <1>4, <2>1
    <3>2. pkt \in b .. b + q.win - 1
      BY <1>1, <1>2
    <3> QED BY <2>1, <3>1, <3>2
  <2>2. CASE j # loc
    <3>1. j \in Held(q) /\ r.slot[j] = q.slot[j]
      BY <1>3, <1>4, <1>5, <2>2 DEF Held
    <3> QED BY <1>1, <3>1
  <2> QED BY <2>1, <2>2
<1>7. r.count = Cardinality(Held(r)) /\ r.count \in 0 .. MaxWin
  <2>1. Cardinality(Held(r)) = Cardinality(Held(q)) + 1
    BY <1>1, <1>5, FS_AddElement
  <2>2. Held(r) \subseteq 0 .. q.win - 1
    <3> SUFFICES ASSUME NEW j \in Held(r) PROVE j \in 0 .. q.win - 1
      OBVIOUS
    <3>1. r.slot[j] \in b .. b + q.win - 1 /\ j = r.slot[j] % q.win /\ q.win \in Nat \ {0}
      BY <1>1, <1>6
    <3>2. r.slot[j] \in Int
      BY <3>1
    <3> QED BY <3>1, <3>2, DivMod
  <2>3. Cardinality(Held(r)) <= q.win /\ Cardinality(Held(r)) \in Nat
    BY <1>1, <2>2, SlotCount
  <2>4. q.win <= MaxWin /\ MaxWin \in Nat
    BY <1>1, QueueFacts, WindowSizes
  <2> QED BY <1>1, <1>3, <2>1, <2>3, <2>4
<1>8. r \in Queue
  <2>1. r = [used |-> r.used, count |-> r.count, head |-> r.head, win |-> r.win, slot |-> r.slot]
    BY <1>3
  <2>2. r.used \in BOOLEAN /\ r.head \in 0 .. RodLimit - 1 /\ r.win \in RodWin
    BY <1>1, <1>3 DEF Queue
  <2> QED BY <1>3, <1>4, <1>7, <2>1, <2>2 DEF Queue
<1>9. Good(r, b)
  BY <1>1, <1>3, <1>7, <1>8, <1>6 DEF Good, Window
<1> QED BY <1>3, <1>9

\* After retire_rod_queue the slot at the head is empty.
LEMMA Retired ==
  ASSUME Fits, NEW q, NEW b \in Nat, Good(q, b)
  PROVE  \E n \in 0 .. q.win :
           LET m == Moved(q, RunPath(q))
               up == SentUp(q, RunPath(q))
           IN  /\ Good(m, b + n) /\ m.used = q.used /\ m.slot[m.head % m.win] = NoPkt
               /\ up \in Seq(0 .. PktMax) /\ Rising(up, b, b + n)
               /\ n > 0 => \E j \in Held(q) : q.slot[j] = b + n - 1
<1>1. PICK n \in 0 .. q.win : /\ RunPath(q) = Path(q, n)
                              /\ Moved(q, Path(q, n)).slot[(b + n) % q.win] = NoPkt
                              /\ n > 0 => \E j \in Held(q) : q.slot[j] = b + n - 1
  BY RunPathIs
<1>2. n \in Nat /\ b + n \in Nat
  BY QueueFacts DEF Good
<1> DEFINE m == Moved(q, Path(q, n))
<1>3. Good(m, b + n) /\ m.used = q.used /\ m.win = q.win
  BY <1>2, MovedGood
<1>4. m.slot[m.head % m.win] = NoPkt
  <2>1. m.slot[(b + n) % q.win] = NoPkt
    BY <1>1
  <2> HIDE DEF m
  <2>2. m.head % m.win = (b + n) % m.win
    BY <1>2, <1>3, HeadSlot
  <2> QED BY <1>3, <2>1, <2>2
<1>5. SentUp(q, Path(q, n)) \in Seq(0 .. PktMax) /\ Rising(SentUp(q, Path(q, n)), b, b + n)
  BY <1>2, SentUpIs
<1> QED BY <1>1, <1>3, <1>4, <1>5

\* Two moves in one step.
LEMMA AdvancesTwice ==
  ASSUME Fits, RodInv, rod.used, NEW n \in Nat, NEW up \in Seq(0 .. PktMax),
         Rising(up, rodAbs, rodAbs + n), NEW q, Good(q, rodAbs + n), q.used = rod.used,
         \A k \in 0 .. q.win :
            (k > 0 => \E j \in Held(q) : q.slot[j] = rodAbs + n + k - 1) => n + k < RodLimit,
         Becomes(Moved(q, RunPath(q)), up \o SentUp(q, RunPath(q)))
  PROVE  RodInv'
<1> DEFINE m == Moved(q, RunPath(q))
           up2 == SentUp(q, RunPath(q))
<1>1. PICK b \in Nat : b = rodAbs + n
  BY DEF RodInv, RodTypes
<1>2. PICK k \in 0 .. q.win :
         /\ Good(m, b + k) /\ m.used = q.used /\ m.slot[m.head % m.win] = NoPkt
         /\ up2 \in Seq(0 .. PktMax) /\ Rising(up2, b, b + k)
         /\ k > 0 => \E j \in Held(q) : q.slot[j] = b + k - 1
  BY <1>1, Retired
<1>3. k \in Nat /\ rodAbs \in Nat /\ RodLimit \in Nat /\ PktMax \in Nat
  BY QueueFacts, WindowSizes DEF RodInv, RodTypes, Good
<1>4. n + k < RodLimit
  BY <1>1, <1>2
<1>5. n + k \in 0 .. RodLimit - 1 /\ b + k = rodAbs + (n + k)
  BY <1>1, <1>3, <1>4
<1>6. Becomes(m, up \o up2)
  OBVIOUS
<1> HIDE DEF m, up2
<1>7. up \o up2 \in Seq(0 .. PktMax)
  BY <1>2, ConcatProperties
<1>8. Rising(up \o up2, rodAbs, b + k)
  <2>1. up \in Seq(Nat) /\ up2 \in Seq(Nat)
    <3>1. 0 .. PktMax \subseteq Nat
      BY <1>3
    <3> QED BY <1>2, <3>1, SeqMonotonic
  <2>2. b + k \in Nat /\ rodAbs <= b /\ b <= b + k
    BY <1>1, <1>3
  <2> QED BY <1>1, <1>2, <1>3, <2>1, <2>2, RisingConcat
<1> QED BY <1>2, <1>5, <1>6, <1>7, <1>8, Advances


\* What the invariant says of a queue in use.
LEMMA InUse ==
  ASSUME Fits, RodInv, NEW k \in Around
  PROVE  /\ rodAbs \in Nat /\ Good(rod, rodAbs) /\ rod.win \in Nat \ {0}
         /\ rod.win + rod.win <= RodLimit
         /\ RodLimit \in Nat /\ RodLimit > 2 /\ RodLimit \div 2 \in Nat
         /\ RodLimit = 2 * (RodLimit \div 2)
         /\ k \in 0 .. PktMax /\ k \in Nat
         /\ ~TooOld(SeqDistance(rod.head, k % RodLimit)) =>
              /\ SeqDistance(rod.head, k % RodLimit) = k - rodAbs
              /\ k - rodAbs \in 0 .. RodLimit \div 2
         /\ \A j \in Held(rod) : rod.slot[j] \in rodAbs .. rodAbs + rod.win - 1
         /\ (k % RodLimit) % rod.win = k % rod.win
<1>1. /\ rodAbs \in Nat /\ Good(rod, rodAbs) /\ rod.win \in Nat \ {0} /\ rod.win \in RodWin
      /\ rod.win + rod.win <= RodLimit
  BY QueueFacts DEF RodInv, RodTypes, Good
<1>2. /\ RodLimit \in Nat \ {0} /\ RodLimit > 2 /\ RodLimit \div 2 \in Nat
      /\ RodLimit = 2 * (RodLimit \div 2)
  BY WindowSizes, RodConstants DEF Fits
<1>3. k \in 0 .. PktMax /\ k \in Nat /\ rodAbs - RodLimit \div 2 < k /\ k <= rodAbs + RodLimit \div 2
  BY WindowSizes DEF Around
<1>4. rod.head = rodAbs % RodLimit
      /\ \A j \in Held(rod) : rod.slot[j] \in rodAbs .. rodAbs + rod.win - 1
  BY <1>1 DEF Good, Window
<1>5. ASSUME ~TooOld(SeqDistance(rod.head, k % RodLimit))
      PROVE  /\ SeqDistance(rod.head, k % RodLimit) = k - rodAbs
             /\ k - rodAbs \in 0 .. RodLimit \div 2
  <2>1. ~TooOld(SeqDistance(rodAbs % RodLimit, k % RodLimit))
    BY <1>4, <1>5
  <2>2. /\ SeqDistance(rodAbs % RodLimit, k % RodLimit) = k - rodAbs
        /\ k - rodAbs \in 0 .. RodLimit \div 2
    BY <1>1, <1>3, <2>1, AroundIs
  <2> QED BY <1>4, <2>2
<1>6. (k % RodLimit) % rod.win = k % rod.win
  <2>1. RodLimit % rod.win = 0 /\ k \in Int
    BY <1>1, <1>3 DEF Fits
  <2> QED BY <1>1, <1>2, <2>1, ModMod
<1> QED BY <1>1, <1>2, <1>3, <1>4, <1>5, <1>6

\* The window moves to the number in the BAR.  What retire_rod_queue then sends
\* up was in the window before, so that the head never passes half the space.
LEMMA BarStep ==
  ASSUME Fits, RodInv, NEW k \in Around, ProcessBar(k)
  PROVE  RodInv'
<1>1. /\ rodAbs \in Nat /\ Good(rod, rodAbs) /\ rod.win \in Nat \ {0}
      /\ rod.win + rod.win <= RodLimit
      /\ RodLimit \in Nat /\ RodLimit > 2 /\ RodLimit \div 2 \in Nat
      /\ RodLimit = 2 * (RodLimit \div 2)
      /\ \A j \in Held(rod) : rod.slot[j] \in rodAbs .. rodAbs + rod.win - 1
  BY InUse
<1>2. rod.used /\ ~TooOld(SeqDistance(rod.head, k % RodLimit))
  BY DEF ProcessBar
<1>3. PICK n \in 0 .. RodLimit \div 2 : n = SeqDistance(rod.head, k % RodLimit)
  BY <1>2, InUse
<1>4. n \in Nat
  BY <1>1
<1> DEFINE q == Moved(rod, Path(rod, n))
           up == SentUp(rod, Path(rod, n))
<1>5. Becomes(Moved(q, RunPath(q)), up \o SentUp(q, RunPath(q)))
  BY <1>3 DEF ProcessBar
<1>6. /\ Good(q, rodAbs + n) /\ q.win = rod.win /\ q.used = rod.used
      /\ Held(q) = Held(rod) \ OnPath(Path(rod, n))
      /\ \A j \in Cell : q.slot[j] = IF j \in OnPath(Path(rod, n)) THEN NoPkt ELSE rod.slot[j]
  BY <1>1, <1>4, MovedGood
<1>7. up \in Seq(0 .. PktMax) /\ Rising(up, rodAbs, rodAbs + n)
  BY <1>1, <1>4, SentUpIs
<1> HIDE DEF q, up
<1>8. ASSUME NEW i \in 0 .. q.win,
             i > 0 => \E j \in Held(q) : q.slot[j] = rodAbs + n + i - 1
      PROVE  n + i < RodLimit
  <2>1. CASE i = 0
    BY <1>1, <2>1
  <2>2. CASE i > 0
    <3>1. PICK j \in Held(q) : q.slot[j] = rodAbs + n + i - 1
      BY <1>8, <2>2
    <3>2. j \in Held(rod) /\ q.slot[j] = rod.slot[j]
      BY <1>6, <3>1 DEF Held
    <3>3. rodAbs + n + i - 1 \in rodAbs .. rodAbs + rod.win - 1
      BY <1>1, <3>1, <3>2
    <3> QED BY <1>1, <1>6, <3>3
  <2> QED BY <1>1, <1>6, <2>1, <2>2
<1> QED BY <1>2, <1>4, <1>5, <1>6, <1>7, <1>8, AdvancesTwice

\* A packet.  One beyond the window moves it just far enough, and is then the
\* last of the window: its slot is empty.
LEMMA PacketStep ==
  ASSUME Fits, RodInv, NEW pkt \in Around, ReorderPacket(pkt)
  PROVE  RodInv'
<1> DEFINE diff == SeqDistance(rod.head, pkt % RodLimit)
           n == IF diff >= rod.win THEN diff - rod.win + 1 ELSE 0
           q == Moved(rod, Path(rod, n))
           up == SentUp(rod, Path(rod, n))
           loc == (pkt % RodLimit) % rod.win
           r == [q EXCEPT !.slot[loc] = pkt, !.count = @ + 1]
<1>1. /\ rodAbs \in Nat /\ Good(rod, rodAbs) /\ rod.win \in Nat \ {0}
      /\ rod.win + rod.win <= RodLimit
      /\ RodLimit \in Nat /\ RodLimit > 2 /\ RodLimit \div 2 \in Nat
      /\ RodLimit = 2 * (RodLimit \div 2)
      /\ pkt \in 0 .. PktMax /\ pkt \in Nat
      /\ \A j \in Held(rod) : rod.slot[j] \in rodAbs .. rodAbs + rod.win - 1
      /\ loc = pkt % rod.win
  BY InUse
<1>2. \/ Becomes(rod, <<>>)
      \/ rod.used /\ ~TooOld(diff) /\ q.slot[loc] # NoPkt /\ Becomes(q, up)
      \/ /\ rod.used /\ ~TooOld(diff) /\ q.slot[loc] = NoPkt
         /\ Becomes(Moved(r, RunPath(r)), up \o SentUp(r, RunPath(r)))
  BY DEF ReorderPacket
<1>3. CASE Becomes(rod, <<>>)
  <2>1. 0 \in 0 .. RodLimit - 1 /\ rodAbs + 0 = rodAbs
    BY <1>1
  <2>2. <<>> \in Seq(0 .. PktMax) /\ Rising(<<>>, rodAbs, rodAbs + 0)
    BY DEF Rising
  <2>3. Good(rod, rodAbs + 0)
    BY <1>1, <2>1
  <2>4. /\ rod.used => rod.used /\ rod.slot[rod.head % rod.win] = NoPkt
        /\ ~rod.used => Held(rod) = {}
    BY DEF RodInv
  <2> QED BY <1>3, <2>1, <2>2, <2>3, <2>4, Advances
<1>4. ASSUME rod.used, ~TooOld(diff),
             \/ q.slot[loc] # NoPkt /\ Becomes(q, up)
             \/ q.slot[loc] = NoPkt /\ Becomes(Moved(r, RunPath(r)), up \o SentUp(r, RunPath(r)))
      PROVE  RodInv'
  <2>1. diff = pkt - rodAbs /\ diff \in 0 .. RodLimit \div 2
    BY <1>4, InUse
  <2> HIDE DEF diff
  <2>2. n \in Nat /\ n < RodLimit /\ rodAbs + n \in Nat
    BY <1>1, <2>1
  <2>3. /\ n = 0 => diff < rod.win /\ rodAbs + n <= pkt /\ pkt <= rodAbs + n + rod.win - 1
        /\ n # 0 => /\ diff >= rod.win /\ pkt = rodAbs + n + (rod.win - 1) /\ n + rod.win < RodLimit
                    /\ rodAbs + n <= pkt /\ pkt <= rodAbs + n + rod.win - 1
    BY <1>1, <2>1
  <2> HIDE DEF n, loc
  <2>4. /\ Good(q, rodAbs + n) /\ q.win = rod.win /\ q.used = rod.used
        /\ Held(q) = Held(rod) \ OnPath(Path(rod, n))
        /\ \A j \in Cell : q.slot[j] = IF j \in OnPath(Path(rod, n)) THEN NoPkt ELSE rod.slot[j]
    BY <1>1, <2>2, MovedGood
  <2>5. up \in Seq(0 .. PktMax) /\ Rising(up, rodAbs, rodAbs + n)
    BY <1>1, <2>2, SentUpIs
  <2> HIDE DEF q, up
  <2>6. r = [used |-> q.used, count |-> q.count + 1, head |-> q.head, win |-> q.win,
             slot |-> [q.slot EXCEPT ![loc] = pkt]]
    <3>1. q = [used |-> q.used, count |-> q.count, head |-> q.head, win |-> q.win, slot |-> q.slot]
      BY <2>4 DEF Good, Queue
    <3> DEFINE t == [q.slot EXCEPT ![loc] = pkt]
    <3>2. r = [q EXCEPT !.slot = t, !.count = q.count + 1]
      BY <3>1
    <3> HIDE DEF r, t
    <3>3. r = [used |-> q.used, count |-> q.count + 1, head |-> q.head, win |-> q.win, slot |-> t]
      BY <3>1, <3>2
    <3> QED BY <3>3 DEF t
  <2> HIDE DEF r
  <2>7. CASE q.slot[loc] # NoPkt /\ Becomes(q, up)
    <3>1. loc \in Cell
      <4>1. pkt \in Int
        BY <1>1
      <4>2. \A x \in Int : x % rod.win \in Cell
        BY <1>1, QueueFacts DEF Good
      <4> QED BY <1>1, <4>1, <4>2
    <3>2. n = 0
      <4> SUFFICES ASSUME n # 0 PROVE FALSE
        OBVIOUS
      <4>1. loc \in Held(q) /\ loc \in Held(rod) /\ q.slot[loc] = rod.slot[loc]
        BY <2>4, <2>7, <3>1 DEF Held
      <4>2. PICK i \in 0 .. q.win - 1 : i = rod.win - 1
        BY <1>1, <2>4
      <4>3. pkt = rodAbs + n + i
        BY <2>3, <4>2
      <4>4. q.slot[loc] = rodAbs + n + i
        <5>1. loc = (rodAbs + n + i) % q.win
          BY <1>1, <2>4, <4>3
        <5> QED BY <2>2, <2>4, <4>1, <5>1, SlotOf
      <4>5. pkt \in rodAbs .. rodAbs + rod.win - 1
        BY <1>1, <4>1, <4>3, <4>4
      <4>6. diff >= rod.win
        BY <2>3
      <4> QED BY <1>1, <2>1, <4>5, <4>6
    <3>3. q.slot[q.head % q.win] = NoPkt
      <4>1. rodAbs + n = rodAbs
        BY <1>1, <3>2
      <4>2. /\ q.head % q.win = rodAbs % q.win /\ q.head % q.win \in Cell
            /\ rod.head % rod.win = rodAbs % rod.win
        BY <1>1, <2>4, <4>1, HeadSlot
      <4>3. rod.slot[rod.head % rod.win] = NoPkt
        BY <1>4 DEF RodInv
      <4> QED BY <2>4, <4>2, <4>3
    <3>4. n \in 0 .. RodLimit - 1
      BY <1>1, <2>2
    <3> QED BY <1>4, <2>4, <2>5, <2>7, <3>3, <3>4, Advances
  <2>8. CASE q.slot[loc] = NoPkt /\ Becomes(Moved(r, RunPath(r)), up \o SentUp(r, RunPath(r)))
    <3>1. rodAbs + n <= pkt /\ pkt <= rodAbs + n + q.win - 1 /\ loc = pkt % q.win
      BY <1>1, <2>3, <2>4
    <3>2. Good(r, rodAbs + n) /\ r.used = q.used /\ r.win = q.win
      <4>1. PICK b \in Nat : b = rodAbs + n
        BY <2>2
      <4>2. b <= pkt /\ pkt <= b + q.win - 1 /\ Good(q, b)
        BY <2>4, <3>1, <4>1
      <4>3. PICK t : t = [q.slot EXCEPT ![loc] = pkt]
        OBVIOUS
      <4>4. r = [used |-> q.used, count |-> q.count + 1, head |-> q.head, win |-> q.win, slot |-> t]
        BY <2>6, <4>3
      <4>5. Good(r, b) /\ r.used = q.used /\ r.win = q.win
        BY <1>1, <2>8, <3>1, <4>2, <4>3, <4>4, Inserted
      <4> QED BY <4>1, <4>5
    <3>3. \A i \in 0 .. r.win : n + i < RodLimit
      BY <1>1, <2>2, <2>3, <2>4, <3>2
    <3>4. r.used = rod.used
      BY <2>4, <3>2
    <3> QED BY <1>4, <2>2, <2>5, <2>8, <3>2, <3>3, <3>4, AdvancesTwice
  <2> QED BY <1>4, <2>7, <2>8
<1> HIDE DEF q, up, r, diff, loc
<1> QED BY <1>2, <1>3, <1>4

-----------------------------------------------------------------------------
(***************************************************************************)
(* Theorems.                                                               *)
(***************************************************************************)

LEMMA RodInitInv ==
  ASSUME RodInit
  PROVE  RodInv
<1>1. /\ rod = [used |-> FALSE, count |-> 0, head |-> 0, win |-> MaxWin,
                slot |-> [j \in Cell |-> NoPkt]]
      /\ rodAbs = 0 /\ rodOut = <<>> /\ rodLast = -1
  BY DEF RodInit
<1>2. RodLimit \in Nat \ {0} /\ PktMax \in Nat /\ MaxWin \in RodWin /\ MaxWin \in Nat
  BY WindowSizes
<1>3. rod \in Queue
  <2>1. 0 \in 0 .. MaxWin /\ 0 \in 0 .. RodLimit - 1
    BY <1>2
  <2> QED BY <1>1, <1>2, <2>1 DEF Queue
<1>4. rodLast \in -1 .. PktMax /\ rodOut \in Seq(0 .. PktMax) /\ rodAbs \in Nat
  <2>1. -1 \in -1 .. PktMax
    BY <1>2
  <2> QED BY <1>1, <2>1
<1>5. Held(rod) = {} /\ rod.count = 0 /\ rod.head = 0 /\ rod.used = FALSE
  BY <1>1 DEF Held
<1>6. 0 = 0 % RodLimit
  BY <1>2
<1>7. Good(rod, rodAbs)
  BY <1>1, <1>3, <1>5, <1>6, FS_EmptySet DEF Good, Window
<1> QED BY <1>3, <1>4, <1>5, <1>7 DEF RodInv, RodTypes, Queue, RodInOrder

LEMMA RodNextInv ==
  ASSUME Fits, RodInv, [RodNext]_rodVars
  PROVE  RodInv'
<1>1. CASE ClearRodQueue \/ RodTimer
  BY <1>1, FlushSteps
<1>2. CASE \E win \in RodWin, ssn \in Around : CreateRodQueue(win, ssn)
  BY <1>2, CreateStep
<1>3. CASE \E k \in Around : ReorderPacket(k) \/ ProcessBar(k)
  BY <1>3, PacketStep, BarStep
<1>4. CASE UNCHANGED rodVars
  BY <1>4 DEF rodVars, RodInv, RodTypes, Good, Window, Held, RodInOrder
<1> QED BY <1>1, <1>2, <1>3, <1>4 DEF RodNext

\* The inductive invariant of the reordering queue (rod.c).
THEOREM RodInvariant ==
  ASSUME Fits
  PROVE  RodSpec => []RodInv
<1>1. RodInit => RodInv
  BY RodInitInv
<1>2. RodInv /\ [RodNext]_rodVars => RodInv'
  BY RodNextInv
<1> QED BY <1>1, <1>2, PTL DEF RodSpec

\* The queue and what was sent up have their types, and no packet is stored
\* outside the array: its slot is its number modulo the window, which fits.
THEOREM RodTypeCorrect ==
  ASSUME Fits
  PROVE  RodSpec => []RodTypeOK
<1>1. ASSUME RodInv PROVE RodTypeOK
  <2>1. /\ rod.win \in Nat \ {0} /\ rod.win \in RodWin
        /\ \A j \in Held(rod) : j = rod.slot[j] % rod.win /\ rod.slot[j] \in 0 .. PktMax
    BY <1>1, QueueFacts DEF RodInv, Good, Window
  <2>2. rod.win <= RodSlots /\ RodSlots \in Nat
    BY <2>1, RodConstants DEF Fits
  <2>3. ASSUME NEW j \in Held(rod) PROVE j \in Nbuf
    <3>1. rod.slot[j] \in Int /\ j = rod.slot[j] % rod.win
      BY <2>1, WindowSizes
    <3>2. j \in 0 .. rod.win - 1
      BY <2>1, <3>1, DivMod
    <3> QED BY <2>1, <2>2, <3>2 DEF Nbuf
  <2> QED BY <1>1, <2>3 DEF RodInv, RodTypes, Queue, RodTypeOK, RodInsideArray
<1> QED BY <1>1, RodInvariant, PTL

\* Within a session packets go up in the order of their numbers and none goes
\* up twice: mtlk_reorder_packet, mtlk_rod_process_bar, the timer and the end
\* of the session retire every slot in the order of the window.
THEOREM RodAlwaysInOrder ==
  ASSUME Fits
  PROVE  RodSpec => []RodInOrder
<1>1. RodInv => RodInOrder
  BY DEF RodInv
<1> QED BY <1>1, RodInvariant, PTL

\* Every packet that waits is inside the window and in the slot where the head
\* meets it, the slot at the head is empty and the count is exact.
THEOREM RodSlotsAlwaysExact ==
  ASSUME Fits
  PROVE  RodSpec => []RodSlotsExact
<1>1. ASSUME RodInv PROVE RodSlotsExact
  <2>1. /\ rod.count = Cardinality(Held(rod))
        /\ ~rod.used => Held(rod) = {}
        /\ rod.used => rod.slot[rod.head % rod.win] = NoPkt
        /\ rod \in Queue /\ rod.win \in RodWin /\ rod.win \in Nat \ {0}
        /\ \A j \in Held(rod) : /\ rod.slot[j] \in rodAbs .. rodAbs + rod.win - 1
                                /\ j = rod.slot[j] % rod.win
                                /\ rod.slot[j] \in 0 .. PktMax
    BY <1>1, QueueFacts DEF RodInv, Good, Window
  <2>2. ASSUME NEW j \in Held(rod) PROVE (rod.slot[j] % RodLimit) % rod.win = j
    <3>1. RodLimit % rod.win = 0 /\ rod.slot[j] \in Int /\ RodLimit \in Nat \ {0}
      BY <2>1, WindowSizes DEF Fits
    <3>2. (rod.slot[j] % RodLimit) % rod.win = rod.slot[j] % rod.win
      <4>1. PICK x \in Int, m \in Nat \ {0}, w \in Nat \ {0} :
              x = rod.slot[j] /\ m = RodLimit /\ w = rod.win
        BY <2>1, <3>1
      <4>2. (x % m) % w = x % w
        BY <3>1, <4>1, ModMod, Zenon
      <4> QED BY <4>1, <4>2, Zenon
    <3> QED BY <2>1, <3>2
  <2>3. ~rod.used => rod.count = 0
    BY <2>1, FS_EmptySet
  <2> QED BY <2>1, <2>2, <2>3 DEF RodSlotsExact
<1> QED BY <1>1, RodInvariant, PTL
=============================================================================

--------------------------- MODULE SendQueueProofs ---------------------------
(***************************************************************************)
(* Safety of the send queue and the flow control on one processor, for     *)
(* every number of VAPs, stations, access categories, descriptors and      *)
(* frames under way, and every limit.                                      *)
(***************************************************************************)
EXTENDS MCDataPath, FwRecoveryProofs

-----------------------------------------------------------------------------
(***************************************************************************)
(* The invariant.  The types allow negative counters: that there are none  *)
(* follows from what they count, which is a sum over the contexts.  The    *)
(* operators PacketsOK, BdsOK and PowerOK take the state as arguments, so  *)
(* that a lemma can say what a change of the contexts does to them.        *)
(***************************************************************************)
Pkt == {Own} \cup SqExtra

\* The contexts, with counters that may be negative: that they are not follows
\* from what they count.
CtxShape == [on : BOOLEAN, q : [Ac -> Seq(Pkt)], used : Int, usedAc : [Ac -> Int],
             limit : {TxLimit, PmLimit}, ps : BOOLEAN, limAc : [Ac -> {0, UapsdLimit}]]
RefShape == [ref : Int, ac : Ac]

\* The handlers that are under way.
McShape == [on : {TRUE}, ex : SqExtra, left : SUBSET SqSta]
XmitShape == [on : {TRUE}, ctx : Ctx, stale : BOOLEAN]
FlushShape == [on : {TRUE}, ac : Ac, pos : Nat \ {0}, sent : BOOLEAN]
CfmShape == [on : {TRUE}, ctx : Ctx, ac : Ac, old : BOOLEAN]

SqShape ==
  /\ sqCtx \in [Ctx -> CtxShape]
  /\ sqList \in [Ac -> Seq(Ctx)] /\ sqSize \in [Ac -> Int]
  /\ sqLim \in [g : Nat \ {0}, p : Nat]
  /\ sqRef \in [SqExtra -> RefShape]
  /\ sqMc = NoMc \/ sqMc \in McShape
  /\ sqXmit = NoXmit \/ sqXmit \in XmitShape
  /\ sqTask \in BOOLEAN /\ sqProhib \in BOOLEAN
  /\ sqFlush = NoFlush \/ sqFlush \in FlushShape
  /\ flMask \subseteq SqVap \cup {"scan"}
  /\ sqFree \in Int /\ sqAir \in [Ctx -> [Ac -> Nat]] /\ sqOld \in [SqVap -> Nat]
  /\ sqCfm = NoCfm \/ sqCfm \in CfmShape
  /\ sqPs \in [SqVap -> Int] /\ sqNulls \in 0 .. NullMax

\* One handler runs at a time, and the context, the BD and the stations it was
\* begun with are still there.
TurnsInv ==
  /\ sqFlush.on => ~sqCfm.on /\ ~sqMc.on /\ ~sqXmit.on
  /\ sqCfm.on => ~sqMc.on /\ ~sqXmit.on
  /\ sqMc.on => ~sqXmit.on
  /\ sqXmit.on => ~sqXmit.stale /\ sqCtx[sqXmit.ctx].on
  /\ sqCfm.on => ~sqCfm.old /\ sqAir[sqCfm.ctx][sqCfm.ac] > 0
  /\ sqMc.on => \A s \in sqMc.left : sqCtx[s].on

\* Transmission is prohibited while somebody wants it stopped; a confirmation
\* that finds a free BD schedules the flush or finds the flow stopped.
FlowInv ==
  /\ sqProhib = (flMask # {})
  /\ sqCfm.on /\ sqFree > 0 => sqTask \/ flMask # {}

\* The list of a category has every linked context once; the context of a
\* station that is not connected is as it was left.
LinksInv ==
  /\ \A v \in SqVap : sqCtx[v].on
  /\ \A c \in Ctx : ~sqCtx[c].on => sqCtx[c] = Gone
  /\ \A a \in Ac : Distinct(sqList[a]) /\ Elems(sqList[a]) = Linked

\* How often packet p is in the list of category a of each context.
Tally(X, a, p) == [c \in Ctx |-> Count(X[c].q[a], p)]

\* The frames of category a of which there is a clone.
Frames(r, a) == {e \in SqExtra : r[e].ref > 0 /\ r[e].ac = a}

\* The frame that is being cloned has one reference of its own.
Held == IF sqMc.on THEN {sqMc.ex} ELSE {}

PacketsOK(X, size, r, H) ==
  /\ \A c \in Ctx, a \in Ac, e \in SqExtra : e \in Elems(X[c].q[a]) => r[e].ac = a
  /\ \A a \in Ac : size[a] = SumFunction(Tally(X, a, Own)) + Cardinality(Frames(r, a))
  /\ \A e \in SqExtra :
       r[e].ref = SumFunction(Tally(X, r[e].ac, e)) + IF e \in H THEN 1 ELSE 0

PacketsInv == PacketsOK(sqCtx, sqSize, sqRef, Held)

\* Every BD is free, in use by a context, or in use by a station that is gone;
\* a context is charged for those it uses.
BdsOK(X, free, air, old) ==
  /\ \A c \in Ctx : X[c].usedAc = air[c] /\ X[c].used = SumFunction(air[c])
  /\ free \in Nat
  /\ free + SumFunction([c \in Ctx |-> SumFunction(air[c])]) + SumFunction(old) = NBds

BdsInv == BdsOK(sqCtx, sqFree, sqAir, sqOld)

\* The stations of a VAP that save power.
Sleepers(X, v) == {s \in SqSta : X[s].on /\ StaVap[s] = v /\ X[s].ps}

PowerOK(X, n) ==
  \A v \in SqVap :
    /\ n[v] = Cardinality(Sleepers(X, v))
    /\ X[v].ps = (n[v] > 0)
    /\ X[v].limit = IF n[v] > 0 THEN Min({PmLimit, TxLimit}) ELSE TxLimit

PowerInv == PowerOK(sqCtx, sqPs)

\* A flush has nothing left to do in the categories and the part of the list
\* behind it, unless this pass sent a packet.
Settled(x, a) == x.q[a] = <<>> \/ AtLimit(x, a)

FlushInv ==
  sqFlush.on =>
    /\ \A c \in Linked, a \in Ac : a > sqFlush.ac => Settled(sqCtx[c], a)
    /\ ~sqFlush.sent => \A i \in DOMAIN sqList[sqFlush.ac] :
                           i < sqFlush.pos => Settled(sqCtx[sqList[sqFlush.ac][i]], sqFlush.ac)

QuietInv ==
  ~sqFlush.on /\ ~sqMc.on /\ ~sqCfm.on /\ ~sqTask /\ flMask = {} /\ sqFree = NBds =>
    \A c \in Ctx, a \in Ac : sqCtx[c].q[a] = <<>>

SqInv ==
  /\ SqShape /\ TurnsInv /\ FlowInv /\ LinksInv /\ PacketsInv /\ BdsInv /\ PowerInv
  /\ FlushInv /\ QuietInv

-----------------------------------------------------------------------------
(***************************************************************************)
(* The constants, and the operators on contexts.                           *)
(***************************************************************************)
LEMMA Constants ==
  /\ SqVap \subseteq Ctx /\ SqSta \subseteq Ctx /\ SqMaster \in Ctx /\ Ctx # {}
  /\ \A s \in SqSta : StaVap[s] \in SqVap /\ StaVap[s] \in Ctx /\ StaVap[s] # s /\ s \notin SqVap
  /\ \A c \in Ctx : VapOf(c) \in SqVap
  /\ Own \notin SqExtra /\ Own \in Pkt /\ SqExtra \subseteq Pkt
  /\ Ac = 1 .. NAc /\ Ac \subseteq Nat /\ NAc \in Ac /\ 1 \in Ac
  /\ TxLimit \in Nat \ {0} /\ PmLimit \in Nat \ {0} /\ UapsdLimit \in Nat \ {0}
  /\ NBds \in Nat /\ NBds >= 2
BY SqConstants DEF Ctx, VapOf, Own, Pkt, Ac

\* Contexts, categories and frames are finite, so that sums over them exist.
LEMMA Finite ==
  /\ IsFiniteSet(Ctx) /\ IsFiniteSet(SqSta) /\ IsFiniteSet(SqVap) /\ IsFiniteSet(SqExtra)
  /\ IsFiniteSet(Ac)
<1>1. IsFiniteSet(SqSta) /\ IsFiniteSet(SqVap)
  BY SqConstants, Constants, FS_Subset
<1>2. IsFiniteSet(Ac)
  BY SqConstants, FS_Interval DEF Ac
<1> QED BY <1>1, <1>2, SqConstants

\* The limit during power saving is one of the two limits.
LEMMA LimitsPm ==
  Min({PmLimit, TxLimit}) \in {TxLimit, PmLimit}
<1> DEFINE S == {PmLimit, TxLimit}
<1>1. \E x \in S : \A y \in S : x <= y
  BY Constants
<1> HIDE DEF S
<1>2. Min(S) \in S
  BY <1>1 DEF Min
<1> QED BY <1>2 DEF S

\* sq_set_peer_limits leaves every peer room for a packet.
LEMMA MaxOne ==
  ASSUME NEW n \in Nat
  PROVE  Max({1, n}) \in Nat \ {0}
<1> DEFINE S == {1, n}
<1>1. \E x \in S : \A y \in S : x >= y
  OBVIOUS
<1> HIDE DEF S
<1>2. Max(S) \in S /\ \A y \in S : Max(S) >= y
  BY <1>1 DEF Max
<1>3. 1 \in S /\ S \subseteq Nat
  BY DEF S
<1> QED BY <1>2, <1>3 DEF S

\* Limits rounded down stay natural numbers.
LEMMA DivNat ==
  ASSUME NEW m \in Nat, NEW n \in Nat \ {0}
  PROVE  m \div n \in Nat
OBVIOUS

\* mtlk_sq_peer_ctx_init
LEMMA FreshShape ==
  ASSUME NEW l \in [Ac -> {0, UapsdLimit}]
  PROVE  /\ Fresh(l) \in CtxShape /\ Fresh(l).on /\ ~Fresh(l).ps
         /\ Fresh(l).q = [a \in Ac |-> <<>>]
         /\ Fresh(l).used = 0 /\ Fresh(l).usedAc = [a \in Ac |-> 0] /\ Fresh(l).limit = TxLimit
BY Constants DEF Fresh, CtxShape

\* The context of a station that is not connected has no packets and owes none.
LEMMA GoneShape ==
  /\ Gone \in CtxShape /\ ~Gone.on /\ ~Gone.ps
  /\ Gone.q = [a \in Ac |-> <<>>]
  /\ Gone.used = 0 /\ Gone.usedAc = [a \in Ac |-> 0] /\ Gone.limit = TxLimit
<1> DEFINE l == [a \in Ac |-> 0]
<1>1. l \in [Ac -> {0, UapsdLimit}]
  OBVIOUS
<1>2. PICK x : x = Fresh(l)
  OBVIOUS
<1>3. /\ x \in CtxShape /\ ~x.ps /\ x.q = [a \in Ac |-> <<>>]
      /\ x.used = 0 /\ x.usedAc = [a \in Ac |-> 0] /\ x.limit = TxLimit
  BY <1>1, <1>2, FreshShape
<1>4. Gone = [x EXCEPT !.on = FALSE]
  BY <1>2 DEF Gone
<1> QED BY <1>3, <1>4 DEF CtxShape

\* mtlk_sq_peer_ctx_cancel_all_packets
LEMMA PurgedShape ==
  ASSUME NEW x \in CtxShape
  PROVE  /\ Purged(x) \in CtxShape
         /\ Purged(x).q = [a \in Ac |-> <<>>]
         /\ Purged(x).on = x.on /\ Purged(x).ps = x.ps /\ Purged(x).limit = x.limit
         /\ Purged(x).used = x.used /\ Purged(x).usedAc = x.usedAc /\ Purged(x).limAc = x.limAc
<1>1. PICK w : w = [a \in Ac |-> <<>>]
  OBVIOUS
<1>2. w \in [Ac -> Seq(Pkt)]
  BY <1>1
<1>3. PICK y : y = [x EXCEPT !.q = w]
  OBVIOUS
<1>4. /\ y \in CtxShape /\ y.q = w /\ y.on = x.on /\ y.ps = x.ps /\ y.limit = x.limit
      /\ y.used = x.used /\ y.usedAc = x.usedAc /\ y.limAc = x.limAc
  BY <1>2, <1>3 DEF CtxShape
<1>5. Purged(x) = y
  BY <1>1, <1>3 DEF Purged
<1> QED BY <1>1, <1>4, <1>5, Zenon

\* mtlk_core_set_pm_enabled
LEMMA BcastShape ==
  ASSUME NEW x \in CtxShape, NEW n \in Int
  PROVE  /\ BcastPm(x, n) \in CtxShape
         /\ BcastPm(x, n).q = x.q /\ BcastPm(x, n).on = x.on /\ BcastPm(x, n).ps = (n > 0)
         /\ BcastPm(x, n).limit = IF n > 0 THEN Min({PmLimit, TxLimit}) ELSE TxLimit
         /\ BcastPm(x, n).used = x.used /\ BcastPm(x, n).usedAc = x.usedAc
<1>1. PICK m \in {TxLimit, PmLimit} : m = IF n > 0 THEN Min({PmLimit, TxLimit}) ELSE TxLimit
  BY LimitsPm
<1>2. PICK b \in BOOLEAN : b = (n > 0)
  <2>1. (n > 0) \in BOOLEAN
    OBVIOUS
  <2> QED BY <2>1, Zenon
<1>3. BcastPm(x, n) = [x EXCEPT !.limit = m, !.ps = b]
  BY <1>1, <1>2 DEF BcastPm
<1>4. PICK y : y = [x EXCEPT !.limit = m, !.ps = b]
  OBVIOUS
<1>5. y \in CtxShape /\ y.q = x.q /\ y.on = x.on /\ y.ps = b /\ y.limit = m
      /\ y.used = x.used /\ y.usedAc = x.usedAc
  BY <1>4 DEF CtxShape
<1>6. y = BcastPm(x, n)
  BY <1>3, <1>4
<1>7. y \in CtxShape /\ y.q = x.q /\ y.on = x.on /\ y.ps = (n > 0)
      /\ y.limit = (IF n > 0 THEN Min({PmLimit, TxLimit}) ELSE TxLimit)
      /\ y.used = x.used /\ y.usedAc = x.usedAc
  BY <1>1, <1>2, <1>5, Zenon
<1> QED BY <1>6, <1>7, Zenon

\* mtlk_sq_enqueue_pkt
LEMMA PutShape ==
  ASSUME NEW x \in CtxShape, NEW a \in Ac, NEW p \in Pkt, NEW front \in BOOLEAN
  PROVE  /\ Put(x, a, p, front) \in CtxShape
         /\ Put(x, a, p, front).q[a] = IF front THEN <<p>> \o x.q[a] ELSE Append(x.q[a], p)
         /\ \A b \in Ac \ {a} : Put(x, a, p, front).q[b] = x.q[b]
         /\ Put(x, a, p, front).on = x.on /\ Put(x, a, p, front).ps = x.ps
         /\ Put(x, a, p, front).limit = x.limit /\ Put(x, a, p, front).used = x.used
         /\ Put(x, a, p, front).usedAc = x.usedAc /\ Put(x, a, p, front).limAc = x.limAc
<1>1. x.q \in [Ac -> Seq(Pkt)] /\ x.q[a] \in Seq(Pkt)
  BY DEF CtxShape
<1>2. PICK u : u = IF front THEN <<p>> \o x.q[a] ELSE Append(x.q[a], p)
  OBVIOUS
<1>3. u \in Seq(Pkt)
  BY <1>1, <1>2
<1>4. PICK w : w = [x.q EXCEPT ![a] = u]
  OBVIOUS
<1>5. w \in [Ac -> Seq(Pkt)]
  BY <1>1, <1>3, <1>4
<1>6. PICK y : y = [x EXCEPT !.q = w]
  OBVIOUS
<1>7. Put(x, a, p, front) = y
  BY <1>2, <1>4, <1>6 DEF Put
<1>8. /\ y \in CtxShape /\ y.q = w /\ y.on = x.on /\ y.ps = x.ps /\ y.limit = x.limit
      /\ y.used = x.used /\ y.usedAc = x.usedAc /\ y.limAc = x.limAc
  BY <1>5, <1>6 DEF CtxShape
<1>9. /\ w[a] = IF front THEN <<p>> \o x.q[a] ELSE Append(x.q[a], p)
      /\ \A b \in Ac \ {a} : w[b] = x.q[b]
  BY <1>1, <1>2, <1>4
<1> QED BY <1>7, <1>8, <1>9, Zenon

-----------------------------------------------------------------------------
(***************************************************************************)
(* Packets.                                                                *)
(***************************************************************************)
LEMMA ListType ==
  ASSUME NEW x \in CtxShape, NEW a \in Ac
  PROVE  x.q \in [Ac -> Seq(Pkt)] /\ x.q[a] \in Seq(Pkt)
BY DEF CtxShape

\* Counts over the contexts are natural, and zero only without such a packet.
LEMMA TallyType ==
  ASSUME NEW X \in [Ctx -> CtxShape], NEW a \in Ac, NEW p
  PROVE  /\ Tally(X, a, p) \in [Ctx -> Nat]
         /\ \A c \in Ctx : Tally(X, a, p)[c] = Count(X[c].q[a], p)
         /\ SumFunction(Tally(X, a, p)) \in Nat
         /\ SumFunction(Tally(X, a, p)) = 0 => \A c \in Ctx : p \notin Elems(X[c].q[a])
<1>1. ASSUME NEW c \in Ctx
      PROVE  Count(X[c].q[a], p) \in Nat /\ (Count(X[c].q[a], p) = 0 => p \notin Elems(X[c].q[a]))
  <2>1. X[c] \in CtxShape
    OBVIOUS
  <2>2. X[c].q[a] \in Seq(Pkt)
    BY <2>1, ListType, Zenon
  <2> QED BY <2>2, CountType, Zenon
<1>2. /\ Tally(X, a, p) \in [Ctx -> Nat]
      /\ \A c \in Ctx : Tally(X, a, p)[c] = Count(X[c].q[a], p)
  BY <1>1 DEF Tally
<1>3. PICK f : f = Tally(X, a, p)
  OBVIOUS
<1>4. SumFunction(f) \in Nat /\ \A c \in Ctx : f[c] <= SumFunction(f)
  BY <1>2, <1>3, Finite, SumBounds
<1>5. ASSUME SumFunction(f) = 0, NEW c \in Ctx PROVE f[c] = 0
  <2>1. f[c] \in Nat /\ f[c] <= 0
    BY <1>2, <1>3, <1>4, <1>5
  <2> QED BY <2>1
<1> QED BY <1>1, <1>2, <1>3, <1>4, <1>5, Zenon

\* When only the lists of one context change, the counts change with it.
LEMMA TallyMoved ==
  ASSUME NEW X \in [Ctx -> CtxShape], NEW Y \in [Ctx -> CtxShape], NEW c \in Ctx,
         \A d \in Ctx \ {c} : Y[d].q = X[d].q,
         NEW a \in Ac, NEW p
  PROVE  SumFunction(Tally(Y, a, p)) + Count(X[c].q[a], p)
           = SumFunction(Tally(X, a, p)) + Count(Y[c].q[a], p)
<1>1. PICK f : f = Tally(X, a, p)
  OBVIOUS
<1>2. PICK g : g = Tally(Y, a, p)
  OBVIOUS
<1>3. f \in [Ctx -> Nat] /\ g \in [Ctx -> Nat]
  BY <1>1, <1>2, TallyType
<1>4. \A d \in Ctx \ {c} : g[d] = f[d]
  BY <1>1, <1>2 DEF Tally
<1>5. SumFunction(g) + f[c] = SumFunction(f) + g[c]
  BY <1>3, <1>4, Finite, SumUpdate
<1> QED BY <1>1, <1>2, <1>5 DEF Tally

\* Who leaves the lists alone leaves the counts alone.
LEMMA TallySame ==
  ASSUME NEW X \in [Ctx -> CtxShape], NEW Y \in [Ctx -> CtxShape],
         \A d \in Ctx : Y[d].q = X[d].q
  PROVE  \A a \in Ac : \A p : Tally(Y, a, p) = Tally(X, a, p)
BY DEF Tally

\* What a cancellation counts, for all contexts and for one.
LEMMA InListsAll ==
  ASSUME NEW a, NEW p
  PROVE  InLists(Ctx, a, p) = SumFunction(Tally(sqCtx, a, p))
BY DEF InLists, Tally

\* The sum over a single context.
LEMMA InListsOne ==
  ASSUME sqCtx \in [Ctx -> CtxShape], NEW c \in Ctx, NEW a \in Ac, NEW p
  PROVE  InLists({c}, a, p) = Count(sqCtx[c].q[a], p)
<1>1. PICK f : f = [d \in {c} |-> Count(sqCtx[d].q[a], p)]
  OBVIOUS
<1>2. Count(sqCtx[c].q[a], p) \in Nat
  <2>1. sqCtx[c].q[a] \in Seq(Pkt)
    BY ListType
  <2> QED BY <2>1, CountType
<1>3. f \in [{c} -> Nat] /\ f[c] = Count(sqCtx[c].q[a], p)
  BY <1>1, <1>2
<1>4. SumFunction(f) = f[c]
  BY <1>3, SumOne
<1> QED BY <1>1, <1>3, <1>4 DEF InLists

\* A packet that is in no list is counted zero times.
LEMMA InListsType ==
  ASSUME sqCtx \in [Ctx -> CtxShape], NEW S \in SUBSET Ctx, NEW a \in Ac, NEW p
  PROVE  /\ InLists(S, a, p) \in Nat
         /\ (\A c \in S : p \notin Elems(sqCtx[c].q[a])) => InLists(S, a, p) = 0
<1>1. PICK f : f = [d \in S |-> Count(sqCtx[d].q[a], p)]
  OBVIOUS
<1>2. ASSUME NEW d \in S
      PROVE  Count(sqCtx[d].q[a], p) \in Nat
             /\ (p \notin Elems(sqCtx[d].q[a]) => Count(sqCtx[d].q[a], p) = 0)
  <2>1. d \in Ctx /\ sqCtx[d] \in CtxShape
    OBVIOUS
  <2>2. sqCtx[d].q[a] \in Seq(Pkt)
    BY <2>1, ListType, Zenon
  <2> QED BY <2>2, CountType, Zenon
<1>3. f \in [S -> Nat] /\ \A d \in S : f[d] = Count(sqCtx[d].q[a], p)
  BY <1>1, <1>2
<1>4. IsFiniteSet(S)
  BY Finite, FS_Subset
<1>5. SumFunction(f) \in Nat
  BY <1>3, <1>4, SumBounds
<1>6. ASSUME \A c \in S : p \notin Elems(sqCtx[c].q[a]) PROVE SumFunction(f) = 0
  <2>1. \A c \in S : f[c] = 0
    BY <1>2, <1>3, <1>6
  <2> QED BY <1>3, <1>4, <2>1, SumZero
<1> QED BY <1>1, <1>5, <1>6 DEF InLists

\* All the clones of a frame are in the lists of its category.
LEMMA ClonesInCategory ==
  ASSUME SqShape, PacketsInv, NEW S \in SUBSET Ctx, NEW e \in SqExtra
  PROVE  Clones(S, e) = InLists(S, sqRef[e].ac, e)
<1>1. PICK f : f = [a \in Ac |-> InLists(S, a, e)]
  OBVIOUS
<1>2. sqCtx \in [Ctx -> CtxShape] /\ sqRef[e].ac \in Ac
  BY DEF SqShape, RefShape
<1>3. f \in [Ac -> Nat] /\ \A a \in Ac : f[a] = InLists(S, a, e)
  BY <1>1, <1>2, InListsType
<1>4. ASSUME NEW a \in Ac \ {sqRef[e].ac} PROVE f[a] = 0
  <2>1. \A c \in S : e \notin Elems(sqCtx[c].q[a])
    BY DEF PacketsInv, PacketsOK
  <2> QED BY <1>2, <1>3, <2>1, InListsType
<1>5. SumFunction(f) = f[sqRef[e].ac]
  BY <1>2, <1>3, <1>4, Finite, SumOnly
<1> QED BY <1>1, <1>2, <1>3, <1>5 DEF Clones

\* Y is X with one more packet p in the list of category a of context c.
OneMore(X, Y, c, a, p) ==
  /\ \A d \in Ctx \ {c} : Y[d].q = X[d].q
  /\ \A b \in Ac \ {a} : Y[c].q[b] = X[c].q[b]
  /\ \A x : Count(Y[c].q[a], x) = Count(X[c].q[a], x) + IF p = x THEN 1 ELSE 0

\* Only the count of that packet, in that category, goes up.
LEMMA TallyOneMore ==
  ASSUME NEW X \in [Ctx -> CtxShape], NEW Y \in [Ctx -> CtxShape], NEW c \in Ctx, NEW a \in Ac,
         NEW p, OneMore(X, Y, c, a, p), NEW b \in Ac, NEW x
  PROVE  SumFunction(Tally(Y, b, x)) =
           SumFunction(Tally(X, b, x)) + IF b = a /\ p = x THEN 1 ELSE 0
<1>1. PICK m : m = SumFunction(Tally(X, b, x))
  OBVIOUS
<1>2. PICK n : n = SumFunction(Tally(Y, b, x))
  OBVIOUS
<1>3. PICK i : i = Count(X[c].q[b], x)
  OBVIOUS
<1>4. PICK j : j = Count(Y[c].q[b], x)
  OBVIOUS
<1>5. m \in Nat /\ n \in Nat
  BY <1>1, <1>2, TallyType
<1>6. i \in Nat /\ j \in Nat
  <2>1. X[c] \in CtxShape /\ Y[c] \in CtxShape
    OBVIOUS
  <2>2. X[c].q[b] \in Seq(Pkt) /\ Y[c].q[b] \in Seq(Pkt)
    BY <2>1, ListType, Zenon
  <2> QED BY <1>3, <1>4, <2>2, CountType, Zenon
<1>7. n + i = m + j
  BY <1>1, <1>2, <1>3, <1>4, TallyMoved DEF OneMore
<1>8. j = i + IF b = a /\ p = x THEN 1 ELSE 0
  <2>1. CASE b = a
    BY <1>3, <1>4, <2>1 DEF OneMore
  <2>2. CASE b # a
    BY <1>3, <1>4, <1>6, <2>2 DEF OneMore
  <2> QED BY <2>1, <2>2
<1>9. n = m + IF b = a /\ p = x THEN 1 ELSE 0
  BY <1>5, <1>6, <1>7, <1>8
<1> QED BY <1>1, <1>2, <1>9

\* Frames are counted by the cardinality of a finite set.
LEMMA FramesType ==
  ASSUME NEW r, NEW a
  PROVE  IsFiniteSet(Frames(r, a)) /\ Cardinality(Frames(r, a)) \in Nat
<1>1. Frames(r, a) \in SUBSET SqExtra
  BY DEF Frames
<1> QED BY <1>1, Finite, FS_Subset, FS_CardinalityType

\* The counter of a frame goes from 0 to a positive number or back, in one
\* category.
LEMMA FramesOneMore ==
  ASSUME NEW r \in [SqExtra -> RefShape], NEW t \in [SqExtra -> RefShape], NEW e \in SqExtra,
         \A f \in SqExtra \ {e} : t[f] = r[f], ~(r[e].ref > 0), t[e].ref > 0, NEW b \in Ac
  PROVE  Cardinality(Frames(t, b)) = Cardinality(Frames(r, b)) + IF b = t[e].ac THEN 1 ELSE 0
<1>1. IsFiniteSet(Frames(r, b)) /\ Cardinality(Frames(r, b)) \in Nat
  BY FramesType
<1>2. CASE b = t[e].ac
  <2>1. Frames(t, b) = Frames(r, b) \cup {e} /\ e \notin Frames(r, b)
    BY <1>2 DEF Frames
  <2>2. PICK F : F = Frames(r, b)
    OBVIOUS
  <2>3. Cardinality(F \cup {e}) = Cardinality(F) + 1
    BY <1>1, <2>1, <2>2, FS_AddElement
  <2> QED BY <1>2, <2>1, <2>2, <2>3
<1>3. CASE b # t[e].ac
  <2>1. Frames(t, b) = Frames(r, b)
    BY <1>3 DEF Frames
  <2> QED BY <1>1, <1>3, <2>1
<1> QED BY <1>2, <1>3

\* mtlk_sq_enqueue
LEMMA PacketsPut ==
  ASSUME NEW X \in [Ctx -> CtxShape], NEW Y \in [Ctx -> CtxShape], NEW c \in Ctx, NEW a \in Ac,
         OneMore(X, Y, c, a, Own), Elems(Y[c].q[a]) = Elems(X[c].q[a]) \cup {Own},
         NEW size \in [Ac -> Int], NEW r \in [SqExtra -> RefShape], NEW H, PacketsOK(X, size, r, H)
  PROVE  PacketsOK(Y, [size EXCEPT ![a] = @ + 1], r, H)
<1>1. ASSUME NEW d \in Ctx, NEW b \in Ac, NEW e \in SqExtra, e \in Elems(Y[d].q[b])
      PROVE  r[e].ac = b
  <2>1. e # Own
    BY Constants
  <2>2. e \in Elems(X[d].q[b])
    <3>1. CASE d # c
      BY <1>1, <3>1 DEF OneMore
    <3>2. CASE d = c /\ b # a
      BY <1>1, <3>2 DEF OneMore
    <3>3. CASE d = c /\ b = a
      BY <1>1, <2>1, <3>3
    <3> QED BY <3>1, <3>2, <3>3
  <2> QED BY <2>2 DEF PacketsOK
<1>2. ASSUME NEW b \in Ac
      PROVE  [size EXCEPT ![a] = @ + 1][b] =
               SumFunction(Tally(Y, b, Own)) + Cardinality(Frames(r, b))
  <2>1. SumFunction(Tally(Y, b, Own)) = SumFunction(Tally(X, b, Own)) + IF b = a THEN 1 ELSE 0
    BY TallyOneMore
  <2>2. SumFunction(Tally(X, b, Own)) \in Nat /\ Cardinality(Frames(r, b)) \in Nat
    BY TallyType, FramesType
  <2>3. size[b] = SumFunction(Tally(X, b, Own)) + Cardinality(Frames(r, b))
    BY DEF PacketsOK
  <2> QED BY <2>1, <2>2, <2>3
<1>3. ASSUME NEW e \in SqExtra
      PROVE  SumFunction(Tally(Y, r[e].ac, e)) = SumFunction(Tally(X, r[e].ac, e))
  <2>1. e # Own
    BY Constants
  <2>2. r[e].ac \in Ac
    BY DEF RefShape
  <2>3. SumFunction(Tally(X, r[e].ac, e)) \in Nat
    BY <2>2, TallyType
  <2> QED BY <2>1, <2>2, <2>3, TallyOneMore
<1> QED BY <1>1, <1>2, <1>3 DEF PacketsOK

\* A counter that is decremented: the frames that remain.
LEMMA FramesDecrement ==
  ASSUME NEW r \in [SqExtra -> RefShape], NEW t \in [SqExtra -> RefShape], NEW e \in SqExtra,
         r[e].ref > 0, 
         t[e].ref = r[e].ref - 1, \A f \in SqExtra \ {e} : t[f] = r[f],
         \A f \in SqExtra : t[f].ac = r[f].ac, NEW b \in Ac
  PROVE  Cardinality(Frames(r, b)) =
           Cardinality(Frames(t, b)) + IF r[e].ref = 1 /\ b = r[e].ac THEN 1 ELSE 0
<1>1. r[e].ref \in Int /\ \A f \in SqExtra \ {e} : r[f] = t[f]
  BY DEF RefShape
<1>4. CASE r[e].ref = 1
  <2>1. ~(t[e].ref > 0)
    BY <1>4
  <2>2. Cardinality(Frames(r, b)) = Cardinality(Frames(t, b)) + IF b = r[e].ac THEN 1 ELSE 0
    BY <1>1, <2>1, FramesOneMore
  <2> QED BY <1>4, <2>2
<1>5. CASE r[e].ref # 1
  <2>1. t[e].ref > 0
    BY <1>1, <1>5
  <2>2. Cardinality(Frames(r, b)) = Cardinality(Frames(t, b)) + 0
    <3>1. Frames(r, b) = Frames(t, b)
      BY <2>1 DEF Frames
    <3>2. Cardinality(Frames(t, b)) \in Nat
      BY FramesType
    <3> QED BY <3>1, <3>2
  <2> QED BY <1>5, <2>2
<1> QED BY <1>4, <1>5

\* _mtlk_sq_release_packet, from size and r to z and t.
Releases(size, r, z, t, a, p) ==
  /\ z = IF p = Own \/ r[p].ref = 1 THEN [size EXCEPT ![a] = @ - 1] ELSE size
  /\ t = IF p = Own THEN r ELSE [r EXCEPT ![p].ref = @ - 1]

\* _mtlk_sq_release_packet of a packet that leaves its list
LEMMA PacketsTake ==
  ASSUME NEW X \in [Ctx -> CtxShape], NEW Y \in [Ctx -> CtxShape], NEW c \in Ctx, NEW a \in Ac,
         NEW p \in Pkt, OneMore(Y, X, c, a, p),
         p \in Elems(X[c].q[a]), Elems(Y[c].q[a]) \subseteq Elems(X[c].q[a]),
         NEW size \in [Ac -> Int], NEW r \in [SqExtra -> RefShape], NEW H,
         PacketsOK(X, size, r, H),
         NEW z, NEW t, Releases(size, r, z, t, a, p)
  PROVE  PacketsOK(Y, z, t, H) /\ z \in [Ac -> Int] /\ t \in [SqExtra -> RefShape]
<1>z. z = IF p = Own \/ r[p].ref = 1 THEN [size EXCEPT ![a] = @ - 1] ELSE size
  BY DEF Releases
<1>t. t = IF p = Own THEN r ELSE [r EXCEPT ![p].ref = @ - 1]
  BY DEF Releases
<1> USE <1>z, <1>t
<1>1. ASSUME NEW d \in Ctx, NEW b \in Ac, NEW e \in SqExtra, e \in Elems(Y[d].q[b])
      PROVE  r[e].ac = b
  <2>1. e \in Elems(X[d].q[b])
    <3>1. CASE d # c
      BY <1>1, <3>1 DEF OneMore
    <3>2. CASE d = c /\ b # a
      BY <1>1, <3>2 DEF OneMore
    <3>3. CASE d = c /\ b = a
      BY <1>1, <3>3
    <3> QED BY <3>1, <3>2, <3>3
  <2> QED BY <2>1 DEF PacketsOK
<1>2. \A b \in Ac : \A x : /\ SumFunction(Tally(X, b, x)) =
                                SumFunction(Tally(Y, b, x)) + IF b = a /\ p = x THEN 1 ELSE 0
                           /\ SumFunction(Tally(X, b, x)) \in Nat /\ SumFunction(Tally(Y, b, x)) \in Nat
  <2> SUFFICES ASSUME NEW b \in Ac, NEW x
               PROVE  /\ SumFunction(Tally(X, b, x)) =
                           SumFunction(Tally(Y, b, x)) + IF b = a /\ p = x THEN 1 ELSE 0
                      /\ SumFunction(Tally(X, b, x)) \in Nat /\ SumFunction(Tally(Y, b, x)) \in Nat
    BY Zenon
  <2>1. SumFunction(Tally(X, b, x)) = SumFunction(Tally(Y, b, x)) + IF b = a /\ p = x THEN 1 ELSE 0
    BY TallyOneMore
  <2>2. SumFunction(Tally(X, b, x)) \in Nat /\ SumFunction(Tally(Y, b, x)) \in Nat
    BY TallyType, Zenon
  <2> QED BY <2>1, <2>2, Zenon
<1>3. /\ \A b \in Ac : size[b] = SumFunction(Tally(X, b, Own)) + Cardinality(Frames(r, b))
      /\ \A e \in SqExtra :
           r[e].ref = SumFunction(Tally(X, r[e].ac, e)) + IF e \in H THEN 1 ELSE 0
  BY DEF PacketsOK
<1>4. \A b \in Ac : Cardinality(Frames(r, b)) \in Nat
  BY FramesType
<1>5. z \in [Ac -> Int]
  OBVIOUS
<1>6. \A e \in SqExtra : e # Own /\ r[e].ac \in Ac /\ r[e].ref \in Int
  BY Constants DEF RefShape
<1>7. CASE p = Own
  <2>1. t = r /\ z = [size EXCEPT ![a] = @ - 1]
    BY <1>7
  <2>2. ASSUME NEW b \in Ac
        PROVE  z[b] = SumFunction(Tally(Y, b, Own)) + Cardinality(Frames(t, b))
    <3>1. /\ SumFunction(Tally(X, b, Own)) =
               SumFunction(Tally(Y, b, Own)) + IF b = a THEN 1 ELSE 0
          /\ SumFunction(Tally(Y, b, Own)) \in Nat
      BY <1>2, <1>7
    <3>2. z[b] = size[b] - IF b = a THEN 1 ELSE 0
      BY <2>1
    <3>3. size[b] = SumFunction(Tally(X, b, Own)) + Cardinality(Frames(t, b))
      BY <1>3, <2>1
    <3>4. Cardinality(Frames(t, b)) \in Nat
      BY FramesType
    <3> QED BY <3>1, <3>2, <3>3, <3>4
  <2>3. ASSUME NEW e \in SqExtra
        PROVE  SumFunction(Tally(X, r[e].ac, e)) = SumFunction(Tally(Y, r[e].ac, e))
    <3>1. p # e
      BY <1>6, <1>7
    <3> QED BY <1>2, <1>6, <3>1
  <2>4. ASSUME NEW e \in SqExtra
        PROVE  r[e].ref = SumFunction(Tally(Y, r[e].ac, e)) + IF e \in H THEN 1 ELSE 0
    BY <1>3, <2>3, Zenon
  <2>5. PacketsOK(Y, z, r, H)
    BY <1>1, <2>1, <2>2, <2>4 DEF PacketsOK
  <2> QED BY <1>5, <2>1, <2>5
<1>8. CASE p # Own
  <2>1. p \in SqExtra /\ r[p].ac = a
    BY <1>8 DEF Pkt, PacketsOK
  <2>2. r[p].ref > 0
    <3>1. SumFunction(Tally(X, a, p)) = SumFunction(Tally(Y, a, p)) + 1
      BY <1>2
    <3> QED BY <1>2, <1>3, <2>1, <3>1
  <2>3. /\ t \in [SqExtra -> RefShape]
        /\ t[p].ref = r[p].ref - 1
        /\ \A f \in SqExtra \ {p} : t[f] = r[f]
        /\ \A f \in SqExtra : t[f].ac = r[f].ac
        /\ \A b \in Ac : Cardinality(Frames(r, b)) =
             Cardinality(Frames(t, b)) + IF r[p].ref = 1 /\ b = r[p].ac THEN 1 ELSE 0
    <3>1. PICK u : u = [r EXCEPT ![p].ref = @ - 1]
      OBVIOUS
    <3>2. /\ u \in [SqExtra -> RefShape]
          /\ u[p].ref = r[p].ref - 1
          /\ \A f \in SqExtra \ {p} : u[f] = r[f]
          /\ \A f \in SqExtra : u[f].ac = r[f].ac
      BY <2>1, <3>1 DEF RefShape
    <3>3. \A b \in Ac : Cardinality(Frames(r, b)) =
            Cardinality(Frames(u, b)) + IF r[p].ref = 1 /\ b = r[p].ac THEN 1 ELSE 0
      BY <2>1, <2>2, <3>2, FramesDecrement
    <3>4. t = u
      BY <1>8, <3>1
    <3> QED BY <3>2, <3>3, <3>4, Zenon
  <2>4. ASSUME NEW b \in Ac
        PROVE  z[b] = SumFunction(Tally(Y, b, Own)) + Cardinality(Frames(t, b))
    <3>1. SumFunction(Tally(X, b, Own)) = SumFunction(Tally(Y, b, Own))
      BY <1>2, <1>8
    <3>2. z = IF r[p].ref = 1 THEN [size EXCEPT ![a] = @ - 1] ELSE size
      BY <1>8
    <3>3. z[b] = size[b] - IF r[p].ref = 1 /\ b = a THEN 1 ELSE 0
      BY <3>2
    <3>4. Cardinality(Frames(t, b)) \in Nat
      BY FramesType
    <3>5. Cardinality(Frames(r, b)) = Cardinality(Frames(t, b)) + IF r[p].ref = 1 /\ b = a THEN 1 ELSE 0
      BY <2>1, <2>3
    <3> QED BY <1>2, <1>3, <3>1, <3>3, <3>4, <3>5
  <2>5. ASSUME NEW e \in SqExtra
        PROVE  t[e].ref = SumFunction(Tally(Y, t[e].ac, e)) + IF e \in H THEN 1 ELSE 0
    <3>1. /\ SumFunction(Tally(X, r[e].ac, e)) =
               SumFunction(Tally(Y, r[e].ac, e)) + IF r[e].ac = a /\ p = e THEN 1 ELSE 0
          /\ SumFunction(Tally(X, r[e].ac, e)) \in Nat /\ SumFunction(Tally(Y, r[e].ac, e)) \in Nat
      BY <1>2, <1>6
    <3>2. r[e].ref = SumFunction(Tally(X, r[e].ac, e)) + IF e \in H THEN 1 ELSE 0
      BY <1>3
    <3>3. t[e].ref = r[e].ref - IF p = e THEN 1 ELSE 0
      BY <1>6, <2>3
    <3> QED BY <2>1, <2>3, <3>1, <3>2, <3>3
  <2>6. \A d \in Ctx, b \in Ac, e \in SqExtra : e \in Elems(Y[d].q[b]) => t[e].ac = b
    BY <1>1, <2>3, Zenon
  <2>7. PacketsOK(Y, z, t, H)
    BY <2>4, <2>5, <2>6, Zenon DEF PacketsOK
  <2> QED BY <1>5, <2>3, <2>7, Zenon
<1> QED BY <1>7, <1>8

\* mtlk_sq_enqueue_clone_end drops the reference of its own
LEMMA PacketsUnhold ==
  ASSUME NEW X \in [Ctx -> CtxShape], NEW e \in SqExtra,
         NEW size \in [Ac -> Int], NEW r \in [SqExtra -> RefShape],
         PacketsOK(X, size, r, {e}),
         NEW z, NEW t, Releases(size, r, z, t, r[e].ac, e)
  PROVE  PacketsOK(X, z, t, {}) /\ z \in [Ac -> Int] /\ t \in [SqExtra -> RefShape]
<1>z. z = IF e = Own \/ r[e].ref = 1 THEN [size EXCEPT ![r[e].ac] = @ - 1] ELSE size
  BY DEF Releases
<1>t. t = IF e = Own THEN r ELSE [r EXCEPT ![e].ref = @ - 1]
  BY DEF Releases
<1> USE <1>z, <1>t
<1>1. \A f \in SqExtra : f # Own /\ r[f].ac \in Ac /\ r[f].ref \in Int
                         /\ SumFunction(Tally(X, r[f].ac, f)) \in Nat
  BY Constants, TallyType DEF RefShape
<1>2. /\ \A b \in Ac : size[b] = SumFunction(Tally(X, b, Own)) + Cardinality(Frames(r, b))
      /\ \A f \in SqExtra :
           r[f].ref = SumFunction(Tally(X, r[f].ac, f)) + IF f \in {e} THEN 1 ELSE 0
  BY DEF PacketsOK
<1>3. r[e].ref = SumFunction(Tally(X, r[e].ac, e)) + 1
  BY <1>2
<1>4. r[e].ref > 0
  BY <1>1, <1>3
<1>5. /\ t \in [SqExtra -> RefShape]
      /\ t[e].ref = r[e].ref - 1
      /\ \A f \in SqExtra \ {e} : t[f] = r[f]
      /\ \A f \in SqExtra : t[f].ac = r[f].ac
      /\ \A b \in Ac : Cardinality(Frames(r, b)) =
           Cardinality(Frames(t, b)) + IF r[e].ref = 1 /\ b = r[e].ac THEN 1 ELSE 0
  <2>1. PICK u : u = [r EXCEPT ![e].ref = @ - 1]
    OBVIOUS
  <2>2. /\ u \in [SqExtra -> RefShape]
        /\ u[e].ref = r[e].ref - 1
        /\ \A f \in SqExtra \ {e} : u[f] = r[f]
        /\ \A f \in SqExtra : u[f].ac = r[f].ac
    BY <2>1 DEF RefShape
  <2>3. \A b \in Ac : Cardinality(Frames(r, b)) =
          Cardinality(Frames(u, b)) + IF r[e].ref = 1 /\ b = r[e].ac THEN 1 ELSE 0
    BY <1>4, <2>2, FramesDecrement
  <2>4. t = u
    BY <1>1, <2>1
  <2> QED BY <2>2, <2>3, <2>4, Zenon
<1>6. z \in [Ac -> Int]
  BY <1>1
<1>7. ASSUME NEW b \in Ac
      PROVE  z[b] = SumFunction(Tally(X, b, Own)) + Cardinality(Frames(t, b))
  <2>1. z = IF r[e].ref = 1 THEN [size EXCEPT ![r[e].ac] = @ - 1] ELSE size
    BY <1>1
  <2>2. z[b] = size[b] - IF r[e].ref = 1 /\ b = r[e].ac THEN 1 ELSE 0
    BY <1>1, <2>1
  <2>3. Cardinality(Frames(t, b)) \in Nat /\ SumFunction(Tally(X, b, Own)) \in Nat
    BY FramesType, TallyType
  <2>4. size[b] = SumFunction(Tally(X, b, Own)) + Cardinality(Frames(r, b))
    BY <1>2
  <2>5. Cardinality(Frames(r, b)) =
          Cardinality(Frames(t, b)) + IF r[e].ref = 1 /\ b = r[e].ac THEN 1 ELSE 0
    BY <1>5, Zenon
  <2> QED BY <2>2, <2>3, <2>4, <2>5
<1>8. ASSUME NEW f \in SqExtra
      PROVE  t[f].ref = SumFunction(Tally(X, t[f].ac, f)) + IF f \in {} THEN 1 ELSE 0
  <2>1. CASE f = e
    BY <1>1, <1>3, <1>5, <2>1
  <2>2. CASE f # e
    BY <1>1, <1>2, <1>5, <2>2
  <2> QED BY <2>1, <2>2
<1>9. \A c \in Ctx, a \in Ac, f \in SqExtra : f \in Elems(X[c].q[a]) => t[f].ac = a
  BY <1>5 DEF PacketsOK
<1> QED BY <1>5, <1>6, <1>7, <1>8, <1>9 DEF PacketsOK

\* mtlk_sq_enqueue_clone_begin takes a free counter
LEMMA PacketsHold ==
  ASSUME NEW X \in [Ctx -> CtxShape], NEW e \in SqExtra, NEW a \in Ac,
         NEW size \in [Ac -> Int], NEW r \in [SqExtra -> RefShape],
         PacketsOK(X, size, r, {}), r[e].ref = 0,
         NEW t \in [SqExtra -> RefShape], t[e].ref = 1, t[e].ac = a,
         \A f \in SqExtra \ {e} : t[f] = r[f]
  PROVE  PacketsOK(X, [size EXCEPT ![a] = @ + 1], t, {e})
<1>1. \A f \in SqExtra : r[f].ac \in Ac /\ SumFunction(Tally(X, r[f].ac, f)) \in Nat
  BY TallyType DEF RefShape
<1>2. /\ \A b \in Ac : size[b] = SumFunction(Tally(X, b, Own)) + Cardinality(Frames(r, b))
      /\ \A f \in SqExtra :
           r[f].ref = SumFunction(Tally(X, r[f].ac, f)) + IF f \in {} THEN 1 ELSE 0
      /\ \A c \in Ctx, b \in Ac, f \in SqExtra : f \in Elems(X[c].q[b]) => r[f].ac = b
  BY DEF PacketsOK
<1>3. \A c \in Ctx, b \in Ac : e \notin Elems(X[c].q[b])
  <2>1. SumFunction(Tally(X, r[e].ac, e)) = 0
    BY <1>1, <1>2
  <2>2. \A c \in Ctx : e \notin Elems(X[c].q[r[e].ac])
    BY <1>1, <2>1, TallyType
  <2> QED BY <1>2, <2>2
<1>4. SumFunction(Tally(X, a, e)) = 0
  <2>1. \A c \in Ctx : X[c].q[a] \in Seq(Pkt)
    BY ListType
  <2>2. PICK f : f = Tally(X, a, e)
    OBVIOUS
  <2>3. f \in [Ctx -> Nat] /\ \A c \in Ctx : f[c] = Count(X[c].q[a], e)
    BY <2>2, TallyType
  <2>4. \A c \in Ctx : f[c] = 0
    <3> TAKE c \in Ctx
    <3>1. X[c].q[a] \in Seq(Pkt) /\ e \notin Elems(X[c].q[a])
      BY <1>3, <2>1
    <3>2. Count(X[c].q[a], e) = 0
      BY <3>1, CountType, Zenon
    <3> QED BY <2>3, <3>2
  <2> QED BY <2>2, <2>3, <2>4, Finite, SumZero
<1>5. ASSUME NEW b \in Ac
      PROVE  [size EXCEPT ![a] = @ + 1][b] =
               SumFunction(Tally(X, b, Own)) + Cardinality(Frames(t, b))
  <2>1. ~(r[e].ref > 0) /\ t[e].ref > 0
    OBVIOUS
  <2>2. Cardinality(Frames(t, b)) = Cardinality(Frames(r, b)) + IF b = t[e].ac THEN 1 ELSE 0
    BY <2>1, FramesOneMore
  <2>3. Cardinality(Frames(r, b)) \in Nat /\ SumFunction(Tally(X, b, Own)) \in Nat
    BY FramesType, TallyType
  <2>4. size[b] = SumFunction(Tally(X, b, Own)) + Cardinality(Frames(r, b))
    BY <1>2
  <2> QED BY <2>2, <2>3, <2>4
<1>6. ASSUME NEW f \in SqExtra
      PROVE  t[f].ref = SumFunction(Tally(X, t[f].ac, f)) + IF f \in {e} THEN 1 ELSE 0
  <2>1. CASE f = e
    BY <1>4, <2>1
  <2>2. CASE f # e
    BY <1>2, <2>2
  <2> QED BY <2>1, <2>2
<1>7. \A c \in Ctx, b \in Ac, f \in SqExtra : f \in Elems(X[c].q[b]) => t[f].ac = b
  BY <1>2, <1>3
<1> QED BY <1>5, <1>6, <1>7 DEF PacketsOK

\* mtlk_sq_enqueue_clone
LEMMA PacketsClone ==
  ASSUME NEW X \in [Ctx -> CtxShape], NEW Y \in [Ctx -> CtxShape], NEW c \in Ctx,
         NEW e \in SqExtra, NEW size \in [Ac -> Int], NEW r \in [SqExtra -> RefShape],
         OneMore(X, Y, c, r[e].ac, e), Elems(Y[c].q[r[e].ac]) = Elems(X[c].q[r[e].ac]) \cup {e},
         PacketsOK(X, size, r, {e}),
         NEW t \in [SqExtra -> RefShape], t[e].ref = r[e].ref + 1, t[e].ac = r[e].ac,
         \A f \in SqExtra \ {e} : t[f] = r[f]
  PROVE  PacketsOK(Y, size, t, {e})
<1>1. \A f \in SqExtra : f # Own /\ r[f].ac \in Ac /\ SumFunction(Tally(X, r[f].ac, f)) \in Nat
  <2>1. \A f \in SqExtra : f # Own /\ r[f].ac \in Ac
    BY Constants DEF RefShape
  <2>2. \A b \in Ac : \A f : SumFunction(Tally(X, b, f)) \in Nat
    BY TallyType, Zenon
  <2> QED BY <2>1, <2>2
<1>2. /\ \A b \in Ac : size[b] = SumFunction(Tally(X, b, Own)) + Cardinality(Frames(r, b))
      /\ \A f \in SqExtra :
           r[f].ref = SumFunction(Tally(X, r[f].ac, f)) + IF f \in {e} THEN 1 ELSE 0
      /\ \A d \in Ctx, b \in Ac, f \in SqExtra : f \in Elems(X[d].q[b]) => r[f].ac = b
  BY DEF PacketsOK
<1>3. PICK a \in Ac : a = r[e].ac
  BY <1>1
<1>4. \A b \in Ac : \A x : SumFunction(Tally(Y, b, x)) =
                         SumFunction(Tally(X, b, x)) + IF b = a /\ e = x THEN 1 ELSE 0
  BY <1>3, TallyOneMore
<1>5. \A f \in SqExtra : t[f].ac = r[f].ac
  OBVIOUS
<1>6. ASSUME NEW d \in Ctx, NEW b \in Ac, NEW f \in SqExtra, f \in Elems(Y[d].q[b])
      PROVE  t[f].ac = b
  <2>1. CASE d # c
    BY <1>2, <1>5, <1>6, <2>1 DEF OneMore
  <2>2. CASE d = c /\ b # a
    BY <1>2, <1>3, <1>5, <1>6, <2>2 DEF OneMore
  <2>3. CASE d = c /\ b = a
    BY <1>2, <1>3, <1>5, <1>6, <2>3
  <2> QED BY <2>1, <2>2, <2>3
<1>7. ASSUME NEW b \in Ac
      PROVE  size[b] = SumFunction(Tally(Y, b, Own)) + Cardinality(Frames(t, b))
  <2>1. SumFunction(Tally(X, b, Own)) \in Nat
    BY TallyType
  <2>2. SumFunction(Tally(Y, b, Own)) = SumFunction(Tally(X, b, Own))
    BY <1>1, <1>4, <2>1
  <2>3. r[e].ref > 0 /\ t[e].ref > 0
    <3>1. r[e].ref = SumFunction(Tally(X, r[e].ac, e)) + 1
      BY <1>2
    <3> QED BY <1>1, <3>1
  <2>4. Frames(t, b) = Frames(r, b)
    BY <1>5, <2>3 DEF Frames
  <2> QED BY <1>2, <2>2, <2>4
<1>8. ASSUME NEW f \in SqExtra
      PROVE  t[f].ref = SumFunction(Tally(Y, t[f].ac, f)) + IF f \in {e} THEN 1 ELSE 0
  <2>1. CASE f = e
    <3>1. SumFunction(Tally(Y, a, e)) = SumFunction(Tally(X, a, e)) + 1
      BY <1>4
    <3>2. r[e].ref = SumFunction(Tally(X, a, e)) + 1 /\ SumFunction(Tally(X, a, e)) \in Nat
      BY <1>1, <1>2, <1>3
    <3> QED BY <1>3, <2>1, <3>1, <3>2
  <2>2. CASE f # e
    <3>1. SumFunction(Tally(Y, r[f].ac, f)) = SumFunction(Tally(X, r[f].ac, f))
      BY <1>1, <1>4, <2>2
    <3>2. r[f].ref = SumFunction(Tally(X, r[f].ac, f)) + 0
      BY <1>2, <2>2
    <3> QED BY <1>5, <2>2, <3>1, <3>2
  <2> QED BY <2>1, <2>2
<1> QED BY <1>6, <1>7, <1>8 DEF PacketsOK

\* A counter that falls by n reaches zero exactly when it was n.
LEMMA Difference ==
  ASSUME NEW m \in Int, NEW n \in Nat, NEW d, d = m - n, d >= 0
  PROVE  /\ m > 0 <=> d > 0 \/ (m > 0 /\ m = n)
         /\ ~(d > 0 /\ m = n)
OBVIOUS

\* _mtlk_sq_release_packet of all the packets of some contexts: there are o[b]
\* packets of their own and j[e] clones of e among them.
Cancels(X, Y, size, r, o, j, z, t) ==
  /\ \A c \in Ctx, b \in Ac : Elems(Y[c].q[b]) \subseteq Elems(X[c].q[b])
  /\ \A b \in Ac : SumFunction(Tally(X, b, Own)) = SumFunction(Tally(Y, b, Own)) + o[b]
  /\ \A e \in SqExtra :
       SumFunction(Tally(X, r[e].ac, e)) = SumFunction(Tally(Y, r[e].ac, e)) + j[e]
  /\ \A b \in Ac : z[b] = size[b] - o[b]
       - Cardinality({e \in SqExtra : r[e].ac = b /\ r[e].ref > 0 /\ r[e].ref = j[e]})
  /\ \A e \in SqExtra : t[e].ac = r[e].ac /\ t[e].ref = r[e].ref - j[e]

\* The sizes fall by the packets released and by the frames whose last clones
\* they were; the counts of the frames by their clones.
LEMMA PacketsCancel ==
  ASSUME NEW X \in [Ctx -> CtxShape], NEW Y \in [Ctx -> CtxShape],
         NEW size \in [Ac -> Int], NEW r \in [SqExtra -> RefShape], NEW H,
         PacketsOK(X, size, r, H),
         NEW o \in [Ac -> Nat], NEW j \in [SqExtra -> Nat],
         NEW z, NEW t \in [SqExtra -> RefShape], Cancels(X, Y, size, r, o, j, z, t)
  PROVE  PacketsOK(Y, z, t, H) /\ \A b \in Ac : z[b] \in Int
<1>a. \A c \in Ctx, b \in Ac : Elems(Y[c].q[b]) \subseteq Elems(X[c].q[b])
  BY DEF Cancels
<1>b. \A b \in Ac : SumFunction(Tally(X, b, Own)) = SumFunction(Tally(Y, b, Own)) + o[b]
  BY DEF Cancels
<1>c. \A e \in SqExtra :
        SumFunction(Tally(X, r[e].ac, e)) = SumFunction(Tally(Y, r[e].ac, e)) + j[e]
  BY DEF Cancels
<1>d. \A b \in Ac : z[b] = size[b] - o[b]
        - Cardinality({e \in SqExtra : r[e].ac = b /\ r[e].ref > 0 /\ r[e].ref = j[e]})
  BY DEF Cancels
<1>e. \A e \in SqExtra : t[e].ac = r[e].ac /\ t[e].ref = r[e].ref - j[e]
  BY DEF Cancels
<1> USE <1>a, <1>b, <1>c, <1>d, <1>e
<1> DEFINE Last(b) == {e \in SqExtra : r[e].ac = b /\ r[e].ref > 0 /\ r[e].ref = j[e]}
<1>1. /\ \A b \in Ac : size[b] = SumFunction(Tally(X, b, Own)) + Cardinality(Frames(r, b))
      /\ \A f \in SqExtra :
           r[f].ref = SumFunction(Tally(X, r[f].ac, f)) + IF f \in H THEN 1 ELSE 0
      /\ \A d \in Ctx, b \in Ac, f \in SqExtra : f \in Elems(X[d].q[b]) => r[f].ac = b
  BY DEF PacketsOK
<1>2. \A e \in SqExtra : r[e].ac \in Ac /\ r[e].ref \in Int /\ t[e].ref \in Int /\ j[e] \in Nat
  BY DEF RefShape
<1>3. \A e \in SqExtra : SumFunction(Tally(Y, r[e].ac, e)) \in Nat
  BY <1>2, TallyType
<1>4. ASSUME NEW e \in SqExtra
      PROVE  /\ t[e].ref = SumFunction(Tally(Y, t[e].ac, e)) + IF e \in H THEN 1 ELSE 0
             /\ t[e].ref >= 0
  <2>1. PICK m : m = SumFunction(Tally(Y, r[e].ac, e))
    OBVIOUS
  <2>2. m \in Nat /\ r[e].ref = (m + j[e]) + IF e \in H THEN 1 ELSE 0
    BY <1>1, <1>3, <2>1
  <2>3. t[e].ref = m + (IF e \in H THEN 1 ELSE 0) /\ t[e].ref >= 0
    BY <1>2, <2>2
  <2> QED BY <2>1, <2>3
<1>5. ASSUME NEW b \in Ac
      PROVE  Cardinality(Frames(r, b)) = Cardinality(Frames(t, b)) + Cardinality(Last(b))
  <2>1. Last(b) \in SUBSET SqExtra
    OBVIOUS
  <2>2. IsFiniteSet(Last(b)) /\ IsFiniteSet(Frames(t, b))
    BY <2>1, Finite, FS_Subset, FramesType
  <2>3. ASSUME NEW e \in SqExtra
        PROVE  /\ e \in Frames(r, b) <=> e \in Frames(t, b) \/ e \in Last(b)
               /\ ~(e \in Frames(t, b) /\ e \in Last(b))
    <3>1. /\ r[e].ref \in Int /\ j[e] \in Nat /\ t[e].ref = r[e].ref - j[e] /\ t[e].ref >= 0
          /\ t[e].ac = r[e].ac
      BY <1>2, <1>4
    <3>2. /\ r[e].ref > 0 <=> t[e].ref > 0 \/ (r[e].ref > 0 /\ r[e].ref = j[e])
          /\ ~(t[e].ref > 0 /\ r[e].ref = j[e])
      <4>1. PICK m \in Int : m = r[e].ref
        BY <3>1
      <4>2. PICK n \in Nat : n = j[e]
        BY <3>1
      <4>3. PICK d \in Int : d = t[e].ref
        BY <1>2
      <4>4. d = m - n /\ d >= 0
        BY <3>1, <4>1, <4>2, <4>3
      <4>5. (m > 0 <=> d > 0 \/ (m > 0 /\ m = n)) /\ ~(d > 0 /\ m = n)
        BY <4>4, Difference
      <4> QED BY <4>1, <4>2, <4>3, <4>5
    <3> QED BY <3>1, <3>2 DEF Frames
  <2>4. Frames(r, b) = Frames(t, b) \cup Last(b) /\ Frames(t, b) \cap Last(b) = {}
    <3>1. Frames(r, b) \subseteq SqExtra /\ Frames(t, b) \subseteq SqExtra
      BY DEF Frames
    <3> HIDE DEF Last
    <3> QED BY <2>1, <2>3, <3>1
  <2> HIDE DEF Last
  <2>5. Cardinality(Frames(t, b)) \in Nat /\ Cardinality(Last(b)) \in Nat
    BY <2>2, FS_CardinalityType
  <2>6. Cardinality(Frames(t, b) \cup Last(b)) =
          Cardinality(Frames(t, b)) + Cardinality(Last(b)) - Cardinality(Frames(t, b) \cap Last(b))
    BY <2>2, FS_Union
  <2>7. Cardinality(Frames(t, b) \cap Last(b)) = 0
    BY <2>4, FS_EmptySet
  <2> QED BY <2>4, <2>5, <2>6, <2>7
<1>6. ASSUME NEW b \in Ac
      PROVE  z[b] = SumFunction(Tally(Y, b, Own)) + Cardinality(Frames(t, b)) /\ z[b] \in Int
  <2>1. Last(b) \in SUBSET SqExtra
    OBVIOUS
  <2>2. IsFiniteSet(Last(b))
    BY <2>1, Finite, FS_Subset
  <2>3. z[b] = size[b] - o[b] - Cardinality(Last(b))
    OBVIOUS
  <2> HIDE DEF Last
  <2>4. Cardinality(Last(b)) \in Nat /\ Cardinality(Frames(t, b)) \in Nat
    BY <2>2, FS_CardinalityType, FramesType
  <2>5. size[b] = SumFunction(Tally(Y, b, Own)) + o[b] + Cardinality(Frames(r, b))
    BY <1>1
  <2>6. o[b] \in Nat /\ SumFunction(Tally(Y, b, Own)) \in Nat
    BY TallyType
  <2> QED BY <1>5, <2>3, <2>4, <2>5, <2>6
<1>7. ASSUME NEW d \in Ctx, NEW b \in Ac, NEW f \in SqExtra, f \in Elems(Y[d].q[b])
      PROVE  t[f].ac = b
  <2>1. f \in Elems(X[d].q[b])
    BY <1>7
  <2>2. r[f].ac = b
    BY <1>1, <2>1
  <2> QED BY <2>2
<1>8. PacketsOK(Y, z, t, H)
  BY <1>4, <1>6, <1>7 DEF PacketsOK
<1> QED BY <1>6, <1>8

-----------------------------------------------------------------------------
(***************************************************************************)
(* Buffer descriptors.                                                     *)
(***************************************************************************)

\* The BDs of each context.
InUse(air) == [c \in Ctx |-> SumFunction(air[c])]

\* The BDs of each context add up to a natural number.
LEMMA InUseType ==
  ASSUME NEW air \in [Ctx -> [Ac -> Nat]]
  PROVE  /\ InUse(air) \in [Ctx -> Nat]
         /\ \A c \in Ctx : /\ InUse(air)[c] = SumFunction(air[c])
                           /\ SumFunction(air[c]) \in Nat
                           /\ \A a \in Ac : air[c][a] <= SumFunction(air[c])
                           /\ SumFunction(air[c]) <= SumFunction(InUse(air))
         /\ SumFunction(InUse(air)) \in Nat
<1>1. ASSUME NEW c \in Ctx
      PROVE  /\ SumFunction(air[c]) \in Nat
             /\ \A a \in Ac : air[c][a] <= SumFunction(air[c])
  <2>1. air[c] \in [Ac -> Nat]
    OBVIOUS
  <2> QED BY <2>1, Finite, SumBounds
<1>2. InUse(air) \in [Ctx -> Nat] /\ \A c \in Ctx : InUse(air)[c] = SumFunction(air[c])
  BY <1>1 DEF InUse
<1>3. /\ SumFunction(InUse(air)) \in Nat
      /\ \A c \in Ctx : InUse(air)[c] <= SumFunction(InUse(air))
  BY <1>2, Finite, SumBounds
<1> QED BY <1>1, <1>2, <1>3

\* A descriptor is free or charged to one context and category at a time.
LEMMA BdsBounds ==
  ASSUME NEW air \in [Ctx -> [Ac -> Nat]], NEW old \in [SqVap -> Nat],
         NEW X, NEW free, BdsOK(X, free, air, old)
  PROVE  /\ free \in 0 .. NBds
         /\ air \in [Ctx -> [Ac -> 0 .. NBds]] /\ old \in [SqVap -> 0 .. NBds]
         /\ \A c \in Ctx : X[c].used \in Nat /\ X[c].usedAc \in [Ac -> Nat]
         /\ free = NBds => \A c \in Ctx : X[c].used = 0 /\ \A a \in Ac : X[c].usedAc[a] = 0
<1>1. PICK m : m = SumFunction(InUse(air))
  OBVIOUS
<1>2. PICK n : n = SumFunction(old)
  OBVIOUS
<1>3. m \in Nat /\ n \in Nat /\ \A v \in SqVap : old[v] <= n
  BY <1>1, <1>2, InUseType, Finite, SumBounds
<1>4. /\ free \in Nat /\ free + m + n = NBds
      /\ \A c \in Ctx : X[c].usedAc = air[c] /\ X[c].used = SumFunction(air[c])
  BY <1>1, <1>2 DEF BdsOK, InUse
<1>5. NBds \in Nat
  BY Constants
<1>6. ASSUME NEW c \in Ctx
      PROVE  /\ SumFunction(air[c]) \in Nat /\ SumFunction(air[c]) <= m
             /\ \A a \in Ac : air[c][a] \in Nat /\ air[c][a] <= SumFunction(air[c])
  BY <1>1, InUseType
<1>7. ASSUME NEW c \in Ctx, NEW a \in Ac PROVE air[c][a] \in 0 .. NBds
  BY <1>3, <1>4, <1>5, <1>6
<1>8. air \in [Ctx -> [Ac -> 0 .. NBds]]
  BY <1>7
<1>9. old \in [SqVap -> 0 .. NBds]
  <2>1. ASSUME NEW v \in SqVap PROVE old[v] \in 0 .. NBds
    <3>1. old[v] \in Nat /\ old[v] <= n
      BY <1>3
    <3> QED BY <1>3, <1>4, <1>5, <3>1
  <2> QED BY <2>1
<1>10. free \in 0 .. NBds
  BY <1>3, <1>4, <1>5
<1>11. \A c \in Ctx : X[c].used \in Nat /\ X[c].usedAc \in [Ac -> Nat]
  BY <1>4, <1>6
<1>12. ASSUME free = NBds, NEW c \in Ctx
       PROVE  X[c].used = 0 /\ \A a \in Ac : X[c].usedAc[a] = 0
  <2>1. m = 0
    BY <1>3, <1>4, <1>5, <1>12
  <2>2. SumFunction(air[c]) = 0
    BY <1>6, <2>1
  <2>3. \A a \in Ac : air[c][a] = 0
    BY <1>6, <2>2
  <2> QED BY <1>4, <2>2, <2>3
<1> QED BY <1>8, <1>9, <1>10, <1>11, <1>12

\* SumUpdate for the categories of a context, for contexts and for VAPs.
LEMMA SumInAc ==
  ASSUME NEW f \in [Ac -> Nat], NEW g \in [Ac -> Nat], NEW x \in Ac,
         \A y \in Ac \ {x} : g[y] = f[y]
  PROVE  SumFunction(g) + f[x] = SumFunction(f) + g[x]
BY Finite, SumUpdate

LEMMA SumInCtx ==
  ASSUME NEW f \in [Ctx -> Nat], NEW g \in [Ctx -> Nat], NEW x \in Ctx,
         \A y \in Ctx \ {x} : g[y] = f[y]
  PROVE  SumFunction(g) + f[x] = SumFunction(f) + g[x]
BY Finite, SumUpdate

LEMMA SumInVap ==
  ASSUME NEW f \in [SqVap -> Nat], NEW g \in [SqVap -> Nat], NEW x \in SqVap,
         \A y \in SqVap \ {x} : g[y] = f[y]
  PROVE  SumFunction(g) + f[x] = SumFunction(f) + g[x]
BY Finite, SumUpdate

\* Context c takes a BD (d = 1) or gives one back (d = -1): what it is charged
\* for, and the BDs in use.
Charges(X, Y, c, a, d) ==
  /\ \A b \in Ctx \ {c} : Y[b].used = X[b].used /\ Y[b].usedAc = X[b].usedAc
  /\ Y[c].used = X[c].used + d /\ Y[c].usedAc[a] = X[c].usedAc[a] + d
  /\ \A b \in Ac \ {a} : Y[c].usedAc[b] = X[c].usedAc[b]

Moved(air, c, a, d) == [air EXCEPT ![c][a] = @ + d]

\* One BD more or less, in one category of one context.
LEMMA MovedType ==
  ASSUME NEW air \in [Ctx -> [Ac -> Nat]], NEW c \in Ctx, NEW a \in Ac, NEW d \in Int,
         air[c][a] + d \in Nat
  PROVE  /\ Moved(air, c, a, d) \in [Ctx -> [Ac -> Nat]]
         /\ Moved(air, c, a, d)[c][a] = air[c][a] + d
         /\ \A b \in Ac \ {a} : Moved(air, c, a, d)[c][b] = air[c][b]
         /\ \A b \in Ctx \ {c} : Moved(air, c, a, d)[b] = air[b]
<1>1. PICK w : w = [air[c] EXCEPT ![a] = @ + d]
  OBVIOUS
<1>2. w \in [Ac -> Nat] /\ w[a] = air[c][a] + d /\ \A b \in Ac \ {a} : w[b] = air[c][b]
  BY <1>1
<1>3. PICK use : use = [air EXCEPT ![c] = w]
  OBVIOUS
<1>4. use[c] = w /\ use \in [Ctx -> [Ac -> Nat]] /\ \A b \in Ctx \ {c} : use[b] = air[b]
  BY <1>2, <1>3
<1>5. Moved(air, c, a, d) = use
  BY <1>1, <1>3 DEF Moved
<1> QED BY <1>2, <1>4, <1>5

\* What a context takes or gives back, the pool of BDs loses or gains.
LEMMA BdsMove ==
  ASSUME NEW air \in [Ctx -> [Ac -> Nat]], NEW old \in [SqVap -> Nat],
         NEW X, NEW free, BdsOK(X, free, air, old),
         NEW c \in Ctx, NEW a \in Ac, NEW d \in Int,
         NEW Y \in [Ctx -> CtxShape], Charges(X, Y, c, a, d),
         air[c][a] + d \in Nat, free - d \in Nat
  PROVE  BdsOK(Y, free - d, Moved(air, c, a, d), old)
<1>a. PICK left \in Nat : left = free - d
  OBVIOUS
<1>b. PICK use \in [Ctx -> [Ac -> Nat]] :
         /\ use = Moved(air, c, a, d) /\ use[c][a] = air[c][a] + d
         /\ \A b \in Ac \ {a} : use[c][b] = air[c][b]
         /\ \A b \in Ctx \ {c} : use[b] = air[b]
  BY MovedType
<1>c. Y[c].usedAc = use[c]
  <2>1. X[c].usedAc = air[c]
    BY DEF BdsOK
  <2>2. \A b \in Ac : Y[c].usedAc[b] = use[c][b]
    BY <1>b, <2>1 DEF Charges
  <2>3. Y[c].usedAc \in [Ac -> Int] /\ use[c] \in [Ac -> Nat]
    BY <1>b DEF CtxShape
  <2> QED BY <2>2, <2>3
<1>d. \A b \in Ctx \ {c} : use[b] = air[b] /\ Y[b].used = X[b].used /\ Y[b].usedAc = X[b].usedAc
  BY <1>b DEF Charges
<1>e. Y[c].used = X[c].used + d
  BY DEF Charges
<1>f. use[c][a] = air[c][a] + d /\ \A b \in Ac \ {a} : use[c][b] = air[c][b]
  BY <1>b
<1>1. PICK f \in [Ac -> Nat] : f = air[c]
  OBVIOUS
<1>2. PICK g \in [Ac -> Nat] : g = use[c]
  OBVIOUS
<1>3. g[a] = f[a] + d /\ \A b \in Ac \ {a} : g[b] = f[b]
  BY <1>1, <1>2, <1>f
<1>4. SumFunction(g) + f[a] = SumFunction(f) + g[a]
  BY <1>3, SumInAc
<1>5. SumFunction(f) \in Nat /\ SumFunction(g) \in Nat /\ f[a] \in Nat
  BY Finite, SumBounds
<1>6. SumFunction(g) = SumFunction(f) + d
  <2>1. PICK i : i = SumFunction(f)
    OBVIOUS
  <2>2. PICK j : j = SumFunction(g)
    OBVIOUS
  <2>3. i \in Nat /\ j \in Nat /\ f[a] \in Nat /\ j + f[a] = i + (f[a] + d)
    BY <1>3, <1>4, <1>5, <2>1, <2>2
  <2>4. j = i + d
    BY <2>3
  <2> QED BY <2>1, <2>2, <2>4
<1>7. PICK F \in [Ctx -> Nat] : F = InUse(air)
  BY InUseType
<1>8. PICK G \in [Ctx -> Nat] : G = InUse(use)
  BY InUseType
<1>9. F[c] = SumFunction(f) /\ G[c] = SumFunction(g) /\ \A b \in Ctx \ {c} : G[b] = F[b]
  BY <1>1, <1>2, <1>7, <1>8, <1>d DEF InUse
<1>10. SumFunction(G) + F[c] = SumFunction(F) + G[c]
  <2>1. \A b \in Ctx \ {c} : G[b] = F[b]
    BY <1>9
  <2> QED BY <2>1, SumInCtx
<1>11. SumFunction(F) \in Nat /\ SumFunction(G) \in Nat
  BY Finite, SumBounds
<1>12. SumFunction(G) = SumFunction(F) + d
  <2>1. PICK i : i = SumFunction(F)
    OBVIOUS
  <2>2. PICK j : j = SumFunction(G)
    OBVIOUS
  <2>3. PICK k : k = SumFunction(f)
    OBVIOUS
  <2>4. i \in Nat /\ j \in Nat /\ k \in Nat /\ j + k = i + (k + d)
    BY <1>5, <1>6, <1>9, <1>10, <1>11, <2>1, <2>2, <2>3
  <2>5. j = i + d
    BY <2>4
  <2> QED BY <2>1, <2>2, <2>5
<1>13. free \in Nat /\ free + SumFunction(F) + SumFunction(old) = NBds
  BY <1>7 DEF BdsOK, InUse
<1>14. SumFunction(old) \in Nat
  BY Finite, SumBounds
<1>15. left + SumFunction(G) + SumFunction(old) = NBds
  BY <1>11, <1>12, <1>13, <1>14, <1>a
<1>16. \A b \in Ctx : X[b].usedAc = air[b] /\ X[b].used = SumFunction(air[b])
  BY DEF BdsOK
<1>17. ASSUME NEW b \in Ctx PROVE Y[b].usedAc = use[b] /\ Y[b].used = SumFunction(use[b])
  <2>1. CASE b = c
    BY <1>1, <1>2, <1>6, <1>16, <1>c, <1>e, <2>1
  <2>2. CASE b # c
    BY <1>16, <1>d, <2>2
  <2> QED BY <2>1, <2>2
<1>18. BdsOK(Y, left, use, old)
  BY <1>8, <1>15, <1>17, <1>a DEF BdsOK, InUse
<1> QED BY <1>18, <1>a, <1>b

\* A packet of a station that is gone gives its BD back.
LEMMA BdsOld ==
  ASSUME NEW air, air \in [Ctx -> [Ac -> Nat]], NEW old \in [SqVap -> Nat],
         NEW X, NEW free, BdsOK(X, free, air, old),
         NEW v \in SqVap, NEW rest \in [SqVap -> Nat],
         rest[v] = old[v] - 1, \A w \in SqVap \ {v} : rest[w] = old[w]
  PROVE  BdsOK(X, free + 1, air, rest)
<1>1. SumFunction(rest) + old[v] = SumFunction(old) + rest[v]
  BY SumInVap
<1>2. SumFunction(rest) \in Nat /\ SumFunction(old) \in Nat /\ old[v] \in Nat
  BY Finite, SumBounds
<1>3. SumFunction(rest) = SumFunction(old) - 1
  BY <1>1, <1>2
<1>4. free \in Nat /\ free + SumFunction(InUse(air)) + SumFunction(old) = NBds
  BY DEF BdsOK, InUse
<1>5. SumFunction(InUse(air)) \in Nat
  BY InUseType
<1>6. free + 1 + SumFunction(InUse(air)) + SumFunction(rest) = NBds
  BY <1>2, <1>3, <1>4, <1>5
<1> QED BY <1>4, <1>6 DEF BdsOK, InUse

\* The packets of a station that leaves keep their BDs.
BdsStay(X, Y, air, use, old, more, s, v) ==
  /\ \A b \in Ctx \ {s} : use[b] = air[b] /\ Y[b].used = X[b].used /\ Y[b].usedAc = X[b].usedAc
  /\ use[s] = [a \in Ac |-> 0]
  /\ Y[s].used = 0
  /\ Y[s].usedAc = [a \in Ac |-> 0]
  /\ more[v] = old[v] + SumFunction(air[s])
  /\ \A w \in SqVap \ {v} : more[w] = old[w]

\* The BDs of a station that leaves are in use by a station that is gone.
LEMMA BdsLeave ==
  ASSUME NEW air \in [Ctx -> [Ac -> Nat]], NEW old \in [SqVap -> Nat],
         NEW X, NEW Y, NEW free, BdsOK(X, free, air, old),
         NEW s \in Ctx, NEW v \in SqVap,
         NEW use \in [Ctx -> [Ac -> Nat]], NEW more \in [SqVap -> Nat],
         BdsStay(X, Y, air, use, old, more, s, v)
  PROVE  BdsOK(Y, free, use, more)
<1>a. \A b \in Ctx \ {s} : use[b] = air[b] /\ Y[b].used = X[b].used /\ Y[b].usedAc = X[b].usedAc
  BY DEF BdsStay
<1>b. use[s] = [a \in Ac |-> 0]
  BY DEF BdsStay
<1>c. Y[s].used = 0
  BY DEF BdsStay
<1>d. Y[s].usedAc = [a \in Ac |-> 0]
  BY DEF BdsStay
<1>e. more[v] = old[v] + SumFunction(air[s])
  BY DEF BdsStay
<1>f. \A w \in SqVap \ {v} : more[w] = old[w]
  BY DEF BdsStay
<1> USE <1>a, <1>b, <1>c, <1>d, <1>e, <1>f
<1>1. PICK F \in [Ctx -> Nat] : F = InUse(air)
  BY InUseType
<1>2. PICK G \in [Ctx -> Nat] : G = InUse(use)
  BY InUseType
<1>3. SumFunction(use[s]) = 0
  <2>1. use[s] \in [Ac -> Nat] /\ \A a \in Ac : use[s][a] = 0
    OBVIOUS
  <2> QED BY <2>1, Finite, SumZero
<1>4. F[s] = SumFunction(air[s]) /\ G[s] = 0 /\ \A b \in Ctx \ {s} : G[b] = F[b]
  BY <1>1, <1>2, <1>3 DEF InUse
<1>5. SumFunction(G) + F[s] = SumFunction(F) + G[s]
  BY <1>4, SumInCtx
<1>6. SumFunction(more) + old[v] = SumFunction(old) + more[v]
  BY SumInVap
<1>7. /\ SumFunction(F) \in Nat /\ SumFunction(G) \in Nat /\ F[s] \in Nat
      /\ SumFunction(old) \in Nat /\ SumFunction(more) \in Nat /\ old[v] \in Nat
  BY Finite, SumBounds
<1>8. free \in Nat /\ free + SumFunction(F) + SumFunction(old) = NBds
  BY <1>1 DEF BdsOK, InUse
<1>9. free + SumFunction(G) + SumFunction(more) = NBds
  <2>1. PICK i : i = SumFunction(F)
    OBVIOUS
  <2>2. PICK j : j = SumFunction(G)
    OBVIOUS
  <2>3. PICK k : k = F[s]
    OBVIOUS
  <2>4. PICK m : m = SumFunction(old)
    OBVIOUS
  <2>5. PICK n : n = SumFunction(more)
    OBVIOUS
  <2>6. PICK o : o = old[v]
    OBVIOUS
  <2>7. /\ i \in Nat /\ j \in Nat /\ k \in Nat /\ m \in Nat /\ n \in Nat /\ o \in Nat
    BY <1>7, <2>1, <2>2, <2>3, <2>4, <2>5, <2>6
  <2>8. j + k = i + 0
    BY <1>4, <1>5, <2>1, <2>2, <2>3
  <2>9. n + o = m + (o + k)
    BY <1>4, <1>6, <2>3, <2>4, <2>5, <2>6
  <2>10. free \in Nat /\ free + i + m = NBds
    BY <1>8, <2>1, <2>4
  <2>11. free + j + n = NBds
    <3>1. i = j + k /\ n = m + k
      BY <2>7, <2>8, <2>9
    <3>2. free + (j + k) + m = NBds
      BY <2>10, <3>1
    <3>3. free + (j + k) + m = free + j + (m + k)
      BY <2>7, <2>10
    <3> QED BY <3>1, <3>2, <3>3
  <2> QED BY <2>2, <2>5, <2>11
<1>10. \A b \in Ctx : X[b].usedAc = air[b] /\ X[b].used = SumFunction(air[b])
  BY DEF BdsOK
<1>11. ASSUME NEW b \in Ctx PROVE Y[b].usedAc = use[b] /\ Y[b].used = SumFunction(use[b])
  <2>1. CASE b = s
    BY <1>3, <2>1
  <2>2. CASE b # s
    BY <1>10, <2>2
  <2> QED BY <2>1, <2>2
<1> QED BY <1>2, <1>8, <1>9, <1>11 DEF BdsOK, InUse

\* No packet is with the firmware.
LEMMA BdsReset ==
  ASSUME NEW X, NEW air \in [Ctx -> [Ac -> Nat]], NEW old \in [SqVap -> Nat],
         \A c \in Ctx : X[c].used = 0 /\ X[c].usedAc = [a \in Ac |-> 0],
         \A c \in Ctx : air[c] = [a \in Ac |-> 0], \A v \in SqVap : old[v] = 0
  PROVE  BdsOK(X, NBds, air, old)
<1>1. ASSUME NEW c \in Ctx PROVE SumFunction(air[c]) = 0
  <2>1. air[c] \in [Ac -> Nat] /\ \A a \in Ac : air[c][a] = 0
    OBVIOUS
  <2> QED BY <2>1, Finite, SumZero
<1>2. SumFunction(InUse(air)) = 0
  <2>1. InUse(air) \in [Ctx -> Nat] /\ \A c \in Ctx : InUse(air)[c] = 0
    BY <1>1 DEF InUse
  <2> QED BY <2>1, Finite, SumZero
<1>3. SumFunction(old) = 0
  BY Finite, SumZero
<1>4. NBds \in Nat
  BY Constants
<1>5. NBds + SumFunction(InUse(air)) + SumFunction(old) = NBds
  BY <1>2, <1>3, <1>4
<1> QED BY <1>1, <1>4, <1>5 DEF BdsOK, InUse

\* Only what is charged matters for the BDs.
LEMMA BdsSame ==
  ASSUME NEW X, NEW Y, NEW free, NEW air, NEW old, BdsOK(X, free, air, old),
         \A c \in Ctx : Y[c].used = X[c].used /\ Y[c].usedAc = X[c].usedAc
  PROVE  BdsOK(Y, free, air, old)
BY DEF BdsOK

-----------------------------------------------------------------------------
(***************************************************************************)
(* Power saving.                                                           *)
(***************************************************************************)
LEMMA SleepersType ==
  ASSUME NEW X, NEW v
  PROVE  IsFiniteSet(Sleepers(X, v)) /\ Cardinality(Sleepers(X, v)) \in Nat
<1>1. Sleepers(X, v) \in SUBSET SqSta
  BY DEF Sleepers
<1> QED BY <1>1, Finite, FS_Subset, FS_CardinalityType

\* A station falls asleep, wakes up, comes or leaves, and the broadcasts of its
\* VAP follow.
PowerMoves(X, Y, n, m, s, was, is) ==
  /\ (was = 1 <=> X[s].on /\ X[s].ps)
  /\ (is = 1 <=> Y[s].on /\ Y[s].ps)
  /\ m[StaVap[s]] = n[StaVap[s]] + is - was
  /\ Y[StaVap[s]].ps = (m[StaVap[s]] > 0)
  /\ Y[StaVap[s]].limit = IF m[StaVap[s]] > 0 THEN Min({PmLimit, TxLimit}) ELSE TxLimit
  /\ \A w \in SqVap \ {StaVap[s]} : m[w] = n[w]
  /\ \A c \in Ctx \ {s, StaVap[s]} : Y[c].on = X[c].on /\ Y[c].ps = X[c].ps /\ Y[c].limit = X[c].limit

\* The number of sleeping stations of that VAP changes by as much as its count.
LEMMA PowerChange ==
  ASSUME NEW X, NEW Y, NEW n, NEW m, PowerOK(X, n),
         NEW s \in SqSta, NEW was \in 0 .. 1, NEW is \in 0 .. 1,
         PowerMoves(X, Y, n, m, s, was, is)
  PROVE  PowerOK(Y, m)
<1>a. was = 1 <=> X[s].on /\ X[s].ps
  BY DEF PowerMoves
<1>b. is = 1 <=> Y[s].on /\ Y[s].ps
  BY DEF PowerMoves
<1>c. m[StaVap[s]] = n[StaVap[s]] + is - was
  BY DEF PowerMoves
<1>d. Y[StaVap[s]].ps = (m[StaVap[s]] > 0)
  BY DEF PowerMoves
<1>e. Y[StaVap[s]].limit = IF m[StaVap[s]] > 0 THEN Min({PmLimit, TxLimit}) ELSE TxLimit
  BY DEF PowerMoves
<1>f. \A w \in SqVap \ {StaVap[s]} : m[w] = n[w]
  BY DEF PowerMoves
<1>g. \A c \in Ctx \ {s, StaVap[s]} : Y[c].on = X[c].on /\ Y[c].ps = X[c].ps /\ Y[c].limit = X[c].limit
  BY DEF PowerMoves
<1> USE <1>a, <1>b, <1>c, <1>d, <1>e, <1>f, <1>g
<1>1. PICK v \in SqVap : v = StaVap[s]
  BY Constants
<1>2. \A u \in SqSta \ {s} : Y[u].on = X[u].on /\ Y[u].ps = X[u].ps
  BY Constants
<1>3. ASSUME NEW w \in SqVap, w # v
      PROVE  /\ Sleepers(Y, w) = Sleepers(X, w)
             /\ m[w] = n[w] /\ Y[w].ps = X[w].ps /\ Y[w].limit = X[w].limit
  <2>1. Sleepers(Y, w) = Sleepers(X, w)
    BY <1>1, <1>2, <1>3 DEF Sleepers
  <2>2. w \in Ctx \ {s, StaVap[s]} /\ w \in SqVap \ {StaVap[s]}
    BY <1>1, <1>3, Constants
  <2> QED BY <2>1, <2>2
<1>4. n[v] = Cardinality(Sleepers(X, v)) /\ n[v] \in Nat
  BY SleepersType DEF PowerOK
<1>5. Cardinality(Sleepers(Y, v)) = Cardinality(Sleepers(X, v)) + is - was
  <2>1. IsFiniteSet(Sleepers(X, v)) /\ Cardinality(Sleepers(X, v)) \in Nat
    BY SleepersType
  <2>2. PICK S : S = Sleepers(X, v)
    OBVIOUS
  <2>3. CASE is = was
    <3>1. Sleepers(Y, v) = Sleepers(X, v)
      BY <1>2, <2>3 DEF Sleepers
    <3> QED BY <2>1, <2>3, <3>1
  <2>4. CASE is = 1 /\ was = 0
    <3>1. Sleepers(Y, v) = Sleepers(X, v) \cup {s} /\ s \notin Sleepers(X, v)
      BY <1>1, <1>2, <2>4 DEF Sleepers
    <3>2. Cardinality(S \cup {s}) = Cardinality(S) + 1
      BY <2>1, <2>2, <3>1, FS_AddElement
    <3> QED BY <2>1, <2>2, <2>4, <3>1, <3>2
  <2>5. CASE is = 0 /\ was = 1
    <3>1. Sleepers(Y, v) = Sleepers(X, v) \ {s} /\ s \in Sleepers(X, v)
      BY <1>1, <1>2, <2>5 DEF Sleepers
    <3>2. Cardinality(S \ {s}) = Cardinality(S) - 1
      BY <2>1, <2>2, <3>1, FS_RemoveElement
    <3> QED BY <2>1, <2>2, <2>5, <3>1, <3>2
  <2> QED BY <2>3, <2>4, <2>5
<1>6. /\ m[v] = Cardinality(Sleepers(Y, v))
      /\ Y[v].ps = (m[v] > 0)
      /\ Y[v].limit = IF m[v] > 0 THEN Min({PmLimit, TxLimit}) ELSE TxLimit
  BY <1>1, <1>4, <1>5
<1>7. ASSUME NEW w \in SqVap
      PROVE  /\ m[w] = Cardinality(Sleepers(Y, w))
             /\ Y[w].ps = (m[w] > 0)
             /\ Y[w].limit = IF m[w] > 0 THEN Min({PmLimit, TxLimit}) ELSE TxLimit
  <2>1. CASE w = v
    BY <1>6, <2>1
  <2>2. CASE w # v
    <3>1. /\ n[w] = Cardinality(Sleepers(X, w))
          /\ X[w].ps = (n[w] > 0)
          /\ X[w].limit = IF n[w] > 0 THEN Min({PmLimit, TxLimit}) ELSE TxLimit
      BY DEF PowerOK
    <3>2. /\ Sleepers(Y, w) = Sleepers(X, w)
          /\ m[w] = n[w] /\ Y[w].ps = X[w].ps /\ Y[w].limit = X[w].limit
      BY <1>3, <2>2
    <3> QED BY <3>1, <3>2, Zenon
  <2> QED BY <2>1, <2>2
<1> QED BY <1>7 DEF PowerOK

\* Only links, power saving and limits matter for the sleeping stations.
LEMMA PowerSame ==
  ASSUME NEW X, NEW Y, NEW n, PowerOK(X, n),
         \A c \in Ctx : Y[c].on = X[c].on /\ Y[c].ps = X[c].ps /\ Y[c].limit = X[c].limit
  PROVE  PowerOK(Y, n)
<1>1. \A v \in SqVap : Sleepers(Y, v) = Sleepers(X, v)
  BY Constants DEF Sleepers
<1>2. \A v \in SqVap : Y[v].ps = X[v].ps /\ Y[v].limit = X[v].limit
  BY Constants
<1> QED BY <1>1, <1>2 DEF PowerOK

\* Nobody saves power.
LEMMA PowerReset ==
  ASSUME NEW X, NEW n, \A v \in SqVap : n[v] = 0,
         \A s \in SqSta : ~X[s].on,
         \A v \in SqVap : X[v].ps = FALSE /\ X[v].limit = TxLimit
  PROVE  PowerOK(X, n)
<1> SUFFICES ASSUME NEW v \in SqVap
             PROVE  /\ n[v] = Cardinality(Sleepers(X, v))
                    /\ X[v].ps = (n[v] > 0)
                    /\ X[v].limit = IF n[v] > 0 THEN Min({PmLimit, TxLimit}) ELSE TxLimit
  BY DEF PowerOK
<1>1. Sleepers(X, v) = {}
  BY DEF Sleepers
<1>2. n[v] = 0 /\ (n[v] > 0) = FALSE
  OBVIOUS
<1>3. n[v] = Cardinality(Sleepers(X, v))
  BY <1>1, <1>2, FS_EmptySet
<1>4. X[v].ps = FALSE /\ X[v].limit = TxLimit
  OBVIOUS
<1>5. X[v].ps = (n[v] > 0)
  BY <1>2, <1>4, Zenon
<1>6. X[v].limit = IF n[v] > 0 THEN Min({PmLimit, TxLimit}) ELSE TxLimit
  BY <1>2, <1>4
<1> QED BY <1>3, <1>5, <1>6

-----------------------------------------------------------------------------
(***************************************************************************)
(* The steps, on one processor.                                            *)
(***************************************************************************)
LEMMA OneProcessor ==
  ASSUME ~SqSmp, MayStart
  PROVE  Idle /\ ~sqFlush.on /\ ~sqCfm.on /\ ~sqMc.on /\ ~sqXmit.on
BY DEF MayStart, Idle

\* The contexts, the BDs and the lists are left alone.
Kept ==
  /\ sqCtx' = sqCtx /\ sqList' = sqList /\ sqSize' = sqSize /\ sqRef' = sqRef /\ sqMc' = sqMc
  /\ sqFree' = sqFree /\ sqAir' = sqAir /\ sqOld' = sqOld /\ sqPs' = sqPs

\* Steps that move no packet and no BD keep what is counted.
LEMMA KeptCounts ==
  ASSUME SqInv, Kept
  PROVE  PacketsInv' /\ BdsInv' /\ PowerInv' /\ LinksInv'
<1>1. PacketsInv'
  BY DEF SqInv, Kept, PacketsInv, Held
<1>2. BdsInv'
  BY DEF SqInv, Kept, BdsInv
<1>3. PowerInv'
  BY DEF SqInv, Kept, PowerInv
<1>4. LinksInv'
  BY DEF SqInv, Kept, LinksInv, Linked
<1> QED BY <1>1, <1>2, <1>3, <1>4

\* A scan stops the flow: no handler runs, the mask is not empty then.
LEMMA ScanStopsKeeps ==
  ASSUME SqInv, ~SqSmp, ScanStops
  PROVE  SqInv'
<1>1. Kept
  BY DEF ScanStops, Kept, qv, bv
<1>2. PacketsInv' /\ BdsInv' /\ PowerInv' /\ LinksInv'
  BY <1>1, KeptCounts
<1>3. ~sqFlush.on /\ sqFlush' = sqFlush /\ sqCfm' = sqCfm /\ sqXmit' = sqXmit /\ sqTask' = sqTask
      /\ sqLim' = sqLim /\ sqNulls' = sqNulls /\ ~sqCfm.on
  BY OneProcessor DEF ScanStops
<1>4. flMask' = flMask \cup {"scan"} /\ sqProhib' = (flMask = {} \/ sqProhib)
  BY DEF ScanStops, FlStop
<1>5. SqShape'
  BY <1>1, <1>3, <1>4 DEF SqInv, SqShape, Kept
<1>6. TurnsInv'
  BY <1>1, <1>3 DEF SqInv, TurnsInv, Kept
<1>7. FlowInv'
  BY <1>3, <1>4 DEF SqInv, FlowInv, SqShape
<1>8. FlushInv' /\ QuietInv'
  BY <1>3, <1>4 DEF FlushInv, QuietInv
<1> QED BY <1>2, <1>5, <1>6, <1>7, <1>8 DEF SqInv

\* The end of a scan: when it was the last to stop the flow, it schedules a flush.
LEMMA ScanEndsKeeps ==
  ASSUME SqInv, ~SqSmp, ScanEnds
  PROVE  SqInv'
<1>1. Kept
  BY DEF ScanEnds, Kept, qv, bv
<1>2. PacketsInv' /\ BdsInv' /\ PowerInv' /\ LinksInv'
  BY <1>1, KeptCounts
<1>3. ~sqFlush.on /\ sqFlush' = sqFlush /\ sqCfm' = sqCfm /\ sqXmit' = sqXmit
      /\ sqLim' = sqLim /\ sqNulls' = sqNulls /\ ~sqCfm.on
  BY OneProcessor DEF ScanEnds
<1>4. /\ "scan" \in flMask /\ flMask' = flMask \ {"scan"}
      /\ sqProhib' = (sqProhib /\ flMask' # {}) /\ sqTask' = (sqTask \/ flMask' = {})
  BY DEF ScanEnds, FlStart
<1>5. SqShape'
  BY <1>1, <1>3, <1>4 DEF SqInv, SqShape, Kept
<1>6. TurnsInv'
  BY <1>1, <1>3 DEF SqInv, TurnsInv, Kept
<1>7. FlowInv'
  BY <1>3, <1>4 DEF SqInv, FlowInv, SqShape
<1>8. FlushInv' /\ QuietInv'
  BY <1>3, <1>4 DEF FlushInv, QuietInv
<1> QED BY <1>2, <1>5, <1>6, <1>7, <1>8 DEF SqInv

\* A packet is begun with a context that is linked.
LEMMA XmitBeginsKeeps ==
  ASSUME SqInv, ~SqSmp, NEW c \in Ctx, XmitBegins(c)
  PROVE  SqInv'
<1>1. Kept
  BY DEF XmitBegins, Kept, qv, bv
<1>2. PacketsInv' /\ BdsInv' /\ PowerInv' /\ LinksInv'
  BY <1>1, KeptCounts
<1>3. /\ ~sqFlush.on /\ ~sqCfm.on /\ ~sqMc.on
      /\ sqFlush' = sqFlush /\ sqCfm' = sqCfm /\ sqTask' = sqTask /\ sqLim' = sqLim
      /\ flMask' = flMask /\ sqProhib' = sqProhib /\ sqNulls' = sqNulls
      /\ sqXmit' = [on |-> TRUE, ctx |-> c, stale |-> FALSE] /\ sqCtx[c].on
  BY OneProcessor DEF XmitBegins, fv
<1>4. SqShape'
  <2>1. sqXmit' \in XmitShape
    BY <1>3 DEF XmitShape
  <2> QED BY <1>1, <1>3, <2>1 DEF SqInv, SqShape, Kept
<1>5. TurnsInv'
  BY <1>1, <1>3 DEF TurnsInv, Kept
<1>6. FlowInv'
  BY <1>1, <1>3 DEF SqInv, FlowInv, Kept
<1>7. FlushInv'
  BY <1>3 DEF FlushInv
<1>8. QuietInv'
  BY <1>1, <1>3 DEF SqInv, QuietInv, Kept
<1> QED BY <1>2, <1>4, <1>5, <1>6, <1>7, <1>8 DEF SqInv

\* New limits stay natural, the global one positive; nothing else changes.
LEMMA SetLimitsKeeps ==
  ASSUME SqInv, ~SqSmp, SetLimits
  PROVE  SqInv'
<1>1. Kept
  BY DEF SetLimits, Kept, qv, bv
<1>2. PacketsInv' /\ BdsInv' /\ PowerInv' /\ LinksInv'
  BY <1>1, KeptCounts
<1>3. /\ ~sqFlush.on
      /\ sqFlush' = sqFlush /\ sqCfm' = sqCfm /\ sqTask' = sqTask /\ sqXmit' = sqXmit
      /\ flMask' = flMask /\ sqProhib' = sqProhib /\ sqNulls' = sqNulls
  BY OneProcessor DEF SetLimits, fv
<1>4. sqLim' \in [g : Nat \ {0}, p : Nat]
  <2>1. PICK l \in SqLimits :
          \/ sqLim' = [g |-> l.g, p |-> (((100 * sqLim.p) \div sqLim.g) * l.g) \div 100]
          \/ sqLim' = [sqLim EXCEPT !.p = Max({1, (l.r * sqLim.g) \div 100})]
    BY DEF SetLimits
  <2>2. l.g \in Nat \ {0} /\ l.r \in Nat /\ sqLim \in [g : Nat \ {0}, p : Nat]
    <3>1. l \in [g : Nat \ {0}, r : 5 .. 100]
      BY SqConstants
    <3>2. sqLim \in [g : Nat \ {0}, p : Nat]
      BY DEF SqInv, SqShape
    <3>3. 5 .. 100 \subseteq Nat
      OBVIOUS
    <3> QED BY <3>1, <3>2, <3>3
  <2>3. CASE sqLim' = [g |-> l.g, p |-> (((100 * sqLim.p) \div sqLim.g) * l.g) \div 100]
    <3>1. 100 * sqLim.p \in Nat /\ sqLim.g \in Nat \ {0}
      BY <2>2
    <3>2. (100 * sqLim.p) \div sqLim.g \in Nat
      BY <3>1, DivNat
    <3>3. ((100 * sqLim.p) \div sqLim.g) * l.g \in Nat
      BY <2>2, <3>2
    <3>4. (((100 * sqLim.p) \div sqLim.g) * l.g) \div 100 \in Nat
      BY <3>3, DivNat
    <3> QED BY <2>2, <2>3, <3>4
  <2>4. CASE sqLim' = [sqLim EXCEPT !.p = Max({1, (l.r * sqLim.g) \div 100})]
    <3>1. l.r * sqLim.g \in Nat
      BY <2>2
    <3>2. (l.r * sqLim.g) \div 100 \in Nat
      BY <3>1, DivNat
    <3>3. Max({1, (l.r * sqLim.g) \div 100}) \in Nat
      BY <3>2, MaxOne
    <3> QED BY <2>2, <2>4, <3>3
  <2> QED BY <2>1, <2>3, <2>4
<1>5. SqShape'
  BY <1>1, <1>3, <1>4 DEF SqInv, SqShape, Kept
<1>6. TurnsInv' /\ FlowInv'
  BY <1>1, <1>3 DEF SqInv, TurnsInv, FlowInv, Kept
<1>7. FlushInv'
  BY <1>3 DEF FlushInv
<1>8. QuietInv'
  BY <1>1, <1>3 DEF SqInv, QuietInv, Kept
<1> QED BY <1>2, <1>5, <1>6, <1>7, <1>8 DEF SqInv

\* One processor: what mtlk_flctrl_start does with the mask and the tasklet.
LEMMA WakeFlow ==
  ASSUME SqShape, FlowInv, NEW v \in SqVap, Wake(v)
  PROVE  /\ flMask' \subseteq SqVap \cup {"scan"} /\ sqProhib' \in BOOLEAN /\ sqTask' \in BOOLEAN
         /\ sqProhib' = (flMask' # {})
         /\ sqFree > 0 => sqTask' \/ flMask' # {}
         /\ sqTask => sqTask'
         /\ flMask = {} => flMask' = {}
<1>1. CASE sqFree = 0
  BY <1>1 DEF Wake, SqShape, FlowInv, fv
<1>2. CASE sqFree # 0 /\ flMask # {}
  BY <1>2 DEF Wake, SqShape, FlowInv, FlStart
<1>3. CASE sqFree # 0 /\ flMask = {}
  BY <1>3 DEF Wake, SqShape, FlowInv, fv
<1> QED BY <1>1, <1>2, <1>3

\* A confirmation begins with a BD that its context uses.
LEMMA CfmBeginsKeeps ==
  ASSUME SqInv, ~SqSmp, NEW c \in Ctx, NEW a \in Ac, CfmBegins(c, a)
  PROVE  SqInv'
<1>1. Kept
  BY DEF CfmBegins, Kept, qv, bv
<1>2. PacketsInv' /\ BdsInv' /\ PowerInv' /\ LinksInv'
  BY <1>1, KeptCounts
<1>3. /\ ~sqFlush.on /\ ~sqMc.on /\ ~sqXmit.on
      /\ sqFlush' = sqFlush /\ sqLim' = sqLim /\ sqXmit' = sqXmit /\ sqNulls' = sqNulls
      /\ sqCfm' = [on |-> TRUE, ctx |-> c, ac |-> a, old |-> FALSE] /\ sqAir[c][a] > 0
  BY OneProcessor DEF CfmBegins
<1>4. /\ flMask' \subseteq SqVap \cup {"scan"} /\ sqProhib' \in BOOLEAN /\ sqTask' \in BOOLEAN
      /\ sqProhib' = (flMask' # {})
      /\ sqFree > 0 => sqTask' \/ flMask' # {}
  <2>1. VapOf(c) \in SqVap
    BY Constants
  <2> QED BY <2>1, WakeFlow DEF CfmBegins, SqInv
<1>5. SqShape'
  <2>1. sqCfm' \in CfmShape
    BY <1>3 DEF CfmShape
  <2> QED BY <1>1, <1>3, <1>4, <2>1 DEF SqInv, SqShape, Kept
<1>6. TurnsInv'
  BY <1>1, <1>3 DEF TurnsInv, Kept
<1>7. FlowInv'
  BY <1>1, <1>4 DEF FlowInv, Kept
<1>8. FlushInv' /\ QuietInv'
  BY <1>3 DEF FlushInv, QuietInv
<1> QED BY <1>2, <1>5, <1>6, <1>7, <1>8 DEF SqInv

\* The fields of the handlers under way.
LEMMA UnderWay ==
  ASSUME SqShape
  PROVE  /\ sqMc.on => sqMc \in McShape
         /\ sqXmit.on => sqXmit \in XmitShape
         /\ sqFlush.on => sqFlush \in FlushShape
         /\ sqCfm.on => sqCfm \in CfmShape
BY DEF SqShape, NoMc, NoXmit, NoFlush, NoCfm

\* The BD of a station that is gone becomes free; if it was the last to come back,
\* another one was free before, and the flush is scheduled or the flow stopped.
LEMMA CfmOldKeeps ==
  ASSUME SqInv, ~SqSmp, NEW v \in SqVap, CfmOld(v)
  PROVE  SqInv'
<1>1. /\ ~sqFlush.on /\ ~sqCfm.on /\ ~sqMc.on /\ ~sqXmit.on
      /\ sqCtx' = sqCtx /\ sqList' = sqList /\ sqSize' = sqSize /\ sqRef' = sqRef
      /\ sqMc' = sqMc /\ sqAir' = sqAir /\ sqPs' = sqPs
      /\ sqFlush' = sqFlush /\ sqLim' = sqLim /\ sqXmit' = sqXmit /\ sqNulls' = sqNulls
      /\ sqCfm' = sqCfm /\ sqOld[v] > 0
      /\ sqFree' = sqFree + 1 /\ sqOld' = [sqOld EXCEPT ![v] = @ - 1] /\ Wake(v)
  BY OneProcessor DEF CfmOld, qv
<1>2. /\ flMask' \subseteq SqVap \cup {"scan"} /\ sqProhib' \in BOOLEAN /\ sqTask' \in BOOLEAN
      /\ sqProhib' = (flMask' # {})
      /\ sqFree > 0 => sqTask' \/ flMask' # {}
  BY <1>1, WakeFlow DEF SqInv
<1>3. sqFree \in Int /\ sqOld \in [SqVap -> Nat] /\ sqAir \in [Ctx -> [Ac -> Nat]]
  BY DEF SqInv, SqShape
<1>4. /\ sqOld' \in [SqVap -> Nat] /\ sqOld'[v] = sqOld[v] - 1
      /\ \A w \in SqVap \ {v} : sqOld'[w] = sqOld[w]
  BY <1>1, <1>3
<1>5. SqShape'
  <2>1. sqFree' \in Int
    BY <1>1, <1>3
  <2>2. sqOld' \in [SqVap -> Nat]
    BY <1>4
  <2>3. SqShape
    BY DEF SqInv
  <2>4. /\ sqCtx' = sqCtx /\ sqList' = sqList /\ sqSize' = sqSize /\ sqRef' = sqRef
        /\ sqMc' = sqMc /\ sqAir' = sqAir /\ sqPs' = sqPs
        /\ sqFlush' = sqFlush /\ sqLim' = sqLim /\ sqXmit' = sqXmit /\ sqNulls' = sqNulls
        /\ sqCfm' = sqCfm
    BY <1>1
  <2> QED BY <1>2, <2>1, <2>2, <2>3, <2>4 DEF SqShape
<1>6. TurnsInv'
  BY <1>1 DEF SqInv, TurnsInv
<1>7. FlowInv'
  BY <1>1, <1>2 DEF FlowInv
<1>8. LinksInv' /\ PacketsInv' /\ PowerInv'
  BY <1>1 DEF SqInv, LinksInv, PacketsInv, PowerInv, Linked, Held
<1>9. BdsInv'
  <2>1. BdsOK(sqCtx, sqFree + 1, sqAir, sqOld')
    <3>1. BdsOK(sqCtx, sqFree, sqAir, sqOld)
      BY DEF SqInv, BdsInv
    <3> QED BY <1>3, <1>4, <3>1, BdsOld
  <2> QED BY <1>1, <2>1 DEF BdsInv
<1>10. FlushInv'
  BY <1>1 DEF FlushInv
<1>11. QuietInv'
  <2>1. sqFree' = NBds => sqFree > 0
    BY <1>1, <1>3, Constants
  <2> QED BY <1>2, <2>1 DEF QuietInv
<1> QED BY <1>5, <1>6, <1>7, <1>8, <1>9, <1>10, <1>11 DEF SqInv

\* Nothing is behind a flush that begins.
LEMMA FlushBeginsKeeps ==
  ASSUME SqInv, ~SqSmp, FlushBegins
  PROVE  SqInv'
<1>1. Kept
  BY DEF FlushBegins, Kept, qv, bv
<1>2. PacketsInv' /\ BdsInv' /\ PowerInv' /\ LinksInv'
  BY <1>1, KeptCounts
<1>3. /\ ~sqCfm.on /\ ~sqMc.on /\ ~sqXmit.on
      /\ sqCfm' = sqCfm /\ sqTask' = FALSE /\ sqXmit' = sqXmit /\ sqLim' = sqLim
      /\ flMask' = flMask /\ sqProhib' = sqProhib /\ sqNulls' = sqNulls
      /\ sqFlush' = [on |-> TRUE, ac |-> NAc, pos |-> 1, sent |-> FALSE]
  BY OneProcessor DEF FlushBegins, fv, FlushAc
<1>4. SqShape'
  <2>1. sqFlush' \in FlushShape
    <3>1. NAc \in Ac
      BY Constants
    <3> QED BY <1>3, <3>1 DEF FlushShape
  <2> QED BY <1>1, <1>3, <2>1 DEF SqInv, SqShape, Kept
<1>5. TurnsInv' /\ FlowInv'
  BY <1>1, <1>3 DEF SqInv, TurnsInv, FlowInv, Kept
<1>6. FlushInv'
  <2>1. \A a \in Ac : ~(a > NAc)
    BY Constants
  <2>2. \A i \in DOMAIN sqList[NAc] : ~(i < 1)
    <3>1. sqList[NAc] \in Seq(Ctx)
      BY Constants DEF SqInv, SqShape
    <3> QED BY <3>1, Domain
  <2> QED BY <1>1, <1>3, <2>1, <2>2 DEF FlushInv, Kept
<1>7. QuietInv'
  BY <1>3 DEF QuietInv
<1> QED BY <1>2, <1>4, <1>5, <1>6, <1>7 DEF SqInv

\* A context that is passed over is settled.
LEMMA FlushSkipsKeeps ==
  ASSUME SqInv, FlushSkips
  PROVE  SqInv'
<1>1. Kept
  BY DEF FlushSkips, Kept, qv, bv
<1>2. PacketsInv' /\ BdsInv' /\ PowerInv' /\ LinksInv'
  BY <1>1, KeptCounts
<1>3. /\ sqCfm' = sqCfm /\ sqTask' = sqTask /\ sqXmit' = sqXmit /\ sqLim' = sqLim
      /\ flMask' = flMask /\ sqProhib' = sqProhib /\ sqNulls' = sqNulls
      /\ sqFlush.on
  BY DEF FlushSkips, fv
<1>4. sqFlush \in FlushShape
  BY <1>3, UnderWay DEF SqInv
<1>5. sqFlush' = [on |-> TRUE, ac |-> sqFlush.ac, pos |-> sqFlush.pos + 1, sent |-> sqFlush.sent]
  BY <1>4 DEF FlushSkips, NextPos, FlushShape
<1>6. SqShape'
  <2>1. sqFlush' \in FlushShape
    BY <1>4, <1>5 DEF FlushShape
  <2> QED BY <1>1, <1>3, <2>1 DEF SqInv, SqShape, Kept
<1>7. TurnsInv' /\ FlowInv'
  BY <1>1, <1>3, <1>5 DEF SqInv, TurnsInv, FlowInv, Kept
<1>8. FlushInv'
  <2>1. Settled(sqCtx[sqList[sqFlush.ac][sqFlush.pos]], sqFlush.ac)
    BY DEF FlushSkips, Settled
  <2>2. sqList[sqFlush.ac] \in Seq(Ctx)
    BY <1>4 DEF SqInv, SqShape, FlushShape
  <2>3. ASSUME NEW i \in DOMAIN sqList[sqFlush.ac], i < sqFlush.pos + 1, i # sqFlush.pos
        PROVE  i < sqFlush.pos
    <3>1. i \in Nat
      BY <2>2, Domain
    <3> QED BY <1>4, <2>3, <3>1 DEF FlushShape
  <2>4. /\ \A c \in Linked, a \in Ac : a > sqFlush.ac => Settled(sqCtx[c], a)
        /\ ~sqFlush.sent => \A i \in DOMAIN sqList[sqFlush.ac] :
             i < sqFlush.pos => Settled(sqCtx[sqList[sqFlush.ac][i]], sqFlush.ac)
    BY <1>3 DEF SqInv, FlushInv
  <2>5. ASSUME ~sqFlush.sent, NEW i \in DOMAIN sqList[sqFlush.ac], i < sqFlush.pos + 1
        PROVE  Settled(sqCtx[sqList[sqFlush.ac][i]], sqFlush.ac)
    BY <2>1, <2>3, <2>4, <2>5
  <2>6. Linked' = Linked
    BY <1>1 DEF Linked, Kept
  <2> QED BY <1>1, <1>5, <2>4, <2>5, <2>6 DEF FlushInv, Kept, Settled, AtLimit
<1>9. QuietInv'
  BY <1>5 DEF QuietInv
<1> QED BY <1>2, <1>6, <1>7, <1>8, <1>9 DEF SqInv

\* Without packets at the firmware no context is at its limit.
LEMMA NotAtLimit ==
  ASSUME SqShape, BdsInv, sqFree = NBds, NEW c \in Ctx, NEW a \in Ac
  PROVE  ~AtLimit(sqCtx[c], a)
<1>1. sqCtx[c].used = 0 /\ sqCtx[c].usedAc[a] = 0
  <2>1. sqAir \in [Ctx -> [Ac -> Nat]] /\ sqOld \in [SqVap -> Nat]
    BY DEF SqShape
  <2>2. BdsOK(sqCtx, sqFree, sqAir, sqOld)
    BY DEF BdsInv
  <2> QED BY <2>1, <2>2, BdsBounds, ZenonT(30)
<1>2. sqCtx[c] \in CtxShape
  BY DEF SqShape
<1>3. sqCtx[c].limit \in Nat \ {0} /\ sqCtx[c].limAc[a] \in Nat
  <2>1. sqCtx[c].limit \in {TxLimit, PmLimit} /\ sqCtx[c].limAc \in [Ac -> {0, UapsdLimit}]
    BY <1>2 DEF CtxShape
  <2>2. sqCtx[c].limAc[a] \in {0, UapsdLimit}
    BY <2>1
  <2> QED BY <2>1, <2>2, Constants
<1> QED BY <1>1, <1>3 DEF AtLimit

\* After a pass that sent nothing all linked contexts are settled in this category;
\* after the last category no linked context below its limit has a packet, and when
\* all BDs are free no context is at its limit.
LEMMA FlushEndsPassKeeps ==
  ASSUME SqInv, FlushEndsPass
  PROVE  SqInv'
<1>1. /\ sqCtx' = sqCtx /\ sqSize' = sqSize /\ sqRef' = sqRef /\ sqMc' = sqMc
      /\ sqFree' = sqFree /\ sqAir' = sqAir /\ sqOld' = sqOld /\ sqPs' = sqPs
      /\ sqCfm' = sqCfm /\ sqTask' = sqTask /\ sqXmit' = sqXmit /\ sqLim' = sqLim
      /\ flMask' = flMask /\ sqProhib' = sqProhib /\ sqNulls' = sqNulls
      /\ sqFlush.on
  BY DEF FlushEndsPass, fv, bv
<1>2. PICK a \in Ac : a = sqFlush.ac
  BY <1>1, UnderWay DEF SqInv, FlushShape
<1>3. PICK n \in Nat \ {0} : n = sqFlush.pos
  BY <1>1, UnderWay DEF SqInv, FlushShape
<1>4. PICK s \in Seq(Ctx) : s = sqList[a]
  BY DEF SqInv, SqShape
<1>5. Distinct(s) /\ Elems(s) = Linked /\ s # <<>>
  <2>1. Distinct(s) /\ Elems(s) = Linked
    BY <1>4 DEF SqInv, LinksInv
  <2>2. SqMaster \in Linked
    BY SqConstants, Constants DEF SqInv, LinksInv, Linked
  <2>3. s = <<>> => Elems(s) = {}
    BY DEF Elems
  <2> QED BY <2>1, <2>2, <2>3
<1>6. n > Len(s) /\ sqFlush.sent \in BOOLEAN
  BY <1>1, <1>2, <1>3, <1>4, UnderWay DEF FlushEndsPass, SqInv, FlushShape
<1>7. \A b \in Ac : b > a => \A c \in Linked : Settled(sqCtx[c], b)
  BY <1>1, <1>2 DEF SqInv, FlushInv
<1>8. TurnsInv' /\ FlowInv'
  <2>1. ~sqCfm.on /\ ~sqMc.on /\ ~sqXmit.on
    BY <1>1 DEF SqInv, TurnsInv
  <2> QED BY <1>1, <2>1 DEF SqInv, TurnsInv, FlowInv
<1>9. PacketsInv' /\ BdsInv' /\ PowerInv' /\ Linked' = Linked
  BY <1>1 DEF SqInv, PacketsInv, BdsInv, PowerInv, Held, Linked
<1>10. CASE sqFlush.sent
  <2>1. sqList' = sqList /\ sqFlush' = [on |-> TRUE, ac |-> a, pos |-> 1, sent |-> FALSE]
    BY <1>2, <1>10 DEF FlushEndsPass, FlushAc
  <2>2. SqShape'
    <3>1. sqFlush' \in FlushShape
      BY <2>1 DEF FlushShape
    <3> QED BY <1>1, <2>1, <3>1 DEF SqInv, SqShape
  <2>3. LinksInv'
    BY <1>1, <1>9, <2>1 DEF SqInv, LinksInv
  <2>4. FlushInv'
    <3>1. \A i \in DOMAIN s : ~(i < 1)
      BY Domain
    <3>2. \A b \in Ac : b > a => \A c \in Linked' : Settled(sqCtx'[c], b)
      BY <1>1, <1>7, <1>9
    <3> QED BY <1>4, <2>1, <3>1, <3>2 DEF FlushInv, Settled, AtLimit
  <2>5. QuietInv'
    BY <2>1 DEF QuietInv
  <2> QED BY <1>8, <1>9, <2>2, <2>3, <2>4, <2>5 DEF SqInv
<1>11. CASE ~sqFlush.sent
  <2>1. \A c \in Linked : Settled(sqCtx[c], a)
    <3> SUFFICES ASSUME NEW c \in Linked PROVE Settled(sqCtx[c], a)
      OBVIOUS
    <3>1. PICK i \in DOMAIN s : s[i] = c
      BY <1>5 DEF Elems
    <3>2. i < n
      BY <1>6, Domain
    <3>3. \A k \in DOMAIN s : k < n => Settled(sqCtx[s[k]], a)
      BY <1>1, <1>2, <1>3, <1>4, <1>11 DEF SqInv, FlushInv
    <3> QED BY <3>1, <3>2, <3>3
  <2>2. PICK t : t = Tail(s) \o <<Head(s)>>
    OBVIOUS
  <2>3. t \in Seq(Ctx) /\ Distinct(t) /\ Elems(t) = Linked
    BY <1>5, <2>2, RotateElems
  <2>4. sqList' = [sqList EXCEPT ![a] = t]
    BY <1>2, <1>4, <1>11, <2>2 DEF FlushEndsPass
  <2>5. sqList \in [Ac -> Seq(Ctx)]
    BY DEF SqInv, SqShape
  <2>6. sqList' \in [Ac -> Seq(Ctx)]
    BY <2>3, <2>4, <2>5
  <2>7. LinksInv'
    <3>1. ASSUME NEW b \in Ac PROVE Distinct(sqList'[b]) /\ Elems(sqList'[b]) = Linked
      <4>1. Distinct(sqList[b]) /\ Elems(sqList[b]) = Linked
        BY DEF SqInv, LinksInv
      <4>2. sqList'[b] = IF b = a THEN t ELSE sqList[b]
        BY <2>4, <2>5
      <4> QED BY <2>3, <4>1, <4>2
    <3> QED BY <1>1, <1>9, <3>1 DEF SqInv, LinksInv
  <2>8. CASE a > 1
    <3>1. PICK b \in Ac : b = a - 1
      BY <2>8, SqConstants DEF Ac
    <3>2. sqFlush' = [on |-> TRUE, ac |-> b, pos |-> 1, sent |-> FALSE]
      BY <1>2, <1>11, <2>8, <3>1 DEF FlushEndsPass, FlushAc
    <3>3. SqShape'
      <4>1. sqFlush' \in FlushShape
        BY <3>2 DEF FlushShape
      <4> QED BY <1>1, <2>6, <4>1 DEF SqInv, SqShape
    <3>4. FlushInv'
      <4>1. sqList'[b] \in Seq(Ctx)
        BY <2>6
      <4>2. \A i \in DOMAIN sqList'[b] : ~(i < 1)
        BY <4>1, Domain
      <4>3. \A d \in Ac : d > b => \A c \in Linked' : Settled(sqCtx[c], d)
        <5>1. ASSUME NEW d \in Ac, d > b PROVE d = a \/ d > a
          BY <3>1, <5>1, Constants
        <5> QED BY <1>7, <1>9, <2>1, <5>1
      <4> QED BY <1>1, <3>2, <4>2, <4>3 DEF FlushInv, Settled, AtLimit
    <3>5. QuietInv'
      BY <3>2 DEF QuietInv
    <3> QED BY <1>8, <1>9, <2>7, <3>3, <3>4, <3>5 DEF SqInv
  <2>9. CASE ~(a > 1)
    <3>1. sqFlush' = NoFlush /\ a = 1
      BY <1>2, <1>11, <2>9, Constants DEF FlushEndsPass
    <3>2. SqShape'
      BY <1>1, <2>6, <3>1 DEF SqInv, SqShape
    <3>3. FlushInv'
      BY <3>1 DEF FlushInv, NoFlush
    <3>4. QuietInv'
      <4>1. ASSUME sqFree = NBds, NEW c \in Ctx, NEW b \in Ac PROVE sqCtx[c].q[b] = <<>>
        <5>1. CASE c \in Linked
          <6>1. b = a \/ b > a
            BY <3>1, Constants
          <6>2. Settled(sqCtx[c], b)
            BY <1>7, <2>1, <5>1, <6>1
          <6> QED BY <4>1, <6>2, NotAtLimit DEF Settled, SqInv
        <5>2. CASE c \notin Linked
          <6>1. sqCtx[c] = Gone
            BY <5>2 DEF SqInv, LinksInv, Linked
          <6> QED BY <6>1, GoneShape
        <5> QED BY <5>1, <5>2
      <4> QED BY <1>1, <4>1 DEF QuietInv
    <3> QED BY <1>8, <1>9, <2>7, <3>2, <3>3, <3>4 DEF SqInv
  <2> QED BY <2>8, <2>9
<1> QED BY <1>10, <1>11

\* The first packet of category a leaves its list.
Taken(x, a) == [x EXCEPT !.q[a] = Tail(@)]

\* The head of a list goes.
LEMMA TakenShape ==
  ASSUME NEW x \in CtxShape, NEW a \in Ac, x.q[a] # <<>>
  PROVE  /\ Taken(x, a) \in CtxShape
         /\ Taken(x, a).q[a] = Tail(x.q[a]) /\ \A b \in Ac \ {a} : Taken(x, a).q[b] = x.q[b]
         /\ Taken(x, a).on = x.on /\ Taken(x, a).ps = x.ps
         /\ Taken(x, a).limit = x.limit /\ Taken(x, a).used = x.used
         /\ Taken(x, a).usedAc = x.usedAc /\ Taken(x, a).limAc = x.limAc
<1>1. x.q \in [Ac -> Seq(Pkt)] /\ x.q[a] \in Seq(Pkt)
  BY DEF CtxShape
<1>2. PICK u : u = Tail(x.q[a])
  OBVIOUS
<1>3. u \in Seq(Pkt)
  BY <1>1, <1>2
<1>4. PICK w : w = [x.q EXCEPT ![a] = u]
  OBVIOUS
<1>5. w \in [Ac -> Seq(Pkt)] /\ w[a] = u /\ \A b \in Ac \ {a} : w[b] = x.q[b]
  BY <1>1, <1>3, <1>4
<1>6. PICK y : y = [x EXCEPT !.q = w]
  OBVIOUS
<1>7. Taken(x, a) = y
  BY <1>2, <1>4, <1>6 DEF Taken
<1>8. /\ y \in CtxShape /\ y.q = w /\ y.on = x.on /\ y.ps = x.ps /\ y.limit = x.limit
      /\ y.used = x.used /\ y.usedAc = x.usedAc /\ y.limAc = x.limAc
  BY <1>5, <1>6 DEF CtxShape
<1> QED BY <1>2, <1>5, <1>7, <1>8, Zenon

\* A context is charged for one packet more (d = 1) or less (d = -1).
Charged(x, a, d) == [x EXCEPT !.used = @ + d, !.usedAc[a] = @ + d]

\* The counters of a context go up or down by one.
LEMMA ChargedShape ==
  ASSUME NEW x \in CtxShape, NEW a \in Ac, NEW d \in Int
  PROVE  /\ Charged(x, a, d) \in CtxShape
         /\ Charged(x, a, d).used = x.used + d
         /\ Charged(x, a, d).usedAc[a] = x.usedAc[a] + d
         /\ \A b \in Ac \ {a} : Charged(x, a, d).usedAc[b] = x.usedAc[b]
         /\ Charged(x, a, d).on = x.on /\ Charged(x, a, d).ps = x.ps
         /\ Charged(x, a, d).limit = x.limit /\ Charged(x, a, d).q = x.q
         /\ Charged(x, a, d).limAc = x.limAc
<1>1. x.usedAc \in [Ac -> Int] /\ x.used \in Int
  BY DEF CtxShape
<1>2. PICK u : u = x.used + d
  OBVIOUS
<1>3. PICK w : w = [x.usedAc EXCEPT ![a] = @ + d]
  OBVIOUS
<1>4. u \in Int /\ w \in [Ac -> Int] /\ w[a] = x.usedAc[a] + d
      /\ \A b \in Ac \ {a} : w[b] = x.usedAc[b]
  BY <1>1, <1>2, <1>3
<1>5. PICK y : y = [x EXCEPT !.used = u, !.usedAc = w]
  OBVIOUS
<1>6. Charged(x, a, d) = y
  BY <1>2, <1>3, <1>5 DEF Charged, CtxShape
<1>7. /\ y \in CtxShape /\ y.q = x.q /\ y.on = x.on /\ y.ps = x.ps /\ y.limit = x.limit
      /\ y.used = u /\ y.usedAc = w /\ y.limAc = x.limAc
  BY <1>4, <1>5 DEF CtxShape
<1> QED BY <1>2, <1>4, <1>6, <1>7, Zenon

\* A context at its limit stays there when it is charged for more.
LEMMA MoreIsAtLimit ==
  ASSUME NEW x \in CtxShape, NEW y \in CtxShape, NEW b \in Ac, AtLimit(x, b),
         y.ps = x.ps, y.limit = x.limit, y.limAc = x.limAc,
         y.used >= x.used, y.usedAc[b] >= x.usedAc[b]
  PROVE  AtLimit(y, b)
<1>1. /\ x.used \in Int /\ y.used \in Int /\ x.usedAc[b] \in Int /\ y.usedAc[b] \in Int
      /\ x.limit \in {TxLimit, PmLimit} /\ x.limAc[b] \in {0, UapsdLimit}
  BY DEF CtxShape
<1>2. x.limit \in Int /\ x.limAc[b] \in Int
  BY <1>1, Constants
<1> QED BY <1>1, <1>2 DEF AtLimit

\* A context of the lists changes and stays.
LEMMA LinksChange ==
  ASSUME LinksInv, sqList' = sqList, NEW c \in Ctx, sqCtx[c].on, sqCtx'[c].on = TRUE,
         \A d \in Ctx \ {c} : sqCtx'[d] = sqCtx[d]
  PROVE  LinksInv' /\ Linked' = Linked
<1>1. \A d \in Ctx : sqCtx'[d].on <=> sqCtx[d].on
  OBVIOUS
<1>2. Linked' = Linked
  BY <1>1 DEF Linked
<1>3. \A v \in SqVap : sqCtx'[v].on
  BY <1>1, Constants DEF LinksInv
<1>4. \A d \in Ctx : ~sqCtx'[d].on => sqCtx'[d] = Gone
  BY <1>1 DEF LinksInv
<1> QED BY <1>2, <1>3, <1>4 DEF LinksInv

\* What a flush that takes a packet out of the list of c leaves alone; y is the
\* context then.
TakesOne(a, c, y) ==
  /\ sqFlush.on /\ a = sqFlush.ac /\ sqCtx[c].on /\ sqCtx[c].q[a] # <<>>
  /\ sqCtx' = [sqCtx EXCEPT ![c] = y]
  /\ y.q[a] = Tail(sqCtx[c].q[a]) /\ \A b \in Ac \ {a} : y.q[b] = sqCtx[c].q[b]
  /\ y.on = sqCtx[c].on /\ y.ps = sqCtx[c].ps /\ y.limit = sqCtx[c].limit
  /\ y.limAc = sqCtx[c].limAc
  /\ y.used >= sqCtx[c].used /\ \A b \in Ac : y.usedAc[b] >= sqCtx[c].usedAc[b]
  /\ Release(a, Head(sqCtx[c].q[a])) /\ NextPos(TRUE)
  /\ UNCHANGED <<sqList, sqLim, sqMc, sqXmit, sqTask, sqCfm, sqPs, sqNulls>>

\* What it does to the flow and to the BDs.
TakesBd ==
  /\ sqProhib' \in BOOLEAN /\ flMask' \subseteq SqVap \cup {"scan"}
  /\ sqFree' \in Int /\ sqAir' \in [Ctx -> [Ac -> Nat]] /\ sqOld' \in [SqVap -> Nat]

\* A flush takes a packet, whatever becomes of it: the packet is counted no more,
\* and the pass has sent something.
LEMMA FlushTakes ==
  ASSUME SqInv, NEW a \in Ac, NEW c \in Ctx, NEW y \in CtxShape, TakesOne(a, c, y),
         TakesBd, FlowInv', BdsInv'
  PROVE  SqInv'
<1>1. /\ SqShape /\ ~sqCfm.on /\ ~sqMc.on /\ ~sqXmit.on /\ sqFlush \in FlushShape
      /\ sqFlush.on /\ a = sqFlush.ac
  BY UnderWay DEF SqInv, TurnsInv, TakesOne
<1>2. PICK X \in [Ctx -> CtxShape] : X = sqCtx
  BY <1>1 DEF SqShape
<1>3. PICK Y \in [Ctx -> CtxShape] : Y = sqCtx' /\ Y[c] = y /\ (\A d \in Ctx \ {c} : Y[d] = X[d])
  <2>1. sqCtx' = [X EXCEPT ![c] = y]
    BY <1>2 DEF TakesOne
  <2>2. PICK Y : Y = [X EXCEPT ![c] = y]
    OBVIOUS
  <2>3. Y \in [Ctx -> CtxShape] /\ Y[c] = y /\ (\A d \in Ctx \ {c} : Y[d] = X[d])
    BY <2>2
  <2> QED BY <2>1, <2>2, <2>3
<1>4. PICK s \in Seq(Pkt) : s = X[c].q[a] /\ s # <<>>
  BY <1>2, ListType DEF TakesOne
<1>5. /\ X[c].on /\ Y[c].on = X[c].on /\ Y[c].ps = X[c].ps /\ Y[c].limit = X[c].limit
      /\ Y[c].limAc = X[c].limAc
      /\ Y[c].q[a] = Tail(s) /\ \A b \in Ac \ {a} : Y[c].q[b] = X[c].q[b]
  BY <1>2, <1>3, <1>4 DEF TakesOne
<1>6. Y[c].used >= X[c].used /\ \A b \in Ac : Y[c].usedAc[b] >= X[c].usedAc[b]
  BY <1>2, <1>3 DEF TakesOne
<1>7. PICK p \in Pkt : p = Head(s) /\ p \in Elems(s) /\ Elems(Tail(s)) \subseteq Elems(s)
  BY <1>4, CountTail
<1>8. /\ sqList' = sqList /\ sqLim' = sqLim /\ sqMc' = sqMc /\ sqXmit' = sqXmit
      /\ sqTask' = sqTask /\ sqCfm' = sqCfm /\ sqPs' = sqPs /\ sqNulls' = sqNulls
  BY DEF TakesOne
<1>9. sqFlush' = [on |-> TRUE, ac |-> a, pos |-> sqFlush.pos + 1, sent |-> TRUE]
  BY <1>1 DEF NextPos, FlushShape, TakesOne
<1>10. PacketsOK(Y, sqSize', sqRef', Held) /\ sqSize' \in [Ac -> Int] /\ sqRef' \in [SqExtra -> RefShape]
  <2>1. p \in Elems(X[c].q[a]) /\ Elems(Y[c].q[a]) \subseteq Elems(X[c].q[a])
    BY <1>4, <1>5, <1>7
  <2>2. OneMore(Y, X, c, a, p)
    <3>1. \A x : Count(s, x) = Count(Tail(s), x) + IF p = x THEN 1 ELSE 0
      BY <1>4, <1>7, CountTail
    <3> QED BY <1>3, <1>4, <1>5, <3>1 DEF OneMore
  <2>3. PICK H : H = Held
    OBVIOUS
  <2>4. PICK z : z = sqSize'
    OBVIOUS
  <2>5. PICK t : t = sqRef'
    OBVIOUS
  <2>6. PICK size \in [Ac -> Int] : size = sqSize
    BY <1>1 DEF SqShape
  <2>7. PICK r \in [SqExtra -> RefShape] : r = sqRef
    BY <1>1 DEF SqShape
  <2>8. Releases(size, r, z, t, a, p)
    <3>1. Release(a, p)
      BY <1>2, <1>4, <1>7 DEF TakesOne
    <3> QED BY <2>4, <2>5, <2>6, <2>7, <3>1 DEF Release, Releases
  <2>9. PacketsOK(X, size, r, H)
    BY <1>2, <2>3, <2>6, <2>7 DEF SqInv, PacketsInv
  <2>10. PacketsOK(Y, z, t, H) /\ z \in [Ac -> Int] /\ t \in [SqExtra -> RefShape]
    BY <2>1, <2>2, <2>8, <2>9, PacketsTake
  <2> QED BY <2>3, <2>4, <2>5, <2>10
<1>11. PacketsInv'
  BY <1>1, <1>3, <1>8, <1>10 DEF PacketsInv, Held
<1>12. SqShape'
  <2>1. sqFlush' \in FlushShape
    BY <1>1, <1>9 DEF FlushShape
  <2> QED BY <1>1, <1>3, <1>8, <1>10, <2>1 DEF SqShape, TakesBd
<1>13. TurnsInv'
  BY <1>1, <1>8 DEF TurnsInv
<1>14. LinksInv' /\ Linked' = Linked
  <2>1. \A d \in Ctx \ {c} : sqCtx'[d] = sqCtx[d]
    BY <1>2, <1>3
  <2>2. sqCtx'[c].on = TRUE /\ sqCtx[c].on
    BY <1>2, <1>3, <1>5 DEF CtxShape
  <2> QED BY <1>8, <2>1, <2>2, LinksChange DEF SqInv
<1>15. PowerInv'
  <2>1. PowerOK(X, sqPs)
    BY <1>2 DEF SqInv, PowerInv
  <2>2. \A d \in Ctx : Y[d].on = X[d].on /\ Y[d].ps = X[d].ps /\ Y[d].limit = X[d].limit
    BY <1>3, <1>5
  <2>3. PowerOK(Y, sqPs)
    BY <2>1, <2>2, PowerSame
  <2> QED BY <1>3, <1>8, <2>3 DEF PowerInv
<1>16. FlushInv'
  <2>1. ASSUME NEW d \in Linked, NEW b \in Ac, b > a PROVE Settled(Y[d], b)
    <3>1. Settled(X[d], b) /\ d \in Ctx
      BY <1>1, <1>2, <2>1 DEF SqInv, FlushInv, Linked
    <3>2. CASE d # c
      BY <1>3, <3>1, <3>2
    <3>3. CASE d = c
      <4>1. b # a
        BY <2>1, Constants
      <4>2. AtLimit(X[c], b) => AtLimit(Y[c], b)
        BY <1>3, <1>5, <1>6, MoreIsAtLimit
      <4> QED BY <1>5, <3>1, <3>3, <4>1, <4>2 DEF Settled
    <3> QED BY <3>2, <3>3
  <2> QED BY <1>3, <1>9, <1>14, <2>1 DEF FlushInv, Settled, AtLimit
<1>17. QuietInv'
  BY <1>9 DEF QuietInv
<1> QED BY <1>11, <1>12, <1>13, <1>14, <1>15, <1>16, <1>17 DEF SqInv

\* Whoever stops the flow, transmission is prohibited then.
LEMMA StopFlow ==
  ASSUME SqShape, FlowInv, NEW v \in SqVap, FlStop(v)
  PROVE  /\ flMask' \subseteq SqVap \cup {"scan"} /\ sqProhib' \in BOOLEAN
         /\ sqProhib' = (flMask' # {})
BY DEF SqShape, FlowInv, FlStop

\* The context is charged and the pool of BDs pays.
LEMMA BdsCharged ==
  ASSUME SqShape, BdsInv, NEW c \in Ctx, NEW a \in Ac, NEW d \in Int,
         NEW Y \in [Ctx -> CtxShape], Charges(sqCtx, Y, c, a, d),
         sqAir[c][a] + d \in Nat, sqFree - d \in Nat
  PROVE  /\ Moved(sqAir, c, a, d) \in [Ctx -> [Ac -> Nat]]
         /\ BdsOK(Y, sqFree - d, Moved(sqAir, c, a, d), sqOld)
<1>1. sqAir \in [Ctx -> [Ac -> Nat]] /\ sqOld \in [SqVap -> Nat]
  BY DEF SqShape
<1>2. BdsOK(sqCtx, sqFree, sqAir, sqOld)
  BY DEF BdsInv
<1>3. Moved(sqAir, c, a, d) \in [Ctx -> [Ac -> Nat]]
  BY <1>1, MovedType
<1> QED BY <1>1, <1>2, <1>3, BdsMove

\* The packet goes back, is dropped, or takes a BD; the last BD stops the flow.
LEMMA FlushSendsKeeps ==
  ASSUME SqInv, FlushSends
  PROVE  SqInv'
<1>1. SqShape /\ sqFlush \in FlushShape /\ sqFlush.on
  BY UnderWay DEF SqInv, FlushSends
<1>2. PICK a \in Ac : a = sqFlush.ac
  BY <1>1 DEF FlushShape
<1>3. PICK X \in [Ctx -> CtxShape] : X = sqCtx
  BY <1>1 DEF SqShape
<1>4. PICK c \in Ctx : c = sqList[a][sqFlush.pos] /\ X[c].on
  <2>1. sqFlush.pos \in Nat \ {0} /\ sqFlush.pos <= Len(sqList[a])
    BY <1>1, <1>2 DEF FlushSends, FlushShape
  <2>2. sqList[a] \in Seq(Ctx) /\ Elems(sqList[a]) = Linked
    BY <1>1 DEF SqShape, SqInv, LinksInv
  <2>3. sqFlush.pos \in DOMAIN sqList[a]
    BY <2>1, <2>2, Domain
  <2>4. sqList[a][sqFlush.pos] \in Linked
    BY <2>2, <2>3 DEF Elems
  <2> QED BY <1>3, <2>4 DEF Linked
<1>5. X[c].q[a] # <<>> /\ X[c] \in CtxShape /\ VapOf(c) \in SqVap
  BY <1>2, <1>3, <1>4, Constants DEF FlushSends
<1>6. PICK y \in CtxShape :
        /\ y = Taken(X[c], a) /\ y.q[a] = Tail(X[c].q[a])
        /\ \A b \in Ac \ {a} : y.q[b] = X[c].q[b]
        /\ y.on = X[c].on /\ y.ps = X[c].ps /\ y.limit = X[c].limit
        /\ y.used = X[c].used /\ y.usedAc = X[c].usedAc /\ y.limAc = X[c].limAc
  BY <1>5, TakenShape
<1>7. /\ y.used \in Int /\ \A b \in Ac : y.usedAc[b] \in Int
  BY <1>6 DEF CtxShape
<1>8. CASE sqProhib /\ sqFlush' = NoFlush /\ UNCHANGED <<sqCtx, sqSize, sqRef, fv, bv>>
  <2>1. /\ sqFlush' = NoFlush /\ flMask' = flMask /\ sqProhib' = sqProhib /\ Kept
        /\ sqLim' = sqLim /\ sqXmit' = sqXmit /\ sqTask' = sqTask /\ sqCfm' = sqCfm
        /\ sqNulls' = sqNulls
    BY <1>8 DEF FlushSends, fv, bv, Kept
  <2>2. PacketsInv' /\ BdsInv' /\ PowerInv' /\ LinksInv'
    BY <2>1, KeptCounts
  <2>3. SqShape'
    BY <1>1, <2>1 DEF SqShape, Kept
  <2>4. TurnsInv'
    BY <1>1, <2>1 DEF SqInv, TurnsInv, Kept, NoFlush
  <2>5. FlowInv'
    BY <2>1 DEF SqInv, FlowInv, Kept
  <2>6. FlushInv'
    BY <2>1 DEF FlushInv, NoFlush
  <2>7. QuietInv'
    BY <1>8, <2>1 DEF SqInv, FlowInv, QuietInv
  <2> QED BY <2>2, <2>3, <2>4, <2>5, <2>6, <2>7 DEF SqInv
<1>9. ASSUME ~sqProhib, NextPos(TRUE), Release(a, Head(sqCtx[c].q[a])),
             sqCtx' = [sqCtx EXCEPT ![c].q[a] = Tail(@)], sqProhib' \in BOOLEAN,
             flMask' \subseteq SqVap \cup {"scan"}, FlowInv', UNCHANGED bv
      PROVE  SqInv'
  <2>1. sqCtx' = [X EXCEPT ![c] = y]
    BY <1>3, <1>6, <1>9 DEF Taken
  <2>2. TakesOne(a, c, y)
    <3>1. y.used >= X[c].used /\ \A b \in Ac : y.usedAc[b] >= X[c].usedAc[b]
      BY <1>6, <1>7
    <3>2. UNCHANGED <<sqList, sqLim, sqMc, sqXmit, sqTask, sqCfm, sqPs, sqNulls>>
      BY DEF FlushSends
    <3> QED BY <1>1, <1>2, <1>3, <1>4, <1>5, <1>6, <1>9, <2>1, <3>1, <3>2 DEF TakesOne
  <2>3. TakesBd
    BY <1>1, <1>9 DEF TakesBd, SqShape, bv
  <2>4. BdsInv'
    <3>1. BdsOK(X, sqFree, sqAir, sqOld)
      BY <1>3 DEF SqInv, BdsInv
    <3>2. PICK Y : Y = [X EXCEPT ![c] = y]
      OBVIOUS
    <3>3. \A d \in Ctx : Y[d].used = X[d].used /\ Y[d].usedAc = X[d].usedAc
      BY <1>6, <3>2
    <3>4. BdsOK(Y, sqFree, sqAir, sqOld)
      BY <3>1, <3>3, BdsSame
    <3> QED BY <1>9, <2>1, <3>2, <3>4 DEF BdsInv, bv
  <2> QED BY <1>9, <2>2, <2>3, <2>4, FlushTakes
<1>10. ASSUME ~sqProhib, NextPos(TRUE), Release(a, Head(sqCtx[c].q[a])), sqFree > 0,
              sqCtx' = [sqCtx EXCEPT ![c].q[a] = Tail(@), ![c].used = @ + 1, ![c].usedAc[a] = @ + 1],
              sqFree' = sqFree - 1, sqAir' = [sqAir EXCEPT ![c][a] = @ + 1], sqOld' = sqOld,
              sqProhib' \in BOOLEAN,
              flMask' \subseteq SqVap \cup {"scan"}, FlowInv'
       PROVE  SqInv'
  <2>1. PICK z \in CtxShape :
          /\ z = Charged(y, a, 1) /\ z.used = y.used + 1 /\ z.usedAc[a] = y.usedAc[a] + 1
          /\ \A b \in Ac \ {a} : z.usedAc[b] = y.usedAc[b]
          /\ z.on = y.on /\ z.ps = y.ps /\ z.limit = y.limit /\ z.q = y.q /\ z.limAc = y.limAc
    BY ChargedShape
  <2>2. sqCtx' = [X EXCEPT ![c] = z]
    <3>1. sqCtx' = [X EXCEPT ![c] = [[[X[c] EXCEPT !.q[a] = Tail(@)] EXCEPT !.used = @ + 1]
                                                 EXCEPT !.usedAc[a] = @ + 1]]
      BY <1>3, <1>10, ZenonT(30)
    <3>2. z = [[[X[c] EXCEPT !.q[a] = Tail(@)] EXCEPT !.used = @ + 1] EXCEPT !.usedAc[a] = @ + 1]
      BY <1>6, <2>1 DEF Taken, Charged
    <3> QED BY <3>1, <3>2, Zenon
  <2>3. TakesOne(a, c, z)
    <3>1. z.used >= X[c].used /\ \A b \in Ac : z.usedAc[b] >= X[c].usedAc[b]
      <4>1. z.used >= X[c].used
        BY <1>6, <1>7, <2>1
      <4>2. ASSUME NEW b \in Ac PROVE z.usedAc[b] >= y.usedAc[b]
        BY <1>7, <2>1
      <4> QED BY <1>6, <4>1, <4>2
    <3>2. UNCHANGED <<sqList, sqLim, sqMc, sqXmit, sqTask, sqCfm, sqPs, sqNulls>>
      BY DEF FlushSends
    <3>3. /\ z.q[a] = Tail(X[c].q[a]) /\ \A b \in Ac \ {a} : z.q[b] = X[c].q[b]
          /\ z.on = X[c].on /\ z.ps = X[c].ps /\ z.limit = X[c].limit /\ z.limAc = X[c].limAc
      BY <1>6, <2>1
    <3> QED BY <1>1, <1>2, <1>3, <1>4, <1>5, <1>10, <2>2, <3>1, <3>2, <3>3 DEF TakesOne
  <2>4. sqFree \in Nat /\ sqAir[c][a] \in Nat
    BY <1>1 DEF SqShape, SqInv, BdsInv, BdsOK
  <2>5. sqAir' \in [Ctx -> [Ac -> Nat]] /\ BdsOK(sqCtx', sqFree - 1, sqAir', sqOld)
    <3>1. PICK Y \in [Ctx -> CtxShape] : Y = [X EXCEPT ![c] = z]
      OBVIOUS
    <3>2. Charges(X, Y, c, a, 1)
      BY <1>6, <2>1, <3>1 DEF Charges
    <3>3. sqAir[c][a] + 1 \in Nat /\ sqFree - 1 \in Nat
      <4>1. sqFree > 0
        BY <1>10
      <4> QED BY <2>4, <4>1
    <3>4. /\ Moved(sqAir, c, a, 1) \in [Ctx -> [Ac -> Nat]]
          /\ BdsOK(Y, sqFree - 1, Moved(sqAir, c, a, 1), sqOld)
      <4>1. Charges(sqCtx, Y, c, a, 1) /\ 1 \in Int /\ SqShape /\ BdsInv
        BY <1>1, <1>3, <3>2 DEF SqInv
      <4> QED BY <3>1, <3>3, <4>1, BdsCharged, Zenon
    <3>5. sqAir' = Moved(sqAir, c, a, 1)
      BY <1>10 DEF Moved
    <3> QED BY <2>2, <3>1, <3>4, <3>5
  <2>6. BdsInv'
    BY <1>10, <2>5 DEF BdsInv
  <2>7. TakesBd
    <3>1. sqOld \in [SqVap -> Nat] /\ sqFree' \in Int
      BY <1>1, <1>10, <2>4 DEF SqShape
    <3> QED BY <1>10, <2>5, <3>1 DEF TakesBd
  <2> QED BY <1>10, <2>3, <2>6, <2>7, FlushTakes
<1>11. ~sqCfm.on /\ sqCfm' = sqCfm
  BY <1>1 DEF SqInv, TurnsInv, FlushSends
<1>12. ASSUME FlStop(VapOf(c))
       PROVE  sqProhib' \in BOOLEAN /\ flMask' \subseteq SqVap \cup {"scan"} /\ FlowInv'
  BY <1>5, <1>11, <1>12, StopFlow DEF SqInv, FlowInv
<1>13. ASSUME UNCHANGED fv
       PROVE  sqProhib' \in BOOLEAN /\ flMask' \subseteq SqVap \cup {"scan"} /\ FlowInv'
  BY <1>1, <1>11, <1>13 DEF SqInv, SqShape, FlowInv, fv
<1>14. \/ sqProhib /\ sqFlush' = NoFlush /\ UNCHANGED <<sqCtx, sqSize, sqRef, fv, bv>>
       \/ /\ ~sqProhib /\ NextPos(TRUE) /\ Release(a, Head(sqCtx[c].q[a]))
          /\ \/ /\ sqCtx' = [sqCtx EXCEPT ![c].q[a] = Tail(@)]
                /\ UNCHANGED <<fv, bv>>
             \/ /\ sqCtx' = [sqCtx EXCEPT ![c].q[a] = Tail(@)]
                /\ FlStop(VapOf(c)) /\ UNCHANGED bv
             \/ /\ sqFree > 0
                /\ sqCtx' = [sqCtx EXCEPT ![c].q[a] = Tail(@), ![c].used = @ + 1,
                                          ![c].usedAc[a] = @ + 1]
                /\ sqFree' = sqFree - 1 /\ sqAir' = [sqAir EXCEPT ![c][a] = @ + 1]
                /\ FlStop(VapOf(c)) \/ UNCHANGED fv
                /\ sqOld' = sqOld
  BY <1>2, <1>4 DEF FlushSends
<1> QED BY <1>8, <1>9, <1>10, <1>12, <1>13, <1>14

\* A BD is taken or given back without a packet of the lists.
ChargesOnly(c, a, d) ==
  /\ sqCtx' = [sqCtx EXCEPT ![c] = Charged(@, a, d)]
  /\ sqAir' = Moved(sqAir, c, a, d) /\ sqFree' = sqFree - d /\ sqOld' = sqOld
  /\ sqList' = sqList /\ sqSize' = sqSize /\ sqRef' = sqRef /\ sqPs' = sqPs /\ Held' = Held

\* Packets, links and power saving do not depend on what is charged.
LEMMA ChargesKeep ==
  ASSUME SqInv, NEW c \in Ctx, NEW a \in Ac, NEW d \in Int, sqCtx[c].on, ChargesOnly(c, a, d),
         sqAir[c][a] + d \in Nat, sqFree - d \in Nat
  PROVE  /\ sqCtx' \in [Ctx -> CtxShape] /\ sqAir' \in [Ctx -> [Ac -> Nat]] /\ sqFree' \in Int
         /\ PacketsInv' /\ BdsInv' /\ PowerInv' /\ LinksInv'
         /\ \A b \in Ctx : sqCtx'[b].on = sqCtx[b].on /\ sqCtx'[b].q = sqCtx[b].q
<1>1. SqShape /\ BdsInv
  BY DEF SqInv
<1>2. PICK X \in [Ctx -> CtxShape] : X = sqCtx
  BY <1>1 DEF SqShape
<1>3. PICK y \in CtxShape :
        /\ y = Charged(X[c], a, d) /\ y.used = X[c].used + d /\ y.usedAc[a] = X[c].usedAc[a] + d
        /\ \A b \in Ac \ {a} : y.usedAc[b] = X[c].usedAc[b]
        /\ y.on = X[c].on /\ y.ps = X[c].ps /\ y.limit = X[c].limit /\ y.q = X[c].q
  <2>1. X[c] \in CtxShape
    OBVIOUS
  <2> QED BY <2>1, ChargedShape
<1>4. PICK Y \in [Ctx -> CtxShape] : Y = sqCtx' /\ Y[c] = y /\ \A b \in Ctx \ {c} : Y[b] = X[b]
  <2>1. sqCtx' = [X EXCEPT ![c] = y]
    BY <1>2, <1>3 DEF ChargesOnly
  <2>2. PICK Y : Y = [X EXCEPT ![c] = y]
    OBVIOUS
  <2>3. Y \in [Ctx -> CtxShape] /\ Y[c] = y /\ \A b \in Ctx \ {c} : Y[b] = X[b]
    BY <2>2
  <2> QED BY <2>1, <2>2, <2>3
<1>5. \A b \in Ctx : Y[b].q = X[b].q /\ Y[b].on = X[b].on /\ Y[b].ps = X[b].ps /\ Y[b].limit = X[b].limit
  BY <1>3, <1>4
<1>6. PacketsInv'
  <2>1. \A b \in Ac : \A p : Tally(Y, b, p) = Tally(X, b, p)
    BY <1>5, TallySame
  <2>2. PacketsOK(X, sqSize, sqRef, Held)
    BY <1>2 DEF SqInv, PacketsInv
  <2>3. sqRef \in [SqExtra -> RefShape]
    BY <1>1 DEF SqShape
  <2>4. \A e \in SqExtra : sqRef[e].ac \in Ac
    BY <2>3 DEF RefShape
  <2>5. PacketsOK(Y, sqSize, sqRef, Held)
    BY <1>5, <2>1, <2>2, <2>4 DEF PacketsOK
  <2> QED BY <1>4, <2>5 DEF PacketsInv, ChargesOnly
<1>7. BdsInv' /\ sqAir' \in [Ctx -> [Ac -> Nat]]
  <2>1. Charges(sqCtx, Y, c, a, d)
    BY <1>2, <1>3, <1>4 DEF Charges
  <2>2. /\ Moved(sqAir, c, a, d) \in [Ctx -> [Ac -> Nat]]
        /\ BdsOK(Y, sqFree - d, Moved(sqAir, c, a, d), sqOld)
    BY <1>1, <2>1, BdsCharged
  <2> QED BY <1>4, <2>2 DEF BdsInv, ChargesOnly
<1>8. PowerInv'
  <2>1. PowerOK(X, sqPs)
    BY <1>2 DEF SqInv, PowerInv
  <2>2. PowerOK(Y, sqPs)
    BY <1>5, <2>1, PowerSame
  <2> QED BY <1>4, <2>2 DEF PowerInv, ChargesOnly
<1>9. LinksInv'
  <2>1. \A b \in Ctx \ {c} : sqCtx'[b] = sqCtx[b]
    BY <1>2, <1>4
  <2>2. sqCtx'[c].on = TRUE
    BY <1>2, <1>3, <1>4 DEF CtxShape
  <2> QED BY <2>1, <2>2, LinksChange DEF SqInv, ChargesOnly
<1>10. sqFree' \in Int
  BY DEF ChargesOnly
<1> QED BY <1>2, <1>4, <1>5, <1>6, <1>7, <1>8, <1>9, <1>10

\* No counter of BDs leaves its range.
LEMMA BdsRange ==
  ASSUME SqShape, BdsInv
  PROVE  /\ sqFree \in 0 .. NBds
         /\ sqAir \in [Ctx -> [Ac -> 0 .. NBds]] /\ sqOld \in [SqVap -> 0 .. NBds]
         /\ \A c \in Ctx : sqCtx[c].used \in Nat /\ sqCtx[c].usedAc \in [Ac -> Nat]
<1>1. sqAir \in [Ctx -> [Ac -> Nat]] /\ sqOld \in [SqVap -> Nat]
  BY DEF SqShape
<1>2. BdsOK(sqCtx, sqFree, sqAir, sqOld)
  BY DEF BdsInv
<1> QED BY <1>1, <1>2, BdsBounds, Zenon

\* A keep-alive takes a BD past the queue.
LEMMA NullPacketKeeps ==
  ASSUME SqInv, ~SqSmp, NEW s \in SqSta, NullPacket(s)
  PROVE  SqInv'
<1>1. /\ ~sqFlush.on /\ ~sqCfm.on /\ ~sqMc.on /\ ~sqXmit.on
      /\ sqCtx[s].on /\ sqFree > 0 /\ sqNulls < NullMax /\ sqNulls' = sqNulls + 1
      /\ sqList' = sqList /\ sqSize' = sqSize /\ sqRef' = sqRef /\ sqLim' = sqLim /\ sqMc' = sqMc
      /\ sqXmit' = sqXmit /\ sqTask' = sqTask /\ sqFlush' = sqFlush /\ sqCfm' = sqCfm
      /\ sqPs' = sqPs /\ sqOld' = sqOld /\ flMask' = flMask /\ sqProhib' = sqProhib
      /\ sqFree' = sqFree - 1
  BY OneProcessor DEF NullPacket, fv
<1>2. SqShape /\ s \in Ctx /\ 1 \in Ac
  BY Constants DEF SqInv
<1>3. ChargesOnly(s, 1, 1)
  <2>1. sqCtx' = [sqCtx EXCEPT ![s] = Charged(@, 1, 1)]
    BY DEF NullPacket, Charged
  <2>2. sqAir' = Moved(sqAir, s, 1, 1)
    BY DEF NullPacket, Moved
  <2> QED BY <1>1, <2>1, <2>2 DEF ChargesOnly, Held
<1>4. sqFree \in 0 .. NBds /\ sqAir[s][1] \in Nat
  BY <1>2, BdsRange DEF SqInv, SqShape
<1>5. /\ sqCtx' \in [Ctx -> CtxShape] /\ sqAir' \in [Ctx -> [Ac -> Nat]] /\ sqFree' \in Int
      /\ PacketsInv' /\ BdsInv' /\ PowerInv' /\ LinksInv'
  <2>1. sqAir[s][1] + 1 \in Nat /\ sqFree - 1 \in Nat /\ 1 \in Int
    BY <1>1, <1>4
  <2> QED BY <1>1, <1>2, <1>3, <2>1, ChargesKeep
<1>6. SqShape'
  <2>1. sqNulls' \in 0 .. NullMax
    BY <1>1, <1>2, SqConstants DEF SqShape
  <2> QED BY <1>1, <1>2, <1>5, <2>1 DEF SqShape
<1>7. TurnsInv' /\ FlowInv'
  BY <1>1 DEF SqInv, TurnsInv, FlowInv
<1>8. FlushInv'
  BY <1>1 DEF FlushInv
<1>9. QuietInv'
  <2>1. sqFree' # NBds
    BY <1>1, <1>4, Constants
  <2> QED BY <2>1 DEF QuietInv
<1> QED BY <1>5, <1>6, <1>7, <1>8, <1>9 DEF SqInv

\* The BD comes back; if it was the last one out, another was free when the
\* confirmation began, and the flush is scheduled or the flow stopped.
LEMMA CfmEndsKeeps ==
  ASSUME SqInv, CfmEnds
  PROVE  SqInv'
<1>1. /\ sqCfm.on /\ ~sqCfm.old /\ ~sqFlush.on /\ ~sqMc.on /\ ~sqXmit.on
      /\ sqCfm' = NoCfm /\ sqFree' = sqFree + 1
      /\ sqList' = sqList /\ sqSize' = sqSize /\ sqRef' = sqRef /\ sqLim' = sqLim /\ sqMc' = sqMc
      /\ sqXmit' = sqXmit /\ sqTask' = sqTask /\ sqFlush' = sqFlush /\ sqNulls' = sqNulls
      /\ sqPs' = sqPs /\ sqOld' = sqOld /\ flMask' = flMask /\ sqProhib' = sqProhib
  BY DEF CfmEnds, fv, SqInv, TurnsInv
<1>2. SqShape /\ sqCfm \in CfmShape
  BY <1>1, UnderWay DEF SqInv
<1>3. PICK c \in Ctx : c = sqCfm.ctx
  BY <1>2 DEF CfmShape
<1>4. PICK a \in Ac : a = sqCfm.ac
  BY <1>2 DEF CfmShape
<1>5. sqAir[c][a] \in Nat /\ sqAir[c][a] > 0 /\ sqFree \in Nat /\ sqCtx[c].usedAc = sqAir[c]
  <2>1. sqAir[c][a] \in Nat
    BY <1>2 DEF SqShape
  <2>2. sqAir[c][a] > 0
    BY <1>1, <1>3, <1>4 DEF SqInv, TurnsInv
  <2> QED BY <2>1, <2>2 DEF SqInv, BdsInv, BdsOK
<1>6. sqCtx[c].on
  <2>1. CASE ~sqCtx[c].on
    <3>1. sqCtx[c] = Gone
      BY <2>1 DEF SqInv, LinksInv
    <3>2. sqAir[c][a] = 0
      BY <1>5, <3>1, GoneShape
    <3> QED BY <1>5, <3>2
  <2> QED BY <2>1
<1>7. ChargesOnly(c, a, -1)
  <2>1. sqCtx' = [sqCtx EXCEPT ![c] = Charged(@, a, -1)]
    <3>1. sqCtx \in [Ctx -> CtxShape]
      BY <1>2 DEF SqShape
    <3>2. sqCtx[c].used \in Int /\ sqCtx[c].usedAc \in [Ac -> Int]
      BY <3>1 DEF CtxShape
    <3>3. sqCtx[c].used - 1 = sqCtx[c].used + (-1) /\ sqCtx[c].usedAc[a] - 1 = sqCtx[c].usedAc[a] + (-1)
      BY <3>2
    <3>4. PICK w : w = [[sqCtx[c] EXCEPT !.used = @ - 1] EXCEPT !.usedAc[a] = @ - 1]
      OBVIOUS
    <3>5. sqCtx' = [sqCtx EXCEPT ![c] = w]
      <4>1. sqCtx' = [sqCtx EXCEPT ![c].used = @ - 1, ![c].usedAc[a] = @ - 1]
        BY <1>1, <1>3, <1>4 DEF CfmEnds
      <4> QED BY <3>1, <3>4, <4>1
    <3>6. Charged(sqCtx[c], a, -1) = w
      BY <3>1, <3>3, <3>4 DEF Charged, CtxShape
    <3> QED BY <3>5, <3>6
  <2>2. sqAir' = Moved(sqAir, c, a, -1)
    <3>1. sqAir[c][a] - 1 = sqAir[c][a] + (-1)
      BY <1>5
    <3> QED BY <1>1, <1>3, <1>4, <3>1 DEF CfmEnds, Moved
  <2>3. sqFree' = sqFree - (-1)
    BY <1>1, <1>5
  <2> QED BY <1>1, <2>1, <2>2, <2>3 DEF ChargesOnly, Held
<1>8. /\ sqCtx' \in [Ctx -> CtxShape] /\ sqAir' \in [Ctx -> [Ac -> Nat]] /\ sqFree' \in Int
      /\ PacketsInv' /\ BdsInv' /\ PowerInv' /\ LinksInv'
  <2>1. PICK d \in Int : d = -1
    OBVIOUS
  <2>2. sqAir[c][a] + d \in Nat /\ sqFree - d \in Nat
    BY <1>5, <2>1
  <2>3. ChargesOnly(c, a, d)
    BY <1>7, <2>1
  <2> QED BY <1>6, <2>2, <2>3, ChargesKeep
<1>9. SqShape'
  BY <1>1, <1>2, <1>8 DEF SqShape
<1>10. TurnsInv' /\ FlowInv'
  BY <1>1 DEF SqInv, TurnsInv, FlowInv, NoCfm
<1>11. FlushInv'
  BY <1>1 DEF FlushInv
<1>12. QuietInv'
  <2>1. sqFree' = NBds => sqFree > 0
    BY <1>1, <1>5, Constants
  <2> QED BY <1>1, <2>1 DEF QuietInv, SqInv, FlowInv
<1> QED BY <1>8, <1>9, <1>10, <1>11, <1>12 DEF SqInv

\* A packet more in a list.
Added(X, Y, c, a, p, front) == Y = [X EXCEPT ![c] = Put(X[c], a, p, front)]

\* A packet at the end or, if it is urgent, at the front of a list.
LEMMA PutOne ==
  ASSUME NEW X \in [Ctx -> CtxShape], NEW c \in Ctx, NEW a \in Ac, NEW p \in Pkt,
         NEW front \in BOOLEAN, NEW Y, Added(X, Y, c, a, p, front)
  PROVE  /\ Y \in [Ctx -> CtxShape]
         /\ OneMore(X, Y, c, a, p) /\ Elems(Y[c].q[a]) = Elems(X[c].q[a]) \cup {p}
         /\ \A d \in Ctx \ {c} : Y[d] = X[d]
         /\ \A d \in Ctx : /\ Y[d].on = X[d].on /\ Y[d].ps = X[d].ps /\ Y[d].limit = X[d].limit
                           /\ Y[d].used = X[d].used /\ Y[d].usedAc = X[d].usedAc
<1>1. PICK x \in CtxShape : x = X[c]
  OBVIOUS
<1>2. PICK y \in CtxShape :
        /\ y = Put(x, a, p, front)
        /\ y.q[a] = IF front THEN <<p>> \o x.q[a] ELSE Append(x.q[a], p)
        /\ \A b \in Ac \ {a} : y.q[b] = x.q[b]
        /\ y.on = x.on /\ y.ps = x.ps /\ y.limit = x.limit /\ y.used = x.used
        /\ y.usedAc = x.usedAc
  BY PutShape
<1>3. /\ Y \in [Ctx -> CtxShape] /\ Y[c] = y /\ \A d \in Ctx \ {c} : Y[d] = X[d]
  <2>1. Y = [X EXCEPT ![c] = y]
    BY <1>1, <1>2 DEF Added
  <2> QED BY <2>1
<1>4. PICK s \in Seq(Pkt) : s = x.q[a]
  BY ListType
<1>5. PICK t : t = IF front THEN <<p>> \o s ELSE Append(s, p)
  OBVIOUS
<1>6. y.q[a] = t /\ \A b \in Ac \ {a} : y.q[b] = x.q[b]
  <2>1. x.q \in [Ac -> Seq(Pkt)]
    BY ListType
  <2> QED BY <1>2, <1>4, <1>5, <2>1
<1>7. Elems(t) = Elems(s) \cup {p} /\ \A z : Count(t, z) = Count(s, z) + IF p = z THEN 1 ELSE 0
  <2>1. CASE front
    <3>1. t = <<p>> \o s
      BY <1>5, <2>1
    <3>2. Elems(t) = Elems(s) \cup {p}
      BY <3>1, CountFront
    <3>3. \A z : Count(t, z) = Count(s, z) + IF p = z THEN 1 ELSE 0
      BY <3>1, CountFront
    <3> QED BY <3>2, <3>3
  <2>2. CASE ~front
    <3>1. t = Append(s, p)
      BY <1>5, <2>2
    <3>2. Elems(t) = Elems(s) \cup {p}
      BY <3>1, AppendElems
    <3>3. \A z : Count(t, z) = Count(s, z) + IF p = z THEN 1 ELSE 0
      BY <3>1, CountAppend
    <3> QED BY <3>2, <3>3
  <2> QED BY <2>1, <2>2
<1>8. OneMore(X, Y, c, a, p)
  BY <1>1, <1>3, <1>4, <1>6, <1>7 DEF OneMore
<1>9. Elems(Y[c].q[a]) = Elems(X[c].q[a]) \cup {p}
  BY <1>1, <1>3, <1>4, <1>6, <1>7
<1>10. \A d \in Ctx : /\ Y[d].on = X[d].on /\ Y[d].ps = X[d].ps /\ Y[d].limit = X[d].limit
                      /\ Y[d].used = X[d].used /\ Y[d].usedAc = X[d].usedAc
  BY <1>1, <1>2, <1>3
<1> QED BY <1>3, <1>8, <1>9, <1>10

\* The BDs, the links and the power saving do not change with it.
Enqueues(c, a, p, front) ==
  /\ sqCtx[c].on /\ sqCtx' = [sqCtx EXCEPT ![c] = Put(sqCtx[c], a, p, front)]
  /\ sqList' = sqList /\ sqFree' = sqFree /\ sqAir' = sqAir /\ sqOld' = sqOld /\ sqPs' = sqPs

\* Whoever enqueues a packet into a linked context changes its list only.
LEMMA EnqueuesKeep ==
  ASSUME SqInv, NEW c \in Ctx, NEW a \in Ac, NEW p \in Pkt, NEW front \in BOOLEAN,
         Enqueues(c, a, p, front)
  PROVE  /\ sqCtx' \in [Ctx -> CtxShape] /\ BdsInv' /\ PowerInv' /\ LinksInv'
         /\ OneMore(sqCtx, sqCtx', c, a, p) /\ Elems(sqCtx'[c].q[a]) = Elems(sqCtx[c].q[a]) \cup {p}
         /\ \A d \in Ctx : sqCtx'[d].on = sqCtx[d].on
<1>1. PICK X \in [Ctx -> CtxShape] : X = sqCtx
  BY DEF SqInv, SqShape
<1>2. PICK Y : Y = [X EXCEPT ![c] = Put(X[c], a, p, front)]
  OBVIOUS
<1>3. Y = sqCtx' /\ X[c].on /\ Added(X, Y, c, a, p, front)
  BY <1>1, <1>2 DEF Enqueues, Added
<1>4. /\ Y \in [Ctx -> CtxShape]
      /\ OneMore(X, Y, c, a, p) /\ Elems(Y[c].q[a]) = Elems(X[c].q[a]) \cup {p}
      /\ \A d \in Ctx \ {c} : Y[d] = X[d]
      /\ \A d \in Ctx : /\ Y[d].on = X[d].on /\ Y[d].ps = X[d].ps /\ Y[d].limit = X[d].limit
                        /\ Y[d].used = X[d].used /\ Y[d].usedAc = X[d].usedAc
  BY <1>3, PutOne
<1>5. BdsInv'
  <2>1. BdsOK(X, sqFree, sqAir, sqOld)
    BY <1>1 DEF SqInv, BdsInv
  <2>2. BdsOK(Y, sqFree, sqAir, sqOld)
    BY <1>4, <2>1, BdsSame
  <2> QED BY <1>3, <2>2 DEF BdsInv, Enqueues
<1>6. PowerInv'
  <2>1. PowerOK(X, sqPs)
    BY <1>1 DEF SqInv, PowerInv
  <2>2. PowerOK(Y, sqPs)
    BY <1>4, <2>1, PowerSame
  <2> QED BY <1>3, <2>2 DEF PowerInv, Enqueues
<1>7. LinksInv'
  <2>1. \A b \in Ctx \ {c} : sqCtx'[b] = sqCtx[b]
    BY <1>1, <1>3, <1>4
  <2>2. sqCtx'[c].on = TRUE
    BY <1>1, <1>3, <1>4 DEF CtxShape
  <2> QED BY <2>1, <2>2, LinksChange DEF SqInv, Enqueues
<1> QED BY <1>1, <1>3, <1>4, <1>5, <1>6, <1>7

\* The packet is refused, or counted, listed and a flush scheduled.
LEMMA XmitEnqueuesKeeps ==
  ASSUME SqInv, XmitEnqueues
  PROVE  SqInv'
<1>1. /\ sqXmit.on /\ ~sqXmit.stale /\ ~sqFlush.on /\ ~sqMc.on /\ ~sqCfm.on
      /\ sqXmit' = NoXmit
      /\ sqFree' = sqFree /\ sqAir' = sqAir /\ sqOld' = sqOld /\ flMask' = flMask
      /\ sqProhib' = sqProhib
      /\ sqList' = sqList /\ sqRef' = sqRef /\ sqLim' = sqLim /\ sqMc' = sqMc
      /\ sqFlush' = sqFlush /\ sqNulls' = sqNulls /\ sqPs' = sqPs /\ sqCfm' = sqCfm
  BY DEF XmitEnqueues, fv, bv, SqInv, TurnsInv
<1>2. SqShape /\ sqXmit \in XmitShape
  BY <1>1, UnderWay DEF SqInv
<1>3. PICK c \in Ctx : c = sqXmit.ctx /\ sqCtx[c].on
  BY <1>1, <1>2 DEF XmitShape, SqInv, TurnsInv
<1>4. PICK front \in BOOLEAN, a \in Ac, refused \in BOOLEAN :
        /\ sqSize' = IF refused THEN sqSize ELSE [sqSize EXCEPT ![a] = @ + 1]
        /\ sqCtx' = IF refused THEN sqCtx ELSE [sqCtx EXCEPT ![c] = Put(sqCtx[c], a, Own, front)]
        /\ sqTask' = (sqTask \/ ~refused)
  <2>1. PICK urgent \in BOOLEAN, ac \in Ac :
       LET a == IF urgent THEN NAc ELSE ac
           x == IF sqXmit.stale THEN Gone ELSE sqCtx[sqXmit.ctx]
           refused == Refused(sqSize[a] + 1, Len(x.q[a]), urgent)
       IN
       /\ urgent => ac = NAc /\ Len(x.q[a]) < QMax
       /\ sqSize' = IF refused THEN sqSize ELSE [sqSize EXCEPT ![a] = @ + 1]
       /\ sqCtx' = IF refused \/ sqXmit.stale THEN sqCtx
                   ELSE [sqCtx EXCEPT ![sqXmit.ctx] = Put(x, a, Own, urgent)]
       /\ sqTask' = (sqTask \/ ~refused)
    BY DEF XmitEnqueues
  <2>2. PICK a \in Ac : a = IF urgent THEN NAc ELSE ac
    BY Constants
  <2>3. PICK no : no = Refused(sqSize[a] + 1, Len(sqCtx[c].q[a]), urgent)
    OBVIOUS
  <2>4. no \in BOOLEAN
    BY <2>3 DEF Refused
  <2>5. /\ sqSize' = IF no THEN sqSize ELSE [sqSize EXCEPT ![a] = @ + 1]
        /\ sqCtx' = IF no THEN sqCtx ELSE [sqCtx EXCEPT ![c] = Put(sqCtx[c], a, Own, urgent)]
        /\ sqTask' = (sqTask \/ ~no)
    BY <1>1, <1>3, <2>1, <2>2, <2>3
  <2> QED BY <2>4, <2>5
<1>5. TurnsInv' /\ FlushInv'
  BY <1>1 DEF TurnsInv, FlushInv, NoXmit
<1>6. FlowInv'
  BY <1>1 DEF SqInv, FlowInv
<1>7. CASE refused
  <2>1. Kept /\ sqTask' = sqTask
    BY <1>1, <1>2, <1>4, <1>7 DEF Kept, SqShape
  <2>2. PacketsInv' /\ BdsInv' /\ PowerInv' /\ LinksInv'
    BY <2>1, KeptCounts
  <2>3. SqShape'
    BY <1>1, <1>2, <2>1 DEF SqShape, Kept
  <2>4. QuietInv'
    BY <1>1, <2>1 DEF SqInv, QuietInv, Kept
  <2> QED BY <1>5, <1>6, <2>2, <2>3, <2>4 DEF SqInv
<1>8. CASE ~refused
  <2>1. Enqueues(c, a, Own, front) /\ sqTask' = TRUE /\ sqSize' = [sqSize EXCEPT ![a] = @ + 1]
    BY <1>1, <1>3, <1>4, <1>8 DEF Enqueues
  <2>2. /\ sqCtx' \in [Ctx -> CtxShape] /\ BdsInv' /\ PowerInv' /\ LinksInv'
        /\ OneMore(sqCtx, sqCtx', c, a, Own)
        /\ Elems(sqCtx'[c].q[a]) = Elems(sqCtx[c].q[a]) \cup {Own}
    <3>1. Own \in Pkt
      BY Constants
    <3> QED BY <2>1, <3>1, EnqueuesKeep
  <2>3. PacketsInv'
    <3>1. PICK X \in [Ctx -> CtxShape] : X = sqCtx
      BY <1>2 DEF SqShape
    <3>2. PICK Y \in [Ctx -> CtxShape] : Y = sqCtx'
      BY <2>2
    <3>3. PICK size \in [Ac -> Int] : size = sqSize
      BY <1>2 DEF SqShape
    <3>4. PICK r \in [SqExtra -> RefShape] : r = sqRef
      BY <1>2 DEF SqShape
    <3>5. PICK H : H = Held
      OBVIOUS
    <3>6. PacketsOK(X, size, r, H)
      BY <3>1, <3>3, <3>4, <3>5 DEF SqInv, PacketsInv
    <3>7. OneMore(X, Y, c, a, Own) /\ Elems(Y[c].q[a]) = Elems(X[c].q[a]) \cup {Own}
      BY <2>2, <3>1, <3>2
    <3>8. PacketsOK(Y, [size EXCEPT ![a] = @ + 1], r, H)
      BY <3>6, <3>7, PacketsPut
    <3>9. Held' = Held
      BY <1>1 DEF Held
    <3> QED BY <1>1, <2>1, <3>2, <3>3, <3>4, <3>5, <3>8, <3>9 DEF PacketsInv
  <2>4. SqShape'
    <3>1. sqSize' \in [Ac -> Int]
      BY <1>2, <2>1 DEF SqShape
    <3>2. sqTask' \in BOOLEAN
      BY <2>1
    <3> QED BY <1>1, <1>2, <2>2, <3>1, <3>2 DEF SqShape
  <2>5. QuietInv'
    BY <2>1 DEF QuietInv
  <2> QED BY <1>5, <1>6, <2>2, <2>3, <2>4, <2>5 DEF SqInv
<1> QED BY <1>7, <1>8

\* The frame is counted once, and the sender holds the first reference.
LEMMA McBeginsKeeps ==
  ASSUME SqInv, ~SqSmp, McBegins
  PROVE  SqInv'
<1>1. /\ ~sqFlush.on /\ ~sqCfm.on /\ ~sqMc.on /\ ~sqXmit.on
      /\ sqCtx' = sqCtx /\ sqList' = sqList
      /\ sqFree' = sqFree /\ sqAir' = sqAir /\ sqOld' = sqOld /\ sqPs' = sqPs
      /\ sqCfm' = sqCfm /\ sqTask' = sqTask /\ sqXmit' = sqXmit /\ sqLim' = sqLim
      /\ flMask' = flMask /\ sqProhib' = sqProhib /\ sqNulls' = sqNulls /\ sqFlush' = sqFlush
  BY OneProcessor DEF McBegins, fv, bv
<1>2. SqShape
  BY DEF SqInv
<1>3. PICK e \in SqExtra, a \in Ac, group \in SUBSET {s \in SqSta : sqCtx[s].on} :
        /\ sqRef[e].ref = 0
        /\ sqRef' = [sqRef EXCEPT ![e] = [ref |-> 1, ac |-> a]]
        /\ sqSize' = [sqSize EXCEPT ![a] = @ + 1]
        /\ sqMc' = [on |-> TRUE, ex |-> e, left |-> group]
  BY DEF McBegins
<1>4. PICK r \in [SqExtra -> RefShape] : r = sqRef /\ r[e].ref = 0
  BY <1>2, <1>3 DEF SqShape
<1>5. PICK t \in [SqExtra -> RefShape] :
        t = sqRef' /\ t[e].ref = 1 /\ t[e].ac = a /\ \A f \in SqExtra \ {e} : t[f] = r[f]
  <2>1. PICK w : w = [ref |-> 1, ac |-> a]
    OBVIOUS
  <2>2. w \in RefShape /\ w.ref = 1 /\ w.ac = a
    BY <2>1 DEF RefShape
  <2>3. sqRef' = [r EXCEPT ![e] = w]
    BY <1>3, <1>4, <2>1
  <2>4. PICK t : t = [r EXCEPT ![e] = w]
    OBVIOUS
  <2>5. t \in [SqExtra -> RefShape] /\ t[e] = w /\ \A f \in SqExtra \ {e} : t[f] = r[f]
    BY <2>2, <2>4
  <2> QED BY <2>2, <2>3, <2>4, <2>5
<1>6. PacketsInv'
  <2>1. PICK X \in [Ctx -> CtxShape] : X = sqCtx
    BY <1>2 DEF SqShape
  <2>2. PICK size \in [Ac -> Int] : size = sqSize
    BY <1>2 DEF SqShape
  <2>3. PacketsOK(X, size, r, {})
    BY <1>1, <1>4, <2>1, <2>2 DEF SqInv, PacketsInv, Held
  <2>4. PacketsOK(X, [size EXCEPT ![a] = @ + 1], t, {e})
    <3>1. r[e].ref = 0
      BY <1>4
    <3>2. t[e].ref = 1
      BY <1>5
    <3>3. t[e].ac = a
      BY <1>5
    <3>4. \A f \in SqExtra \ {e} : t[f] = r[f]
      BY <1>5
    <3> QED BY <2>3, <3>1, <3>2, <3>3, <3>4, PacketsHold
  <2>5. Held' = {e}
    BY <1>3 DEF Held
  <2> QED BY <1>1, <1>3, <1>5, <2>1, <2>2, <2>4, <2>5 DEF PacketsInv
<1>7. SqShape'
  <2>1. sqMc' \in McShape
    BY <1>3 DEF McShape
  <2>2. sqSize' \in [Ac -> Int]
    BY <1>2, <1>3 DEF SqShape
  <2>3. sqRef' \in [SqExtra -> RefShape]
    BY <1>5
  <2> QED BY <1>1, <1>2, <2>1, <2>2, <2>3 DEF SqShape
<1>8. TurnsInv'
  <2>1. \A s \in group : sqCtx[s].on
    OBVIOUS
  <2> QED BY <1>1, <1>3, <2>1 DEF TurnsInv
<1>9. FlowInv' /\ FlushInv'
  BY <1>1 DEF SqInv, FlowInv, FlushInv
<1>10. LinksInv' /\ BdsInv' /\ PowerInv'
  BY <1>1 DEF SqInv, LinksInv, BdsInv, PowerInv, Linked
<1>11. QuietInv'
  BY <1>3 DEF QuietInv
<1> QED BY <1>6, <1>7, <1>8, <1>9, <1>10, <1>11 DEF SqInv

\* Each clone is a reference of its own; the frame is not counted again.
LEMMA McClonesKeeps ==
  ASSUME SqInv, NEW s \in SqSta, McClones(s)
  PROVE  SqInv'
<1>1. /\ sqMc.on /\ ~sqFlush.on /\ ~sqCfm.on /\ ~sqXmit.on
      /\ sqList' = sqList /\ sqSize' = sqSize
      /\ sqFree' = sqFree /\ sqAir' = sqAir /\ sqOld' = sqOld /\ sqPs' = sqPs
      /\ sqCfm' = sqCfm /\ sqTask' = sqTask /\ sqXmit' = sqXmit /\ sqLim' = sqLim
      /\ flMask' = flMask /\ sqProhib' = sqProhib /\ sqNulls' = sqNulls /\ sqFlush' = sqFlush
  BY DEF McClones, fv, bv, SqInv, TurnsInv
<1>2. SqShape /\ sqMc \in McShape /\ s \in Ctx
  BY <1>1, UnderWay, Constants DEF SqInv
<1>3. PICK e \in SqExtra : e = sqMc.ex
  BY <1>2 DEF McShape
<1>4. PICK r \in [SqExtra -> RefShape] : r = sqRef
  BY <1>2 DEF SqShape
<1>5. PICK a \in Ac : a = r[e].ac
  BY <1>4 DEF RefShape
<1>6. sqMc' = [on |-> TRUE, ex |-> e, left |-> sqMc.left \ {s}]
  BY <1>2, <1>3 DEF McClones, McShape
<1>7. sqCtx[s].on /\ sqMc.left \subseteq SqSta /\ \A b \in sqMc.left : sqCtx[b].on
  BY <1>1, <1>2 DEF McClones, SqInv, TurnsInv, McShape
<1>8. Held = {e} /\ Held' = {e}
  BY <1>1, <1>3, <1>6 DEF Held
<1>9. sqMc' \in McShape
  BY <1>2, <1>6, <1>7 DEF McShape
<1>10. FlowInv' /\ FlushInv'
  BY <1>1 DEF SqInv, FlowInv, FlushInv
<1>11. QuietInv'
  BY <1>6 DEF QuietInv
<1>12. CASE sqRef' = [sqRef EXCEPT ![e].ref = @ + 1] /\ sqCtx' = [sqCtx EXCEPT ![s] = Put(sqCtx[s], a, e, FALSE)]
  <2>1. Enqueues(s, a, e, FALSE)
    BY <1>1, <1>7, <1>12 DEF Enqueues
  <2>2. /\ sqCtx' \in [Ctx -> CtxShape] /\ BdsInv' /\ PowerInv' /\ LinksInv'
        /\ OneMore(sqCtx, sqCtx', s, a, e)
        /\ Elems(sqCtx'[s].q[a]) = Elems(sqCtx[s].q[a]) \cup {e}
        /\ \A d \in Ctx : sqCtx'[d].on = sqCtx[d].on
    <3>1. e \in Pkt
      BY Constants
    <3>2. PICK front \in BOOLEAN : front = FALSE
      OBVIOUS
    <3>3. Enqueues(s, a, e, front)
      BY <2>1, <3>2
    <3>4. s \in Ctx
      BY <1>2
    <3>5. PICK c \in Ctx : c = s
      BY <3>4
    <3>6. PICK p \in Pkt : p = e
      BY <3>1
    <3>7. Enqueues(c, a, p, front)
      BY <3>3, <3>5, <3>6
    <3>8. sqCtx' \in [Ctx -> CtxShape] /\ BdsInv' /\ PowerInv' /\ LinksInv'
      BY <3>7, EnqueuesKeep
    <3>9. OneMore(sqCtx, sqCtx', c, a, p)
      BY <3>7, EnqueuesKeep
    <3>10. Elems(sqCtx'[c].q[a]) = Elems(sqCtx[c].q[a]) \cup {p}
      BY <3>7, EnqueuesKeep
    <3>11. \A d \in Ctx : sqCtx'[d].on = sqCtx[d].on
      BY <3>7, EnqueuesKeep
    <3> QED BY <3>5, <3>6, <3>8, <3>9, <3>10, <3>11
  <2>3. PICK t \in [SqExtra -> RefShape] :
          /\ t = sqRef' /\ t[e].ref = r[e].ref + 1 /\ t[e].ac = r[e].ac
          /\ \A f \in SqExtra \ {e} : t[f] = r[f]
    <3>1. PICK w : w = [r[e] EXCEPT !.ref = @ + 1]
      OBVIOUS
    <3>2. w \in RefShape /\ w.ref = r[e].ref + 1 /\ w.ac = r[e].ac
      BY <3>1 DEF RefShape
    <3>3. sqRef' = [r EXCEPT ![e] = w]
      BY <1>4, <1>12, <3>1
    <3>4. PICK t : t = [r EXCEPT ![e] = w]
      OBVIOUS
    <3>5. t \in [SqExtra -> RefShape] /\ t[e] = w /\ \A f \in SqExtra \ {e} : t[f] = r[f]
      BY <3>2, <3>4
    <3> QED BY <3>2, <3>3, <3>4, <3>5
  <2>4. PacketsInv'
    <3>1. PICK X \in [Ctx -> CtxShape] : X = sqCtx
      BY <1>2 DEF SqShape
    <3>2. PICK Y \in [Ctx -> CtxShape] : Y = sqCtx'
      BY <2>2
    <3>3. PICK size \in [Ac -> Int] : size = sqSize
      BY <1>2 DEF SqShape
    <3>4. PacketsOK(X, size, r, {e})
      BY <1>4, <1>8, <3>1, <3>3 DEF SqInv, PacketsInv
    <3>5. OneMore(X, Y, s, r[e].ac, e) /\ Elems(Y[s].q[r[e].ac]) = Elems(X[s].q[r[e].ac]) \cup {e}
      BY <1>5, <2>2, <3>1, <3>2
    <3>6. PacketsOK(Y, size, t, {e})
      BY <1>2, <2>3, <3>4, <3>5, PacketsClone
    <3> QED BY <1>1, <1>8, <2>3, <3>2, <3>3, <3>6 DEF PacketsInv
  <2>5. SqShape'
    BY <1>1, <1>2, <1>9, <2>2, <2>3 DEF SqShape
  <2>6. TurnsInv'
    <3>1. \A b \in sqMc.left \ {s} : sqCtx'[b].on
      BY <1>7, <2>2, Constants
    <3> QED BY <1>1, <1>6, <3>1 DEF TurnsInv
  <2> QED BY <1>10, <1>11, <2>2, <2>4, <2>5, <2>6 DEF SqInv
<1>13. CASE UNCHANGED <<sqRef, sqCtx>>
  <2>1. PacketsInv'
    BY <1>1, <1>8, <1>13 DEF SqInv, PacketsInv
  <2>2. LinksInv' /\ BdsInv' /\ PowerInv'
    BY <1>1, <1>13 DEF SqInv, LinksInv, BdsInv, PowerInv, Linked
  <2>3. SqShape'
    BY <1>1, <1>2, <1>9, <1>13 DEF SqShape
  <2>4. TurnsInv'
    BY <1>1, <1>6, <1>7, <1>13 DEF TurnsInv
  <2> QED BY <1>10, <1>11, <2>1, <2>2, <2>3, <2>4 DEF SqInv
<1> QED BY <1>3, <1>4, <1>5, <1>12, <1>13 DEF McClones

\* The reference of the sender goes; a frame without clones is not counted any more.
LEMMA McEndsKeeps ==
  ASSUME SqInv, McEnds
  PROVE  SqInv'
<1>1. /\ sqMc.on /\ ~sqFlush.on /\ ~sqCfm.on /\ ~sqXmit.on
      /\ sqMc' = NoMc /\ sqTask' = TRUE
      /\ sqCtx' = sqCtx /\ sqList' = sqList
      /\ sqFree' = sqFree /\ sqAir' = sqAir /\ sqOld' = sqOld /\ sqPs' = sqPs
      /\ sqCfm' = sqCfm /\ sqXmit' = sqXmit /\ sqLim' = sqLim
      /\ flMask' = flMask /\ sqProhib' = sqProhib /\ sqNulls' = sqNulls /\ sqFlush' = sqFlush
  BY DEF McEnds, fv, bv, SqInv, TurnsInv
<1>2. SqShape /\ sqMc \in McShape
  BY <1>1, UnderWay DEF SqInv
<1>3. PICK e \in SqExtra : e = sqMc.ex
  BY <1>2 DEF McShape
<1>4. PacketsOK(sqCtx, sqSize', sqRef', {}) /\ sqSize' \in [Ac -> Int] /\ sqRef' \in [SqExtra -> RefShape]
  <2>1. PICK X \in [Ctx -> CtxShape] : X = sqCtx
    BY <1>2 DEF SqShape
  <2>2. PICK size \in [Ac -> Int] : size = sqSize
    BY <1>2 DEF SqShape
  <2>3. PICK r \in [SqExtra -> RefShape] : r = sqRef
    BY <1>2 DEF SqShape
  <2>4. PICK z : z = sqSize'
    OBVIOUS
  <2>5. PICK t : t = sqRef'
    OBVIOUS
  <2>6. PacketsOK(X, size, r, {e})
    BY <1>1, <1>3, <2>1, <2>2, <2>3 DEF SqInv, PacketsInv, Held
  <2>7. Releases(size, r, z, t, r[e].ac, e)
    BY <1>3, <2>2, <2>3, <2>4, <2>5 DEF McEnds, Release, Releases
  <2>8. PacketsOK(X, z, t, {}) /\ z \in [Ac -> Int] /\ t \in [SqExtra -> RefShape]
    BY <2>6, <2>7, PacketsUnhold
  <2> QED BY <2>1, <2>4, <2>5, <2>8
<1>5. PacketsInv'
  BY <1>1, <1>4 DEF PacketsInv, Held, NoMc
<1>6. SqShape'
  BY <1>1, <1>2, <1>4 DEF SqShape
<1>7. TurnsInv'
  BY <1>1 DEF TurnsInv, NoMc
<1>8. FlowInv' /\ FlushInv' /\ QuietInv'
  BY <1>1 DEF SqInv, FlowInv, FlushInv, QuietInv
<1>9. LinksInv' /\ BdsInv' /\ PowerInv'
  BY <1>1 DEF SqInv, LinksInv, BdsInv, PowerInv, Linked
<1> QED BY <1>5, <1>6, <1>7, <1>8, <1>9 DEF SqInv

\* Y is X without the packets of the contexts S.
Emptied(Y, S) ==
  /\ \A c \in Ctx, b \in Ac : Elems(Y[c].q[b]) \subseteq Elems(sqCtx[c].q[b])
  /\ \A b \in Ac, p \in Pkt :
       SumFunction(Tally(sqCtx, b, p)) = SumFunction(Tally(Y, b, p)) + InLists(S, b, p)

\* _mtlk_sq_release_packet of all the packets of some contexts.
LEMMA CancelCounts ==
  ASSUME SqShape, PacketsInv, NEW S \in SUBSET Ctx, NEW Y \in [Ctx -> CtxShape],
         Emptied(Y, S), CancelIn(S)
  PROVE  /\ PacketsOK(Y, sqSize', sqRef', Held)
         /\ sqSize' \in [Ac -> Int] /\ sqRef' \in [SqExtra -> RefShape]
<1>1. PICK X \in [Ctx -> CtxShape] : X = sqCtx
  BY DEF SqShape
<1>2. PICK size \in [Ac -> Int] : size = sqSize
  BY DEF SqShape
<1>3. PICK r \in [SqExtra -> RefShape] : r = sqRef
  BY DEF SqShape
<1>4. PICK H : H = Held
  OBVIOUS
<1>5. PICK o : o = [b \in Ac |-> InLists(S, b, Own)]
  OBVIOUS
<1>6. o \in [Ac -> Nat] /\ \A b \in Ac : o[b] = InLists(S, b, Own)
  <2>1. \A b \in Ac : InLists(S, b, Own) \in Nat
    BY <1>1, InListsType
  <2> QED BY <1>5, <2>1
<1>7. PICK j : j = [e \in SqExtra |-> Clones(S, e)]
  OBVIOUS
<1>8. \A e \in SqExtra : r[e].ac \in Ac /\ Clones(S, e) = InLists(S, r[e].ac, e)
  <2>1. \A e \in SqExtra : r[e].ac \in Ac
    BY DEF RefShape
  <2>2. \A e \in SqExtra : Clones(S, e) = InLists(S, sqRef[e].ac, e)
    BY ClonesInCategory
  <2> QED BY <1>3, <2>1, <2>2
<1>9. j \in [SqExtra -> Nat] /\ \A e \in SqExtra : j[e] = Clones(S, e)
  <2>1. ASSUME NEW e \in SqExtra PROVE Clones(S, e) \in Nat
    <3>1. PICK b \in Ac : b = r[e].ac
      BY <1>8
    <3>2. InLists(S, b, e) \in Nat
      BY <1>1, InListsType
    <3> QED BY <1>8, <3>1, <3>2
  <2> QED BY <1>7, <2>1
<1>10. PICK z : z = sqSize'
  OBVIOUS
<1>11. PICK t : t = sqRef'
  OBVIOUS
<1>12. /\ t \in [SqExtra -> RefShape]
       /\ \A e \in SqExtra : t[e].ac = r[e].ac /\ t[e].ref = r[e].ref - j[e]
  <2>1. t = [e \in SqExtra |-> [r[e] EXCEPT !.ref = @ - Clones(S, e)]]
    BY <1>3, <1>11 DEF CancelIn
  <2>2. ASSUME NEW e \in SqExtra
        PROVE  t[e] \in RefShape /\ t[e].ac = r[e].ac /\ t[e].ref = r[e].ref - j[e]
    <3>1. PICK n \in Nat : n = j[e]
      BY <1>9
    <3>2. t[e] = [r[e] EXCEPT !.ref = @ - n]
      BY <1>9, <2>1, <3>1
    <3>3. r[e] \in RefShape
      OBVIOUS
    <3>4. t[e] \in RefShape /\ t[e].ac = r[e].ac /\ t[e].ref = r[e].ref - n
      BY <3>2, <3>3 DEF RefShape
    <3> QED BY <3>1, <3>4
  <2> QED BY <2>1, <2>2
<1>13. \A b \in Ac : z[b] = size[b] - o[b]
          - Cardinality({e \in SqExtra : r[e].ac = b /\ r[e].ref > 0 /\ r[e].ref = j[e]})
  <2> SUFFICES ASSUME NEW b \in Ac
               PROVE  z[b] = size[b] - o[b]
          - Cardinality({e \in SqExtra : r[e].ac = b /\ r[e].ref > 0 /\ r[e].ref = j[e]})
    OBVIOUS
  <2>1. {e \in SqExtra : r[e].ac = b /\ r[e].ref > 0 /\ r[e].ref = j[e]}
          = {e \in SqExtra : sqRef[e].ac = b /\ sqRef[e].ref > 0 /\ sqRef[e].ref = Clones(S, e)}
    BY <1>3, <1>9
  <2>2. z[b] = size[b] - InLists(S, b, Own)
          - Cardinality({e \in SqExtra : sqRef[e].ac = b /\ sqRef[e].ref > 0
                                         /\ sqRef[e].ref = Clones(S, e)})
    BY <1>2, <1>10 DEF CancelIn
  <2> QED BY <1>6, <2>1, <2>2
<1>14. \A b \in Ac : SumFunction(Tally(X, b, Own)) = SumFunction(Tally(Y, b, Own)) + o[b]
  <2>1. Own \in Pkt
    BY Constants
  <2> QED BY <1>1, <1>6, <2>1 DEF Emptied
<1>15. \A e \in SqExtra : SumFunction(Tally(X, r[e].ac, e)) = SumFunction(Tally(Y, r[e].ac, e)) + j[e]
  <2>1. \A e \in SqExtra : e \in Pkt
    BY Constants
  <2> QED BY <1>1, <1>8, <1>9, <2>1 DEF Emptied
<1>16. \A c \in Ctx, b \in Ac : Elems(Y[c].q[b]) \subseteq Elems(X[c].q[b])
  BY <1>1 DEF Emptied
<1>17. PacketsOK(X, size, r, H)
  BY <1>1, <1>2, <1>3, <1>4 DEF PacketsInv
<1>18. o \in [Ac -> Nat] /\ j \in [SqExtra -> Nat] /\ t \in [SqExtra -> RefShape]
  BY <1>6, <1>9, <1>12
<1>19. \A e \in SqExtra : t[e].ac = r[e].ac /\ t[e].ref = r[e].ref - j[e]
  BY <1>12
<1>20. PacketsOK(Y, z, t, H) /\ \A b \in Ac : z[b] \in Int
  <2>1. Cancels(X, Y, size, r, o, j, z, t)
    BY <1>13, <1>14, <1>15, <1>16, <1>19 DEF Cancels
  <2> QED BY <1>17, <1>18, <2>1, PacketsCancel
<1>21. z \in [Ac -> Int]
  <2>1. z = [b \in Ac |-> z[b]]
    BY <1>10 DEF CancelIn
  <2> QED BY <1>20, <2>1
<1> QED BY <1>4, <1>10, <1>11, <1>18, <1>20, <1>21

\* The packets of one context.
LEMMA EmptiedOne ==
  ASSUME SqShape, NEW c \in Ctx, NEW Y \in [Ctx -> CtxShape],
         Y[c].q = [a \in Ac |-> <<>>], \A d \in Ctx \ {c} : Y[d].q = sqCtx[d].q
  PROVE  Emptied(Y, {c})
<1>1. PICK X \in [Ctx -> CtxShape] : X = sqCtx
  BY DEF SqShape
<1>2. ASSUME NEW b \in Ac, NEW p \in Pkt
      PROVE  SumFunction(Tally(X, b, p)) = SumFunction(Tally(Y, b, p)) + InLists({c}, b, p)
  <2>1. \A d \in Ctx \ {c} : Y[d].q = X[d].q
    BY <1>1
  <2>2. SumFunction(Tally(Y, b, p)) + Count(X[c].q[b], p)
          = SumFunction(Tally(X, b, p)) + Count(Y[c].q[b], p)
    BY <2>1, TallyMoved
  <2>3. Y[c].q[b] = <<>>
    OBVIOUS
  <2>4. Count(Y[c].q[b], p) = 0
    BY <2>3, CountEmpty
  <2>5. InLists({c}, b, p) = Count(X[c].q[b], p)
    BY <1>1, InListsOne
  <2>6. SumFunction(Tally(X, b, p)) \in Nat
    BY TallyType
  <2> QED BY <2>2, <2>4, <2>5, <2>6
<1>3. ASSUME NEW d \in Ctx, NEW b \in Ac
      PROVE  Elems(Y[d].q[b]) \subseteq Elems(X[d].q[b])
  <2>1. CASE d = c
    <3>1. Y[d].q[b] = <<>>
      BY <2>1
    <3> QED BY <3>1 DEF Elems
  <2>2. CASE d # c
    BY <1>1, <2>2
  <2> QED BY <2>1, <2>2
<1> QED BY <1>1, <1>2, <1>3 DEF Emptied

\* The packets of all contexts.
LEMMA EmptiedAll ==
  ASSUME SqShape, NEW Y \in [Ctx -> CtxShape], \A c \in Ctx : Y[c].q = [a \in Ac |-> <<>>]
  PROVE  Emptied(Y, Ctx)
<1>1. PICK X \in [Ctx -> CtxShape] : X = sqCtx
  BY DEF SqShape
<1>2. \A c \in Ctx, b \in Ac : Y[c].q[b] = <<>>
  OBVIOUS
<1>3. ASSUME NEW b \in Ac, NEW p \in Pkt
      PROVE  SumFunction(Tally(X, b, p)) = SumFunction(Tally(Y, b, p)) + InLists(Ctx, b, p)
  <2>1. PICK f \in [Ctx -> Nat] : f = Tally(Y, b, p) /\ \A c \in Ctx : f[c] = Count(Y[c].q[b], p)
    BY TallyType
  <2>2. \A c \in Ctx : f[c] = 0
    BY <1>2, <2>1, CountEmpty
  <2>3. SumFunction(f) = 0
    BY <2>2, Finite, SumZero
  <2>4. InLists(Ctx, b, p) = SumFunction(Tally(X, b, p))
    BY <1>1, InListsAll
  <2>5. SumFunction(Tally(X, b, p)) \in Nat
    BY TallyType
  <2> QED BY <2>1, <2>3, <2>4, <2>5
<1>4. \A c \in Ctx, b \in Ac : Elems(Y[c].q[b]) \subseteq Elems(X[c].q[b])
  BY <1>2 DEF Elems
<1> QED BY <1>1, <1>3, <1>4 DEF Emptied

\* The lists of one context are emptied, and the counters follow.
LEMMA CancelPacketsKeeps ==
  ASSUME SqInv, ~SqSmp, NEW c \in Ctx, CancelPackets(c)
  PROVE  SqInv'
<1>1. /\ ~sqFlush.on /\ ~sqCfm.on /\ ~sqMc.on /\ ~sqXmit.on
      /\ sqCtx[c].on /\ sqCtx' = [sqCtx EXCEPT ![c] = Purged(@)] /\ CancelIn({c})
      /\ sqList' = sqList /\ sqMc' = sqMc
      /\ sqFree' = sqFree /\ sqAir' = sqAir /\ sqOld' = sqOld /\ sqPs' = sqPs
      /\ sqCfm' = sqCfm /\ sqTask' = sqTask /\ sqXmit' = sqXmit /\ sqLim' = sqLim
      /\ flMask' = flMask /\ sqProhib' = sqProhib /\ sqNulls' = sqNulls /\ sqFlush' = sqFlush
  BY OneProcessor DEF CancelPackets, fv, bv
<1>2. SqShape
  BY DEF SqInv
<1>3. PICK X \in [Ctx -> CtxShape] : X = sqCtx
  BY <1>2 DEF SqShape
<1>4. PICK x \in CtxShape : x = X[c]
  OBVIOUS
<1>5. PICK y \in CtxShape :
        /\ y = Purged(x) /\ y.q = [a \in Ac |-> <<>>] /\ y.on = x.on /\ y.ps = x.ps
        /\ y.limit = x.limit /\ y.used = x.used /\ y.usedAc = x.usedAc
  <2>1. PICK y : y = Purged(x)
    OBVIOUS
  <2>2. /\ y \in CtxShape /\ y.q = [a \in Ac |-> <<>>] /\ y.on = x.on /\ y.ps = x.ps
        /\ y.limit = x.limit /\ y.used = x.used /\ y.usedAc = x.usedAc
    BY <2>1, PurgedShape, Zenon
  <2> QED BY <2>1, <2>2
<1>6. PICK Y \in [Ctx -> CtxShape] : Y = sqCtx' /\ Y[c] = y /\ \A b \in Ctx \ {c} : Y[b] = X[b]
  <2>1. sqCtx' = [X EXCEPT ![c] = y]
    BY <1>1, <1>3, <1>4, <1>5
  <2>2. PICK Y : Y = [X EXCEPT ![c] = y]
    OBVIOUS
  <2>3. Y \in [Ctx -> CtxShape] /\ Y[c] = y /\ \A b \in Ctx \ {c} : Y[b] = X[b]
    BY <2>2
  <2> QED BY <2>1, <2>2, <2>3
<1>7. \A b \in Ctx : /\ Y[b].on = X[b].on /\ Y[b].ps = X[b].ps /\ Y[b].limit = X[b].limit
                     /\ Y[b].used = X[b].used /\ Y[b].usedAc = X[b].usedAc
  BY <1>4, <1>5, <1>6
<1>8. /\ PacketsOK(Y, sqSize', sqRef', Held)
      /\ sqSize' \in [Ac -> Int] /\ sqRef' \in [SqExtra -> RefShape]
  <2>1. Y[c].q = [a \in Ac |-> <<>>] /\ \A d \in Ctx \ {c} : Y[d].q = sqCtx[d].q
    BY <1>3, <1>5, <1>6
  <2>2. Emptied(Y, {c})
    BY <1>2, <2>1, EmptiedOne
  <2>3. {c} \in SUBSET Ctx /\ PacketsInv
    BY DEF SqInv
  <2> QED BY <1>1, <1>2, <2>2, <2>3, CancelCounts
<1>9. PacketsInv'
  BY <1>1, <1>6, <1>8 DEF PacketsInv, Held
<1>10. BdsInv'
  <2>1. BdsOK(X, sqFree, sqAir, sqOld)
    BY <1>3 DEF SqInv, BdsInv
  <2>2. BdsOK(Y, sqFree, sqAir, sqOld)
    BY <1>7, <2>1, BdsSame
  <2> QED BY <1>1, <1>6, <2>2 DEF BdsInv
<1>11. PowerInv'
  <2>1. PowerOK(X, sqPs)
    BY <1>3 DEF SqInv, PowerInv
  <2>2. PowerOK(Y, sqPs)
    BY <1>7, <2>1, PowerSame
  <2> QED BY <1>1, <1>6, <2>2 DEF PowerInv
<1>12. LinksInv'
  <2>1. \A b \in Ctx \ {c} : sqCtx'[b] = sqCtx[b]
    BY <1>3, <1>6
  <2>2. sqCtx'[c].on = TRUE
    BY <1>1, <1>3, <1>6, <1>7 DEF CtxShape
  <2> QED BY <1>1, <2>1, <2>2, LinksChange DEF SqInv
<1>13. SqShape'
  BY <1>1, <1>2, <1>6, <1>8 DEF SqShape
<1>14. TurnsInv'
  BY <1>1 DEF TurnsInv
<1>15. FlowInv' /\ FlushInv'
  BY <1>1 DEF SqInv, FlowInv, FlushInv
<1>16. QuietInv'
  <2>1. ASSUME NEW d \in Ctx, NEW a \in Ac, X[d].q[a] = <<>> PROVE Y[d].q[a] = <<>>
    BY <1>5, <1>6, <2>1
  <2> QED BY <1>1, <1>3, <1>6, <2>1 DEF SqInv, QuietInv
<1> QED BY <1>9, <1>10, <1>11, <1>12, <1>13, <1>14, <1>15, <1>16 DEF SqInv

\* Only the lists matter for the packets.
LEMMA PacketsSame ==
  ASSUME NEW X \in [Ctx -> CtxShape], NEW Y \in [Ctx -> CtxShape],
         \A d \in Ctx : Y[d].q = X[d].q,
         NEW size, NEW r \in [SqExtra -> RefShape], NEW H, PacketsOK(X, size, r, H)
  PROVE  PacketsOK(Y, size, r, H)
<1>1. \A b \in Ac : \A p : Tally(Y, b, p) = Tally(X, b, p)
  BY TallySame
<1>2. \A e \in SqExtra : r[e].ac \in Ac
  BY DEF RefShape
<1> QED BY <1>1, <1>2 DEF PacketsOK

\* A station is linked at the front of every list, with nothing in its own.
LEMMA StaConnectsKeeps ==
  ASSUME SqInv, ~SqSmp, NEW s \in SqSta, StaConnects(s)
  PROVE  SqInv'
<1>1. /\ ~sqFlush.on /\ ~sqCfm.on /\ ~sqMc.on /\ ~sqXmit.on /\ ~sqCtx[s].on
      /\ sqList' = [a \in Ac |-> <<s>> \o sqList[a]]
      /\ sqSize' = sqSize /\ sqRef' = sqRef /\ sqMc' = sqMc
      /\ sqFree' = sqFree /\ sqAir' = sqAir /\ sqOld' = sqOld /\ sqPs' = sqPs
      /\ sqCfm' = sqCfm /\ sqTask' = sqTask /\ sqXmit' = sqXmit /\ sqLim' = sqLim
      /\ flMask' = flMask /\ sqProhib' = sqProhib /\ sqNulls' = sqNulls /\ sqFlush' = sqFlush
  BY OneProcessor DEF StaConnects, fv, bv
<1>2. SqShape
  BY DEF SqInv
<1>3. PICK c \in Ctx : c = s
  BY Constants
<1>4. PICK v \in Ctx : v = StaVap[s] /\ v \in SqVap /\ v # s
  BY Constants
<1>5. PICK X \in [Ctx -> CtxShape] : X = sqCtx
  BY <1>2 DEF SqShape
<1>6. PICK l \in [Ac -> {0, UapsdLimit}] : sqCtx' = [sqCtx EXCEPT ![s] = Fresh(l)]
  BY DEF StaConnects
<1>7. PICK y \in CtxShape :
        /\ y = Fresh(l) /\ y.on /\ ~y.ps /\ y.q = [a \in Ac |-> <<>>]
        /\ y.used = 0 /\ y.usedAc = [a \in Ac |-> 0]
  <2>1. PICK y : y = Fresh(l)
    OBVIOUS
  <2>2. /\ y \in CtxShape /\ y.on /\ ~y.ps /\ y.q = [a \in Ac |-> <<>>]
        /\ y.used = 0 /\ y.usedAc = [a \in Ac |-> 0]
    BY <2>1, FreshShape
  <2> QED BY <2>1, <2>2
<1>8. PICK Y \in [Ctx -> CtxShape] : Y = sqCtx' /\ Y[c] = y /\ \A b \in Ctx \ {c} : Y[b] = X[b]
  <2>1. sqCtx' = [X EXCEPT ![c] = y]
    BY <1>3, <1>5, <1>6, <1>7
  <2>2. PICK Y : Y = [X EXCEPT ![c] = y]
    OBVIOUS
  <2>3. Y \in [Ctx -> CtxShape] /\ Y[c] = y /\ \A b \in Ctx \ {c} : Y[b] = X[b]
    BY <2>2
  <2> QED BY <2>1, <2>2, <2>3
<1>9. X[c] = Gone
  BY <1>1, <1>3, <1>5 DEF SqInv, LinksInv
<1>10. \A b \in Ctx : Y[b].q = X[b].q /\ Y[b].used = X[b].used /\ Y[b].usedAc = X[b].usedAc
  BY <1>7, <1>8, <1>9, GoneShape
<1>11. PacketsInv'
  <2>1. PacketsOK(X, sqSize, sqRef, Held)
    BY <1>5 DEF SqInv, PacketsInv
  <2>2. PICK r \in [SqExtra -> RefShape] : r = sqRef
    BY <1>2 DEF SqShape
  <2>3. PacketsOK(Y, sqSize, r, Held)
    BY <1>10, <2>1, <2>2, PacketsSame
  <2> QED BY <1>1, <1>8, <2>2, <2>3 DEF PacketsInv, Held
<1>12. BdsInv'
  <2>1. BdsOK(X, sqFree, sqAir, sqOld)
    BY <1>5 DEF SqInv, BdsInv
  <2>2. BdsOK(Y, sqFree, sqAir, sqOld)
    BY <1>10, <2>1, BdsSame
  <2> QED BY <1>1, <1>8, <2>2 DEF BdsInv
<1>13. PowerInv'
  <2>1. PowerOK(X, sqPs)
    BY <1>5 DEF SqInv, PowerInv
  <2>2. \A w \in SqVap : Y[w].ps = X[w].ps /\ Y[w].limit = X[w].limit
    BY <1>3, <1>8, Constants
  <2>3. \A w \in SqVap : Sleepers(Y, w) = Sleepers(X, w)
    <3>1. \A b \in SqSta : (Y[b].on /\ Y[b].ps) <=> (X[b].on /\ X[b].ps)
      <4> SUFFICES ASSUME NEW b \in SqSta PROVE (Y[b].on /\ Y[b].ps) <=> (X[b].on /\ X[b].ps)
        OBVIOUS
      <4>1. CASE b = c
        <5>1. ~X[b].on /\ ~Y[b].ps
          BY <1>1, <1>3, <1>5, <1>7, <1>8, <4>1
        <5> QED BY <5>1
      <4>2. CASE b # c
        <5>1. Y[b] = X[b]
          BY <1>8, <4>2, Constants
        <5> QED BY <5>1
      <4> QED BY <4>1, <4>2
    <3> QED BY <3>1 DEF Sleepers
  <2>4. PowerOK(Y, sqPs)
    BY <2>1, <2>2, <2>3 DEF PowerOK
  <2> QED BY <1>1, <1>8, <2>4 DEF PowerInv
<1>14. /\ sqList' \in [Ac -> Seq(Ctx)]
       /\ \A a \in Ac : Distinct(sqList'[a]) /\ Elems(sqList'[a]) = Linked \cup {c}
  <2>1. ASSUME NEW a \in Ac
        PROVE  sqList'[a] \in Seq(Ctx) /\ Distinct(sqList'[a]) /\ Elems(sqList'[a]) = Linked \cup {c}
    <3>1. PICK t \in Seq(Ctx) : t = sqList[a] /\ Distinct(t) /\ Elems(t) = Linked
      BY <1>2 DEF SqShape, SqInv, LinksInv
    <3>2. c \notin Elems(t)
      BY <1>1, <1>3, <3>1 DEF Linked
    <3>3. <<c>> \o t \in Seq(Ctx) /\ Elems(<<c>> \o t) = Linked \cup {c}
      <4>1. c \in Ctx
        BY <1>1, <1>3, Constants
      <4>2. <<c>> \o t \in Seq(Ctx) /\ Elems(<<c>> \o t) = Elems(t) \cup {c}
        BY <4>1, FrontElems
      <4> QED BY <3>1, <4>2, Zenon
    <3>4. Distinct(<<c>> \o t)
      BY <3>1, <3>2, FrontDistinct
    <3>5. sqList'[a] = <<c>> \o t
      BY <1>1, <1>3, <3>1
    <3> QED BY <3>3, <3>4, <3>5
  <2> QED BY <1>1, <2>1
<1>15. LinksInv'
  <2>1. Linked' = Linked \cup {c}
    BY <1>5, <1>7, <1>8 DEF Linked
  <2>2. \A w \in SqVap : sqCtx'[w].on
    <3>1. \A w \in SqVap : sqCtx[w].on
      BY DEF SqInv, LinksInv
    <3> QED BY <1>3, <1>5, <1>8, <3>1, Constants
  <2>3. \A b \in Ctx : ~sqCtx'[b].on => sqCtx'[b] = Gone
    BY <1>5, <1>7, <1>8 DEF SqInv, LinksInv
  <2> QED BY <1>14, <2>1, <2>2, <2>3 DEF LinksInv
<1>16. SqShape'
  BY <1>1, <1>2, <1>8, <1>14 DEF SqShape
<1>17. TurnsInv'
  BY <1>1 DEF TurnsInv
<1>18. FlowInv' /\ FlushInv'
  BY <1>1 DEF SqInv, FlowInv, FlushInv
<1>19. QuietInv'
  BY <1>1, <1>5, <1>8, <1>10 DEF SqInv, QuietInv
<1> QED BY <1>11, <1>12, <1>13, <1>15, <1>16, <1>17, <1>18, <1>19 DEF SqInv

\* A station falls asleep or wakes up, and the broadcasts of its VAP follow; a
\* duplicate changes nothing but schedules a flush if it says awake.
LEMMA PmUpdateKeeps ==
  ASSUME SqInv, ~SqSmp, NEW s \in SqSta, NEW enabled \in BOOLEAN, PmUpdate(s, enabled)
  PROVE  SqInv'
<1>1. /\ ~sqFlush.on /\ ~sqCfm.on /\ ~sqMc.on /\ ~sqXmit.on /\ sqCtx[s].on
      /\ sqList' = sqList /\ sqSize' = sqSize /\ sqRef' = sqRef /\ sqMc' = sqMc
      /\ sqFree' = sqFree /\ sqAir' = sqAir /\ sqOld' = sqOld
      /\ sqCfm' = sqCfm /\ sqTask' = (sqTask \/ ~enabled) /\ sqXmit' = sqXmit /\ sqLim' = sqLim
      /\ flMask' = flMask /\ sqProhib' = sqProhib /\ sqNulls' = sqNulls /\ sqFlush' = sqFlush
  BY OneProcessor DEF PmUpdate, fv, bv
<1>2. SqShape
  BY DEF SqInv
<1>3. TurnsInv' /\ FlushInv'
  BY <1>1 DEF TurnsInv, FlushInv
<1>4. FlowInv'
  BY <1>1 DEF SqInv, FlowInv
<1>5. CASE sqCtx[s].ps = enabled
  <2>1. sqCtx' = sqCtx /\ sqPs' = sqPs
    BY <1>5 DEF PmUpdate
  <2>2. Kept
    BY <1>1, <2>1 DEF Kept
  <2>3. PacketsInv' /\ BdsInv' /\ PowerInv' /\ LinksInv'
    BY <2>2, KeptCounts
  <2>4. SqShape'
    BY <1>1, <1>2, <2>1 DEF SqShape
  <2>5. QuietInv'
    BY <1>1, <2>1 DEF SqInv, QuietInv
  <2> QED BY <1>3, <1>4, <2>3, <2>4, <2>5 DEF SqInv
<1>6. CASE sqCtx[s].ps # enabled
  <2>1. PICK c \in Ctx : c = s
    BY Constants
  <2>2. PICK v \in Ctx : v = StaVap[s] /\ v \in SqVap /\ v # c
    BY <2>1, Constants
  <2>3. PICK X \in [Ctx -> CtxShape] : X = sqCtx
    BY <1>2 DEF SqShape
  <2>4. PICK Q \in [SqVap -> Int] : Q = sqPs
    BY <1>2 DEF SqShape
  <2>5. PICK n \in Int : n = IF enabled THEN Q[v] + 1 ELSE Q[v] - 1
    BY <2>2
  <2>6. PICK L \in {TxLimit, PmLimit} : L = IF enabled THEN Min({PmLimit, TxLimit}) ELSE TxLimit
    BY LimitsPm
  <2>7. PICK y \in CtxShape :
          /\ y = [X[c] EXCEPT !.limit = L, !.ps = enabled]
          /\ y.q = X[c].q /\ y.on = X[c].on /\ y.ps = enabled
          /\ y.used = X[c].used /\ y.usedAc = X[c].usedAc
    <3>1. PICK y : y = [X[c] EXCEPT !.limit = L, !.ps = enabled]
      OBVIOUS
    <3>2. X[c] \in CtxShape
      OBVIOUS
    <3>3. /\ y \in CtxShape /\ y.q = X[c].q /\ y.on = X[c].on /\ y.ps = enabled
          /\ y.used = X[c].used /\ y.usedAc = X[c].usedAc
      BY <3>1, <3>2 DEF CtxShape
    <3> QED BY <3>1, <3>3
  <2>8. PICK z \in CtxShape :
          /\ z = BcastPm(X[v], n) /\ z.q = X[v].q /\ z.on = X[v].on /\ z.ps = (n > 0)
          /\ z.limit = IF n > 0 THEN Min({PmLimit, TxLimit}) ELSE TxLimit
          /\ z.used = X[v].used /\ z.usedAc = X[v].usedAc
    <3>1. PICK z : z = BcastPm(X[v], n)
      OBVIOUS
    <3>2. X[v] \in CtxShape
      OBVIOUS
    <3>3. /\ z \in CtxShape /\ z.q = X[v].q /\ z.on = X[v].on /\ z.ps = (n > 0)
          /\ z.limit = IF n > 0 THEN Min({PmLimit, TxLimit}) ELSE TxLimit
          /\ z.used = X[v].used /\ z.usedAc = X[v].usedAc
      BY <3>1, <3>2, BcastShape, Zenon
    <3> QED BY <3>1, <3>3, Zenon
  <2>9. PICK Y \in [Ctx -> CtxShape] :
          Y = sqCtx' /\ Y[c] = y /\ Y[v] = z /\ \A b \in Ctx \ {c, v} : Y[b] = X[b]
    <3>1. sqCtx' = [sqCtx EXCEPT ![s].limit = IF enabled THEN Min({PmLimit, TxLimit}) ELSE TxLimit,
                                 ![s].ps = enabled,
                                 ![StaVap[s]] = BcastPm(@, IF enabled THEN sqPs[StaVap[s]] + 1 ELSE sqPs[StaVap[s]] - 1)]
      BY <1>6 DEF PmUpdate
    <3>2. sqCtx' = [X EXCEPT ![c].limit = L, ![c].ps = enabled, ![v] = BcastPm(@, n)]
      BY <2>1, <2>2, <2>3, <2>4, <2>5, <2>6, <3>1
    <3>3. sqCtx' = [[X EXCEPT ![c] = y] EXCEPT ![v] = z]
      BY <2>2, <2>7, <2>8, <3>2
    <3>4. PICK Y : Y = [[X EXCEPT ![c] = y] EXCEPT ![v] = z]
      OBVIOUS
    <3>5. Y \in [Ctx -> CtxShape] /\ Y[c] = y /\ Y[v] = z /\ \A b \in Ctx \ {c, v} : Y[b] = X[b]
      BY <2>2, <3>4
    <3> QED BY <3>3, <3>4, <3>5
  <2>10. PICK M \in [SqVap -> Int] : M = sqPs' /\ M[v] = n /\ \A w \in SqVap \ {v} : M[w] = Q[w]
    <3>1. sqPs' = [Q EXCEPT ![v] = n]
      BY <1>6, <2>2, <2>4, <2>5 DEF PmUpdate
    <3>2. PICK M : M = [Q EXCEPT ![v] = n]
      OBVIOUS
    <3>3. M \in [SqVap -> Int] /\ M[v] = n /\ \A w \in SqVap \ {v} : M[w] = Q[w]
      BY <2>2, <3>2
    <3> QED BY <3>1, <3>2, <3>3
  <2>11. \A b \in Ctx : /\ Y[b].q = X[b].q /\ Y[b].on = X[b].on
                        /\ Y[b].used = X[b].used /\ Y[b].usedAc = X[b].usedAc
    <3> SUFFICES ASSUME NEW b \in Ctx
                 PROVE  /\ Y[b].q = X[b].q /\ Y[b].on = X[b].on
                        /\ Y[b].used = X[b].used /\ Y[b].usedAc = X[b].usedAc
      OBVIOUS
    <3>1. CASE b = c
      BY <2>7, <2>9, <3>1
    <3>2. CASE b = v
      BY <2>8, <2>9, <3>2
    <3>3. CASE b \notin {c, v}
      BY <2>9, <3>3
    <3> QED BY <3>1, <3>2, <3>3
  <2>12. PacketsInv'
    <3>1. PacketsOK(X, sqSize, sqRef, Held)
      BY <2>3 DEF SqInv, PacketsInv
    <3>2. PICK r \in [SqExtra -> RefShape] : r = sqRef
      BY <1>2 DEF SqShape
    <3>3. PacketsOK(Y, sqSize, r, Held)
      BY <2>11, <3>1, <3>2, PacketsSame
    <3> QED BY <1>1, <2>9, <3>2, <3>3 DEF PacketsInv, Held
  <2>13. BdsInv'
    <3>1. BdsOK(X, sqFree, sqAir, sqOld)
      BY <2>3 DEF SqInv, BdsInv
    <3>2. BdsOK(Y, sqFree, sqAir, sqOld)
      BY <2>11, <3>1, BdsSame
    <3> QED BY <1>1, <2>9, <3>2 DEF BdsInv
  <2>14. PowerInv'
    <3>1. PowerOK(X, Q)
      BY <2>3, <2>4 DEF SqInv, PowerInv
    <3>2. PICK was \in 0 .. 1 : was = 1 <=> ~enabled
      OBVIOUS
    <3>3. PICK is \in 0 .. 1 : is = 1 <=> enabled
      OBVIOUS
    <3>4. X[s].on /\ Y[s].on
      BY <1>1, <2>1, <2>3, <2>11
    <3>5. was = 1 <=> X[s].on /\ X[s].ps
      <4>1. X[s].ps \in BOOLEAN
        BY <2>1 DEF CtxShape
      <4>2. X[s].ps # enabled
        BY <1>6, <2>3
      <4> QED BY <3>2, <3>4, <4>1, <4>2
    <3>6. is = 1 <=> Y[s].on /\ Y[s].ps
      BY <2>1, <2>7, <2>9, <3>3, <3>4
    <3>7. M[StaVap[s]] = Q[StaVap[s]] + is - was
      <4>1. Q[v] \in Int
        BY <2>2
      <4> QED BY <2>2, <2>5, <2>10, <3>2, <3>3, <4>1
    <3>8. Y[StaVap[s]].ps = (M[StaVap[s]] > 0)
      BY <2>2, <2>8, <2>9, <2>10, Zenon
    <3>9. Y[StaVap[s]].limit = IF M[StaVap[s]] > 0 THEN Min({PmLimit, TxLimit}) ELSE TxLimit
      BY <2>2, <2>8, <2>9, <2>10, Zenon
    <3>10. \A w \in SqVap \ {StaVap[s]} : M[w] = Q[w]
      BY <2>2, <2>10
    <3>11. \A b \in Ctx \ {s, StaVap[s]} :
             Y[b].on = X[b].on /\ Y[b].ps = X[b].ps /\ Y[b].limit = X[b].limit
      BY <2>1, <2>2, <2>9
    <3>12. PowerOK(Y, M)
      <4>1. PowerMoves(X, Y, Q, M, s, was, is)
        BY <3>5, <3>6, <3>7, <3>8, <3>9, <3>10, <3>11, Zenon DEF PowerMoves
      <4> QED BY <3>1, <4>1, PowerChange
    <3> QED BY <2>9, <2>10, <3>12 DEF PowerInv
  <2>15. LinksInv'
    <3>1. Linked' = Linked
      BY <2>3, <2>9, <2>11 DEF Linked
    <3>2. \A w \in SqVap : sqCtx'[w].on
      BY <2>3, <2>9, <2>11, Constants DEF SqInv, LinksInv
    <3>3. ASSUME NEW b \in Ctx, ~sqCtx'[b].on PROVE sqCtx'[b] = Gone
      <4>1. ~X[b].on
        BY <2>9, <2>11, <3>3
      <4>2. b # c
        BY <1>1, <2>1, <2>3, <4>1
      <4>3. b # v
        BY <2>2, <2>3, <4>1 DEF SqInv, LinksInv
      <4> QED BY <2>3, <2>9, <4>1, <4>2, <4>3 DEF SqInv, LinksInv
    <3> QED BY <1>1, <3>1, <3>2, <3>3 DEF SqInv, LinksInv
  <2>16. SqShape'
    <3>1. sqTask' \in BOOLEAN
      BY <1>1, <1>2 DEF SqShape
    <3> QED BY <1>1, <1>2, <2>9, <2>10, <3>1 DEF SqShape
  <2>17. QuietInv'
    <3>1. ~sqTask' => ~sqTask
      BY <1>1, <1>2 DEF SqShape
    <3>2. QuietInv
      BY DEF SqInv
    <3>3. \A b \in Ctx : sqCtx'[b].q = sqCtx[b].q
      BY <2>3, <2>9, <2>11
    <3> QED BY <1>1, <3>1, <3>2, <3>3 DEF QuietInv
  <2> QED BY <1>3, <1>4, <2>12, <2>13, <2>14, <2>15, <2>16, <2>17 DEF SqInv
<1> QED BY <1>5, <1>6

\* The station is unlinked, its packets are released, its BDs are in use by a
\* station that is gone, and it sleeps no more.
LEMMA StaLeavesKeeps ==
  ASSUME SqInv, ~SqSmp, NEW s \in SqSta, StaLeaves(s)
  PROVE  SqInv'
<1>1. /\ ~sqFlush.on /\ ~sqCfm.on /\ ~sqMc.on /\ ~sqXmit.on /\ sqCtx[s].on /\ CancelIn({s})
      /\ sqMc' = sqMc /\ sqXmit' = sqXmit /\ sqCfm' = sqCfm
      /\ sqFree' = sqFree /\ sqTask' = sqTask /\ sqLim' = sqLim
      /\ flMask' = flMask /\ sqProhib' = sqProhib /\ sqNulls' = sqNulls /\ sqFlush' = sqFlush
  BY OneProcessor DEF StaLeaves, fv
<1>2. SqShape
  BY DEF SqInv
<1>3. TurnsInv'
  BY <1>1 DEF TurnsInv
<1>4. FlowInv' /\ FlushInv'
  BY <1>1 DEF SqInv, FlowInv, FlushInv
<1>5. PICK c \in Ctx : c = s
  BY Constants
<1>6. PICK v \in Ctx : v = StaVap[s] /\ v \in SqVap /\ v # c
  BY <1>5, Constants
<1>7. PICK X \in [Ctx -> CtxShape] : X = sqCtx
  BY <1>2 DEF SqShape
<1>8. PICK Q \in [SqVap -> Int] : Q = sqPs
  BY <1>2 DEF SqShape
<1>9. PICK n \in Int : n = IF X[c].ps THEN Q[v] - 1 ELSE Q[v]
  BY <1>6
<1>10. PowerOK(X, Q)
  BY <1>7, <1>8 DEF SqInv, PowerInv
<1>11. PICK z \in CtxShape :
         /\ z = (IF X[c].ps THEN BcastPm(X[v], n) ELSE X[v])
         /\ z.q = X[v].q /\ z.on = X[v].on /\ z.ps = (n > 0)
         /\ z.limit = IF n > 0 THEN Min({PmLimit, TxLimit}) ELSE TxLimit
         /\ z.used = X[v].used /\ z.usedAc = X[v].usedAc
  <2>1. X[v] \in CtxShape
    OBVIOUS
  <2>2. CASE X[c].ps
    <3>1. PICK z : z = BcastPm(X[v], n)
      OBVIOUS
    <3>2. /\ z \in CtxShape /\ z.q = X[v].q /\ z.on = X[v].on /\ z.ps = (n > 0)
          /\ z.limit = IF n > 0 THEN Min({PmLimit, TxLimit}) ELSE TxLimit
          /\ z.used = X[v].used /\ z.usedAc = X[v].usedAc
      BY <2>1, <3>1, BcastShape, Zenon
    <3>3. z = (IF X[c].ps THEN BcastPm(X[v], n) ELSE X[v])
      BY <2>2, <3>1
    <3> QED BY <3>2, <3>3, Zenon
  <2>3. CASE ~X[c].ps
    <3>1. PICK z : z = X[v]
      OBVIOUS
    <3>2. n = Q[v] /\ z = (IF X[c].ps THEN BcastPm(X[v], n) ELSE X[v])
      BY <1>9, <2>3, <3>1
    <3>3. X[v].ps = (Q[v] > 0) /\ X[v].limit = IF Q[v] > 0 THEN Min({PmLimit, TxLimit}) ELSE TxLimit
      BY <1>6, <1>10 DEF PowerOK
    <3>4. /\ z \in CtxShape /\ z.q = X[v].q /\ z.on = X[v].on /\ z.ps = (n > 0)
          /\ z.limit = IF n > 0 THEN Min({PmLimit, TxLimit}) ELSE TxLimit
          /\ z.used = X[v].used /\ z.usedAc = X[v].usedAc
      BY <2>1, <3>1, <3>2, <3>3, Zenon
    <3> QED BY <3>2, <3>4, Zenon
  <2> QED BY <2>2, <2>3
<1>12. PICK g \in CtxShape :
         /\ g = Gone /\ ~g.on /\ ~g.ps /\ g.q = [a \in Ac |-> <<>>]
         /\ g.used = 0 /\ g.usedAc = [a \in Ac |-> 0]
  BY GoneShape
<1>13. PICK Y \in [Ctx -> CtxShape] :
         Y = sqCtx' /\ Y[c] = g /\ Y[v] = z /\ \A b \in Ctx \ {c, v} : Y[b] = X[b]
  <2>1. sqCtx' = [X EXCEPT ![c] = g, ![v] = IF X[c].ps THEN BcastPm(@, n) ELSE @]
    BY <1>5, <1>6, <1>7, <1>8, <1>9, <1>12 DEF StaLeaves
  <2>2. sqCtx' = [[X EXCEPT ![c] = g] EXCEPT ![v] = z]
    BY <1>6, <1>11, <2>1
  <2>3. PICK Y : Y = [[X EXCEPT ![c] = g] EXCEPT ![v] = z]
    OBVIOUS
  <2>4. Y \in [Ctx -> CtxShape] /\ Y[c] = g /\ Y[v] = z /\ \A b \in Ctx \ {c, v} : Y[b] = X[b]
    BY <1>6, <2>3
  <2> QED BY <2>2, <2>3, <2>4
<1>14. \A b \in Ctx \ {c} : /\ Y[b].q = X[b].q /\ Y[b].on = X[b].on
                            /\ Y[b].used = X[b].used /\ Y[b].usedAc = X[b].usedAc
  <2> SUFFICES ASSUME NEW b \in Ctx \ {c}
               PROVE  /\ Y[b].q = X[b].q /\ Y[b].on = X[b].on
                      /\ Y[b].used = X[b].used /\ Y[b].usedAc = X[b].usedAc
    OBVIOUS
  <2>1. CASE b = v
    BY <1>11, <1>13, <2>1
  <2>2. CASE b # v
    BY <1>13, <2>2
  <2> QED BY <2>1, <2>2
<1>15. PICK M \in [SqVap -> Int] : M = sqPs' /\ M[v] = n /\ \A w \in SqVap \ {v} : M[w] = Q[w]
  <2>1. sqPs' = [Q EXCEPT ![v] = n]
    BY <1>5, <1>6, <1>7, <1>8, <1>9 DEF StaLeaves
  <2>2. PICK M : M = [Q EXCEPT ![v] = n]
    OBVIOUS
  <2>3. M \in [SqVap -> Int] /\ M[v] = n /\ \A w \in SqVap \ {v} : M[w] = Q[w]
    BY <1>6, <2>2
  <2> QED BY <2>1, <2>2, <2>3
<1>16. /\ PacketsOK(Y, sqSize', sqRef', Held)
       /\ sqSize' \in [Ac -> Int] /\ sqRef' \in [SqExtra -> RefShape]
  <2>1. Y[c].q = [a \in Ac |-> <<>>] /\ \A d \in Ctx \ {c} : Y[d].q = sqCtx[d].q
    BY <1>7, <1>12, <1>13, <1>14
  <2>2. Emptied(Y, {c})
    BY <1>2, <2>1, EmptiedOne
  <2>3. {c} \in SUBSET Ctx /\ PacketsInv /\ CancelIn({c})
    BY <1>1, <1>5 DEF SqInv
  <2> QED BY <1>2, <2>2, <2>3, CancelCounts
<1>17. PacketsInv'
  BY <1>1, <1>13, <1>16 DEF PacketsInv, Held
<1>18. BdsInv' /\ sqAir' \in [Ctx -> [Ac -> Nat]] /\ sqOld' \in [SqVap -> Nat]
  <2>1. PICK air \in [Ctx -> [Ac -> Nat]] : air = sqAir
    BY <1>2 DEF SqShape
  <2>2. PICK old \in [SqVap -> Nat] : old = sqOld
    BY <1>2 DEF SqShape
  <2>3. PICK w \in [Ac -> Nat] : w = [a \in Ac |-> 0]
    OBVIOUS
  <2>4. PICK use \in [Ctx -> [Ac -> Nat]] : use = sqAir' /\ use[c] = w /\ \A b \in Ctx \ {c} : use[b] = air[b]
    <3>1. sqAir' = [air EXCEPT ![c] = w]
      BY <1>5, <2>1, <2>3 DEF StaLeaves
    <3>2. PICK use : use = [air EXCEPT ![c] = w]
      OBVIOUS
    <3>3. use \in [Ctx -> [Ac -> Nat]] /\ use[c] = w /\ \A b \in Ctx \ {c} : use[b] = air[b]
      BY <3>2
    <3> QED BY <3>1, <3>2, <3>3
  <2>5. PICK k \in Nat : k = old[v] + SumFunction(air[c])
    <3>1. SumFunction(air[c]) \in Nat
      BY InUseType
    <3>2. old[v] \in Nat
      BY <1>6
    <3> QED BY <3>1, <3>2
  <2>6. PICK more \in [SqVap -> Nat] : more = sqOld' /\ more[v] = k /\ \A u \in SqVap \ {v} : more[u] = old[u]
    <3>1. sqOld' = [old EXCEPT ![v] = k]
      BY <1>5, <1>6, <2>1, <2>2, <2>5 DEF StaLeaves
    <3>2. PICK more : more = [old EXCEPT ![v] = k]
      OBVIOUS
    <3>3. more \in [SqVap -> Nat] /\ more[v] = k /\ \A u \in SqVap \ {v} : more[u] = old[u]
      BY <1>6, <3>2
    <3> QED BY <3>1, <3>2, <3>3
  <2>7. BdsOK(X, sqFree, air, old)
    BY <1>7, <2>1, <2>2 DEF SqInv, BdsInv
  <2>8. BdsStay(X, Y, air, use, old, more, c, v)
    BY <1>12, <1>13, <1>14, <2>3, <2>4, <2>5, <2>6 DEF BdsStay
  <2>9. BdsOK(Y, sqFree, use, more)
    BY <1>6, <2>7, <2>8, BdsLeave
  <2> QED BY <1>1, <1>13, <2>4, <2>6, <2>9 DEF BdsInv
<1>19. PowerInv'
  <2>1. PICK is \in 0 .. 1 : is = 0
    OBVIOUS
  <2>2. PICK was \in 0 .. 1 : was = 1 <=> X[c].ps
    OBVIOUS
  <2>3. was = 1 <=> X[s].on /\ X[s].ps
    BY <1>1, <1>5, <1>7, <2>2
  <2>4. is = 1 <=> Y[s].on /\ Y[s].ps
    BY <1>5, <1>12, <1>13, <2>1
  <2>5. M[StaVap[s]] = Q[StaVap[s]] + is - was
    <3>1. Q[v] \in Int
      BY <1>6
    <3>2. n = Q[v] - was
      BY <1>9, <2>2, <3>1
    <3>3. M[v] = Q[v] + is - was
      BY <1>15, <2>1, <3>1, <3>2
    <3> QED BY <1>6, <3>3
  <2>6. Y[StaVap[s]].ps = (M[StaVap[s]] > 0)
    BY <1>6, <1>11, <1>13, <1>15, Zenon
  <2>7. Y[StaVap[s]].limit = IF M[StaVap[s]] > 0 THEN Min({PmLimit, TxLimit}) ELSE TxLimit
    BY <1>6, <1>11, <1>13, <1>15, Zenon
  <2>8. \A w \in SqVap \ {StaVap[s]} : M[w] = Q[w]
    BY <1>6, <1>15
  <2>9. \A b \in Ctx \ {s, StaVap[s]} :
          Y[b].on = X[b].on /\ Y[b].ps = X[b].ps /\ Y[b].limit = X[b].limit
    BY <1>5, <1>6, <1>13
  <2>10. PowerMoves(X, Y, Q, M, s, was, is)
    BY <2>3, <2>4, <2>5, <2>6, <2>7, <2>8, <2>9, Zenon DEF PowerMoves
  <2>11. PowerOK(Y, M)
    BY <1>10, <2>10, PowerChange
  <2> QED BY <1>13, <1>15, <2>11 DEF PowerInv
<1>20. /\ sqList' \in [Ac -> Seq(Ctx)]
       /\ \A a \in Ac : Distinct(sqList'[a]) /\ Elems(sqList'[a]) = Linked \ {c}
  <2>1. sqList' = [a \in Ac |-> Without(sqList[a], {c})]
    BY <1>5 DEF StaLeaves
  <2>2. ASSUME NEW a \in Ac
        PROVE  sqList'[a] \in Seq(Ctx) /\ Distinct(sqList'[a]) /\ Elems(sqList'[a]) = Linked \ {c}
    <3>1. PICK t \in Seq(Ctx) : t = sqList[a] /\ Distinct(t) /\ Elems(t) = Linked
      BY <1>2 DEF SqShape, SqInv, LinksInv
    <3>2. Without(t, {c}) \in Seq(Ctx) /\ Elems(Without(t, {c})) = Linked \ {c} /\ Distinct(Without(t, {c}))
      BY <3>1, WithoutElems
    <3> QED BY <2>1, <3>1, <3>2
  <2> QED BY <2>1, <2>2
<1>21. LinksInv'
  <2>1. Linked' = Linked \ {c}
    BY <1>7, <1>12, <1>13, <1>14 DEF Linked
  <2>2. \A w \in SqVap : sqCtx'[w].on
    <3>1. \A w \in SqVap : sqCtx[w].on
      BY DEF SqInv, LinksInv
    <3>2. \A w \in SqVap : w \in Ctx \ {c}
      BY <1>5, Constants
    <3> QED BY <1>7, <1>13, <1>14, <3>1, <3>2
  <2>3. ASSUME NEW b \in Ctx, ~sqCtx'[b].on PROVE sqCtx'[b] = Gone
    <3>1. CASE b = c
      BY <1>12, <1>13, <3>1
    <3>2. CASE b = v
      BY <1>6, <1>13, <2>2, <2>3, <3>2
    <3>3. CASE b \notin {c, v}
      <4>1. Y[b] = X[b]
        BY <1>13, <3>3
      <4> QED BY <1>7, <1>13, <2>3, <4>1 DEF SqInv, LinksInv
    <3> QED BY <3>1, <3>2, <3>3
  <2> QED BY <1>20, <2>1, <2>2, <2>3 DEF LinksInv
<1>22. SqShape'
  BY <1>1, <1>2, <1>13, <1>15, <1>16, <1>18, <1>20 DEF SqShape
<1>23. QuietInv'
  <2>1. ASSUME NEW d \in Ctx, NEW a \in Ac, X[d].q[a] = <<>> PROVE Y[d].q[a] = <<>>
    BY <1>12, <1>13, <1>14, <2>1
  <2> QED BY <1>1, <1>7, <1>13, <2>1 DEF SqInv, QuietInv
<1> QED BY <1>3, <1>4, <1>17, <1>18, <1>19, <1>21, <1>22, <1>23 DEF SqInv

\* The contexts after the start and after a recovery: the broadcasts of the VAPs
\* are linked, without packets, and the stations are gone.
AtRest == [c \in Ctx |-> IF c \in SqVap THEN Fresh([a \in Ac |-> 0]) ELSE Gone]

\* Such contexts are empty, owe no BD and do not sleep.
LEMMA RestShape ==
  /\ AtRest \in [Ctx -> CtxShape]
  /\ \A c \in Ctx : /\ AtRest[c].q = [a \in Ac |-> <<>>]
                    /\ AtRest[c].used = 0 /\ AtRest[c].usedAc = [a \in Ac |-> 0]
                    /\ ~AtRest[c].on => AtRest[c] = Gone
  /\ \A v \in SqVap : AtRest[v].on /\ AtRest[v].ps = FALSE /\ AtRest[v].limit = TxLimit
  /\ \A s \in SqSta : ~AtRest[s].on
  /\ {c \in Ctx : AtRest[c].on} = SqVap
<1>1. [a \in Ac |-> 0] \in [Ac -> {0, UapsdLimit}]
  OBVIOUS
<1>2. PICK x \in CtxShape :
        /\ x = Fresh([a \in Ac |-> 0]) /\ x.on /\ x.ps = FALSE /\ x.q = [a \in Ac |-> <<>>]
        /\ x.used = 0 /\ x.usedAc = [a \in Ac |-> 0] /\ x.limit = TxLimit
  <2>1. PICK x : x = Fresh([a \in Ac |-> 0])
    OBVIOUS
  <2>2. /\ x \in CtxShape /\ x.on /\ ~x.ps /\ x.q = [a \in Ac |-> <<>>]
        /\ x.used = 0 /\ x.usedAc = [a \in Ac |-> 0] /\ x.limit = TxLimit
    BY <1>1, <2>1, FreshShape
  <2>3. x.ps = FALSE
    BY <2>2 DEF CtxShape
  <2> QED BY <2>1, <2>2, <2>3
<1>3. PICK g \in CtxShape :
        /\ g = Gone /\ ~g.on /\ g.q = [a \in Ac |-> <<>>]
        /\ g.used = 0 /\ g.usedAc = [a \in Ac |-> 0]
  BY GoneShape
<1>4. PICK Y \in [Ctx -> CtxShape] : Y = AtRest /\ \A c \in Ctx : Y[c] = IF c \in SqVap THEN x ELSE g
  <2>1. PICK Y : Y = AtRest
    OBVIOUS
  <2>2. Y = [c \in Ctx |-> IF c \in SqVap THEN x ELSE g]
    BY <1>2, <1>3, <2>1 DEF AtRest
  <2> QED BY <2>1, <2>2
<1>5. \A v \in SqVap : v \in Ctx /\ Y[v] = x
  BY <1>4, Constants
<1>6. \A s \in SqSta : s \in Ctx /\ s \notin SqVap /\ Y[s] = g
  BY <1>4, Constants
<1>7. ASSUME NEW c \in Ctx
      PROVE  /\ Y[c].q = [a \in Ac |-> <<>>] /\ Y[c].used = 0 /\ Y[c].usedAc = [a \in Ac |-> 0]
             /\ ~Y[c].on => Y[c] = Gone
             /\ Y[c].on <=> c \in SqVap
  <2>1. CASE c \in SqVap
    BY <1>2, <1>5, <2>1
  <2>2. CASE c \notin SqVap
    <3>1. Y[c] = g
      BY <1>4, <2>2
    <3> QED BY <1>3, <2>2, <3>1
  <2> QED BY <2>1, <2>2
<1>8. {c \in Ctx : Y[c].on} = SqVap
  BY <1>5, <1>7
<1>9. \A v \in SqVap : Y[v].on /\ Y[v].ps = FALSE /\ Y[v].limit = TxLimit
  BY <1>2, <1>5
<1>10. \A s \in SqSta : ~Y[s].on
  BY <1>3, <1>6
<1> QED BY <1>4, <1>7, <1>8, <1>9, <1>10

\* Recovery ends with empty lists, all BDs free and the VAPs alone linked.
LEMMA RecoveryKeeps ==
  ASSUME SqInv, Recovery
  PROVE  SqInv'
<1>1. /\ ~sqFlush.on /\ ~sqCfm.on /\ ~sqMc.on /\ ~sqXmit.on /\ CancelIn(Ctx)
      /\ sqCtx' = AtRest /\ sqFree' = NBds
      /\ sqAir' = [c \in Ctx |-> [a \in Ac |-> 0]] /\ sqOld' = [v \in SqVap |-> 0]
      /\ sqPs' = [v \in SqVap |-> 0] /\ FlStart(SqMaster)
      /\ sqLim' = sqLim /\ sqMc' = sqMc /\ sqXmit' = sqXmit /\ sqFlush' = sqFlush
      /\ sqCfm' = sqCfm /\ sqNulls' = sqNulls
  BY DEF Recovery, Idle, AtRest
<1>2. SqShape
  BY DEF SqInv
<1>3. PICK Y \in [Ctx -> CtxShape] : Y = AtRest
  BY RestShape
<1>4. /\ \A c \in Ctx : /\ Y[c].q = [a \in Ac |-> <<>>]
                        /\ Y[c].used = 0 /\ Y[c].usedAc = [a \in Ac |-> 0]
                        /\ ~Y[c].on => Y[c] = Gone
      /\ \A v \in SqVap : Y[v].on /\ Y[v].ps = FALSE /\ Y[v].limit = TxLimit
      /\ \A s \in SqSta : ~Y[s].on
      /\ {c \in Ctx : Y[c].on} = SqVap
  BY <1>3, RestShape
<1>5. sqCtx' = Y
  BY <1>1, <1>3
<1>6. /\ PacketsOK(Y, sqSize', sqRef', Held)
      /\ sqSize' \in [Ac -> Int] /\ sqRef' \in [SqExtra -> RefShape]
  <2>1. Emptied(Y, Ctx)
    BY <1>2, <1>4, EmptiedAll
  <2>2. Ctx \in SUBSET Ctx /\ PacketsInv
    BY DEF SqInv
  <2> QED BY <1>1, <1>2, <2>1, <2>2, CancelCounts
<1>7. PacketsInv'
  BY <1>1, <1>5, <1>6 DEF PacketsInv, Held
<1>8. sqAir' \in [Ctx -> [Ac -> Nat]] /\ sqOld' \in [SqVap -> Nat] /\ sqPs' \in [SqVap -> Int]
  BY <1>1
<1>9. BdsInv'
  <2>1. PICK air \in [Ctx -> [Ac -> Nat]] : air = sqAir' /\ \A c \in Ctx : air[c] = [a \in Ac |-> 0]
    BY <1>1
  <2>2. PICK old \in [SqVap -> Nat] : old = sqOld' /\ \A v \in SqVap : old[v] = 0
    BY <1>1
  <2>3. BdsOK(Y, NBds, air, old)
    BY <1>4, <2>1, <2>2, BdsReset
  <2> QED BY <1>1, <1>5, <2>1, <2>2, <2>3 DEF BdsInv
<1>10. PowerInv'
  <2>1. PICK n : n = sqPs'
    OBVIOUS
  <2>2. \A v \in SqVap : n[v] = 0
    BY <1>1, <2>1
  <2>3. \A v \in SqVap : Y[v].ps = FALSE /\ Y[v].limit = TxLimit
    BY <1>4, Zenon
  <2>4. \A s \in SqSta : ~Y[s].on
    BY <1>4, Zenon
  <2>5. PowerOK(Y, n)
    BY <2>2, <2>3, <2>4, PowerReset, Zenon
  <2> QED BY <1>5, <2>1, <2>5 DEF PowerInv
<1>11. Linked' = SqVap
  BY <1>4, <1>5 DEF Linked
<1>12. /\ sqList' \in [Ac -> Seq(Ctx)]
       /\ \A a \in Ac : Distinct(sqList'[a]) /\ Elems(sqList'[a]) = SqVap
  <2>1. sqList' = [a \in Ac |-> Without(sqList[a], SqSta)]
    BY DEF Recovery
  <2>2. Linked \ SqSta = SqVap
    <3>1. \A v \in SqVap : v \in Ctx /\ v \notin SqSta /\ sqCtx[v].on
      BY Constants DEF SqInv, LinksInv
    <3> QED BY <3>1 DEF Linked, Ctx
  <2>3. ASSUME NEW a \in Ac
        PROVE  sqList'[a] \in Seq(Ctx) /\ Distinct(sqList'[a]) /\ Elems(sqList'[a]) = SqVap
    <3>1. PICK t \in Seq(Ctx) : t = sqList[a] /\ Distinct(t) /\ Elems(t) = Linked
      BY <1>2 DEF SqShape, SqInv, LinksInv
    <3>2. /\ Without(t, SqSta) \in Seq(Ctx) /\ Elems(Without(t, SqSta)) = Linked \ SqSta
          /\ Distinct(Without(t, SqSta))
      BY <3>1, WithoutElems
    <3> QED BY <2>1, <2>2, <3>1, <3>2
  <2> QED BY <2>1, <2>3
<1>13. LinksInv'
  BY <1>4, <1>5, <1>11, <1>12 DEF LinksInv
<1>14. flMask' = flMask \ {SqMaster} /\ sqProhib' = (sqProhib /\ flMask' # {})
  BY <1>1 DEF FlStart
<1>15. SqShape'
  <2>1. sqProhib' \in BOOLEAN /\ sqTask' \in BOOLEAN
    BY <1>1 DEF FlStart
  <2>2. sqFree' \in Int
    BY <1>1, Constants
  <2>3. flMask' \subseteq SqVap \cup {"scan"}
    BY <1>2, <1>14 DEF SqShape
  <2> QED BY <1>1, <1>2, <1>5, <1>6, <1>8, <1>12, <2>1, <2>2, <2>3 DEF SqShape
<1>16. TurnsInv'
  BY <1>1 DEF TurnsInv
<1>17. FlowInv'
  <2>1. sqProhib = (flMask # {})
    BY DEF SqInv, FlowInv
  <2>2. flMask' # {} => flMask # {}
    BY <1>14
  <2>3. sqProhib' = (flMask' # {})
    BY <1>14, <2>1, <2>2
  <2> QED BY <1>1, <2>3 DEF FlowInv
<1>18. FlushInv'
  BY <1>1 DEF FlushInv
<1>19. QuietInv'
  <2>1. \A d \in Ctx, a \in Ac : Y[d].q[a] = <<>>
    BY <1>4
  <2> QED BY <1>5, <2>1 DEF QuietInv
<1> QED BY <1>7, <1>9, <1>10, <1>13, <1>15, <1>16, <1>17, <1>18, <1>19 DEF SqInv

-----------------------------------------------------------------------------
(***************************************************************************)
(* The initial states.                                                     *)
(***************************************************************************)

\* A list that has as many different contexts as there are VAPs has them all.
LEMMA FirstList ==
  ASSUME NEW s \in [1 .. Cardinality(SqVap) -> SqVap], Distinct(s)
  PROVE  s \in Seq(Ctx) /\ Elems(s) = SqVap
<1>1. PICK n \in Nat : n = Cardinality(SqVap)
  BY Finite, FS_CardinalityType
<1>2. s \in [1 .. n -> SqVap] /\ DOMAIN s = 1 .. n
  BY <1>1
<1>3. s \in Injection(1 .. n, SqVap)
  BY <1>2 DEF Injection, IsInjective, Distinct
<1>4. Cardinality(1 .. n) = n
  BY FS_Interval
<1>5. s \in Surjection(1 .. n, SqVap)
  BY <1>1, <1>3, <1>4, Finite, FS_Injection
<1>6. Elems(s) = SqVap
  BY <1>2, <1>5 DEF Surjection, Elems
<1>7. s \in Seq(SqVap)
  BY <1>2
<1>8. SqVap \subseteq Ctx
  BY Constants
<1> QED BY <1>6, <1>7, <1>8

\* There are no packets.
LEMMA NoPackets ==
  ASSUME NEW X \in [Ctx -> CtxShape], \A c \in Ctx : X[c].q = [a \in Ac |-> <<>>],
         NEW size, \A a \in Ac : size[a] = 0,
         NEW r \in [SqExtra -> RefShape], \A e \in SqExtra : r[e].ref = 0
  PROVE  PacketsOK(X, size, r, {})
<1>1. \A c \in Ctx, b \in Ac : X[c].q[b] = <<>>
  OBVIOUS
<1>2. ASSUME NEW b \in Ac, NEW p PROVE SumFunction(Tally(X, b, p)) = 0
  <2>1. PICK f \in [Ctx -> Nat] : f = Tally(X, b, p) /\ \A c \in Ctx : f[c] = Count(X[c].q[b], p)
    BY TallyType
  <2>2. \A c \in Ctx : f[c] = 0
    BY <1>1, <2>1, CountEmpty
  <2> QED BY <2>1, <2>2, Finite, SumZero
<1>3. \A b \in Ac : Frames(r, b) = {}
  BY DEF Frames
<1>4. \A b \in Ac : size[b] = SumFunction(Tally(X, b, Own)) + Cardinality(Frames(r, b))
  <2> SUFFICES ASSUME NEW b \in Ac
               PROVE  size[b] = SumFunction(Tally(X, b, Own)) + Cardinality(Frames(r, b))
    OBVIOUS
  <2>1. SumFunction(Tally(X, b, Own)) = 0
    BY <1>2
  <2>2. Cardinality(Frames(r, b)) = 0
    BY <1>3, FS_EmptySet
  <2>3. size[b] = 0
    OBVIOUS
  <2> QED BY <2>1, <2>2, <2>3
<1>5. ASSUME NEW e \in SqExtra
      PROVE  r[e].ref = SumFunction(Tally(X, r[e].ac, e)) + IF e \in {} THEN 1 ELSE 0
  <2>1. PICK b \in Ac : b = r[e].ac
    BY DEF RefShape
  <2>2. SumFunction(Tally(X, b, e)) = 0
    BY <1>2
  <2> QED BY <2>1, <2>2
<1>6. \A c \in Ctx, b \in Ac, e \in SqExtra : e \in Elems(X[c].q[b]) => r[e].ac = b
  BY <1>1 DEF Elems
<1> QED BY <1>4, <1>5, <1>6 DEF PacketsOK

\* sq_init and the broadcast contexts of the VAPs.
LEMMA InitInv ==
  ASSUME SqInit
  PROVE  SqInv
<1>1. /\ sqCtx = AtRest /\ sqSize = [a \in Ac |-> 0] /\ sqRef = [e \in SqExtra |-> [ref |-> 0, ac |-> 1]]
      /\ sqMc = NoMc /\ sqXmit = NoXmit /\ sqTask = FALSE /\ sqFlush = NoFlush /\ sqCfm = NoCfm
      /\ flMask = {} /\ sqProhib = FALSE
      /\ sqFree = NBds /\ sqAir = [c \in Ctx |-> [a \in Ac |-> 0]] /\ sqOld = [v \in SqVap |-> 0]
      /\ sqPs = [v \in SqVap |-> 0] /\ sqNulls = 0
  BY DEF SqInit, AtRest
<1>2. ~sqMc.on /\ ~sqXmit.on /\ ~sqFlush.on /\ ~sqCfm.on
  BY <1>1 DEF NoMc, NoXmit, NoFlush, NoCfm
<1>3. PICK Y \in [Ctx -> CtxShape] : Y = AtRest
  BY RestShape
<1>4. /\ \A c \in Ctx : /\ Y[c].q = [a \in Ac |-> <<>>]
                        /\ Y[c].used = 0 /\ Y[c].usedAc = [a \in Ac |-> 0]
                        /\ ~Y[c].on => Y[c] = Gone
      /\ \A v \in SqVap : Y[v].on /\ Y[v].ps = FALSE /\ Y[v].limit = TxLimit
      /\ \A s \in SqSta : ~Y[s].on
      /\ {c \in Ctx : Y[c].on} = SqVap
  BY <1>3, RestShape
<1>5. sqCtx = Y
  BY <1>1, <1>3
<1>6. sqRef \in [SqExtra -> RefShape] /\ \A e \in SqExtra : sqRef[e].ref = 0
  BY <1>1, Constants DEF RefShape
<1>7. PacketsInv
  <2>1. Held = {}
    BY <1>2 DEF Held
  <2>2. PICK size : size = sqSize /\ \A a \in Ac : size[a] = 0
    BY <1>1
  <2>3. PICK r \in [SqExtra -> RefShape] : r = sqRef /\ \A e \in SqExtra : r[e].ref = 0
    BY <1>6
  <2>4. \A c \in Ctx : Y[c].q = [a \in Ac |-> <<>>]
    BY <1>4
  <2>5. PacketsOK(Y, size, r, {})
    BY <2>2, <2>3, <2>4, NoPackets
  <2> QED BY <1>5, <2>1, <2>2, <2>3, <2>5 DEF PacketsInv
<1>8. BdsInv
  <2>1. PICK air \in [Ctx -> [Ac -> Nat]] : air = sqAir /\ \A c \in Ctx : air[c] = [a \in Ac |-> 0]
    BY <1>1
  <2>2. PICK old \in [SqVap -> Nat] : old = sqOld /\ \A v \in SqVap : old[v] = 0
    BY <1>1
  <2>3. BdsOK(Y, NBds, air, old)
    BY <1>4, <2>1, <2>2, BdsReset
  <2> QED BY <1>1, <1>5, <2>1, <2>2, <2>3 DEF BdsInv
<1>9. PowerInv
  <2>1. PICK n : n = sqPs
    OBVIOUS
  <2>2. \A v \in SqVap : n[v] = 0
    BY <1>1, <2>1
  <2>3. \A v \in SqVap : Y[v].ps = FALSE /\ Y[v].limit = TxLimit
    BY <1>4, Zenon
  <2>4. \A s \in SqSta : ~Y[s].on
    BY <1>4, Zenon
  <2>5. PowerOK(Y, n)
    BY <2>2, <2>3, <2>4, PowerReset, Zenon
  <2> QED BY <1>5, <2>1, <2>5 DEF PowerInv
<1>10. LinksInv /\ sqList \in [Ac -> Seq(Ctx)]
  <2>1. PICK s \in [1 .. Cardinality(SqVap) -> SqVap] : Distinct(s) /\ sqList = [a \in Ac |-> s]
    BY DEF SqInit
  <2>2. s \in Seq(Ctx) /\ Elems(s) = SqVap
    BY <2>1, FirstList
  <2>3. Linked = SqVap
    BY <1>4, <1>5 DEF Linked
  <2>4. \A a \in Ac : sqList[a] = s
    BY <2>1
  <2>5. sqList \in [Ac -> Seq(Ctx)]
    BY <2>1, <2>2
  <2>6. \A a \in Ac : Distinct(sqList[a]) /\ Elems(sqList[a]) = Linked
    BY <2>1, <2>2, <2>3, <2>4
  <2> QED BY <1>4, <1>5, <2>5, <2>6 DEF LinksInv
<1>11. sqLim \in [g : Nat \ {0}, p : Nat]
  <2>1. PICK l \in SqLimits : sqLim = [g |-> l.g, p |-> (l.r * l.g) \div 100]
    BY DEF SqInit
  <2>2. l.g \in Nat \ {0} /\ l.r \in Nat
    BY SqConstants
  <2>3. PICK m \in Nat : m = l.r * l.g
    BY <2>2
  <2>4. m \div 100 \in Nat
    BY DivNat
  <2> QED BY <2>1, <2>2, <2>3, <2>4
<1>12. SqShape
  <2>1. sqSize \in [Ac -> Int] /\ sqPs \in [SqVap -> Int] /\ sqFree \in Int /\ sqNulls \in 0 .. NullMax
    BY <1>1, Constants, SqConstants
  <2>2. sqAir \in [Ctx -> [Ac -> Nat]] /\ sqOld \in [SqVap -> Nat]
    BY <1>1
  <2>3. flMask \subseteq SqVap \cup {"scan"}
    BY <1>1
  <2> QED BY <1>1, <1>5, <1>6, <1>10, <1>11, <2>1, <2>2, <2>3 DEF SqShape
<1>13. TurnsInv /\ FlushInv
  BY <1>2 DEF TurnsInv, FlushInv
<1>14. FlowInv
  BY <1>1, <1>2 DEF FlowInv
<1>15. QuietInv
  <2>1. \A d \in Ctx, a \in Ac : Y[d].q[a] = <<>>
    BY <1>4
  <2> QED BY <1>5, <2>1 DEF QuietInv
<1> QED BY <1>7, <1>8, <1>9, <1>10, <1>12, <1>13, <1>14, <1>15 DEF SqInv

-----------------------------------------------------------------------------
(***************************************************************************)
(* What the invariant says.                                                *)
(***************************************************************************)
\* Counters are natural because they are sums and cardinalities.
LEMMA InvTypeOK ==
  ASSUME SqInv
  PROVE  SqTypeOK
<1>1. SqShape
  BY DEF SqInv
<1>2. PICK X \in [Ctx -> CtxShape] : X = sqCtx
  BY <1>1 DEF SqShape
<1>3. PICK air \in [Ctx -> [Ac -> Nat]] : air = sqAir
  BY <1>1 DEF SqShape
<1>4. PICK old \in [SqVap -> Nat] : old = sqOld
  BY <1>1 DEF SqShape
<1>5. BdsOK(X, sqFree, air, old)
  BY <1>2, <1>3, <1>4 DEF SqInv, BdsInv
<1>6. sqFree \in 0 .. NBds /\ sqAir \in [Ctx -> [Ac -> 0 .. NBds]] /\ sqOld \in [SqVap -> 0 .. NBds]
  <2>1. BdsInv
    BY DEF SqInv
  <2> QED BY <1>1, <2>1, BdsRange
<1>7. sqCtx \in [Ctx -> [on : BOOLEAN, q : [Ac -> Seq({Own} \cup SqExtra)], used : Nat,
                         usedAc : [Ac -> Nat], limit : {TxLimit, PmLimit}, ps : BOOLEAN,
                         limAc : [Ac -> {0, UapsdLimit}]]]
  <2>1. ASSUME NEW c \in Ctx
        PROVE  X[c] \in [on : BOOLEAN, q : [Ac -> Seq(Pkt)], used : Nat,
                         usedAc : [Ac -> Nat], limit : {TxLimit, PmLimit}, ps : BOOLEAN,
                         limAc : [Ac -> {0, UapsdLimit}]]
    <3>1. X[c].usedAc \in [Ac -> Nat] /\ X[c].used \in Nat
      <4>1. X[c].usedAc = air[c] /\ X[c].used = SumFunction(air[c])
        BY <1>5 DEF BdsOK
      <4>2. SumFunction(air[c]) \in Nat
        BY InUseType
      <4> QED BY <4>1, <4>2
    <3>2. X[c] \in CtxShape
      OBVIOUS
    <3> QED BY <3>1, <3>2 DEF CtxShape
  <2> QED BY <1>2, <2>1 DEF Pkt
<1>8. sqSize \in [Ac -> Nat]
  <2>1. ASSUME NEW a \in Ac PROVE sqSize[a] \in Nat
    <3>1. sqSize[a] = SumFunction(Tally(X, a, Own)) + Cardinality(Frames(sqRef, a))
      BY <1>2 DEF SqInv, PacketsInv, PacketsOK
    <3>2. SumFunction(Tally(X, a, Own)) \in Nat
      BY TallyType
    <3>3. Cardinality(Frames(sqRef, a)) \in Nat
      BY FramesType
    <3> QED BY <3>1, <3>2, <3>3
  <2> QED BY <1>1, <2>1 DEF SqShape
<1>9. sqRef \in [SqExtra -> [ref : Nat, ac : Ac]]
  <2>1. PICK r \in [SqExtra -> RefShape] : r = sqRef
    BY <1>1 DEF SqShape
  <2>2. ASSUME NEW e \in SqExtra PROVE r[e] \in [ref : Nat, ac : Ac]
    <3>1. PICK a \in Ac : a = r[e].ac
      BY DEF RefShape
    <3>2. r[e].ref = SumFunction(Tally(X, a, e)) + IF e \in Held THEN 1 ELSE 0
      BY <1>2, <2>1, <3>1 DEF SqInv, PacketsInv, PacketsOK
    <3>3. SumFunction(Tally(X, a, e)) \in Nat
      BY TallyType
    <3>4. r[e].ref \in Nat
      BY <3>2, <3>3
    <3>5. r[e] \in RefShape
      OBVIOUS
    <3> QED BY <3>4, <3>5 DEF RefShape
  <2> QED BY <2>1, <2>2
<1>10. sqPs \in [SqVap -> Nat]
  <2>1. \A v \in SqVap : sqPs[v] = Cardinality(Sleepers(sqCtx, v))
    BY DEF SqInv, PowerInv, PowerOK
  <2>2. \A v \in SqVap : Cardinality(Sleepers(sqCtx, v)) \in Nat
    BY SleepersType
  <2> QED BY <1>1, <2>1, <2>2 DEF SqShape
<1>11. sqFlush = NoFlush \/ sqFlush \in [on : {TRUE}, ac : Ac, pos : Nat, sent : BOOLEAN]
  BY <1>1 DEF SqShape, FlushShape
<1>12. sqLim \in [g : Nat, p : Nat]
  BY <1>1 DEF SqShape
<1>13. /\ sqList \in [Ac -> Seq(Ctx)]
       /\ sqMc = NoMc \/ sqMc \in [on : {TRUE}, ex : SqExtra, left : SUBSET SqSta]
       /\ sqXmit = NoXmit \/ sqXmit \in [on : {TRUE}, ctx : Ctx, stale : BOOLEAN]
       /\ sqTask \in BOOLEAN /\ sqProhib \in BOOLEAN
       /\ flMask \subseteq SqVap \cup {"scan"}
       /\ sqCfm = NoCfm \/ sqCfm \in [on : {TRUE}, ctx : Ctx, ac : Ac, old : BOOLEAN]
       /\ sqNulls \in 0 .. NullMax
  BY <1>1 DEF SqShape, McShape, XmitShape, CfmShape
<1> QED BY <1>6, <1>7, <1>8, <1>9, <1>10, <1>11, <1>12, <1>13 DEF SqTypeOK

\* The contexts that are not linked have no packets.
LEMMA InListsLinked ==
  ASSUME SqInv, NEW a \in Ac
  PROVE  InLists(Linked, a, Own) = SumFunction(Tally(sqCtx, a, Own))
<1>1. PICK X \in [Ctx -> CtxShape] : X = sqCtx
  BY DEF SqInv, SqShape
<1>2. PICK f \in [Ctx -> Nat] :
        f = Tally(X, a, Own) /\ \A c \in Ctx : f[c] = Count(X[c].q[a], Own)
  BY TallyType
<1>3. Linked \in SUBSET Ctx
  BY DEF Linked
<1>4. PICK g : g = [c \in Linked |-> f[c]]
  OBVIOUS
<1>5. g \in [Linked -> Nat] /\ \A c \in Linked : g[c] = f[c]
  BY <1>3, <1>4
<1>6. ASSUME NEW c \in Ctx \ Linked PROVE f[c] = 0
  <2>1. X[c] = Gone
    BY <1>1 DEF Linked, SqInv, LinksInv
  <2>2. X[c].q[a] = <<>>
    BY <2>1, GoneShape
  <2>3. f[c] = Count(<<>>, Own)
    BY <1>2, <2>2
  <2> QED BY <2>3, CountEmpty
<1>7. SumFunction(g) = SumFunction(f)
  BY <1>3, <1>5, <1>6, Finite, SumRestrict
<1>8. g = [c \in Linked |-> Count(sqCtx[c].q[a], Own)]
  BY <1>1, <1>2, <1>3, <1>4
<1> QED BY <1>1, <1>2, <1>7, <1>8 DEF InLists

\* The counters are those of the invariant.
LEMMA InvCounted ==
  ASSUME SqInv
  PROVE  SqCounted
<1>1. ASSUME NEW a \in Ac
      PROVE  sqSize[a] = InLists(Linked, a, Own) + Pending(a)
  <2>1. Pending(a) = Cardinality(Frames(sqRef, a))
    BY DEF Pending, Frames
  <2>2. sqSize[a] = SumFunction(Tally(sqCtx, a, Own)) + Cardinality(Frames(sqRef, a))
    BY DEF SqInv, PacketsInv, PacketsOK
  <2>3. InLists(Linked, a, Own) = SumFunction(Tally(sqCtx, a, Own))
    BY InListsLinked
  <2> QED BY <2>1, <2>2, <2>3
<1>2. ASSUME NEW c \in Linked
      PROVE  /\ \A a \in Ac : sqCtx[c].usedAc[a] = sqAir[c][a]
             /\ sqCtx[c].used = SumFunction(sqAir[c])
  BY DEF SqInv, BdsInv, BdsOK, Linked
<1>3. ASSUME NEW v \in SqVap
      PROVE  /\ sqPs[v] = Cardinality({s \in SqSta : sqCtx[s].on /\ StaVap[s] = v /\ sqCtx[s].ps})
             /\ sqCtx[v].ps = (sqPs[v] > 0)
             /\ sqCtx[v].limit = IF sqPs[v] > 0 THEN Min({PmLimit, TxLimit}) ELSE TxLimit
  BY Zenon DEF SqInv, PowerInv, PowerOK, Sleepers
<1> QED BY <1>1, <1>2, <1>3 DEF SqCounted

\* Transmission that is not prohibited is not stopped by anybody.
LEMMA InvNoneForgotten ==
  ASSUME SqInv
  PROVE  SqNoneForgotten
<1> SUFFICES ASSUME Idle, ~sqTask, ~sqProhib, sqFree = NBds, NEW c \in Linked, NEW a \in Ac
             PROVE  sqCtx[c].q[a] = <<>>
  BY DEF SqNoneForgotten
<1>1. flMask = {}
  BY DEF SqInv, FlowInv
<1>2. c \in Ctx
  BY DEF Linked
<1> QED BY <1>1, <1>2 DEF SqInv, QuietInv, Idle

\* Steps of others.
LEMMA Stutters ==
  ASSUME SqInv, UNCHANGED sqVars
  PROVE  SqInv'
<1>1. /\ sqCtx' = sqCtx /\ sqList' = sqList /\ sqSize' = sqSize /\ sqRef' = sqRef
      /\ flMask' = flMask /\ sqProhib' = sqProhib
      /\ sqFree' = sqFree /\ sqAir' = sqAir /\ sqOld' = sqOld
      /\ sqLim' = sqLim /\ sqMc' = sqMc /\ sqXmit' = sqXmit /\ sqTask' = sqTask
      /\ sqFlush' = sqFlush /\ sqCfm' = sqCfm /\ sqPs' = sqPs /\ sqNulls' = sqNulls
  BY DEF sqVars, qv, fv, bv
<1>2. PacketsInv' /\ BdsInv' /\ PowerInv' /\ LinksInv'
  BY <1>1, KeptCounts DEF Kept
<1>3. SqShape'
  BY <1>1 DEF SqInv, SqShape
<1>4. TurnsInv' /\ FlowInv'
  BY <1>1 DEF SqInv, TurnsInv, FlowInv
<1>5. FlushInv' /\ QuietInv'
  BY <1>1 DEF SqInv, FlushInv, QuietInv, Linked, Settled, AtLimit
<1> QED BY <1>2, <1>3, <1>4, <1>5 DEF SqInv

\* One case per action.
LEMMA StepKeeps ==
  ASSUME SqInv, ~SqSmp, [SqNext]_sqVars
  PROVE  SqInv'
<1>1. CASE UNCHANGED sqVars
  BY <1>1, Stutters
<1>2. CASE ScanStops \/ ScanEnds \/ SetLimits \/ Recovery
  BY <1>2, ScanStopsKeeps, ScanEndsKeeps, SetLimitsKeeps, RecoveryKeeps
<1>3. CASE FlushStep
  BY <1>3, FlushBeginsKeeps, FlushSkipsKeeps, FlushSendsKeeps, FlushEndsPassKeeps DEF FlushStep
<1>4. CASE CfmStep
  BY <1>4, CfmEndsKeeps, CfmBeginsKeeps, CfmOldKeeps DEF CfmStep
<1>5. CASE XmitEnqueues \/ McBegins \/ McEnds
  BY <1>5, XmitEnqueuesKeeps, McBeginsKeeps, McEndsKeeps
<1>6. ASSUME NEW c \in Ctx, CancelPackets(c) \/ XmitBegins(c) PROVE SqInv'
  BY <1>6, CancelPacketsKeeps, XmitBeginsKeeps
<1>7. ASSUME NEW s \in SqSta, StaConnects(s) \/ StaLeaves(s) \/ McClones(s) \/ NullPacket(s)
      PROVE  SqInv'
  BY <1>7, StaConnectsKeeps, StaLeavesKeeps, McClonesKeeps, NullPacketKeeps
<1>8. ASSUME NEW s \in SqSta, NEW e \in BOOLEAN, PmUpdate(s, e) PROVE SqInv'
  BY <1>8, PmUpdateKeeps
<1> QED BY <1>1, <1>2, <1>3, <1>4, <1>5, <1>6, <1>7, <1>8 DEF SqNext

\* On one processor the invariant of the send queue holds in every state the
\* code reaches: what is queued, counted, charged and stopped agrees, whatever
\* the numbers of stations, VAPs, categories, BDs and frames.
THEOREM SqInvariant ==
  ASSUME ~SqSmp
  PROVE  SqSpec => []SqInv
<1>1. SqInit => SqInv
  BY InitInv
<1>2. SqInv /\ [SqNext]_sqVars => SqInv'
  BY StepKeeps
<1> QED BY <1>1, <1>2, PTL DEF SqSpec

\* The variables of the send queue keep their types on one processor; in
\* particular no counter of packets, BDs or sleeping stations that the driver
\* decrements (mtlk_sq.c, hw_mmb.c, core.c) falls below zero.
THEOREM SqTypeCorrect ==
  ASSUME ~SqSmp
  PROVE  SqSpec => []SqTypeOK
<1>1. SqInv => SqTypeOK
  BY InvTypeOK
<1> QED BY <1>1, SqInvariant, PTL

\* The counters behind the limits of mtlk_sq_enqueue_pkt, mtlk_sq_flush and
\* mtlk_core_set_pm_enabled count what is really queued, at the firmware and
\* asleep, on one processor.
THEOREM SqAlwaysCounted ==
  ASSUME ~SqSmp
  PROVE  SqSpec => []SqCounted
<1>1. SqInv => SqCounted
  BY InvCounted
<1> QED BY <1>1, SqInvariant, PTL

\* On one processor no packet stays in a list of the send queue when everything
\* was confirmed, the flow runs and no flush is scheduled or running.
THEOREM SqNeverForgets ==
  ASSUME ~SqSmp
  PROVE  SqSpec => []SqNoneForgotten
<1>1. SqInv => SqNoneForgotten
  BY InvNoneForgotten
<1> QED BY <1>1, SqInvariant, PTL

-----------------------------------------------------------------------------
(***************************************************************************)
(* The recovery, the send queue and the ring, which MCDataPath runs in one *)
(* model.                                                                  *)
(***************************************************************************)

\* What the model of the three does is what each of them does: a step of the one
\* that runs leaves the others alone.
THEOREM DataPathImplements == DataPathSpec => RcvrySpec /\ SqSpec /\ Spec
<1>1. DataPathInit => RcvryInit /\ SqInit /\ Init
  BY DEF DataPathInit
<1> DEFINE all == <<part, rcVars, sqVars, vars>>
<1>2. [DataPathNext]_all => [RcvryNext]_rcVars
  BY DEF DataPathNext
<1>3. [DataPathNext]_all => [SqNext]_sqVars
  BY DEF DataPathNext
<1>4. [DataPathNext]_all => [Next]_vars
  BY DEF DataPathNext
<1> QED BY <1>1, <1>2, <1>3, <1>4, PTL DEF DataPathSpec, RcvrySpec, SqSpec, Spec

\* The types of the recovery and, on one processor, of the send queue.
THEOREM DataPathTypeCorrect ==
  ASSUME ~SqSmp
  PROVE  DataPathSpec => []DataPathTypeOK
<1>1. RcvryTypeOK /\ SqTypeOK => DataPathTypeOK
  BY DEF DataPathTypeOK
<1> QED BY <1>1, DataPathImplements, RcvryTypeCorrect, SqTypeCorrect, PTL
=============================================================================

----------------------------- MODULE ListsProofs -----------------------------
(***************************************************************************)
(* What insertion and the three removals do to the elements of a list;     *)
(* induction, arithmetic of indices that wrap around, and sums.            *)
(***************************************************************************)
EXTENDS Lists, SequenceTheorems, FiniteSetTheorems, WellFoundedInduction, TLAPS

\* A position of a list: between 1 and the length.
LEMMA Domain ==
  ASSUME NEW S, NEW s \in Seq(S)
  PROVE  /\ DOMAIN s = 1 .. Len(s)
         /\ Len(s) \in Nat
         /\ \A i \in DOMAIN s : s[i] \in S
         /\ Elems(s) \subseteq S
         /\ s # <<>> <=> Len(s) > 0
  BY DEF Elems

\* The place of an element that is in the list: mtlk_dlist_remove and the
\* idx field of a block find what they look for.
LEMMA PositionFinds ==
  ASSUME NEW s, NEW x \in Elems(s)
  PROVE  Position(s, x) \in DOMAIN s /\ s[Position(s, x)] = x
  BY DEF Elems, Position

\* mtlk_dlist_push_back, _mtlk_txmm_put_buf.
LEMMA AppendElems ==
  ASSUME NEW S, NEW s \in Seq(S), NEW x \in S
  PROVE  /\ Append(s, x) \in Seq(S)
         /\ Elems(Append(s, x)) = Elems(s) \cup {x}
         /\ (Distinct(s) /\ x \notin Elems(s)) => Distinct(Append(s, x))
<1> DEFINE t == Append(s, x)
<1>1. /\ t \in Seq(S) /\ Len(t) = Len(s) + 1
      /\ \A i \in 1 .. Len(s) : t[i] = s[i]
      /\ t[Len(s) + 1] = x
      /\ DOMAIN t = 1 .. Len(s) + 1 /\ DOMAIN s = 1 .. Len(s) /\ Len(s) \in Nat
  OBVIOUS
<1> HIDE DEF t
<1>2. Elems(t) = Elems(s) \cup {x}
  BY <1>1 DEF Elems
<1>3. ASSUME Distinct(s), x \notin Elems(s) PROVE Distinct(t)
  <2> SUFFICES ASSUME NEW i \in DOMAIN t, NEW j \in DOMAIN t, t[i] = t[j] PROVE i = j
    BY DEF Distinct
  <2> QED BY <1>1, <1>3 DEF Distinct, Elems
<1> QED BY <1>1, <1>2, <1>3 DEF t

\* A list of one element and one more.
LEMMA AppendToOne ==
  ASSUME NEW S, NEW a \in S, NEW b \in S
  PROVE  Append(<<a>>, b) = <<a, b>>
<1> DEFINE t == Append(<<a>>, b)
           u == <<a, b>>
<1>1. t \in Seq(S) /\ Len(t) = 2 /\ t[1] = a /\ t[2] = b
  OBVIOUS
<1>2. u \in Seq(S) /\ Len(u) = 2 /\ u[1] = a /\ u[2] = b
  OBVIOUS
<1> HIDE DEF t, u
<1>3. \A i \in 1 .. 2 : t[i] = u[i]
  BY <1>1, <1>2
<1>4. t = u
  BY <1>1, <1>2, <1>3, SeqEqual
<1> QED BY <1>4 DEF t, u

\* mtlk_dlist_pop_front, _mtlk_txmm_get_buf.
LEMMA TailElems ==
  ASSUME NEW S, NEW s \in Seq(S), s # <<>>, Distinct(s)
  PROVE  /\ Head(s) \in S
         /\ Head(s) \in Elems(s)
         /\ Tail(s) \in Seq(S)
         /\ Elems(Tail(s)) = Elems(s) \ {Head(s)}
         /\ Distinct(Tail(s))
<1> DEFINE t == Tail(s)
<1>1. /\ t \in Seq(S) /\ Len(t) = Len(s) - 1
      /\ \A i \in 1 .. Len(s) - 1 : t[i] = s[i + 1]
      /\ DOMAIN t = 1 .. Len(s) - 1 /\ DOMAIN s = 1 .. Len(s) /\ Len(s) \in Nat /\ Len(s) > 0
      /\ Head(s) = s[1] /\ Head(s) \in S
  OBVIOUS
<1> HIDE DEF t
<1>2. Elems(t) = Elems(s) \ {s[1]}
  <2>1. ASSUME NEW i \in DOMAIN t PROVE t[i] \in Elems(s) \ {s[1]}
    <3>1. i + 1 \in DOMAIN s /\ 1 \in DOMAIN s /\ i + 1 # 1 /\ t[i] = s[i + 1]
      BY <1>1
    <3>2. s[i + 1] # s[1]
      BY <3>1 DEF Distinct
    <3> QED BY <3>1, <3>2 DEF Elems
  <2>2. ASSUME NEW i \in DOMAIN s, s[i] # s[1] PROVE s[i] \in Elems(t)
    <3>1. i - 1 \in DOMAIN t /\ t[i - 1] = s[i]
      BY <1>1, <2>2
    <3> QED BY <3>1 DEF Elems
  <2> QED BY <2>1, <2>2 DEF Elems
<1>3. Distinct(t)
  <2>1. ASSUME NEW i \in DOMAIN t, NEW j \in DOMAIN t, t[i] = t[j] PROVE i = j
    <3>1. i + 1 \in DOMAIN s /\ j + 1 \in DOMAIN s /\ t[i] = s[i + 1] /\ t[j] = s[j + 1]
      BY <1>1
    <3>2. i + 1 = j + 1
      BY <2>1, <3>1 DEF Distinct
    <3> QED BY <1>1, <3>2
  <2> QED BY <2>1 DEF Distinct
<1>4. Head(s) \in Elems(s)
  BY <1>1 DEF Elems
<1> QED BY <1>1, <1>2, <1>3, <1>4 DEF t

\* mtlk_dlist_remove, _mtlk_txmm_del_buf_from_que with preserve_order.
LEMMA DelKeepElems ==
  ASSUME NEW S, NEW s \in Seq(S), NEW k \in DOMAIN s, Distinct(s)
  PROVE  /\ DelKeep(s, k) \in Seq(S)
         /\ Elems(DelKeep(s, k)) = Elems(s) \ {s[k]}
         /\ Distinct(DelKeep(s, k))
<1> DEFINE t == DelKeep(s, k)
<1>1. /\ t \in Seq(S) /\ Len(t) = Len(s) - 1
      /\ DOMAIN t = 1 .. Len(s) - 1 /\ DOMAIN s = 1 .. Len(s) /\ Len(s) \in Nat /\ Len(s) > 0
      /\ \A i \in DOMAIN t : t[i] = IF i < k THEN s[i] ELSE s[i + 1]
  <2>1. DOMAIN s = 1 .. Len(s) /\ Len(s) \in Nat /\ Len(s) > 0
    OBVIOUS
  <2>2. \A i \in 1 .. Len(s) - 1 : (IF i < k THEN s[i] ELSE s[i + 1]) \in S
    BY <2>1
  <2>3. t \in [1 .. Len(s) - 1 -> S] /\ Len(s) - 1 \in Nat
    BY <2>1, <2>2 DEF DelKeep
  <2> QED BY <2>1, <2>3 DEF DelKeep
<1> HIDE DEF t
<1>2. Elems(t) = Elems(s) \ {s[k]}
  <2>1. ASSUME NEW i \in DOMAIN t PROVE t[i] \in Elems(s) \ {s[k]}
    BY <1>1 DEF Elems, Distinct
  <2>2. ASSUME NEW i \in DOMAIN s, s[i] # s[k] PROVE s[i] \in Elems(t)
    <3>1. CASE i < k
      <4>1. i \in DOMAIN t /\ t[i] = s[i]
        BY <1>1, <3>1
      <4> QED BY <4>1 DEF Elems
    <3>2. CASE i > k
      <4>1. i - 1 \in DOMAIN t /\ t[i - 1] = s[i]
        BY <1>1, <3>2
      <4> QED BY <4>1 DEF Elems
    <3> QED BY <1>1, <2>2, <3>1, <3>2
  <2> QED BY <2>1, <2>2 DEF Elems
<1>3. Distinct(t)
  <2> SUFFICES ASSUME NEW i \in DOMAIN t, NEW j \in DOMAIN t, t[i] = t[j] PROVE i = j
    BY DEF Distinct
  <2> QED BY <1>1 DEF Distinct
<1> QED BY <1>1, <1>2, <1>3 DEF t

\* _mtlk_txmm_del_buf_from_que without preserve_order.
LEMMA DelSwapElems ==
  ASSUME NEW S, NEW s \in Seq(S), NEW k \in DOMAIN s, Distinct(s)
  PROVE  /\ DelSwap(s, k) \in Seq(S)
         /\ Elems(DelSwap(s, k)) = Elems(s) \ {s[k]}
         /\ Distinct(DelSwap(s, k))
<1> DEFINE t == DelSwap(s, k)
<1>1. /\ t \in Seq(S) /\ Len(t) = Len(s) - 1
      /\ DOMAIN t = 1 .. Len(s) - 1 /\ DOMAIN s = 1 .. Len(s) /\ Len(s) \in Nat /\ Len(s) > 0
      /\ \A i \in DOMAIN t : t[i] = IF i + 1 = k THEN s[1] ELSE s[i + 1]
  <2>1. DOMAIN s = 1 .. Len(s) /\ Len(s) \in Nat /\ Len(s) > 0
    OBVIOUS
  <2>2. \A i \in 1 .. Len(s) - 1 : (IF i + 1 = k THEN s[1] ELSE s[i + 1]) \in S
    BY <2>1
  <2>3. t \in [1 .. Len(s) - 1 -> S] /\ Len(s) - 1 \in Nat
    BY <2>1, <2>2 DEF DelSwap
  <2> QED BY <2>1, <2>3 DEF DelSwap
<1> HIDE DEF t
<1>2. Elems(t) = Elems(s) \ {s[k]}
  <2>1. ASSUME NEW i \in DOMAIN t PROVE t[i] \in Elems(s) \ {s[k]}
    BY <1>1 DEF Elems, Distinct
  <2>2. ASSUME NEW i \in DOMAIN s, s[i] # s[k] PROVE s[i] \in Elems(t)
    <3>1. CASE i = 1
      <4>1. k - 1 \in DOMAIN t /\ t[k - 1] = s[1]
        BY <1>1, <2>2, <3>1
      <4> QED BY <3>1, <4>1 DEF Elems
    <3>2. CASE i > 1
      <4>1. i - 1 \in DOMAIN t /\ t[i - 1] = s[i]
        BY <1>1, <2>2, <3>2
      <4> QED BY <4>1 DEF Elems
    <3> QED BY <1>1, <3>1, <3>2
  <2> QED BY <2>1, <2>2 DEF Elems
<1>3. Distinct(t)
  <2> SUFFICES ASSUME NEW i \in DOMAIN t, NEW j \in DOMAIN t, t[i] = t[j] PROVE i = j
    BY DEF Distinct
  <2>1. CASE i + 1 = k /\ j + 1 # k
    BY <1>1, <2>1 DEF Distinct
  <2>2. CASE i + 1 # k /\ j + 1 = k
    BY <1>1, <2>2 DEF Distinct
  <2> QED BY <1>1, <2>1, <2>2 DEF Distinct
<1> QED BY <1>1, <1>2, <1>3 DEF t


\* A list that has nothing twice is as long as it has elements.
LEMMA LengthIsCardinality ==
  ASSUME NEW S, NEW s \in Seq(S), Distinct(s)
  PROVE  Cardinality(Elems(s)) = Len(s)
<1> DEFINE E == Elems(s)
<1>1. Len(s) \in Nat /\ DOMAIN s = 1 .. Len(s)
  OBVIOUS
<1>2. s \in [1 .. Len(s) -> E]
  <2>1. s \in [1 .. Len(s) -> S]
    OBVIOUS
  <2>2. \A i \in 1 .. Len(s) : s[i] \in E
    BY <1>1 DEF Elems
  <2> HIDE DEF E
  <2> QED BY <2>1, <2>2
<1>3. s \in Injection(1 .. Len(s), E)
  BY <1>1, <1>2 DEF Injection, IsInjective, Distinct
<1>4. \A t \in E : \E i \in 1 .. Len(s) : s[i] = t
  BY <1>1 DEF Elems
<1>5. s \in Surjection(1 .. Len(s), E)
  BY <1>2, <1>4 DEF Surjection
<1>6. ExistsBijection(1 .. Len(s), E)
  BY <1>3, <1>5 DEF ExistsBijection, Bijection
<1> HIDE DEF E
<1> QED BY <1>1, <1>6, FS_CountingElements DEF E

\* A sequence, its tail and its extension, as functions.
LEMMA AsFunctions ==
  ASSUME NEW S, NEW s \in Seq(S)
  PROVE  /\ s # <<>> => Tail(s) = [k \in 1 .. Len(s) - 1 |-> s[k + 1]]
         /\ \A x \in S : Append(s, x) = [k \in 1 .. Len(s) + 1 |-> IF k = Len(s) + 1 THEN x ELSE s[k]]
<1>1. ASSUME s # <<>> PROVE Tail(s) = [k \in 1 .. Len(s) - 1 |-> s[k + 1]]
  <2> DEFINE t == [k \in 1 .. Len(s) - 1 |-> s[k + 1]]
  <2>1. /\ Len(s) \in Nat \ {0} /\ Tail(s) \in Seq(S) /\ Len(Tail(s)) = Len(s) - 1
        /\ \A i \in 1 .. Len(Tail(s)) : Tail(s)[i] = s[i + 1]
    BY <1>1, HeadTailProperties
  <2>2. t \in Seq(S) /\ Len(t) = Len(s) - 1 /\ \A i \in 1 .. Len(t) : t[i] = s[i + 1]
    BY <2>1
  <2> HIDE DEF t
  <2>3. Tail(s) = t
    BY <2>1, <2>2, SeqEqual
  <2> QED BY <2>3 DEF t
<1>2. ASSUME NEW x \in S
      PROVE  Append(s, x) = [k \in 1 .. Len(s) + 1 |-> IF k = Len(s) + 1 THEN x ELSE s[k]]
  <2> DEFINE t == [k \in 1 .. Len(s) + 1 |-> IF k = Len(s) + 1 THEN x ELSE s[k]]
  <2>1. /\ Len(s) \in Nat /\ Append(s, x) \in Seq(S) /\ Len(Append(s, x)) = Len(s) + 1
        /\ \A i \in 1 .. Len(s) : Append(s, x)[i] = s[i]
        /\ Append(s, x)[Len(s) + 1] = x
    BY AppendProperties
  <2>2. /\ t \in Seq(S) /\ Len(t) = Len(s) + 1
        /\ \A i \in 1 .. Len(s) : t[i] = s[i]
        /\ t[Len(s) + 1] = x
    BY <2>1
  <2> HIDE DEF t
  <2>3. \A i \in 1 .. Len(s) + 1 : i \in 1 .. Len(s) \/ i = Len(s) + 1
    BY <2>1
  <2>4. Append(s, x) = t
    BY <2>1, <2>2, <2>3, SeqEqual
  <2> QED BY <2>4 DEF t
<1> QED BY <1>1, <1>2

-----------------------------------------------------------------------------
(***************************************************************************)
(* Induction, and what a loop computes.                                    *)
(***************************************************************************)

\* A set of natural numbers has a least one, and a greatest if it is bounded.
LEMMA LeastNumber ==
  ASSUME NEW T, T \subseteq Nat, T # {}
  PROVE  \E x \in T : \A y \in T : x <= y
<1> DEFINE R == {p \in Nat \X Nat : p[1] < p[2]}
<1>1. IsWellFoundedOn(R, Nat)
  BY NatLessThanWellFounded DEF OpToRel
<1>2. \E x \in T : \A y \in T : ~(<<y, x>> \in R)
  <2> HIDE DEF R
  <2> QED BY <1>1, WFMin
<1>3. PICK x \in T : \A y \in T : ~(<<y, x>> \in R)
  BY <1>2
<1>4. ASSUME NEW y \in T PROVE x <= y
  <2>1. x \in Nat /\ y \in Nat /\ ~(<<y, x>> \in R)
    BY <1>3
  <2> QED BY <2>1
<1> QED BY <1>4

LEMMA GreatestNumber ==
  ASSUME NEW n \in Nat, NEW T, T \subseteq 0 .. n, T # {}
  PROVE  \E x \in T : \A y \in T : y <= x
<1> DEFINE D == {n - t : t \in T}
<1>1. D \subseteq Nat /\ D # {}
  OBVIOUS
<1>2. PICK d \in D : \A e \in D : d <= e
  <2> HIDE DEF D
  <2> QED BY <1>1, LeastNumber
<1>3. PICK x \in T : d = n - x
  OBVIOUS
<1>4. ASSUME NEW y \in T PROVE y <= x
  <2>1. n - y \in D /\ n - x <= n - y
    BY <1>2, <1>3
  <2>2. x \in 0 .. n /\ y \in 0 .. n
    OBVIOUS
  <2> QED BY <2>1, <2>2
<1> QED BY <1>4

\* Induction over the natural numbers, for a set.
LEMMA NatInd ==
  ASSUME NEW S, 0 \in S, \A n \in Nat : n \in S => n + 1 \in S
  PROVE  Nat \subseteq S
<1> SUFFICES ASSUME ~(Nat \subseteq S) PROVE FALSE
  OBVIOUS
<1> DEFINE T == Nat \ S
<1>1. T \subseteq Nat /\ T # {}
  OBVIOUS
<1>2. PICK x \in T : \A y \in T : x <= y
  <2> HIDE DEF T
  <2> QED BY <1>1, LeastNumber
<1>3. x # 0 /\ x \in Nat /\ x - 1 \in Nat /\ x - 1 < x /\ (x - 1) + 1 = x
  OBVIOUS
<1>4. x - 1 \in T
  BY <1>3
<1> QED BY <1>2, <1>3, <1>4

\* f is the sequence of states of a loop: x is the first state, and round n maps
\* a state s to g[<<n, s>>].
IsLoop(f, St, g, x, m) ==
  f \in [0 .. m -> St] /\ f[0] = x /\ \A n \in 1 .. m : f[n] = g[<<n, f[n - 1]>>]

\* A loop whose rounds map states to states has a state after every round.
LEMMA LoopExists ==
  ASSUME NEW St, NEW g \in [Nat \X St -> St], NEW x \in St, NEW m \in Nat
  PROVE  \E f : IsLoop(f, St, g, x, m)
<1> DEFINE Good(k, f) == f[0] = x /\ \A n \in 1 .. k : f[n] = g[<<n, f[n - 1]>>]
           S == {k \in Nat : \E f \in [0 .. k -> St] : Good(k, f)}
<1>1. 0 \in S
  <2>1. [n \in 0 .. 0 |-> x] \in [0 .. 0 -> St] /\ Good(0, [n \in 0 .. 0 |-> x])
    OBVIOUS
  <2> QED BY <2>1
<1>2. ASSUME NEW k \in Nat, k \in S PROVE k + 1 \in S
  <2>1. PICK f \in [0 .. k -> St] : Good(k, f)
    BY <1>2
  <2> DEFINE h == [n \in 0 .. k + 1 |-> IF n = k + 1 THEN g[<<k + 1, f[k]>>] ELSE f[n]]
  <2>2. f[k] \in St /\ g[<<k + 1, f[k]>>] \in St
    OBVIOUS
  <2>3. h \in [0 .. k + 1 -> St]
    BY <2>2
  <2>4. h[0] = x
    BY <2>1
  <2>5. ASSUME NEW n \in 1 .. k + 1 PROVE h[n] = g[<<n, h[n - 1]>>]
    <3>1. CASE n = k + 1
      <4>1. n - 1 = k /\ k \in 0 .. k + 1 /\ k # k + 1 /\ n \in 0 .. k + 1
        BY <3>1
      <4>2. h[n] = g[<<n, f[k]>>] /\ h[n - 1] = f[k]
        BY <3>1, <4>1
      <4> QED BY <4>2
    <3>2. CASE n # k + 1
      <4>1. n \in 1 .. k /\ n \in 0 .. k + 1 /\ n - 1 \in 0 .. k + 1 /\ n - 1 # k + 1
        BY <3>2
      <4>2. h[n] = f[n] /\ h[n - 1] = f[n - 1]
        BY <3>2, <4>1
      <4>3. f[n] = g[<<n, f[n - 1]>>]
        BY <4>1, <2>1
      <4> QED BY <4>2, <4>3
    <3> QED BY <3>1, <3>2
  <2>6. Good(k + 1, h)
    BY <2>4, <2>5
  <2> HIDE DEF Good, h
  <2> QED BY <2>3, <2>6
<1>3. Nat \subseteq S
  <2> HIDE DEF S
  <2> QED BY <1>1, <1>2, NatInd
<1> QED BY <1>3 DEF IsLoop

\* An index that runs at most once around the ring.
LEMMA Wraps ==
  ASSUME NEW n \in Nat \ {0}, NEW f \in 0 .. n - 1, NEW k \in 0 .. n
  PROVE  /\ (f + k) % n = IF f + k < n THEN f + k ELSE f + k - n
         /\ (f + k) % n \in 0 .. n - 1
<1>1. f + k \in 0 .. 2 * n - 1
  OBVIOUS
<1>2. ASSUME NEW x \in 0 .. 2 * n - 1 PROVE x % n = IF x < n THEN x ELSE x - n
  OBVIOUS
<1> QED BY <1>1, <1>2

-----------------------------------------------------------------------------
(***************************************************************************)
(* Remainders, which TLA+ defines by quotient and remainder.               *)
(***************************************************************************)

LEMMA SmallMultiple ==
  ASSUME NEW n \in Nat \ {0}, NEW d \in Int, n * d < n, -n < n * d
  PROVE  d = 0
<1>1. CASE d >= 1
  <2>1. PICK e \in Nat : d = e + 1
    <3>1. d - 1 \in Nat /\ d = (d - 1) + 1
      BY <1>1
    <3> QED BY <3>1
  <2>2. n * d = n * e + n /\ n * e >= 0
    BY <2>1
  <2> QED BY <2>2
<1>2. CASE d <= -1
  <2>1. PICK e \in Nat : d = -e - 1
    <3>1. -d - 1 \in Nat /\ d = -(-d - 1) - 1
      BY <1>2
    <3> QED BY <3>1
  <2>2. n * d = -(n * e) - n /\ n * e >= 0
    BY <2>1
  <2> QED BY <2>2
<1> QED BY <1>1, <1>2

LEMMA DivMod ==
  ASSUME NEW n \in Nat \ {0}, NEW x \in Int
  PROVE  x \div n \in Int /\ x % n \in 0 .. n - 1 /\ x = n * (x \div n) + (x % n)
  OBVIOUS

\* The remainder is the only number below n at a multiple of n from x.
LEMMA ModUnique ==
  ASSUME NEW n \in Nat \ {0}, NEW q \in Int, NEW r \in 0 .. n - 1
  PROVE  (n * q + r) % n = r
<1> DEFINE x == n * q + r
<1>1. x \in Int
  OBVIOUS
<1>2. x \div n \in Int /\ x % n \in 0 .. n - 1 /\ x = n * (x \div n) + (x % n)
  <2> HIDE DEF x
  <2> QED BY <1>1, DivMod
<1>3. PICK p \in Int, s \in 0 .. n - 1 : n * q + r = n * p + s /\ x % n = s
  BY <1>2
<1>4. n * (p - q) = r - s
  BY <1>3
<1>5. p - q = 0
  <2>1. p - q \in Int /\ r - s < n /\ -n < r - s
    OBVIOUS
  <2> QED BY <1>4, <2>1, SmallMultiple
<1>6. r = s
  BY <1>4, <1>5
<1> QED BY <1>3, <1>6

\* A remainder taken before an addition makes no difference.
LEMMA ModAdd ==
  ASSUME NEW n \in Nat \ {0}, NEW x \in Int, NEW y \in Int
  PROVE  ((x % n) + y) % n = (x + y) % n
<1>1. PICK a \in Int, s \in 0 .. n - 1 : x % n = s /\ x = n * a + s
  BY DivMod
<1>2. s + y \in Int
  OBVIOUS
<1>3. PICK b \in Int, r \in 0 .. n - 1 : (s + y) % n = r /\ s + y = n * b + r
  BY <1>2, DivMod
<1>4. x + y = n * (a + b) + r
  BY <1>1, <1>3
<1>5. a + b \in Int /\ (n * (a + b) + r) % n = r
  BY ModUnique
<1> QED BY <1>1, <1>3, <1>4, <1>5

\* Nor does a remainder by a multiple of the divisor.
LEMMA ModMod ==
  ASSUME NEW m \in Nat \ {0}, NEW n \in Nat \ {0}, NEW x \in Int
  PROVE  m % n = 0 => (x % m) % n = x % n
<1>1. ASSUME NEW y \in Int PROVE \E b \in Int, r \in 0 .. n - 1 : y % n = r /\ y = n * b + r
  BY DivMod
<1>2. PICK a \in Int, s \in 0 .. m - 1 : x % m = s /\ x = m * a + s
  BY DivMod
<1>3. PICK b \in Int, r \in 0 .. n - 1 : s % n = r /\ s = n * b + r
  <2>1. s \in Int
    OBVIOUS
  <2> QED BY <1>1, <2>1
<1> HAVE m % n = 0
<1>4. PICK c \in Int : m = n * c
  BY DivMod
<1>5. x = n * (c * a + b) + r
  <2>1. \A i, j, k \in Int : (i * j) * k = i * (j * k)
    OBVIOUS
  <2>2. \A i, j, k \in Int : i * (j + k) = i * j + i * k
    OBVIOUS
  <2>3. PICK e \in Int : e = c * a
    OBVIOUS
  <2>4. m * a = n * e
    BY <1>4, <2>1, <2>3
  <2>5. n * (e + b) = n * e + n * b
    BY <2>2
  <2> QED BY <1>2, <1>3, <2>3, <2>4, <2>5
<1>6. c * a + b \in Int
  OBVIOUS
<1>7. (n * (c * a + b) + r) % n = r
  BY <1>6, ModUnique
<1> QED BY <1>2, <1>3, <1>5, <1>7

\* A number and the one n further have the same remainder.
LEMMA ModPeriod ==
  ASSUME NEW n \in Nat \ {0}, NEW x \in Int
  PROVE  (x + n) % n = x % n
<1>1. PICK a \in Int, r \in 0 .. n - 1 : x % n = r /\ x = n * a + r
  BY DivMod
<1>2. x + n = n * (a + 1) + r /\ a + 1 \in Int
  BY <1>1
<1>3. (n * (a + 1) + r) % n = r
  BY <1>2, ModUnique
<1> QED BY <1>1, <1>2, <1>3

\* Numbers closer than n with the same remainder are equal.
LEMMA ModSame ==
  ASSUME NEW n \in Nat \ {0}, NEW x \in Int, NEW y \in Int, x % n = y % n, x - y < n, -n < x - y
  PROVE  x = y
<1>1. PICK a \in Int, s \in 0 .. n - 1 : x % n = s /\ x = n * a + s
  BY DivMod
<1>2. PICK b \in Int : y = n * b + s
  BY <1>1, DivMod
<1>3. n * (a - b) = x - y /\ a - b \in Int
  BY <1>1, <1>2
<1>4. a - b = 0
  BY <1>3, SmallMultiple
<1> QED BY <1>3, <1>4

-----------------------------------------------------------------------------
(***************************************************************************)
(* Filtering a list.                                                       *)
(***************************************************************************)

\* The prefixes of Without(s, S), as one function of their length.
KeptStep(h, s, S) ==
  [i \in 0 .. Len(s) |-> IF i = 0 THEN <<>>
                         ELSE IF s[i] \in S THEN h[i - 1] ELSE Append(h[i - 1], s[i])]

\* mtlk_sq_peer_ctx_cleanup takes contexts out of the list of a category.
LEMMA WithoutElems ==
  ASSUME NEW T, NEW s \in Seq(T), NEW S
  PROVE  /\ Without(s, S) \in Seq(T)
         /\ Elems(Without(s, S)) = Elems(s) \ S
         /\ Distinct(s) => Distinct(Without(s, S))
<1> DEFINE n == Len(s)
           g == [p \in Nat \X Seq(T) |-> IF p[1] \in 1 .. n /\ s[p[1]] \notin S
                                         THEN Append(p[2], s[p[1]]) ELSE p[2]]
           h == CHOOSE f : f = KeptStep(f, s, S)
<1>1. n \in Nat /\ DOMAIN s = 1 .. n /\ \A i \in 1 .. n : s[i] \in T
  OBVIOUS
<1>2. Without(s, S) = h[n]
  BY DEF Without, KeptStep
<1>3. h = KeptStep(h, s, S)
  <2>1. g \in [Nat \X Seq(T) -> Seq(T)]
    OBVIOUS
  <2>2. PICK f : IsLoop(f, Seq(T), g, <<>>, n)
    <3> HIDE DEF g, n
    <3>1. <<>> \in Seq(T)
      OBVIOUS
    <3> QED BY <1>1, <2>1, <3>1, LoopExists
  <2>3. f \in [0 .. n -> Seq(T)] /\ f[0] = <<>> /\ \A i \in 1 .. n : f[i] = g[<<i, f[i - 1]>>]
    BY <2>2 DEF IsLoop
  <2>4. ASSUME NEW i \in 0 .. n PROVE f[i] = KeptStep(f, s, S)[i]
    <3>1. CASE i = 0
      BY <3>1, <2>3 DEF KeptStep
    <3>2. CASE i # 0
      <4>1. i \in 1 .. n /\ f[i - 1] \in Seq(T)
        BY <2>3, <3>2
      <4>2. g[<<i, f[i - 1]>>] = IF s[i] \notin S THEN Append(f[i - 1], s[i]) ELSE f[i - 1]
        BY <4>1
      <4> QED BY <2>3, <3>2, <4>1, <4>2 DEF KeptStep
    <3> QED BY <3>1, <3>2
  <2>5. f = KeptStep(f, s, S)
    BY <2>3, <2>4 DEF KeptStep
  <2> QED BY <2>5
<1> HIDE DEF h, g
<1> DEFINE Upto(i) == {s[j] : j \in 1 .. i} \ S
           N == {i \in Nat : i <= n => /\ h[i] \in Seq(T) /\ Elems(h[i]) = Upto(i)
                                       /\ Distinct(s) => Distinct(h[i])}
<1>4. 0 \in N
  <2>1. h[0] = <<>>
    BY <1>1, <1>3 DEF KeptStep
  <2>2. <<>> \in Seq(T) /\ Elems(<<>>) = {} /\ Distinct(<<>>)
    BY DEF Elems, Distinct
  <2>3. Upto(0) = {}
    OBVIOUS
  <2> HIDE DEF Upto
  <2> QED BY <2>1, <2>2, <2>3
<1>5. ASSUME NEW i \in Nat, i \in N PROVE i + 1 \in N
  <2> SUFFICES ASSUME i + 1 <= n
               PROVE  /\ h[i + 1] \in Seq(T) /\ Elems(h[i + 1]) = Upto(i + 1)
                      /\ Distinct(s) => Distinct(h[i + 1])
    OBVIOUS
  <2>1. /\ h[i] \in Seq(T) /\ Elems(h[i]) = Upto(i)
        /\ Distinct(s) => Distinct(h[i])
        /\ i + 1 \in 1 .. n /\ i + 1 \in 0 .. n /\ i + 1 # 0
    BY <1>1, <1>5
  <2>2. h[i + 1] = IF s[i + 1] \in S THEN h[i] ELSE Append(h[i], s[i + 1])
    <3>1. KeptStep(h, s, S)[i + 1] = IF s[i + 1] \in S THEN h[i] ELSE Append(h[i], s[i + 1])
      BY <2>1 DEF KeptStep
    <3> QED BY <1>3, <3>1
  <2>3. {s[j] : j \in 1 .. i + 1} = {s[j] : j \in 1 .. i} \cup {s[i + 1]}
    <3>1. \A j \in 1 .. i + 1 : j \in 1 .. i \/ j = i + 1
      OBVIOUS
    <3>2. \A j \in 1 .. i : j \in 1 .. i + 1
      OBVIOUS
    <3> QED BY <2>1, <3>1, <3>2
  <2>4. CASE s[i + 1] \in S
    BY <2>1, <2>2, <2>3, <2>4
  <2>5. CASE s[i + 1] \notin S
    <3>1. s[i + 1] \in T
      BY <1>1, <2>1
    <3>2. /\ Append(h[i], s[i + 1]) \in Seq(T)
          /\ Elems(Append(h[i], s[i + 1])) = Elems(h[i]) \cup {s[i + 1]}
          /\ Distinct(h[i]) /\ s[i + 1] \notin Elems(h[i]) => Distinct(Append(h[i], s[i + 1]))
      BY <2>1, <3>1, AppendElems, Zenon
    <3>3. Distinct(s) => s[i + 1] \notin Elems(h[i])
      BY <1>1, <2>1 DEF Distinct
    <3>4. Upto(i + 1) = Upto(i) \cup {s[i + 1]}
      BY <2>3, <2>5
    <3> HIDE DEF Upto
    <3> QED BY <2>1, <2>2, <2>5, <3>2, <3>3, <3>4
  <2> QED BY <2>4, <2>5
<1>6. Nat \subseteq N
  <2> HIDE DEF N
  <2> QED BY <1>4, <1>5, NatInd
<1>7. h[n] \in Seq(T) /\ Elems(h[n]) = Upto(n) /\ (Distinct(s) => Distinct(h[n]))
  <2> HIDE DEF Upto
  <2>1. n \in N
    BY <1>1, <1>6
  <2> QED BY <1>1, <2>1
<1>8. Upto(n) = Elems(s) \ S
  BY <1>1 DEF Elems
<1> QED BY <1>2, <1>7, <1>8

-----------------------------------------------------------------------------
(***************************************************************************)
(* Counting the packets of a list.                                         *)
(***************************************************************************)
\* The count of any list is a number, and 0 for a packet that is not in it.
LEMMA CountType ==
  ASSUME NEW T, NEW s \in Seq(T), NEW p
  PROVE  /\ IsFiniteSet({i \in DOMAIN s : s[i] = p})
         /\ Count(s, p) \in Nat
         /\ Count(s, p) = 0 <=> p \notin Elems(s)
<1> DEFINE I == {i \in DOMAIN s : s[i] = p}
<1>1. DOMAIN s = 1 .. Len(s) /\ Len(s) \in Nat
  BY Domain
<1>2. IsFiniteSet(DOMAIN s)
  BY <1>1, FS_Interval
<1>3. IsFiniteSet(I)
  BY <1>2, FS_Subset
<1>4. Cardinality(I) \in Nat /\ (Cardinality(I) = 0 <=> I = {})
  BY <1>3, FS_CardinalityType, FS_EmptySet
<1>5. I = {} <=> p \notin Elems(s)
  BY DEF Elems
<1> QED BY <1>3, <1>4, <1>5 DEF Count

LEMMA CountEmpty ==
  ASSUME NEW p
  PROVE  Count(<<>>, p) = 0
<1>1. {i \in DOMAIN <<>> : <<>>[i] = p} = {}
  OBVIOUS
<1> QED BY <1>1, FS_EmptySet DEF Count

\* A packet at the end of a list.
LEMMA CountAppend ==
  ASSUME NEW T, NEW s \in Seq(T), NEW x \in T, NEW p
  PROVE  Count(Append(s, x), p) = Count(s, p) + IF x = p THEN 1 ELSE 0
<1> DEFINE n == Len(s)
           I == {i \in DOMAIN s : s[i] = p}
           t == Append(s, x)
           J == {i \in DOMAIN t : t[i] = p}
<1>1. /\ n \in Nat /\ DOMAIN s = 1 .. n /\ DOMAIN t = 1 .. n + 1
      /\ t[n + 1] = x /\ \A i \in 1 .. n : t[i] = s[i]
  OBVIOUS
<1>2. IsFiniteSet(I) /\ Cardinality(I) \in Nat
  BY CountType, FS_CardinalityType
<1>3. n + 1 \notin I
  BY <1>1
<1> HIDE DEF t
<1>4. CASE x = p
  <2>1. J = I \cup {n + 1}
    BY <1>1, <1>4
  <2>2. Cardinality(I \cup {n + 1}) = Cardinality(I) + 1
    <3> HIDE DEF I
    <3> QED BY <1>2, <1>3, FS_AddElement
  <2> QED BY <1>4, <2>1, <2>2 DEF Count, t
<1>5. CASE x # p
  <2>1. J = I
    BY <1>1, <1>5
  <2>2. Count(Append(s, x), p) = Count(s, p) /\ Count(s, p) \in Nat
    BY <1>2, <2>1 DEF Count, t
  <2> QED BY <1>5, <2>2
<1> QED BY <1>4, <1>5

\* A list t with one packet more in front.
LEMMA CountShift ==
  ASSUME NEW T, NEW t \in Seq(T), NEW u \in Seq(T), Len(u) = Len(t) + 1,
         \A i \in 1 .. Len(t) : u[i + 1] = t[i], NEW p
  PROVE  Count(u, p) = Count(t, p) + IF u[1] = p THEN 1 ELSE 0
<1> DEFINE n == Len(t)
           I == {i \in DOMAIN t : t[i] = p}
           J == {i \in DOMAIN u : u[i] = p} \ {1}
           h == [i \in I |-> i + 1]
<1>1. n \in Nat /\ DOMAIN t = 1 .. n /\ DOMAIN u = 1 .. n + 1
  OBVIOUS
<1>2. IsFiniteSet(I) /\ Cardinality(I) \in Nat
  <2>1. IsFiniteSet(I)
    BY CountType, Zenon
  <2> HIDE DEF I
  <2> QED BY <2>1, FS_CardinalityType
<1>3. h \in [I -> J]
  BY <1>1
<1>4. \A i, j \in I : h[i] = h[j] => i = j
  BY <1>1
<1>5. \A j \in J : \E i \in I : h[i] = j
  <2> TAKE j \in J
  <2>1. j \in 1 .. n + 1 /\ j # 1 /\ u[j] = p
    BY <1>1
  <2>2. j - 1 \in 1 .. n /\ (j - 1) + 1 = j
    BY <1>1, <2>1
  <2>3. t[j - 1] = p
    BY <2>1, <2>2
  <2>4. j - 1 \in I
    BY <1>1, <2>2, <2>3
  <2> QED BY <2>2, <2>4
<1>6. h \in Bijection(I, J)
  BY <1>3, <1>4, <1>5 DEF Bijection, Injection, Surjection, IsInjective
<1>7. IsFiniteSet(J) /\ Cardinality(J) = Cardinality(I)
  <2> HIDE DEF h, I, J
  <2> QED BY <1>2, <1>6, FS_Bijection DEF ExistsBijection
<1>8. CASE u[1] = p
  <2>1. {i \in DOMAIN u : u[i] = p} = J \cup {1}
    BY <1>1, <1>8
  <2>2. Cardinality(J \cup {1}) = Cardinality(J) + 1
    BY <1>7, FS_AddElement
  <2> QED BY <1>7, <1>8, <2>1, <2>2 DEF Count
<1>9. CASE u[1] # p
  <2>1. {i \in DOMAIN u : u[i] = p} = J
    BY <1>1, <1>9
  <2>2. Count(u, p) = Count(t, p) /\ Count(t, p) \in Nat
    BY <1>2, <1>7, <2>1 DEF Count
  <2> QED BY <1>9, <2>2
<1> QED BY <1>8, <1>9

\* An urgent packet at the front of a list.
LEMMA CountFront ==
  ASSUME NEW T, NEW s \in Seq(T), NEW x \in T, NEW p
  PROVE  /\ <<x>> \o s \in Seq(T)
         /\ Len(<<x>> \o s) = Len(s) + 1
         /\ Elems(<<x>> \o s) = Elems(s) \cup {x}
         /\ Count(<<x>> \o s, p) = Count(s, p) + IF x = p THEN 1 ELSE 0
<1> DEFINE u == <<x>> \o s
<1>1. /\ u \in Seq(T) /\ Len(u) = Len(s) + 1 /\ u[1] = x
      /\ \A i \in 1 .. Len(s) : u[i + 1] = s[i]
      /\ Len(s) \in Nat /\ DOMAIN s = 1 .. Len(s) /\ DOMAIN u = 1 .. Len(s) + 1
  OBVIOUS
<1> HIDE DEF u
<1>2. Count(u, p) = Count(s, p) + IF x = p THEN 1 ELSE 0
  BY <1>1, CountShift
<1>3. Elems(u) = Elems(s) \cup {x}
  <2>1. \A j \in DOMAIN u : j = 1 \/ (j - 1 \in DOMAIN s /\ u[j] = s[j - 1])
    <3> TAKE j \in DOMAIN u
    <3>1. j = 1 \/ (j - 1 \in 1 .. Len(s) /\ (j - 1) + 1 = j)
      BY <1>1
    <3> QED BY <1>1, <3>1
  <2>2. \A i \in DOMAIN s : i + 1 \in DOMAIN u /\ u[i + 1] = s[i]
    BY <1>1
  <2>3. 1 \in DOMAIN u
    BY <1>1
  <2> QED BY <1>1, <2>1, <2>2, <2>3 DEF Elems
<1> QED BY <1>1, <1>2, <1>3 DEF u

\* The same of the elements alone.
LEMMA FrontElems ==
  ASSUME NEW T, NEW s \in Seq(T), NEW x \in T
  PROVE  <<x>> \o s \in Seq(T) /\ Elems(<<x>> \o s) = Elems(s) \cup {x}
<1>1. \A p : /\ <<x>> \o s \in Seq(T) /\ Elems(<<x>> \o s) = Elems(s) \cup {x}
             /\ Count(<<x>> \o s, p) = Count(s, p) + IF x = p THEN 1 ELSE 0
  BY CountFront
<1> QED BY <1>1

\* The first packet leaves a list.
LEMMA CountTail ==
  ASSUME NEW T, NEW s \in Seq(T), s # <<>>, NEW p
  PROVE  /\ Tail(s) \in Seq(T) /\ Head(s) \in T /\ Head(s) \in Elems(s)
         /\ Len(Tail(s)) = Len(s) - 1
         /\ Elems(Tail(s)) \subseteq Elems(s)
         /\ Count(s, p) = Count(Tail(s), p) + IF Head(s) = p THEN 1 ELSE 0
<1> DEFINE t == Tail(s)
<1>1. /\ t \in Seq(T) /\ Len(s) = Len(t) + 1 /\ Head(s) = s[1] /\ Head(s) \in T
      /\ \A i \in 1 .. Len(t) : s[i + 1] = t[i]
      /\ Len(t) \in Nat /\ DOMAIN t = 1 .. Len(t) /\ DOMAIN s = 1 .. Len(t) + 1
  OBVIOUS
<1> HIDE DEF t
<1>2. Count(s, p) = Count(t, p) + IF s[1] = p THEN 1 ELSE 0
  BY <1>1, CountShift
<1>3. Elems(t) \subseteq Elems(s)
  <2>1. \A i \in DOMAIN t : i + 1 \in DOMAIN s /\ s[i + 1] = t[i]
    BY <1>1
  <2> QED BY <2>1 DEF Elems
<1>4. s[1] \in Elems(s)
  BY <1>1 DEF Elems
<1> QED BY <1>1, <1>2, <1>3, <1>4 DEF t

-----------------------------------------------------------------------------
(***************************************************************************)
(* Sums.  A sum of natural numbers is counted with dots, one for each      *)
(* unit of each term, so that it does not depend on the order in which the *)
(* terms are added.                                                        *)
(***************************************************************************)

\* One dot for every unit of every f[x], x in T.
Dots(f, T) == {p \in T \X Nat : p[2] \in 1 .. f[p[1]]}

\* The equation that defines the sum of f over the subsets of S.
SumStep(g, f, S) ==
  [s \in SUBSET S |-> IF s = {} THEN 0
                      ELSE f[CHOOSE x \in s : TRUE] + g[s \ {CHOOSE x \in s : TRUE}]]

\* The dots of one term.
LEMMA DotsOfOne ==
  ASSUME NEW x, NEW k \in Nat
  PROVE  IsFiniteSet({x} \X (1 .. k)) /\ Cardinality({x} \X (1 .. k)) = k
<1> DEFINE T == {x} \X (1 .. k)
           h == [i \in 1 .. k |-> <<x, i>>]
<1>1. IsFiniteSet(1 .. k) /\ Cardinality(1 .. k) = k
  BY FS_Interval
<1>2. h \in [1 .. k -> T]
  OBVIOUS
<1>3. \A i, j \in 1 .. k : h[i] = h[j] => i = j
  OBVIOUS
<1>4. \A t \in T : \E i \in 1 .. k : h[i] = t
  <2> TAKE t \in T
  <2>1. t[2] \in 1 .. k /\ t = <<x, t[2]>>
    OBVIOUS
  <2> QED BY <2>1
<1>5. h \in Bijection(1 .. k, T)
  BY <1>2, <1>3, <1>4 DEF Bijection, Injection, Surjection, IsInjective
<1>6. ExistsBijection(1 .. k, T)
  <2> HIDE DEF h, T
  <2> QED BY <1>5 DEF ExistsBijection
<1> HIDE DEF T
<1> QED BY <1>1, <1>6, FS_Bijection DEF T

\* The dots of one term more.
LEMMA DotsAdd ==
  ASSUME NEW S, NEW f \in [S -> Nat], NEW T \in SUBSET S, NEW x \in T,
         IsFiniteSet(Dots(f, T \ {x}))
  PROVE  /\ IsFiniteSet(Dots(f, T))
         /\ Cardinality(Dots(f, T)) = f[x] + Cardinality(Dots(f, T \ {x}))
<1> DEFINE A == {x} \X (1 .. f[x])
           B == Dots(f, T \ {x})
<1>1. f[x] \in Nat /\ IsFiniteSet(A) /\ Cardinality(A) = f[x]
  BY DotsOfOne
<1>2. A \cap B = {}
  BY DEF Dots
<1>3. Dots(f, T) = A \cup B
  BY DEF Dots
<1>4. Cardinality(B) \in Nat
  BY FS_CardinalityType
<1>5. /\ IsFiniteSet(A \cup B)
      /\ Cardinality(A \cup B) = Cardinality(A) + Cardinality(B) - Cardinality(A \cap B)
  <2> HIDE DEF A, B
  <2> QED BY <1>1, FS_Union DEF B
<1>6. Cardinality(A \cap B) = 0
  BY <1>2, FS_EmptySet
<1> HIDE DEF A, B
<1> QED BY <1>1, <1>3, <1>4, <1>5, <1>6 DEF B

\* Finitely many terms have finitely many dots.
LEMMA DotsFinite ==
  ASSUME NEW S, IsFiniteSet(S), NEW f \in [S -> Nat], NEW T \in SUBSET S
  PROVE  IsFiniteSet(Dots(f, T)) /\ Cardinality(Dots(f, T)) \in Nat
<1> DEFINE N == {n \in Nat : \A U \in SUBSET S : Cardinality(U) = n => IsFiniteSet(Dots(f, U))}
<1>0. \A U \in SUBSET S : IsFiniteSet(U) /\ Cardinality(U) \in Nat
  BY FS_Subset, FS_CardinalityType
<1>1. 0 \in N
  <2> SUFFICES ASSUME NEW U \in SUBSET S, Cardinality(U) = 0 PROVE IsFiniteSet(Dots(f, U))
    OBVIOUS
  <2>1. U = {}
    BY <1>0, FS_EmptySet
  <2>2. Dots(f, U) = {}
    BY <2>1 DEF Dots
  <2> QED BY <2>2, FS_EmptySet
<1>2. ASSUME NEW n \in Nat, n \in N PROVE n + 1 \in N
  <2> SUFFICES ASSUME NEW U \in SUBSET S, Cardinality(U) = n + 1 PROVE IsFiniteSet(Dots(f, U))
    OBVIOUS
  <2>1. U # {}
    BY FS_EmptySet
  <2>2. PICK x \in U : TRUE
    BY <2>1
  <2>3. Cardinality(U \ {x}) = n
    <3> HIDE DEF N
    <3>1. IsFiniteSet(U)
      BY <1>0
    <3>2. Cardinality(U \ {x}) = Cardinality(U) - 1
      BY <3>1, FS_RemoveElement, Zenon
    <3> QED BY <3>2
  <2>4. IsFiniteSet(Dots(f, U \ {x}))
    BY <1>2, <2>3
  <2> QED BY <2>4, DotsAdd
<1>3. Nat \subseteq N
  <2> HIDE DEF N
  <2> QED BY <1>1, <1>2, NatInd
<1> QED BY <1>0, <1>3, FS_CardinalityType

\* SumFunction counts dots.
LEMMA SumIsDots ==
  ASSUME NEW S, IsFiniteSet(S), NEW f \in [S -> Nat]
  PROVE  SumFunction(f) = Cardinality(Dots(f, S))
<1> DEFINE w == [s \in SUBSET S |-> Cardinality(Dots(f, s))]
           g == CHOOSE h : h = SumStep(h, f, S)
<1>0. \A U \in SUBSET S : IsFiniteSet(U) /\ Cardinality(U) \in Nat
  BY FS_Subset, FS_CardinalityType
<1>1. SumFunction(f) = g[S]
  BY DEF SumFunction, SumFunctionOnSet, FoldFunctionOnSet, MapThenFoldSet, SumStep
<1>2. w = SumStep(w, f, S)
  <2>1. ASSUME NEW s \in SUBSET S, s = {} PROVE w[s] = 0
    <3>1. Dots(f, s) = {}
      BY <2>1 DEF Dots
    <3> QED BY <3>1, FS_EmptySet
  <2>2. ASSUME NEW s \in SUBSET S, s # {}
        PROVE  w[s] = f[CHOOSE x \in s : TRUE] + w[s \ {CHOOSE x \in s : TRUE}]
    <3>1. PICK x \in s : x = CHOOSE y \in s : TRUE
      BY <2>2
    <3>2. s \ {x} \in SUBSET S
      OBVIOUS
    <3>3. IsFiniteSet(Dots(f, s \ {x}))
      BY <3>2, DotsFinite
    <3>4. Cardinality(Dots(f, s)) = f[x] + Cardinality(Dots(f, s \ {x}))
      BY <3>3, DotsAdd
    <3>5. w[s] = f[x] + w[s \ {x}]
      BY <3>2, <3>4
    <3> QED BY <3>1, <3>5
  <2> HIDE DEF w
  <2>3. \A s \in SUBSET S : w[s] = SumStep(w, f, S)[s]
    BY <2>1, <2>2 DEF SumStep
  <2>4. w = [s \in SUBSET S |-> w[s]]
    BY DEF w
  <2> QED BY <2>3, <2>4 DEF SumStep
<1>3. g = SumStep(g, f, S)
  <2> HIDE DEF w
  <2> QED BY <1>2
<1> HIDE DEF g, w
<1> DEFINE N == {n \in Nat : \A U \in SUBSET S : Cardinality(U) = n => g[U] = w[U]}
<1>4. 0 \in N
  <2> SUFFICES ASSUME NEW U \in SUBSET S, Cardinality(U) = 0 PROVE g[U] = w[U]
    OBVIOUS
  <2>1. U = {}
    BY <1>0, FS_EmptySet
  <2>2. SumStep(g, f, S)[U] = 0 /\ SumStep(w, f, S)[U] = 0
    BY <2>1 DEF SumStep
  <2> QED BY <2>2, <1>2, <1>3
<1>5. ASSUME NEW n \in Nat, n \in N PROVE n + 1 \in N
  <2> SUFFICES ASSUME NEW U \in SUBSET S, Cardinality(U) = n + 1 PROVE g[U] = w[U]
    OBVIOUS
  <2>1. U # {}
    BY FS_EmptySet
  <2>2. PICK x \in U : x = CHOOSE y \in U : TRUE
    BY <2>1
  <2>3. Cardinality(U \ {x}) = n
    <3>1. IsFiniteSet(U) /\ x \in U
      BY <1>0
    <3>2. Cardinality(U \ {x}) = Cardinality(U) - 1
      BY <3>1, FS_RemoveElement
    <3> QED BY <3>2
  <2>4. g[U \ {x}] = w[U \ {x}]
    BY <1>5, <2>3
  <2>5. /\ SumStep(g, f, S)[U] = f[x] + g[U \ {x}]
        /\ SumStep(w, f, S)[U] = f[x] + w[U \ {x}]
    BY <2>1, <2>2 DEF SumStep
  <2>6. g[U] = f[x] + g[U \ {x}] /\ w[U] = f[x] + w[U \ {x}]
    BY <2>5, <1>2, <1>3
  <2> QED BY <2>4, <2>6
<1>6. Nat \subseteq N
  <2> HIDE DEF N
  <2> QED BY <1>4, <1>5, NatInd
<1>7. g[S] = w[S]
  BY <1>0, <1>6
<1> QED BY <1>1, <1>7 DEF w

\* A sum is one term and the dots of the others.
LEMMA SumSplit ==
  ASSUME NEW S, IsFiniteSet(S), NEW f \in [S -> Nat], NEW x \in S
  PROVE  /\ SumFunction(f) = f[x] + Cardinality(Dots(f, S \ {x}))
         /\ Cardinality(Dots(f, S \ {x})) \in Nat
<1>1. S \ {x} \in SUBSET S
  OBVIOUS
<1>2. IsFiniteSet(Dots(f, S \ {x})) /\ Cardinality(Dots(f, S \ {x})) \in Nat
  BY <1>1, DotsFinite
<1> QED BY <1>2, DotsAdd, SumIsDots

\* No term is larger than the sum.
LEMMA SumBounds ==
  ASSUME NEW S, IsFiniteSet(S), NEW f \in [S -> Nat]
  PROVE  SumFunction(f) \in Nat /\ \A x \in S : f[x] <= SumFunction(f)
<1>1. SumFunction(f) \in Nat
  BY SumIsDots, DotsFinite
<1>2. ASSUME NEW x \in S PROVE f[x] <= SumFunction(f)
  <2>1. f[x] \in Nat
    OBVIOUS
  <2>2. /\ SumFunction(f) = f[x] + Cardinality(Dots(f, S \ {x}))
        /\ Cardinality(Dots(f, S \ {x})) \in Nat
    BY SumSplit
  <2> QED BY <2>1, <2>2
<1> QED BY <1>1, <1>2

\* Nothing adds up to nothing.
LEMMA SumZero ==
  ASSUME NEW S, IsFiniteSet(S), NEW f \in [S -> Nat], \A x \in S : f[x] = 0
  PROVE  SumFunction(f) = 0
<1>1. Dots(f, S) = {}
  BY DEF Dots
<1> QED BY <1>1, SumIsDots, FS_EmptySet

\* Changing one term changes the sum by as much.
LEMMA SumUpdate ==
  ASSUME NEW S, IsFiniteSet(S), NEW f \in [S -> Nat], NEW g \in [S -> Nat], NEW x \in S,
         \A y \in S \ {x} : g[y] = f[y]
  PROVE  SumFunction(g) + f[x] = SumFunction(f) + g[x]
<1>1. Dots(g, S \ {x}) = Dots(f, S \ {x})
  BY DEF Dots
<1>2. /\ SumFunction(f) = f[x] + Cardinality(Dots(f, S \ {x}))
      /\ SumFunction(g) = g[x] + Cardinality(Dots(f, S \ {x}))
      /\ Cardinality(Dots(f, S \ {x})) \in Nat
  BY <1>1, SumSplit
<1>3. f[x] \in Nat /\ g[x] \in Nat
  OBVIOUS
<1> QED BY <1>2, <1>3

\* A sum of one term.
LEMMA SumOne ==
  ASSUME NEW x, NEW f \in [{x} -> Nat]
  PROVE  SumFunction(f) = f[x]
<1>1. IsFiniteSet({x}) /\ {x} \ {x} = {} /\ f[x] \in Nat
  BY FS_Singleton
<1>2. Dots(f, {}) = {}
  BY DEF Dots
<1>3. SumFunction(f) = f[x] + Cardinality(Dots(f, {x} \ {x}))
  BY <1>1, SumSplit
<1> QED BY <1>1, <1>2, <1>3, FS_EmptySet

\* Terms that are 0 can be left out.
LEMMA SumRestrict ==
  ASSUME NEW S, IsFiniteSet(S), NEW T \in SUBSET S, NEW f \in [S -> Nat], NEW g \in [T -> Nat],
         \A x \in T : g[x] = f[x], \A x \in S \ T : f[x] = 0
  PROVE  SumFunction(g) = SumFunction(f)
<1>1. Dots(f, S) = Dots(g, T)
  BY DEF Dots
<1>2. IsFiniteSet(T)
  BY FS_Subset
<1> QED BY <1>1, <1>2, SumIsDots

\* A sum with one term that may not be 0.
LEMMA SumOnly ==
  ASSUME NEW S, IsFiniteSet(S), NEW f \in [S -> Nat], NEW x \in S, \A y \in S \ {x} : f[y] = 0
  PROVE  SumFunction(f) = f[x]
<1>1. PICK g : g = [y \in {x} |-> f[y]]
  OBVIOUS
<1>2. g \in [{x} -> Nat] /\ g[x] = f[x] /\ \A y \in {x} : g[y] = f[y]
  BY <1>1
<1>3. SumFunction(g) = f[x]
  BY <1>2, SumOne
<1>4. {x} \in SUBSET S
  OBVIOUS
<1>5. SumFunction(g) = SumFunction(f)
  BY <1>2, <1>4, SumRestrict
<1> QED BY <1>3, <1>5


\* The first context of a list goes to its end.
LEMMA RotateElems ==
  ASSUME NEW S, NEW s \in Seq(S), s # <<>>, Distinct(s)
  PROVE  /\ Tail(s) \o <<Head(s)>> \in Seq(S)
         /\ Elems(Tail(s) \o <<Head(s)>>) = Elems(s)
         /\ Distinct(Tail(s) \o <<Head(s)>>)
<1>1. PICK t : t = Tail(s)
  OBVIOUS
<1>2. PICK x : x = Head(s)
  OBVIOUS
<1>3. /\ x \in S /\ x \in Elems(s) /\ t \in Seq(S)
      /\ Elems(t) = Elems(s) \ {x} /\ Distinct(t)
  BY <1>1, <1>2, TailElems
<1>4. Append(t, x) \in Seq(S) /\ Elems(Append(t, x)) = Elems(s) /\ Distinct(Append(t, x))
  <2>1. x \notin Elems(t) /\ Elems(t) \cup {x} = Elems(s)
    BY <1>3
  <2>2. Append(t, x) \in Seq(S) /\ Elems(Append(t, x)) = Elems(t) \cup {x} /\ Distinct(Append(t, x))
    <3>1. t \in Seq(S) /\ x \in S /\ Distinct(t)
      BY <1>3
    <3>2. /\ Append(t, x) \in Seq(S) /\ Elems(Append(t, x)) = Elems(t) \cup {x}
          /\ (Distinct(t) /\ x \notin Elems(t)) => Distinct(Append(t, x))
      BY <3>1, AppendElems
    <3> QED BY <2>1, <3>1, <3>2
  <2> QED BY <2>1, <2>2
<1>5. t \o <<x>> = Append(t, x)
  BY <1>3
<1> QED BY <1>1, <1>2, <1>4, <1>5


\* mtlk_dlist_push_front
LEMMA FrontDistinct ==
  ASSUME NEW S, NEW s \in Seq(S), NEW x \in S, Distinct(s), x \notin Elems(s)
  PROVE  Distinct(<<x>> \o s)
<1>1. PICK t : t = <<x>> \o s
  OBVIOUS
<1>2. /\ t \in Seq(S) /\ Len(t) = Len(s) + 1 /\ t[1] = x
      /\ \A i \in 2 .. Len(s) + 1 : t[i] = s[i - 1]
  BY <1>1
<1>3. ASSUME NEW i \in DOMAIN t, i # 1 PROVE i - 1 \in DOMAIN s /\ t[i] = s[i - 1] /\ t[i] \in Elems(s)
  BY <1>2, <1>3 DEF Elems
<1>4. ASSUME NEW i \in DOMAIN t, NEW j \in DOMAIN t, t[i] = t[j] PROVE i = j
  <2>1. i \in Nat /\ j \in Nat
    BY <1>2
  <2>2. CASE i = 1 /\ j = 1
    BY <2>2
  <2>3. CASE i = 1 /\ j # 1
    BY <1>2, <1>3, <1>4, <2>3
  <2>4. CASE i # 1 /\ j = 1
    BY <1>2, <1>3, <1>4, <2>4
  <2>5. CASE i # 1 /\ j # 1
    <3>1. i - 1 \in DOMAIN s /\ j - 1 \in DOMAIN s /\ s[i - 1] = s[j - 1]
      BY <1>3, <1>4, <2>5
    <3>2. i - 1 = j - 1
      BY <3>1 DEF Distinct
    <3> QED BY <2>1, <3>2
  <2> QED BY <2>2, <2>3, <2>4, <2>5
<1>5. Distinct(t)
  BY <1>4 DEF Distinct
<1> QED BY <1>1, <1>5
=============================================================================

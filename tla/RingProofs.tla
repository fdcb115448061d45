----------------------------- MODULE RingProofs -----------------------------
(***************************************************************************)
(* The ring buffer of txmm.c is coherent and implements the queue of       *)
(* TxmmFifo, for any number of blocks.                                     *)
(***************************************************************************)
EXTENDS TxmmRing, ListsProofs

-----------------------------------------------------------------------------
(***************************************************************************)
(* Positions.                                                              *)
(***************************************************************************)

\* The position k places after the first one.
Place(k) == (from + k) % N

\* The inductive invariant: to is behind the last block, and the idx of every
\* block in the ring is where it is.
RingInv ==
  /\ TypeOK
  /\ to = Place(total)
  /\ \A k \in 0 .. total - 1 : ptr[Place(k)] \in Block /\ idx[ptr[Place(k)]] = Place(k)

LEMMA SizePositive == N \in Nat \ {0}
  BY BlockAssumption, FS_CardinalityType, FS_EmptySet DEF N

\* Places, their order around the ring, and that different ones differ.
LEMMA Places ==
  ASSUME TypeOK
  PROVE  /\ N \in Nat \ {0} /\ from \in 0 .. N - 1
         /\ \A k \in 0 .. N : /\ Place(k) = IF from + k < N THEN from + k ELSE from + k - N
                              /\ Place(k) \in 0 .. N - 1
         /\ Place(0) = from /\ Place(N) = from
         /\ \A j, k \in 0 .. N - 1 : Place(j) = Place(k) => j = k
         /\ \A k \in 0 .. N - 1 : INC_WRAP_IDX(Place(k)) = Place(k + 1)
         /\ \A k \in 1 .. N : Place(k - 1) = IF Place(k) = 0 THEN N - 1 ELSE Place(k) - 1
         /\ \A i \in 0 .. N - 1 : \E k \in 0 .. N - 1 : i = Place(k)
<1>1. N \in Nat \ {0} /\ from \in 0 .. N - 1
  BY SizePositive DEF TypeOK
<1> HIDE DEF N
<1>2. \A k \in 0 .. N : /\ Place(k) = IF from + k < N THEN from + k ELSE from + k - N
                        /\ Place(k) \in 0 .. N - 1
  BY <1>1, Wraps DEF Place
<1>3. Place(0) = from /\ Place(N) = from
  BY <1>1, <1>2
<1>4. \A j, k \in 0 .. N - 1 : Place(j) = Place(k) => j = k
  BY <1>1, <1>2
<1>5. ASSUME NEW k \in 0 .. N - 1 PROVE INC_WRAP_IDX(Place(k)) = Place(k + 1)
  <2>1. INC_WRAP_IDX(Place(k)) = IF Place(k) + 1 < N THEN Place(k) + 1 ELSE Place(k) + 1 - N
    <3>1. Place(k) \in 0 .. N - 1 /\ 1 \in 0 .. N
      BY <1>1, <1>2
    <3> QED BY <1>1, <3>1, Wraps DEF INC_WRAP_IDX
  <2>2. k \in 0 .. N /\ k + 1 \in 0 .. N
    BY <1>1
  <2>3. /\ Place(k) = IF from + k < N THEN from + k ELSE from + k - N
        /\ Place(k + 1) = IF from + (k + 1) < N THEN from + (k + 1) ELSE from + (k + 1) - N
    BY <1>2, <2>2
  <2> HIDE DEF Place
  <2> QED BY <1>1, <2>1, <2>3
<1>6. ASSUME NEW k \in 1 .. N
      PROVE  Place(k - 1) = IF Place(k) = 0 THEN N - 1 ELSE Place(k) - 1
  <2>1. k \in 0 .. N /\ k - 1 \in 0 .. N
    BY <1>1
  <2>2. /\ Place(k) = IF from + k < N THEN from + k ELSE from + k - N
        /\ Place(k - 1) = IF from + (k - 1) < N THEN from + (k - 1) ELSE from + (k - 1) - N
    BY <1>2, <2>1
  <2> QED BY <1>1, <2>2
<1>7. ASSUME NEW i \in 0 .. N - 1 PROVE \E k \in 0 .. N - 1 : i = Place(k)
  <2>1. CASE i >= from
    <3>1. i - from \in 0 .. N - 1 /\ Place(i - from) = i
      BY <1>1, <1>2, <2>1
    <3> QED BY <3>1
  <2>2. CASE i < from
    <3>1. i + N - from \in 0 .. N - 1 /\ Place(i + N - from) = i
      BY <1>1, <1>2, <2>2
    <3> QED BY <3>1
  <2> QED BY <1>1, <2>1, <2>2
<1> QED BY <1>1, <1>2, <1>3, <1>4, <1>5, <1>6, <1>7


-----------------------------------------------------------------------------
(***************************************************************************)
(* The contents of the ring.                                               *)
(***************************************************************************)

\* The contents are different blocks, each found at its place.
LEMMA ContentsOf ==
  ASSUME RingInv
  PROVE  /\ total \in Nat /\ total <= N
         /\ Contents \in Seq(Block) /\ Len(Contents) = total /\ DOMAIN Contents = 1 .. total
         /\ \A k \in 1 .. total : Contents[k] = ptr[Place(k - 1)]
         /\ Distinct(Contents)
<1>1. N \in Nat \ {0} /\ total \in 0 .. N /\ from \in 0 .. N - 1
  BY Places DEF RingInv, TypeOK
<1> HIDE DEF N
<1>2. ASSUME NEW k \in 1 .. total
      PROVE  /\ Contents[k] = ptr[Place(k - 1)] /\ Contents[k] \in Block
             /\ idx[Contents[k]] = Place(k - 1)
  <2>1. k - 1 \in 0 .. total - 1
    BY <1>1
  <2>2. ptr[Place(k - 1)] \in Block /\ idx[ptr[Place(k - 1)]] = Place(k - 1)
    BY <2>1 DEF RingInv
  <2>3. from + k - 1 = from + (k - 1)
    BY <1>1
  <2>4. Contents[k] = ptr[Place(k - 1)]
    BY <2>3 DEF Contents, Place
  <2> QED BY <2>2, <2>4
<1>3. Contents \in [1 .. total -> Block]
  BY <1>2 DEF Contents
<1>4. Contents \in Seq(Block) /\ Len(Contents) = total /\ DOMAIN Contents = 1 .. total
  <2>1. DOMAIN Contents = 1 .. total
    BY DEF Contents
  <2> HIDE DEF Contents
  <2> QED BY <1>1, <1>3, <2>1
<1>5. Distinct(Contents)
  <2> SUFFICES ASSUME NEW i \in 1 .. total, NEW j \in 1 .. total, Contents[i] = Contents[j]
               PROVE  i = j
    BY <1>4 DEF Distinct
  <2>1. Place(i - 1) = Place(j - 1)
    BY <1>2
  <2>2. i - 1 \in 0 .. N - 1 /\ j - 1 \in 0 .. N - 1
    BY <1>1
  <2>3. i - 1 = j - 1
    BY <2>1, <2>2, Places DEF RingInv
  <2> QED BY <1>1, <2>3
<1> QED BY <1>1, <1>2, <1>4, <1>5

\* A block is in the ring when it is at one of the places in use, and then its
\* idx is that place.
LEMMA InRingAt ==
  ASSUME RingInv, NEW b \in Block
  PROVE  /\ InRing(b) <=> \E k \in 0 .. total - 1 : ptr[Place(k)] = b
         /\ InRing(b) <=> b \in Elems(Contents)
         /\ InRing(b) => \E k \in 0 .. total - 1 : ptr[Place(k)] = b /\ idx[b] = Place(k)
<1>1. total \in Nat /\ DOMAIN Contents = 1 .. total
      /\ \A k \in 1 .. total : Contents[k] = ptr[Place(k - 1)]
  BY ContentsOf
<1>2. ASSUME NEW k \in 0 .. total - 1, ptr[Place(k)] = b PROVE InRing(b)
  <2>1. k + 1 \in 1 .. total /\ (k + 1) - 1 = k
    BY <1>1
  <2>2. Contents[k + 1] = b
    BY <1>1, <1>2, <2>1
  <2> QED BY <2>1, <2>2 DEF InRing
<1>3. ASSUME InRing(b)
      PROVE  \E k \in 0 .. total - 1 : ptr[Place(k)] = b /\ idx[b] = Place(k)
  <2>1. PICK k \in 1 .. total : Contents[k] = b
    BY <1>3 DEF InRing
  <2>2. k - 1 \in 0 .. total - 1 /\ ptr[Place(k - 1)] = b
    BY <1>1, <2>1
  <2>3. idx[b] = Place(k - 1)
    BY <2>2 DEF RingInv
  <2> QED BY <2>2, <2>3
<1>4. InRing(b) <=> b \in Elems(Contents)
  BY <1>1 DEF InRing, Elems
<1> QED BY <1>2, <1>3, <1>4

\* A ring without some block has room for it: max_msgs is the number of blocks.
LEMMA NotFull ==
  ASSUME RingInv, NEW b \in Block, ~InRing(b)
  PROVE  total < N
<1>1. Contents \in Seq(Block) /\ Len(Contents) = total /\ Distinct(Contents) /\ total \in Nat
  BY ContentsOf
<1>2. Cardinality(Elems(Contents)) = total
  BY <1>1, LengthIsCardinality
<1>3. Elems(Contents) \subseteq Block
  BY <1>1 DEF Elems
<1>4. b \notin Elems(Contents)
  BY InRingAt
<1>5. Cardinality(Elems(Contents)) < Cardinality(Block)
  <2>1. Elems(Contents) # Block
    BY <1>4
  <2>2. Cardinality(Elems(Contents)) <= Cardinality(Block) /\ IsFiniteSet(Elems(Contents))
        /\ (Cardinality(Elems(Contents)) = Cardinality(Block) => Elems(Contents) = Block)
    BY <1>3, BlockAssumption, FS_Subset
  <2>3. Cardinality(Elems(Contents)) \in Nat /\ Cardinality(Block) \in Nat
    BY <2>2, BlockAssumption, FS_CardinalityType
  <2> QED BY <2>1, <2>2, <2>3
<1> QED BY <1>2, <1>5 DEF N

\* The first place is given up; what the ring holds then depends on what was
\* moved to the other places.
LEMMA GivesUpFirst ==
  ASSUME RingInv, total # 0,
         from' = INC_WRAP_IDX(from), total' = total - 1, to' = to,
         ptr' \in [0 .. N - 1 -> Block \cup {NULL}], idx' \in [Block -> 0 .. N - 1],
         \A k \in 1 .. total - 1 : /\ ptr'[Place(k)] \in Block
                                   /\ idx'[ptr'[Place(k)]] = Place(k)
  PROVE  /\ RingInv'
         /\ Contents' = [k \in 1 .. total - 1 |-> ptr'[Place(k)]]
<1>1. N \in Nat \ {0} /\ total \in 1 .. N /\ from \in 0 .. N - 1
  BY Places DEF RingInv, TypeOK
<1>2. from' = Place(1)
  BY <1>1, Places DEF RingInv
<1>3. from' \in 0 .. N - 1
  BY <1>1, <1>2, Places DEF RingInv
<1> HIDE DEF N
<1>4. ASSUME NEW k \in 0 .. N - 1 PROVE (from' + k) % N = Place(k + 1)
  <2>1. (from' + k) % N = IF from' + k < N THEN from' + k ELSE from' + k - N
    <3>1. k \in 0 .. N
      BY <1>1
    <3> QED BY <1>1, <1>3, <3>1, Wraps
  <2>2. k + 1 \in 0 .. N /\ 1 \in 0 .. N
    BY <1>1
  <2>3. /\ Place(k + 1) = IF from + (k + 1) < N THEN from + (k + 1) ELSE from + (k + 1) - N
        /\ Place(1) = IF from + 1 < N THEN from + 1 ELSE from + 1 - N
    BY <2>2, Places DEF RingInv
  <2> HIDE DEF Place
  <2> QED BY <1>1, <1>2, <2>1, <2>3
<1>5. TypeOK'
  BY <1>1, <1>3 DEF TypeOK, RingInv
<1>6. to' = Place(total)'
  <2>1. total - 1 \in 0 .. N - 1 /\ (total - 1) + 1 = total
    BY <1>1
  <2>2. (from' + (total - 1)) % N = Place(total)
    BY <1>4, <2>1
  <2> QED BY <2>2 DEF Place, RingInv
<1>7. ASSUME NEW k \in 0 .. (total - 1) - 1
      PROVE  ptr'[(from' + k) % N] \in Block /\ idx'[ptr'[(from' + k) % N]] = (from' + k) % N
  <2>1. k \in 0 .. N - 1 /\ k + 1 \in 1 .. total - 1
    BY <1>1
  <2>2. (from' + k) % N = Place(k + 1)
    BY <1>4, <2>1
  <2> QED BY <2>1, <2>2
<1>8. RingInv'
  BY <1>5, <1>6, <1>7 DEF RingInv, Place
<1>9. Contents' = [k \in 1 .. total - 1 |-> ptr'[Place(k)]]
  <2>1. Contents' = [k \in 1 .. total - 1 |-> ptr'[(from' + k - 1) % N]]
    BY DEF Contents
  <2>2. ASSUME NEW k \in 1 .. total - 1 PROVE (from' + k - 1) % N = Place(k)
    <3>1. k - 1 \in 0 .. N - 1 /\ from' + k - 1 = from' + (k - 1) /\ (k - 1) + 1 = k
      BY <1>1, <1>3
    <3> QED BY <1>4, <3>1
  <2> HIDE DEF Place
  <2> QED BY <2>1, <2>2
<1> QED BY <1>8, <1>9


-----------------------------------------------------------------------------
(***************************************************************************)
(* The operations but the shift.                                           *)
(***************************************************************************)

LEMMA RingInitially == Init => RingInv /\ Contents = <<>>
<1> SUFFICES ASSUME Init PROVE RingInv /\ Contents = <<>>
  OBVIOUS
<1>1. N \in Nat \ {0}
  BY SizePositive
<1> HIDE DEF N
<1>2. TypeOK
  BY <1>1 DEF Init, TypeOK
<1>3. to = Place(total)
  BY <1>2, Places DEF Init
<1>4. RingInv
  BY <1>2, <1>3 DEF RingInv, Init
<1>5. Contents = <<>>
  <2>1. Len(Contents) = 0 /\ Contents \in Seq(Block)
    BY <1>4, ContentsOf DEF Init
  <2> HIDE DEF Contents
  <2> QED BY <2>1
<1> QED BY <1>4, <1>5

\* _mtlk_txmm_get_buf_from_que takes the first block.
LEMMA GetTakesFirst ==
  ASSUME RingInv, GetBuf
  PROVE  RingInv' /\ Contents # <<>> /\ Contents' = Tail(Contents)
<1>1. N \in Nat \ {0} /\ total \in 1 .. N
  BY Places DEF RingInv, TypeOK, GetBuf
<1>2. RingInv' /\ Contents' = [k \in 1 .. total - 1 |-> ptr'[Place(k)]]
  <2>1. \A k \in 1 .. total - 1 : ptr'[Place(k)] \in Block /\ idx'[ptr'[Place(k)]] = Place(k)
    BY <1>1 DEF RingInv, GetBuf
  <2> QED BY <2>1, GivesUpFirst DEF RingInv, TypeOK, GetBuf
<1>3. Contents \in Seq(Block) /\ Len(Contents) = total
      /\ \A k \in 1 .. total : Contents[k] = ptr[Place(k - 1)]
  BY ContentsOf
<1> HIDE DEF Contents, N
<1>4. Contents # <<>>
  BY <1>1, <1>3
<1>5. Tail(Contents) = [k \in 1 .. total - 1 |-> Contents[k + 1]]
  BY <1>3, <1>4, AsFunctions
<1>6. ASSUME NEW k \in 1 .. total - 1 PROVE Contents[k + 1] = ptr'[Place(k)]
  <2>1. k + 1 \in 1 .. total /\ (k + 1) - 1 = k
    BY <1>1
  <2> QED BY <1>3, <2>1 DEF GetBuf
<1> HIDE DEF Place
<1>7. Contents' = Tail(Contents)
  BY <1>2, <1>5, <1>6
<1> QED BY <1>2, <1>4, <1>7

\* _mtlk_txmm_put_buf_to_que appends; there is room.
LEMMA PutAppends ==
  ASSUME RingInv, NEW b \in Block, PutBuf(b)
  PROVE  RingInv' /\ b \notin Elems(Contents) /\ Contents' = Append(Contents, b)
<1>1. N \in Nat \ {0} /\ total \in 0 .. N - 1 /\ from \in 0 .. N - 1 /\ to \in 0 .. N - 1
      /\ to = Place(total)
  BY Places, NotFull DEF RingInv, TypeOK, PutBuf
<1>2. from' = from /\ \A k : (from' + k) % N = Place(k)
  BY DEF PutBuf, Place
<1>3. to' = Place(total + 1) /\ to' \in 0 .. N - 1
  BY <1>1, Places DEF RingInv, PutBuf
<1>4. b \notin Elems(Contents)
  BY InRingAt DEF PutBuf
<1>5. Contents \in Seq(Block) /\ Len(Contents) = total
      /\ \A k \in 1 .. total : Contents[k] = ptr[Place(k - 1)]
  BY ContentsOf
<1>6. ASSUME NEW k \in 0 .. total - 1 PROVE Place(k) # to /\ ptr[Place(k)] # b
  <2>1. k \in 0 .. N - 1 /\ k # total
    BY <1>1
  <2>2. Place(k) # to
    BY <1>1, <2>1, Places DEF RingInv
  <2> QED BY <2>2, InRingAt DEF PutBuf
<1>7. \A k \in 0 .. N : Place(k) \in 0 .. N - 1
  BY Places DEF RingInv
<1> HIDE DEF N, Contents
<1>8. TypeOK'
  BY <1>1, <1>3 DEF RingInv, TypeOK, PutBuf
<1>9. ASSUME NEW k \in 0 .. total
      PROVE  /\ ptr'[Place(k)] = IF k = total THEN b ELSE ptr[Place(k)]
             /\ ptr'[Place(k)] \in Block /\ idx'[ptr'[Place(k)]] = Place(k)
  <2>1. k \in 0 .. N /\ Place(k) \in 0 .. N - 1
    BY <1>1, <1>7
  <2>2. CASE k = total
    BY <1>1, <2>1, <2>2 DEF RingInv, TypeOK, PutBuf
  <2>3. CASE k # total
    <3>1. k \in 0 .. total - 1
      BY <1>1, <2>3
    <3>2. ptr'[Place(k)] = ptr[Place(k)]
      BY <3>1, <1>6, <2>1 DEF RingInv, TypeOK, PutBuf
    <3>3. ptr[Place(k)] \in Block /\ idx[ptr[Place(k)]] = Place(k) /\ ptr[Place(k)] # b
      BY <3>1, <1>6 DEF RingInv
    <3> QED BY <2>3, <3>2, <3>3 DEF RingInv, TypeOK, PutBuf
  <2> QED BY <2>2, <2>3
<1>10. RingInv'
  <2>1. \A k \in 0 .. total' - 1 : k \in 0 .. total
    BY <1>1 DEF PutBuf
  <2>2. total' = total + 1
    BY DEF PutBuf
  <2>3. \A k : Place(k)' = Place(k)
    BY <1>2 DEF Place
  <2> HIDE DEF Place
  <2> QED BY <1>3, <1>8, <1>9, <2>1, <2>2, <2>3 DEF RingInv
<1>11. Contents' = Append(Contents, b)
  <2>1. Contents' = [k \in 1 .. total + 1 |-> ptr'[(from' + k - 1) % N]]
    BY DEF Contents, PutBuf
  <2>2. Append(Contents, b) = [k \in 1 .. total + 1 |-> IF k = total + 1 THEN b ELSE Contents[k]]
    BY <1>5, AsFunctions
  <2>3. ASSUME NEW k \in 1 .. total + 1
        PROVE  ptr'[(from' + k - 1) % N] = IF k = total + 1 THEN b ELSE Contents[k]
    <3>1. k - 1 \in 0 .. total /\ from' + k - 1 = from' + (k - 1) /\ (k - 1 = total <=> k = total + 1)
      BY <1>1, <1>2
    <3>2. ptr'[(from' + k - 1) % N] = ptr'[Place(k - 1)]
      BY <1>2, <3>1
    <3>3. k # total + 1 => k \in 1 .. total
      BY <1>1
    <3> HIDE DEF Place
    <3> QED BY <1>5, <1>9, <3>1, <3>2, <3>3
  <2> QED BY <2>1, <2>2, <2>3
<1> QED BY <1>4, <1>10, <1>11

\* A block outside the ring goes elsewhere: nothing here changes.
LEMMA OtherRingKeeps ==
  ASSUME RingInv, NEW b \in Block, OtherRing(b)
  PROVE  RingInv' /\ Contents' = Contents
<1>1. PICK i \in 0 .. N - 1 : idx' = [idx EXCEPT ![b] = i]
  BY DEF OtherRing
<1>2. TypeOK'
  BY <1>1 DEF RingInv, TypeOK, OtherRing
<1>3. ASSUME NEW k \in 0 .. total - 1 PROVE ptr[Place(k)] # b
  BY InRingAt DEF OtherRing
<1>4. ASSUME NEW k \in 0 .. total - 1
      PROVE  ptr[Place(k)] \in Block /\ idx'[ptr[Place(k)]] = Place(k)
  BY <1>1, <1>3 DEF RingInv, TypeOK
<1>5. RingInv'
  BY <1>2, <1>4 DEF RingInv, OtherRing, Place
<1> QED BY <1>5 DEF Contents, OtherRing

\* The deletion of the first block.
LEMMA DelFirst ==
  ASSUME RingInv, NEW b \in Block, NEW keep, DelBufFromQue(b, keep), idx[b] = from
  PROVE  RingInv' /\ \E i \in DOMAIN Contents : Contents' = DelKeep(Contents, i)
<1>1. PICK d \in 0 .. total - 1 : ptr[Place(d)] = b /\ idx[b] = Place(d)
  BY InRingAt DEF DelBufFromQue
<1>2. GetBuf
  BY <1>1 DEF DelBufFromQue, GetBuf, RingInv, TypeOK
<1>3. RingInv' /\ Contents # <<>> /\ Contents' = Tail(Contents)
  BY <1>2, GetTakesFirst
<1>4. Contents \in Seq(Block)
  BY ContentsOf
<1> HIDE DEF Contents
<1>5. 1 \in DOMAIN Contents /\ Tail(Contents) = DelKeep(Contents, 1)
  <2>1. Len(Contents) \in Nat \ {0} /\ DOMAIN Contents = 1 .. Len(Contents)
    BY <1>3, <1>4
  <2>2. Tail(Contents) = [k \in 1 .. Len(Contents) - 1 |-> Contents[k + 1]]
    BY <1>3, <1>4, AsFunctions
  <2>3. \A k \in 1 .. Len(Contents) - 1 : ~(k < 1)
    BY <2>1
  <2> QED BY <2>1, <2>2, <2>3 DEF DelKeep
<1> QED BY <1>3, <1>5


-----------------------------------------------------------------------------
(***************************************************************************)
(* The two deletions of a block that is not the first.                     *)
(***************************************************************************)

\* The block to delete is d places after the first one.
LEMMA DelPlace ==
  ASSUME RingInv, NEW b \in Block, NEW keep, DelBufFromQue(b, keep), idx[b] # from
  PROVE  \E d \in 1 .. total - 1 : ptr[Place(d)] = b /\ idx[b] = Place(d)
<1>1. PICK d \in 0 .. total - 1 : ptr[Place(d)] = b /\ idx[b] = Place(d)
  BY InRingAt DEF DelBufFromQue
<1>2. total \in Nat /\ Place(0) = from
  BY ContentsOf, Places DEF RingInv
<1>3. d # 0
  BY <1>1, <1>2
<1>4. d \in 1 .. total - 1
  BY <1>2, <1>3
<1> QED BY <1>1, <1>4

\* Without preserve_order the first block takes the place of the deleted one.
LEMMA DelSwaps ==
  ASSUME RingInv, NEW b \in Block, DelBufFromQue(b, FALSE), idx[b] # from
  PROVE  RingInv' /\ \E i \in DOMAIN Contents : Contents' = DelSwap(Contents, i)
<1>1. PICK d \in 1 .. total - 1 : ptr[Place(d)] = b /\ idx[b] = Place(d)
  BY DelPlace
<1>2. N \in Nat \ {0} /\ total \in 1 .. N /\ Place(0) = from /\ from \in 0 .. N - 1
  <2>1. N \in Nat \ {0} /\ total \in 0 .. N /\ Place(0) = from /\ from \in 0 .. N - 1
    BY Places DEF RingInv, TypeOK
  <2> QED BY <1>1, <2>1
<1>3. \A k \in 0 .. total - 1 : k \in 0 .. N /\ k \in 0 .. N - 1
  BY <1>2
<1>4. \A k \in 0 .. total - 1 : Place(k) \in 0 .. N - 1
  BY <1>3, Places DEF RingInv
<1>5. \A j, k \in 0 .. total - 1 : Place(j) = Place(k) => j = k
  BY <1>3, Places DEF RingInv
<1> DEFINE p == Place(d)
           h == ptr[from]
<1>6. /\ ptr' = [ptr EXCEPT ![p] = h] /\ idx' = [idx EXCEPT ![h] = p]
      /\ from' = INC_WRAP_IDX(from) /\ total' = total - 1 /\ to' = to
  BY <1>1 DEF DelBufFromQue, Swap
<1>7. 0 \in 0 .. total - 1 /\ d \in 0 .. total - 1 /\ 0 # d
  BY <1>2
<1>8. h \in Block /\ idx[h] = from /\ p \in 0 .. N - 1
  BY <1>2, <1>4, <1>7 DEF RingInv
<1>9. /\ ptr \in [0 .. N - 1 -> Block \cup {NULL}] /\ idx \in [Block -> 0 .. N - 1]
      /\ \A k \in 0 .. total - 1 : ptr[Place(k)] \in Block /\ idx[ptr[Place(k)]] = Place(k)
  BY DEF RingInv, TypeOK
<1>10. ASSUME NEW k \in 1 .. total - 1
       PROVE  /\ ptr'[Place(k)] = IF k = d THEN h ELSE ptr[Place(k)]
              /\ ptr'[Place(k)] \in Block /\ idx'[ptr'[Place(k)]] = Place(k)
  <2>1. k \in 0 .. total - 1 /\ k # 0
    BY <1>2
  <2>2. Place(k) \in 0 .. N - 1 /\ (Place(k) = p <=> k = d)
    BY <1>4, <1>5, <1>7, <2>1
  <2>3. ptr'[Place(k)] = IF k = d THEN h ELSE ptr[Place(k)]
    BY <1>6, <1>9, <2>2
  <2>4. CASE k = d
    BY <1>6, <1>8, <1>9, <2>3, <2>4
  <2>5. CASE k # d
    <3>1. idx[ptr[Place(k)]] = Place(k) /\ ptr[Place(k)] \in Block
      BY <1>9, <2>1
    <3>2. Place(k) # from
      BY <1>2, <1>5, <1>7, <2>1
    <3>3. ptr[Place(k)] # h
      BY <1>8, <3>1, <3>2
    <3> QED BY <1>6, <1>9, <2>3, <2>5, <3>1, <3>3
  <2> QED BY <2>3, <2>4, <2>5
<1>11. ptr' \in [0 .. N - 1 -> Block \cup {NULL}] /\ idx' \in [Block -> 0 .. N - 1]
  BY <1>6, <1>8, <1>9
<1>12. total # 0
  BY <1>2
<1>13. RingInv' /\ Contents' = [k \in 1 .. total - 1 |-> ptr'[Place(k)]]
  BY <1>6, <1>10, <1>11, <1>12, GivesUpFirst
<1>14. /\ Len(Contents) = total /\ DOMAIN Contents = 1 .. total
       /\ \A k \in 1 .. total : Contents[k] = ptr[Place(k - 1)]
  BY ContentsOf
<1> HIDE DEF Contents, p, h, N, Place
<1>15. ASSUME NEW k \in 1 .. total - 1
       PROVE  ptr'[Place(k)] = IF k + 1 = d + 1 THEN Contents[1] ELSE Contents[k + 1]
  <2>1. k + 1 \in 1 .. total /\ (k + 1) - 1 = k /\ 1 \in 1 .. total /\ 1 - 1 = 0
        /\ (k + 1 = d + 1 <=> k = d)
    BY <1>2
  <2>2. Contents[k + 1] = ptr[Place(k)] /\ Contents[1] = ptr[from]
    BY <1>2, <1>14, <2>1
  <2> QED BY <1>10, <2>1, <2>2 DEF h
<1>16. Contents' = DelSwap(Contents, d + 1)
  BY <1>13, <1>14, <1>15 DEF DelSwap
<1>17. d + 1 \in DOMAIN Contents
  BY <1>2, <1>14
<1> QED BY <1>13, <1>16, <1>17


-----------------------------------------------------------------------------
(***************************************************************************)
(* The loop that shifts blocks.                                            *)
(***************************************************************************)

RoundState == [ptr : [0 .. N - 1 -> Block \cup {NULL}], idx : [Block -> 0 .. N - 1], i : 0 .. N - 1]

Prev(i) == IF i = 0 THEN N - 1 ELSE i - 1

\* One round of the loop.
Round(s) ==
  [ptr |-> [s.ptr EXCEPT ![s.i] = s.ptr[Prev(s.i)]],
   idx |-> [s.idx EXCEPT ![s.ptr[Prev(s.i)]] = s.i],
   i   |-> Prev(s.i)]

\* The loop is its first state and its rounds.
LEMMA RoundsAre ==
  ASSUME TypeOK, NEW b \in Block
  PROVE  /\ Rounds(b)[0] = [ptr |-> ptr, idx |-> idx, i |-> idx[b]]
         /\ \A n \in 1 .. N : Rounds(b)[n] = Round(Rounds(b)[n - 1])
         /\ \A n \in 0 .. N : Rounds(b)[n] \in RoundState
<1> DEFINE x == [ptr |-> ptr, idx |-> idx, i |-> idx[b]]
           Eq(f) == f = [n \in 0 .. N |-> IF n = 0 THEN x ELSE Round(f[n - 1])]
           g == [z \in Nat \X RoundState |-> Round(z[2])]
<1>1. N \in Nat \ {0}
  BY SizePositive
<1>2. x \in RoundState
  BY DEF TypeOK, RoundState
<1>3. ASSUME NEW s \in RoundState PROVE Round(s) \in RoundState
  <2>1. s.i \in 0 .. N - 1 /\ Prev(s.i) \in 0 .. N - 1
    <3> HIDE DEF N
    <3> QED BY <1>1 DEF RoundState, Prev
  <2>2. s.ptr \in [0 .. N - 1 -> Block \cup {NULL}] /\ s.idx \in [Block -> 0 .. N - 1]
    BY DEF RoundState
  <2> HIDE DEF Prev, N
  <2> QED BY <2>1, <2>2 DEF Round, RoundState
<1>4. g \in [Nat \X RoundState -> RoundState]
  BY <1>3
<1>5. PICK f \in [0 .. N -> RoundState] : f[0] = x /\ \A n \in 1 .. N : f[n] = g[<<n, f[n - 1]>>]
  <2>1. N \in Nat
    BY <1>1
  <2>2. \E f : IsLoop(f, RoundState, g, x, N)
    <3> HIDE DEF x, g, RoundState, N
    <3> QED BY <2>1, <1>2, <1>4, LoopExists
  <2> HIDE DEF x, g, RoundState, N, Eq
  <2> QED BY <2>2 DEF IsLoop
<1>6. Eq(f)
  <2>1. ASSUME NEW n \in 0 .. N PROVE f[n] = IF n = 0 THEN x ELSE Round(f[n - 1])
    <3>1. CASE n = 0
      BY <1>5, <3>1
    <3>2. CASE n # 0
      <4>1. n \in 1 .. N /\ n - 1 \in 0 .. N
        BY <1>1, <3>2
      <4>2. f[n] = g[<<n, f[n - 1]>>] /\ f[n - 1] \in RoundState
        BY <1>5, <4>1
      <4> QED BY <3>2, <4>2
    <3> QED BY <3>1, <3>2
  <2> HIDE DEF x, g, RoundState, N, Round
  <2> QED BY <2>1
<1>7. Rounds(b) = CHOOSE r : Eq(r)
  BY DEF Rounds, Round, Prev
<1>8. Eq(Rounds(b))
  <2> HIDE DEF Eq
  <2> QED BY <1>6, <1>7
<1>9. /\ Rounds(b)[0] = x
      /\ \A n \in 1 .. N : Rounds(b)[n] = Round(Rounds(b)[n - 1])
  <2> HIDE DEF x, Round, N
  <2>1. ASSUME NEW n \in 0 .. N PROVE Rounds(b)[n] = IF n = 0 THEN x ELSE Round(Rounds(b)[n - 1])
    BY <1>8
  <2> HIDE DEF Eq
  <2> QED BY <1>1, <2>1
<1> DEFINE S == {n \in Nat : n <= N => Rounds(b)[n] \in RoundState}
<1>10. 0 \in S
  BY <1>2, <1>9
<1>11. ASSUME NEW n \in Nat, n \in S PROVE n + 1 \in S
  <2> SUFFICES ASSUME n + 1 <= N PROVE Rounds(b)[n + 1] \in RoundState
    OBVIOUS
  <2> HIDE DEF N, RoundState, Round
  <2>1. n <= N /\ n + 1 \in 1 .. N /\ (n + 1) - 1 = n
    BY <1>1
  <2>2. Rounds(b)[n] \in RoundState
    BY <1>11, <2>1
  <2>3. Rounds(b)[n + 1] = Round(Rounds(b)[n])
    BY <1>9, <2>1
  <2> QED BY <1>3, <2>2, <2>3
<1>12. Nat \subseteq S
  <2> HIDE DEF S
  <2> QED BY <1>10, <1>11, NatInd
<1>13. ASSUME NEW n \in 0 .. N PROVE Rounds(b)[n] \in RoundState
  BY <1>1, <1>12
<1> QED BY <1>9, <1>13


\* After n rounds: s is where the loop is, d the place of the deleted block.  The
\* blocks of the last n places before d have moved by one place.
ShiftedBy(n, d, s) ==
  /\ s.i = Place(d - n)
  /\ \A k \in 0 .. total - 1 :
       /\ s.ptr[Place(k)] = ptr[Place(IF d - n < k /\ k <= d THEN k - 1 ELSE k)]
       /\ s.idx[ptr[Place(k)]] = Place(IF d - n <= k /\ k < d THEN k + 1 ELSE k)

LEMMA RoundShifts ==
  ASSUME RingInv, NEW d \in 1 .. total - 1, NEW n \in Nat, n + 1 <= d,
         NEW s \in RoundState, ShiftedBy(n, d, s)
  PROVE  ShiftedBy(n + 1, d, Round(s))
<1>1. N \in Nat \ {0} /\ total \in 0 .. N
  BY Places DEF RingInv, TypeOK
<1> HIDE DEF N
<1> DEFINE m == d - n
           c == ptr[Place(m - 1)]
<1>2. m \in 1 .. total - 1 /\ m - 1 \in 0 .. total - 1 /\ m \in 0 .. total - 1 /\ m \in 1 .. N
      /\ m <= d /\ d - (n + 1) = m - 1
  BY <1>1
<1>3. \A j, k \in 0 .. total - 1 : Place(j) = Place(k) => j = k
  <2>1. \A k \in 0 .. total - 1 : k \in 0 .. N - 1
    BY <1>1
  <2> QED BY <2>1, Places DEF RingInv
<1>4. \A k \in 0 .. total - 1 : Place(k) \in 0 .. N - 1
  <2>1. \A k \in 0 .. total - 1 : k \in 0 .. N
    BY <1>1
  <2> QED BY <2>1, Places DEF RingInv
<1>5. s.i = Place(m) /\ Prev(s.i) = Place(m - 1)
  BY <1>2, Places DEF RingInv, Prev, ShiftedBy
<1>6. \A k \in 0 .. total - 1 : ptr[Place(k)] \in Block /\ idx[ptr[Place(k)]] = Place(k)
  BY DEF RingInv
<1>7. s.ptr[Place(m - 1)] = c
  <2>1. ~(d - n < m - 1)
    BY <1>2
  <2> QED BY <1>2, <2>1 DEF ShiftedBy
<1>8. Round(s) = [ptr |-> [s.ptr EXCEPT ![Place(m)] = c], idx |-> [s.idx EXCEPT ![c] = Place(m)],
                  i |-> Place(m - 1)]
  BY <1>5, <1>7 DEF Round
<1>9. s.ptr \in [0 .. N - 1 -> Block \cup {NULL}] /\ s.idx \in [Block -> 0 .. N - 1] /\ c \in Block
  BY <1>2, <1>6 DEF RoundState
<1>10. ASSUME NEW k \in 0 .. total - 1
       PROVE  /\ Round(s).ptr[Place(k)] = ptr[Place(IF m - 1 < k /\ k <= d THEN k - 1 ELSE k)]
              /\ Round(s).idx[ptr[Place(k)]] = Place(IF m - 1 <= k /\ k < d THEN k + 1 ELSE k)
  <2>1. /\ s.ptr[Place(k)] = ptr[Place(IF m < k /\ k <= d THEN k - 1 ELSE k)]
        /\ s.idx[ptr[Place(k)]] = Place(IF m <= k /\ k < d THEN k + 1 ELSE k)
    BY DEF ShiftedBy
  <2>2. Place(k) = Place(m) <=> k = m
    BY <1>2, <1>3
  <2>3. ptr[Place(k)] = c <=> k = m - 1
    BY <1>2, <1>3, <1>6
  <2>4. Round(s).ptr[Place(k)] = IF k = m THEN c ELSE s.ptr[Place(k)]
    <3>1. Place(k) \in 0 .. N - 1
      BY <1>4
    <3>2. Round(s).ptr = [s.ptr EXCEPT ![Place(m)] = c]
      BY <1>8
    <3> HIDE DEF Place, Round, m, c
    <3> QED BY <1>9, <2>2, <3>1, <3>2
  <2>5. Round(s).idx[ptr[Place(k)]] = IF k = m - 1 THEN Place(m) ELSE s.idx[ptr[Place(k)]]
    BY <1>6, <1>8, <1>9, <2>3
  <2>6. Round(s).ptr[Place(k)] = ptr[Place(IF m - 1 < k /\ k <= d THEN k - 1 ELSE k)]
    <3>1. CASE k = m
      <4>1. m - 1 < k /\ k <= d /\ k - 1 = m - 1
        BY <1>2, <3>1
      <4> QED BY <2>4, <3>1, <4>1
    <3>2. CASE k # m
      <4>1. (m - 1 < k /\ k <= d) <=> (m < k /\ k <= d)
        BY <1>2, <3>2
      <4> QED BY <2>1, <2>4, <3>2, <4>1
    <3> QED BY <3>1, <3>2
  <2>7. Round(s).idx[ptr[Place(k)]] = Place(IF m - 1 <= k /\ k < d THEN k + 1 ELSE k)
    <3>1. CASE k = m - 1
      <4>1. m - 1 <= k /\ k < d /\ k + 1 = m
        BY <1>2, <3>1
      <4> QED BY <2>5, <3>1, <4>1
    <3>2. CASE k # m - 1
      <4>1. (m - 1 <= k /\ k < d) <=> (m <= k /\ k < d)
        BY <1>2, <3>2
      <4> QED BY <2>1, <2>5, <3>2, <4>1
    <3> QED BY <3>1, <3>2
  <2> QED BY <2>6, <2>7
<1>11. Round(s).i = Place(d - (n + 1))
  BY <1>2, <1>8
<1>12. m - 1 = d - (n + 1)
  BY <1>2
<1> HIDE DEF Place, m, c, Round
<1>13. ASSUME NEW k \in 0 .. total - 1
       PROVE  /\ Round(s).ptr[Place(k)] = ptr[Place(IF d - (n + 1) < k /\ k <= d THEN k - 1 ELSE k)]
              /\ Round(s).idx[ptr[Place(k)]] = Place(IF d - (n + 1) <= k /\ k < d THEN k + 1 ELSE k)
  BY <1>10, <1>12, Zenon
<1> QED BY <1>11, <1>13 DEF ShiftedBy

\* So the loop ends after d rounds.
LEMMA ShiftIs ==
  ASSUME RingInv, NEW b \in Block, NEW d \in 1 .. total - 1, idx[b] = Place(d)
  PROVE  Shift(b) \in RoundState /\ ShiftedBy(d, d, Shift(b))
<1>1. N \in Nat \ {0} /\ total \in 0 .. N
  BY Places DEF RingInv, TypeOK
<1>2. /\ Rounds(b)[0] = [ptr |-> ptr, idx |-> idx, i |-> idx[b]]
      /\ \A n \in 1 .. N : Rounds(b)[n] = Round(Rounds(b)[n - 1])
      /\ \A n \in 0 .. N : Rounds(b)[n] \in RoundState
  BY RoundsAre DEF RingInv
<1> HIDE DEF N
<1> DEFINE S == {n \in Nat : n <= d => ShiftedBy(n, d, Rounds(b)[n])}
<1>3. 0 \in S
  <2>1. d - 0 = d /\ \A k \in 0 .. total - 1 : ~(d < k /\ k <= d) /\ ~(d <= k /\ k < d)
    BY <1>1
  <2>2. \A k \in 0 .. total - 1 : idx[ptr[Place(k)]] = Place(k)
    BY DEF RingInv
  <2>3. ShiftedBy(0, d, [ptr |-> ptr, idx |-> idx, i |-> idx[b]])
    <3> HIDE DEF Place
    <3> QED BY <2>1, <2>2 DEF ShiftedBy
  <2> QED BY <1>2, <2>3
<1>4. ASSUME NEW n \in Nat, n \in S PROVE n + 1 \in S
  <2> SUFFICES ASSUME n + 1 <= d PROVE ShiftedBy(n + 1, d, Rounds(b)[n + 1])
    OBVIOUS
  <2>1. n <= d /\ n + 1 \in 1 .. N /\ n \in 0 .. N /\ (n + 1) - 1 = n
    BY <1>1
  <2>2. Rounds(b)[n] \in RoundState /\ Rounds(b)[n + 1] = Round(Rounds(b)[n])
    BY <1>2, <2>1
  <2>3. ShiftedBy(n, d, Rounds(b)[n])
    BY <1>4, <2>1
  <2> QED BY <2>2, <2>3, RoundShifts
<1>5. Nat \subseteq S
  <2> HIDE DEF S
  <2> QED BY <1>3, <1>4, NatInd
<1>6. \A n \in 0 .. d : ShiftedBy(n, d, Rounds(b)[n])
  BY <1>1, <1>5
<1>7. ASSUME NEW n \in 1 .. d PROVE Rounds(b)[n].i = from <=> n = d
  <2>1. n \in 0 .. d /\ d - n \in 0 .. N - 1 /\ 0 \in 0 .. N - 1 /\ (d - n = 0 <=> n = d)
    BY <1>1
  <2>2. Rounds(b)[n].i = Place(d - n)
    BY <1>6, <2>1 DEF ShiftedBy
  <2>3. Place(d - n) = Place(0) <=> d - n = 0
    BY <2>1, Places DEF RingInv
  <2>4. Place(0) = from
    BY Places DEF RingInv
  <2> QED BY <2>1, <2>2, <2>3, <2>4
<1> DEFINE Ends(n) == /\ Rounds(b)[n].i = from
                      /\ \A k \in 1 .. n - 1 : Rounds(b)[k].i # from
<1>8. d \in 1 .. N /\ d \in 1 .. d /\ \A k \in 1 .. d - 1 : k \in 1 .. d /\ k # d
  BY <1>1
<1>9. Ends(d)
  BY <1>7, <1>8
<1>10. ASSUME NEW n \in 1 .. N, Ends(n) PROVE n = d
  <2>1. CASE n < d
    <3>1. n \in 1 .. d
      BY <1>1, <2>1
    <3> QED BY <1>7, <1>10, <3>1
  <2>2. CASE n > d
    <3>1. d \in 1 .. n - 1
      BY <1>1, <2>2
    <3> QED BY <1>7, <1>8, <1>10, <3>1
  <2> QED BY <1>1, <2>1, <2>2
<1>11. (CHOOSE n \in 1 .. N : Ends(n)) = d
  <2> HIDE DEF Ends
  <2> QED BY <1>8, <1>9, <1>10
<1>12. Shift(b) = Rounds(b)[d]
  BY <1>11 DEF Shift
<1>13. d \in 0 .. d /\ d \in 0 .. N
  BY <1>1
<1> QED BY <1>2, <1>6, <1>12, <1>13

\* With preserve_order the blocks before the deleted one move one place on.
LEMMA DelShifts ==
  ASSUME RingInv, NEW b \in Block, DelBufFromQue(b, TRUE), idx[b] # from
  PROVE  RingInv' /\ \E i \in DOMAIN Contents : Contents' = DelKeep(Contents, i)
<1>1. PICK d \in 1 .. total - 1 : ptr[Place(d)] = b /\ idx[b] = Place(d)
  BY DelPlace
<1>2. N \in Nat \ {0} /\ total \in 1 .. N
  <2>1. N \in Nat \ {0} /\ total \in 0 .. N
    BY Places DEF RingInv, TypeOK
  <2> QED BY <1>1, <2>1
<1>3. Shift(b) \in RoundState /\ ShiftedBy(d, d, Shift(b))
  BY <1>1, ShiftIs
<1>4. /\ ptr' = Shift(b).ptr /\ idx' = Shift(b).idx
      /\ from' = INC_WRAP_IDX(from) /\ total' = total - 1 /\ to' = to
  BY DEF DelBufFromQue
<1> HIDE DEF N
<1>5. ptr' \in [0 .. N - 1 -> Block \cup {NULL}] /\ idx' \in [Block -> 0 .. N - 1]
  BY <1>3, <1>4 DEF RoundState
<1>6. ASSUME NEW k \in 1 .. total - 1
      PROVE  /\ ptr'[Place(k)] = IF k <= d THEN ptr[Place(k - 1)] ELSE ptr[Place(k)]
             /\ ptr'[Place(k)] \in Block /\ idx'[ptr'[Place(k)]] = Place(k)
  <2>1. k \in 0 .. total - 1 /\ k - 1 \in 0 .. total - 1 /\ d - d < k
    BY <1>2
  <2>2. ptr'[Place(k)] = IF k <= d THEN ptr[Place(k - 1)] ELSE ptr[Place(k)]
    BY <1>3, <1>4, <2>1 DEF ShiftedBy
  <2>3. CASE k <= d
    <3>1. d - d <= k - 1 /\ k - 1 < d /\ (k - 1) + 1 = k
      BY <1>2, <2>3
    <3>2. idx'[ptr[Place(k - 1)]] = Place(k)
      BY <1>3, <1>4, <2>1, <3>1 DEF ShiftedBy
    <3>3. ptr[Place(k - 1)] \in Block
      BY <2>1 DEF RingInv
    <3> QED BY <2>2, <2>3, <3>2, <3>3
  <2>4. CASE ~(k <= d)
    <3>1. ~(k < d)
      BY <1>2, <2>4
    <3>2. idx'[ptr[Place(k)]] = Place(k)
      BY <1>3, <1>4, <2>1, <3>1 DEF ShiftedBy
    <3>3. ptr[Place(k)] \in Block
      BY <2>1 DEF RingInv
    <3> QED BY <2>2, <2>4, <3>2, <3>3
  <2> QED BY <2>3, <2>4, <2>2
<1>7. total # 0
  BY <1>2
<1>8. RingInv' /\ Contents' = [k \in 1 .. total - 1 |-> ptr'[Place(k)]]
  BY <1>4, <1>5, <1>6, <1>7, GivesUpFirst
<1>9. /\ Len(Contents) = total /\ DOMAIN Contents = 1 .. total
      /\ \A k \in 1 .. total : Contents[k] = ptr[Place(k - 1)]
  BY ContentsOf
<1> HIDE DEF Contents, Place
<1>10. ASSUME NEW k \in 1 .. total - 1
       PROVE  ptr'[Place(k)] = IF k < d + 1 THEN Contents[k] ELSE Contents[k + 1]
  <2>1. k \in 1 .. total /\ k + 1 \in 1 .. total /\ (k + 1) - 1 = k /\ (k < d + 1 <=> k <= d)
    BY <1>2
  <2>2. Contents[k] = ptr[Place(k - 1)] /\ Contents[k + 1] = ptr[Place(k)]
    BY <1>9, <2>1
  <2> QED BY <1>6, <2>1, <2>2
<1>11. Contents' = DelKeep(Contents, d + 1)
  BY <1>8, <1>9, <1>10 DEF DelKeep
<1>12. d + 1 \in DOMAIN Contents
  BY <1>2, <1>9
<1> QED BY <1>8, <1>11, <1>12


-----------------------------------------------------------------------------
(***************************************************************************)
(* Theorems.                                                               *)
(***************************************************************************)

\* Every step keeps the invariant and is a step of the queue, or leaves the
\* contents alone.
LEMMA RingStep ==
  ASSUME RingInv, [Next]_vars
  PROVE  RingInv' /\ [Fifo!Next]_Contents
<1> USE DEF Fifo!Next, Fifo!Put, Fifo!Get, Fifo!Del
<1>1. CASE GetBuf
  BY <1>1, GetTakesFirst
<1>2. ASSUME NEW b \in Block, PutBuf(b) PROVE RingInv' /\ [Fifo!Next]_Contents
  BY <1>2, PutAppends DEF Fifo!Elems, Elems
<1>3. ASSUME NEW b \in Block, DelBufFromQue(b, TRUE) PROVE RingInv' /\ [Fifo!Next]_Contents
  <2>1. RingInv' /\ \E i \in DOMAIN Contents : Contents' = DelKeep(Contents, i)
    BY <1>3, DelFirst, DelShifts
  <2> QED BY <2>1 DEF Fifo!DelKeep, DelKeep
<1>4. ASSUME NEW b \in Block, DelBufFromQue(b, FALSE) PROVE RingInv' /\ [Fifo!Next]_Contents
  <2>1. CASE idx[b] = from
    <3>1. RingInv' /\ \E i \in DOMAIN Contents : Contents' = DelKeep(Contents, i)
      BY <1>4, <2>1, DelFirst
    <3> QED BY <3>1 DEF Fifo!DelKeep, DelKeep
  <2>2. CASE idx[b] # from
    <3>1. RingInv' /\ \E i \in DOMAIN Contents : Contents' = DelSwap(Contents, i)
      BY <1>4, <2>2, DelSwaps
    <3> QED BY <3>1 DEF Fifo!DelSwap, DelSwap
  <2> QED BY <2>1, <2>2
<1>5. ASSUME NEW b \in Block, OtherRing(b) PROVE RingInv' /\ [Fifo!Next]_Contents
  BY <1>5, OtherRingKeeps
<1>6. CASE UNCHANGED vars
  BY <1>6 DEF vars, RingInv, TypeOK, Place, Contents
<1> QED BY <1>1, <1>2, <1>3, <1>4, <1>5, <1>6 DEF Next

\* The invariant holds in every state of the ring.
THEOREM RingInvariant == Spec => []RingInv
<1>1. Init => RingInv
  BY RingInitially
<1>2. RingInv /\ [Next]_vars => RingInv'
  BY RingStep
<1> QED BY <1>1, <1>2, PTL DEF Spec

\* The indices from and to stay inside the array and total within its size,
\* for any number of blocks (the updates of mtlk_txmm_que_t).
THEOREM RingTypeCorrect == Spec => []TypeOK
<1>1. RingInv => TypeOK
  BY DEF RingInv
<1> QED BY <1>1, RingInvariant, PTL

\* idx of every block in the ring leads back to it, and the loops of the timer
\* and of the confirmation visit what they should, for any number of blocks.
THEOREM RingAlwaysCoherent == Spec => []RingCoherent
<1>1. RingInv => RingCoherent
  <2> SUFFICES ASSUME RingInv PROVE RingCoherent
    OBVIOUS
  <2>1. N \in Nat \ {0} /\ total \in 0 .. N /\ to = Place(total)
        /\ Place(0) = from /\ Place(N) = from
    BY Places DEF RingInv, TypeOK
  <2>2. \A j, k \in 0 .. N - 1 : Place(j) = Place(k) => j = k
    BY Places DEF RingInv
  <2>3. /\ Contents \in Seq(Block) /\ Len(Contents) = total /\ DOMAIN Contents = 1 .. total
        /\ \A k \in 1 .. total : Contents[k] = ptr[Place(k - 1)]
    BY ContentsOf
  <2>4. \A k \in 1 .. total : from + k - 1 = from + (k - 1) /\ k - 1 \in 0 .. total - 1
    BY <2>1, Places DEF RingInv
  <2>5. \A k \in 1 .. total : idx[Contents[k]] = (from + k - 1) % N
    BY <2>3, <2>4 DEF RingInv, Place
  <2>6. Contents = [k \in 1 .. total |-> ptr[Place(k - 1)]]
    BY <2>4 DEF Contents, Place
  <2> DEFINE walk == [n \in 0 .. N |-> Place(n)]
             nt == CHOOSE n \in 0 .. N - 1 : walk[n] = to
             nc == CHOOSE n \in 1 .. N : walk[n] = to
  <2>7. TimerScan = [k \in 1 .. nt |-> ptr[walk[k - 1]]]
        /\ CfmScan = [k \in 1 .. nc |-> ptr[walk[k - 1]]]
    BY DEF TimerScan, CfmScan, Place
  <2> HIDE DEF N, Place, Contents
  <2>8. ASSUME NEW n \in 0 .. N - 1
        PROVE  walk[n] = to <=> n = IF total = N THEN 0 ELSE total
    <3>1. walk[n] = Place(n) /\ 0 \in 0 .. N - 1
      BY <2>1
    <3>2. CASE total = N
      <4>1. to = Place(0)
        BY <2>1, <3>2
      <4> QED BY <2>2, <3>1, <3>2, <4>1
    <3>3. CASE total # N
      <4>1. total \in 0 .. N - 1
        BY <2>1, <3>3
      <4> QED BY <2>1, <2>2, <3>1, <3>3, <4>1
    <3> QED BY <3>2, <3>3
  <2>9. nt = IF total = N THEN 0 ELSE total
    <3>1. (IF total = N THEN 0 ELSE total) \in 0 .. N - 1
      BY <2>1
    <3> HIDE DEF walk
    <3> QED BY <2>8, <3>1
  <2>10. ASSUME total # 0 PROVE nc = total
    <3>1. ASSUME NEW n \in 1 .. N PROVE walk[n] = to <=> n = total
      <4>1. n \in 0 .. N /\ walk[n] = Place(n)
        BY <2>1
      <4>2. CASE n = N
        <5>1. walk[n] = walk[0] /\ 0 \in 0 .. N - 1
          BY <2>1, <4>1, <4>2
        <5>2. walk[0] = to <=> 0 = IF total = N THEN 0 ELSE total
          BY <2>8, <5>1
        <5> HIDE DEF walk
        <5> QED BY <2>1, <2>10, <4>2, <5>1, <5>2
      <4>3. CASE n # N
        <5>1. n \in 0 .. N - 1 /\ n # 0
          BY <2>1, <4>3
        <5>2. walk[n] = to <=> n = IF total = N THEN 0 ELSE total
          BY <2>8, <5>1
        <5> HIDE DEF walk
        <5> QED BY <4>3, <5>1, <5>2
      <4> QED BY <4>2, <4>3
    <3>2. total \in 1 .. N
      BY <2>1, <2>10
    <3> HIDE DEF walk
    <3> QED BY <3>1, <3>2
  <2>11. \A k \in 1 .. total : walk[k - 1] = Place(k - 1)
    BY <2>1
  <2>12. TimerScan = IF total = N THEN <<>> ELSE Contents
    <3>1. CASE total = N
      <4>1. TimerScan = [k \in 1 .. 0 |-> ptr[walk[k - 1]]]
        BY <2>7, <2>9, <3>1
      <4> QED BY <3>1, <4>1
    <3>2. CASE total # N
      <4>1. TimerScan = [k \in 1 .. total |-> ptr[walk[k - 1]]]
        BY <2>7, <2>9, <3>2
      <4> HIDE DEF walk
      <4> QED BY <2>6, <2>11, <3>2, <4>1
    <3> QED BY <3>1, <3>2
  <2>13. ASSUME total # 0 PROVE CfmScan = Contents
    <3>1. CfmScan = [k \in 1 .. total |-> ptr[walk[k - 1]]]
      BY <2>7, <2>10, <2>13
    <3> HIDE DEF walk
    <3> QED BY <2>6, <2>11, <3>1
  <2> QED BY <2>5, <2>12, <2>13 DEF RingCoherent
<1> QED BY <1>1, RingInvariant, PTL

\* The ring implements the queue: no call loses, duplicates or reorders a block
\* beyond what its deletion mode allows, for any number of blocks.
THEOREM RingImplementsFifo == Spec => FifoSpec
<1>1. Init => Fifo!Init
  BY RingInitially DEF Fifo!Init
<1>2. RingInv /\ [Next]_vars => [Fifo!Next]_Contents
  BY RingStep
<1> QED BY <1>1, <1>2, RingInvariant, PTL DEF Spec, FifoSpec, Fifo!Spec
=============================================================================

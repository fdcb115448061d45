-------------------------------- MODULE Lists --------------------------------
(***************************************************************************)
(* The linked lists and block queues of the driver, as sequences.          *)
(***************************************************************************)
EXTENDS Naturals, Sequences, FiniteSets

Elems(s) == {s[i] : i \in DOMAIN s}

Distinct(s) == \A i, j \in DOMAIN s : s[i] = s[j] => i = j

Position(s, x) == CHOOSE i \in DOMAIN s : s[i] = x

Count(s, x) == Cardinality({i \in DOMAIN s : s[i] = x})

\* Delete element i; the order of the others is kept.
DelKeep(s, i) == [j \in 1 .. Len(s) - 1 |-> IF j < i THEN s[j] ELSE s[j + 1]]

\* Delete element i by moving the first element into its place.
DelSwap(s, i) == [j \in 1 .. Len(s) - 1 |-> IF j + 1 = i THEN s[1] ELSE s[j + 1]]

\* Delete every element of S.
Without(s, S) ==
  LET kept[i \in 0 .. Len(s)] ==
        IF i = 0 THEN <<>>
        ELSE IF s[i] \in S THEN kept[i - 1] ELSE Append(kept[i - 1], s[i])
  IN kept[Len(s)]
=============================================================================

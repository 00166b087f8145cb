-------------------------------- MODULE Lru ----------------------------------
(***************************************************************************)
(* A least-recently-used cache as a value: a sequence of << index, key >>, *)
(* most recently used first.                                               *)
(***************************************************************************)
EXTENDS Naturals, Sequences

CONSTANT Capacity

Has(c, i) == \E j \in 1 .. Len(c) : c[j][1] = i
Pos(c, i) == CHOOSE j \in 1 .. Len(c) : c[j][1] = i
KeyOf(c, i) == c[Pos(c, i)][2]
Without(c, j) == SubSeq(c, 1, j - 1) \o SubSeq(c, j + 1, Len(c))
Touched(c, i) == << c[Pos(c, i)] >> \o Without(c, Pos(c, i))

Evicted(c) == IF Len(c) >= Capacity THEN SubSeq(c, 1, Len(c) - 1) ELSE c

\* A key that is there is replaced in place, without moving it to the front.
Inserted(c, i, k) ==
    IF Has(c, i) THEN [c EXCEPT ![Pos(c, i)] = << i, k >>]
    ELSE << << i, k >> >> \o Evicted(c)

=============================================================================

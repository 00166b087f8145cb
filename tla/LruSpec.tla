------------------------------- MODULE LruSpec -------------------------------
(***************************************************************************)
(* What smartAEADCache and smartEMECache promise: at most Capacity keys,   *)
(* the least recently used one goes first.  The cache is a sequence of     *)
(* << index, key >>, most recently used first.  A call is seen with its    *)
(* arguments and its result, so a step of the implementation can only be   *)
(* taken for the call it is.                                               *)
(***************************************************************************)
EXTENDS Lru

CONSTANTS Indices, Keys,
          BadKey,     \* a key aes.NewCipher rejects
          None

VARIABLES lru,    \* the cache
          last    \* the last call: its name, its arguments and the key it returned
vars == << lru, last >>

----------------------------------------------------------------------------
Called(op, i, k, ret) == last' = [op |-> op, index |-> i, key |-> k, ret |-> ret]

Init == lru = << >> /\ last = [op |-> "none"]

Get(i) ==
    /\ Called("get", i, None, IF Has(lru, i) THEN KeyOf(lru, i) ELSE None)
    /\ lru' = IF Has(lru, i) THEN Touched(lru, i) ELSE lru

Put(i, k) ==
    /\ Called("put", i, k, IF k = BadKey THEN None ELSE k)
    /\ lru' = IF k = BadKey THEN lru ELSE Inserted(lru, i, k)

Purge == Called("purge", None, None, None) /\ lru' = << >>

Next ==
    \/ \E i \in Indices : Get(i)
    \/ \E i \in Indices, k \in Keys \union {BadKey} : Put(i, k)
    \/ Purge

Spec == Init /\ [][Next]_vars

=============================================================================

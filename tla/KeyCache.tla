------------------------------ MODULE KeyCache -------------------------------
(***************************************************************************)
(* smartAEADCache and smartEMECache of the external key client: a map from *)
(* indices to entries that form a doubly linked list, with the key zeroed  *)
(* when an entry is dropped.  The caller holds Client.mu, so a call is one *)
(* step.                                                                   *)
(***************************************************************************)
EXTENDS Naturals, FiniteSets

CONSTANTS Indices, Keys, BadKey, None, Capacity,
          Entries,    \* lruEntry objects
          Nil

KeyCacheAssumption ==
    /\ Capacity \in Nat \ {0} /\ Cardinality(Entries) = Capacity + 1
    /\ Nil \notin Entries /\ {BadKey, None} \intersect Keys = {}

VARIABLES c,     \* the cache: a record with the fields of smartAEADCache
          last   \* the last call, with its arguments and what it returned (history)
vars == << c, last >>

newSmartAEADCache ==
    [items |-> [i \in Indices |-> Nil], head |-> Nil, tail |-> Nil,
     prev |-> [e \in Entries |-> Nil], next |-> [e \in Entries |-> Nil],
     index |-> [e \in Entries |-> Nil], key |-> [e \in Entries |-> None]]

Init == c = newSmartAEADCache /\ last = [op |-> "none"]

Used(s) == {s.items[i] : i \in Indices} \ {Nil}

----------------------------------------------------------------------------
SetNext(s, e, n) == IF e = Nil THEN s ELSE [s EXCEPT !.next[e] = n]
SetPrev(s, e, p) == IF e = Nil THEN s ELSE [s EXCEPT !.prev[e] = p]

\* Unlink, forget, zero.
removeEntry(s, e) ==
    LET p == s.prev[e]
        n == s.next[e]
    IN  [SetPrev(SetNext(s, p, n), n, p) EXCEPT
            !.head = IF p = Nil THEN n ELSE @, !.tail = IF n = Nil THEN p ELSE @,
            !.items[s.index[e]] = Nil, !.key[e] = None]

moveToHead(s, e) ==
    LET p == s.prev[e]
        n == s.next[e]
        unlinked == SetPrev(SetNext(s, p, n), n, p)
    IN  IF e = s.head THEN s
        ELSE [SetPrev(unlinked, s.head, e) EXCEPT
                 !.tail = IF n = Nil THEN p ELSE @,
                 !.prev[e] = Nil, !.next[e] = s.head, !.head = e]

evict(s) ==
    IF Cardinality(Used(s)) >= Capacity /\ s.tail # Nil THEN removeEntry(s, s.tail) ELSE s

insert(s, e, i, k) ==
    [SetPrev(s, s.head, e) EXCEPT
        !.index[e] = i, !.key[e] = k, !.prev[e] = Nil, !.next[e] = s.head,
        !.head = e, !.tail = IF @ = Nil THEN e ELSE @, !.items[i] = e]

----------------------------------------------------------------------------
Called(op, i, k, ret) == last' = [op |-> op, index |-> i, key |-> k, ret |-> ret]

\* Mutant: a hit does not move the entry to the head.
get_inPlace(i) ==
    /\ Called("get", i, None, IF c.items[i] = Nil THEN None ELSE c.key[c.items[i]])
    /\ UNCHANGED c

get(i) ==
    IF c.items[i] = Nil THEN Called("get", i, None, None) /\ UNCHANGED c
    ELSE /\ Called("get", i, None, c.key[c.items[i]])
         /\ c' = moveToHead(c, c.items[i])

\* Which object the allocator returns is all the same.
NewEntry == CHOOSE e \in Entries : e \notin Used(c)

put(i, k) ==
    \/ k = BadKey /\ Called("put", i, k, None) /\ UNCHANGED c
    \/ /\ k # BadKey /\ c.items[i] # Nil
       /\ c' = [c EXCEPT !.key[c.items[i]] = k]
       /\ Called("put", i, k, k)
    \/ /\ k # BadKey /\ c.items[i] = Nil
       /\ c' = insert(evict(c), NewEntry, i, k)
       /\ Called("put", i, k, k)

\* The n-th entry of the list, from the head.
Walk[n \in 1 .. Capacity + 2] ==
    IF n = 1 THEN c.head
    ELSE LET e == Walk[n - 1] IN IF e = Nil THEN Nil ELSE c.next[e]

OnList == {Walk[j] : j \in 1 .. Capacity + 1} \ {Nil}

\* Every entry on the list is zeroed, then all is dropped.
purge ==
    /\ c' = [newSmartAEADCache EXCEPT
                !.key = [e \in Entries |-> IF e \in OnList THEN None ELSE c.key[e]]]
    /\ Called("purge", None, None, None)

Next ==
    \/ \E i \in Indices : get(i)
    \/ \E i \in Indices, k \in Keys \union {BadKey} : put(i, k)
    \/ purge

Spec == Init /\ [][Next]_vars

----------------------------------------------------------------------------
(* Properties                                                              *)

\* The cache is an LRU cache: every call of get, put and purge returns what it should,
\* and leaves the entries in the order in which they were last asked for (moveToHead),
\* so that the one that goes is the one that was not used for longest.
Abstract == INSTANCE LruSpec WITH
    lru <- [j \in 1 .. Cardinality(Used(c)) |-> << c.index[Walk[j]], c.key[Walk[j]] >>]
ImplementsLruSpec == Abstract!Spec

=============================================================================

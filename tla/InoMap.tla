------------------------------- MODULE InoMap -------------------------------
(***************************************************************************)
(* internal/inomap: the translation of qualified inode numbers             *)
(* (device, tag, inode) to the inode numbers a mount reports.  Translate   *)
(* runs under the map's mutex and is one action.  NextSpillIno does not    *)
(* take it: its test for the last number and its atomic Add are one action *)
(* here, which makes a difference at the last of 2^63 numbers only.        *)
(***************************************************************************)
EXTENDS Integers

CONSTANTS
    Namespaces,      \* the (Dev, Tag) pairs
    Inos,            \* the inode numbers of the backing file systems
    PassthruSpace,   \* 2^48: inode numbers below it are passed through
    MaxNamespaceId,  \* 2^15 - 1
    SpillSpaceStart, \* 2^63
    MaxUint64,
    RootNamespace,   \* (rootDev, 0), or Absent when rootDev is zero
    Absent           \* no map entry

ASSUME InoMapAssumption ==
    /\ Inos \subseteq Nat
    /\ PassthruSpace \in Nat \ {0}
    /\ MaxNamespaceId \in Nat \ {0}
    /\ SpillSpaceStart \in Nat
    /\ MaxNamespaceId * PassthruSpace <= SpillSpaceStart
    /\ MaxUint64 \in Nat
    /\ Absent \notin Nat /\ Absent \notin Namespaces
    /\ RootNamespace \in Namespaces \union {Absent}

QInos == Namespaces \X Inos

VARIABLES
    namespaceMap,    \* (Dev, Tag) -> namespace id
    namespaceNext,
    spillMap,        \* QIno -> spill inode number
    spillNext,
    given,           \* the number Translate returned last for each QIno
    unmapped         \* the numbers NextSpillIno returned to reverse mode

vars == << namespaceMap, namespaceNext, spillMap, spillNext, given, unmapped >>

\* New(rootDev).
Init ==
    /\ namespaceMap = [n \in Namespaces |-> IF n = RootNamespace THEN 0 ELSE Absent]
    /\ namespaceNext = IF RootNamespace = Absent THEN 0 ELSE 1
    /\ spillMap = [q \in QInos |-> Absent]
    /\ spillNext = SpillSpaceStart
    /\ given = [q \in QInos |-> Absent]
    /\ unmapped = {}

\* uint64(ns)<<48 | ino
Passthru(ns, ino) == ns * PassthruSpace + ino

\* Mutant: the spill map is not looked at.
spill_forget(q) ==
    /\ UNCHANGED << namespaceMap, namespaceNext >>
    /\ spillNext # MaxUint64
    /\ spillMap' = [spillMap EXCEPT ![q] = spillNext]
    /\ spillNext' = spillNext + 1
    /\ given' = [given EXCEPT ![q] = spillNext]

\* An existing entry of the spill map is used again; a new one takes the next
\* number.  At MaxUint64 the program panics.
spill(q) ==
    /\ UNCHANGED << namespaceMap, namespaceNext >>
    /\ \/ /\ spillMap[q] # Absent
          /\ given' = [given EXCEPT ![q] = spillMap[q]]
          /\ UNCHANGED << spillMap, spillNext >>
       \/ /\ spillMap[q] = Absent
          /\ spillNext # MaxUint64
          /\ spillMap' = [spillMap EXCEPT ![q] = spillNext]
          /\ spillNext' = spillNext + 1
          /\ given' = [given EXCEPT ![q] = spillNext]

UseNamespace(ns, ino) ==
    /\ namespaceMap[ns] # Absent
    /\ given' = [given EXCEPT ![<< ns, ino >>] = Passthru(namespaceMap[ns], ino)]
    /\ UNCHANGED << namespaceMap, namespaceNext, spillMap, spillNext >>

NewNamespace(ns, ino) ==
    /\ namespaceMap[ns] = Absent
    /\ namespaceNext < MaxNamespaceId
    /\ namespaceMap' = [namespaceMap EXCEPT ![ns] = namespaceNext]
    /\ namespaceNext' = namespaceNext + 1
    /\ given' = [given EXCEPT ![<< ns, ino >>] = Passthru(namespaceNext, ino)]
    /\ UNCHANGED << spillMap, spillNext >>

\* Mutant: the first number that does not fit is passed through.
Spills_offByOne(ns, ino) ==
    \/ ino > PassthruSpace
    \/ namespaceMap[ns] = Absent /\ namespaceNext >= MaxNamespaceId

\* Must this inode number go to the spill map?
Spills(ns, ino) ==
    \/ ino >= PassthruSpace
    \/ namespaceMap[ns] = Absent /\ namespaceNext >= MaxNamespaceId

Translate(ns, ino) ==
    /\ IF Spills(ns, ino) THEN spill(<< ns, ino >>)
       ELSE UseNamespace(ns, ino) \/ NewNamespace(ns, ino)
    /\ UNCHANGED unmapped

\* A number for a virtual file of reverse mode that is not remembered.
NextSpillIno ==
    /\ spillNext # MaxUint64
    /\ spillNext' = spillNext + 1
    /\ unmapped' = unmapped \union {spillNext}
    /\ UNCHANGED << namespaceMap, namespaceNext, spillMap, given >>

Next ==
    \/ \E ns \in Namespaces, ino \in Inos : Translate(ns, ino)
    \/ NextSpillIno

Spec == Init /\ [][Next]_vars

----------------------------------------------------------------------------
(* Properties                                                              *)

\* The variables have the types of InoMap's fields.
TypeOK ==
    /\ namespaceMap \in [Namespaces -> Nat \union {Absent}]
    /\ namespaceNext \in Nat
    /\ spillMap \in [QInos -> Nat \union {Absent}]
    /\ spillNext \in Nat
    /\ given \in [QInos -> Nat \union {Absent}]
    /\ unmapped \subseteq Nat

\* Two backing files never get the same inode number, and no number handed
\* out for a virtual file is ever that of a backing file (the package comment:
\* Translate maps the tuple to a unique inode number).
Unique ==
    /\ \A p, q \in QInos : given[p] # Absent /\ given[p] = given[q] => p = q
    /\ \A q \in QInos : given[q] \notin unmapped

\* A backing file keeps the number it got first, also when the namespace ids
\* run out between two calls (Translate).
Stable ==
    [][\A q \in QInos : given[q] # Absent => given'[q] = given[q]]_vars

\* The files of the root device keep their inode numbers (New: passed through
\* as-is), as far as these fit into 48 bits.
RootPassesThrough ==
    \A q \in QInos :
        q[1] = RootNamespace /\ q[2] < PassthruSpace /\ given[q] # Absent
           => given[q] = q[2]
=============================================================================

-------------------------- MODULE FileLockingProofs --------------------------
(***************************************************************************)
(* Proofs about FileLocking, for any number of requests, File objects and  *)
(* table entries.  ControlInv says which locks a request holds where;      *)
(* DiskInv says what the request knows about the header there.  The first  *)
(* holds with truncation by path as well, the second only without it.      *)
(***************************************************************************)
EXTENDS FileLocking, FiniteSetTheorems, TLAPS

\* Where a request of each kind can be.
LabelsOf(o) ==
    CASE o = "read" -> {"lock", "readID", "storeID", "readAt", "done"}
      [] o = "write" -> Labels \ {"idle", "ftruncate0", "clearID"}
      [] o = "truncate" -> {"lock", "ftruncate0", "clearID", "done"}
      [] OTHER -> {"ftruncate0", "clearID", "done"}

\* A request works on a File object that it keeps from being closed (a Read
\* may have come too late); truncation by path has one of its own.
RequestOK ==
    \A t \in Threads : pc[t] # "idle" =>
        /\ on[t] \in Handles
        /\ pc[t] \in LabelsOf(op[t])
        /\ op[t] = "pathTruncate" => handle[on[t]].st = "private"
        /\ op[t] # "pathTruncate" => t \in fdReaders[on[t]]
        /\ op[t] = "read" => handle[on[t]].st \in {"open", "released"}
        /\ op[t] \in {"write", "truncate"} => handle[on[t]].st = "open"

PrivateOK ==
    \A t, u \in Threads :
        /\ pc[t] # "idle" /\ op[t] = "pathTruncate"
        /\ pc[u] # "idle" /\ op[u] = "pathTruncate"
        /\ on[t] = on[u]
        => t = u

TableOK ==
    /\ \A h \in Handles : handle[h].st # "closed" => handle[h].entry \in Entries
    /\ \A h \in LiveHandles : handle[h].entry = table
    /\ table # None => refCount[table] = Cardinality(LiveHandles) /\ LiveHandles # {}

LockOK ==
    /\ \A t \in Threads : Active(t) /\ op[t] \in {"write", "truncate"} => writer[EntryOf(t)] = t
    /\ \A t \in Threads : Active(t) /\ op[t] = "read" => t \in readers[EntryOf(t)]
    /\ \A e \in Entries : writer[e] # None => readers[e] = {}

ControlInv == TypeOK /\ RequestOK /\ PrivateOK /\ TableOK /\ LockOK

----------------------------------------------------------------------------
(* The steps of a request between its locks.                               *)

Local(t) ==
    /\ Active(t)
    /\ \E label \in LabelsOf(op[t]) \ {"lock"} : Goto(t, label)
    /\ UNCHANGED << table, refCount, writer, readers, handle, fdReaders, op, on >>

Work(t) == DoRead(t) \/ DoWrite(t) \/ FtruncateZero(t) \/ TruncateClearID(t)

LEMMA EntryOfIsEntry ==
    ASSUME TypeOK, RequestOK, TableOK, NEW t \in Threads, pc[t] # "idle"
    PROVE  on[t] \in Handles /\ EntryOf(t) \in Entries /\ handle[on[t]].st # "closed"
<1>1. on[t] \in Handles BY DEF RequestOK
<1>2. op[t] \in {"read", "write", "truncate", "pathTruncate"} BY DEF TypeOK
<1>3. handle[on[t]].st # "closed" BY <1>2 DEF RequestOK
<1> QED BY <1>1, <1>3 DEF TableOK, EntryOf

LEMMA WorkIsLocal ==
    ASSUME ControlInv, NEW t \in Threads, Work(t)
    PROVE  Local(t)
<1> USE DEF ControlInv
<1>1. pc[t] \in LabelsOf(op[t]) \/ pc[t] = "idle" BY DEF RequestOK
<1>2. op[t] \in {"read", "write", "truncate", "pathTruncate"} BY DEF TypeOK
<1> USE <1>1, <1>2
<1>3. CASE DoReadCached(t)
  BY Zenon, <1>3 DEF DoReadCached, Local, Active, LabelsOf, Labels, Goto, entryVars, lockVars,
     diskVars
<1>4. CASE DoReadHeader(t)
  BY Zenon, <1>4 DEF DoReadHeader, Local, Active, LabelsOf, Labels, Goto, entryVars, lockVars,
     diskVars
<1>5. CASE DoReadNoHeader(t)
  BY Zenon, <1>5 DEF DoReadNoHeader, Skip, Local, Active, LabelsOf, Labels, Goto, entryVars,
     lockVars, reqVars
<1>6. CASE DoReadStoreID(t)
  BY Zenon, <1>6 DEF DoReadStoreID, Local, Active, LabelsOf, Labels, Goto, reqVars
<1>7. CASE DoReadBlocks(t)
  BY Zenon, <1>7 DEF DoReadBlocks, Skip, Local, Active, LabelsOf, Labels, Goto, entryVars,
     lockVars, reqVars
<1>8. CASE DoWriteCached(t)
  BY Zenon, <1>8 DEF DoWriteCached, Skip, Local, Active, LabelsOf, Labels, Goto, entryVars,
     lockVars, reqVars
<1>9. CASE DoWriteHeader(t)
  BY Zenon, <1>9 DEF DoWriteHeader, Local, Active, LabelsOf, Labels, Goto, entryVars, lockVars
<1>10. CASE DoWriteCorrupt(t)
  BY Zenon, <1>10 DEF DoWriteCorrupt, Skip, Local, Active, LabelsOf, Labels, Goto, entryVars,
     lockVars, reqVars
<1>11. CASE DoWriteEmpty(t)
  BY Zenon, <1>11 DEF DoWriteEmpty, Local, Active, LabelsOf, Labels, Goto, entryVars, lockVars
<1>12. CASE CreateHeader(t)
  BY Zenon, <1>12 DEF CreateHeader, Local, Active, LabelsOf, Labels, Goto, entryVars, lockVars
<1>13. CASE CreateHeaderNoSpace(t)
  BY Zenon, <1>13 DEF CreateHeaderNoSpace, Skip, Local, Active, LabelsOf, Labels, Goto, entryVars,
     lockVars, reqVars
<1>14. CASE DoWriteSetID(t)
  BY Zenon, <1>14 DEF DoWriteSetID, Local, Active, LabelsOf, Labels, Goto, lockVars, reqVars
<1>15. CASE DoWriteEncrypt(t)
  BY Zenon, <1>15 DEF DoWriteEncrypt, Local, Active, LabelsOf, Labels, Goto, entryVars, lockVars
<1>16. CASE DoWritePrealloc(t)
  BY Zenon, <1>16 DEF DoWritePrealloc, Skip, Local, Active, LabelsOf, Labels, Goto, entryVars,
     lockVars, reqVars
<1>17. CASE DoWriteNoSpace(t)
  BY <1>17 DEF DoWriteNoSpace, Local, Active, LabelsOf, Labels, Goto, lockVars, reqVars
<1>18. CASE DoWriteBlocks(t)
  BY Zenon, <1>18 DEF DoWriteBlocks, Local, Active, LabelsOf, Labels, Goto, entryVars, lockVars,
     reqVars
<1>19. CASE FtruncateZero(t)
  BY Zenon, <1>19 DEF FtruncateZero, Local, Active, LabelsOf, Labels, Goto, entryVars, lockVars,
     reqVars
<1>20. CASE TruncateClearID(t)
  BY Zenon, <1>20 DEF TruncateClearID, Local, Active, LabelsOf, Labels, Goto, lockVars, reqVars
<1> QED
  BY <1>3, <1>4, <1>5, <1>6, <1>7, <1>8, <1>9, <1>10, <1>11, <1>12, <1>13, <1>14,
     <1>15, <1>16, <1>17, <1>18, <1>19, <1>20 DEF Work, DoRead, DoWrite

LEMMA LocalControl ==
    ASSUME ControlInv, NEW t \in Threads, Local(t)
    PROVE  RequestOK' /\ PrivateOK' /\ TableOK' /\ LockOK'
<1> USE DEF ControlInv
<1>0. PICK label \in LabelsOf(op[t]) \ {"lock"} : pc' = [pc EXCEPT ![t] = label]
  BY Zenon DEF Local, Goto
<1>1. op[t] \in {"read", "write", "truncate", "pathTruncate"} /\ label # "idle"
  BY <1>0 DEF TypeOK, LabelsOf, Labels
<1>2. pc \in [Threads -> Labels] BY DEF TypeOK
<1>3. \A u \in Threads : pc'[u] = IF u = t THEN label ELSE pc[u] BY <1>0, <1>2
<1>4. \A u \in Threads : (pc'[u] # "idle") = (pc[u] # "idle") /\ Active(u)' = Active(u)
  BY <1>3, <1>1, <1>0 DEF Local, Active
<1>5. RequestOK' BY <1>3, <1>4, <1>0 DEF RequestOK, Local
<1>6. PrivateOK' BY <1>4 DEF PrivateOK, Local
<1>7. TableOK' BY DEF TableOK, LiveHandles, Local
<1>8. LockOK' BY <1>4 DEF LockOK, Local, EntryOf
<1> QED BY <1>5, <1>6, <1>7, <1>8

----------------------------------------------------------------------------
(* Types.                                                                  *)

LEMMA WorkKeepsByPath ==
    ASSUME NEW t \in Threads, Work(t)
    PROVE  byPath' = byPath
<1>1. CASE DoRead(t)
  BY <1>1 DEF DoRead, DoReadCached, DoReadHeader, DoReadNoHeader, DoReadStoreID,
              DoReadBlocks, Skip, diskVars
<1>2. CASE DoWrite(t)
  BY <1>2 DEF DoWrite, DoWriteCached, DoWriteHeader, DoWriteCorrupt, DoWriteEmpty,
              CreateHeader, CreateHeaderNoSpace, DoWriteSetID, DoWriteEncrypt,
              DoWritePrealloc, DoWriteNoSpace, DoWriteBlocks, Skip, diskVars
<1> QED BY <1>1, <1>2 DEF Work, FtruncateZero, TruncateClearID, diskVars

LEMMA WorkType ==
    ASSUME ControlInv, NEW t \in Threads, Work(t)
    PROVE  TypeOK'
<1> USE LockingAssumption DEF ControlInv
<1>1. Local(t) BY WorkIsLocal
<1>2. \A o : LabelsOf(o) \subseteq Labels BY DEF LabelsOf, Labels
<1>3. pc' \in [Threads -> Labels] BY <1>1, <1>2 DEF Local, Goto, TypeOK
<1>4. pc[t] # "idle" BY <1>1 DEF Local, Active
<1>5. EntryOf(t) \in Entries BY <1>4, EntryOfIsEntry
<1>6. /\ ID' \in [Entries -> FileIDs \union {NoID}]
      /\ idLock' \in [Entries -> Threads \union {None}]
      /\ hdr' \in FileIDs \union {NoID, ZeroID}
      /\ body' \subseteq FileIDs \union {NoID}
      /\ id' \in [Threads -> FileIDs \union {NoID}]
      /\ wasEmpty' \in [Threads -> BOOLEAN]
  <2> USE <1>5
  <2>1. CASE DoRead(t)
    <3>1. CASE DoReadCached(t) BY <3>1 DEF DoReadCached, TypeOK, entryVars, lockVars, diskVars
    <3>2. CASE DoReadHeader(t)
      <4>1. hdr \in FileIDs BY <3>2 DEF DoReadHeader, readFileID
      <4> QED BY <4>1, <3>2 DEF DoReadHeader, TypeOK, entryVars, diskVars
    <3>3. CASE DoReadNoHeader(t)
      BY <3>3 DEF DoReadNoHeader, Skip, TypeOK, entryVars, lockVars, diskVars, reqVars
    <3>4. CASE DoReadStoreID(t) BY <3>4 DEF DoReadStoreID, TypeOK, diskVars, reqVars
    <3>5. CASE DoReadBlocks(t)
      BY <3>5 DEF DoReadBlocks, Skip, TypeOK, entryVars, lockVars, diskVars, reqVars
    <3> QED BY <2>1, <3>1, <3>2, <3>3, <3>4, <3>5 DEF DoRead
  <2>2. CASE DoWrite(t)
    <3>1. CASE DoWriteCached(t)
      BY <3>1 DEF DoWriteCached, Skip, TypeOK, entryVars, lockVars, diskVars, reqVars
    <3>2. CASE DoWriteHeader(t)
      <4>1. hdr \in FileIDs BY <3>2 DEF DoWriteHeader, readFileID
      <4> QED BY <4>1, <3>2 DEF DoWriteHeader, TypeOK, entryVars, lockVars, diskVars
    <3>3. CASE DoWriteCorrupt(t)
      BY <3>3 DEF DoWriteCorrupt, Skip, TypeOK, entryVars, lockVars, diskVars, reqVars
    <3>4. CASE DoWriteEmpty(t) BY <3>4 DEF DoWriteEmpty, TypeOK, entryVars, lockVars, diskVars
    <3>5. CASE CreateHeader(t) BY <3>5 DEF CreateHeader, FreshIDs, TypeOK, entryVars, lockVars
    <3>6. CASE CreateHeaderNoSpace(t)
      BY <3>6 DEF CreateHeaderNoSpace, Skip, TypeOK, entryVars, lockVars, diskVars, reqVars
    <3>7. CASE DoWriteSetID(t) BY <3>7 DEF DoWriteSetID, TypeOK, lockVars, diskVars, reqVars
    <3>8. CASE DoWriteEncrypt(t) BY <3>8 DEF DoWriteEncrypt, TypeOK, entryVars, lockVars, diskVars
    <3>9. CASE DoWritePrealloc(t)
      BY <3>9 DEF DoWritePrealloc, Skip, TypeOK, entryVars, lockVars, diskVars, reqVars
    <3>10. CASE DoWriteNoSpace(t) BY <3>10 DEF DoWriteNoSpace, TypeOK, lockVars, diskVars, reqVars
    <3>11. CASE DoWriteBlocks(t)
      <4>1. id[t] \in FileIDs \union {NoID} BY DEF TypeOK
      <4> QED BY <4>1, <3>11 DEF DoWriteBlocks, TypeOK, entryVars, lockVars, reqVars
    <3> QED BY <2>2, <3>1, <3>2, <3>3, <3>4, <3>5, <3>6, <3>7, <3>8, <3>9, <3>10, <3>11 DEF DoWrite
  <2>3. CASE FtruncateZero(t) BY <2>3 DEF FtruncateZero, TypeOK, entryVars, lockVars, reqVars
  <2>4. CASE TruncateClearID(t) BY <2>4 DEF TruncateClearID, TypeOK, lockVars, diskVars, reqVars
  <2> QED BY <2>1, <2>2, <2>3, <2>4 DEF Work
<1>7. byPath' \in BOOLEAN BY WorkKeepsByPath DEF TypeOK
<1> QED BY <1>1, <1>3, <1>6, <1>7 DEF Local, TypeOK

----------------------------------------------------------------------------
(* Locks.                                                                  *)

LEMMA BeginControl ==
    ASSUME ControlInv, NEW t \in Threads, NEW h \in Handles,
           NEW o \in {"read", "write", "truncate"}, Begin(t, h, o)
    PROVE  ControlInv'
<1> USE DEF ControlInv
<1>0. pc \in [Threads -> Labels] /\ op \in [Threads -> {"read", "write", "truncate",
   "pathTruncate"}]
      /\ on \in [Threads -> Handles \union {None}] /\ fdReaders \in [Handles -> SUBSET Threads]
  BY DEF TypeOK
<1>1. TypeOK'
  BY DEF TypeOK, Begin, Goto, Labels, entryVars, diskVars
<1>2. \A u \in Threads : /\ pc'[u] = IF u = t THEN "lock" ELSE pc[u]
                         /\ op'[u] = IF u = t THEN o ELSE op[u]
                         /\ on'[u] = IF u = t THEN h ELSE on[u]
  BY <1>0 DEF Begin, Goto
<1>3. \A g \in Handles : fdReaders'[g] = IF g = h THEN fdReaders[g] \union {t} ELSE fdReaders[g]
  BY Zenon, <1>0 DEF Begin
<1>4. RequestOK'
  <2>1. "lock" \in LabelsOf(o) BY DEF LabelsOf, Labels
  <2> QED BY <1>2, <1>3, <2>1 DEF RequestOK, Begin
<1>5. PrivateOK' BY <1>2 DEF PrivateOK
<1>6. TableOK' BY DEF TableOK, LiveHandles, Begin, entryVars
<1>7. LockOK'
  <2>1. \A u \in Threads : Active(u)' => u # t /\ Active(u) /\ EntryOf(u)' = EntryOf(u) /\ op'[u] = op[u]
    BY <1>2 DEF Active, EntryOf, Begin
  <2> QED BY <2>1 DEF LockOK, Begin
<1> QED BY <1>1, <1>4, <1>5, <1>6, <1>7

LEMMA ContentLockControl ==
    ASSUME ControlInv, NEW t \in Threads, ContentRLock(t) \/ ContentLock(t)
    PROVE  ControlInv'
<1> USE LockingAssumption DEF ControlInv
<1>0. pc \in [Threads -> Labels] /\ writer \in [Entries -> Threads \union {None}]
      /\ readers \in [Entries -> SUBSET Threads]
      /\ op[t] \in {"read", "write", "truncate", "pathTruncate"}
  BY DEF TypeOK
<1>1. EntryOf(t) \in Entries
  BY EntryOfIsEntry DEF ContentRLock, ContentLock
<1>2. PICK label \in LabelsOf(op[t]) \ {"lock"} : pc' = [pc EXCEPT ![t] = label]
  <2>1. op[t] # "pathTruncate" BY DEF RequestOK, LabelsOf, ContentRLock, ContentLock
  <2> QED BY <2>1, <1>0 DEF ContentRLock, ContentLock, Goto, LabelsOf, Labels
<1>3. label \in Labels /\ label # "idle" BY <1>2, <1>0 DEF LabelsOf, Labels
<1>4. \A u \in Threads : pc'[u] = IF u = t THEN label ELSE pc[u] BY <1>0, <1>2
<1>5. UNCHANGED << table, refCount, handle, fdReaders, op, on >>
  BY DEF ContentRLock, ContentLock, entryVars, reqVars
<1>6. TypeOK'
  <2>1. pc' \in [Threads -> Labels] BY <1>0, <1>2, <1>3
  <2>2. CASE ContentRLock(t)
    <3>1. readers' \in [Entries -> SUBSET Threads] BY <1>0, <1>1, <2>2 DEF ContentRLock
    <3> QED BY <2>1, <2>2, <3>1 DEF TypeOK, ContentRLock, entryVars, reqVars, diskVars
  <2>3. CASE ContentLock(t)
    <3>1. writer' \in [Entries -> Threads \union {None}] BY <1>0, <1>1, <2>3 DEF ContentLock
    <3> QED BY <2>1, <2>3, <3>1 DEF TypeOK, ContentLock, entryVars, reqVars, diskVars
  <2> QED BY <2>2, <2>3
<1>7. pc[t] # "idle" BY DEF ContentRLock, ContentLock
<1>8. RequestOK' BY <1>2, <1>4, <1>5, <1>7 DEF RequestOK
<1>9. PrivateOK' BY <1>3, <1>4, <1>5, <1>7 DEF PrivateOK
<1>10. TableOK' BY <1>5 DEF TableOK, LiveHandles
<1>11. LockOK'
  <2>1. \A u \in Threads : /\ EntryOf(u)' = EntryOf(u) /\ op'[u] = op[u]
                           /\ u # t => Active(u)' = Active(u)
    BY <1>4, <1>5 DEF Active, EntryOf
  <2>2. \A u \in Threads : Active(u) => EntryOf(u) \in Entries
    BY EntryOfIsEntry DEF Active
  <2>3. CASE ContentRLock(t)
    <3>1. \A e \in Entries : readers'[e] = IF e = EntryOf(t) THEN readers[e] \union {t} ELSE readers[e]
      BY Zenon, <2>3, <1>0 DEF ContentRLock
    <3>2. UNCHANGED writer /\ writer[EntryOf(t)] = None /\ op[t] = "read"
      BY <2>3 DEF ContentRLock
    <3>3. \A e \in Entries : writer'[e] # None => readers'[e] = {}
      BY Zenon, <3>1, <3>2 DEF LockOK
    <3>4. \A u \in Threads : Active(u)' /\ op'[u] = "read" => u \in readers'[EntryOf(u)']
      <4> SUFFICES ASSUME NEW u \in Threads, Active(u)', op'[u] = "read"
                   PROVE  u \in readers'[EntryOf(u)']
        OBVIOUS
      <4>1. CASE u = t BY Zenon, <4>1, <3>1, <1>1, <2>1
      <4>2. CASE u # t
        <5>1. u \in readers[EntryOf(u)] /\ EntryOf(u) \in Entries
          BY <4>2, <2>1, <2>2 DEF LockOK
        <5>2. u \in readers'[EntryOf(u)] BY Zenon, <5>1, <3>1
        <5> QED BY <5>2, <2>1
      <4> QED BY <4>1, <4>2
    <3> QED BY <3>2, <3>3, <3>4, <2>1 DEF LockOK
  <2>4. CASE ContentLock(t)
    <3>1. \A e \in Entries : writer'[e] = IF e = EntryOf(t) THEN t ELSE writer[e]
      BY <2>4, <1>0 DEF ContentLock
    <3>2. UNCHANGED readers /\ writer[EntryOf(t)] = None /\ readers[EntryOf(t)] = {} /\ op[t] # "read"
      BY <2>4 DEF ContentLock
    <3>3. \A e \in Entries : writer'[e] # None => readers'[e] = {}
      BY <3>1, <3>2 DEF LockOK
    <3>4. \A u \in Threads : Active(u)' /\ op'[u] \in {"write",
       "truncate"} => writer'[EntryOf(u)'] = u
      <4> SUFFICES ASSUME NEW u \in Threads, Active(u)', op'[u] \in {"write", "truncate"}
                   PROVE  writer'[EntryOf(u)'] = u
        OBVIOUS
      <4>1. CASE u = t BY <4>1, <3>1, <1>1, <2>1
      <4>2. CASE u # t
        <5>1. writer[EntryOf(u)] = u BY <4>2, <2>1 DEF LockOK
        <5>2. EntryOf(u) # EntryOf(t) BY <5>1, <3>2
        <5> QED BY <4>2, <5>1, <5>2, <3>1, <2>1, <2>2
      <4> QED BY <4>1, <4>2
    <3>5. \A u \in Threads : Active(u)' /\ op'[u] = "read" => u \in readers'[EntryOf(u)']
      <4> SUFFICES ASSUME NEW u \in Threads, Active(u)', op'[u] = "read"
                   PROVE  u \in readers'[EntryOf(u)']
        OBVIOUS
      <4>1. u # t BY <3>2, <2>1
      <4>2. u \in readers[EntryOf(u)] BY <4>1, <2>1 DEF LockOK
      <4> QED BY <4>1, <4>2, <3>2, <2>1
    <3> QED BY <3>3, <3>4, <3>5 DEF LockOK
  <2> QED BY <2>3, <2>4
<1> QED BY <1>6, <1>8, <1>9, <1>10, <1>11


----------------------------------------------------------------------------
(* The open file table.                                                    *)

LEMMA LiveHandlesFinite ==
    TypeOK => IsFiniteSet(LiveHandles) /\ Cardinality(LiveHandles) \in Nat
<1> SUFFICES ASSUME TypeOK PROVE IsFiniteSet(LiveHandles) /\ Cardinality(LiveHandles) \in Nat
  OBVIOUS
<1>1. LiveHandles \subseteq Handles BY DEF LiveHandles
<1>2. IsFiniteSet(Handles) BY LockingAssumption
<1>3. IsFiniteSet(LiveHandles) BY <1>1, <1>2, FS_Subset
<1> QED BY <1>3, FS_CardinalityType

\* Register keeps the count and gives every live File object the same entry.
LEMMA RegisterTable ==
    ASSUME TypeOK, TableOK, NEW h \in Handles, handle[h].st = "closed",
           NEW st \in {"open", "private"}, Register(h, st)
    PROVE  /\ TableOK'
           /\ table' \in Entries
           /\ refCount' \in [Entries -> Nat]
           /\ ID' \in [Entries -> FileIDs \union {NoID}]
           /\ handle' = [handle EXCEPT ![h] = [st |-> st, entry |-> table']]
<1> USE LockingAssumption
<1>0. PICK e \in Entries : table' = e /\ handle' = [handle EXCEPT ![h] = [st |-> st, entry |-> e]]
  BY DEF Register, TypeOK, Unreferenced
<1>1. handle \in [Handles -> [st : {"closed", "open", "private", "released"},
                              entry : Entries \union {None}]]
  BY DEF TypeOK
<1>2. \A g \in Handles : handle'[g] = IF g = h THEN [st |-> st, entry |-> e] ELSE handle[g]
  BY <1>0, <1>1
<1>3. LiveHandles' = LiveHandles \union {h} /\ h \notin LiveHandles
  BY <1>2 DEF LiveHandles
<1>4. Cardinality(LiveHandles') = Cardinality(LiveHandles) + 1
  BY Zenon, <1>3, LiveHandlesFinite, FS_AddElement
<1>5. CASE table # None
  <2>1. e = table /\ refCount' = [refCount EXCEPT ![table] = @ + 1] /\ ID' = ID
    BY <1>0, <1>5 DEF Register
  <2>2. refCount'[table] = Cardinality(LiveHandles')
    BY <2>1, <1>0, <1>4, <1>5, LiveHandlesFinite DEF TableOK, TypeOK
  <2>3. TableOK' BY <1>0, <1>2, <1>3, <2>1, <2>2, SMTT(20) DEF TableOK, LiveHandles
  <2> QED BY <2>1, <2>3, <1>0 DEF TypeOK
<1>6. CASE table = None
  <2>1. LiveHandles = {} BY <1>6 DEF TableOK, LiveHandles
  <2>2. refCount' = [refCount EXCEPT ![e] = 1] /\ ID' = [ID EXCEPT ![e] = NoID]
    BY Zenon, <1>0, <1>6 DEF Register
  <2>3. Cardinality(LiveHandles') = 1 BY <1>4, <2>1, FS_EmptySet
  <2>4. TableOK' BY <1>0, <1>2, <1>3, <2>1, <2>2, <2>3, SMTT(20) DEF TableOK, LiveHandles, TypeOK
  <2> QED BY <1>0, <2>2, <2>4 DEF TypeOK
<1> QED BY <1>5, <1>6

\* Unregister keeps the count, and drops the entry with the last File object.
LEMMA UnregisterTable ==
    ASSUME TypeOK, TableOK, NEW h \in LiveHandles, Unregister,
           NEW r \in [st : {"closed", "released"}, entry : Entries \union {None}],
           r.st = "released" => r.entry = handle[h].entry,
           handle' = [handle EXCEPT ![h] = r]
    PROVE  /\ TableOK'
           /\ table' \in Entries \union {None}
           /\ refCount' \in [Entries -> Nat]
<1> USE LockingAssumption
<1>1. handle \in [Handles -> [st : {"closed", "open", "private", "released"},
                              entry : Entries \union {None}]] /\ h \in Handles
  BY DEF TypeOK, LiveHandles
<1>2. \A g \in Handles : handle'[g] = IF g = h THEN r ELSE handle[g] BY <1>1
<1>3. LiveHandles' = LiveHandles \ {h} BY <1>2 DEF LiveHandles
<1>4. Cardinality(LiveHandles') = Cardinality(LiveHandles) - 1
      /\ Cardinality(LiveHandles') \in Nat /\ IsFiniteSet(LiveHandles')
  BY <1>3, LiveHandlesFinite, FS_RemoveElement, FS_CardinalityType
<1>5. handle[h].entry \in Entries /\ table = handle[h].entry
  BY <1>1 DEF TableOK, LiveHandles
<1>6. table \in Entries /\ refCount[table] = Cardinality(LiveHandles)
  BY <1>5 DEF TableOK
<1>7. refCount'[table] = Cardinality(LiveHandles') /\ refCount' \in [Entries -> Nat]
  BY <1>4, <1>6, LiveHandlesFinite, SMTT(20) DEF Unregister, TypeOK
<1>8. \A g \in Handles : handle'[g].st # "closed" => handle'[g].entry \in Entries
  BY <1>2, <1>5, SMTT(20) DEF TableOK
<1>9. CASE refCount[table] = 1
  <2>1. LiveHandles' = {} BY <1>4, <1>6, <1>9, FS_EmptySet, SMTT(20)
  <2>2. table' = None BY <1>9 DEF Unregister
  <2> QED BY <1>7, <1>8, <2>1, <2>2 DEF TableOK
<1>10. CASE refCount[table] # 1
  <2>1. LiveHandles' # {} BY <1>4, <1>6, <1>10, FS_EmptySet, LiveHandlesFinite
  <2>2. table' = table BY <1>10 DEF Unregister
  <2>3. \A g \in LiveHandles' : handle'[g].entry = table BY <1>2, <1>3 DEF TableOK, LiveHandles
  <2> QED BY <1>6, <1>7, <1>8, <2>1, <2>2, <2>3 DEF TableOK
<1> QED BY <1>9, <1>10


----------------------------------------------------------------------------
(* File objects come and go.                                               *)

\* A File object that no request works on can change.
LEMMA HandleStep ==
    ASSUME ControlInv, NEW h \in Handles, NEW r, handle' = [handle EXCEPT ![h] = r],
           \A t \in Threads : pc[t] # "idle" => on[t] # h,
           UNCHANGED << writer, readers, fdReaders, pc, op, on >>
    PROVE  RequestOK' /\ PrivateOK' /\ LockOK'
<1> USE DEF ControlInv
<1>1. \A t \in Threads : pc[t] # "idle" => handle'[on[t]] = handle[on[t]]
  BY DEF TypeOK, RequestOK
<1>2. RequestOK' BY Zenon, <1>1 DEF RequestOK
<1>3. PrivateOK' BY DEF PrivateOK
<1>4. \A t \in Threads : Active(t)' = Active(t) /\ (Active(t) => EntryOf(t)' = EntryOf(t))
  BY Zenon, <1>1 DEF Active, EntryOf
<1>5. LockOK' BY <1>4 DEF LockOK
<1> QED BY <1>2, <1>3, <1>5

LEMMA OpenControl ==
    ASSUME ControlInv, NEW h \in Handles, Open(h)
    PROVE  ControlInv'
<1>1. \A t \in Threads : pc[t] # "idle" => on[t] # h
  BY EntryOfIsEntry DEF ControlInv, Open
<1>2. /\ TableOK' /\ table' \in Entries /\ refCount' \in [Entries -> Nat]
      /\ ID' \in [Entries -> FileIDs \union {NoID}]
      /\ handle' = [handle EXCEPT ![h] = [st |-> "open", entry |-> table']]
  BY RegisterTable DEF ControlInv, Open
<1>3. UNCHANGED << lockVars, diskVars, pc, reqVars >> BY DEF Open
<1>4. TypeOK' BY <1>2, <1>3 DEF ControlInv, TypeOK, lockVars, diskVars, reqVars
<1>5. RequestOK' /\ PrivateOK' /\ LockOK'
  BY Zenon, <1>1, <1>2, <1>3, HandleStep DEF lockVars, reqVars
<1> QED BY <1>2, <1>4, <1>5 DEF ControlInv

\* The fdLock a request holds keeps its File object from being closed.
LEMMA Unused ==
    ASSUME ControlInv, NEW h \in Handles, handle[h].st # "private", fdReaders[h] = {},
           NEW t \in Threads, pc[t] # "idle"
    PROVE  on[t] # h
BY DEF ControlInv, RequestOK

LEMMA ReleaseControl ==
    ASSUME ControlInv, NEW h \in Handles, Release(h)
    PROVE  ControlInv'
<1>1. \A t \in Threads : pc[t] # "idle" => on[t] # h BY Unused DEF Release
<1> DEFINE r == [st |-> "released", entry |-> handle[h].entry]
<1>2. handle \in [Handles -> [st : {"closed", "open", "private", "released"},
                              entry : Entries \union {None}]]
  BY DEF ControlInv, TypeOK
<1>3. handle' = [handle EXCEPT ![h] = r] /\ r.st = "released" /\ r.entry = handle[h].entry
      /\ r \in [st : {"closed", "released"}, entry : Entries \union {None}]
  BY <1>2 DEF Release
<1>4. h \in LiveHandles /\ Unregister BY DEF Release, LiveHandles
<1> HIDE DEF r
<1>5. TableOK' /\ table' \in Entries \union {None} /\ refCount' \in [Entries -> Nat]
  BY Zenon, <1>3, <1>4, UnregisterTable DEF ControlInv
<1>6. UNCHANGED << lockVars, diskVars, pc, reqVars, ID >> BY DEF Release, Unregister
<1>7. handle' \in [Handles -> [st : {"closed", "open", "private", "released"},
                               entry : Entries \union {None}]]
  BY <1>2, <1>3
<1>8. TypeOK' BY <1>5, <1>6, <1>7 DEF ControlInv, TypeOK, lockVars, diskVars, reqVars
<1>9. RequestOK' /\ PrivateOK' /\ LockOK'
  BY Zenon, <1>1, <1>3, <1>6, HandleStep DEF lockVars, reqVars
<1> QED BY <1>5, <1>8, <1>9 DEF ControlInv

LEMMA CollectControl ==
    ASSUME ControlInv, NEW h \in Handles, Collect(h)
    PROVE  ControlInv'
<1>1. \A t \in Threads : pc[t] # "idle" => on[t] # h BY Unused DEF Collect
<1> DEFINE r == [st |-> "closed", entry |-> None]
<1>2. handle' = [handle EXCEPT ![h] = r] BY DEF Collect
<1>3. UNCHANGED << entryVars, lockVars, diskVars, pc, reqVars >> BY DEF Collect
<1>4. TypeOK' BY <1>2, <1>3 DEF ControlInv, TypeOK, lockVars, diskVars, reqVars, entryVars
<1>5. \A g \in Handles : handle'[g] = IF g = h THEN r ELSE handle[g]
  BY <1>2 DEF ControlInv, TypeOK
<1>6. LiveHandles' = LiveHandles
  <2>1. handle'[h].st \notin {"open", "private"} /\ handle[h].st \notin {"open", "private"}
    BY <1>5 DEF Collect
  <2>2. \A g \in Handles : handle'[g].st \in {"open", "private"} <=> handle[g].st \in {"open",
     "private"}
    BY <2>1, <1>5, SMTT(20)
  <2> QED BY Zenon, <2>2 DEF LiveHandles
<1>7. TableOK'
  <2>1. \A g \in LiveHandles : handle'[g] = handle[g] BY <1>5 DEF LiveHandles, Collect
  <2>2. \A g \in Handles : handle'[g].st # "closed" => handle'[g].entry \in Entries
    BY <1>5 DEF ControlInv, TableOK
  <2> QED BY <1>3, <1>6, <2>1, <2>2 DEF ControlInv, TableOK, entryVars
<1>8. RequestOK' /\ PrivateOK' /\ LockOK'
  BY Zenon, <1>1, <1>2, <1>3, HandleStep DEF lockVars, reqVars
<1> QED BY <1>4, <1>7, <1>8 DEF ControlInv

LEMMA BeginPathControl ==
    ASSUME ControlInv, NEW t \in Threads, NEW h \in Handles, BeginPath(t, h)
    PROVE  ControlInv'
<1>1. \A u \in Threads : pc[u] # "idle" => on[u] # h
  BY EntryOfIsEntry DEF ControlInv, BeginPath
<1>2. /\ TableOK' /\ table' \in Entries /\ refCount' \in [Entries -> Nat]
      /\ ID' \in [Entries -> FileIDs \union {NoID}]
      /\ handle' = [handle EXCEPT ![h] = [st |-> "private", entry |-> table']]
  BY RegisterTable DEF ControlInv, BeginPath
<1>3. UNCHANGED << lockVars, hdr, body, id, wasEmpty >> BY DEF BeginPath
<1>4. TypeOK' BY <1>2, <1>3 DEF BeginPath, Goto, Labels, ControlInv, TypeOK, lockVars
<1>5. \A u \in Threads : /\ pc'[u] = IF u = t THEN "ftruncate0" ELSE pc[u]
                         /\ op'[u] = IF u = t THEN "pathTruncate" ELSE op[u]
                         /\ on'[u] = IF u = t THEN h ELSE on[u]
  BY DEF ControlInv, TypeOK, BeginPath, Goto
<1>6. \A g \in Handles : g # h => handle'[g] = handle[g]
  BY <1>2 DEF ControlInv, TypeOK
<1>7. handle'[h].st = "private" BY <1>2 DEF ControlInv, TypeOK
<1>8. RequestOK'
  <2> SUFFICES ASSUME NEW u \in Threads, pc'[u] # "idle"
               PROVE /\ on'[u] \in Handles
                     /\ pc'[u] \in LabelsOf(op'[u])
                     /\ op'[u] = "pathTruncate" => handle'[on'[u]].st = "private"
                     /\ op'[u] # "pathTruncate" => u \in fdReaders'[on'[u]]
                     /\ op'[u] = "read" => handle'[on'[u]].st \in {"open", "released"}
                     /\ op'[u] \in {"write", "truncate"} => handle'[on'[u]].st = "open"
    BY DEF RequestOK
  <2>1. CASE u = t BY <2>1, <1>5, <1>7 DEF LabelsOf
  <2>2. CASE u # t
    <3>1. pc'[u] = pc[u] /\ op'[u] = op[u] /\ on'[u] = on[u] BY <2>2, <1>5
    <3>2. on[u] \in Handles /\ on[u] # h BY <3>1, <1>1 DEF ControlInv, RequestOK
    <3>3. handle'[on[u]] = handle[on[u]] BY <3>2, <1>6
    <3>4. fdReaders' = fdReaders BY <1>3 DEF lockVars
    <3> QED BY <3>1, <3>3, <3>4 DEF ControlInv, RequestOK
  <2> QED BY Zenon, <2>1, <2>2
<1>9. PrivateOK' BY <1>1, <1>5 DEF ControlInv, PrivateOK
<1>10. LockOK'
  <2>1. \A u \in Threads : Active(u)' /\ op'[u] # "pathTruncate" =>
           Active(u) /\ op'[u] = op[u] /\ EntryOf(u)' = EntryOf(u)
    <3> SUFFICES ASSUME NEW u \in Threads, Active(u)', op'[u] # "pathTruncate"
                 PROVE  Active(u) /\ op'[u] = op[u] /\ EntryOf(u)' = EntryOf(u)
      OBVIOUS
    <3>1. u # t BY <1>5
    <3>2. pc'[u] = pc[u] /\ op'[u] = op[u] /\ on'[u] = on[u] BY <3>1, <1>5
    <3>3. Active(u) BY <3>2 DEF Active
    <3>4. on[u] \in Handles /\ on[u] # h BY <3>3, <1>1 DEF Active, ControlInv, RequestOK
    <3>5. handle'[on[u]] = handle[on[u]] BY <3>4, <1>6
    <3> QED BY <3>2, <3>3, <3>5 DEF EntryOf
  <2> QED BY <2>1, <1>3 DEF ControlInv, LockOK, lockVars
<1> QED BY <1>2, <1>4, <1>8, <1>9, <1>10 DEF ControlInv


LEMMA UnlockControl ==
    ASSUME ControlInv, NEW t \in Threads, Unlock(t)
    PROVE  ControlInv'
<1> USE LockingAssumption
<1>0. pc[t] = "done" BY DEF Unlock
<1>1. on[t] \in Handles /\ EntryOf(t) \in Entries
  BY <1>0, EntryOfIsEntry DEF ControlInv
<1>2. \A u \in Threads : /\ pc'[u] = IF u = t THEN "idle" ELSE pc[u]
                         /\ op'[u] = IF u = t THEN "read" ELSE op[u]
                         /\ on'[u] = IF u = t THEN None ELSE on[u]
  BY DEF ControlInv, TypeOK, Unlock, Goto
<1>3. /\ \A e \in Entries : writer'[e] = IF e = EntryOf(t) /\ writer[e] = t THEN None ELSE writer[e]
      /\ \A e \in Entries : readers'[e] = IF e = EntryOf(t) THEN readers[e] \ {t} ELSE readers[e]
      /\ \A h \in Handles : fdReaders'[h] = IF h = on[t] THEN fdReaders[h] \ {t} ELSE fdReaders[h]
  BY Zenon, <1>1 DEF ControlInv, TypeOK, Unlock
<1>4. /\ writer' \in [Entries -> Threads \union {None}]
      /\ readers' \in [Entries -> SUBSET Threads]
      /\ fdReaders' \in [Handles -> SUBSET Threads]
      /\ pc' \in [Threads -> Labels]
      /\ op' \in [Threads -> {"read", "write", "truncate", "pathTruncate"}]
      /\ on' \in [Threads -> Handles \union {None}]
      /\ id' \in [Threads -> FileIDs \union {NoID}]
      /\ wasEmpty' \in [Threads -> BOOLEAN]
  <2>1. writer' \in [Entries -> Threads \union {None}] BY <1>1 DEF ControlInv, TypeOK, Unlock
  <2>2. readers' \in [Entries -> SUBSET Threads] BY <1>1 DEF ControlInv, TypeOK, Unlock
  <2>3. fdReaders' \in [Handles -> SUBSET Threads] BY <1>1 DEF ControlInv, TypeOK, Unlock
  <2> QED BY <2>1, <2>2, <2>3 DEF ControlInv, TypeOK, Unlock, Goto, Labels
<1>5. /\ TableOK'
      /\ table' \in Entries \union {None} /\ refCount' \in [Entries -> Nat] /\ ID' = ID
      /\ handle' \in [Handles -> [st : {"closed", "open", "private", "released"},
                                  entry : Entries \union {None}]]
      /\ \A u \in Threads : u # t /\ pc[u] # "idle" => handle'[on[u]] = handle[on[u]]
  <2>1. CASE op[t] = "pathTruncate"
    <3> DEFINE r == [st |-> "closed", entry |-> None]
    <3>1. handle' = [handle EXCEPT ![on[t]] = r] /\ Unregister BY <2>1 DEF Unlock
    <3>2. on[t] \in LiveHandles BY <1>0, <1>1, <2>1 DEF ControlInv, RequestOK, LiveHandles
    <3>3. TableOK' /\ table' \in Entries \union {None} /\ refCount' \in [Entries -> Nat]
      BY Zenon, <3>1, <3>2, UnregisterTable DEF ControlInv
    <3>4. ASSUME NEW u \in Threads, u # t, pc[u] # "idle" PROVE on[u] # on[t] /\ on[u] \in Handles
      <4>1. op[u] \in {"read", "write", "truncate", "pathTruncate"} BY DEF ControlInv, TypeOK
      <4> QED BY <4>1, <3>4, <2>1, <1>0 DEF ControlInv, RequestOK, PrivateOK
    <3>5. \A u \in Threads : u # t /\ pc[u] # "idle" => handle'[on[u]] = handle[on[u]]
      BY <3>1, <3>4 DEF ControlInv, TypeOK
    <3> QED BY Zenon, <3>1, <3>3, <3>5 DEF ControlInv, TypeOK, Unregister
  <2>2. CASE op[t] # "pathTruncate"
    BY <2>2 DEF Unlock, entryVars, ControlInv, TypeOK, TableOK, LiveHandles
  <2> QED BY <2>1, <2>2
<1>6. TypeOK' BY <1>4, <1>5 DEF ControlInv, TypeOK, Unlock, diskVars
<1>7. RequestOK'
  <2> SUFFICES ASSUME NEW u \in Threads, pc'[u] # "idle"
               PROVE /\ on'[u] \in Handles
                     /\ pc'[u] \in LabelsOf(op'[u])
                     /\ op'[u] = "pathTruncate" => handle'[on'[u]].st = "private"
                     /\ op'[u] # "pathTruncate" => u \in fdReaders'[on'[u]]
                     /\ op'[u] = "read" => handle'[on'[u]].st \in {"open", "released"}
                     /\ op'[u] \in {"write", "truncate"} => handle'[on'[u]].st = "open"
    BY DEF RequestOK
  <2>1. u # t /\ pc'[u] = pc[u] /\ op'[u] = op[u] /\ on'[u] = on[u] BY <1>2
  <2>2. handle'[on[u]] = handle[on[u]] BY <2>1, <1>5
  <2>3. /\ on[u] \in Handles
        /\ pc[u] \in LabelsOf(op[u])
        /\ op[u] = "pathTruncate" => handle[on[u]].st = "private"
        /\ op[u] # "pathTruncate" => u \in fdReaders[on[u]]
        /\ op[u] = "read" => handle[on[u]].st \in {"open", "released"}
        /\ op[u] \in {"write", "truncate"} => handle[on[u]].st = "open"
    BY <2>1 DEF ControlInv, RequestOK
  <2>4. u \in fdReaders[on[u]] => u \in fdReaders'[on[u]] BY Zenon, <2>1, <2>3, <1>3
  <2> QED BY Zenon, <2>1, <2>2, <2>3, <2>4
<1>8. PrivateOK' BY <1>2 DEF ControlInv, PrivateOK
<1>9. LockOK'
  <2>1. ASSUME NEW u \in Threads, Active(u)'
        PROVE  /\ u # t /\ Active(u) /\ op'[u] = op[u]
               /\ EntryOf(u)' = EntryOf(u) /\ EntryOf(u) \in Entries
    <3>1. u # t /\ Active(u) /\ op'[u] = op[u] /\ on'[u] = on[u] BY <2>1, <1>2 DEF Active
    <3>2. EntryOf(u) \in Entries BY <3>1, EntryOfIsEntry DEF ControlInv, Active
    <3>3. handle'[on[u]] = handle[on[u]] BY <3>1, <1>5 DEF Active
    <3>4. EntryOf(u)' = EntryOf(u) BY <3>1, <3>3 DEF EntryOf
    <3> QED BY <3>1, <3>2, <3>4
  <2>2. ASSUME NEW u \in Threads, Active(u)', op'[u] \in {"write", "truncate"}
        PROVE  writer'[EntryOf(u)'] = u
    <3>1. writer[EntryOf(u)] = u BY <2>1, <2>2 DEF ControlInv, LockOK
    <3>2. writer'[EntryOf(u)] = u BY <3>1, <2>1, <2>2, <1>3
    <3> QED BY <3>2, <2>1, <2>2
  <2>3. ASSUME NEW u \in Threads, Active(u)', op'[u] = "read"
        PROVE  u \in readers'[EntryOf(u)']
    <3>1. u \in readers[EntryOf(u)] BY <2>1, <2>3 DEF ControlInv, LockOK
    <3>2. u \in readers'[EntryOf(u)] BY Zenon, <3>1, <2>1, <2>3, <1>3
    <3> QED BY <3>2, <2>1, <2>3
  <2>4. \A e \in Entries : writer'[e] # None => readers'[e] = {}
    BY <1>3 DEF ControlInv, LockOK
  <2> QED BY <2>2, <2>3, <2>4 DEF LockOK
<1> QED BY <1>5, <1>6, <1>7, <1>8, <1>9 DEF ControlInv

----------------------------------------------------------------------------

LEMMA ControlInit == Init => ControlInv
<1> SUFFICES ASSUME Init PROVE ControlInv OBVIOUS
<1> USE LockingAssumption DEF Init
<1>1. TypeOK BY Zenon DEF TypeOK, Labels
<1>2. RequestOK /\ PrivateOK BY DEF RequestOK, PrivateOK
<1>3. TableOK BY DEF TableOK, LiveHandles
<1>4. LockOK BY DEF LockOK, Active
<1> QED BY <1>1, <1>2, <1>3, <1>4 DEF ControlInv

LEMMA ControlStep == ControlInv /\ [Next]_vars => ControlInv'
<1> SUFFICES ASSUME ControlInv, [Next]_vars PROVE ControlInv' OBVIOUS
<1>1. ASSUME NEW h \in Handles, Open(h) \/ Release(h) \/ Collect(h) PROVE ControlInv'
  BY <1>1, OpenControl, ReleaseControl, CollectControl
<1>2. ASSUME NEW t \in Threads, NEW h \in Handles, Arrive(t, h) PROVE ControlInv'
  BY <1>2, BeginControl, BeginPathControl DEF Arrive
<1>3. ASSUME NEW t \in Threads, Work(t) PROVE ControlInv'
  BY <1>3, WorkType, WorkIsLocal, LocalControl DEF ControlInv
<1>4. ASSUME NEW t \in Threads, Proceed(t) PROVE ControlInv'
  BY <1>3, <1>4, ContentLockControl, UnlockControl DEF Proceed, Work
<1>5. CASE UNCHANGED vars
  <2> USE <1>5 DEF vars, entryVars, lockVars, diskVars, reqVars, ControlInv
  <2>1. TypeOK' BY DEF TypeOK
  <2>2. RequestOK' BY Zenon DEF RequestOK
  <2>3. PrivateOK' BY DEF PrivateOK
  <2>4. TableOK' BY DEF TableOK, LiveHandles
  <2>5. LockOK' BY DEF LockOK, Active, EntryOf
  <2> QED BY <2>1, <2>2, <2>3, <2>4, <2>5
<1> QED BY <1>1, <1>2, <1>4, <1>5 DEF Next

LEMMA ControlInvariant == Spec => []ControlInv
BY ControlInit, ControlStep, PTL DEF Spec

\* The open file table, the locks and the requests keep their types.
THEOREM TypeCorrect == Spec => []TypeOK
<1>1. ControlInv => TypeOK BY DEF ControlInv
<1> QED BY <1>1, ControlInvariant, PTL

\* Register and Unregister keep one entry per inode for as long as it is open,
\* with truncation by path or without.
THEOREM TableCorrect == Spec => []OneEntryPerInode
<1>1. ControlInv => OneEntryPerInode BY DEF ControlInv, TableOK, OneEntryPerInode
<1> QED BY <1>1, ControlInvariant, PTL

\* ContentLock gives a writer the file for itself, through whichever File
\* object the requests came.
THEOREM MutualExclusion == Spec => []WritersAreAlone
<1>1. ControlInv => WritersAreAlone
  <2> SUFFICES ASSUME ControlInv, NEW t \in Threads, NEW u \in Threads,
                      Active(t), op[t] \in {"write", "truncate"},
                      Active(u), op[u] # "pathTruncate", ~Closed(u)
               PROVE  t = u
    BY DEF WritersAreAlone
  <2> USE DEF ControlInv
  <2>1. on[t] \in Handles /\ on[u] \in Handles /\ EntryOf(t) \in Entries
    BY EntryOfIsEntry DEF Active
  <2>2. op[u] \in {"read", "write", "truncate"} BY DEF TypeOK
  <2>3. handle[on[t]].st = "open" /\ handle[on[u]].st = "open"
    BY <2>2 DEF RequestOK, Active, Closed
  <2>4. EntryOf(t) = table /\ EntryOf(u) = table
    BY <2>1, <2>3 DEF TableOK, LiveHandles, EntryOf
  <2>5. writer[EntryOf(t)] = t /\ t # None BY LockingAssumption DEF LockOK
  <2>6. readers[EntryOf(t)] = {} BY <2>1, <2>5 DEF LockOK
  <2> QED BY <2>2, <2>4, <2>5, <2>6 DEF LockOK
<1> QED BY <1>1, ControlInvariant, PTL

\* Release waits for every request that modifies the file.
THEOREM ReleaseWaits == Spec => []NoCloseUnderWriter
<1>1. ControlInv => NoCloseUnderWriter
  <2> SUFFICES ASSUME ControlInv, NEW t \in Threads, pc[t] # "idle", op[t] # "read"
               PROVE  on[t] \in LiveHandles
    BY DEF NoCloseUnderWriter
  <2>1. op[t] \in {"write", "truncate", "pathTruncate"} BY DEF ControlInv, TypeOK
  <2> QED BY <2>1 DEF ControlInv, RequestOK, LiveHandles
<1> QED BY <1>1, ControlInvariant, PTL

=============================================================================

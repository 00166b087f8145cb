---------------------------- MODULE FileIDProofs ----------------------------
(***************************************************************************)
(* Proofs about the file ID in FileLocking: until the file is truncated by *)
(* its path, ContentLock alone keeps the cached ID, the header and the     *)
(* blocks together, for any number of requests and File objects.           *)
(***************************************************************************)
EXTENDS FileLockingProofs

BodyOK == body # {} => hdr \in FileIDs /\ body = {hdr}

CacheOK ==
    table # None /\ ID[table] # NoID =>
        ID[table] = hdr \/ \E t \in Threads : pc[t] = "clearID"

\* What a request knows at each of its steps.
ThreadOK(t) ==
    /\ op[t] # "pathTruncate"
    /\ pc[t] \in {"idle", "lock", "writeID"} => ~wasEmpty[t]
    /\ op[t] = "write" /\ wasEmpty[t] /\ pc[t] # "done" => body = {}
    /\ pc[t] = "storeID" => op[t] = "read" /\ ~Closed(t)
    /\ pc[t] \in {"storeID", "readAt"} /\ ~Closed(t) => id[t] = hdr /\ hdr \in FileIDs
    /\ pc[t] = "setID" => id[t] = hdr /\ hdr \in FileIDs
    /\ op[t] = "write" /\ pc[t] \in {"readID", "readAt", "encrypt", "prealloc", "writeAt"}
          => ID[table] = hdr /\ hdr \in FileIDs
    /\ pc[t] \in {"prealloc", "writeAt"} => id[t] = hdr
    /\ pc[t] \in {"createHeader", "rollback"} => body = {} /\ ID[table] = NoID
    /\ pc[t] = "clearID" => hdr = NoID /\ body = {}

DiskInv == ControlInv /\ BodyOK /\ CacheOK /\ \A t \in Threads : ThreadOK(t)

LEMMA DiskInit == Init => DiskInv
<1> SUFFICES ASSUME Init PROVE DiskInv OBVIOUS
<1>1. ControlInv BY ControlInit
<1>2. BodyOK /\ CacheOK BY DEF Init, BodyOK, CacheOK
<1>3. \A t \in Threads : ThreadOK(t) BY DEF Init, ThreadOK
<1> QED BY <1>1, <1>2, <1>3 DEF DiskInv

----------------------------------------------------------------------------

\* A writer's entry is the registered one.
LEMMA WriterEntry ==
    ASSUME ControlInv, NEW t \in Threads, pc[t] # "idle",
           op[t] \in {"write", "truncate"} \/ (op[t] = "read" /\ ~Closed(t))
    PROVE  EntryOf(t) = table /\ table \in Entries /\ ~Closed(t)
<1> USE DEF ControlInv
<1>1. on[t] \in Handles /\ EntryOf(t) \in Entries BY EntryOfIsEntry
<1>2. handle[on[t]].st = "open" BY DEF RequestOK, Closed
<1> QED BY <1>1, <1>2 DEF TableOK, LiveHandles, EntryOf, Closed

\* While a writer is inside, the other requests are outside or are Reads of a
\* File object that is already closed.
LEMMA Others ==
    ASSUME DiskInv, NEW t \in Threads, Active(t), op[t] \in {"write", "truncate"},
           NEW u \in Threads, u # t
    PROVE  \/ pc[u] \in {"idle", "lock"}
           \/ op[u] = "read" /\ Closed(u) /\ pc[u] \in {"readID", "readAt", "done"}
<1> SUFFICES ASSUME Active(u)
             PROVE  op[u] = "read" /\ Closed(u) /\ pc[u] \in {"readID", "readAt", "done"}
  BY DEF Active
<1> USE DEF DiskInv, ControlInv
<1>1. pc[u] # "idle" /\ pc[t] # "idle" /\ op[u] # "pathTruncate" BY DEF Active, ThreadOK
<1>2. op[u] \in {"read", "write", "truncate"} BY <1>1 DEF TypeOK
<1>3. writer[EntryOf(t)] = t /\ t # None BY LockingAssumption DEF LockOK
<1>4. EntryOf(t) = table /\ table \in Entries BY <1>1, WriterEntry
<1>5. readers[EntryOf(t)] = {} BY <1>3, <1>4, LockingAssumption DEF LockOK
<1>6. op[u] = "read" /\ Closed(u)
  <2>1. CASE op[u] \in {"write", "truncate"}
    <3>1. EntryOf(u) = table BY <1>1, <2>1, WriterEntry
    <3>2. writer[EntryOf(u)] = u BY <2>1 DEF LockOK
    <3> QED BY <1>3, <1>4, <3>1, <3>2
  <2>2. CASE op[u] = "read" /\ ~Closed(u)
    <3>1. EntryOf(u) = table BY <1>1, <2>2, WriterEntry
    <3>2. u \in readers[EntryOf(u)] BY <2>2 DEF LockOK
    <3> QED BY <1>4, <1>5, <3>1, <3>2
  <2> QED BY <1>2, <2>1, <2>2
<1>7. pc[u] \in LabelsOf("read") BY <1>1, <1>6 DEF RequestOK
<1>8. pc[u] # "storeID" BY <1>6 DEF ThreadOK
<1> QED BY <1>6, <1>7, <1>8 DEF LabelsOf, Active

\* What they know does not depend on what the writer changes.
LEMMA OthersKeep ==
    ASSUME DiskInv, NEW t \in Threads, Active(t), op[t] \in {"write", "truncate"},
           NEW u \in Threads, u # t,
           pc'[u] = pc[u], id'[u] = id[u], wasEmpty'[u] = wasEmpty[u],
           UNCHANGED << handle, op, on >>
    PROVE  ThreadOK(u)'
<1>1. \/ pc[u] \in {"idle", "lock"}
      \/ op[u] = "read" /\ Closed(u) /\ pc[u] \in {"readID", "readAt", "done"}
  BY Others
<1>2. op[u] # "pathTruncate" /\ (pc[u] \in {"idle", "lock", "writeID"} => ~wasEmpty[u])
  BY DEF DiskInv, ThreadOK
<1>3. Closed(u)' = Closed(u) BY DEF Closed
<1> QED BY <1>1, <1>2, <1>3 DEF ThreadOK

\* While a Read of an open File object is inside, there is no writer.
LEMMA NoWriter ==
    ASSUME DiskInv, NEW t \in Threads, Active(t), op[t] = "read", ~Closed(t),
           NEW u \in Threads
    PROVE  ~(Active(u) /\ op[u] \in {"write", "truncate"})
<1> SUFFICES ASSUME Active(u), op[u] \in {"write", "truncate"} PROVE FALSE
  OBVIOUS
<1>1. \/ pc[t] \in {"idle", "lock"}
      \/ op[t] = "read" /\ Closed(t) /\ pc[t] \in {"readID", "readAt", "done"}
  BY Others
<1> QED BY <1>1 DEF Active

----------------------------------------------------------------------------
(* A step of a writer.                                                     *)

\* It is enough to look at the header, the cache and the writer itself.
LEMMA WriterFrame ==
    ASSUME DiskInv, NEW t \in Threads, Work(t), op[t] \in {"write", "truncate"},
           NEW label \in Labels, pc' = [pc EXCEPT ![t] = label],
           \A u \in Threads : u # t => id'[u] = id[u] /\ wasEmpty'[u] = wasEmpty[u],
           BodyOK', CacheOK', ThreadOK(t)'
    PROVE  DiskInv'
<1>1. Local(t) BY WorkIsLocal DEF DiskInv
<1>2. ControlInv' BY WorkType, WorkIsLocal, LocalControl DEF DiskInv, ControlInv
<1>3. \A u \in Threads : u # t => pc'[u] = pc[u] BY DEF DiskInv, ControlInv, TypeOK
<1>4. ASSUME NEW u \in Threads, u # t PROVE ThreadOK(u)'
  BY <1>1, <1>3, <1>4, OthersKeep DEF Local
<1> QED BY <1>2, <1>4 DEF DiskInv

LEMMA WriterKnows ==
    ASSUME DiskInv, NEW t \in Threads, Work(t), op[t] \in {"write", "truncate"}
    PROVE  /\ EntryOf(t) = table /\ table \in Entries /\ table # None /\ ~Closed(t)
           /\ pc[t] \in LabelsOf(op[t]) /\ pc[t] # "idle"
           /\ pc[t] # "clearID" => \A u \in Threads : pc[u] # "clearID"
           /\ UNCHANGED << table, refCount, handle, op, on >>
           /\ Closed(t)' = Closed(t)
<1>1. Local(t) BY WorkIsLocal DEF DiskInv
<1>2. pc[t] # "idle" BY <1>1 DEF Local, Active
<1>3. EntryOf(t) = table /\ table \in Entries /\ ~Closed(t)
  BY <1>2, WriterEntry DEF DiskInv
<1>4. pc[t] \in LabelsOf(op[t]) BY <1>2 DEF DiskInv, ControlInv, RequestOK
<1>5. \A u \in Threads : u # t => pc[u] # "clearID" BY <1>1, Others DEF Local
<1>6. Closed(t)' = Closed(t) BY <1>1 DEF Local, Closed
<1> QED BY <1>1, <1>2, <1>3, <1>4, <1>5, <1>6, LockingAssumption DEF Local

LEMMA DoWriteDisk ==
    ASSUME DiskInv, NEW t \in Threads, DoWrite(t)
    PROVE  DiskInv'
<1>0. Work(t) BY DEF Work
<1>1. op[t] = "write"
  <2>1. Local(t) BY <1>0, WorkIsLocal DEF DiskInv
  <2>2. pc[t] \in LabelsOf(op[t]) BY <2>1 DEF DiskInv, ControlInv, RequestOK, Local, Active
  <2>3. pc[t] \in {"writeID", "createHeader", "setID", "encrypt", "prealloc", "writeAt"}
    BY DEF DoWrite, DoWriteCached, DoWriteHeader, DoWriteCorrupt, DoWriteEmpty, CreateHeader,
           CreateHeaderNoSpace, DoWriteSetID, DoWriteEncrypt, DoWritePrealloc, DoWriteNoSpace,
           DoWriteBlocks
  <2>4. op[t] \in {"read", "write", "truncate", "pathTruncate"}
    BY DEF DiskInv, ControlInv, TypeOK
  <2> QED BY <2>2, <2>3, <2>4 DEF LabelsOf
<1>2. /\ EntryOf(t) = table /\ table \in Entries /\ table # None /\ ~Closed(t)
      /\ pc[t] # "clearID" => \A u \in Threads : pc[u] # "clearID"
      /\ UNCHANGED << table, refCount, handle, op, on >>
      /\ Closed(t)' = Closed(t)
  BY <1>0, <1>1, WriterKnows
<1>3. /\ pc \in [Threads -> Labels] /\ id \in [Threads -> FileIDs \union {NoID}]
      /\ wasEmpty \in [Threads -> BOOLEAN] /\ ID \in [Entries -> FileIDs \union {NoID}]
      /\ hdr \in FileIDs \union {NoID, ZeroID}
  BY DEF DiskInv, ControlInv, TypeOK
<1>4. ThreadOK(t) /\ BodyOK /\ CacheOK BY DEF DiskInv
<1>5. NoID \notin FileIDs /\ ZeroID \notin FileIDs BY LockingAssumption
<1> USE <1>2, <1>3, <1>4, <1>5
<1>6. CASE DoWriteCached(t)
  <2>1. ID[table] = hdr /\ hdr \in FileIDs
    BY <1>6 DEF DoWriteCached, CacheOK
  <2>2. PICK label \in {"readID", "encrypt"} : pc' = [pc EXCEPT ![t] = label]
    BY Zenon, <1>6 DEF DoWriteCached, Skip, Goto
  <2>3. UNCHANGED << entryVars, diskVars, reqVars >> BY <1>6 DEF DoWriteCached, Skip
  <2>4. BodyOK' /\ CacheOK' BY <2>1, <2>3 DEF BodyOK, CacheOK, entryVars, diskVars
  <2>5. ThreadOK(t)'
    BY <1>6, <2>1, <2>2, <2>3 DEF DoWriteCached, ThreadOK, entryVars, diskVars, reqVars
  <2> QED BY Zenon, <1>0, <1>1, <2>2, <2>3, <2>4, <2>5, WriterFrame DEF Labels, reqVars
<1>7. CASE DoWriteHeader(t)
  <2>1. hdr \in FileIDs BY <1>7 DEF DoWriteHeader, readFileID
  <2>2. pc' = [pc EXCEPT ![t] = "setID"] BY <1>7 DEF DoWriteHeader, Goto
  <2>3. UNCHANGED << entryVars, diskVars >> /\ id' = [id EXCEPT ![t] = hdr] /\ wasEmpty' = wasEmpty
    BY <1>7 DEF DoWriteHeader
  <2>4. BodyOK' /\ CacheOK' BY <2>3, <1>7 DEF BodyOK, CacheOK, entryVars, diskVars, DoWriteHeader
  <2>5. ThreadOK(t)'
    BY <1>7, <2>1, <2>2, <2>3 DEF DoWriteHeader, ThreadOK, entryVars, diskVars
  <2> QED BY Zenon, <1>0, <1>1, <2>2, <2>3, <2>4, <2>5, WriterFrame DEF Labels
<1>8. CASE DoWriteCorrupt(t) \/ CreateHeaderNoSpace(t)
  <2>1. pc' = [pc EXCEPT ![t] = "done"] /\ UNCHANGED << entryVars, diskVars, reqVars >>
    BY <1>8 DEF DoWriteCorrupt, CreateHeaderNoSpace, Skip, Goto
  <2>2. BodyOK' BY <2>1 DEF BodyOK, diskVars
  <2>3. ID[table] = NoID BY <1>8 DEF DoWriteCorrupt, CreateHeaderNoSpace, ThreadOK
  <2>4. CacheOK' BY <2>1, <2>3 DEF CacheOK, entryVars
  <2>5. ThreadOK(t)' BY <1>1, <2>1 DEF ThreadOK, reqVars
  <2> QED BY Zenon, <1>0, <1>1, <2>1, <2>2, <2>4, <2>5, WriterFrame DEF Labels, reqVars
<1>9. CASE DoWriteEmpty(t)
  <2>1. pc' = [pc EXCEPT ![t] = "createHeader"] /\ wasEmpty' = [wasEmpty EXCEPT ![t] = TRUE]
        /\ UNCHANGED << entryVars, diskVars, id >>
    BY <1>9 DEF DoWriteEmpty, Goto
  <2>2. body = {} /\ ID[table] = NoID
    BY <1>9 DEF DoWriteEmpty, readFileID, BodyOK
  <2>3. BodyOK' /\ CacheOK' BY <2>1, <2>2 DEF BodyOK, CacheOK, entryVars, diskVars
  <2>4. ThreadOK(t)' BY <1>1, <2>1, <2>2 DEF ThreadOK, entryVars, diskVars
  <2> QED BY Zenon, <1>0, <1>1, <2>1, <2>3, <2>4, WriterFrame DEF Labels
<1>10. CASE CreateHeader(t)
  <2>1. PICK new \in FileIDs : hdr' = new /\ id' = [id EXCEPT ![t] = new]
    BY Zenon, <1>10 DEF CreateHeader, FreshIDs
  <2>2. pc' = [pc EXCEPT ![t] = "setID"] /\ UNCHANGED << entryVars, body, wasEmpty >>
    BY <1>10 DEF CreateHeader, Goto
  <2>3. body = {} /\ ID[table] = NoID BY <1>10 DEF CreateHeader, ThreadOK
  <2>4. BodyOK' /\ CacheOK' BY <2>2, <2>3 DEF BodyOK, CacheOK, entryVars
  <2>5. ThreadOK(t)' BY <1>1, <2>1, <2>2, <2>3 DEF ThreadOK, entryVars
  <2> QED BY Zenon, <1>0, <1>1, <2>1, <2>2, <2>4, <2>5, WriterFrame DEF Labels
<1>11. CASE DoWriteSetID(t)
  <2>1. PICK label \in {"readID", "encrypt"} : pc' = [pc EXCEPT ![t] = label]
    BY ZenonT(30), <1>11 DEF DoWriteSetID, Goto
  <2>2. ID' = [ID EXCEPT ![table] = id[t]] /\ UNCHANGED << diskVars, reqVars >>
    BY <1>11 DEF DoWriteSetID
  <2>3. id[t] = hdr /\ hdr \in FileIDs BY <1>11 DEF DoWriteSetID, ThreadOK
  <2>4. ID'[table] = hdr BY <2>2, <2>3
  <2>5. BodyOK' /\ CacheOK' BY <2>2, <2>4 DEF BodyOK, CacheOK, diskVars
  <2>6. ThreadOK(t)'
    BY <1>1, <1>11, <2>1, <2>2, <2>3, <2>4 DEF DoWriteSetID, ThreadOK, diskVars, reqVars
  <2> QED BY Zenon, <1>0, <1>1, <2>1, <2>2, <2>5, <2>6, WriterFrame DEF Labels, reqVars
<1>12. CASE DoWriteEncrypt(t)
  <2>1. pc' = [pc EXCEPT ![t] = "prealloc"] /\ id' = [id EXCEPT ![t] = ID[table]]
        /\ UNCHANGED << entryVars, diskVars, wasEmpty >>
    BY <1>12 DEF DoWriteEncrypt, Goto
  <2>2. ID[table] = hdr /\ hdr \in FileIDs BY <1>1, <1>12 DEF DoWriteEncrypt, ThreadOK
  <2>3. BodyOK' /\ CacheOK' BY <2>1, <2>2 DEF BodyOK, CacheOK, entryVars, diskVars
  <2>4. ThreadOK(t)'
    BY <1>1, <1>12, <2>1, <2>2 DEF DoWriteEncrypt, ThreadOK, entryVars, diskVars
  <2> QED BY Zenon, <1>0, <1>1, <2>1, <2>3, <2>4, WriterFrame DEF Labels
<1>13. CASE DoWritePrealloc(t)
  <2>1. pc' = [pc EXCEPT ![t] = "writeAt"] /\ UNCHANGED << entryVars, diskVars, reqVars >>
    BY <1>13 DEF DoWritePrealloc, Skip, Goto
  <2>2. ID[table] = hdr /\ hdr \in FileIDs BY <1>1, <1>13 DEF DoWritePrealloc, ThreadOK
  <2>3. BodyOK' /\ CacheOK' BY <2>1, <2>2 DEF BodyOK, CacheOK, entryVars, diskVars
  <2>4. ThreadOK(t)'
    BY <1>1, <1>13, <2>1, <2>2 DEF DoWritePrealloc, ThreadOK, entryVars, diskVars, reqVars
  <2> QED BY Zenon, <1>0, <1>1, <2>1, <2>3, <2>4, WriterFrame DEF Labels, reqVars
<1>14. CASE DoWriteNoSpace(t)
  <2>1. UNCHANGED << diskVars, reqVars >> BY <1>14 DEF DoWriteNoSpace
  <2>2. ID[table] = hdr BY <1>1, <1>14 DEF DoWriteNoSpace, ThreadOK
  <2>3. BodyOK' BY <2>1 DEF BodyOK, diskVars
  <2>4. CASE wasEmpty[t]
    <3>1. ID' = [ID EXCEPT ![table] = NoID] /\ pc' = [pc EXCEPT ![t] = "rollback"]
      BY <1>14, <2>4 DEF DoWriteNoSpace, Goto
    <3>2. body = {} /\ ID'[table] = NoID BY <1>1, <1>14, <2>4, <3>1 DEF DoWriteNoSpace, ThreadOK
    <3>3. CacheOK' BY <3>2 DEF CacheOK
    <3>4. ThreadOK(t)' BY <1>1, <2>1, <3>1, <3>2 DEF ThreadOK, diskVars, reqVars
    <3> QED BY Zenon, <1>0, <1>1, <2>1, <2>3, <3>1, <3>3, <3>4, WriterFrame DEF Labels, reqVars
  <2>5. CASE ~wasEmpty[t]
    <3>1. ID' = ID /\ pc' = [pc EXCEPT ![t] = "done"]
      BY <1>14, <2>5 DEF DoWriteNoSpace, Goto
    <3>2. CacheOK' BY <2>1, <2>2, <3>1 DEF CacheOK, diskVars
    <3>3. ThreadOK(t)' BY <1>1, <2>1, <3>1 DEF ThreadOK, reqVars
    <3> QED BY Zenon, <1>0, <1>1, <2>1, <2>3, <3>1, <3>2, <3>3, WriterFrame DEF Labels, reqVars
  <2> QED BY <2>4, <2>5
<1>15. CASE DoWriteBlocks(t)
  <2>1. id[t] = hdr /\ hdr \in FileIDs /\ ID[table] = hdr
    BY <1>1, <1>15 DEF DoWriteBlocks, ThreadOK
  <2>2. pc' = [pc EXCEPT ![t] = "done"] /\ hdr' = hdr /\ body' = body \union {hdr}
        /\ UNCHANGED << entryVars, reqVars >>
    BY <1>15, <2>1 DEF DoWriteBlocks, Goto
  <2>3. BodyOK' BY <2>1, <2>2 DEF BodyOK
  <2>4. CacheOK' BY <2>1, <2>2 DEF CacheOK, entryVars
  <2>5. ThreadOK(t)' BY <1>1, <2>2 DEF ThreadOK, reqVars
  <2> QED BY Zenon, <1>0, <1>1, <2>2, <2>3, <2>4, <2>5, WriterFrame DEF Labels, reqVars
<1> QED BY <1>6, <1>7, <1>8, <1>9, <1>10, <1>11, <1>12, <1>13, <1>14, <1>15 DEF DoWrite


LEMMA TruncateDisk ==
    ASSUME DiskInv, NEW t \in Threads, FtruncateZero(t) \/ TruncateClearID(t)
    PROVE  DiskInv'
<1>0. Work(t) BY DEF Work
<1>1. op[t] \in {"write", "truncate"} /\ pc[t] \in LabelsOf(op[t])
  <2>1. Local(t) BY <1>0, WorkIsLocal DEF DiskInv
  <2>2. pc[t] \in LabelsOf(op[t]) BY <2>1 DEF DiskInv, ControlInv, RequestOK, Local, Active
  <2>3. pc[t] \in {"rollback", "ftruncate0", "clearID"} BY DEF FtruncateZero, TruncateClearID
  <2>4. op[t] \in {"read", "write", "truncate", "pathTruncate"} /\ op[t] # "pathTruncate"
    BY DEF DiskInv, ControlInv, TypeOK, ThreadOK
  <2> QED BY <2>2, <2>3, <2>4 DEF LabelsOf
<1>2. /\ EntryOf(t) = table /\ table \in Entries /\ table # None /\ ~Closed(t)
      /\ pc[t] # "clearID" => \A u \in Threads : pc[u] # "clearID"
      /\ UNCHANGED << table, refCount, handle, op, on >>
      /\ Closed(t)' = Closed(t)
  BY <1>0, <1>1, WriterKnows
<1>3. pc \in [Threads -> Labels] /\ ID \in [Entries -> FileIDs \union {NoID}]
  BY DEF DiskInv, ControlInv, TypeOK
<1>4. ThreadOK(t) /\ BodyOK /\ CacheOK BY DEF DiskInv
<1> USE <1>2, <1>3, <1>4
<1>5. CASE FtruncateZero(t)
  <2>1. hdr' = NoID /\ body' = {} /\ UNCHANGED << entryVars, reqVars >> BY <1>5 DEF FtruncateZero
  <2>2. BodyOK' BY <2>1 DEF BodyOK
  <2>3. CASE pc[t] = "rollback"
    <3>1. pc' = [pc EXCEPT ![t] = "done"] BY <1>5, <2>3 DEF FtruncateZero, Goto
    <3>2. CacheOK' BY <2>1, <2>3 DEF ThreadOK, CacheOK, entryVars
    <3>3. ThreadOK(t)' BY <1>1, <2>1, <3>1 DEF ThreadOK, reqVars
    <3> QED BY Zenon, <1>0, <1>1, <2>1, <2>2, <3>1, <3>2, <3>3, WriterFrame DEF Labels, reqVars
  <2>4. CASE pc[t] = "ftruncate0"
    <3>1. pc' = [pc EXCEPT ![t] = "clearID"] BY <1>5, <2>4 DEF FtruncateZero, Goto
    <3>2. pc'[t] = "clearID" BY <3>1
    <3>3. CacheOK' BY <3>2 DEF CacheOK
    <3>4. ThreadOK(t)' BY <1>1, <2>1, <3>2 DEF ThreadOK, reqVars
    <3> QED BY Zenon, <1>0, <1>1, <2>1, <2>2, <3>1, <3>3, <3>4, WriterFrame DEF Labels, reqVars
  <2> QED BY <1>5, <2>3, <2>4 DEF FtruncateZero
<1>6. CASE TruncateClearID(t)
  <2>1. ID' = [ID EXCEPT ![table] = NoID] /\ pc' = [pc EXCEPT ![t] = "done"]
        /\ UNCHANGED << diskVars, reqVars >>
    BY <1>6 DEF TruncateClearID, Goto
  <2>2. BodyOK' BY <2>1 DEF BodyOK, diskVars
  <2>3. ID'[table] = NoID BY <2>1
  <2>4. CacheOK' BY <2>3 DEF CacheOK
  <2>5. ThreadOK(t)' BY <1>1, <2>1 DEF ThreadOK, reqVars
  <2> QED BY Zenon, <1>0, <1>1, <2>1, <2>2, <2>4, <2>5, WriterFrame DEF Labels, reqVars
<1> QED BY <1>5, <1>6

----------------------------------------------------------------------------
(* A step of doRead, for a Read or inside a Write.                         *)

LEMMA DoReadDisk ==
    ASSUME DiskInv, NEW t \in Threads, DoRead(t)
    PROVE  DiskInv'
<1>0. Work(t) BY DEF Work
<1>1. Local(t) BY <1>0, WorkIsLocal DEF DiskInv
<1>2. ControlInv' BY <1>0, WorkType, WorkIsLocal, LocalControl DEF DiskInv, ControlInv
<1>3. pc[t] \in LabelsOf(op[t]) /\ pc[t] \in {"readID", "storeID", "readAt"}
  BY <1>1 DEF DiskInv, ControlInv, RequestOK, Local, Active, DoRead, DoReadCached, DoReadHeader,
              DoReadNoHeader, DoReadStoreID, DoReadBlocks
<1>4. op[t] \in {"read", "write"}
  <2>1. op[t] \in {"read", "write", "truncate", "pathTruncate"} BY DEF DiskInv, ControlInv, TypeOK
  <2> QED BY <2>1, <1>3 DEF LabelsOf
<1>5. /\ pc \in [Threads -> Labels] /\ id \in [Threads -> FileIDs \union {NoID}]
      /\ ID \in [Entries -> FileIDs \union {NoID}]
  BY DEF DiskInv, ControlInv, TypeOK
<1>6. ThreadOK(t) /\ BodyOK /\ CacheOK BY DEF DiskInv
<1>7. UNCHANGED << table, handle, op, on >> BY <1>1 DEF Local
<1>8. \A u \in Threads : Closed(u)' = Closed(u) BY <1>7 DEF Closed
<1>9. UNCHANGED << hdr, body, wasEmpty >>
  BY Zenon DEF DoRead, DoReadCached, DoReadHeader, DoReadNoHeader, DoReadStoreID, DoReadBlocks,
         Skip, diskVars, reqVars
<1>10. BodyOK' BY <1>6, <1>9 DEF BodyOK
<1>11. NoID \notin FileIDs BY LockingAssumption
<1>12. ~Closed(t) => EntryOf(t) = table /\ table \in Entries /\ table # None
  BY <1>1, <1>4, WriterEntry, LockingAssumption DEF DiskInv, Local, Active
<1>13. op[t] = "write" => ~Closed(t) /\ ID[table] = hdr /\ hdr \in FileIDs /\ pc[t] # "storeID"
  BY ZenonT(30), <1>1, <1>3, <1>6, WriterEntry DEF ThreadOK, DiskInv, Local, Active
<1>14. ~Closed(t) => \A u \in Threads : pc[u] # "clearID"
  <2> SUFFICES ASSUME ~Closed(t), NEW u \in Threads, pc[u] = "clearID" PROVE FALSE
    OBVIOUS
  <2>1. pc[u] \in LabelsOf(op[u]) /\ op[u] \in {"read", "write", "truncate"}
    BY DEF DiskInv, ControlInv, RequestOK, TypeOK, ThreadOK
  <2>2. op[u] = "truncate" /\ Active(u) BY <2>1 DEF LabelsOf, Active
  <2>3. u # t BY Zenon, <1>3
  <2>4. CASE op[t] = "read" BY <2>2, <2>4, <1>1, NoWriter DEF Local
  <2>5. CASE op[t] = "write" BY <2>3, <2>5, <1>1, Others DEF Local
  <2> QED BY Zenon, <1>4, <2>4, <2>5
<1>15. ASSUME NEW label \in Labels, pc' = [pc EXCEPT ![t] = label], label # "clearID",
              pc[t] # "clearID", ID' = ID
       PROVE  CacheOK'
  <2>1. \A u \in Threads : pc[u] = "clearID" => pc'[u] = "clearID" BY <1>15, <1>5
  <2> QED BY <2>1, <1>15, <1>6, <1>7, <1>9 DEF CacheOK
<1>16. ASSUME NEW u \in Threads, u # t, id'[u] = id[u], pc'[u] = pc[u],
              ID' = ID \/ (op[t] = "read" /\ ~Closed(t))
       PROVE  ThreadOK(u)'
  <2>1. ThreadOK(u) BY DEF DiskInv
  <2>2. CASE ID' = ID BY <2>1, <2>2, <1>7, <1>8, <1>9, <1>16 DEF ThreadOK
  <2>3. CASE op[t] = "read" /\ ~Closed(t)
    <3>1. ~(Active(u) /\ op[u] \in {"write", "truncate"}) BY <2>3, <1>1, NoWriter DEF Local
    <3>2. op[u] \in {"read", "write", "truncate"} BY <2>1 DEF ThreadOK, DiskInv, ControlInv, TypeOK
    <3>3. pc[u] \in {"idle", "lock"} \/ op[u] = "read" BY <3>1, <3>2 DEF Active
    <3>4. pc[u] \in {"idle", "lock"} \/ pc[u] \in LabelsOf("read")
      BY <3>3 DEF DiskInv, ControlInv, RequestOK
    <3> QED BY <2>1, <3>3, <3>4, <1>7, <1>8, <1>9, <1>16 DEF ThreadOK, LabelsOf
  <2> QED BY <2>2, <2>3, <1>16
<1>17. CASE DoReadCached(t)
  <2>1. pc' = [pc EXCEPT ![t] = "readAt"] /\ id' = [id EXCEPT ![t] = ID[EntryOf(t)]] /\ ID' = ID
    BY <1>17 DEF DoReadCached, Goto, entryVars
  <2>2. ID[EntryOf(t)] # NoID /\ pc[t] = "readID" BY <1>17 DEF DoReadCached
  <2>3. CacheOK' BY <2>1, <2>2, <1>15 DEF Labels
  <2>4. ~Closed(t) => ID[table] = hdr /\ hdr \in FileIDs
    BY <2>2, <1>5, <1>6, <1>12, <1>14 DEF CacheOK
  <2>5. ThreadOK(t)'
    BY <2>1, <2>2, <2>4, <1>4, <1>5, <1>6, <1>7, <1>8, <1>9, <1>12, <1>13 DEF ThreadOK
  <2> QED BY <2>1, <2>3, <2>5, <1>2, <1>5, <1>10, <1>16 DEF DiskInv
<1>18. CASE DoReadHeader(t)
  <2>1. pc' = [pc EXCEPT ![t] = "storeID"] /\ id' = [id EXCEPT ![t] = hdr] /\ ID' = ID
    BY <1>18 DEF DoReadHeader, Goto, entryVars
  <2>2. ID[EntryOf(t)] = NoID /\ pc[t] = "readID" /\ ~Closed(t) /\ hdr \in FileIDs
    BY <1>18, <1>11 DEF DoReadHeader, readFileID
  <2>3. CacheOK' BY <2>1, <2>2, <1>15 DEF Labels
  <2>4. op[t] = "read" BY <2>2, <1>4, <1>11, <1>12, <1>13
  <2>5. ThreadOK(t)'
    BY <2>1, <2>2, <2>4, <1>5, <1>6, <1>7, <1>8, <1>9 DEF ThreadOK
  <2> QED BY <2>1, <2>3, <2>5, <1>2, <1>5, <1>10, <1>16 DEF DiskInv
<1>19. CASE DoReadNoHeader(t) \/ DoReadBlocks(t)
  <2>1. id' = id /\ ID' = ID /\ pc[t] # "clearID"
    BY <1>19 DEF DoReadNoHeader, DoReadBlocks, Skip, entryVars, reqVars
  <2>2. PICK label \in {"encrypt", "done"} : pc' = [pc EXCEPT ![t] = label]
        /\ (label = "encrypt" => op[t] = "write")
    BY <1>19 DEF DoReadNoHeader, DoReadBlocks, Skip, Goto
  <2>3. CacheOK' BY Zenon, <2>1, <2>2, <1>15 DEF Labels
  <2>4. ThreadOK(t)'
    BY <2>1, <2>2, <1>3, <1>4, <1>5, <1>6, <1>7, <1>8, <1>9, <1>13 DEF ThreadOK
  <2> QED BY <2>1, <2>2, <2>3, <2>4, <1>2, <1>5, <1>10, <1>16 DEF DiskInv
<1>20. CASE DoReadStoreID(t)
  <2>1. pc' = [pc EXCEPT ![t] = "readAt"] /\ id' = id /\ ID' = [ID EXCEPT ![EntryOf(t)] = id[t]]
    BY <1>20 DEF DoReadStoreID, Goto, reqVars
  <2>2. op[t] = "read" /\ ~Closed(t) /\ id[t] = hdr /\ hdr \in FileIDs
    BY <1>20, <1>6 DEF DoReadStoreID, ThreadOK
  <2>3. ID'[table] = hdr BY <2>1, <2>2, <1>5, <1>12
  <2>4. CacheOK' BY <2>3, <1>7, <1>9 DEF CacheOK
  <2>5. ThreadOK(t)'
    BY <2>1, <2>2, <1>5, <1>6, <1>7, <1>8, <1>9 DEF ThreadOK
  <2> QED BY <2>1, <2>2, <2>4, <2>5, <1>2, <1>5, <1>10, <1>16 DEF DiskInv
<1> QED BY <1>17, <1>18, <1>19, <1>20 DEF DoRead


----------------------------------------------------------------------------
(* Locks, and File objects that come and go.                               *)

\* Requests that need the cached ID to be right hold the registered entry.
LEMMA WriterLabels ==
    ASSUME DiskInv, NEW u \in Threads,
           \/ op[u] = "write" /\ pc[u] \in {"readID", "readAt", "encrypt", "prealloc", "writeAt"}
           \/ pc[u] \in {"createHeader", "rollback"}
    PROVE  op[u] = "write" /\ pc[u] # "idle" /\ EntryOf(u) = table /\ table \in Entries
<1>1. op[u] \in {"read", "write", "truncate"} BY DEF DiskInv, ControlInv, TypeOK, ThreadOK
<1>2. pc[u] # "idle" /\ pc[u] \in LabelsOf(op[u]) BY DEF DiskInv, ControlInv, RequestOK
<1>3. op[u] = "write" BY <1>1, <1>2 DEF LabelsOf
<1> QED BY <1>2, <1>3, WriterEntry DEF DiskInv

LEMMA LockDisk ==
    ASSUME DiskInv, NEW t \in Threads,
           (\E h \in Handles, o \in {"read", "write", "truncate"} : Begin(t, h, o))
              \/ ContentRLock(t) \/ ContentLock(t) \/ Unlock(t)
    PROVE  DiskInv'
<1> USE DEF DiskInv
<1>1. ControlInv' BY BeginControl, ContentLockControl, UnlockControl
<1>2. UNCHANGED << hdr, body >>
  BY DEF Begin, ContentRLock, ContentLock, Unlock, diskVars
<1>3. PICK label \in {"idle", "lock", "readID", "writeID", "ftruncate0"} :
         pc' = [pc EXCEPT ![t] = label]
  BY DEF Begin, ContentRLock, ContentLock, Unlock, Goto
<1>4. pc \in [Threads -> Labels] /\ op \in [Threads -> {"read", "write", "truncate",
   "pathTruncate"}]
      /\ on \in [Threads -> Handles \union {None}] /\ id \in [Threads -> FileIDs \union {NoID}]
      /\ wasEmpty \in [Threads -> BOOLEAN]
  BY DEF ControlInv, TypeOK
<1>5. pc[t] # "clearID" BY DEF Begin, ContentRLock, ContentLock, Unlock
<1>6. ID' = ID /\ handle' = handle /\ table' = table
  BY Zenon DEF Begin, ContentRLock, ContentLock, Unlock, entryVars, ThreadOK
<1>7. \A u \in Threads : pc'[u] = IF u = t THEN label ELSE pc[u] BY <1>3, <1>4
<1>8. BodyOK' BY <1>2 DEF BodyOK
<1>9. CacheOK' BY <1>2, <1>5, <1>6, <1>7 DEF CacheOK
<1>10. ASSUME NEW u \in Threads, u # t PROVE ThreadOK(u)'
  <2>1. op'[u] = op[u] /\ on'[u] = on[u] /\ id'[u] = id[u] /\ wasEmpty'[u] = wasEmpty[u]
    BY <1>4, <1>10 DEF Begin, ContentRLock, ContentLock, Unlock, reqVars
  <2>2. ThreadOK(u) /\ pc'[u] = pc[u] BY <1>7, <1>10
  <2>3. Closed(u)' = Closed(u) BY <2>1, <1>6 DEF Closed
  <2> QED BY ZenonT(30), <2>1, <2>2, <2>3, <1>2, <1>6 DEF ThreadOK
<1>11. ThreadOK(t)'
  <2>1. ThreadOK(t) /\ pc'[t] = label BY <1>7
  <2>2. CASE \E h \in Handles, o \in {"read", "write", "truncate"} : Begin(t, h, o)
    <3>1. op'[t] \in {"read", "write", "truncate"} /\ pc[t] = "idle" /\ pc'[t] = "lock"
          /\ wasEmpty' = wasEmpty
      BY Zenon, <2>2, <1>4 DEF Begin, Goto
    <3> QED BY ZenonT(30), <2>1, <3>1 DEF ThreadOK
  <2>3. CASE ContentRLock(t)
    <3>1. op'[t] = "read" /\ pc'[t] = "readID"
      BY <2>3, <1>4 DEF ContentRLock, Goto, reqVars
    <3> QED BY <3>1 DEF ThreadOK
  <2>4. CASE ContentLock(t)
    <3>1. op'[t] = op[t] /\ pc'[t] \in {"writeID", "ftruncate0"} /\ pc[t] = "lock"
          /\ wasEmpty' = wasEmpty
      BY <2>4, <1>4 DEF ContentLock, Goto, reqVars
    <3> QED BY ZenonT(30), <2>1, <3>1 DEF ThreadOK
  <2>5. CASE Unlock(t)
    <3>1. op'[t] = "read" /\ pc'[t] = "idle" /\ ~wasEmpty'[t] BY <2>5, <1>4 DEF Unlock, Goto
    <3> QED BY <3>1 DEF ThreadOK
  <2> QED BY <2>2, <2>3, <2>4, <2>5
<1> QED BY <1>1, <1>8, <1>9, <1>10, <1>11

LEMMA HandleDisk ==
    ASSUME DiskInv, NEW h \in Handles, Open(h) \/ Release(h) \/ Collect(h)
    PROVE  DiskInv'
<1> USE DEF DiskInv
<1>1. ControlInv' BY OpenControl, ReleaseControl, CollectControl
<1>2. UNCHANGED << hdr, body, pc, op, on, id, wasEmpty >>
  BY DEF Open, Release, Collect, diskVars, reqVars
<1>3. BodyOK' BY <1>2 DEF BodyOK
<1>4. \A u \in Threads : pc[u] # "idle" => on[u] # h /\ on[u] \in Handles
  <2>0. ASSUME NEW u \in Threads, pc[u] # "idle"
        PROVE  on[u] \in Handles /\ handle[on[u]].st # "closed"
    BY <2>0, EntryOfIsEntry DEF ControlInv
  <2>1. CASE Open(h)
    <3>1. handle[h].st = "closed" BY <2>1 DEF Open
    <3> QED BY <2>0, <3>1
  <2>2. CASE Release(h) \/ Collect(h)
    BY <2>2, Unused, EntryOfIsEntry DEF ControlInv, Release, Collect
  <2> QED BY <2>1, <2>2
<1>5. \A g \in Handles : g # h => handle'[g] = handle[g]
  BY RegisterTable DEF Open, Release, Collect, ControlInv, TypeOK
<1>6. \A u \in Threads : pc[u] # "idle" => handle'[on'[u]] = handle[on[u]]
  BY <1>2, <1>4, <1>5
<1>7. /\ table' \notin {table, None} => ID'[table'] = NoID
      /\ table' = table /\ table \in Entries => ID'[table] = ID[table]
  <2>1. CASE Open(h)
    <3>1. CASE table # None BY <2>1, <3>1 DEF Open, Register
    <3>2. CASE table = None
      <4>1. PICK e \in Unreferenced : table' = e /\ ID' = [ID EXCEPT ![e] = NoID]
        BY <2>1, <3>2 DEF Open, Register
      <4>2. e \in Entries /\ e # None BY LockingAssumption DEF Unreferenced
      <4>3. ID'[e] = NoID BY <4>1, <4>2 DEF ControlInv, TypeOK
      <4> QED BY <4>1, <4>2, <4>3, <3>2
    <3> QED BY <3>1, <3>2
  <2>2. CASE Release(h) BY <2>2 DEF Release, Unregister
  <2>3. CASE Collect(h) BY <2>3 DEF Collect, entryVars
  <2> QED BY <2>1, <2>2, <2>3
<1>8. table \in Entries \union {None} BY DEF ControlInv, TypeOK
<1>9. CacheOK'
  <2>1. CASE table' = table /\ table \in Entries BY <2>1, <1>2, <1>7 DEF CacheOK
  <2>2. CASE table' = None BY <2>2 DEF CacheOK
  <2>3. CASE table' \notin {table, None} BY <2>3, <1>7 DEF CacheOK
  <2> QED BY <1>8, <2>1, <2>2, <2>3
<1>10. ASSUME NEW u \in Threads PROVE ThreadOK(u)'
  <2>1. ThreadOK(u) OBVIOUS
  <2>2. pc[u] # "idle" => Closed(u)' = Closed(u) BY SMTT(30), <1>6 DEF Closed
  <2>3. CASE \/ op[u] = "write" /\ pc[u] \in {"readID", "readAt", "encrypt", "prealloc", "writeAt"}
             \/ pc[u] \in {"createHeader", "rollback"}
    <3>1. op[u] = "write" /\ pc[u] # "idle" /\ EntryOf(u) = table /\ table \in Entries
      BY <2>3, WriterLabels
    <3>2. handle[on[u]].st = "open" BY SMTT(30), <3>1 DEF ControlInv, RequestOK
    <3>3. handle'[on[u]] = handle[on[u]] /\ on[u] \in Handles BY SMTT(30), <3>1, <1>2, <1>4, <1>6
    <3>4. handle'[on[u]].entry = table'
      BY Zenon, <1>1, <3>2, <3>3 DEF ControlInv, TableOK, LiveHandles
    <3>5. table' = table BY <3>1, <3>3, <3>4 DEF EntryOf
    <3>6. ID'[table'] = ID[table] BY <3>1, <3>5, <1>7
    <3> QED BY Zenon, <2>1, <2>2, <3>1, <3>6, <1>2 DEF ThreadOK
  <2>4. CASE ~(\/ op[u] = "write" /\ pc[u] \in {"readID", "readAt", "encrypt", "prealloc",
                     "writeAt"}
               \/ pc[u] \in {"createHeader", "rollback"})
    BY Zenon, <2>1, <2>2, <2>4, <1>2 DEF ThreadOK
  <2> QED BY <2>3, <2>4
<1> QED BY <1>1, <1>3, <1>9, <1>10


----------------------------------------------------------------------------

LEMMA DiskStep ==
    ASSUME DiskInv, [Next]_vars, ~byPath'
    PROVE  DiskInv'
<1>1. ASSUME NEW h \in Handles, Open(h) \/ Release(h) \/ Collect(h) PROVE DiskInv'
  BY SMTT(30), <1>1, HandleDisk
<1>2. ASSUME NEW t \in Threads, NEW h \in Handles, Arrive(t, h) PROVE DiskInv'
  BY <1>2, LockDisk DEF Arrive, BeginPath
<1>3. ASSUME NEW t \in Threads, Proceed(t) PROVE DiskInv'
  BY <1>3, LockDisk, DoReadDisk, DoWriteDisk, TruncateDisk DEF Proceed
<1>4. CASE UNCHANGED vars
  <2>1. ControlInv' BY <1>4, ControlStep DEF DiskInv
  <2>2. BodyOK' /\ CacheOK'
    BY SMTT(30), <1>4 DEF vars, entryVars, diskVars, DiskInv, BodyOK, CacheOK
  <2>3. \A t \in Threads : ThreadOK(t)'
    BY <1>4 DEF vars, entryVars, diskVars, reqVars, DiskInv, ThreadOK, Closed
  <2> QED BY <2>1, <2>2, <2>3 DEF DiskInv
<1> QED BY <1>1, <1>2, <1>3, <1>4 DEF Next

\* Once the file has been truncated by its path, that is never forgotten.
LEMMA ByPathStays ==
    ASSUME [Next]_vars, byPath
    PROVE  byPath'
<1>1. ASSUME NEW h \in Handles, Open(h) \/ Release(h) \/ Collect(h) PROVE byPath'
  BY Zenon, <1>1 DEF Open, Release, Collect, diskVars
<1>2. ASSUME NEW t \in Threads, NEW h \in Handles, Arrive(t, h) PROVE byPath'
  BY Zenon, <1>2 DEF Arrive, Begin, BeginPath, diskVars
<1>3. ASSUME NEW t \in Threads, Proceed(t) PROVE byPath'
  BY Zenon, <1>3, WorkKeepsByPath DEF Proceed, Work, ContentRLock, ContentLock, Unlock, diskVars
<1>4. CASE UNCHANGED vars BY <1>4 DEF vars, diskVars
<1> QED BY <1>1, <1>2, <1>3, <1>4 DEF Next

SafeInv == ~byPath => DiskInv

LEMMA SafeInvariant == Spec => []SafeInv
<1>1. Init => SafeInv BY DiskInit DEF SafeInv
<1>2. SafeInv /\ [Next]_vars => SafeInv'
  BY DiskStep, ByPathStays DEF SafeInv
<1> QED BY <1>1, <1>2, PTL DEF Spec

\* As long as every truncation takes ContentLock, the header, the cached ID and
\* the blocks agree whenever no writer is inside, whatever the number of
\* requests and File objects.
THEOREM HeaderAndBlocksAgree == Spec => []HeaderMatchesBlocks
<1>1. SafeInv => HeaderMatchesBlocks
  <2> SUFFICES ASSUME DiskInv, Quiescent PROVE HeaderAgrees
    BY DEF SafeInv, HeaderMatchesBlocks
  <2>1. ASSUME NEW t \in Threads, pc[t] = "clearID" PROVE FALSE
    <3>1. pc[t] \in LabelsOf(op[t]) BY SMTT(30), <2>1 DEF DiskInv, ControlInv, RequestOK
    <3>2. op[t] = "read" BY SMTT(30), <2>1 DEF Quiescent
    <3> QED BY SMTT(30), <2>1, <3>1, <3>2 DEF LabelsOf
  <2> QED BY <2>1 DEF DiskInv, BodyOK, CacheOK, HeaderAgrees
<1> QED BY <1>1, SafeInvariant, PTL

\* ... a Read of an open file never meets a block of another file ID ...
THEOREM ReadsNeverMismatch == Spec => []ReadsAuthenticate
<1>1. SafeInv => ReadsAuthenticate
  <2> SUFFICES ASSUME DiskInv, NEW t \in Threads, pc[t] = "readAt", ~Closed(t)
               PROVE  body \subseteq {id[t]}
    BY SMTT(30) DEF SafeInv, ReadsAuthenticate, Authenticates
  <2> QED BY SMTT(30) DEF DiskInv, ThreadOK, BodyOK
<1> QED BY <1>1, SafeInvariant, PTL

\* ... and blocks go to disk under the ID of the header they belong to.
THEOREM WritesMatchHeader == Spec => []WritesUnderHeaderID
<1>1. SafeInv => WritesUnderHeaderID
  <2> SUFFICES ASSUME DiskInv, NEW t \in Threads, pc[t] = "writeAt"
               PROVE  id[t] # NoID /\ id[t] = hdr
    BY SMTT(30) DEF SafeInv, WritesUnderHeaderID
  <2>1. op[t] \in {"read", "write", "truncate"} BY DEF DiskInv, ControlInv, TypeOK, ThreadOK
  <2>2. pc[t] \in LabelsOf(op[t]) BY DEF DiskInv, ControlInv, RequestOK
  <2>3. op[t] = "write" BY <2>1, <2>2 DEF LabelsOf
  <2> QED BY <2>3, LockingAssumption DEF DiskInv, ThreadOK
<1> QED BY <1>1, SafeInvariant, PTL

=============================================================================

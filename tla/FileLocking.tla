----------------------------- MODULE FileLocking -----------------------------
(***************************************************************************)
(* Concurrent FUSE requests on one inode: the open file table              *)
(* (internal/openfiletable), fdLock, ContentLock and IDLock, and the       *)
(* system calls of Read, Write, truncate to zero, Open and Release in the  *)
(* order fusefrontend makes them.  FileContent says what the requests do   *)
(* to the bytes; here only the header and the IDs the blocks were          *)
(* encrypted with matter.                                                  *)
(***************************************************************************)
EXTENDS Naturals, FiniteSets

CONSTANTS
    Threads,     \* goroutines that serve FUSE requests
    Handles,     \* File objects
    Entries,     \* Entry objects of the open file table
    FileIDs,     \* values of the random file ID
    NoID,        \* a nil ID; as a header: the file is empty
    ZeroID,      \* the header bytes are zero
    None         \* no thread, no entry, no handle

ASSUME LockingAssumption ==
    /\ NoID \notin FileIDs /\ ZeroID \notin FileIDs /\ NoID # ZeroID
    /\ None \notin Threads /\ None \notin Entries /\ None \notin Handles
    /\ IsFiniteSet(Handles)

VARIABLES
    table,       \* the entry registered for the inode, or None
    refCount,    \* per entry
    ID,          \* per entry: the cached file ID
    writer,      \* per entry: holder of ContentLock.Lock()
    readers,     \* per entry: holders of ContentLock.RLock()
    idLock,      \* per entry: holder of IDLock
    handle,      \* per handle: state, and the entry it points to
    fdReaders,   \* per handle: holders of fdLock.RLock()
    hdr,         \* the header on disk
    body,        \* the IDs the blocks on disk were encrypted with
    byPath,      \* has Node.Setattr truncated the file by its path? (history)
    pc, op, on,  \* per thread: where it is, the request, the handle
    id,          \* per thread: the local fileID
    wasEmpty     \* per thread: doWrite's fileWasEmpty

entryVars == << table, refCount, ID >>
lockVars == << writer, readers, idLock, fdReaders >>
diskVars == << hdr, body, byPath >>
reqVars == << op, on, id, wasEmpty >>
vars == << entryVars, lockVars, diskVars, handle, pc, reqVars >>

EntryOf(t) == handle[on[t]].entry

\* The random ID of a new header occurs nowhere yet.
FreshIDs == FileIDs \ ({hdr} \union body \union {ID[e] : e \in Entries}
                             \union {id[t] : t \in Threads})

Goto(t, label) == pc' = [pc EXCEPT ![t] = label]

Init ==
    /\ table = None
    /\ refCount = [e \in Entries |-> 0]
    /\ ID = [e \in Entries |-> NoID]
    /\ writer = [e \in Entries |-> None]
    /\ readers = [e \in Entries |-> {}]
    /\ idLock = [e \in Entries |-> None]
    /\ handle = [h \in Handles |-> [st |-> "closed", entry |-> None]]
    /\ fdReaders = [h \in Handles |-> {}]
    /\ hdr = NoID
    /\ body = {}
    /\ byPath = FALSE
    /\ pc = [t \in Threads |-> "idle"]
    /\ op = [t \in Threads |-> "read"]
    /\ on = [t \in Threads |-> None]
    /\ id = [t \in Threads |-> NoID]
    /\ wasEmpty = [t \in Threads |-> FALSE]

----------------------------------------------------------------------------
(* The open file table.                                                    *)

\* Entries nobody points to any more are garbage and can be reused.
Unreferenced == {e \in Entries : e # table /\ \A h \in Handles : handle[h].entry # e}

\* Register: one more reference to the inode's entry, or a new entry.
Register(h, st) ==
    \/ /\ table # None
       /\ refCount' = [refCount EXCEPT ![table] = @ + 1]
       /\ handle' = [handle EXCEPT ![h] = [st |-> st, entry |-> table]]
       /\ UNCHANGED << table, ID >>
    \/ /\ table = None
       /\ \E e \in Unreferenced :
             /\ table' = e
             /\ refCount' = [refCount EXCEPT ![e] = 1]
             /\ ID' = [ID EXCEPT ![e] = NoID]
             /\ handle' = [handle EXCEPT ![h] = [st |-> st, entry |-> e]]

\* Mutant: the entry is dropped whoever still uses it.
Unregister_always ==
    /\ refCount' = [refCount EXCEPT ![table] = @ - 1]
    /\ table' = None
    /\ UNCHANGED ID

\* Unregister: the inode's entry leaves the table with its last reference.
Unregister ==
    /\ refCount' = [refCount EXCEPT ![table] = @ - 1]
    /\ table' = IF refCount[table] = 1 THEN None ELSE table
    /\ UNCHANGED ID

\* Node.Open: a new File object on the inode.
Open(h) ==
    /\ handle[h].st = "closed"
    /\ Register(h, "open")
    /\ UNCHANGED << lockVars, diskVars, pc, reqVars >>

\* Mutant: Release does not wait for fdLock.
Release_noFdLock(h) ==
    /\ handle[h].st = "open"
    /\ handle' = [handle EXCEPT ![h] = [st |-> "released", entry |-> @.entry]]
    /\ Unregister
    /\ UNCHANGED << lockVars, diskVars, pc, reqVars >>

\* Release: fdLock.Lock() waits for the requests that hold fdLock, then the
\* file is marked released, unregistered and closed.
Release(h) ==
    /\ handle[h].st = "open"
    /\ fdReaders[h] = {}
    /\ handle' = [handle EXCEPT ![h] = [st |-> "released", entry |-> @.entry]]
    /\ Unregister
    /\ UNCHANGED << lockVars, diskVars, pc, reqVars >>

\* Nobody uses the released File object any more.
Collect(h) ==
    /\ handle[h].st = "released"
    /\ fdReaders[h] = {}
    /\ handle' = [handle EXCEPT ![h] = [st |-> "closed", entry |-> None]]
    /\ UNCHANGED << entryVars, lockVars, diskVars, pc, reqVars >>

----------------------------------------------------------------------------
(* Entry and exit of a request.                                            *)

\* A request that arrives after Release: Write and Setattr check `released`
\* and return EBADF at once (no step here); Read goes on.
Begin(t, h, o) ==
    /\ pc[t] = "idle"
    /\ o \in {"read", "write", "truncate"}
    /\ handle[h].st = "open" \/ (handle[h].st = "released" /\ o = "read")
    /\ op' = [op EXCEPT ![t] = o]
    /\ on' = [on EXCEPT ![t] = h]
    /\ fdReaders' = [fdReaders EXCEPT ![h] = @ \union {t}]
    /\ Goto(t, "lock")
    /\ UNCHANGED << entryVars, writer, readers, idLock, diskVars, handle, id, wasEmpty >>

\* Node.Setattr with a size: Open a File of its own, then truncate.
BeginPath(t, h) ==
    /\ pc[t] = "idle"
    /\ handle[h].st = "closed"
    /\ Register(h, "private")
    /\ op' = [op EXCEPT ![t] = "pathTruncate"]
    /\ on' = [on EXCEPT ![t] = h]
    /\ Goto(t, "ftruncate0")
    /\ byPath' = TRUE
    /\ UNCHANGED << lockVars, hdr, body, id, wasEmpty >>

ContentRLock(t) ==
    /\ pc[t] = "lock" /\ op[t] = "read"
    /\ writer[EntryOf(t)] = None
    /\ readers' = [readers EXCEPT ![EntryOf(t)] = @ \union {t}]
    /\ Goto(t, "readID")
    /\ UNCHANGED << entryVars, writer, idLock, fdReaders, diskVars, handle, reqVars >>

\* Mutant: a writer does not wait for readers.
ContentLock_noReaders(t) ==
    /\ pc[t] = "lock" /\ op[t] # "read"
    /\ writer[EntryOf(t)] = None
    /\ writer' = [writer EXCEPT ![EntryOf(t)] = t]
    /\ Goto(t, IF op[t] = "write" THEN "writeID" ELSE "ftruncate0")
    /\ UNCHANGED << entryVars, readers, idLock, fdReaders, diskVars, handle, reqVars >>

ContentLock(t) ==
    /\ pc[t] = "lock" /\ op[t] # "read"
    /\ writer[EntryOf(t)] = None /\ readers[EntryOf(t)] = {}
    /\ writer' = [writer EXCEPT ![EntryOf(t)] = t]
    /\ Goto(t, IF op[t] = "write" THEN "writeID" ELSE "ftruncate0")
    /\ UNCHANGED << entryVars, readers, idLock, fdReaders, diskVars, handle, reqVars >>

\* The deferred unlocks, in reverse order of the locks.
Unlock(t) ==
    /\ pc[t] = "done"
    /\ writer' = [writer EXCEPT ![EntryOf(t)] = IF @ = t THEN None ELSE @]
    /\ readers' = [readers EXCEPT ![EntryOf(t)] = @ \ {t}]
    /\ fdReaders' = [fdReaders EXCEPT ![on[t]] = @ \ {t}]
    /\ IF op[t] = "pathTruncate"
       THEN /\ Unregister
            /\ handle' = [handle EXCEPT ![on[t]] = [st |-> "closed", entry |-> None]]
       ELSE UNCHANGED << entryVars, handle >>
    /\ Goto(t, "idle")
    /\ op' = [op EXCEPT ![t] = "read"]
    /\ on' = [on EXCEPT ![t] = None]
    /\ id' = [id EXCEPT ![t] = NoID]
    /\ wasEmpty' = [wasEmpty EXCEPT ![t] = FALSE]
    /\ UNCHANGED << idLock, diskVars >>

----------------------------------------------------------------------------
(* The steps of doRead, doWrite and truncate.                              *)

\* The next step of thread t when it only moves on.
Skip(t, label) ==
    /\ Goto(t, label)
    /\ UNCHANGED << entryVars, lockVars, diskVars, handle, reqVars >>

\* A file that is only a header counts as empty; a closed fd reads nothing.
readFileID == IF body = {} THEN NoID ELSE hdr
Closed(t) == handle[on[t]].st = "released"

\* doRead takes IDLock and uses the cached ID, or reads it from disk.
DoReadCached(t) ==
    /\ pc[t] = "readID" /\ idLock[EntryOf(t)] = None
    /\ ID[EntryOf(t)] # NoID
    /\ id' = [id EXCEPT ![t] = ID[EntryOf(t)]]
    /\ Goto(t, "readAt")
    /\ UNCHANGED << entryVars, lockVars, diskVars, handle, op, on, wasEmpty >>

DoReadHeader(t) ==
    /\ pc[t] = "readID" /\ idLock[EntryOf(t)] = None
    /\ ID[EntryOf(t)] = NoID
    /\ ~Closed(t) /\ readFileID \in FileIDs
    /\ idLock' = [idLock EXCEPT ![EntryOf(t)] = t]
    /\ id' = [id EXCEPT ![t] = hdr]
    /\ Goto(t, "storeID")
    /\ UNCHANGED << entryVars, writer, readers, fdReaders, diskVars, handle,
                    op, on, wasEmpty >>

\* An empty file reads as empty, a zero header and a closed fd are errors: a
\* Read is done with all three.  Read-modify-write goes on when it is empty.
DoReadNoHeader(t) ==
    /\ pc[t] = "readID" /\ idLock[EntryOf(t)] = None
    /\ ID[EntryOf(t)] = NoID
    /\ Closed(t) \/ readFileID \notin FileIDs
    /\ Skip(t, IF op[t] = "write" /\ readFileID = NoID THEN "encrypt" ELSE "done")

DoReadStoreID(t) ==
    /\ pc[t] = "storeID"
    /\ ID' = [ID EXCEPT ![EntryOf(t)] = id[t]]
    /\ idLock' = [idLock EXCEPT ![EntryOf(t)] = None]
    /\ Goto(t, "readAt")
    /\ UNCHANGED << table, refCount, writer, readers, fdReaders, diskVars, handle, reqVars >>

\* ReadAt and DecryptBlocks.
Authenticates(t) == body \subseteq {id[t]}
DoReadBlocks(t) ==
    /\ pc[t] = "readAt"
    /\ Skip(t, IF op[t] = "write" /\ Authenticates(t) THEN "encrypt" ELSE "done")

\* doWrite gets the ID from the cache, from the header or from a new header.
\* Blocks that are written in part are read first.
DoWriteCached(t) ==
    /\ pc[t] = "writeID" /\ ID[EntryOf(t)] # NoID
    /\ \E label \in {"readID", "encrypt"} : Skip(t, label)

DoWriteHeader(t) ==
    /\ pc[t] = "writeID" /\ ID[EntryOf(t)] = NoID
    /\ readFileID \in FileIDs
    /\ id' = [id EXCEPT ![t] = hdr]
    /\ Goto(t, "setID")
    /\ UNCHANGED << entryVars, lockVars, diskVars, handle, op, on, wasEmpty >>

DoWriteCorrupt(t) ==
    /\ pc[t] = "writeID" /\ ID[EntryOf(t)] = NoID
    /\ readFileID = ZeroID
    /\ Skip(t, "done")

DoWriteEmpty(t) ==
    /\ pc[t] = "writeID" /\ ID[EntryOf(t)] = NoID
    /\ readFileID = NoID
    /\ wasEmpty' = [wasEmpty EXCEPT ![t] = TRUE]
    /\ Goto(t, "createHeader")
    /\ UNCHANGED << entryVars, lockVars, diskVars, handle, op, on, id >>

CreateHeader(t) ==
    /\ pc[t] = "createHeader"
    /\ \E new \in FreshIDs :
          /\ hdr' = new
          /\ id' = [id EXCEPT ![t] = new]
    /\ Goto(t, "setID")
    /\ UNCHANGED << entryVars, lockVars, body, byPath, handle, op, on, wasEmpty >>

\* Mutant: a failed header is tried again for ever.
CreateHeaderNoSpace_retry(t) == pc[t] = "createHeader" /\ Skip(t, "writeID")

CreateHeaderNoSpace(t) == pc[t] = "createHeader" /\ Skip(t, "done")

DoWriteSetID(t) ==
    /\ pc[t] = "setID"
    /\ ID' = [ID EXCEPT ![EntryOf(t)] = id[t]]
    /\ \E label \in {"readID", "encrypt"} : Goto(t, label)
    /\ UNCHANGED << table, refCount, lockVars, diskVars, handle, reqVars >>

\* EncryptBlocks takes the ID from the table entry once more.
DoWriteEncrypt(t) ==
    /\ pc[t] = "encrypt"
    /\ id' = [id EXCEPT ![t] = ID[EntryOf(t)]]
    /\ Goto(t, "prealloc")
    /\ UNCHANGED << entryVars, lockVars, diskVars, handle, op, on, wasEmpty >>

DoWritePrealloc(t) == pc[t] = "prealloc" /\ Skip(t, "writeAt")

\* Mutant: the rollback forgets the cached ID.
DoWriteNoSpace_keepID(t) ==
    /\ pc[t] = "prealloc"
    /\ Goto(t, IF wasEmpty[t] THEN "rollback" ELSE "done")
    /\ UNCHANGED << entryVars, lockVars, diskVars, handle, reqVars >>

\* Without space a new header is removed again: first from the cache.
DoWriteNoSpace(t) ==
    /\ pc[t] = "prealloc"
    /\ IF wasEmpty[t]
       THEN /\ ID' = [ID EXCEPT ![EntryOf(t)] = NoID]
            /\ Goto(t, "rollback")
       ELSE Goto(t, "done") /\ UNCHANGED ID
    /\ UNCHANGED << table, refCount, lockVars, diskVars, handle, reqVars >>

\* The Ftruncate(fd, 0) of the rollback and of truncate.
FtruncateZero(t) ==
    /\ pc[t] \in {"rollback", "ftruncate0"}
    /\ hdr' = NoID
    /\ body' = {}
    /\ Goto(t, IF pc[t] = "rollback" THEN "done" ELSE "clearID")
    /\ UNCHANGED << entryVars, lockVars, byPath, handle, reqVars >>

DoWriteBlocks(t) ==
    /\ pc[t] = "writeAt"
    /\ hdr' = IF hdr = NoID THEN ZeroID ELSE hdr
    /\ body' = body \union {id[t]}
    /\ Goto(t, "done")
    /\ UNCHANGED << entryVars, lockVars, byPath, handle, reqVars >>

TruncateClearID(t) ==
    /\ pc[t] = "clearID"
    /\ ID' = [ID EXCEPT ![EntryOf(t)] = NoID]
    /\ Goto(t, "done")
    /\ UNCHANGED << table, refCount, lockVars, diskVars, handle, reqVars >>

DoRead(t) ==
    \/ DoReadCached(t) \/ DoReadHeader(t) \/ DoReadNoHeader(t)
    \/ DoReadStoreID(t) \/ DoReadBlocks(t)

DoWrite(t) ==
    \/ DoWriteCached(t) \/ DoWriteHeader(t) \/ DoWriteCorrupt(t) \/ DoWriteEmpty(t)
    \/ CreateHeader(t) \/ CreateHeaderNoSpace(t) \/ DoWriteSetID(t)
    \/ DoWriteEncrypt(t) \/ DoWritePrealloc(t) \/ DoWriteNoSpace(t) \/ DoWriteBlocks(t)

Proceed(t) ==
    \/ ContentRLock(t) \/ ContentLock(t)
    \/ DoRead(t) \/ DoWrite(t) \/ FtruncateZero(t) \/ TruncateClearID(t)
    \/ Unlock(t)

Arrive(t, h) ==
    \/ \E o \in {"read", "write", "truncate"} : Begin(t, h, o)
    \/ BeginPath(t, h)

Next ==
    \/ \E h \in Handles : Open(h) \/ Release(h) \/ Collect(h)
    \/ \E t \in Threads, h \in Handles : Arrive(t, h)
    \/ \E t \in Threads : Proceed(t)

Spec == Init /\ [][Next]_vars

\* The Go scheduler runs every goroutine that can run; sync.RWMutex and
\* sync.Mutex hand a lock to every waiter in the end (a waiting Lock() holds
\* new readers off, and a starving waiter is served first).
Fairness == \A t \in Threads : SF_vars(Proceed(t))

FairSpec == Spec /\ Fairness

----------------------------------------------------------------------------
(* Properties                                                              *)

Labels == {"idle", "lock", "readID", "storeID", "readAt", "writeID",
           "createHeader", "setID", "encrypt", "prealloc", "writeAt",
           "rollback", "ftruncate0", "clearID", "done"}

\* The variables have the shape of the open file table, its locks, the File
\* objects and the requests.
TypeOK ==
    /\ table \in Entries \union {None}
    /\ refCount \in [Entries -> Nat]
    /\ ID \in [Entries -> FileIDs \union {NoID}]
    /\ writer \in [Entries -> Threads \union {None}]
    /\ readers \in [Entries -> SUBSET Threads]
    /\ idLock \in [Entries -> Threads \union {None}]
    /\ handle \in [Handles -> [st : {"closed", "open", "private", "released"},
                               entry : Entries \union {None}]]
    /\ fdReaders \in [Handles -> SUBSET Threads]
    /\ hdr \in FileIDs \union {NoID, ZeroID}
    /\ body \subseteq FileIDs \union {NoID}
    /\ byPath \in BOOLEAN
    /\ pc \in [Threads -> Labels]
    /\ op \in [Threads -> {"read", "write", "truncate", "pathTruncate"}]
    /\ on \in [Threads -> Handles \union {None}]
    /\ id \in [Threads -> FileIDs \union {NoID}]
    /\ wasEmpty \in [Threads -> BOOLEAN]

LiveHandles == {h \in Handles : handle[h].st \in {"open", "private"}}
Active(t) == pc[t] \notin {"idle", "lock"}

\* All File objects open on the inode share one table entry, the registered
\* one, and its reference count is their number: an entry is never dropped
\* under an open file, and never kept once the last one is released
\* (open_file_table.go, Register and Unregister).
OneEntryPerInode ==
    /\ \A h \in LiveHandles : handle[h].entry = table
    /\ table # None => refCount[table] = Cardinality(LiveHandles) /\ LiveHandles # {}

\* A request that modifies the file has it for itself: no other request that
\* takes ContentLock is inside, whichever File object it came through
\* (open_file_table.go:43, Every writer must take this lock).
WritersAreAlone ==
    \A t, u \in Threads :
        /\ Active(t) /\ op[t] \in {"write", "truncate"}
        /\ Active(u) /\ op[u] # "pathTruncate" /\ ~Closed(u)
        => t = u

\* Release never closes the file under a request that modifies it
\* (file.go:37, fdLock).
NoCloseUnderWriter ==
    \A t \in Threads :
        pc[t] # "idle" /\ op[t] # "read" => on[t] \in LiveHandles

\* Whenever nobody is inside the lock, the blocks on disk were encrypted with
\* the ID in the header, and a cached ID is that ID (file.go:289-293: no need
\* to take IDLock), as long as nobody has truncated the file by its path.
Quiescent == \A t \in Threads : pc[t] \in {"idle", "lock"} \/ op[t] = "read"
HeaderAgrees ==
    /\ body # {} => hdr \in FileIDs /\ body = {hdr}
    /\ table # None /\ ID[table] # NoID => ID[table] = hdr
HeaderMatchesBlocks == ~byPath /\ Quiescent => HeaderAgrees

\* The same with truncation by path, which opens a File of its own and does
\* not take ContentLock (open_file_table.go:43, Every writer must take this
\* lock).
HeaderAlwaysMatchesBlocks == Quiescent => HeaderAgrees

\* The read of a file that is open never fails for a wrong file ID, whatever
\* else runs at the same time (file.go:219, corrupt block).
ReadsAuthenticate ==
    ~byPath =>
        \A t \in Threads : pc[t] = "readAt" /\ ~Closed(t) => Authenticates(t)

\* What doWrite encrypts with and what the header says never differ when the
\* blocks go to disk (file.go:350).
WritesUnderHeaderID ==
    ~byPath =>
        \A t \in Threads : pc[t] = "writeAt" => id[t] # NoID /\ id[t] = hdr

\* Every request that has begun ends: no lock is left behind on any of the
\* error paths, and no two requests wait for each other.
RequestsEnd == \A t \in Threads : []<>(pc[t] = "idle")

=============================================================================

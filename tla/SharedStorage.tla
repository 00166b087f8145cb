---------------------------- MODULE SharedStorage ----------------------------
(***************************************************************************)
(* Several mounts of one directory with -sharedstorage, and a file that    *)
(* all of them have open.  Each mount has its own open file table, so only *)
(* the locks on the byte ranges of the backing file (LockSharedStorage)    *)
(* keep their requests apart.  Every system call is a step, and WriteAt is *)
(* two: other mounts can read what is half written.                        *)
(*                                                                         *)
(* A mount has one File object.  Its ContentLock is held from the first to *)
(* the last step of a request, shared by reads.  A block holds BS bytes.   *)
(***************************************************************************)
EXTENDS Naturals, Sequences, FiniteSets

CONSTANTS
    Threads, Mounts,
    FileIDs,           \* values of the random file ID
    NoID,              \* a nil ID; as a header: the file is empty
    ZeroID,            \* bytes that are all zero
    Torn,              \* neither the old nor the new bytes of a block
    Zero,              \* a zero byte; all others are the threads that wrote them
    MaxBlocks,
    Users              \* the circumstances considered: which mount a thread uses, at
                       \* which << offset, length >> it reads and writes, and to
                       \* what sizes it truncates

BS == 2
Numbers == 0 .. MaxBlocks - 1
Header == MaxBlocks
Units == Numbers \union {Header}     \* what locks tell apart
NoOffset == BS * MaxBlocks + 1

SharedAssumption ==
    /\ NoID \notin FileIDs /\ ZeroID \notin FileIDs /\ NoID # ZeroID
    /\ Torn \notin FileIDs \union {NoID, ZeroID} /\ Zero \notin Threads
    /\ \A u \in Users : \A t \in Threads :
          /\ u[t].mount \in Mounts /\ u[t].sizes \subseteq 0 .. BS * MaxBlocks
          /\ \A r \in u[t].reads \union u[t].writes : r[2] > 0 /\ r[1] + r[2] <= BS * MaxBlocks

VARIABLES
    hdr,       \* the header of the file
    body,      \* its blocks: the ID each is encrypted with, and its bytes
    ID,        \* per mount: fileTableEntry.ID
    lk,        \* per mount: the lock on each unit, "free", "rd" or "wr"
    expected,  \* per mount: the offset at which a write would be consecutive
    pc, loc,   \* per thread: where it is, and its local variables
    want,      \* the bytes the calls of doWrite put there (history)
    resized,   \* has a truncation to another size than zero begun? (history)
    remade,    \* has truncate made a header, or a rollback removed one? (history)
    misfit,    \* has a write met an end of the file it did not expect? (history)
    user       \* of Users; never changes
vars == << hdr, body, ID, lk, expected, pc, loc, want, resized, remade, misfit, user >>
fileVars == << hdr, body, want, remade, misfit >>

NoLoc == [op |-> "read", target |-> 0, len |-> 0,                     \* the request
          off |-> 0, data |-> << >>, then |-> "end",                  \* of doRead, doWrite
          blocks |-> << >>, empty |-> FALSE, ok |-> TRUE]

Init ==
    /\ hdr = NoID /\ body = << >> /\ want = << >>
    /\ ID = [m \in Mounts |-> NoID] /\ lk = [m \in Mounts |-> [u \in Units |-> "free"]]
    /\ expected = [m \in Mounts |-> 1]
    /\ pc = [t \in Threads |-> "idle"] /\ loc = [t \in Threads |-> NoLoc]
    /\ resized = FALSE /\ remade = FALSE /\ misfit = FALSE
    /\ user \in Users

MountOf(t) == user[t].mount
Goto(t, label) == pc' = [pc EXCEPT ![t] = label]
Set(t, l) == loc' = [loc EXCEPT ![t] = l]
Moves(t, label) == Goto(t, label) /\ UNCHANGED loc

\* The random ID of a new header occurs nowhere yet, and each that does not is as good.
FreshIDs == FileIDs \ ({hdr} \union {ID[m] : m \in Mounts} \union {body[i].id : i \in DOMAIN body})
NewID == CHOOSE new \in FreshIDs : TRUE

----------------------------------------------------------------------------
(* The backing file.                                                       *)

Zeros(n) == [i \in 1 .. n |-> Zero]
Least(a, b) == IF a < b THEN a ELSE b
CipherSizeToPlainSize == IF body = << >> THEN 0 ELSE BS * (Len(body) - 1) + Len(body[Len(body)].data)

\* The file gets the size of n plain bytes: a block that loses or gains bytes does not
\* decrypt any more, and new bytes are zero.
Resized(n) ==
    [i \in 1 .. (n + BS - 1) \div BS |->
        LET len == Least(BS, n - BS * (i - 1))
        IN  IF i <= Len(body) /\ Len(body[i].data) = len THEN body[i]
            ELSE [id |-> IF i > Len(body) \/ body[i].id = ZeroID THEN ZeroID ELSE Torn,
                  data |-> Zeros(len)]]

\* A hole is a block of zeros in full length.
Decrypts(b, id) == b.id = id \/ (b.id = ZeroID /\ Len(b.data) = BS)
Readable(nos, id) == \A i \in DOMAIN body : i - 1 \in nos => Decrypts(body[i], id)
BytesOf(no) == IF no + 1 \in DOMAIN body THEN body[no + 1].data ELSE << >>

\* The file after WriteAt of blocks from number no on.
Written(no, blocks) ==
    LET base == IF CipherSizeToPlainSize < BS * no THEN Resized(BS * no) ELSE body
        end  == IF no + Len(blocks) > Len(base) THEN no + Len(blocks) ELSE Len(base)
    IN  [i \in 1 .. end |->
            IF i <= no \/ i > no + Len(blocks) THEN base[i]
            ELSE IF i <= Len(base) /\ Len(base[i].data) > Len(blocks[i - no].data)
                 THEN [base[i] EXCEPT !.id = Torn]
                 ELSE blocks[i - no]]

\* Does WriteAt make a short block longer, or leave one in the middle of the file?
Misfits(no, blocks) ==
    \/ CipherSizeToPlainSize < BS * no /\ CipherSizeToPlainSize % BS > 0
    \/ \E i \in DOMAIN blocks : Len(BytesOf(no + i - 1)) > Len(blocks[i].data)

NumbersOf(off, data) == {no \in Numbers : no >= off \div BS /\ BS * no < off + Len(data)}

\* The bytes after data went to off, wherever the end was.
Overlay(bytes, off, data) ==
    [i \in 1 .. (IF off + Len(data) > Len(bytes) THEN off + Len(data) ELSE Len(bytes)) |->
        IF i > off /\ i <= off + Len(data) THEN data[i - off]
        ELSE IF i <= Len(bytes) THEN bytes[i] ELSE Zero]

----------------------------------------------------------------------------
(* F_OFD_SETLK: locks belong to the open file description, so the threads  *)
(* of a mount share them.                                                  *)

Free(m, type, units) ==
    \A n \in Mounts \ {m}, u \in units : lk[n][u] = "free" \/ (type = "rd" /\ lk[n][u] = "rd")
LockSharedStorage(m, type, units) ==
    /\ Free(m, type, units)
    /\ lk' = [lk EXCEPT ![m] = [u \in Units |-> IF u \in units THEN type ELSE @[u]]]
UnlockSharedStorage(m, units) ==
    lk' = [lk EXCEPT ![m] = [u \in Units |-> IF u \in units THEN "free" ELSE @[u]]]

----------------------------------------------------------------------------
(* Read.                                                                   *)

Active(m) == {t \in Threads : MountOf(t) = m /\ pc[t] \notin {"idle", "dead"}}
May(t, op) ==
    /\ pc[t] = "idle"
    /\ \A s \in Active(MountOf(t)) : op = "read" /\ loc[s].op = "read"

BeginRead(t, off, len) ==
    /\ May(t, "read")
    /\ Set(t, [NoLoc EXCEPT !.off = off, !.data = Zeros(len)]) /\ Goto(t, "readID")
    /\ UNCHANGED << fileVars, ID, lk, expected, resized, user >>

\* A read that fails is repeated under the lock, once.
ReadDone(t) == Moves(t, IF pc[t] \in {"readID", "readAt"} THEN "end" ELSE "unlock")
ReadFailed(t) == Moves(t, IF pc[t] \in {"readID", "readAt"} THEN "lockRead" ELSE "unlock")

\* doRead gets the ID.  A file that is only a header is valid.
DoReadID(t) ==
    LET m == MountOf(t)
    IN  /\ pc[t] \in {"readID", "rereadID"}
        /\ IF ID[m] # NoID \/ hdr \in FileIDs
           THEN /\ ID' = [ID EXCEPT ![m] = IF @ = NoID THEN hdr ELSE @]
                /\ Moves(t, IF pc[t] = "readID" THEN "readAt" ELSE "rereadAt")
           ELSE /\ IF hdr = NoID THEN ReadDone(t) ELSE ReadFailed(t)
                /\ UNCHANGED ID
        /\ UNCHANGED << fileVars, lk, expected, resized, user >>

\* ReadAt and DecryptBlocks.
DoReadAt(t) ==
    /\ pc[t] \in {"readAt", "rereadAt"}
    /\ IF Readable(NumbersOf(loc[t].off, loc[t].data), ID[MountOf(t)]) THEN ReadDone(t)
       ELSE ReadFailed(t)
    /\ UNCHANGED << fileVars, ID, lk, expected, resized, user >>

LockRead(t) ==
    /\ pc[t] = "lockRead"
    /\ LockSharedStorage(MountOf(t), "rd", NumbersOf(loc[t].off, loc[t].data))
    /\ Moves(t, "rereadID")
    /\ UNCHANGED << fileVars, ID, expected, resized, user >>

----------------------------------------------------------------------------
(* doWrite, called by Write, zeroPad and truncate.                         *)

Payload(t, len) == [i \in 1 .. len |-> t]
DoWrite(t, l, off, data, then) ==
    /\ Set(t, [l EXCEPT !.off = off, !.data = data, !.then = then, !.empty = FALSE, !.blocks = << >>])
    /\ Goto(t, IF ID[MountOf(t)] = NoID THEN "lockHeader" ELSE "lockBlocks")

Fails(t, label) == Set(t, [loc[t] EXCEPT !.ok = FALSE]) /\ Goto(t, label)

LockHeader(t) ==
    /\ pc[t] = "lockHeader"
    /\ LockSharedStorage(MountOf(t), "wr", {Header})
    /\ Moves(t, "writeID")
    /\ UNCHANGED << fileVars, ID, expected, resized, user >>

DoWriteID(t) ==
    /\ pc[t] = "writeID"
    /\ CASE hdr \in FileIDs -> ID' = [ID EXCEPT ![MountOf(t)] = hdr] /\ Moves(t, "lockBlocks")
         [] hdr = ZeroID -> Fails(t, "unlock") /\ UNCHANGED ID
         [] hdr = NoID -> Moves(t, "createHeader") /\ UNCHANGED ID
    /\ UNCHANGED << fileVars, lk, expected, resized, user >>

CreateHeader(t) ==
    /\ pc[t] = "createHeader"
    /\ FreshIDs # {} /\ hdr' = NewID /\ ID' = [ID EXCEPT ![MountOf(t)] = NewID]
    /\ Set(t, [loc[t] EXCEPT !.empty = TRUE]) /\ Goto(t, "lockBlocks")
    /\ UNCHANGED << body, want, remade, misfit, lk, expected, resized, user >>

\* No space for the header.
CreateHeaderNoSpace(t) ==
    /\ pc[t] \in {"createHeader", "growHeader"} /\ Fails(t, "unlock")
    /\ UNCHANGED << fileVars, ID, lk, expected, resized, user >>

\* Mutant: the blocks are not locked.
LockBlocks_not(t) ==
    /\ pc[t] = "lockBlocks" /\ loc[t].data # << >> /\ Moves(t, "readModify")
    /\ UNCHANGED << fileVars, ID, lk, expected, resized, user >>

LockBlocks(t) ==
    /\ pc[t] = "lockBlocks" /\ loc[t].data # << >>
    /\ LockSharedStorage(MountOf(t), "wr", NumbersOf(loc[t].off, loc[t].data))
    /\ Moves(t, "readModify")
    /\ UNCHANGED << fileVars, ID, expected, resized, user >>

\* blocks[0] of a write without data: the process dies with all its requests.
NoBlocks(t) ==
    LET m == MountOf(t)
    IN  /\ pc[t] = "lockBlocks" /\ loc[t].data = << >>
        /\ pc' = [s \in Threads |-> IF MountOf(s) = m THEN "dead" ELSE pc[s]]
        /\ loc' = [s \in Threads |-> IF MountOf(s) = m THEN NoLoc ELSE loc[s]]
        /\ UnlockSharedStorage(m, Units)
        /\ UNCHANGED << fileVars, ID, expected, resized, user >>

\* The blocks at the ends are read, by doRead, when they are written in part; the
\* range is locked, and the two reads are one step.
ReadModify(t) ==
    LET l     == loc[t]
        first == l.off \div BS
        nos   == NumbersOf(l.off, l.data)
        part  == {no \in nos : BS * no < l.off \/ BS * (no + 1) > l.off + Len(l.data)}
        old(no)   == IF no \in part THEN BytesOf(no) ELSE << >>
        bytes(no) ==         \* MergeBlocks
            LET start == IF BS * no < l.off THEN l.off - BS * no ELSE 0
                from  == BS * no + start - l.off
                len   == Least(BS - start, Len(l.data) - from)
            IN  Overlay(old(no), start, SubSeq(l.data, from + 1, from + len))
    IN  /\ pc[t] = "readModify"
        /\ IF Readable(part, ID[MountOf(t)])
           THEN /\ Set(t, [l EXCEPT !.blocks =
                       [i \in 1 .. Cardinality(nos) |->
                           [id |-> ID[MountOf(t)], data |-> bytes(first + i - 1)]]])
                /\ Goto(t, "writeAt")
           ELSE Fails(t, "unlock")
        /\ UNCHANGED << fileVars, ID, lk, expected, resized, user >>

\* EnospcPrealloc fails: a header of our own is removed again.
PreallocNoSpace(t) ==
    /\ pc[t] = "writeAt"
    /\ IF loc[t].empty
       THEN ID' = [ID EXCEPT ![MountOf(t)] = NoID] /\ Moves(t, "rollback")
       ELSE Fails(t, "unlock") /\ UNCHANGED ID
    /\ UNCHANGED << fileVars, lk, expected, resized, user >>

Rollback(t) ==
    /\ pc[t] = "rollback"
    /\ hdr' = NoID /\ body' = << >> /\ want' = << >> /\ remade' = TRUE
    /\ Fails(t, "unlock")
    /\ UNCHANGED << misfit, ID, lk, expected, resized, user >>

WriteAtBegins(t) ==
    /\ pc[t] = "writeAt"
    /\ hdr' = IF hdr = NoID THEN ZeroID ELSE hdr
    /\ body' = Written(loc[t].off \div BS, [i \in DOMAIN loc[t].blocks |-> [loc[t].blocks[i] EXCEPT !.id = Torn]])
    /\ misfit' = (misfit \/ Misfits(loc[t].off \div BS, loc[t].blocks))
    /\ Moves(t, "writeAtEnds")
    /\ UNCHANGED << want, remade, ID, lk, expected, resized, user >>

WriteAtEnds(t) ==
    /\ pc[t] = "writeAtEnds"
    /\ hdr' = IF hdr = NoID THEN ZeroID ELSE hdr
    /\ body' = Written(loc[t].off \div BS, loc[t].blocks)
    /\ want' = IF resized THEN want ELSE Overlay(want, loc[t].off, loc[t].data)
    /\ misfit' = (misfit \/ Misfits(loc[t].off \div BS, loc[t].blocks))
    /\ Moves(t, "unlock")
    /\ UNCHANGED << remade, ID, lk, expected, resized, user >>

----------------------------------------------------------------------------
(* Write and truncate.                                                     *)

Begin(t, op, target, len) == [NoLoc EXCEPT !.op = op, !.target = target, !.len = len]

\* isConsecutiveWrite spares the Stat of writePadHole, which pads the last block when
\* the write leaves a hole behind it.
BeginWrite(t, off, len) ==
    LET size == CipherSizeToPlainSize
        hole == off # expected[MountOf(t)] /\ off \div BS > size \div BS
        l    == Begin(t, "write", off, len)
    IN  /\ May(t, "write")
        /\ IF hole /\ size % BS > 0 THEN DoWrite(t, l, size, Zeros(BS - (size % BS)), "write")
           ELSE DoWrite(t, l, off, Payload(t, len), "end")
        /\ expected' = [expected EXCEPT ![MountOf(t)] = NoOffset]
        /\ UNCHANGED << fileVars, ID, lk, resized, user >>

\* truncate to zero locks the whole file.
BeginTruncateZero(t) ==
    /\ May(t, "truncate")
    /\ LockSharedStorage(MountOf(t), "wr", Units)
    /\ Set(t, Begin(t, "truncate", 0, 0)) /\ Goto(t, "truncateZero")
    /\ expected' = [expected EXCEPT ![MountOf(t)] = NoOffset]
    /\ UNCHANGED << fileVars, ID, resized, user >>

\* The header stays.  A file without a header, as far as this mount can tell, is left
\* alone; the Stat that tells and the Ftruncate are one step.
TruncateZero(t) ==
    /\ pc[t] = "truncateZero"
    /\ IF ID[MountOf(t)] = NoID /\ body = << >> THEN UNCHANGED << hdr, body, want >>
       ELSE /\ hdr' = IF hdr = NoID THEN ZeroID ELSE hdr
            /\ body' = << >> /\ want' = << >>
    /\ Moves(t, "unlock")
    /\ UNCHANGED << remade, misfit, ID, lk, expected, resized, user >>

\* The end of truncateGrowFile, when the old last block is full.
Grow(t, l, old) ==
    IF l.target % BS > 0 THEN DoWrite(t, l, l.target - 1, Zeros(1), "end")
    ELSE Set(t, l) /\ Goto(t, IF old = 0 THEN "growHeader" ELSE "ftruncate")

\* truncate to another size, up to the first system call after statPlainSize.
BeginTruncate(t, size) ==
    LET old == CipherSizeToPlainSize
        l   == Begin(t, "truncate", size, 0)
    IN  /\ May(t, "truncate") /\ size # old
        /\ CASE size < old ->
                  Set(t, l) /\ Goto(t, IF size % BS > 0 THEN "shrinkRead" ELSE "ftruncate")
             [] size > old /\ old > 0 /\ (old - 1) \div BS = (size - 1) \div BS ->
                  DoWrite(t, l, size - 1, Zeros(1), "end")
             [] size > old /\ (old = 0 \/ (old - 1) \div BS # (size - 1) \div BS) ->
                  IF old % BS > 0 THEN DoWrite(t, l, old, Zeros(BS - (old % BS)), "grow")
                  ELSE Grow(t, l, old)
        /\ expected' = [expected EXCEPT ![MountOf(t)] = NoOffset]
        /\ resized' = TRUE /\ want' = << >>
        /\ UNCHANGED << hdr, body, remade, misfit, ID, lk, user >>

\* "The file was empty, so it did not have a header": nothing is locked.
GrowHeader(t) ==
    /\ pc[t] = "growHeader"
    /\ FreshIDs # {} /\ hdr' = NewID /\ ID' = [ID EXCEPT ![MountOf(t)] = NewID]
    /\ remade' = TRUE
    /\ Moves(t, "ftruncate")
    /\ UNCHANGED << body, want, misfit, lk, expected, resized, user >>

\* What is left of the last block is read (header and block in one step) ...
ShrinkRead(t) ==
    LET m  == MountOf(t)
        no == loc[t].target \div BS
        id == IF ID[m] = NoID THEN hdr ELSE ID[m]
        data == IF id = NoID THEN << >>
                ELSE SubSeq(BytesOf(no), 1, Least(Len(BytesOf(no)), loc[t].target % BS))
    IN  /\ pc[t] = "shrinkRead"
        /\ IF id = NoID \/ (id \in FileIDs /\ Readable({no}, id))
           THEN Set(t, [loc[t] EXCEPT !.data = data]) /\ Goto(t, "ftruncate")
           ELSE Fails(t, "unlock")
        /\ ID' = [ID EXCEPT ![m] = IF id \in FileIDs THEN id ELSE @]
        /\ UNCHANGED << fileVars, lk, expected, resized, user >>

\* ... and written again behind the blocks that stay.
Ftruncate(t) ==
    LET size == BS * (loc[t].target \div BS)
    IN  /\ pc[t] = "ftruncate"
        /\ hdr' = IF hdr = NoID THEN ZeroID ELSE hdr
        /\ body' = Resized(size)
        /\ IF loc[t].target % BS > 0 THEN DoWrite(t, loc[t], size, loc[t].data, "end")
           ELSE Moves(t, "unlock")
        /\ UNCHANGED << want, remade, misfit, ID, lk, expected, resized, user >>

\* The deferred unlocks, and what the caller of doWrite does next.
Unlock(t) ==
    LET m == MountOf(t)
        l == loc[t]
    IN  /\ pc[t] \in {"unlock", "end"}
        /\ CASE pc[t] = "end" -> UNCHANGED lk
             [] pc[t] = "unlock" /\ l.op = "read" -> UnlockSharedStorage(m, NumbersOf(l.off, l.data))
             [] pc[t] = "unlock" /\ l.op # "read" -> UnlockSharedStorage(m, Units)
        /\ CASE l.ok /\ l.then = "write" -> DoWrite(t, l, l.target, Payload(t, l.len), "end")
             [] l.ok /\ l.then = "grow" -> Grow(t, l, BS)
             [] ~l.ok \/ l.then = "end" -> Set(t, NoLoc) /\ Goto(t, "idle")
        /\ expected' = IF l.ok /\ l.op = "write" /\ l.then = "end"
                       THEN [expected EXCEPT ![m] = l.target + l.len] ELSE expected
        /\ UNCHANGED << fileVars, ID, resized, user >>

----------------------------------------------------------------------------
\* Another Open of the file after the last Release, or, after a crash, another mount.
Reopen(m) ==
    /\ Active(m) = {}
    /\ ID' = [ID EXCEPT ![m] = NoID]
    /\ pc' = [t \in Threads |-> IF MountOf(t) = m THEN "idle" ELSE pc[t]]
    /\ expected' = [expected EXCEPT ![m] =
           IF \E t \in Threads : MountOf(t) = m /\ pc[t] = "dead" THEN 1 ELSE NoOffset]
    /\ UNCHANGED << fileVars, lk, loc, resized, user >>

Step(t) ==
    \/ \E r \in user[t].reads : BeginRead(t, r[1], r[2])
    \/ \E w \in user[t].writes : BeginWrite(t, w[1], w[2])
    \/ DoReadID(t) \/ DoReadAt(t) \/ LockRead(t)
    \/ LockHeader(t) \/ DoWriteID(t) \/ CreateHeader(t) \/ CreateHeaderNoSpace(t)
    \/ LockBlocks(t) \/ NoBlocks(t) \/ ReadModify(t) \/ PreallocNoSpace(t)
    \/ Rollback(t) \/ WriteAtBegins(t) \/ WriteAtEnds(t)
    \/ \E size \in user[t].sizes : IF size = 0 THEN BeginTruncateZero(t) ELSE BeginTruncate(t, size)
    \/ TruncateZero(t)
    \/ GrowHeader(t) \/ ShrinkRead(t) \/ Ftruncate(t) \/ Unlock(t)

Next == (\E t \in Threads : Step(t)) \/ (\E m \in Mounts : Reopen(m))
Spec == Init /\ [][Next]_vars

----------------------------------------------------------------------------
(* Properties.                                                             *)

\* Requests under way, and those that wait for a lock another mount holds.
Requests == UNION {Active(m) : m \in Mounts}
Waits(t) ==
    \/ pc[t] = "lockRead" /\ ~Free(MountOf(t), "rd", NumbersOf(loc[t].off, loc[t].data))
    \/ pc[t] = "lockHeader" /\ ~Free(MountOf(t), "wr", {Header})
    \/ pc[t] = "lockBlocks" /\ ~Free(MountOf(t), "wr", NumbersOf(loc[t].off, loc[t].data))

Unlocked(no) == \A m \in Mounts : lk[m][no] # "wr"
Holds(t) == \A no \in NumbersOf(loc[t].off, loc[t].data) : lk[MountOf(t)][no] = "rd"
\* The bytes of a block are as they were written; the rest of a file that is just
\* being extended is zero.
AsWritten(no) ==
    \A i \in 1 .. BS :
        LET at == BS * no + i
        IN  IF at <= Len(want) THEN i \in DOMAIN BytesOf(no) /\ BytesOf(no)[i] = want[at]
            ELSE i \in DOMAIN BytesOf(no) => BytesOf(no)[i] = Zero

\* Mounts that share a file agree on its header: every cached file ID is the one on disk
\* (doWrite's lock on the header, truncate to zero), unless truncate makes a header, which
\* takes no lock, or a write removes the one it has just made.  Nor do they lose what
\* others write: a block that is not locked for writing decrypts and holds the bytes that
\* the calls of doWrite put there (the lock around read-modify-write), and a read that is
\* repeated under its lock succeeds, as long as none truncates the file to another size
\* than zero, which takes no lock, and no write finds that the end of the file has moved
\* since it called Stat.  Whatever they do, the requests that are under way never all
\* wait for one another's locks (the header is locked before the blocks).
SharedFileIsSound ==
    /\ ~remade => \A m \in Mounts : ID[m] \in {NoID, hdr}
    /\ ~remade /\ ~resized /\ ~misfit =>
          /\ \A no \in Numbers : Unlocked(no) => Readable({no}, hdr) /\ AsWritten(no)
          /\ \A t \in Threads : pc[t] = "rereadAt" /\ Holds(t) =>
                Readable(NumbersOf(loc[t].off, loc[t].data), ID[MountOf(t)])
    /\ Requests = {} \/ \E t \in Requests : ~Waits(t)

\* "With -sharedstorage, we keep the on-disk file header.  Other mounts may have the
\* file ID cached so we cannot mess with it" (truncate): a cached ID is the one on disk.
HeaderIsKept == \A m \in Mounts : ID[m] \in {NoID, hdr}
=============================================================================

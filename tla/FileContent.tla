----------------------------- MODULE FileContent -----------------------------
(***************************************************************************)
(* The content of one regular file of a forward mount: File of             *)
(* internal/fusefrontend (file.go, file_allocate_truncate.go,              *)
(* file_holes.go), the entry the open file table keeps for it, and the     *)
(* block cipher of internal/contentenc.  A FUSE request arrives (Ask) and  *)
(* is served in one action: it runs under ContentLock, and what happens    *)
(* between requests that do not hold the lock is the subject of            *)
(* FileLocking.  Each of the calls that change the backing file can fail.  *)
(***************************************************************************)
EXTENDS ContentOffsets

CONSTANTS
    Handles,    \* the File objects that can be open at the same time
    FileIDs,    \* values of the random file ID in the header
    NoID,       \* nil as a cached ID; as a header: the file is empty
    ZeroID,     \* the header bytes on disk are all zero
    MaxSize,    \* bound on the plaintext size
    WriteData   \* payloads of FUSE writes

ASSUME ContentAssumption ==
    /\ NoID \notin FileIDs /\ ZeroID \notin FileIDs /\ NoID # ZeroID
    /\ MaxSize \in Nat
    /\ \A d \in WriteData : d \in Seq(Nat) /\ d # << >>

VARIABLES
    file,       \* the backing file and the ID cached in its table entry
    handle,     \* the File objects
    opCount,    \* openfiletable's writeOpCount
    req,        \* the FUSE request being served, or the answer to the last one
    damaged     \* has a truncation by path gone behind an open File, or a
                \* failing WriteAt left part of a block? (history)

vars == << file, handle, opCount, req, damaged >>

----------------------------------------------------------------------------
(* Ciphertext.  A block is encrypted with its number and the file ID as    *)
(* associated data; a full block of zero bytes is a file hole; a short     *)
(* block that got extended with zero bytes no longer authenticates.        *)

Zeros(n) == [i \in 1..n |-> 0]

Hole == [kind |-> "hole", id |-> NoID, no |-> 0, data |-> Zeros(PlainBS)]
Torn == [kind |-> "torn", id |-> NoID, no |-> 0, data |-> Zeros(PlainBS)]

EncryptBlock(plaintext, blockNo, fileID) ==
    [kind |-> "enc", id |-> fileID, no |-> blockNo, data |-> plaintext]

\* Does DecryptBlock succeed?  Its result is then b.data.
Decrypts(b, blockNo, fileID) ==
    \/ b.kind = "hole"
    \/ b.kind = "enc" /\ b.no = blockNo /\ b.id = fileID

\* What the file system does to cipher blocks when the file is extended to n
\* blocks: a short last block is filled up with zero bytes, the gap is holes.
FillTo(blocks, n) ==
    [i \in 1..n |-> IF i > Len(blocks) THEN Hole
                    ELSE IF Len(blocks[i].data) = PlainBS THEN blocks[i] ELSE Torn]

----------------------------------------------------------------------------
(* A request works on r: hdr and blocks are the backing file, ID is the    *)
(* cached file ID, fresh the random ID a new header would get.  Of the     *)
(* calls that change the backing file (EnospcPrealloc, Fallocate, WriteAt, *)
(* Ftruncate) the first good ones succeed; the next one fails, and when it *)
(* is a WriteAt, cut bytes of the ciphertext have reached the disk.  With  *)
(* NoPrealloc, or the quirk of btrfs, the EnospcPrealloc calls are missing *)
(* and it is always the WriteAt that runs out of space.                    *)

Fail(r, e) == [r EXCEPT !.errno = e]
Fails(r) == r.good = 0
Succeeds(r) == [r EXCEPT !.good = @ - 1]

EnospcPrealloc(r) == IF Fails(r) THEN Fail(r, "ENOSPC") ELSE Succeeds(r)

\* pwrite(2) of whole cipher blocks from block number first on.
Pwrite(r, first, cblocks) ==
    LET end == first + Len(cblocks)
        old == IF Len(r.blocks) < end THEN FillTo(r.blocks, end) ELSE r.blocks
    IN  [r EXCEPT !.hdr = IF @ = NoID THEN ZeroID ELSE @,
                  !.blocks = [i \in DOMAIN old |->
                      IF i > first /\ i <= end THEN cblocks[i - first] ELSE old[i]]]

\* What is left of block no, and of what the file has in its place, when only
\* n bytes of its ciphertext are written: nothing of it authenticates.
TornBlock(r, no, n) ==
    LET new == IF n > BlockOverhead THEN n - BlockOverhead ELSE 0
        old == IF no < Len(r.blocks) THEN Len(r.blocks[no + 1].data) ELSE 0
    IN  [Torn EXCEPT !.data = Zeros(IF old > new THEN old ELSE new)]

\* WriteAt of cipher blocks.  One that fails may have written the first blocks,
\* and a part of the next.
WriteAt(r, first, cblocks) ==
    LET n     == Len(cblocks)
        size  == (n - 1) * CipherBS + Len(cblocks[n].data) + BlockOverhead
        whole == r.cut \div CipherBS
        rest  == r.cut % CipherBS
        done  == SubSeq(cblocks, 1, whole)
                     \o (IF rest = 0 THEN << >> ELSE << TornBlock(r, first + whole, rest) >>)
    IN  IF ~Fails(r) \/ r.cut >= size THEN Pwrite(Succeeds(r), first, cblocks)
        ELSE IF r.cut = 0 THEN Fail(r, "EIO")
        ELSE Fail([Pwrite(r, first, done) EXCEPT !.torn = rest # 0], "EIO")

\* ftruncate(2) to the end of the n-th cipher block.
FtruncateBlocks(r, n) ==
    IF Fails(r) THEN Fail(r, "EIO")
    ELSE [Succeeds(r) EXCEPT
             !.hdr = IF @ = NoID THEN ZeroID ELSE @,
             !.blocks = IF n <= Len(@) THEN SubSeq(@, 1, n) ELSE FillTo(@, n)]

\* ftruncate(2) to zero, which also forgets the cached ID.
FtruncateZero(r) ==
    IF Fails(r) THEN Fail(r, "EIO")
    ELSE [Succeeds(r) EXCEPT !.hdr = NoID, !.blocks = << >>, !.ID = NoID]

CipherSize(r) ==
    IF r.hdr = NoID THEN 0
    ELSE IF r.blocks = << >> THEN HeaderLen
    ELSE BlockNoToCipherOff(Len(r.blocks) - 1)
             + Len(r.blocks[Len(r.blocks)].data) + BlockOverhead

statPlainSize(r) == CipherSizeToPlainSize(CipherSize(r))

\* NoID stands for io.EOF, ZeroID for a header that does not parse.  A file
\* that is only a header counts as empty.
readFileID(r) == IF r.blocks = << >> THEN NoID ELSE r.hdr

\* When WriteAt fails, what it left of a header reads as an empty file: no
\* block follows it.
createHeader(r) ==
    LET r1 == EnospcPrealloc(r)
    IN  IF r1.errno # "OK" THEN r1
        ELSE IF Fails(r1) THEN Fail(r1, "EIO")
        ELSE [Succeeds(r1) EXCEPT !.hdr = r.fresh, !.ID = r.fresh]

----------------------------------------------------------------------------

\* doRead leaves the plaintext in data and the file ID in the table entry.
doRead(r, off, length) ==
    LET id     == IF r.ID # NoID THEN r.ID ELSE readFileID(r)
        blks   == ExplodePlainRange(off, length)
        first  == blks[1].BlockNo
        last   == MinUint64(blks[Len(blks)].BlockNo, Len(r.blocks) - 1)
        skip   == blks[1].Skip
        have   == (last - first) * PlainBS + Len(r.blocks[last + 1].data)
        plain(i) == r.blocks[first + 1 + ((i - 1) \div PlainBS)].data[((i - 1) % PlainBS) + 1]
    IN  IF id = NoID THEN [r EXCEPT !.data = << >>]
        ELSE IF id = ZeroID THEN Fail(r, "EIO")
        ELSE IF last < first THEN [r EXCEPT !.ID = id, !.data = << >>]
        ELSE IF \E n \in first..last : ~Decrypts(r.blocks[n + 1], n, id)
             THEN Fail([r EXCEPT !.ID = id], "EIO")
        ELSE [r EXCEPT !.ID = id,
                       !.data = [i \in 1..(MinUint64(have, skip + length) - skip) |->
                                    plain(skip + i)]]

\* The file ID doWrite encrypts with: cached, read from disk, or new.
writeFileID(r) ==
    IF r.ID # NoID THEN r
    ELSE LET id == readFileID(r)
         IN  IF id = NoID THEN createHeader(r)
             ELSE IF id = ZeroID THEN Fail(r, "EIO")
             ELSE [r EXCEPT !.ID = id]

\* The bytes of the payload that go into block b, merged with what the block
\* already holds when b is only a part of it.
blockData(r, b, data, off) ==
    LET start == BlockNoToPlainOff(b.BlockNo)
        new   == SubSeq(data, start + b.Skip - off + 1,
                              start + b.Skip - off + b.Length)
    IN  IF IsPartial(b)
        THEN MergeBlocks(doRead(r, start, PlainBS).data, new, b.Skip)
        ELSE new

doWrite(r, data, off) ==
    LET fileWasEmpty == r.ID = NoID /\ readFileID(r) = NoID
        r1     == writeFileID(r)
        blks   == ExplodePlainRange(off, Len(data))
        first  == blks[1].BlockNo
        rmwBad == \E i \in DOMAIN blks :
                     /\ IsPartial(blks[i])
                     /\ doRead(r1, BlockNoToPlainOff(blks[i].BlockNo), PlainBS).errno # "OK"
        cblocks == [i \in DOMAIN blks |->
                       EncryptBlock(blockData(r1, blks[i], data, off),
                                    blks[i].BlockNo, r1.ID)]
        r2 == EnospcPrealloc(r1)
    IN  IF r1.errno # "OK" THEN r1
        ELSE IF rmwBad THEN Fail(r1, "EIO")
        ELSE IF r2.errno = "OK" THEN WriteAt(r2, first, cblocks)
        ELSE IF fileWasEmpty       \* kill the header again; with cut, that fails as well
             THEN [r2 EXCEPT !.hdr = IF r2.cut = 0 THEN NoID ELSE @, !.ID = NoID]
        ELSE r2

----------------------------------------------------------------------------

\* Pad a file of plainSize bytes to the block boundary.
zeroPad(r, plainSize) ==
    LET lastBlockLen == plainSize % PlainBS
    IN  IF lastBlockLen = 0 THEN r
        ELSE doWrite(r, Zeros(PlainBS - lastBlockLen), plainSize)

\* A write that leaves a gap behind the last block first pads that block.
writePadHole(r, targetOff) ==
    LET plainSize == statPlainSize(r)
    IN  IF PlainOffToBlockNo(targetOff) <= PlainOffToBlockNo(plainSize) THEN r
        ELSE zeroPad(r, plainSize)

truncateGrowFile(r, oldPlainSz, newPlainSz) ==
    LET grownInBlock == /\ oldPlainSz > 0
                        /\ PlainOffToBlockNo(oldPlainSz - 1)
                               = PlainOffToBlockNo(newPlainSz - 1)
        padded  == zeroPad(r, oldPlainSz)
        withHdr == IF oldPlainSz = 0 THEN createHeader(padded) ELSE padded
    IN  IF grownInBlock THEN doWrite(r, Zeros(1), newPlainSz - 1)
        ELSE IF padded.errno # "OK" THEN padded
        ELSE IF newPlainSz % PlainBS # 0
             THEN doWrite(padded, Zeros(1), newPlainSz - 1)
        ELSE IF withHdr.errno # "OK" THEN withHdr
        ELSE FtruncateBlocks(withHdr, newPlainSz \div PlainBS)

truncateShrinkFile(r, newSize) ==
    LET blockNo  == PlainOffToBlockNo(newSize)
        plainOff == BlockNoToPlainOff(blockNo)
        lastBlockLen == newSize - plainOff
        r1 == IF lastBlockLen > 0 THEN doRead(r, plainOff, lastBlockLen) ELSE r
        r2 == FtruncateBlocks(r1, blockNo)
    IN  IF r1.errno # "OK" THEN r1
        ELSE IF r2.errno = "OK" /\ lastBlockLen > 0 THEN doWrite(r2, r1.data, plainOff)
        ELSE r2

\* Mutant: the sizes are compared in blocks.
truncate_inBlocks(r, newSize) ==
    LET oldSize == statPlainSize(r)
    IN  IF newSize = 0 THEN FtruncateZero(r)
        ELSE IF PlainOffToBlockNo(newSize) = PlainOffToBlockNo(oldSize) THEN r
        ELSE IF newSize > oldSize THEN truncateGrowFile(r, oldSize, newSize)
        ELSE truncateShrinkFile(r, newSize)

truncate(r, newSize) ==
    LET oldSize == statPlainSize(r)
    IN  IF newSize = 0 THEN FtruncateZero(r)
        ELSE IF newSize = oldSize THEN r
        ELSE IF newSize > oldSize THEN truncateGrowFile(r, oldSize, newSize)
        ELSE truncateShrinkFile(r, newSize)

\* Fallocate(FALLOC_FL_KEEP_SIZE) changes no byte of the backing file.
allocate(r, newPlainSz, keepSize) ==
    LET oldPlainSz == statPlainSize(r)
    IN  IF Fails(r) THEN Fail(r, "ENOSPC")
        ELSE IF keepSize \/ newPlainSz <= oldPlainSz THEN Succeeds(r)
        ELSE truncateGrowFile(Succeeds(r), oldPlainSz, newPlainSz)

----------------------------------------------------------------------------
(* opCount counts ContentLock.Lock() calls.  The code only ever asks       *)
(* whether exactly one such call, its own, happened since a handle's last  *)
(* write, so the count and since (opCount minus lastOpCount, before the    *)
(* request at hand) stop at 1.                                             *)

Saturate(n) == IF n > 1 THEN 1 ELSE n

ClosedHandle == [open |-> FALSE, since |-> 0, lastWrittenOffset |-> 0]

OpenHandles == {h \in Handles : handle[h].open}

\* ContentLock.Lock(), as seen by the File objects.
LockCounted ==
    [h \in Handles |-> IF handle[h].open
                       THEN [handle[h] EXCEPT !.since = Saturate(@ + 1)]
                       ELSE handle[h]]

\* A new header gets an ID that is not in use; any call of a request may fail,
\* and a WriteAt then with nothing, a part of a block or a block written.
MaxCalls == 5
Cuts == {0, CipherBS - 1, CipherBS}
UsedIDs == {file.hdr, file.ID} \union {file.blocks[i].id : i \in DOMAIN file.blocks}
Request(f, fresh, good, cut) ==
    [hdr |-> f.hdr, blocks |-> f.blocks, ID |-> f.ID, fresh |-> fresh, good |-> good,
     cut |-> cut, torn |-> FALSE, errno |-> "OK", data |-> << >>]
ReadRequest == Request(file, NoID, 0, 0)
Outcome(r) == [file |-> [hdr |-> r.hdr, blocks |-> r.blocks, ID |-> r.ID],
               ok |-> r.errno = "OK", torn |-> r.torn]

\* How handler may end: with none of its calls failing, or with one that does.
Outcomes(handler(_)) ==
    UNION {LET best == handler(Request(file, fresh, MaxCalls, 0))
           IN  {Outcome(best)} \union
               {Outcome(handler(Request(file, fresh, good, cut))) :
                   good \in 0..(MaxCalls - best.good - 1), cut \in Cuts} :
           fresh \in FileIDs \ UsedIDs}

\* The requests of the kernel, and the answers.  Which of the open File objects
\* serves a Read, a Setattr or an Allocate makes no difference, nor does the
\* range of a Read to what it leaves behind, a cached ID.
Answer(ok) == [op |-> "answer", ok |-> ok]
Writes == {[op |-> "write", h |-> h, off |-> off, data |-> data] :
              h \in OpenHandles, off \in 0..(MaxSize - 1), data \in WriteData}
Calls ==
    [op : {"read"}, off : {0}]
    \union {q \in Writes : q.off + Len(q.data) <= MaxSize}
    \union [op : {"truncate"}, size : 0..MaxSize]
    \union [op : {"allocate"}, size : 1..MaxSize, keepSize : {FALSE}]
    \union [op : {"allocate"}, size : {1}, keepSize : {TRUE}]

Init ==
    /\ file = [hdr |-> NoID, blocks |-> << >>, ID |-> NoID]
    /\ handle = [h \in Handles |-> ClosedHandle]
    /\ opCount = 0
    /\ req = Answer(TRUE)
    /\ damaged = FALSE

Answered == req.op = "answer"

Ask ==
    /\ Answered
    /\ \/ OpenHandles # {} /\ req' \in Calls
       \/ req' \in [op : {"pathTruncate"}, size : 0..MaxSize]
    /\ UNCHANGED << file, handle, opCount, damaged >>

\* Node.Open or Node.Create, up to NewFile and Register.
Open(h) ==
    /\ Answered /\ ~handle[h].open
    /\ handle' = [handle EXCEPT ![h] =
                     [open |-> TRUE, since |-> opCount, lastWrittenOffset |-> 0]]
    /\ UNCHANGED << file, opCount, req, damaged >>

\* The last Release drops the table entry and with it the cached ID.
Release(h) ==
    /\ Answered /\ handle[h].open
    /\ handle' = [handle EXCEPT ![h] = ClosedHandle]
    /\ file' = IF OpenHandles = {h} THEN [file EXCEPT !.ID = NoID] ELSE file
    /\ UNCHANGED << opCount, req, damaged >>

Read ==
    /\ req.op = "read"
    /\ LET o == Outcome(doRead(ReadRequest, req.off, PlainBS))
       IN  file' = o.file /\ req' = Answer(o.ok)
    /\ UNCHANGED << handle, opCount, damaged >>

\* Mutant: only the offsets are compared.
isConsecutiveWrite_offsetOnly(h, off) == off = handle[h].lastWrittenOffset + 1

\* Did this handle's last write end right before off, with no other write
\* operation since?  (The code compares after its own Lock, hence with 1.)
isConsecutiveWrite(h, off) ==
    /\ handle[h].since = 0
    /\ off = handle[h].lastWrittenOffset + 1

write(r, h, data, off) ==
    LET padded == IF isConsecutiveWrite(h, off) THEN r ELSE writePadHole(r, off)
    IN  IF padded.errno # "OK" THEN padded ELSE doWrite(padded, data, off)

\* The changes and the answer of outcome o.
Served(o) ==
    /\ file' = o.file /\ req' = Answer(o.ok)
    /\ damaged' = (damaged \/ o.torn)

Write ==
    /\ req.op = "write"
    /\ opCount' = Saturate(opCount + 1)
    /\ \E o \in Outcomes(LAMBDA r : write(r, req.h, req.data, req.off)) :
          /\ Served(o)
          /\ handle' = IF o.ok
                       THEN [LockCounted EXCEPT
                               ![req.h].since = 0,
                               ![req.h].lastWrittenOffset = req.off + Len(req.data) - 1]
                       ELSE LockCounted

\* ftruncate(2): File.Setattr with a size.
Setattr ==
    /\ req.op = "truncate"
    /\ opCount' = Saturate(opCount + 1)
    /\ handle' = LockCounted
    /\ \E o \in Outcomes(LAMBDA r : truncate(r, req.size)) : Served(o)

Allocate ==
    /\ req.op = "allocate"
    /\ opCount' = Saturate(opCount + 1)
    /\ handle' = LockCounted
    /\ \E o \in Outcomes(LAMBDA r : allocate(r, req.size, req.keepSize)) : Served(o)

\* A write operation on another file: the counter is global.
OtherFileLock ==
    /\ Answered
    /\ opCount' = Saturate(opCount + 1)
    /\ handle' = LockCounted
    /\ UNCHANGED << file, req, damaged >>

\* truncate(2): Node.Setattr opens the file, truncates it and releases it
\* again.  It takes no ContentLock, so opCount stays as it is.
NodeSetattr ==
    /\ req.op = "pathTruncate"
    /\ \E o \in Outcomes(LAMBDA r : truncate(r, req.size)) :
          /\ file' = IF OpenHandles = {} THEN [o.file EXCEPT !.ID = NoID] ELSE o.file
          /\ req' = Answer(o.ok)
          /\ damaged' = (damaged \/ o.torn \/ OpenHandles # {})
    /\ UNCHANGED << handle, opCount >>

Next ==
    \/ Ask \/ Read \/ Write \/ Setattr \/ Allocate \/ NodeSetattr
    \/ \E h \in Handles : Open(h) \/ Release(h)
    \/ OtherFileLock

Spec == Init /\ [][Next]_vars

----------------------------------------------------------------------------
(* Properties                                                              *)

Full(b) == Len(b.data) = PlainBS

\* The format of a file at rest (doWrite, truncate, zeroPad): every block
\* authenticates in its place under the ID in the header, no block is empty,
\* only the last one may be short, and a file with blocks has a header.
WellFormed ==
    ~damaged =>
        /\ file.blocks # << >> => file.hdr \in FileIDs
        /\ \A i \in DOMAIN file.blocks :
              /\ Decrypts(file.blocks[i], i - 1, file.hdr)
              /\ Len(file.blocks[i].data) \in 1..PlainBS
              /\ i < Len(file.blocks) => Full(file.blocks[i])

\* The plaintext of the backing file, block by block; -1 marks a byte whose
\* block does not authenticate.
Plaintext ==
    LET n == Len(file.blocks)
        size == IF n = 0 THEN 0 ELSE (n - 1) * PlainBS + Len(file.blocks[n].data)
    IN  [i \in 1..size |->
            LET no == (i - 1) \div PlainBS
            IN  IF Decrypts(file.blocks[no + 1], no, file.hdr)
                THEN file.blocks[no + 1].data[((i - 1) % PlainBS) + 1]
                ELSE -1]

\* A Read of any range returns exactly the bytes of the file in that range,
\* with the ID from the cache or from disk, across block boundaries and at EOF.
\* After a truncation behind an open File, or a write that stopped inside a
\* block, it may fail, but never returns bytes that are not the file's.
ReadsAreFaithful ==
    Answered => \A off \in 0..MaxSize, length \in 1..MaxSize :
        LET r == doRead(ReadRequest, off, length)
        IN  /\ ~damaged => r.errno = "OK"
            /\ r.errno = "OK" =>
                  r.data = SubSeq(Plaintext, off + 1, MinUint64(Len(Plaintext), off + length))

\* Through the cipher blocks the user sees a plain POSIX file: each request
\* that succeeds has exactly its documented effect on the bytes, also when it
\* creates holes or grows or shrinks within a block, and one that fails half
\* way leaves no byte nobody wrote, until a truncation by path goes behind an
\* open File or a write stops inside a block.
Plain == INSTANCE PlainFile WITH content <- Plaintext, Unit <- PlainBS
ImplementsPlainFile == Plain!Init /\ [][damaged' \/ Plain!Next]_<< Plaintext, req >>

=============================================================================

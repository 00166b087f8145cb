-------------------------------- MODULE Seek --------------------------------
(***************************************************************************)
(* Lseek of internal/fusefrontend/file_holes.go: SEEK_DATA and SEEK_HOLE   *)
(* on the backing file, translated to plaintext offsets.  The file system  *)
(* below allocates blocks of Blksize bytes, which are not those of         *)
(* gocryptfs; a byte that is not allocated is part of a hole.              *)
(***************************************************************************)
EXTENDS ContentOffsets, FiniteSets, FiniteSetsExt

CONSTANTS Blksize, ENXIO

SeekAssumption == Blksize \in Nat \ {0} /\ ENXIO \notin Nat

\* The backing file: its size, and which blocks of the file system are allocated.
InData(f, cOff) == cOff \div Blksize \in f.allocated

\* lseek(2) of the file system.
Seek(f, cOff, whence) ==
    LET found == {o \in cOff .. f.size - 1 : InData(f, o) <=> whence = "SEEK_DATA"}
    IN  IF cOff >= f.size THEN ENXIO
        ELSE IF found # {} THEN Min(found)
        ELSE IF whence = "SEEK_HOLE" THEN f.size ELSE ENXIO

\* The search starts at the beginning of the block; the next section begins, for
\* gocryptfs, with the next block.
Lseek(f, off, whence) ==
    LET cipherOff    == BlockNoToCipherOff(PlainOffToBlockNo(off))
        newCipherOff == Seek(f, cipherOff, whence)
    IN  IF PlainOffToCipherOff(off) >= f.size \/ newCipherOff = ENXIO THEN ENXIO
        ELSE IF newCipherOff = cipherOff THEN off
        ELSE IF whence = "SEEK_HOLE" /\ newCipherOff = f.size THEN CipherSizeToPlainSize(newCipherOff)
        ELSE BlockNoToPlainOff(CipherOffToBlockNo(newCipherOff + CipherBS - 1))

----------------------------------------------------------------------------

\* A file of size bytes in which the blocks of written are not holes; the file system
\* may have allocated more than was written.
Blocks(lo, hi) == lo \div Blksize .. (hi - 1) \div Blksize
Backing(size, written, spare) ==
    LET cSize == PlainSizeToCipherSize(size)
        of(no) == Blocks(BlockNoToCipherOff(no), MinUint64(BlockNoToCipherOff(no + 1), cSize))
    IN  [size |-> cSize, allocated |-> Blocks(0, HeaderLen) \union spare \union UNION {of(no) : no \in written}]

\* A program that copies the file section by section, and is at off, reads every byte that
\* is not in a hole and moves on: SEEK_DATA does not pass a block that was written, nor
\* say that there is none when there is; SEEK_HOLE finds the end of the file or something
\* before it; and no offset is the beginning of both (Lseek).
CopyIsComplete(size, off, written, spare) ==
    LET f == Backing(size, written, spare)
        data == Lseek(f, off, "SEEK_DATA")
        hole == Lseek(f, off, "SEEK_HOLE")
        rest == {no \in written : BlockNoToPlainOff(no + 1) > off}
    IN  /\ data = ENXIO => rest = {}
        /\ data # ENXIO =>
              data >= off /\ \A no \in rest : BlockNoToPlainOff(no) >= data \/ data = off
        /\ hole # ENXIO /\ hole >= off /\ hole <= size
        /\ data # hole \/ data > off

\* A block at the end that is not full is never a hole.
WrittenSets(size) ==
    {w \in SUBSET (0 .. PlainOffToBlockNo(size - 1)) :
        size % PlainBS # 0 => PlainOffToBlockNo(size - 1) \in w}
=============================================================================

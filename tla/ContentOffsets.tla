--------------------------- MODULE ContentOffsets ---------------------------
(***************************************************************************)
(* The offset arithmetic of internal/contentenc (offsets.go, intrablock.go,*)
(* MergeBlocks of content.go).  An encrypted file is a header of HeaderLen *)
(* bytes followed by cipher blocks of CipherBS bytes, each of which holds  *)
(* PlainBS plaintext bytes plus the per-block overhead (nonce and tag).    *)
(* Only the last block may be shorter.  Sizes and offsets are naturals:    *)
(* the code's uint64 values stay far below 2^64 for every legal file.      *)
(***************************************************************************)
EXTENDS Integers, Sequences

CONSTANTS PlainBS, CipherBS, HeaderLen

\* Every backend has a nonce and a tag, so a block always has overhead; the
\* header is never empty.
ASSUME LayoutAssumption ==
    /\ PlainBS \in Nat \ {0}
    /\ CipherBS \in Nat
    /\ CipherBS > PlainBS
    /\ HeaderLen \in Nat \ {0}

BlockOverhead == CipherBS - PlainBS

MinUint64(x, y) == IF x < y THEN x ELSE y

PlainOffToBlockNo(plainOffset) == plainOffset \div PlainBS

\* The code panics below HeaderLen.
CipherOffToBlockNo(cipherOffset) == (cipherOffset - HeaderLen) \div CipherBS

BlockNoToCipherOff(blockNo) == HeaderLen + blockNo * CipherBS

BlockNoToPlainOff(blockNo) == blockNo * PlainBS

\* Highest ciphertext offset touched by an access to plaintext offset plainOff.
PlainOffToCipherOff(plainOff) ==
    BlockNoToCipherOff(PlainOffToBlockNo(plainOff))
        + (plainOff % PlainBS) + BlockOverhead

PlainSizeToCipherSize(plainSize) ==
    IF plainSize = 0 THEN 0 ELSE PlainOffToCipherOff(plainSize - 1) + 1

\* A last block too short to hold any plaintext is rounded up to one byte.
CipherSizeToPlainSize(cipherSize) ==
    IF cipherSize <= HeaderLen THEN 0
    ELSE LET lastBlockSize == (cipherSize - HeaderLen) % CipherBS
             padded == IF lastBlockSize > 0 /\ lastBlockSize <= BlockOverhead
                       THEN cipherSize - lastBlockSize + BlockOverhead + 1
                       ELSE cipherSize
             blockCount == CipherOffToBlockNo(padded - 1) + 1
             overhead == BlockOverhead * blockCount + HeaderLen
         IN  IF overhead > padded THEN 0 ELSE padded - overhead

----------------------------------------------------------------------------
(* IntraBlock: the part of block BlockNo that starts Skip bytes into its   *)
(* payload and is Length bytes long.                                       *)

IsPartial(b) == b.Skip > 0 \/ b.Length < PlainBS

\* The loop of ExplodePlainRange: cut the range at the block boundaries.
explodePlain[offset \in Nat, length \in Nat] ==
    IF length = 0 THEN << >>
    ELSE LET no   == PlainOffToBlockNo(offset)
             skip == offset - BlockNoToPlainOff(no)
             len  == MinUint64(length, PlainBS - skip)
         IN  << [BlockNo |-> no, Skip |-> skip, Length |-> len] >>
                 \o explodePlain[offset + len, length - len]

\* The loop of ExplodeCipherRange, used by reverse mode.
explodeCipher[offset \in Nat, length \in Nat] ==
    IF length = 0 THEN << >>
    ELSE LET no     == CipherOffToBlockNo(offset)
             skip   == offset - BlockNoToCipherOff(no)
             maxLen == CipherBS - skip
             len    == IF length < maxLen THEN length ELSE maxLen
         IN  << [BlockNo |-> no, Skip |-> skip, Length |-> len] >>
                 \o explodeCipher[offset + len, length - len]

\* Mutant: every block is taken from its start.
ExplodePlainRange_noSkip(offset, length) ==
    LET first == PlainOffToBlockNo(offset)
        end   == offset + length
    IN  IF length = 0 THEN << >>
        ELSE [i \in 1..(PlainOffToBlockNo(end - 1) - first + 1) |->
                [BlockNo |-> first + i - 1, Skip |-> 0,
                 Length |-> MinUint64(end, BlockNoToPlainOff(first + i))
                                - BlockNoToPlainOff(first + i - 1)]]

\* ExplodePlainRange without the loop: the i-th block of a non-empty range.
ExplodePlainRange(offset, length) ==
    LET first == PlainOffToBlockNo(offset)
        end   == offset + length
    IN  IF length = 0 THEN << >>
        ELSE [i \in 1..(PlainOffToBlockNo(end - 1) - first + 1) |->
                LET no   == first + i - 1
                    skip == IF i = 1 THEN offset - BlockNoToPlainOff(no) ELSE 0
                IN  [BlockNo |-> no, Skip |-> skip,
                     Length |-> MinUint64(end, BlockNoToPlainOff(no + 1))
                                    - BlockNoToPlainOff(no) - skip]]

\* Mutant: the last block is left out.
JointCiphertextRange_short(blocks) ==
    LET offset == BlockNoToCipherOff(blocks[1].BlockNo)
    IN  [offset |-> offset,
         length |-> BlockNoToCipherOff(blocks[Len(blocks)].BlockNo) - offset]

JointCiphertextRange(blocks) ==
    LET offset == BlockNoToCipherOff(blocks[1].BlockNo)
    IN  [offset |-> offset,
         length |-> BlockNoToCipherOff(blocks[Len(blocks)].BlockNo)
                        + CipherBS - offset]

JointPlaintextRange(blocks) ==
    LET offset == BlockNoToPlainOff(blocks[1].BlockNo)
    IN  [offset |-> offset,
         length |-> BlockNoToPlainOff(blocks[Len(blocks)].BlockNo)
                        + PlainBS - offset]

\* Merge newData into oldData at offset; a gap between them reads as zeros.
MergeBlocks(oldData, newData, offset) ==
    LET newLen == offset + Len(newData)
        outLen == IF Len(oldData) < newLen THEN newLen ELSE Len(oldData)
    IN  [i \in 1..outLen |->
            IF i > offset /\ i <= newLen THEN newData[i - offset]
            ELSE IF i <= Len(oldData) THEN oldData[i] ELSE 0]

=============================================================================

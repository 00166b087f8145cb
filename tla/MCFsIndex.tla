------------------------------ MODULE MCFsIndex ------------------------------
(***************************************************************************)
(* The blob store and its index, and the formats of what is stored and     *)
(* sent.  Each behaviour is one of one part; the other stays as it was     *)
(* made.  The formats are pure algorithms, over bounded inputs: such a     *)
(* behaviour looks at a byte range of a file (ContentOffsets; off is also  *)
(* read as the size of a backing file, and length as that of a file with   *)
(* holes: Seek), at a metadata record that is written, damaged and read    *)
(* back (BlobMeta), at a directory with a file and a damaged name (Names), *)
(* or at a request to the card and a response that something happens to on *)
(* its way (CardFrames).                                                   *)
(***************************************************************************)
EXTENDS Seek, BlobMeta, Names, CardFrames, TLC

CONSTANTS MaxOff, NameLens, Targets, XattrLens, MaxXattrs, MaxPlainName, ParamLens
ASSUME MaxOffAssumption == MaxOff \in Nat
ASSUME CodecAssumptions == SeekAssumption /\ NamesAssumption /\ FramesAssumption

VARIABLES off, length, rec, units, damaged,
          file, other, badname,      \* a name, a stored name next to it, -badname
          request, apdu              \* of a card session
vars == << off, length, rec, units, damaged, file, other, badname, request, apdu >>

Xattrs == UNION {[1 .. k -> [name : {0, 3}, value : XattrLens]] : k \in 0 .. MaxXattrs}
Candidates ==
    [uuid : uuids, root : {FALSE}, name : NameLens, badName : BOOLEAN,
     type : {TypeRegular, TypeDir, TypeSymlink, 9}, target : Targets, xattrs : Xattrs]
    \union
    [uuid : uuids, root : {TRUE}, name : {0, 1}, badName : {FALSE},
     type : {TypeDir}, target : {0}, xattrs : {<< >>}]

\* Names, and what is left of them when something is appended or nothing was encrypted.
iv == 1
PlainNames == UNION {[1 .. k -> 1 .. 3] : k \in 1 .. MaxPlainName}
                 \union {[i \in 1 .. k |-> 1] : k \in MaxPlainName + 1 .. nameMax + 1}
StoredNames ==
    {EncryptName(p, iv) \o junk :
        p \in {n \in PlainNames : Len(n) <= 2 /\ IsValidName(n)},
        junk \in {<< 1 >>, << 3 >>, << 3, 1 >>, << 2, 2 >>, << 1, 2, 2, 1 >>}}
    \union {<< 1 >>, << 3, 1 >>, << 1, 1, 1, 1 >>, << 2, 1, 2, 1, 3, 3 >>}

\* Two sessions of one client, and one whose names run together the same way.
Session(i, c, id) ==
    [role |-> 4, cardInstanceID |-> i, cardClientID |-> c, cardSessionID |-> << id >>,
     challenge |-> id]
Sessions == {Session(<< 1 >>, << 1, 2 >>, 1), Session(<< 1 >>, << 1, 2 >>, 2),
             Session(<< 1, 1 >>, << 2 >>, 1)}
Requests ==
    [session : Sessions, command : {5, 6}, sequence : {0, 1}, requestID : {<< 7 >>},
     iv : {<< 3 >>}, params : {[i \in 1 .. k |-> i % LenMod] : k \in ParamLens}]

NoRange == off = 0 /\ length = 0
NoRecord == rec = None /\ units = None
NoNames == file = << >> /\ other = << >> /\ badname = FALSE
NoCard == request = None /\ apdu = None

Answer(r) == cardAnswer(r.session, r, StatusOk, << r.command, r.sequence >>)

Init ==
    /\ damaged = FALSE
    /\ \/ off \in 0..MaxOff /\ length \in 1..MaxOff /\ NoRecord /\ NoNames /\ NoCard
       \/ rec \in Candidates /\ units = SealInfoChunk(rec) /\ NoRange /\ NoNames /\ NoCard
       \/ /\ file \in PlainNames /\ other \in StoredNames /\ badname \in BOOLEAN
          /\ NoRange /\ NoRecord /\ NoCard
       \/ request \in Requests /\ apdu = Answer(request) /\ NoRange /\ NoRecord /\ NoNames

\* A blob that lost its end.
Cut ==
    /\ units # None /\ ~damaged
    /\ \E k \in 0 .. Len(units) - 1 : units' = SubSeq(units, 1, k)
    /\ damaged' = TRUE /\ UNCHANGED << off, length, rec, file, other, badname, request, apdu >>

\* Two units in the wrong order.
Swap ==
    /\ units # None /\ ~damaged
    /\ \E i, j \in 1 .. Len(units) :
          i < j /\ units' = [units EXCEPT ![i] = units[j], ![j] = units[i]]
    /\ damaged' = TRUE /\ UNCHANGED << off, length, rec, file, other, badname, request, apdu >>

\* A unit of the blob of another file.
Misplace ==
    /\ units # None /\ ~damaged
    /\ \E u \in uuids \ {rec.uuid}, i \in 1 .. Len(units) :
          units' = [units EXCEPT ![i].uuid = u]
    /\ damaged' = TRUE /\ UNCHANGED << off, length, rec, file, other, badname, request, apdu >>

Unaffected == UNCHANGED << off, length, rec, units, file, other, badname, request >>

\* A response that lost its end, has a digit changed, or does not come from the command.
Truncate ==
    /\ apdu # None /\ ~damaged
    /\ \E k \in 0 .. Len(apdu.frame.head) - 1 :
          apdu' = [apdu EXCEPT !.frame.head = SubSeq(@, 1, k), !.frame.mac = Nothing]
    /\ damaged' = TRUE /\ Unaffected
Change ==
    /\ apdu # None /\ ~damaged
    /\ \E k \in DOMAIN apdu.frame.head :
          apdu' = [apdu EXCEPT !.frame.head[k] = (@ + 1) % LenMod]
    /\ damaged' = TRUE /\ Unaffected
Fail ==
    /\ apdu # None /\ ~damaged /\ Unaffected /\ damaged' = TRUE
    /\ \/ apdu' = [apdu EXCEPT !.sw = 6]
       \/ apdu' = cardAnswer(request.session, request, 6, << >>)
\* The response to another request.
Mistake ==
    /\ apdu # None /\ ~damaged /\ Unaffected /\ damaged' = TRUE
    /\ \E r \in Requests : Answer(r) # Answer(request) /\ apdu' = Answer(r)

Next == Cut \/ Swap \/ Misplace \/ Truncate \/ Change \/ Fail \/ Mistake
Spec == Init /\ [][Next]_vars

----------------------------------------------------------------------------
(* Byte ranges.                                                            *)

SizesRoundTrip == CipherSizeToPlainSize(PlainSizeToCipherSize(off)) = off

PlainRangeIsPartitioned ==
    LET bs == explodePlain[off, length]
        start(b) == BlockNoToPlainOff(b.BlockNo) + b.Skip
    IN  /\ bs = ExplodePlainRange(off, length)
        /\ start(bs[1]) = off
        /\ \A i \in DOMAIN bs :
              /\ bs[i].Length > 0 /\ bs[i].Skip + bs[i].Length <= PlainBS
              /\ start(bs[i]) + bs[i].Length =
                    IF i = Len(bs) THEN off + length ELSE start(bs[i + 1])

CipherRangeMatchesPlainRange ==
    LET bs    == explodePlain[off, length]
        range == JointCiphertextRange(bs)
        cs    == explodeCipher[range.offset, range.length]
    IN  /\ Len(cs) = Len(bs)
        /\ \A i \in DOMAIN bs :
              cs[i] = [BlockNo |-> bs[i].BlockNo, Skip |-> 0, Length |-> CipherBS]
        /\ JointPlaintextRange(bs).offset <= off
        /\ JointPlaintextRange(bs).offset + JointPlaintextRange(bs).length >= off + length

\* For files of up to three blocks, whichever of them are holes.
SeeksFindData ==
    off < length /\ length <= 3 * PlainBS =>
        \A w \in WrittenSets(length), spare \in SUBSET Blocks(0, PlainSizeToCipherSize(length)) :
            CopyIsComplete(length, off, w, spare)

\* The offset arithmetic agrees with itself at every block boundary: Getattr reports the
\* size that was written (CipherSizeToPlainSize inverts PlainSizeToCipherSize); the loop of
\* ExplodePlainRange cuts a range into the parts of consecutive blocks, first byte to
\* last; the ciphertext range that is read consists of exactly these blocks; and a copy
\* that follows SEEK_DATA and SEEK_HOLE misses nothing (Lseek).
OffsetsAgree ==
    length > 0 =>
        SizesRoundTrip /\ PlainRangeIsPartitioned /\ CipherRangeMatchesPlainRange /\ SeeksFindData

----------------------------------------------------------------------------
(* Metadata records.                                                       *)

\* What SealInfoChunk accepts is what Validate accepts and fits, and
\* ReadInfoChunk gives the record back, with the content right behind the chunk;
\* a chunk with units missing, moved, or of another file does not read at all.
OnlyIntactRecordsRead ==
    rec # None =>
        /\ ~damaged => (units = None <=> ~Validate(rec) \/ tlvLen(Marshal(rec)) > maxRecordLen)
        /\ units # None =>
              ReadInfoChunk(rec.uuid, units) =
                  IF damaged THEN None ELSE << rec, Len(units) * UnitSize >>

----------------------------------------------------------------------------
(* Names.                                                                  *)

Lookup(name, dir) ==
    IF badname THEN EncryptAndHashBadName(name, iv, dir) ELSE EncryptAndHashName(name, iv)

\* What a directory shows leads back to the file it is shown for: a valid name to its
\* own file, whatever lies beside it, through the .name file if it is long; a damaged
\* name, which only -badname shows, to the damaged file, to the file whose real name
\* looks the same, or to none when that is not clear (EncryptName, DecryptName,
\* decryptBadname, EncryptAndHashBadName, NameType, ReadLongNameAt).
NamesRoundTrip ==
    file # << >> =>
        LET cName == EncryptName(file, iv)
            cFile == EncryptAndHashName(file, iv)
            dir   == {cFile, other}
            shown == DecryptName(other, iv, badname)
            damagedName == decryptName(other, iv) = NoName
        IN  /\ cFile # NoName <=> IsValidName(file)
            /\ cFile # NoName =>
                  /\ DecryptName(cName, iv, badname) = file /\ Lookup(file, dir) = cFile
                  /\ Len(cName) <= lim
                  /\ NameType(cFile) = IF Len(cName) > longNameMax THEN "LongNameContent"
                                      ELSE "LongNameNone"
                  /\ cFile # cName => NameType(cFile \o LongNameSuffix) = "LongNameFilename"
            /\ damagedName /\ ~badname => shown = NoName
            /\ shown # NoName =>
                  /\ IsValidName(shown)
                  /\ Lookup(shown, dir) \in {other, NoName} \union (IF shown = file THEN {cFile} ELSE {})
                  /\ Lookup(shown, {other}) = other

----------------------------------------------------------------------------
(* Frames.                                                                 *)

\* The card reads the command and the parameters that were sent, or the request is
\* refused because its frame is too long for a command APDU; and what a response opens
\* to is what the card answered to this request in this session, whatever happened to
\* it on its way (BuildCERequest, toCommandAPDU, OpenCEResponse).
FramesAreUnambiguous ==
    request # None =>
        LET sent == BuildCERequest(request.session, request, request.params)
            got  == ParseProtectedResponse(OpenCEResponse(request.session, request, apdu))
        IN  /\ sent # Nothing =>
                  cardReads(request.session, sent) = << request.command >> \o request.params
            /\ got # Nothing => got = << request.command, request.sequence >>
            /\ ~damaged => got # Nothing
            /\ damaged /\ apdu.frame.mac # Answer(request).frame.mac => got = Nothing

----------------------------------------------------------------------------
(* The index, and the two together.                                        *)

CONSTANTS t1, t2, d1, f1, f2, RootDirUUID, FileNames, Torn

\* One thread whose process dies twice, and two threads without crashes.
MCSettings ==
    {[threads |-> {t1}, uuids |-> {d1, f1, f2}, crashes |-> 2],
     [threads |-> {t1, t2}, uuids |-> {d1, f1}, crashes |-> 0]}

VARIABLES part, disk, tmp, dirty, recs, children, crashes, pc, loc, setting

F == INSTANCE FsIndex WITH Threads <- {t1, t2}, Uuids <- {d1, f1, f2}, Dirs <- {d1},
                           Names <- FileNames, Settings <- MCSettings
ASSUME PartAssumptions == F!FsIndexAssumption

indexVars == << disk, tmp, dirty, recs, children, crashes, pc, loc, setting >>
allVars == << part, vars, indexVars >>

\* A part that does not run starts in one of its initial states only.
MCInit ==
    /\ F!Init
    /\ \/ part = "FsIndex" /\ NoRange /\ NoRecord /\ NoNames /\ NoCard /\ damaged = FALSE
       \/ part = "codecs" /\ Init /\ setting = CHOOSE s \in MCSettings : TRUE

\* What has been damaged, or cannot be, is read and nothing more happens to it.
Looked == part = "codecs" /\ (damaged \/ (units = None /\ apdu = None)) /\ UNCHANGED allVars

MCNext ==
    \/ part = "codecs" /\ Next /\ UNCHANGED << part, indexVars >>
    \/ Looked
    \/ part = "FsIndex" /\ F!Next /\ UNCHANGED << part, vars >>

MCSpec == MCInit /\ [][MCNext]_allVars

----------------------------------------------------------------------------
(* The properties of the index, under their own names.                     *)

\* An idx/tree that is trusted says what the blobs say (MarkDirty, Save, Open).
AcceptedCacheIsCurrent == part = "FsIndex" => F!AcceptedCacheIsCurrent
\* Between two calls Index.recs and Index.children say what the blobs say (Put, Remove,
\* Rebuild).
IndexMatchesBlobs == part = "FsIndex" => F!IndexMatchesBlobs
\* A file that is visible is complete (WriteFileAtomic).
NothingTorn == part = "FsIndex" => F!NothingTorn
=============================================================================

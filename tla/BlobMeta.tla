------------------------------ MODULE BlobMeta -------------------------------
(***************************************************************************)
(* The metadata record of a file and the info-chunk it is sealed in.  A    *)
(* record keeps the lengths of its variable fields; its encoding (TLV) is  *)
(* the sequence of its entries; a sealed unit is what authenticated        *)
(* encryption binds together: the file, the position, and the plaintext,   *)
(* an interval of the encoding.                                            *)
(***************************************************************************)
EXTENDS Integers, Sequences

CONSTANTS uuids, None,
          Garbled      \* whatever a parser makes of pieces that do not fit

UnitSize == 512
unitPlainLen == UnitSize - 16 - 16
unit0Payload == unitPlainLen - 4
unitNPayload == unitPlainLen
MaxInfoChunkUnits == 256
NameMax == 255
SymlinkTargetMax == 4096
maxRecordLen == 65535

TypeRegular == 1
TypeDir == 2
TypeSymlink == 3
tagSymlinkTarget == 14
tagXattr == 15
required == {2, 3, 4, 5}          \* tagFileUUID, tagParentDirID, tagName, tagType

lesser(a, b) == IF a < b THEN a ELSE b

----------------------------------------------------------------------------
(* Records: [uuid, root, name, badName, type, target, xattrs], with the    *)
(* lengths of name, target and of the name and value of every xattr.       *)

validateName(r) ==
    IF r.name = 0 THEN r.root ELSE r.name <= NameMax /\ ~r.badName

Validate(r) ==
    /\ r.type \in {TypeRegular, TypeDir, TypeSymlink}
    /\ validateName(r)
    /\ IF r.type = TypeSymlink THEN r.target # 0 /\ r.target <= SymlinkTargetMax ELSE r.target = 0
    /\ \A j \in 1 .. Len(r.xattrs) :
          r.xattrs[j].name # 0 /\ 2 + r.xattrs[j].name + r.xattrs[j].value <= maxRecordLen

\* << tag, length, value >>.  The fields of fixed length: schema version, uuid,
\* parent; mode, uid, gid, four times and size.
Marshal(r) ==
    << << 1, 2, 1 >>, << 2, 16, r.uuid >>, << 3, 16, r.root >>, << 4, r.name, r.badName >>,
       << 5, 1, r.type >>, << 6, 4, 0 >>, << 7, 4, 0 >>, << 8, 4, 0 >>,
       << 9, 8, 0 >>, << 10, 8, 0 >>, << 11, 8, 0 >>, << 12, 8, 0 >>, << 13, 8, 0 >> >>
    \o (IF r.type = TypeSymlink THEN << << tagSymlinkTarget, r.target, 0 >> >> ELSE << >>)
    \o [j \in 1 .. Len(r.xattrs) |->
           << tagXattr, 2 + r.xattrs[j].name + r.xattrs[j].value, r.xattrs[j] >>]

tlvLen(tlv) ==
    LET upTo[j \in 0 .. Len(tlv)] == IF j = 0 THEN 0 ELSE upTo[j - 1] + 3 + tlv[j][2]
    IN  upTo[Len(tlv)]

fixedLen == [g \in {1, 2, 3, 5, 6, 7, 8} |-> CASE g = 1 -> 2 [] g \in {2, 3} -> 16 [] g = 5 -> 1 [] OTHER -> 4]

duplicate(tlv) ==
    \E i, j \in 1 .. Len(tlv) : i # j /\ tlv[i][1] = tlv[j][1] /\ tlv[i][1] # tagXattr

\* None for an error.
UnmarshalRecord(tlv) ==
    LET has(g) == \E j \in 1 .. Len(tlv) : tlv[j][1] = g
        last(g) == tlv[CHOOSE j \in 1 .. Len(tlv) :
                          tlv[j][1] = g /\ \A k \in j + 1 .. Len(tlv) : tlv[k][1] # g]
        xs == SelectSeq(tlv, LAMBDA e : e[1] = tagXattr)
        r == [uuid |-> last(2)[3], root |-> last(3)[3], name |-> last(4)[2], badName |-> last(4)[3],
              type |-> last(5)[3],
              target |-> IF has(tagSymlinkTarget) THEN last(tagSymlinkTarget)[2] ELSE 0,
              xattrs |-> [j \in 1 .. Len(xs) |-> xs[j][3]]]
    IN  IF \/ duplicate(tlv)
           \/ \E j \in 1 .. Len(tlv) :
                 \/ tlv[j][1] \notin 1 .. tagXattr
                 \/ tlv[j][1] \in DOMAIN fixedLen /\ tlv[j][2] # fixedLen[tlv[j][1]]
           \/ \E g \in required : ~has(g)
           \/ ~Validate(r)
        THEN None ELSE r

----------------------------------------------------------------------------
(* Info-chunks                                                             *)

\* Mutant: rounded down.
UnitCountFor_down(metaLen) ==
    IF metaLen <= unit0Payload THEN 1 ELSE 1 + (metaLen - unit0Payload) \div unitNPayload

UnitCountFor(metaLen) ==
    IF metaLen <= unit0Payload THEN 1
    ELSE 1 + (metaLen - unit0Payload + unitNPayload - 1) \div unitNPayload

\* The sealed units of a record, None for an error.
SealInfoChunk(r) ==
    LET tlv == Marshal(r)
        len == tlvLen(tlv)
        n == UnitCountFor(len)
        start(i) == IF i = 0 THEN 0 ELSE unit0Payload + (i - 1) * unitNPayload
    IN  IF ~Validate(r) \/ len > maxRecordLen \/ n > MaxInfoChunkUnits THEN None
        ELSE [j \in 1 .. n |->
                [uuid |-> r.uuid, index |-> j - 1, tlv |-> tlv,
                 more |-> j = 1 /\ n > 1, metaLen |-> IF j = 1 THEN len ELSE 0,
                 from |-> start(j - 1), to |-> lesser(len, start(j))]]

\* The additional data of a unit is its file and its position.
openUnit(uuid, i, unit) == unit.uuid = uuid /\ unit.index = i

\* What ReadInfoChunk and DecodeInfoChunk put together: the pieces follow each
\* other and are the whole encoding.
Whole(units, n, metaLen) ==
    /\ units[1].from = 0 /\ units[n].to >= metaLen
    /\ \A j \in 1 .. n - 1 : units[j].to = units[j + 1].from
    /\ \A i, j \in 1 .. n : units[i].tlv = units[j].tlv

\* << record, chunk length >>, or None for an error.
ReadInfoChunk(uuid, units) ==
    IF units = << >> \/ ~openUnit(uuid, 0, units[1]) THEN None
    ELSE LET metaLen == units[1].metaLen
             n == UnitCountFor(metaLen)
         IN  IF \/ (n > 1) # units[1].more \/ n > MaxInfoChunkUnits \/ Len(units) < n
                \/ \E i \in 1 .. n - 1 : ~openUnit(uuid, i, units[i + 1])
             THEN None
             ELSE LET rec == IF Whole(units, n, metaLen) THEN UnmarshalRecord(units[1].tlv) ELSE Garbled
                  IN  IF rec = None THEN None ELSE << rec, n * UnitSize >>

=============================================================================

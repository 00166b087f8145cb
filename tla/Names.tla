-------------------------------- MODULE Names -------------------------------
(***************************************************************************)
(* File names: padded, encrypted, put into base64 characters and, if long, *)
(* hashed; and how -badname shows and finds names that do not decrypt.     *)
(* Bytes are 0..3 (0 stands for NUL and "/", 3 for "." and for every other *)
(* character that base64 does not use, 1 and 2 are base64 characters).     *)
(***************************************************************************)
EXTENDS Integers, Sequences, SequencesExt, FiniteSetsExt

CONSTANTS BlockSize,      \* aes.BlockSize
          nameMax, longNameMax    \* NameMax of names.go, scaled

NamesAssumption == BlockSize \in 1..3 /\ nameMax \in Nat /\ longNameMax \in Nat

NoName == << >>           \* an error in place of a name
BadnameSuffix == << 3, 2 >>
longNamePrefix == << 3, 3, 1 >>
LongNameSuffix == << 3 >>

IsValidName(name) ==
    /\ Len(name) \in 1 .. nameMax
    /\ \A i \in DOMAIN name : name[i] # 0
    /\ name \notin {<< 3 >>, << 3, 3 >>}

----------------------------------------------------------------------------
\* Mutant: a full last block gets no padding.
pad16_full(orig) ==
    LET padLen == IF Len(orig) % BlockSize = 0 THEN 0 ELSE BlockSize - (Len(orig) % BlockSize)
    IN  orig \o [i \in 1 .. padLen |-> padLen]

pad16(orig) ==
    LET padLen == BlockSize - (Len(orig) % BlockSize)
    IN  orig \o [i \in 1 .. padLen |-> padLen]

unPad16(padded) ==
    LET oldLen == Len(padded)
        padLen == padded[oldLen]
    IN  IF \/ oldLen = 0 \/ oldLen % BlockSize # 0
           \/ padLen = 0 \/ padLen > BlockSize \/ padLen >= oldLen
           \/ \E i \in oldLen - padLen + 1 .. oldLen : padded[i] # padLen
        THEN NoName ELSE SubSeq(padded, 1, oldLen - padLen)

\* base64: here two characters per byte.
EncodedLen(n) == 2 * n
EncodeToString(bin) ==
    [i \in 1 .. EncodedLen(Len(bin)) |->
        LET b == bin[(i + 1) \div 2] IN IF i % 2 = 1 THEN 1 + (b \div 2) ELSE 1 + (b % 2)]
DecodeString(s) ==
    IF Len(s) % 2 = 1 \/ \E i \in DOMAIN s : s[i] \notin {1, 2} THEN NoName
    ELSE [i \in 1 .. Len(s) \div 2 |-> 2 * (s[2 * i - 1] - 1) + s[2 * i] - 1]

\* EME: a permutation of the byte strings of each length, in which every byte counts.
SumOf(s) == FoldLeft(LAMBDA x, y : x + y, 0, s)
Encrypt(iv, bin) ==
    LET first == (iv + SumOf(bin)) % 4
    IN  [i \in DOMAIN bin |-> IF i = 1 THEN first ELSE (bin[i] + first) % 4]
Decrypt(iv, bin) ==
    LET rest == [i \in DOMAIN bin |-> IF i = 1 THEN 0 ELSE (bin[i] - bin[1]) % 4]
    IN  [rest EXCEPT ![1] = (bin[1] - iv - SumOf(rest)) % 4]

----------------------------------------------------------------------------
encryptName(plainName, iv) == EncodeToString(Encrypt(iv, pad16(plainName)))
EncryptName(plainName, iv) ==
    IF IsValidName(plainName) THEN encryptName(plainName, iv) ELSE NoName

decryptName(cipherName, iv) ==
    LET bin == DecodeString(cipherName)
    IN  IF bin = << >> \/ Len(bin) % BlockSize # 0 THEN NoName
        ELSE unPad16(Decrypt(iv, bin))

\* The longest decryptable beginning; the rest of the name is shown as it is.
decryptBadname(cipherName, iv) ==
    LET ends == {k \in EncodedLen(BlockSize) .. Len(cipherName) - 1 :
                    decryptName(SubSeq(cipherName, 1, k), iv) # NoName}
        k    == Max(ends)
    IN  IF ends = {} THEN cipherName \o BadnameSuffix
        ELSE decryptName(SubSeq(cipherName, 1, k), iv)
             \o SubSeq(cipherName, k + 1, Len(cipherName)) \o BadnameSuffix

\* badname: there are patterns, and they match every name.
DecryptName(cipherName, iv, badname) ==
    LET plain == decryptName(cipherName, iv)
        shown == IF plain = NoName /\ badname THEN decryptBadname(cipherName, iv) ELSE plain
    IN  IF IsValidName(shown) THEN shown ELSE NoName

\* The hash: no two names have the same one.
HashLongName(name) == longNamePrefix \o Reverse(name)

EncryptAndHashName(name, iv) ==
    LET cName == EncryptName(name, iv)
    IN  IF Len(cName) > longNameMax THEN HashLongName(cName) ELSE cName

NameType(cName) ==
    IF ~IsPrefix(longNamePrefix, cName) THEN "LongNameNone"
    ELSE IF IsSuffix(LongNameSuffix, cName) THEN "LongNameFilename" ELSE "LongNameContent"

\* The file of the directory dir that a name leads to.  The test for a long name looks
\* at a variable that is still empty, so that nothing is hashed here.
EncryptAndHashBadName(name, iv, dir) ==
    LET lastFoundName == EncryptAndHashName(name, iv)
        bare == SubSeq(name, 1, Len(name) - Len(BadnameSuffix))
        reversed(k) == EncryptName(SubSeq(bare, 1, k), iv) \o SubSeq(bare, k + 1, Len(bare))
        ends == {k \in 1 .. Len(bare) :
                    EncryptName(SubSeq(bare, 1, k), iv) # NoName /\ reversed(k) \in dir}
        filesFound == Cardinality(ends) + (IF bare \in dir THEN 1 ELSE 0)
    IN  IF ~IsSuffix(BadnameSuffix, name) \/ lastFoundName = NoName \/ lastFoundName \in dir
        THEN lastFoundName
        ELSE IF filesFound # 1 THEN NoName
        ELSE IF bare \in dir THEN bare ELSE reversed(Max(ends))

\* ReadLongNameAt accepts the .name file of the longest name.
lim == EncodedLen(Len(pad16([i \in 1 .. nameMax |-> 1])))
=============================================================================

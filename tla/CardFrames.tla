----------------------------- MODULE CardFrames -----------------------------
(***************************************************************************)
(* The frames of the card envelope: fields with a length in front, padded  *)
(* and encrypted plaintext, a MAC over the encoding, and the command and   *)
(* response APDUs around them.  A digit below LenMod stands for the bytes  *)
(* of one length, so LenMod scales 2^16; the MAC of a frame is a term.     *)
(***************************************************************************)
EXTENDS Integers, Sequences, SequencesExt

CONSTANTS LenMod,        \* 2^16: what a length prefix counts modulo
          MaxShort,      \* 255: the longest frame of a short APDU
          aesBlockLen,
          Nothing        \* an error in place of a result

FramesAssumption == MaxShort \in 1 .. LenMod - 1 /\ aesBlockLen \in 1 .. LenMod - 1

ceDirectionRequest == 0
ceDirectionResponse == 1
macLen == 1
StatusOk == 9            \* 0x9000, as SW1SW2 and as the inner status

----------------------------------------------------------------------------
(* Keys, padding, encryption.                                              *)

\* Four keys per session: every label gives another one.
derive(session, label) == << session.role, label, session.cardSessionID, session.challenge >>

pkcs7Pad(data) ==
    LET pad == aesBlockLen - (Len(data) % aesBlockLen)
    IN  data \o [i \in 1 .. pad |-> pad]
pkcs7Unpad(data) ==
    LET pad == data[Len(data)]
    IN  IF Len(data) = 0 \/ Len(data) % aesBlockLen # 0 \/ pad \notin 1 .. aesBlockLen
           \/ pad > Len(data)
        THEN Nothing ELSE SubSeq(data, 1, Len(data) - pad)

\* CBC: a digit is masked with the one before it, the first with the iv.  Only the
\* label of the key is mixed in; a wrong key is the business of the MAC.
aesCBCEncrypt(key, iv, plaintext) ==
    FoldLeft(LAMBDA out, p :
                 Append(out, (p + key[2] + (IF out = << >> THEN iv[1] ELSE Last(out))) % LenMod),
             << >>, pkcs7Pad(plaintext))
aesCBCDecrypt(key, iv, ciphertext) ==
    IF Len(ciphertext) = 0 \/ Len(ciphertext) % aesBlockLen # 0 \/ iv = << >> THEN Nothing
    ELSE pkcs7Unpad([i \in DOMAIN ciphertext |->
             (ciphertext[i] - key[2] - (IF i = 1 THEN iv[1] ELSE ciphertext[i - 1])) % LenMod])

----------------------------------------------------------------------------
(* Frames.                                                                 *)

Fields == << "cardInstanceID", "cardClientID", "cardSessionID", "requestID", "iv", "ciphertext" >>

writeLP(data) == << Len(data) % LenMod >> \o data
encode(f) ==
    FoldLeft(LAMBDA buf, field : buf \o writeLP(f[field]),
             << f.role, f.direction, f.command, f.sequence >>, Fields)

\* The frame on the wire: the encoding without MAC, and the MAC field behind it.
Sealed(f, key) == [head |-> encode(f), mac |-> << key, encode(f) >>]
frameLen(w) == Len(w.head) + 1 + macLen

headerSize == 4
readLP(data, s, field) ==
    LET l == data[s.off + 1]
    IN  IF ~s.ok \/ s.off + 1 > Len(data) THEN [s EXCEPT !.ok = FALSE]
        ELSE IF s.off + 1 + l > Len(data) THEN [s EXCEPT !.ok = FALSE]
        ELSE [off |-> s.off + 1 + l, ok |-> TRUE,
              fields |-> [s.fields EXCEPT ![field] = SubSeq(data, s.off + 2, s.off + 1 + l)]]

\* When the fields do not end where the MAC begins, what is read as MAC is something else.
decodeCEFrame(w) ==
    LET s == FoldLeft(LAMBDA acc, field : readLP(w.head, acc, field),
                      [off |-> headerSize, ok |-> Len(w.head) >= headerSize,
                       fields |-> [x \in ToSet(Fields) |-> << >>]], Fields)
    IN  IF ~s.ok \/ w.mac = Nothing THEN Nothing
        ELSE [role |-> w.head[1], direction |-> w.head[2], command |-> w.head[3],
              sequence |-> w.head[4], mac |-> IF s.off = Len(w.head) THEN w.mac ELSE Nothing]
             @@ s.fields

----------------------------------------------------------------------------
(* Requests and responses.                                                 *)

\* Mutant: the length of the frame is not checked.
toCommandAPDU_any(w) ==
    [lc |-> IF frameLen(w) <= MaxShort THEN << frameLen(w) >> ELSE << 0, frameLen(w) % LenMod >>,
     frame |-> w]

toCommandAPDU(w) ==
    IF frameLen(w) <= MaxShort THEN [lc |-> << frameLen(w) >>, frame |-> w]
    ELSE IF frameLen(w) > LenMod - 1 THEN Nothing
    ELSE [lc |-> << 0, frameLen(w) >>, frame |-> w]

\* The frame of a session for a message, without MAC.
Frame(session, direction, m, ciphertext) ==
    [role |-> session.role, direction |-> direction, command |-> m.command,
     sequence |-> m.sequence, cardInstanceID |-> session.cardInstanceID,
     cardClientID |-> session.cardClientID, cardSessionID |-> session.cardSessionID,
     requestID |-> m.requestID, iv |-> m.iv, ciphertext |-> ciphertext]

BuildCERequest(session, m, plaintext) ==
    toCommandAPDU(Sealed(
        Frame(session, ceDirectionRequest, m,
              aesCBCEncrypt(derive(session, 1), m.iv, << m.command >> \o plaintext)),
        derive(session, 2)))

fromResponseAPDU(apdu) == IF apdu.sw # StatusOk THEN Nothing ELSE apdu.frame

OpenCEResponse(session, m, apdu) ==
    LET w == fromResponseAPDU(apdu)
        f == decodeCEFrame(w)
        expected == Frame(session, ceDirectionResponse,
                          [command |-> f.command, sequence |-> f.sequence,
                           requestID |-> f.requestID, iv |-> f.iv], f.ciphertext)
    IN  IF \/ w = Nothing \/ f = Nothing
           \/ f.requestID # m.requestID \/ f.command # m.command \/ f.sequence # m.sequence
           \/ f.cardSessionID # session.cardSessionID
           \/ f.cardInstanceID # session.cardInstanceID
           \/ f.mac # << derive(session, 4), encode(expected) >>
        THEN Nothing ELSE aesCBCDecrypt(derive(session, 3), f.iv, f.ciphertext)

ParseProtectedResponse(plaintext) ==
    IF plaintext = Nothing \/ Len(plaintext) < 1 THEN Nothing
    ELSE IF Head(plaintext) # StatusOk THEN Nothing ELSE Tail(plaintext)

----------------------------------------------------------------------------
(* The card, as the frames expect it.                                      *)

cardAnswer(session, m, status, payload) ==
    [sw |-> StatusOk,
     frame |-> Sealed(Frame(session, ceDirectionResponse, m,
                            aesCBCEncrypt(derive(session, 3), m.iv, << status >> \o payload)),
                      derive(session, 4))]

\* The command and parameters the card finds in a command APDU: it reads as many bytes
\* as Lc says.
cardReads(session, apdu) ==
    LET l == IF apdu.lc[1] # 0 THEN apdu.lc[1] ELSE apdu.lc[2]
        f == decodeCEFrame(apdu.frame)
    IN  IF l # frameLen(apdu.frame) \/ f = Nothing THEN Nothing
        ELSE IF f.mac # << derive(session, 2), encode([x \in DOMAIN f \ {"mac"} |-> f[x]]) >>
        THEN Nothing
        ELSE aesCBCDecrypt(derive(session, 1), f.iv, f.ciphertext)
=============================================================================

------------------------- MODULE ExternalKeysProofs -------------------------
(***************************************************************************)
(* Proofs about ExternalKeys, second part: the steps that use the envelope *)
(* and the sessions, the theorem about the keys, and the theorem about the *)
(* sequence numbers. SeqInv adds to KeysInv what the lock protects of the  *)
(* envelope: what its holder has read from it is still so.                 *)
(***************************************************************************)
EXTENDS ExternalKeysLemmas

\* From one step of Seal to the next.
LEMMA SendingOn ==
    ASSUME NEW t \in Threads, KeyOK(t), pc[t] \in Sending, pc'[t] \in Sending,
           loc'[t].keys = loc[t].keys, loc'[t].back = loc[t].back, loc'[t].ce = loc[t].ce,
           loc'[t].todo = loc[t].todo,
           UNCHANGED << mu, session, ceSeq, card, answers, wipe >>
    PROVE  KeyOK(t)'
<1>1. Commanding(t)' = Commanding(t) BY DEF Commanding, Sending
<1>2. CommandOK(t) => CommandOK(t)' BY DEF CommandOK, Sending
<1>3. Holds(t)' = Holds(t) BY <1>1 DEF Holds, Sending, Engaged
<1> QED BY <1>1, <1>2, <1>3 DEF KeyOK, Opening, Sending

\* The steps that only touch the envelope client.
LEMMA EnvelopeStepOK ==
    ASSUME KeysInv, NEW t \in Threads, EstBind(t) \/ EstReset(t) \/ SealID(t), UNCHANGED setting
    PROVE  KeysInv'
<1>0. loc[t] \in Locs /\ KeyOK(t) /\ loc = [loc EXCEPT ![t] = loc[t]]
  BY DEF KeysInv, TypeOK, ThreadsOK
<1>1. /\ env' \in [id : Nat, seq : Nat]
      /\ UNCHANGED << mu, session, cache, nameCache, ceSeq, ks, opened, card, answers, wipe >>
  <2>1. env \in [id : Nat, seq : Nat] /\ loc[t].id \in Nat
    BY <1>0 DEF KeysInv, TypeOK, ClientOK, Locs
  <2>2. CASE EstBind(t) BY <2>1, <2>2 DEF EstBind, peerVars
  <2>3. CASE EstReset(t) BY <2>1, <2>3 DEF EstReset, peerVars
  <2>4. CASE SealID(t) BY <2>1, <2>4 DEF SealID, clientVars, peerVars
  <2> QED BY <2>2, <2>3, <2>4
<1>2. ClientOK' /\ PeersOK' /\ Matching(cache)' /\ Matching(nameCache)' /\ Fair(t)
  BY <1>1, PeersSame DEF KeysInv, TypeOK, ClientOK, Matching, Fair
<1>3. CASE EstBind(t)
  <2>1. SetLoc(t, loc[t]) /\ Goto(t, "estReset") BY <1>0, <1>3 DEF EstBind, SetLoc
  <2>2. pc'[t] = "estReset" /\ loc'[t] = loc[t] /\ pc[t] = "estBind"
    BY <1>3, <2>1 DEF EstBind, KeysInv, TypeOK, ThreadsOK, Goto, SetLoc
  <2>3. KeyOK(t)'
    BY <1>0, <1>1, <2>2 DEF KeyOK, Holds, Commanding, Opening, Sending, Engaged
  <2> QED BY <1>0, <1>1, <1>2, <2>1, <2>3, LocalStepOK DEF Engaged, Opening
<1>4. CASE EstReset(t)
  <2> DEFINE r == [loc[t] EXCEPT !.ce = << 0, 0 >>]
  <2>1. SetLoc(t, r) /\ Goto(t, "sealID") BY <1>4 DEF EstReset
  <2>2. pc'[t] = "sealID" /\ loc'[t] = r /\ pc[t] = "estReset"
    BY <1>4, <2>1 DEF EstReset, KeysInv, TypeOK, ThreadsOK, Goto, SetLoc
  <2>3. r \in Locs /\ r.keys = loc[t].keys /\ r.back = loc[t].back /\ r.ce = << 0, 0 >>
    BY Zenon, <1>0 DEF Locs, Pairs
  <2> HIDE DEF r
  <2>4. KeyOK(t)'
    BY <1>0, <1>1, <2>2, <2>3 DEF KeyOK, Holds, Commanding, Opening, Sending, Engaged
  <2> QED BY <1>1, <1>2, <2>1, <2>3, <2>4, LocalStepOK DEF Engaged, Sending
<1>5. CASE SealID(t)
  <2> DEFINE r == [loc[t] EXCEPT !.id = env.id]
  <2>1. SetLoc(t, r) /\ Goto(t, "sealSeq") BY <1>5 DEF SealID
  <2>2. pc'[t] = "sealSeq" /\ loc'[t] = r /\ pc[t] = "sealID"
    BY <1>5, <2>1 DEF SealID, KeysInv, TypeOK, ThreadsOK, Goto, SetLoc
  <2>3. r \in Locs /\ r = [loc[t] EXCEPT !.id = r.id]
    BY Zenon, <1>0 DEF Locs, KeysInv, TypeOK, ClientOK
  <2>4. r.keys = loc[t].keys /\ r.back = loc[t].back /\ r.ce = loc[t].ce /\ r.todo = loc[t].todo
    BY <1>0 DEF Locs
  <2> HIDE DEF r
  <2>5. KeyOK(t)' BY <1>0, <1>1, <2>2, <2>4, SendingOn DEF Sending
  <2> QED BY <1>1, <1>2, <2>1, <2>3, <2>5, LocalStepOK DEF Engaged, Sending
<1> QED BY <1>3, <1>4, <1>5

LEMMA SealSeqOK ==
    ASSUME KeysInv, NEW t \in Threads, SealSeq(t), UNCHANGED setting
    PROVE  KeysInv'
<1>0. loc[t] \in Locs /\ KeyOK(t) BY DEF KeysInv, TypeOK, ThreadsOK
<1>1. CASE RelayFailed(t, TRUE) /\ UNCHANGED env
  BY Zenon, <1>1, RelayFailedOK DEF SealSeq, Sending, peerVars
<1>2. CASE /\ env' = [env EXCEPT !.seq = @ + 1] /\ SetLoc(t, [loc[t] EXCEPT !.seq = env.seq + 1])
           /\ Goto(t, "send") /\ UNCHANGED mu
  <2> DEFINE r == [loc[t] EXCEPT !.seq = env.seq + 1]
  <2>1. SetLoc(t, r) BY <1>2
  <2>2. pc'[t] = "send" /\ loc'[t] = r /\ pc[t] = "sealSeq"
    BY <1>2 DEF SealSeq, KeysInv, TypeOK, ThreadsOK, Goto, SetLoc
  <2>3. env.seq + 1 \in Nat /\ env' \in [id : Nat, seq : Nat]
    <3>1. env \in [id : Nat, seq : Nat] BY DEF KeysInv, TypeOK, ClientOK
    <3> QED BY <1>2, <3>1
  <2>4. r \in Locs BY <1>0, <2>3 DEF Locs
  <2>5. r.keys = loc[t].keys /\ r.back = loc[t].back /\ r.ce = loc[t].ce /\ r.todo = loc[t].todo
    BY <1>0 DEF Locs
  <2> HIDE DEF r
  <2>6. KeyOK(t)' BY <1>0, <1>2, <2>2, <2>5, SendingOn DEF SealSeq, peerVars, Sending
  <2>7. ClientOK' /\ PeersOK' /\ Matching(cache)' /\ Matching(nameCache)' /\ Fair(t)
    BY <1>2, <2>3, PeersSame DEF SealSeq, peerVars, KeysInv, TypeOK, ClientOK, Matching, Fair
  <2> QED
    BY <1>2, <2>1, <2>4, <2>6, <2>7, LocalStepOK DEF SealSeq, peerVars, Engaged, Sending
<1> QED BY Zenon, <1>1, <1>2 DEF SealSeq

LEMMA SendRejectedOK ==
    ASSUME KeysInv, NEW t \in Threads, SendRejected(t), UNCHANGED setting
    PROVE  KeysInv'
BY Zenon, RelayFailedOK DEF SendRejected, Sending, peerVars

LEMMA SendHandshakeOK ==
    ASSUME KeysInv, NEW t \in Threads, SendHandshake(t), UNCHANGED setting
    PROVE  KeysInv'
<1> DEFINE new == Len(ceSeq) + 1
<1>0. loc[t] \in Locs /\ KeyOK(t) /\ loc = [loc EXCEPT ![t] = loc[t]] /\ pc[t] = "send"
  BY DEF KeysInv, TypeOK, ThreadsOK, SendHandshake
<1>1. ceSeq \in Seq(Nat) /\ Len(ceSeq) \in Nat /\ session \in 0..Len(ceSeq) /\ loc[t].seq \in Nat
  BY <1>0, SeqLen DEF KeysInv, TypeOK, ClientOK, Locs
<1>2. /\ ceSeq' \in Seq(Nat) /\ Len(ceSeq') = new /\ ceSeq'[new] = 0
      /\ \A s \in 1..Len(ceSeq) : ceSeq'[s] = ceSeq[s]
  <2>1. ceSeq' = Append(ceSeq, 0) BY DEF SendHandshake
  <2> QED BY <1>1, <2>1, SeqAppend
<1>3. /\ card' = [s \in DOMAIN card \union {new} |-> IF s = new THEN 0 ELSE card[s]]
      /\ ks' = [ks EXCEPT ![loc[t].id] = loc[t].seq]
      /\ answers' = {}
      /\ UNCHANGED << cache, nameCache, env, opened, wipe >>
  BY DEF SendHandshake
<1>4. loc[t].back \in {"look", "relock", "wait"}
  BY <1>0 DEF KeyOK, SendHandshake, Handshake, Sending
<1>5. PICK l \in {"look", "relock", "wait", "failed"}, r \in Locs :
         /\ Goto(t, l) /\ SetLoc(t, r) /\ r.keys \subseteq loc[t].keys
         /\ session' \in {session, new}
         /\ Fair(t) /\ (l = "wait" => mu' = mu /\ loc[t].back = "wait")
  <2>1. CASE session' = new /\ Goto(t, loc[t].back) /\ UNCHANGED << mu, loc >>
    <3>1. SetLoc(t, loc[t]) BY <1>0, <2>1 DEF SetLoc
    <3> QED BY <1>0, <1>4, <2>1, <3>1 DEF Fair
  <2>2. CASE EstFailed(t) /\ UNCHANGED session
    <3> DEFINE r == [NoLoc EXCEPT !.op = loc[t].op, !.fault = loc[t].fault \/ TRUE]
    <3>1. r \in Locs /\ r.keys = {} BY Zenon, <1>0, NoLocOK DEF Locs
    <3>2. Goto(t, "failed") /\ SetLoc(t, r) /\ Fair(t)
      BY <2>2 DEF EstFailed, Fail, Unlock, Fair
    <3> HIDE DEF r
    <3> QED BY <2>2, <3>1, <3>2
  <2> QED BY <2>1, <2>2 DEF SendHandshake
<1>6. session' \in 0..Len(ceSeq') /\ (session # 0 => session' # 0) BY SMTT(30), <1>1, <1>2, <1>5
<1> HIDE DEF new
<1>7. ClientOK' /\ Matching(cache)' /\ Matching(nameCache)'
  BY <1>2, <1>3, <1>5, <1>6 DEF KeysInv, TypeOK, ClientOK, Matching, Fair
<1>8. PeersOK'
  <2>1. DOMAIN card' \subseteq 1..Len(ceSeq') /\ \A s \in DOMAIN card' : card'[s] \in 0..ceSeq'[s]
    <3>1. DOMAIN card \subseteq 1..Len(ceSeq) /\ \A s \in DOMAIN card : card[s] \in 0..ceSeq[s]
      BY DEF KeysInv, TypeOK, PeersOK
    <3>2. DOMAIN card' = DOMAIN card \union {new} /\ new \notin DOMAIN card /\ new \in Nat \ {0}
      BY <1>1, <1>3, <3>1 DEF new
    <3>3. new \in 1..Len(ceSeq') /\ card'[new] \in 0..ceSeq'[new]
      BY <1>2, <1>3, <3>2
    <3>4. ASSUME NEW s \in DOMAIN card PROVE s \in 1..Len(ceSeq') /\ card'[s] \in 0..ceSeq'[s]
      <4>1. s \in 1..Len(ceSeq) /\ s # new /\ card[s] \in 0..ceSeq[s] BY <3>1, <3>2
      <4>2. card'[s] = card[s] BY <1>3, <4>1
      <4>3. s \in 1..Len(ceSeq') BY <1>1, <1>2, <4>1 DEF new
      <4> QED BY <1>2, <4>1, <4>2, <4>3
    <3> QED BY <3>2, <3>3, <3>4
  <2>2. DOMAIN ks' = DOMAIN ks /\ \A s \in DOMAIN ks' : ks'[s] \in Nat
    BY <1>1, <1>3 DEF KeysInv, TypeOK, PeersOK
  <2> QED BY Zenon, <1>3, <2>1, <2>2 DEF KeysInv, TypeOK, PeersOK
<1>9. ThreadsOK'
  BY <1>5 DEF KeysInv, TypeOK, ThreadsOK, Goto, SetLoc, Quiet, Engaged
<1>10. KeyOK(t)'
  <2>1. pc'[t] = l /\ loc'[t] = r BY <1>5 DEF KeysInv, TypeOK, ThreadsOK, Goto, SetLoc
  <2>2. l = "wait" => mu' = t BY <1>0, <1>5 DEF KeyOK, Holds, Sending, Engaged
  <2> QED BY <1>0, <1>5, <2>1, <2>2 DEF KeyOK, Holds, Commanding, Opening, Sending, Engaged
<1>11. ASSUME NEW u \in Threads, u # t PROVE KeyOK(u)'
  <2>1. pc'[u] = pc[u] /\ loc'[u] = loc[u]
    BY <1>5, <1>11 DEF KeysInv, TypeOK, ThreadsOK, Goto, SetLoc
  <2>2. KeyOK(u) BY DEF KeysInv
  <2>3. mu = u => mu' = u BY <1>5, <1>11, ExternalKeysAssumption DEF Fair
  <2>4. Holds(u)' = Holds(u) /\ Commanding(u)' = Commanding(u)
    BY <1>3, <2>1 DEF Holds, Commanding
  <2>5. ASSUME CommandOK(u) PROVE CommandOK(u)'
    <3> DEFINE s == loc[u].ce[1]
    <3>1. s \in 1..Len(ceSeq) BY <2>5 DEF CommandOK
    <3>2. s \in 1..Len(ceSeq') /\ s # new /\ ceSeq'[s] = ceSeq[s]
      BY SMTT(30), <1>1, <1>2, <3>1 DEF new
    <3>3. s \in DOMAIN card' => s \in DOMAIN card /\ card'[s] = card[s] BY <1>3, <3>2
    <3> QED BY <1>3, <2>1, <2>5, <3>2, <3>3 DEF CommandOK
  <2> QED BY <1>6, <2>1, <2>2, <2>3, <2>4, <2>5 DEF KeyOK
<1> QED BY <1>3, <1>6, <1>7, <1>8, <1>9, <1>10, <1>11 DEF KeysInv, TypeOK

LEMMA SendCommandOK ==
    ASSUME KeysInv, NEW t \in Threads, SendCommand(t), UNCHANGED setting
    PROVE  KeysInv'
<1> DEFINE s == loc[t].ce[1]
           n == loc[t].ce[2]
<1>0. /\ loc[t] \in Locs /\ loc = [loc EXCEPT ![t] = loc[t]] /\ pc[t] = "send"
      /\ KeyOK(t) /\ Commanding(t) /\ CommandOK(t) /\ mu = t
  <2>1. pc[t] = "send" /\ loc[t].ce[1] # 0 BY Zenon DEF SendCommand, Handshake
  <2>2. Commanding(t) BY Zenon, <2>1 DEF Commanding, Sending
  <2>3. KeyOK(t) /\ loc \in [Threads -> Locs] BY Zenon DEF KeysInv, TypeOK, ThreadsOK
  <2>4. loc[t] \in Locs /\ loc = [loc EXCEPT ![t] = loc[t]] BY <2>3
  <2> QED BY Zenon, <2>1, <2>2, <2>3, <2>4 DEF KeyOK, Holds
<1>1. /\ ks' = [ks EXCEPT ![loc[t].id] = loc[t].seq]
      /\ UNCHANGED << session, cache, nameCache, env, ceSeq, opened, wipe >>
  BY DEF SendCommand
<1>2. DOMAIN ks' = DOMAIN ks /\ \A x \in DOMAIN ks' : ks'[x] \in Nat
  BY <1>0, <1>1 DEF KeysInv, TypeOK, PeersOK, Locs
<1>3. CASE ~CardAccepts(s, n)
  <2>1. FetchFailed(t, FALSE) /\ UNCHANGED << card, answers >> BY Zenon, <1>3 DEF SendCommand
  <2>2. PeersOK' BY <1>1, <1>2, <2>1 DEF KeysInv, TypeOK, PeersOK
  <2> QED BY Zenon, <1>0, <1>1, <2>1, <2>2, FetchFailedOK
<1>4. CASE CardAccepts(s, n)
  <2> DEFINE a == [s |-> s, seq |-> n, start |-> loc[t].todo[1][1], count |-> loc[t].todo[1][2]]
  <2>1. /\ card' = [card EXCEPT ![s] = n + 1] /\ answers' = answers \union {a}
        /\ Goto(t, "receive") /\ UNCHANGED << mu, loc >>
    BY <1>4 DEF SendCommand
  <2>2. /\ s \in 1..Len(ceSeq) /\ n \in Nat /\ s \in Nat /\ n < ceSeq[s] /\ n + 1 <= ceSeq[s]
        /\ ceSeq[s] \in Nat
        /\ \A b \in answers : b.s = s => b.seq # n
    <3>1. n <= SeqMax BY <1>4 DEF CardAccepts
    <3>2. s \in Nat /\ n \in Nat BY <1>0 DEF Locs, Pairs
    <3>3. s \in 1..Len(ceSeq) /\ ceSeq[s] = n + 1 /\ \A b \in answers : b.s = s => b.seq # n
      BY <1>0, <3>1 DEF CommandOK
    <3> QED BY SMTT(30), <3>2, <3>3
  <2>3. a \in Answers
    <3>1. loc[t].todo[1] \in Batches
      <4>1. loc[t].todo \in Seq(Batches) /\ loc[t].todo # << >> BY <1>0 DEF Locs, CommandOK
      <4> QED BY <4>1
    <3> QED BY <2>2, <3>1 DEF Answers, Batches
  <2>4. a.s = s /\ a.seq = n /\ a.start = loc[t].todo[1][1] OBVIOUS
  <2> HIDE DEF a
  <2>5. PeersOK'
    <3>1. DOMAIN card' = DOMAIN card /\ \A x \in DOMAIN card' : card'[x] \in 0..ceSeq[x]
      BY SMTT(30), <2>1, <2>2 DEF KeysInv, TypeOK, PeersOK
    <3>2. \A b \in answers' : b \in Answers /\ b.s \in 1..Len(ceSeq) /\ b.seq < ceSeq[b.s]
      BY <2>1, <2>2, <2>3, <2>4 DEF KeysInv, TypeOK, PeersOK
    <3> QED BY SMTT(30), <1>1, <1>2, <3>1, <3>2 DEF KeysInv, TypeOK, PeersOK
  <2>6. ClientOK' /\ Matching(cache)' /\ Matching(nameCache)'
    BY Zenon, <1>1, <2>1 DEF KeysInv, TypeOK, ClientOK, Matching
  <2>7. pc'[t] = "receive" /\ loc'[t] = loc[t] /\ SetLoc(t, loc[t])
    BY <1>0, <2>1 DEF KeysInv, TypeOK, ThreadsOK, Goto, SetLoc
  <2>8. KeyOK(t)'
    <3>1. CommandOK(t)'
      BY <1>0, <1>1, <2>1, <2>2, <2>4, <2>7 DEF CommandOK, Sending
    <3> QED BY SMTT(30), <1>0, <1>1, <2>1, <2>7, <3>1 DEF KeyOK, Opening, Sending
  <2> QED BY SMTT(30), <1>0, <1>1, <2>1, <2>5, <2>6, <2>7, <2>8, HolderStepOK DEF Engaged
<1> QED BY <1>3, <1>4

LEMMA ReceiveOK ==
    ASSUME KeysInv, NEW t \in Threads, Receive(t), UNCHANGED setting
    PROVE  KeysInv'
<1>0. /\ loc[t] \in Locs /\ pc[t] = "receive"
      /\ KeyOK(t) /\ CommandOK(t) /\ mu = t
  BY Zenon DEF KeysInv, TypeOK, ThreadsOK, KeyOK, Holds, Commanding, Receive
<1>1. UNCHANGED << session, cache, nameCache, env, ceSeq, ks, opened, card, answers, wipe,
   setting >>
  BY Zenon DEF Receive, peerVars
<1>2. PeersOK' BY <1>1, PeersSame
<1>3. CASE FetchFailed(t, TRUE) BY Zenon, <1>0, <1>1, <1>2, <1>3, FetchFailedOK
<1>4. ASSUME NEW a \in answers, OpensCEResponse(t, a),
             SetLoc(t, [loc[t] EXCEPT
                !.keys = @ \union
                           {<< loc[t].todo[1][1] + j, a.start + j >> : j \in 0 .. a.count - 1},
                !.todo = Tail(@)]),
             Goto(t, "derive"), UNCHANGED mu
      PROVE  KeysInv'
  <2> DEFINE r == [loc[t] EXCEPT
                !.keys = @ \union
                           {<< loc[t].todo[1][1] + j, a.start + j >> : j \in 0 .. a.count - 1},
                !.todo = Tail(@)]
  <2>1. a \in Answers /\ a.start = loc[t].todo[1][1] /\ a.start \in Nat /\ a.count \in Int
    BY <1>0, <1>4 DEF OpensCEResponse, CommandOK, KeysInv, TypeOK, PeersOK, Answers
  <2>2. \A j \in 0 .. a.count - 1 :
           /\ << loc[t].todo[1][1] + j, a.start + j >> \in Pairs
           /\ << loc[t].todo[1][1] + j, a.start + j >>[1] =
                 << loc[t].todo[1][1] + j, a.start + j >>[2]
    BY <2>1 DEF Pairs
  <2>3. Tail(loc[t].todo) \in Seq(Batches) BY <1>0 DEF Locs, CommandOK
  <2>4. r \in Locs /\ \A e \in r.keys : e[1] = e[2]
    <3>1. loc[t].keys \subseteq Pairs /\ \A e \in loc[t].keys : e[1] = e[2] BY <1>0 DEF Locs, KeyOK
    <3>2. r.keys \subseteq Pairs /\ \A e \in r.keys : e[1] = e[2]
      BY <1>0, <2>2, <3>1 DEF Locs
    <3> QED BY ZenonT(30), <1>0, <2>3, <3>2 DEF Locs
  <2>5. SetLoc(t, r) BY <1>4
  <2> HIDE DEF r
  <2>6. pc'[t] = "derive" /\ loc'[t] = r
    BY <1>4, <2>5 DEF KeysInv, TypeOK, ThreadsOK, Goto, SetLoc
  <2>7. KeyOK(t)' BY <1>0, <1>1, <1>4, <2>4, <2>6 DEF KeyOK, Commanding, Opening, Sending
  <2>8. ClientOK' /\ Matching(cache)' /\ Matching(nameCache)'
    BY <1>1, <1>4 DEF KeysInv, TypeOK, ClientOK, Matching
  <2> QED BY SMTT(30), <1>0, <1>1, <1>2, <1>4, <2>4, <2>5, <2>7, <2>8, HolderStepOK DEF Engaged
<1> QED BY Zenon, <1>3, <1>4 DEF Receive

----------------------------------------------------------------------------
(* Sessions get lost; Wipe.                                                *)

LEMMA BreakOK == ASSUME KeysInv, Break, UNCHANGED setting PROVE KeysInv'
<1>1. UNCHANGED << mu, session, cache, nameCache, env, ceSeq, answers, opened, wipe, pc >>
  BY SMTT(30) DEF Break, clientVars
<1>2. ClientOK' /\ Matching(cache)' /\ Matching(nameCache)'
  BY <1>1 DEF KeysInv, TypeOK, ClientOK, Matching
<1>3. /\ DOMAIN ks' \subseteq DOMAIN ks /\ \A s \in DOMAIN ks' : ks'[s] = ks[s]
      /\ DOMAIN card' \subseteq DOMAIN card /\ \A s \in DOMAIN card' : card'[s] = card[s]
  BY Zenon DEF Break
<1>4. PeersOK' BY <1>1, <1>3 DEF KeysInv, TypeOK, PeersOK
<1>5. ASSUME NEW u \in Threads
      PROVE  /\ loc'[u] \in Locs /\ KeyOK(u)'
  <2>0. loc[u] \in Locs /\ KeyOK(u) BY DEF KeysInv, TypeOK, ThreadsOK
  <2>1. CASE pc[u] = "idle"
    <3>1. loc'[u] = NoLoc BY <2>1 DEF Break
    <3> QED
      BY <1>1, <2>1, <3>1, NoLocOK DEF KeyOK, Holds, Commanding, Opening, Sending, Engaged
  <2>2. CASE pc[u] # "idle"
    <3> DEFINE r == [loc[u] EXCEPT !.fault = TRUE]
    <3>1. loc'[u] = r BY <2>2 DEF Break
    <3>2. r \in Locs BY Zenon, <2>0 DEF Locs
    <3>3. r.keys = loc[u].keys /\ r.back = loc[u].back /\ r.ce = loc[u].ce /\ r.todo = loc[u].todo
      BY <2>0 DEF Locs
    <3> HIDE DEF r
    <3>4. Holds(u)' = Holds(u) /\ Commanding(u)' = Commanding(u)
      BY SMTT(30), <1>1, <3>1, <3>3 DEF Holds, Commanding
    <3>5. CommandOK(u) => CommandOK(u)' BY <1>1, <1>3, <3>1, <3>3 DEF CommandOK
    <3> QED BY <1>1, <2>0, <3>1, <3>2, <3>3, <3>4, <3>5 DEF KeyOK
  <2> QED BY <2>1, <2>2
<1>6. ThreadsOK'
  <2>1. loc' \in [Threads -> Locs] BY SMTT(30), <1>5 DEF Break
  <2> QED BY <1>1, <2>1 DEF KeysInv, TypeOK, ThreadsOK
<1> QED BY <1>1, <1>2, <1>4, <1>5, <1>6 DEF KeysInv, TypeOK

LEMMA WipeOK == ASSUME KeysInv, WipeClose \/ WipeClear, UNCHANGED setting PROVE KeysInv'
<1>1. UNCHANGED << mu, env, ceSeq, card, answers, opened, pc, loc >>
  BY DEF WipeClose, WipeClear, peerVars
<1>2. CASE WipeClose
  <2>1. ClientOK' /\ Matching(cache)' /\ Matching(nameCache)'
    BY <1>2 DEF WipeClose, KeysInv, TypeOK, ClientOK, Matching
  <2>2. PeersOK' BY SMTT(30), <1>2 DEF WipeClose, KeysInv, TypeOK, PeersOK
  <2>3. ASSUME NEW u \in Threads PROVE KeyOK(u)'
    <3>1. KeyOK(u) BY SMTT(30) DEF KeysInv
    <3>2. Holds(u)' = Holds(u) /\ Commanding(u)' = Commanding(u) /\ CommandOK(u)' = CommandOK(u)
      BY <1>1, <1>2 DEF WipeClose, Holds, Commanding, CommandOK
    <3> QED BY <1>1, <1>2, <3>1, <3>2 DEF WipeClose, KeyOK
  <2> QED BY <1>1, <1>2, <2>1, <2>2, <2>3 DEF WipeClose, KeysInv, TypeOK, ThreadsOK
<1>3. CASE WipeClear
  <2>1. ClientOK' /\ Matching(cache)' /\ Matching(nameCache)'
    BY <1>3, SeqEmpty DEF WipeClear, clearCacheLocked, KeysInv, TypeOK, ClientOK, Matching
  <2>2. PeersOK' BY SMTT(30), <1>3 DEF WipeClear, peerVars, KeysInv, TypeOK, PeersOK
  <2>3. ASSUME NEW u \in Threads PROVE KeyOK(u)'
    <3>1. KeyOK(u) /\ ~Holds(u)
      BY <1>3, ExternalKeysAssumption DEF WipeClear, KeysInv, KeyOK
    <3>2. ~Holds(u)' /\ ~Commanding(u)' /\ pc[u] # "derive"
      BY <1>1, <1>3, <3>1 DEF WipeClear, Holds, Commanding
    <3> QED BY SMTT(30), <1>1, <1>3, <3>1, <3>2 DEF KeyOK
  <2> QED BY SMTT(30), <1>1, <1>3, <2>1, <2>2, <2>3 DEF WipeClear, KeysInv, TypeOK, ThreadsOK
<1> QED BY <1>2, <1>3

LEMMA KeysNextOK == KeysInv /\ [Next]_vars => KeysInv'
<1> SUFFICES ASSUME KeysInv, [Next]_vars PROVE KeysInv' OBVIOUS
<1>1. ASSUME NEW t \in Threads, Request(t) \/ Step(t), UNCHANGED setting PROVE KeysInv'
  <2>1. CASE Request(t) BY <1>1, <2>1, KeysRequestOK
  <2>2. CASE Step(t)
    BY ZenonT(30), <1>1, <2>2, ReadIndexKeyOK, LockAndLookOK, LookStepsOK, WaitForKeysOK,
       DeriveBlockKeysOK,
       StoreKeyOK, KeysStoredOK, EstOpenOK, EnvelopeStepOK, SealSeqOK, SendRejectedOK,
       SendHandshakeOK, SendCommandOK, ReceiveOK DEF Step
  <2> QED BY <1>1, <2>1, <2>2
<1>2. CASE UNCHANGED vars
  BY ZenonT(30), <1>2 DEF vars, clientVars, peerVars, KeysInv, TypeOK, ClientOK, PeersOK, ThreadsOK,
     Matching, KeyOK, Holds, Commanding, CommandOK
<1> QED BY Zenon, <1>1, <1>2, BreakOK, WipeOK DEF Next

\* For any number of goroutines, sessions, keys and sizes of the batches, whatever gets
\* lost or answered late and whenever Wipe runs: a cached key is the card's key for its
\* index (fetchBlockKeys, OpenCEResponse).
THEOREM CachedKeysAreRight == Spec => []RightKeys
<1>1. KeysInv => RightKeys BY DEF KeysInv, RightKeys, Matching
<1> QED BY <1>1, KeysInitOK, KeysNextOK, PTL DEF Spec

----------------------------------------------------------------------------
(* The sequence numbers.                                                   *)

\* Until Wipe has run the envelope belongs to whoever holds the lock: what that request
\* has read from it is still true, and the key server has seen nothing newer.
EnvelopeOK(t) ==
    /\ pc[t] \in {"estBind", "estReset"} => (loc[t].id \in DOMAIN ks => ks[loc[t].id] = 0)
    /\ pc[t] \in {"estReset", "sealSeq", "send"} => env.id = loc[t].id
    /\ pc[t] = "send" =>
          env.seq = loc[t].seq /\ (loc[t].id \in DOMAIN ks => loc[t].seq > ks[loc[t].id])
CounterOK == env.id \in DOMAIN ks => env.seq >= ks[env.id]

SeqInv ==
    /\ KeysInv
    /\ wipe # "done" => CounterOK /\ \A t \in Threads : EnvelopeOK(t)

LEMMA SeqFacts ==
    ASSUME SeqInv, NEW t \in Threads
    PROVE  /\ ThreadsOK /\ loc[t] \in Locs /\ KeyOK(t) /\ opened \in Nat
           /\ env \in [id : Nat, seq : Nat] /\ env.seq \in Nat
           /\ DOMAIN ks \subseteq 1..opened /\ \A s \in DOMAIN ks : ks[s] \in Nat
           /\ wipe # "done" => CounterOK /\ EnvelopeOK(t)
<1>1. /\ ThreadsOK /\ loc[t] \in Locs /\ KeyOK(t) /\ opened \in Nat
      /\ env \in [id : Nat, seq : Nat]
      /\ DOMAIN ks \subseteq 1..opened /\ \A s \in DOMAIN ks : ks[s] \in Nat
  BY Zenon DEF SeqInv, KeysInv, TypeOK, ThreadsOK, ClientOK, PeersOK
<1>2. wipe # "done" => CounterOK /\ EnvelopeOK(t) BY Zenon DEF SeqInv
<1>3. env.seq \in Nat BY <1>1
<1> QED BY Zenon, <1>1, <1>2, <1>3

Enveloping == {"estBind", "estReset", "sealSeq", "send"}
Others(t) == \A u \in Threads \ {t} : pc'[u] = pc[u] /\ loc'[u] = loc[u]

\* A step that only thread t takes, and that changes the envelope only with the lock.
SeqKept(t) ==
    /\ Others(t) /\ wipe' = wipe /\ (pc[t] \in Engaged \/ UNCHANGED << env, ks >>)
    /\ wipe # "done" => CounterOK' /\ EnvelopeOK(t)'

LEMMA SeqStepOK ==
    ASSUME SeqInv, KeysInv', NEW t \in Threads, SeqKept(t)
    PROVE  SeqInv'
<1>0. Others(t) /\ wipe' = wipe /\ (pc[t] \in Engaged \/ UNCHANGED << env, ks >>)
  BY Zenon DEF SeqKept
<1>1. SUFFICES ASSUME wipe # "done", NEW u \in Threads, u # t PROVE EnvelopeOK(u)'
  BY Zenon, <1>0 DEF SeqKept, SeqInv
<1>2. pc'[u] = pc[u] /\ loc'[u] = loc[u] /\ EnvelopeOK(u) BY Zenon, <1>0, <1>1 DEF Others, SeqInv
<1>3. CASE UNCHANGED << env, ks >> BY SMTT(30), <1>2, <1>3 DEF EnvelopeOK
<1>4. CASE pc[t] \in Engaged
  <2>1. mu = t BY Zenon, <1>1, <1>4, SeqFacts DEF KeyOK, Holds
  <2>2. ~Holds(u) BY <1>1, <2>1, OthersOutside DEF SeqInv
  <2> QED BY ZenonT(30), <1>1, <1>2, <2>2 DEF Holds, EnvelopeOK, Engaged, Opening, Sending
<1> QED BY <1>0, <1>3, <1>4

\* The steps that neither use the envelope nor reach the key server.
Plain(t) ==
    \/ Request(t) \/ ReadIndexKey(t) \/ LockAndLook(t) \/ Look(t) \/ Relock(t) \/ WaitForKeys(t)
    \/ DeriveBlockKeys(t) \/ StoreKey(t) \/ KeysStored(t) \/ SetIndexKey(t)
    \/ SendRejected(t) \/ Receive(t) \/ ReportError(t)

LEMMA FetchFailedFrame ==
    ASSUME ThreadsOK, NEW t \in Threads, NEW f, RelayFailed(t, f) \/ FetchFailed(t, f)
    PROVE  Others(t) /\ pc'[t] \in {"failed", "estOpen"}
BY DEF ThreadsOK, RelayFailed, FetchFailed, Fail, Goto, SetLoc, Others

LEMMA EstFailedFrame ==
    ASSUME ThreadsOK, NEW t \in Threads, EstFailed(t)
    PROVE  Others(t) /\ pc'[t] = "failed" /\ loc'[t].fault
BY Zenon DEF EstFailed, Fail, ThreadsOK, Goto, SetLoc, Others, NoLoc

\* Where a thread goes, with what, is all that a step changes of pc and loc.
LEMMA GotoFrame ==
    ASSUME ThreadsOK, NEW t \in Threads, NEW l, Goto(t, l), UNCHANGED loc \/ \E r : SetLoc(t, r)
    PROVE  Others(t) /\ pc'[t] = l
BY DEF ThreadsOK, Goto, SetLoc, Others

LEMMA PlainFrame ==
    ASSUME ThreadsOK, NEW t \in Threads, Plain(t)
    PROVE  UNCHANGED << env, ks, wipe >> /\ Others(t) /\ pc'[t] \notin Enveloping
<1>1. UNCHANGED << env, ks, wipe >>
  <2> USE DEF clientVars, peerVars
  <2>1. CASE Request(t) BY Zenon, <2>1 DEF Request, Begin
  <2>2. CASE ReadIndexKey(t) \/ LockAndLook(t) \/ Look(t) \/ Relock(t) \/ WaitForKeys(t)
    BY Zenon, <2>2 DEF ReadIndexKey, LockAndLook, Look, Relock, WaitForKeys
  <2>3. CASE DeriveBlockKeys(t) \/ StoreKey(t) \/ KeysStored(t) \/ SetIndexKey(t)
    BY Zenon, <2>3 DEF DeriveBlockKeys, StoreKey, KeysStored, SetIndexKey
  <2>4. CASE SendRejected(t) \/ Receive(t) \/ ReportError(t)
    BY Zenon, <2>4 DEF SendRejected, Receive, ReportError
  <2> QED BY Zenon, <2>1, <2>2, <2>3, <2>4 DEF Plain
<1>2. \/ FetchFailed(t, TRUE) \/ RelayFailed(t, FALSE)
      \/ pc' = pc /\ pc[t] = "derive" /\ \E r : SetLoc(t, r)
      \/ \E l : Goto(t, l) /\ l \notin Enveloping /\ (UNCHANGED loc \/ \E r : SetLoc(t, r))
  <2> USE DEF Enveloping
  <2>1. CASE Request(t) BY Zenon, <2>1 DEF Request, Begin
  <2>2. CASE ReadIndexKey(t) BY Zenon, <2>2 DEF ReadIndexKey, Return
  <2>3. CASE LockAndLook(t) BY Zenon, <2>3 DEF LockAndLook, Found
  <2>4. CASE Look(t) \/ Relock(t) BY Zenon, <2>4 DEF Look, Relock, Found
  <2>5. CASE WaitForKeys(t) \/ DeriveBlockKeys(t) BY Zenon, <2>5 DEF WaitForKeys, DeriveBlockKeys
  <2>6. CASE StoreKey(t) BY Zenon, <2>6 DEF StoreKey
  <2>7. CASE KeysStored(t) BY Zenon, <2>7 DEF KeysStored, Fail, Return
  <2>8. CASE SetIndexKey(t) \/ ReportError(t) BY Zenon, <2>8 DEF SetIndexKey, ReportError, Return
  <2>9. CASE SendRejected(t) BY Zenon, <2>9 DEF SendRejected
  <2>10. CASE Receive(t)
    <3>1. "derive" \notin Enveloping OBVIOUS
    <3> QED BY Zenon, <2>10, <3>1 DEF Receive
  <2> QED BY Zenon, <2>1, <2>2, <2>3, <2>4, <2>5, <2>6, <2>7, <2>8, <2>9, <2>10 DEF Plain
<1>3. Others(t) /\ pc'[t] \notin Enveloping
  <2>1. CASE FetchFailed(t, TRUE) \/ RelayFailed(t, FALSE)
    <3>1. pc'[t] \in {"failed", "estOpen"} /\ Others(t) BY Zenon, <2>1, FetchFailedFrame
    <3> QED BY <3>1 DEF Enveloping
  <2>2. CASE pc' = pc /\ pc[t] = "derive" /\ \E r : SetLoc(t, r)
    BY <2>2 DEF ThreadsOK, SetLoc, Others, Enveloping
  <2>3. CASE \E l : Goto(t, l) /\ l \notin Enveloping /\ (UNCHANGED loc \/ \E r : SetLoc(t, r))
    BY Zenon, <2>3, GotoFrame
  <2> QED BY Zenon, <1>2, <2>1, <2>2, <2>3
<1> QED BY Zenon, <1>1, <1>3

LEMMA PlainSeqOK ==
    ASSUME SeqInv, NEW t \in Threads, Plain(t) PROVE SeqKept(t)
<1>1. UNCHANGED << env, ks, wipe >> /\ Others(t) /\ pc'[t] \notin Enveloping
  BY Zenon, SeqFacts, PlainFrame
<1>2. wipe # "done" => CounterOK' BY <1>1, SeqFacts DEF CounterOK
<1>3. EnvelopeOK(t)' BY <1>1 DEF EnvelopeOK, Enveloping
<1> QED BY Zenon, <1>1, <1>2, <1>3 DEF SeqKept

LEMMA EstOpenSeqOK ==
    ASSUME SeqInv, NEW t \in Threads, EstOpen(t) PROVE SeqKept(t)
<1>0. /\ ThreadsOK /\ loc[t] \in Locs /\ opened \in Nat
      /\ DOMAIN ks \subseteq 1..opened /\ \A s \in DOMAIN ks : ks[s] \in Nat
      /\ env.seq \in Nat /\ (wipe # "done" => CounterOK)
  BY Zenon, SeqFacts
<1>1. UNCHANGED << env, wipe >> /\ pc[t] \in Engaged
  BY Zenon DEF EstOpen, Engaged, Opening
<1>2. CASE EstFailed(t) /\ UNCHANGED ks
  <2>1. Others(t) /\ pc'[t] = "failed" BY Zenon, <1>0, <1>2, EstFailedFrame
  <2>2. EnvelopeOK(t)' BY <2>1 DEF EnvelopeOK
  <2>3. CounterOK => CounterOK' BY <1>1, <1>2 DEF CounterOK
  <2> QED BY Zenon, <1>0, <1>1, <2>1, <2>2, <2>3 DEF SeqKept
<1>3. CASE /\ opened' = opened + 1
           /\ ks' = [s \in DOMAIN ks \union {opened'} |-> IF s = opened' THEN 0 ELSE ks[s]]
           /\ Goto(t, "estBind") /\ SetLoc(t, [loc[t] EXCEPT !.id = opened'])
  <2>1. Others(t) /\ pc'[t] = "estBind" BY Zenon, <1>0, <1>3, GotoFrame
  <2>2. loc'[t].id = opened + 1 BY <1>0, <1>3 DEF ThreadsOK, Locs, SetLoc
  <2>3. ks'[opened + 1] = 0 BY <1>3
  <2>4. wipe # "done" => CounterOK' BY <1>0, <1>1, <1>3 DEF CounterOK
  <2>5. EnvelopeOK(t)' BY <2>1, <2>2, <2>3 DEF EnvelopeOK
  <2> QED BY Zenon, <1>1, <2>1, <2>4, <2>5 DEF SeqKept
<1> QED BY Zenon, <1>2, <1>3 DEF EstOpen

LEMMA EstBindSeqOK ==
    ASSUME SeqInv, NEW t \in Threads, EstBind(t) PROVE SeqKept(t)
<1>0. /\ ThreadsOK /\ loc[t] \in Locs /\ env \in [id : Nat, seq : Nat] /\ env.seq \in Nat
      /\ (wipe # "done" => EnvelopeOK(t))
  BY Zenon, SeqFacts
<1>1. /\ pc[t] = "estBind" /\ ks' = ks /\ wipe' = wipe /\ Goto(t, "estReset") /\ loc' = loc
      /\ env' = [env EXCEPT !.id = loc[t].id]
  BY Zenon DEF EstBind, peerVars
<1>2. Others(t) /\ pc'[t] = "estReset" BY Zenon, <1>0, <1>1, GotoFrame
<1>3. env'.id = loc[t].id /\ env'.seq = env.seq BY <1>0, <1>1
<1>4. wipe # "done" => EnvelopeOK(t)' /\ CounterOK'
  BY <1>0, <1>1, <1>2, <1>3 DEF EnvelopeOK, CounterOK
<1> QED BY <1>1, <1>2, <1>4 DEF SeqKept, Engaged, Opening

LEMMA EstResetSeqOK ==
    ASSUME SeqInv, NEW t \in Threads, EstReset(t) PROVE SeqKept(t)
<1>0. /\ ThreadsOK /\ env \in [id : Nat, seq : Nat] /\ (wipe # "done" => EnvelopeOK(t))
  BY Zenon, SeqFacts
<1>1. /\ pc[t] = "estReset" /\ ks' = ks /\ wipe' = wipe /\ Goto(t, "sealID")
      /\ (\E r : SetLoc(t, r)) /\ env' = [env EXCEPT !.seq = 0]
  BY Zenon DEF EstReset, peerVars
<1>2. Others(t) /\ pc'[t] = "sealID" BY Zenon, <1>0, <1>1, GotoFrame
<1>3. env'.id = env.id /\ env'.seq = 0 BY <1>0, <1>1
<1>4. wipe # "done" => EnvelopeOK(t)' /\ CounterOK'
  BY <1>0, <1>1, <1>2, <1>3 DEF EnvelopeOK, CounterOK
<1> QED BY <1>1, <1>2, <1>4 DEF SeqKept, Engaged, Opening

LEMMA SealIDSeqOK ==
    ASSUME SeqInv, NEW t \in Threads, SealID(t) PROVE SeqKept(t)
<1>0. ThreadsOK /\ loc[t] \in Locs /\ (wipe # "done" => CounterOK) BY Zenon, SeqFacts
<1>1. /\ pc[t] = "sealID" /\ Goto(t, "sealSeq") /\ SetLoc(t, [loc[t] EXCEPT !.id = env.id])
      /\ UNCHANGED << ks, env, wipe >>
  BY Zenon DEF SealID, peerVars, clientVars
<1>2. Others(t) /\ pc'[t] = "sealSeq" BY Zenon, <1>0, <1>1, GotoFrame
<1>3. loc'[t].id = env.id BY <1>0, <1>1 DEF ThreadsOK, Locs, SetLoc
<1>4. wipe # "done" => EnvelopeOK(t)' /\ CounterOK'
  BY <1>0, <1>1, <1>2, <1>3 DEF EnvelopeOK, CounterOK
<1> QED BY <1>1, <1>2, <1>4 DEF SeqKept

LEMMA SealSeqSeqOK ==
    ASSUME SeqInv, NEW t \in Threads, SealSeq(t) PROVE SeqKept(t)
<1>0. /\ ThreadsOK /\ loc[t] \in Locs /\ env \in [id : Nat, seq : Nat] /\ env.seq \in Nat
      /\ (wipe # "done" => CounterOK /\ EnvelopeOK(t)) /\ \A s \in DOMAIN ks : ks[s] \in Nat
  BY Zenon, SeqFacts
<1>1. pc[t] = "sealSeq" /\ pc[t] \in Engaged /\ UNCHANGED << ks, wipe >>
  BY Zenon DEF SealSeq, peerVars, Engaged, Sending
<1>2. CASE env.seq < MaxRelays
  <2>1. /\ Goto(t, "send") /\ SetLoc(t, [loc[t] EXCEPT !.seq = env.seq + 1])
        /\ env' = [env EXCEPT !.seq = @ + 1]
    BY <1>2 DEF SealSeq
  <2>2. Others(t) /\ pc'[t] = "send" BY Zenon, <1>0, <2>1, GotoFrame
  <2>3. loc'[t].id = loc[t].id /\ loc'[t].seq = env.seq + 1
    BY <1>0, <2>1 DEF ThreadsOK, Locs, SetLoc
  <2>4. env'.id = env.id /\ env'.seq = env.seq + 1 BY <1>0, <2>1
  <2>5. wipe # "done" => CounterOK' BY SMTT(30), <1>0, <1>1, <2>4 DEF CounterOK
  <2>6. wipe # "done" => EnvelopeOK(t)'
    BY <1>0, <1>1, <2>2, <2>3, <2>4 DEF CounterOK, EnvelopeOK
  <2> QED BY Zenon, <1>1, <2>2, <2>5, <2>6 DEF SeqKept
<1>3. CASE ~(env.seq < MaxRelays)
  <2>1. RelayFailed(t, TRUE) /\ UNCHANGED env BY Zenon, <1>3 DEF SealSeq
  <2>2. Others(t) /\ pc'[t] \in {"failed", "estOpen"} BY ZenonT(30), <1>0, <2>1, FetchFailedFrame
  <2>3. EnvelopeOK(t)' BY <2>2 DEF EnvelopeOK
  <2>4. CounterOK => CounterOK' BY <1>1, <2>1 DEF CounterOK
  <2> QED BY Zenon, <1>0, <1>1, <2>2, <2>3, <2>4 DEF SeqKept
<1> QED BY <1>2, <1>3

\* What the key server has seen is what the envelope has reached.
LEMMA SendSeqOK ==
    ASSUME SeqInv, NEW t \in Threads, pc[t] = "send", wipe' = wipe, UNCHANGED env,
           ks' = [ks EXCEPT ![loc[t].id] = loc[t].seq],
           Others(t), pc'[t] \notin Enveloping
    PROVE  SeqKept(t)
<1>0. /\ (wipe # "done" => CounterOK /\ EnvelopeOK(t)) /\ \A s \in DOMAIN ks : ks[s] \in Nat
      /\ env.seq \in Nat
  BY Zenon, SeqFacts
<1>1. EnvelopeOK(t)' BY DEF EnvelopeOK, Enveloping
<1>2. wipe # "done" => CounterOK' BY <1>0 DEF CounterOK, EnvelopeOK
<1> QED BY <1>1, <1>2 DEF SeqKept, Engaged, Sending

LEMMA SendHandshakeSeqOK ==
    ASSUME SeqInv, NEW t \in Threads, SendHandshake(t) PROVE SeqKept(t)
<1>0. ThreadsOK /\ KeyOK(t) BY Zenon, SeqFacts
<1>1. /\ pc[t] = "send" /\ ks' = [ks EXCEPT ![loc[t].id] = loc[t].seq] /\ UNCHANGED << env, wipe >>
      /\ Handshake(t) /\ (EstFailed(t) \/ (Goto(t, loc[t].back) /\ UNCHANGED loc))
  BY ZenonT(30) DEF SendHandshake
<1>2. loc[t].back \in {"look", "relock", "wait"} BY <1>0, <1>1 DEF KeyOK, Handshake, Sending
<1>3. Others(t) /\ pc'[t] \in {"look", "relock", "wait", "failed"}
  BY <1>0, <1>1, <1>2, EstFailedFrame, GotoFrame
<1>4. pc'[t] \notin Enveloping BY <1>3 DEF Enveloping
<1> QED BY Zenon, <1>1, <1>3, <1>4, SendSeqOK

LEMMA SendCommandSeqOK ==
    ASSUME SeqInv, NEW t \in Threads, SendCommand(t) PROVE SeqKept(t)
<1>0. ThreadsOK BY Zenon, SeqFacts
<1>1. /\ pc[t] = "send" /\ ks' = [ks EXCEPT ![loc[t].id] = loc[t].seq] /\ UNCHANGED << env, wipe >>
      /\ FetchFailed(t, FALSE) \/ (Goto(t, "receive") /\ UNCHANGED loc)
  BY Zenon DEF SendCommand
<1>2. Others(t) /\ pc'[t] \in {"receive", "failed", "estOpen"}
  BY Zenon, <1>0, <1>1, FetchFailedFrame, GotoFrame
<1>3. pc'[t] \notin Enveloping BY <1>2 DEF Enveloping
<1> QED BY Zenon, <1>1, <1>2, <1>3, SendSeqOK

LEMMA SeqNextOK == SeqInv /\ [Next]_vars => SeqInv'
<1> SUFFICES ASSUME SeqInv, [Next]_vars PROVE SeqInv' OBVIOUS
<1>0. KeysInv' BY KeysNextOK DEF SeqInv
<1>1. ASSUME NEW t \in Threads, Request(t) \/ Step(t) PROVE SeqKept(t)
  BY Zenon, <1>1, PlainSeqOK, EstOpenSeqOK, EstBindSeqOK, EstResetSeqOK, SealIDSeqOK,
     SealSeqSeqOK, SendHandshakeSeqOK, SendCommandSeqOK DEF Step, Plain
<1>2. CASE Break
  <2>1. /\ DOMAIN ks' \subseteq DOMAIN ks /\ \A s \in DOMAIN ks' : ks'[s] = ks[s]
        /\ UNCHANGED << env, pc, wipe >>
    BY Zenon, <1>2 DEF Break, clientVars
  <2>2. ASSUME NEW t \in Threads, pc[t] # "idle"
        PROVE  loc'[t].id = loc[t].id /\ loc'[t].seq = loc[t].seq
    <3>1. loc[t] \in Locs BY Zenon, SeqFacts
    <3>2. loc'[t] = [loc[t] EXCEPT !.fault = TRUE] BY <1>2, <2>2 DEF Break
    <3> QED BY <3>1, <3>2 DEF Locs
  <2>3. wipe # "done" => CounterOK' BY SMTT(30), <2>1 DEF SeqInv, CounterOK
  <2>4. ASSUME wipe # "done", NEW t \in Threads PROVE EnvelopeOK(t)'
    <3>1. EnvelopeOK(t) BY Zenon, <2>4 DEF SeqInv
    <3> QED BY <2>1, <2>2, <3>1 DEF EnvelopeOK
  <2> QED BY Zenon, <1>0, <2>1, <2>3, <2>4 DEF SeqInv
<1>3. CASE WipeClose
  <2>1. /\ DOMAIN ks' \subseteq DOMAIN ks /\ \A s \in DOMAIN ks' : ks'[s] = ks[s]
        /\ UNCHANGED << env, pc, loc >> /\ wipe # "done"
    BY <1>3 DEF WipeClose
  <2>2. CounterOK' /\ \A t \in Threads : EnvelopeOK(t)'
    BY <2>1 DEF SeqInv, CounterOK, EnvelopeOK
  <2> QED BY Zenon, <1>0, <2>2 DEF SeqInv
<1>4. CASE WipeClear BY SMTT(30), <1>0, <1>4 DEF SeqInv, WipeClear
<1>5. CASE UNCHANGED vars
  BY <1>0, <1>5 DEF SeqInv, CounterOK, EnvelopeOK, vars, clientVars, peerVars
<1> QED BY Zenon, <1>0, <1>1, <1>2, <1>3, <1>4, <1>5, SeqStepOK DEF Next

\* For any number of goroutines, sessions and relays: until Wipe has run nobody sends a
\* sequence number that the key server or the card has seen, although the counter of
\* TransportEnvelopeClient is read and moved on in several steps (Seal,
\* SetTransportSessionID) and a session may be lost between any two of them.
THEOREM SequenceNumbersIncrease == Spec => []SequencesIncrease
<1>1. Init => SeqInv
  <2> SUFFICES ASSUME Init PROVE SeqInv OBVIOUS
  <2>1. \A t \in Threads : EnvelopeOK(t) BY SMTT(30) DEF Init, EnvelopeOK
  <2> QED BY <2>1, KeysInitOK DEF Init, SeqInv, CounterOK
<1>2. SeqInv => SequencesIncrease
  <2> SUFFICES ASSUME SeqInv, wipe # "done", NEW t \in Threads, pc[t] = "send"
               PROVE  /\ loc[t].id \in DOMAIN ks => loc[t].seq > ks[loc[t].id]
                      /\ loc[t].ce[1] \in DOMAIN card => loc[t].ce[2] >= card[loc[t].ce[1]]
    BY Zenon DEF SequencesIncrease
  <2>1. EnvelopeOK(t) /\ KeyOK(t) BY ZenonT(30), SeqFacts
  <2>2. ASSUME loc[t].ce[1] \in DOMAIN card PROVE loc[t].ce[2] >= card[loc[t].ce[1]]
    <3>1. loc[t].ce[1] # 0 BY <2>2 DEF SeqInv, KeysInv, TypeOK, PeersOK
    <3> QED BY SMTT(30), <2>1, <2>2, <3>1 DEF KeyOK, Commanding, CommandOK, Sending
  <2> QED BY <2>1, <2>2 DEF EnvelopeOK
<1> QED BY <1>1, <1>2, SeqNextOK, PTL DEF Spec

=============================================================================

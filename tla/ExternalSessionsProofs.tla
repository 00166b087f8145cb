----------------------- MODULE ExternalSessionsProofs -----------------------
(***************************************************************************)
(* Proofs about ExternalKeys, third part: what a second attempt finds.     *)
(* LossInv adds to SeqInv that the key asked for is stored, fetched or in  *)
(* the next batch, and that a second attempt no fault has met works on     *)
(* live sessions with sequence numbers enough for the batches it has left. *)
(***************************************************************************)
EXTENDS ExternalKeysProofs

----------------------------------------------------------------------------
(* The second attempt.                                                     *)

Shaking(t) == pc[t] \in Sending /\ loc[t].ce[1] = 0

\* The key that was asked for is stored, fetched or first in the next batch.
BatchOK(t) ==
    pc[t] = "derive" \/ Commanding(t) =>
        \/ loc[t].got \/ \E e \in loc[t].keys : e[1] = loc[t].i
        \/ loc[t].todo # << >> /\ loc[t].todo[1][1] = loc[t].i /\ loc[t].todo[1][2] >= 1

\* A request that no fault has met: the sessions it opens are alive, and the card session
\* of its second attempt has sequence numbers for every batch that is left.
LossOK(t) ==
    /\ pc[t] # "failed"
    /\ pc[t] \in {"readIndexKey", "lock", "look", "relock"} => ~loc[t].retried
    /\ pc[t] \in Opening \/ Shaking(t) => loc[t].back = "wait"
    /\ pc[t] \in {"estBind", "estReset"} => loc[t].id \in DOMAIN ks
    /\ Shaking(t) => env.id \in DOMAIN ks
    /\ loc[t].retried =>
          /\ pc[t] \in {"wait", "derive"} \/ Commanding(t) =>
                env.id \in DOMAIN ks /\ session \in DOMAIN card
          /\ pc[t] = "wait" => ceSeq[session] = 0
          /\ pc[t] = "derive" => ceSeq[session] + Len(loc[t].todo) <= SeqMax + 1
          /\ Commanding(t) =>
                /\ loc[t].ce[1] = session /\ loc[t].ce[2] < ceSeq[session]
                /\ ceSeq[session] + Len(loc[t].todo) <= SeqMax + 2

LossInv ==
    /\ SeqInv
    /\ \A t \in Threads : BatchOK(t)
    /\ wipe = "no" => \A t \in Threads : loc[t].fault \/ LossOK(t)

\* A plan starts with the key that was asked for, and a card session has numbers for it.
LEMMA PlanStarts ==
    ASSUME NEW i \in Nat, NEW op
    PROVE  LET p == planKeyBatches(i, KeyCount(op))
           IN  /\ p \in Seq(Batches) /\ p # << >> /\ Len(p) <= SeqMax + 1
               /\ p[1][1] = i /\ p[1][2] >= 1
<1> DEFINE c == KeyCount(op)
           n == (c + MaxBlockKeyBatch - 1) \div MaxBlockKeyBatch
           p == planKeyBatches(i, c)
<1>0. MaxBlockKeyBatch \in Nat \ {0} /\ SeqMax \in Nat BY ExternalKeysAssumption
<1>1. c \in Nat \ {0} BY ExternalKeysAssumption DEF KeyCount
<1>2. n \in Nat \ {0} /\ n <= SeqMax + 1
  <2>1. CASE op = "block" BY <2>1, <1>0, <1>1, ExternalKeysAssumption DEF KeyCount
  <2>2. CASE op # "block"
    <3>1. n = 1 BY <2>2, <1>0 DEF KeyCount
    <3> QED BY <3>1, <1>0
  <2> QED BY <2>1, <2>2
<1>3. p \in Seq(Batches) BY <1>1, PlanOK
<1> HIDE DEF c
<1>4. /\ DOMAIN p = 1..n
      /\ p[1] = << i + (1 - 1) * MaxBlockKeyBatch,
                   IF c - (1 - 1) * MaxBlockKeyBatch > MaxBlockKeyBatch THEN MaxBlockKeyBatch
                   ELSE c - (1 - 1) * MaxBlockKeyBatch >>
  <2> HIDE DEF n
  <2>1. 1 \in 1..n BY <1>2
  <2> QED BY <2>1 DEF planKeyBatches, n
<1> HIDE DEF n, p
<1>5. Len(p) = n BY <1>2, <1>3, <1>4, SeqLen
<1>6. p[1] = << i, IF c > MaxBlockKeyBatch THEN MaxBlockKeyBatch ELSE c >> BY <1>0, <1>1, <1>4
<1>7. p[1][1] = i /\ p[1][2] >= 1 BY <1>0, <1>1, <1>6
<1>8. p # << >> BY <1>2, <1>5
<1> QED BY <1>2, <1>3, <1>5, <1>7, <1>8 DEF c, p

LEMMA LossFacts ==
    ASSUME LossInv, NEW t \in Threads
    PROVE  /\ ThreadsOK /\ loc[t] \in Locs /\ KeyOK(t) /\ BatchOK(t)
           /\ (wipe = "no" => (loc[t].fault \/ LossOK(t)) /\ EnvelopeOK(t))
           /\ (session = 0 => wipe = "done") /\ ceSeq \in Seq(Nat) /\ session \in 0..Len(ceSeq)
           /\ env \in [id : Nat, seq : Nat] /\ SeqMax \in Nat
           /\ answers \subseteq Answers
<1>1. ThreadsOK /\ loc[t] \in Locs /\ KeyOK(t) /\ env \in [id : Nat, seq : Nat]
  BY Zenon, SeqFacts DEF LossInv
<1>2. BatchOK(t) /\ (wipe = "no" => loc[t].fault \/ LossOK(t)) BY Zenon DEF LossInv
<1>3. wipe # "done" => EnvelopeOK(t) BY Zenon, SeqFacts DEF LossInv
<1>4. /\ (session = 0 => wipe = "done") /\ ceSeq \in Seq(Nat) /\ session \in 0..Len(ceSeq)
      /\ answers \subseteq Answers
  BY Zenon DEF LossInv, SeqInv, KeysInv, TypeOK, ClientOK, PeersOK
<1>5. SeqMax \in Nat BY Zenon, ExternalKeysAssumption
<1> QED BY <1>1, <1>2, <1>3, <1>4, <1>5

\* A step that only thread t takes, and that changes the sessions only with the lock.
LossKept(t) ==
    /\ Others(t) /\ wipe' = wipe
    /\ pc[t] \in Engaged \/ UNCHANGED << env, ks, session, card, ceSeq >>
    /\ BatchOK(t)' /\ (wipe = "no" => loc'[t].fault \/ LossOK(t)')

LEMMA LossStepOK ==
    ASSUME LossInv, SeqInv', NEW t \in Threads, LossKept(t)
    PROVE  LossInv'
<1>0. /\ Others(t) /\ wipe' = wipe
      /\ pc[t] \in Engaged \/ UNCHANGED << env, ks, session, card, ceSeq >>
      /\ BatchOK(t)' /\ (wipe = "no" => loc'[t].fault \/ LossOK(t)')
  BY Zenon DEF LossKept
<1>1. ASSUME NEW u \in Threads, u # t
      PROVE  BatchOK(u)' /\ (wipe = "no" => loc'[u].fault \/ LossOK(u)')
  <2>1. pc'[u] = pc[u] /\ loc'[u] = loc[u] BY Zenon, <1>0, <1>1 DEF Others
  <2>2. Commanding(u)' = Commanding(u) /\ Shaking(u)' = Shaking(u) BY <2>1 DEF Commanding, Shaking
  <2>3. BatchOK(u) /\ (wipe = "no" => loc[u].fault \/ LossOK(u)) BY Zenon, LossFacts
  <2>4. BatchOK(u)' BY <2>1, <2>2, <2>3 DEF BatchOK
  <2>5. CASE UNCHANGED << env, ks, session, card, ceSeq >>
    BY <2>1, <2>2, <2>3, <2>4, <2>5 DEF LossOK
  <2>6. CASE pc[t] \in Engaged
    <3>1. SUFFICES ASSUME wipe = "no", ~loc[u].fault PROVE LossOK(u)' BY <2>1, <2>4
    <3>2. mu = t BY <2>6, <3>1, LossFacts DEF KeyOK, Holds
    <3>3. ~Holds(u) BY <1>1, <3>2, OthersOutside DEF LossInv, SeqInv
    <3>4. pc[u] \notin Engaged BY <3>1, <3>3 DEF Holds
    <3> QED BY <2>1, <2>2, <2>3, <3>1, <3>4
       DEF LossOK, Commanding, Shaking, Engaged, Opening, Sending
  <2> QED BY Zenon, <1>0, <2>5, <2>6
<1> QED BY Zenon, <1>0, <1>1 DEF LossInv

\* What a failed attempt comes to: without a fault it was the first, and not a handshake.
LEMMA FetchFailedLoss ==
    ASSUME LossInv, NEW t \in Threads, pc[t] \in Engaged, wipe' = wipe,
           NEW f \in BOOLEAN, RelayFailed(t, f) \/ (FetchFailed(t, f) /\ ~Handshake(t)),
           wipe = "no" /\ ~loc[t].fault /\ ~f => ~Handshake(t) /\ ~loc[t].retried
    PROVE  LossKept(t)
<1>0. ThreadsOK /\ loc[t] \in Locs BY Zenon, LossFacts
<1>1. Others(t) /\ pc'[t] \in {"failed", "estOpen"} BY <1>0, FetchFailedFrame
<1>2. BatchOK(t)' BY <1>1 DEF BatchOK, Commanding, Sending
<1> DEFINE r == [loc[t] EXCEPT !.retried = TRUE, !.back = "wait", !.fault = @ \/ f,
                             !.todo = << >>, !.keys = {}]
<1>3. (Fail(t, f) /\ (Handshake(t) \/ loc[t].retried)) \/ (Goto(t, "estOpen") /\ SetLoc(t, r))
  BY DEF RelayFailed, FetchFailed
<1>4. CASE Fail(t, f) /\ (Handshake(t) \/ loc[t].retried)
  <2>1. loc'[t].fault = (loc[t].fault \/ f)
    BY <1>0, <1>4 DEF Fail, SetLoc, ThreadsOK, NoLoc
  <2> QED BY Zenon, <1>1, <1>2, <1>4, <2>1 DEF LossKept
<1>5. CASE Goto(t, "estOpen") /\ SetLoc(t, r)
  <2>1. pc'[t] = "estOpen" /\ loc'[t].back = "wait"
    BY <1>0, <1>5 DEF Goto, SetLoc, ThreadsOK, Locs
  <2>2. LossOK(t)' BY <2>1 DEF LossOK, Commanding, Shaking, Opening, Sending
  <2> QED BY <1>1, <1>2, <2>2 DEF LossKept
<1> QED BY <1>3, <1>4, <1>5

LEMMA LookingLoss ==
    ASSUME LossInv, NEW t \in Threads,
           \/ Request(t) \/ ReadIndexKey(t) \/ LockAndLook(t) \/ Look(t) \/ Relock(t)
           \/ SetIndexKey(t) \/ ReportError(t)
    PROVE  LossKept(t)
<1>0. ThreadsOK /\ loc[t] \in Locs /\ (session = 0 => wipe = "done")
  BY Zenon, LossFacts
<1>1. Others(t) /\ UNCHANGED << env, ks, wipe >> BY <1>0, PlainFrame DEF Plain
<1>2. UNCHANGED << session, card, ceSeq >>
  BY Zenon DEF Request, Begin, ReadIndexKey, LockAndLook, Look, Relock, SetIndexKey, ReportError,
     Found,
         Return, clientVars, peerVars
<1>3. \/ pc'[t] \in {"idle", "setIndexKey"}
      \/ pc'[t] \in {"readIndexKey", "lock"} /\ ~loc'[t].retried
      \/ /\ pc'[t] \in {"lock", "relock", "wait"} /\ loc'[t] = loc[t]
         /\ pc[t] \in {"readIndexKey", "lock", "look", "relock"}
      \/ pc'[t] = "estOpen" /\ wipe = "done"
  <2> USE <1>0 DEF ThreadsOK, Goto, SetLoc
  <2>1. CASE Request(t)
    <3>1. PICK op \in {"block", "name", "index"}, i \in Nat : Begin(t, op, i)
      BY <2>1, ExternalKeysAssumption DEF Request, LossInv, SeqInv, KeysInv, TypeOK, PeersOK
    <3> DEFINE r == [NoLoc EXCEPT !.op = op, !.i = i]
    <3>2. loc'[t] = r /\ r.retried = FALSE BY <3>1 DEF Begin, NoLoc
    <3>3. pc'[t] \in {"readIndexKey", "lock"} BY <3>1 DEF Begin
    <3> QED BY <3>2, <3>3
  <2>2. CASE ReadIndexKey(t) BY <2>2 DEF ReadIndexKey, Return
  <2>3. CASE LockAndLook(t) BY <2>3 DEF LockAndLook, Found
  <2>4. CASE Look(t) \/ Relock(t) BY <2>4 DEF Look, Relock, Found
  <2>5. CASE SetIndexKey(t) \/ ReportError(t) BY <2>5 DEF SetIndexKey, ReportError, Return
  <2> QED BY <2>1, <2>2, <2>3, <2>4, <2>5
<1>4. BatchOK(t)' BY <1>3 DEF BatchOK, Commanding, Sending
<1>5. wipe = "no" => loc'[t].fault \/ LossOK(t)'
  <2>1. wipe = "no" => loc[t].fault \/ LossOK(t) BY Zenon, LossFacts
  <2> QED BY <1>3, <2>1 DEF LossOK, Commanding, Shaking, Opening, Sending
<1> QED BY <1>1, <1>2, <1>4, <1>5 DEF LossKept

LEMMA WaitForKeysLoss ==
    ASSUME LossInv, NEW t \in Threads, WaitForKeys(t) PROVE LossKept(t)
<1>0. /\ ThreadsOK /\ loc[t] \in Locs /\ (session = 0 => wipe = "done") /\ KeyOK(t)
      /\ ceSeq \in Seq(Nat) /\ session \in 0..Len(ceSeq) /\ SeqMax \in Nat
  BY Zenon, LossFacts
<1>1. Others(t) /\ UNCHANGED << env, ks, wipe, session, card >>
  BY Zenon, <1>0, PlainFrame DEF Plain, WaitForKeys, DeriveBlockKeys, clientVars, peerVars
<1>2. pc[t] \in Engaged BY DEF WaitForKeys, Engaged
<1>3. BatchOK(t) /\ (wipe = "no" => loc[t].fault \/ LossOK(t)) BY Zenon, LossFacts
<1> QED
  <2>0. pc[t] = "wait" /\ ceSeq' = ceSeq BY DEF WaitForKeys, clientVars
  <2>1. CASE session = 0
    <3>1. pc'[t] = "estOpen" BY <1>0, <2>1 DEF WaitForKeys, Goto, ThreadsOK
    <3>2. BatchOK(t)' BY <3>1 DEF BatchOK, Commanding, Sending
    <3> QED BY <1>0, <1>1, <1>2, <2>1, <3>2 DEF LossKept
  <2>2. CASE session # 0
    <3> DEFINE p == Plan(t)
               r == [loc[t] EXCEPT !.todo = p, !.keys = {}]
    <3>1. p \in Seq(Batches) /\ p # << >> /\ Len(p) <= SeqMax + 1 /\ p[1][1] = loc[t].i /\ p[1][2] >= 1
      <4>1. loc[t].i \in Nat BY <1>0 DEF Locs
      <4> QED BY Zenon, <4>1, PlanStarts DEF Plan
    <3> HIDE DEF p
    <3>2. pc'[t] = "derive" /\ loc'[t] = r
      BY <1>0, <2>2 DEF WaitForKeys, Goto, SetLoc, ThreadsOK, p
    <3>3. r.todo = p /\ r.i = loc[t].i /\ r.retried = loc[t].retried /\ r.fault = loc[t].fault
      BY <1>0 DEF Locs
    <3> HIDE DEF r
    <3>4. BatchOK(t)' BY <3>1, <3>2, <3>3 DEF BatchOK
    <3>5. Len(p) \in Nat BY <3>1, SeqLen
    <3>6. wipe = "no" => loc'[t].fault \/ LossOK(t)'
      BY <1>0, <1>1, <1>3, <2>0, <3>1, <3>2, <3>3, <3>5
         DEF LossOK, Commanding, Shaking, Opening, Sending
    <3> QED BY <1>1, <1>2, <3>4, <3>6 DEF LossKept
  <2> QED BY <2>1, <2>2

LEMMA DeriveLoss ==
    ASSUME LossInv, NEW t \in Threads, DeriveBlockKeys(t) PROVE LossKept(t)
<1>0. /\ ThreadsOK /\ loc[t] \in Locs /\ (session = 0 => wipe = "done") /\ KeyOK(t)
      /\ ceSeq \in Seq(Nat) /\ session \in 0..Len(ceSeq) /\ SeqMax \in Nat
  BY Zenon, LossFacts
<1>1. Others(t) /\ UNCHANGED << env, ks, wipe, session, card >>
  BY Zenon, <1>0, PlainFrame DEF Plain, WaitForKeys, DeriveBlockKeys, clientVars, peerVars
<1>2. pc[t] \in Engaged BY DEF DeriveBlockKeys, Engaged
<1>3. BatchOK(t) /\ (wipe = "no" => loc[t].fault \/ LossOK(t)) BY Zenon, LossFacts
<1> QED
  <2> DEFINE r == [loc[t] EXCEPT !.ce = << session, ceSeq[session] >>, !.back = "derive"]
  <2>1. /\ pc[t] = "derive" /\ pc'[t] = "sealID" /\ loc'[t] = r /\ loc[t].todo # << >>
        /\ ceSeq' = [ceSeq EXCEPT ![session] = IF @ > SeqMax THEN @ ELSE @ + 1]
    BY <1>0 DEF DeriveBlockKeys, Goto, SetLoc, ThreadsOK
  <2>2. /\ r.todo = loc[t].todo /\ r.i = loc[t].i /\ r.retried = loc[t].retried
        /\ r.fault = loc[t].fault /\ r.got = loc[t].got /\ r.keys = loc[t].keys
        /\ r.ce[1] = session /\ r.ce[2] = ceSeq[session]
    BY <1>0 DEF Locs
  <2> HIDE DEF r
  <2>3. session # 0 BY <1>0, <2>1 DEF KeyOK
  <2>4. BatchOK(t)' BY <1>3, <2>1, <2>2 DEF BatchOK
  <2>5. ceSeq[session] \in Nat /\ Len(loc[t].todo) \in Nat \ {0}
    <3>1. session \in 1..Len(ceSeq) BY <1>0, <2>3
    <3>2. loc[t].todo \in Seq(Batches) BY <1>0 DEF Locs
    <3> QED BY <1>0, <2>1, <3>1, <3>2, SeqLen, SeqEmpty
  <2>6. ceSeq'[session] = IF ceSeq[session] > SeqMax THEN ceSeq[session] ELSE ceSeq[session] + 1
    BY <1>0, <2>1, <2>3
  <2>7. ASSUME wipe = "no", ~loc[t].fault PROVE LossOK(t)'
    <3>1. LossOK(t) BY <1>3, <2>7
    <3>2. Commanding(t)' /\ ~Shaking(t)' BY <1>1, <2>1, <2>2, <2>3 DEF Commanding, Shaking, Sending
    <3>3. loc[t].retried => ceSeq[session] + Len(loc[t].todo) <= SeqMax + 1 BY <2>1, <3>1 DEF LossOK
    <3>4. loc[t].retried => env.id \in DOMAIN ks /\ session \in DOMAIN card BY <2>1, <3>1 DEF LossOK
    <3>5. loc[t].retried => /\ ceSeq[session] < ceSeq'[session]
                            /\ ceSeq'[session] + Len(loc[t].todo) <= SeqMax + 2
      <4> DEFINE a == ceSeq[session]
                 b == ceSeq'[session]
                 k == Len(loc[t].todo)
      <4>1. SeqMax \in Nat /\ a \in Nat /\ k \in Nat \ {0} /\ b = IF a > SeqMax THEN a ELSE a + 1
        BY <2>5, <2>6, ExternalKeysAssumption
      <4>2. loc[t].retried => a + k <= SeqMax + 1 BY <3>3
      <4> HIDE DEF a, b, k
      <4>3. loc[t].retried => a < b /\ b + k <= SeqMax + 2 BY <4>1, <4>2
      <4> QED BY <4>3 DEF a, b, k
    <3> QED BY <1>1, <2>1, <2>2, <3>2, <3>4, <3>5 DEF LossOK, Opening
  <2> QED BY <1>1, <1>2, <2>2, <2>1, <2>4, <2>7 DEF LossKept

LEMMA StoreKeyLoss ==
    ASSUME LossInv, NEW t \in Threads, StoreKey(t) PROVE LossKept(t)
<1>0. ThreadsOK /\ loc[t] \in Locs BY Zenon, LossFacts
<1>1. Others(t) /\ UNCHANGED << env, ks, wipe, session, card, ceSeq >>
  BY Zenon, <1>0, PlainFrame DEF Plain, StoreKey, KeysStored, peerVars
<1>2. pc[t] = "derive" /\ loc[t].todo = << >> /\ pc[t] \in Engaged
  BY Zenon DEF StoreKey, Engaged
<1>3. BatchOK(t) /\ (wipe = "no" => loc[t].fault \/ LossOK(t)) BY Zenon, LossFacts
<1>4. loc[t].got \/ \E e \in loc[t].keys : e[1] = loc[t].i BY <1>2, <1>3 DEF BatchOK
<1> QED
  <2>1. PICK e \in loc[t].keys :
           SetLoc(t, [loc[t] EXCEPT !.keys = @ \ {e}, !.got = @ \/ e[1] = loc[t].i])
    BY Zenon DEF StoreKey, ToStore
  <2> DEFINE r == [loc[t] EXCEPT !.keys = @ \ {e}, !.got = @ \/ e[1] = loc[t].i]
  <2>2. pc'[t] = "derive" /\ loc'[t] = r
    BY Zenon, <1>0, <1>2, <2>1 DEF StoreKey, SetLoc, ThreadsOK
  <2>3. /\ r.todo = loc[t].todo /\ r.i = loc[t].i /\ r.retried = loc[t].retried
        /\ r.fault = loc[t].fault /\ r.keys = loc[t].keys \ {e}
        /\ r.got = (loc[t].got \/ e[1] = loc[t].i)
    BY <1>0 DEF Locs
  <2> HIDE DEF r
  <2>4. r.got \/ \E x \in r.keys : x[1] = r.i BY Zenon, <1>4, <2>3
  <2>5. BatchOK(t)' BY <2>2, <2>4 DEF BatchOK
  <2>6. wipe = "no" => loc'[t].fault \/ LossOK(t)'
    BY <1>1, <1>2, <1>3, <2>2, <2>3 DEF LossOK, Commanding, Shaking, Opening, Sending
  <2> QED BY <1>1, <1>2, <2>5, <2>6 DEF LossKept

LEMMA KeysStoredLoss ==
    ASSUME LossInv, NEW t \in Threads, KeysStored(t) PROVE LossKept(t)
<1>0. ThreadsOK /\ loc[t] \in Locs BY Zenon, LossFacts
<1>1. Others(t) /\ UNCHANGED << env, ks, wipe, session, card, ceSeq >>
  BY Zenon, <1>0, PlainFrame DEF Plain, StoreKey, KeysStored, peerVars
<1>2. pc[t] = "derive" /\ loc[t].todo = << >> /\ pc[t] \in Engaged
  BY Zenon DEF KeysStored, Engaged
<1>3. BatchOK(t) /\ (wipe = "no" => loc[t].fault \/ LossOK(t)) BY Zenon, LossFacts
<1>4. loc[t].got \/ \E e \in loc[t].keys : e[1] = loc[t].i BY <1>2, <1>3 DEF BatchOK
<1> QED
  <2>1. loc[t].got BY <1>4 DEF KeysStored, ToStore
  <2>2. pc'[t] \in {"setIndexKey", "idle"}
    BY <1>0, <2>1 DEF KeysStored, Return, Goto, ThreadsOK
  <2>3. BatchOK(t)' /\ LossOK(t)'
    BY <2>2 DEF BatchOK, LossOK, Commanding, Shaking, Opening, Sending
  <2> QED BY <1>1, <1>2, <2>3 DEF LossKept

LEMMA EstOpenLoss ==
    ASSUME LossInv, NEW t \in Threads, EstOpen(t) PROVE LossKept(t)
<1>0. ThreadsOK /\ loc[t] \in Locs BY Zenon, LossFacts
<1>1. wipe' = wipe /\ pc[t] \in Engaged BY DEF EstOpen, Engaged, Opening
<1>2. wipe = "no" => loc[t].fault \/ LossOK(t) BY Zenon, LossFacts
<1>3. wipe = "no" => EnvelopeOK(t) BY ZenonT(30), LossFacts
<1> QED
  <2>1. CASE EstFailed(t)
    <3>1. Others(t) /\ pc'[t] = "failed" /\ loc'[t].fault
      BY Zenon, <1>0, <2>1 DEF EstFailed, Fail, ThreadsOK, Goto, SetLoc, Others, NoLoc
    <3>2. BatchOK(t)' BY <3>1 DEF BatchOK, Commanding, Sending
    <3> QED BY <1>1, <3>1, <3>2 DEF LossKept
  <2>2. CASE /\ ks' = [s \in DOMAIN ks \union {opened'} |-> IF s = opened' THEN 0 ELSE ks[s]]
             /\ Goto(t, "estBind") /\ SetLoc(t, [loc[t] EXCEPT !.id = opened'])
    <3>1. /\ Others(t) /\ pc'[t] = "estBind" /\ loc'[t].id = opened'
          /\ loc'[t].back = loc[t].back /\ loc'[t].fault = loc[t].fault
      BY <1>0, <2>2 DEF ThreadsOK, Locs, Goto, SetLoc, Others
    <3>2. pc[t] = "estOpen" BY DEF EstOpen
    <3>3. opened' \in DOMAIN ks' BY <2>2
    <3>4. BatchOK(t)' BY <3>1 DEF BatchOK, Commanding, Sending
    <3>5. wipe = "no" => loc'[t].fault \/ LossOK(t)'
      BY <1>2, <3>1, <3>2, <3>3 DEF LossOK, Commanding, Shaking, Opening, Sending
    <3> QED BY <1>1, <3>1, <3>4, <3>5 DEF LossKept
  <2> QED BY <2>1, <2>2 DEF EstOpen

LEMMA EstBindLoss ==
    ASSUME LossInv, NEW t \in Threads, EstBind(t) PROVE LossKept(t)
<1>0. ThreadsOK /\ loc[t] \in Locs BY Zenon, LossFacts
<1>1. wipe' = wipe /\ pc[t] \in Engaged BY DEF EstBind, Engaged, Opening
<1>2. wipe = "no" => loc[t].fault \/ LossOK(t) BY Zenon, LossFacts
<1>3. wipe = "no" => EnvelopeOK(t) BY Zenon, LossFacts
<1> QED
  <2>1. Others(t) /\ pc[t] = "estBind" /\ pc'[t] = "estReset" /\ loc'[t] = loc[t] /\ ks' = ks
    BY <1>0 DEF EstBind, ThreadsOK, Goto, Others, peerVars
  <2>2. BatchOK(t)' BY <2>1 DEF BatchOK, Commanding, Sending
  <2>3. wipe = "no" => loc'[t].fault \/ LossOK(t)'
    BY <1>2, <2>1 DEF LossOK, Commanding, Shaking, Opening, Sending
  <2> QED BY <1>1, <2>1, <2>2, <2>3 DEF LossKept

LEMMA EstResetLoss ==
    ASSUME LossInv, NEW t \in Threads, EstReset(t) PROVE LossKept(t)
<1>0. ThreadsOK /\ loc[t] \in Locs BY Zenon, LossFacts
<1>1. wipe' = wipe /\ pc[t] \in Engaged BY DEF EstReset, Engaged, Opening
<1>2. wipe = "no" => loc[t].fault \/ LossOK(t) BY Zenon, LossFacts
<1>3. wipe = "no" => EnvelopeOK(t) BY Zenon, LossFacts
<1> QED
  <2>1. env \in [id : Nat, seq : Nat] BY Zenon, LossFacts
  <2>2. /\ Others(t) /\ pc[t] = "estReset" /\ pc'[t] = "sealID" /\ ks' = ks /\ env'.id = env.id
        /\ loc'[t].back = loc[t].back /\ loc'[t].fault = loc[t].fault /\ loc'[t].ce[1] = 0
    BY <1>0, <2>1 DEF EstReset, ThreadsOK, Locs, Goto, SetLoc, Others, peerVars
  <2>3. BatchOK(t)' BY <2>2 DEF BatchOK, Commanding, Sending
  <2>4. wipe = "no" => loc'[t].fault \/ LossOK(t)'
    BY <1>2, <1>3, <2>2 DEF LossOK, EnvelopeOK, Commanding, Shaking, Opening, Sending
  <2> QED BY <1>1, <2>2, <2>3, <2>4 DEF LossKept

LEMMA SealLoss ==
    ASSUME LossInv, NEW t \in Threads, SealID(t) \/ SealSeq(t)
    PROVE  LossKept(t)
<1>0. ThreadsOK /\ loc[t] \in Locs /\ env \in [id : Nat, seq : Nat]
  BY Zenon, LossFacts
<1>1. wipe' = wipe /\ pc[t] \in Engaged /\ pc[t] \in Sending
  BY Zenon DEF SealID, SealSeq, Engaged, Sending
<1>2. BatchOK(t) /\ (wipe = "no" => loc[t].fault \/ LossOK(t)) BY Zenon, LossFacts
<1>3. ASSUME NEW l \in {"sealSeq", "send"}, NEW r \in Locs, Goto(t, l), SetLoc(t, r),
             UNCHANGED << ks, session, card, ceSeq >>, env'.id = env.id,
             /\ r.todo = loc[t].todo /\ r.i = loc[t].i /\ r.retried = loc[t].retried
             /\ r.fault = loc[t].fault /\ r.got = loc[t].got /\ r.keys = loc[t].keys
             /\ r.ce = loc[t].ce /\ r.back = loc[t].back
      PROVE  LossKept(t)
  <2>1. Others(t) /\ pc'[t] = l /\ loc'[t] = r
    BY <1>0, <1>3 DEF ThreadsOK, Goto, SetLoc, Others
  <2>2. Commanding(t)' = Commanding(t) /\ Shaking(t)' = Shaking(t)
    BY <1>1, <1>3, <2>1 DEF Commanding, Shaking, Sending
  <2>3. BatchOK(t)' BY <1>1, <1>2, <1>3, <2>1, <2>2 DEF BatchOK, Sending
  <2>4. wipe = "no" => loc'[t].fault \/ LossOK(t)'
    BY <1>1, <1>2, <1>3, <2>1, <2>2 DEF LossOK, Opening, Sending
  <2> QED BY <1>1, <2>1, <2>3, <2>4 DEF LossKept
<1>4. CASE SealID(t)
  <2> DEFINE r == [loc[t] EXCEPT !.id = env.id]
  <2>1. /\ r \in Locs /\ r.todo = loc[t].todo /\ r.i = loc[t].i /\ r.retried = loc[t].retried
        /\ r.fault = loc[t].fault /\ r.got = loc[t].got /\ r.keys = loc[t].keys
        /\ r.ce = loc[t].ce /\ r.back = loc[t].back
    BY <1>0 DEF Locs
  <2>2. Goto(t, "sealSeq") /\ SetLoc(t, r) /\ UNCHANGED << ks, session, card, ceSeq, env >>
    BY <1>4 DEF SealID, clientVars, peerVars
  <2> HIDE DEF r
  <2> QED BY <1>3, <2>1, <2>2
<1>5. CASE SealSeq(t)
  <2>0. UNCHANGED << ks, session, card, ceSeq >> BY <1>5 DEF SealSeq, peerVars
  <2>1. CASE env.seq < MaxRelays
    <3> DEFINE r == [loc[t] EXCEPT !.seq = env.seq + 1]
    <3>0. env.seq + 1 \in Nat BY <1>0
    <3>1. /\ r \in Locs /\ r.todo = loc[t].todo /\ r.i = loc[t].i /\ r.retried = loc[t].retried
          /\ r.fault = loc[t].fault /\ r.got = loc[t].got /\ r.keys = loc[t].keys
          /\ r.ce = loc[t].ce /\ r.back = loc[t].back
      BY <1>0, <3>0 DEF Locs
    <3>2. Goto(t, "send") /\ SetLoc(t, r) /\ env'.id = env.id
      BY <1>0, <1>5, <2>1 DEF SealSeq
    <3> HIDE DEF r
    <3> QED BY <1>3, <2>0, <3>1, <3>2
  <2>2. CASE ~(env.seq < MaxRelays)
    <3>1. RelayFailed(t, TRUE) BY Zenon, <1>5, <2>2 DEF SealSeq
    <3>2. PICK f \in BOOLEAN : f /\ RelayFailed(t, f) BY Zenon, <3>1
    <3> QED BY Zenon, <1>1, <3>2, FetchFailedLoss
  <2> QED BY <2>1, <2>2
<1> QED BY <1>4, <1>5

LEMMA SendRejectedLoss ==
    ASSUME LossInv, NEW t \in Threads, SendRejected(t) PROVE LossKept(t)
<1>0. ThreadsOK /\ loc[t] \in Locs /\ KeyOK(t)
  BY Zenon, LossFacts
<1>1. wipe' = wipe /\ pc[t] = "send" /\ pc[t] \in Engaged /\ pc[t] \in Sending
  BY ZenonT(30) DEF SendRejected, Engaged, Sending
<1>2. BatchOK(t) /\ (wipe = "no" => loc[t].fault \/ LossOK(t)) BY Zenon, LossFacts
<1>3. wipe = "no" => EnvelopeOK(t) BY Zenon, LossFacts
<1> QED
  <2>1. RelayFailed(t, FALSE) /\ ~KsAccepts(t) BY Zenon DEF SendRejected
  <2>2. ASSUME wipe = "no", ~loc[t].fault PROVE ~Handshake(t) /\ ~loc[t].retried
    <3>1. loc[t].id \notin DOMAIN ks /\ env.id = loc[t].id
      BY <1>1, <1>3, <2>1, <2>2 DEF KsAccepts, EnvelopeOK
    <3> QED BY <1>1, <1>2, <2>2, <3>1 DEF LossOK, Handshake, Shaking, Commanding
  <2>3. PICK f \in BOOLEAN : ~f /\ RelayFailed(t, f) BY Zenon, <2>1
  <2> QED BY <1>1, <2>2, <2>3, FetchFailedLoss

LEMMA SendHandshakeLoss ==
    ASSUME LossInv, NEW t \in Threads, SendHandshake(t) PROVE LossKept(t)
<1>0. ThreadsOK /\ loc[t] \in Locs /\ KeyOK(t)
  BY Zenon, LossFacts
<1>1. wipe' = wipe /\ pc[t] = "send" /\ pc[t] \in Engaged /\ pc[t] \in Sending
  BY ZenonT(30) DEF SendHandshake, Engaged, Sending
<1>2. BatchOK(t) /\ (wipe = "no" => loc[t].fault \/ LossOK(t)) BY Zenon, LossFacts
<1>3. wipe = "no" => EnvelopeOK(t) BY Zenon, LossFacts
<1> QED
  <2>1. CASE EstFailed(t)
    <3>1. Others(t) /\ pc'[t] = "failed" /\ loc'[t].fault
      BY ZenonT(30), <1>0, <2>1 DEF EstFailed, Fail, ThreadsOK, Goto, SetLoc, Others, NoLoc
    <3>2. BatchOK(t)' BY <3>1 DEF BatchOK, Commanding, Sending
    <3> QED BY <1>1, <3>1, <3>2 DEF LossKept
  <2>2. CASE Goto(t, loc[t].back) /\ session' = Len(ceSeq) + 1 /\ UNCHANGED loc
    <3>1. Shaking(t) /\ loc[t].back \in {"look", "relock", "wait"}
      BY <1>0, <1>1 DEF SendHandshake, Handshake, Shaking, KeyOK
    <3>2. Others(t) /\ pc'[t] = loc[t].back /\ loc'[t] = loc[t]
      BY <1>0, <2>2 DEF ThreadsOK, Goto, Others
    <3>3. BatchOK(t)' BY <3>1, <3>2 DEF BatchOK, Commanding, Sending
    <3>4. DOMAIN ks' = DOMAIN ks /\ env' = env BY DEF SendHandshake
    <3>5. session' \in DOMAIN card' BY <2>2 DEF SendHandshake
    <3>6. ceSeq'[session'] = 0
      <4>1. ceSeq \in Seq(Nat) /\ ceSeq' = Append(ceSeq, 0)
        BY ZenonT(30) DEF SendHandshake, LossInv, SeqInv, KeysInv, TypeOK, ClientOK
      <4> QED BY <2>2, <4>1, SeqAppend
    <3>7. wipe = "no" => loc'[t].fault \/ LossOK(t)'
      BY <1>2, <3>1, <3>2, <3>4, <3>5, <3>6 DEF LossOK, Shaking, Commanding, Opening, Sending
    <3> QED BY <1>1, <3>2, <3>3, <3>7 DEF LossKept
  <2> QED BY <2>1, <2>2 DEF SendHandshake

LEMMA SendCommandLoss ==
    ASSUME LossInv, NEW t \in Threads, SendCommand(t) PROVE LossKept(t)
<1>0. ThreadsOK /\ loc[t] \in Locs /\ KeyOK(t)
  BY Zenon, LossFacts
<1>1. wipe' = wipe /\ pc[t] = "send" /\ pc[t] \in Engaged /\ pc[t] \in Sending
  BY Zenon DEF SendCommand, Engaged, Sending
<1>2. BatchOK(t) /\ (wipe = "no" => loc[t].fault \/ LossOK(t)) BY Zenon, LossFacts
<1>3. wipe = "no" => EnvelopeOK(t) BY Zenon, LossFacts
<1> QED
  <2> DEFINE s == loc[t].ce[1]
             n == loc[t].ce[2]
  <2>1. Commanding(t) /\ ~Handshake(t) /\ CommandOK(t)
    BY <1>0, <1>1 DEF SendCommand, Handshake, Commanding, KeyOK
  <2>2. CASE CardAccepts(s, n)
    <3>1. /\ Goto(t, "receive") /\ UNCHANGED << loc, session, ceSeq, env >>
          /\ DOMAIN ks' = DOMAIN ks /\ DOMAIN card' = DOMAIN card
      BY <2>2 DEF SendCommand
    <3>2. Others(t) /\ pc'[t] = "receive" /\ loc'[t] = loc[t]
      BY <1>0, <3>1 DEF ThreadsOK, Goto, Others
    <3>3. BatchOK(t)' BY <1>2, <2>1, <3>2 DEF BatchOK
    <3>4. wipe = "no" => loc'[t].fault \/ LossOK(t)'
      BY <1>2, <2>1, <3>1, <3>2 DEF LossOK, Shaking, Commanding, Opening, Sending
    <3> QED BY <1>1, <3>2, <3>3, <3>4 DEF LossKept
  <2>3. CASE ~CardAccepts(s, n)
    <3>1. FetchFailed(t, FALSE) BY ZenonT(30), <2>3 DEF SendCommand
    <3>2. ASSUME wipe = "no", ~loc[t].fault, loc[t].retried PROVE FALSE
      <4>1. s = session /\ session \in DOMAIN card /\ n < ceSeq[s]
            /\ ceSeq[session] + Len(loc[t].todo) <= SeqMax + 2
        BY <1>2, <2>1, <3>2 DEF LossOK
      <4>2. s \in 1..Len(ceSeq) /\ n >= card[s] /\ loc[t].todo # << >>
        BY <1>1, <2>1, <4>1 DEF CommandOK
      <4>3. Len(loc[t].todo) \in Nat \ {0} /\ ceSeq[s] \in Nat /\ n \in Nat /\ SeqMax \in Nat
        <5>1. loc[t].todo \in Seq(Batches) /\ n \in Nat BY <1>0 DEF Locs, Pairs
        <5>2. ceSeq \in Seq(Nat) BY Zenon, LossFacts
        <5> QED BY ZenonT(30), <4>2, <5>1, <5>2, SeqLen, SeqEmpty, ExternalKeysAssumption
      <4>4. n <= SeqMax BY SMTT(30), <4>1, <4>3
      <4> QED BY <2>3, <4>1, <4>2, <4>4 DEF CardAccepts
    <3> QED BY Zenon, <1>1, <2>1, <3>1, <3>2, FetchFailedLoss
  <2> QED BY <2>2, <2>3

LEMMA ReceiveLoss ==
    ASSUME LossInv, NEW t \in Threads, Receive(t) PROVE LossKept(t)
<1>0. ThreadsOK /\ loc[t] \in Locs /\ KeyOK(t)
  BY Zenon, LossFacts
<1>1. /\ wipe' = wipe /\ pc[t] = "receive" /\ pc[t] \in Engaged /\ Commanding(t)
      /\ UNCHANGED << env, ks, session, card, ceSeq >>
  BY ZenonT(30) DEF Receive, Engaged, Commanding, peerVars
<1>2. BatchOK(t) /\ (wipe = "no" => loc[t].fault \/ LossOK(t)) BY Zenon, LossFacts
<1>3. CommandOK(t) /\ session # 0 BY <1>0, <1>1 DEF KeyOK
<1>4. CASE FetchFailed(t, TRUE)
  <2>1. ~Handshake(t) BY SMTT(30), <1>3 DEF CommandOK, Handshake
  <2> QED BY ZenonT(30), <1>1, <1>4, <2>1, FetchFailedLoss
<1>5. ASSUME NEW a \in answers, OpensCEResponse(t, a),
             SetLoc(t, [loc[t] EXCEPT
                !.keys = @ \union
                           {<< loc[t].todo[1][1] + j, a.start + j >> : j \in 0 .. a.count - 1},
                !.todo = Tail(@)]),
             Goto(t, "derive")
      PROVE  LossKept(t)
  <2> DEFINE new == {<< loc[t].todo[1][1] + j, a.start + j >> : j \in 0 .. a.count - 1}
             r == [loc[t] EXCEPT !.keys = @ \union new, !.todo = Tail(@)]
  <2>1. Others(t) /\ pc'[t] = "derive" /\ loc'[t] = r
    BY <1>0, <1>5 DEF ThreadsOK, Goto, SetLoc, Others
  <2>2. /\ r.todo = Tail(loc[t].todo) /\ r.i = loc[t].i /\ r.retried = loc[t].retried
        /\ r.fault = loc[t].fault /\ r.got = loc[t].got /\ r.keys = loc[t].keys \union new
    BY <1>0 DEF Locs
  <2> HIDE DEF r
  <2>3. r.got \/ (\E e \in r.keys : e[1] = r.i)
    <3>1. CASE loc[t].got \/ \E e \in loc[t].keys : e[1] = loc[t].i BY <2>2, <3>1
    <3>2. CASE loc[t].todo[1][1] = loc[t].i /\ loc[t].todo[1][2] >= 1
      <4>1. a.count = loc[t].todo[1][2] /\ a.count \in Int /\ loc[t].i \in Nat
        BY <1>0, <1>5 DEF OpensCEResponse, LossInv, SeqInv, KeysInv, TypeOK, PeersOK,
           Answers, Locs
      <4>2. 0 \in 0 .. a.count - 1 BY <3>2, <4>1
      <4>3. << loc[t].todo[1][1] + 0, a.start + 0 >> \in new BY <4>2
      <4>4. << loc[t].todo[1][1] + 0, a.start + 0 >>[1] = loc[t].i BY <3>2, <4>1
      <4> HIDE DEF new
      <4> QED BY <2>2, <4>3, <4>4
    <3> QED BY <1>1, <1>2, <3>1, <3>2 DEF BatchOK
  <2>4. BatchOK(t)' BY <2>1, <2>3 DEF BatchOK
  <2>5. Len(r.todo) = Len(loc[t].todo) - 1 /\ Len(loc[t].todo) \in Nat
    <3>1. loc[t].todo \in Seq(Batches) /\ loc[t].todo # << >>
      BY <1>0, <1>3 DEF Locs, CommandOK
    <3> QED BY SMTT(30), <2>2, <3>1
  <2>6. ceSeq[session] \in Nat /\ SeqMax \in Nat
    <3>1. ceSeq \in Seq(Nat) /\ session \in 1..Len(ceSeq)
      BY <1>0, <1>3, LossFacts
    <3> QED BY SMTT(30), <3>1, ExternalKeysAssumption
  <2>7. wipe = "no" => loc'[t].fault \/ LossOK(t)'
    <3>1. loc[t].retried /\ LossOK(t) => ceSeq[session] + Len(r.todo) <= SeqMax + 1
      <4>1. loc[t].retried /\ LossOK(t) => ceSeq[session] + Len(loc[t].todo) <= SeqMax + 2
        BY <1>1 DEF LossOK
      <4> QED BY SMTT(30), <2>5, <2>6, <4>1
    <3> QED BY <1>1, <1>2, <2>1, <2>2, <3>1 DEF LossOK, Shaking, Commanding, Opening, Sending
  <2> QED BY <1>1, <2>1, <2>4, <2>7 DEF LossKept
<1> QED BY Zenon, <1>4, <1>5 DEF Receive

LEMMA LossNextOK == LossInv /\ [Next]_vars => LossInv'
<1> SUFFICES ASSUME LossInv, [Next]_vars PROVE LossInv' OBVIOUS
<1>0. SeqInv' BY SeqNextOK DEF LossInv
<1>1. ASSUME NEW t \in Threads, Request(t) \/ Step(t) PROVE LossKept(t)
  BY ZenonT(30), <1>1, LookingLoss, WaitForKeysLoss, DeriveLoss, StoreKeyLoss, KeysStoredLoss,
     EstOpenLoss, EstBindLoss, EstResetLoss, SealLoss, SendRejectedLoss, SendHandshakeLoss,
     SendCommandLoss, ReceiveLoss DEF Step
<1>2. CASE Break
  <2>1. ASSUME NEW u \in Threads PROVE BatchOK(u)' /\ (loc'[u].fault \/ LossOK(u)')
    <3>0. loc[u] \in Locs /\ BatchOK(u) /\ pc' = pc
      <4>1. pc' = pc BY ZenonT(30), <1>2 DEF Break
      <4> QED BY Zenon, <4>1, LossFacts
    <3>1. CASE pc[u] = "idle"
      BY ZenonT(30), <3>0, <3>1 DEF BatchOK, LossOK, Commanding, Shaking, Opening, Sending
    <3>2. CASE pc[u] # "idle"
      <4> DEFINE r == [loc[u] EXCEPT !.fault = TRUE]
      <4>1. loc'[u] = r BY <1>2, <3>2 DEF Break
      <4>2. /\ r.todo = loc[u].todo /\ r.i = loc[u].i /\ r.got = loc[u].got
            /\ r.keys = loc[u].keys /\ r.ce = loc[u].ce /\ r.fault
        BY <3>0 DEF Locs
      <4> HIDE DEF r
      <4> QED BY <3>0, <4>1, <4>2 DEF BatchOK, Commanding
    <3> QED BY <3>1, <3>2
  <2> QED BY <1>0, <2>1 DEF LossInv
<1>3. CASE WipeClose \/ WipeClear
  <2>1. UNCHANGED << pc, loc >> /\ wipe' # "no" BY <1>3 DEF WipeClose, WipeClear
  <2> QED BY Zenon, <1>0, <2>1 DEF LossInv, BatchOK, Commanding
<1>4. CASE UNCHANGED vars
  BY <1>0, <1>4 DEF LossInv, BatchOK, LossOK, Shaking, Commanding, vars, clientVars, peerVars
<1> QED BY Zenon, <1>0, <1>1, <1>2, <1>3, <1>4, LossStepOK DEF Next

\* For any number of goroutines and keys: until Wipe begins, a request fails only when
\* something went wrong while it ran.  A session lost before it began, or one that has
\* no sequence numbers left, is replaced, and the second attempt finds a live session
\* with numbers for all its batches (waitForKeys, "retry exactly once").
THEOREM SecondAttemptSucceeds == Spec => []SessionLossIsMasked
<1>1. Init => LossInv
  <2> SUFFICES ASSUME Init PROVE LossInv OBVIOUS
  <2>1. CounterOK /\ \A t \in Threads : EnvelopeOK(t) BY SMTT(30) DEF Init, EnvelopeOK, CounterOK
  <2>2. \A t \in Threads : BatchOK(t) /\ LossOK(t)
    BY DEF Init, BatchOK, LossOK, Commanding, Shaking, Opening, Sending
  <2> QED BY <2>1, <2>2, KeysInitOK DEF SeqInv, LossInv
<1>2. LossInv => SessionLossIsMasked BY DEF LossInv, LossOK, SessionLossIsMasked
<1> QED BY <1>1, <1>2, LossNextOK, PTL DEF Spec

=============================================================================

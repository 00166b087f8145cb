------------------------- MODULE ExternalKeysLemmas -------------------------
(***************************************************************************)
(* Proofs about ExternalKeys, first part: the caches, the inductive        *)
(* invariant KeysInv, and the steps of a request that do not reach the key *)
(* server. KeysInv says that a thread in the middle of a fetch holds the   *)
(* lock, that the command it sends has a sequence number of its own, and   *)
(* that every key it has fetched or cached is the card's key for that      *)
(* index.                                                                  *)
(***************************************************************************)
EXTENDS ExternalKeys, Integers, TLAPS

----------------------------------------------------------------------------
(* Sequences.                                                              *)

LEMMA SeqLen ==
    ASSUME NEW T, NEW s \in Seq(T)
    PROVE  Len(s) \in Nat /\ DOMAIN s = 1..Len(s) /\ \A j \in 1..Len(s) : s[j] \in T
OBVIOUS

LEMMA SeqEmpty ==
    ASSUME NEW T
    PROVE  << >> \in Seq(T) /\ Len(<< >>) = 0 /\ \A s \in Seq(T) : s # << >> => Len(s) \in Nat \ {0}
<1>1. << >> \in Seq(T) /\ Len(<< >>) = 0 OBVIOUS
<1>2. ASSUME NEW s \in Seq(T), Len(s) \notin Nat \ {0} PROVE s = << >> BY <1>2
<1> QED BY <1>1, <1>2

LEMMA SeqFunction ==
    ASSUME NEW T, NEW n \in Nat, NEW f \in [1..n -> T] PROVE f \in Seq(T) /\ Len(f) = n
OBVIOUS

LEMMA SeqExcept ==
    ASSUME NEW T, NEW s \in Seq(T), NEW i \in 1..Len(s), NEW e \in T
    PROVE  LET x == [s EXCEPT ![i] = e]
           IN  /\ x \in Seq(T) /\ Len(x) = Len(s)
               /\ \A j \in 1..Len(s) : x[j] = IF j = i THEN e ELSE s[j]
OBVIOUS

LEMMA SeqAppend ==
    ASSUME NEW T, NEW s \in Seq(T), NEW e \in T
    PROVE  LET x == Append(s, e)
           IN  /\ x \in Seq(T) /\ Len(x) = Len(s) + 1 /\ x[Len(s) + 1] = e
               /\ \A j \in 1..Len(s) : x[j] = s[j]
OBVIOUS

LEMMA SeqConcat ==
    ASSUME NEW T, NEW a \in Seq(T), NEW b \in Seq(T)
    PROVE  a \o b \in Seq(T) /\ Len(a \o b) = Len(a) + Len(b)
OBVIOUS

----------------------------------------------------------------------------
(* The caches.                                                             *)

Pairs == Nat \X Nat
Batches == Nat \X Int
Matching(c) == \A j \in 1..Len(c) : c[j][1] = c[j][2]

LEMMA TouchedOK ==
    ASSUME NEW c \in Seq(Pairs), NEW i \in Nat, Has(c, i), Matching(c)
    PROVE  Touched(c, i) \in Seq(Pairs) /\ Matching(Touched(c, i))
<1>1. PICK p \in 1..Len(c) : p = Pos(c, i) BY DEF Has, Pos
<1> DEFINE a == SubSeq(c, 1, p - 1)
           b == SubSeq(c, p + 1, Len(c))
<1>2. Len(c) \in Nat /\ p \in Nat BY SeqLen
<1>3. a \in Seq(Pairs) /\ Len(a) = p - 1 /\ \A j \in 1..(p - 1) : a[j] = c[j]
  BY <1>2
<1>4. b \in Seq(Pairs) /\ Len(b) = Len(c) - p /\ \A j \in 1..(Len(c) - p) : b[j] = c[p + j]
  BY <1>2
<1> HIDE DEF a, b
<1>5. a \o b \in Seq(Pairs) /\ Len(a \o b) = Len(a) + Len(b) BY Zenon, <1>3, <1>4, SeqConcat
<1>6. ASSUME NEW j \in 1..Len(a \o b) PROVE (a \o b)[j][1] = (a \o b)[j][2]
  <2>1. j \in 1..(Len(a) + Len(b)) /\ Len(a) \in Nat /\ Len(b) \in Nat BY <1>3, <1>4, <1>5, SeqLen
  <2>2. CASE j <= Len(a)
    <3>1. (a \o b)[j] = a[j] BY <1>3, <1>4, <2>1, <2>2
    <3>2. a[j] = c[j] /\ j \in 1..Len(c) BY <1>2, <1>3, <2>1, <2>2
    <3> QED BY <3>1, <3>2 DEF Matching
  <2>3. CASE j > Len(a)
    <3>1. (a \o b)[j] = b[j - Len(a)] BY SMTT(30), <1>3, <1>4, <2>1, <2>3
    <3>2. j - Len(a) \in 1..Len(b) BY <2>1, <2>3
    <3>3. b[j - Len(a)] = c[p + (j - Len(a))] BY Zenon, <3>2, <1>4
    <3>4. p + (j - Len(a)) \in 1..Len(c) BY <3>2, <1>2, <1>4
    <3> QED BY <3>1, <3>3, <3>4 DEF Matching
  <2> QED BY <2>1, <2>2, <2>3
<1>7. << c[p] >> \in Seq(Pairs) /\ Len(<< c[p] >>) = 1 /\ << c[p] >>[1] = c[p] OBVIOUS
<1> DEFINE s == a \o b
<1> HIDE DEF s
<1>8. s \in Seq(Pairs) /\ \A j \in 1..Len(s) : s[j][1] = s[j][2] BY <1>5, <1>6 DEF s
<1>9. Touched(c, i) = << c[p] >> \o s BY <1>1 DEF Touched, Without, a, b, s
<1>10. << c[p] >> \o s \in Seq(Pairs) BY <1>7, <1>8
<1>11. \A j \in 1..Len(<< c[p] >> \o s) :
          (<< c[p] >> \o s)[j] = IF j = 1 THEN c[p] ELSE s[j - 1]
  BY <1>7, <1>8
<1>12. Len(<< c[p] >> \o s) = 1 + Len(s) /\ Len(s) \in Nat BY <1>7, <1>8
<1>13. ASSUME NEW j \in 1..Len(<< c[p] >> \o s)
       PROVE  (<< c[p] >> \o s)[j][1] = (<< c[p] >> \o s)[j][2]
  <2>1. CASE j = 1 BY <2>1, <1>11 DEF Matching
  <2>2. CASE j # 1
    <3>1. j - 1 \in 1..Len(s) BY <2>2, <1>12
    <3> QED BY <2>2, <3>1, <1>8, <1>11
  <2> QED BY <2>1, <2>2
<1> QED BY <1>9, <1>10, <1>13 DEF Matching

LEMMA InsertedOK ==
    ASSUME NEW c \in Seq(Pairs), NEW i \in Nat, Matching(c), Capacity \in Nat \ {0}
    PROVE  Inserted(c, i, i) \in Seq(Pairs) /\ Matching(Inserted(c, i, i))
<1>1. CASE Has(c, i)
  <2>1. PICK p \in 1..Len(c) : p = Pos(c, i) BY <1>1 DEF Has, Pos
  <2>2. Inserted(c, i, i) = [c EXCEPT ![p] = << i, i >>] BY <1>1, <2>1 DEF Inserted
  <2>3. [c EXCEPT ![p] = << i, i >>] \in Seq(Pairs) BY <2>1, SeqExcept DEF Pairs
  <2>4. Len([c EXCEPT ![p] = << i, i >>]) = Len(c) BY <2>1, SeqExcept DEF Pairs
  <2> QED BY <2>2, <2>3, <2>4 DEF Matching
<1>2. CASE ~Has(c, i)
  <2> DEFINE s == Evicted(c)
  <2>1. s \in Seq(Pairs) /\ Len(s) \in Nat /\ Len(s) <= Len(c) /\ \A j \in 1..Len(s) : s[j] = c[j]
    BY SeqLen DEF Evicted
  <2>2. \A j \in 1..Len(s) : s[j][1] = s[j][2] BY <2>1, SeqLen DEF Matching
  <2> HIDE DEF s
  <2>3. << << i, i >> >> \in Seq(Pairs) /\ Len(<< << i, i >> >>) = 1 BY DEF Pairs
  <2>4. << << i, i >> >> \o s \in Seq(Pairs) BY <2>1, <2>3
  <2>5. /\ Len(<< << i, i >> >> \o s) = 1 + Len(s)
        /\ \A j \in 1..(1 + Len(s)) :
              (<< << i, i >> >> \o s)[j] = IF j = 1 THEN << i, i >> ELSE s[j - 1]
    BY <2>1, <2>3
  <2>6. ASSUME NEW j \in 1..(1 + Len(s))
        PROVE  (<< << i, i >> >> \o s)[j][1] = (<< << i, i >> >> \o s)[j][2]
    <3>1. CASE j = 1 BY <3>1, <2>5
    <3>2. CASE j # 1
      <4>1. j - 1 \in 1..Len(s) BY <3>2, <2>1
      <4> QED BY <3>2, <4>1, <2>2, <2>5
    <3> QED BY <3>1, <3>2
  <2>7. Inserted(c, i, i) = << << i, i >> >> \o s BY <1>2 DEF Inserted, s
  <2> QED BY <2>4, <2>5, <2>6, <2>7 DEF Matching
<1> QED BY <1>1, <1>2

----------------------------------------------------------------------------
(* Types.                                                                  *)

\* Where a request has nothing to do with a session, where it opens one, and where it
\* sends something.
Quiet == {"idle", "readIndexKey", "lock", "look", "relock", "setIndexKey", "failed"}
Opening == {"estOpen", "estBind", "estReset"}
Sending == {"sealID", "sealSeq", "send"}
Engaged == {"wait", "derive", "receive"} \union Opening \union Sending

Locs == [op : {"none", "block", "name", "index"}, i : Nat, retried : BOOLEAN,
         back : {"none", "look", "relock", "wait", "derive"}, todo : Seq(Batches),
         keys : SUBSET Pairs, id : Nat, seq : Nat, ce : Pairs, got : BOOLEAN, fault : BOOLEAN]
Answers == [s : Nat, seq : Nat, start : Nat, count : Int]

ClientOK ==
    /\ mu \in Threads \union {Nobody}
    /\ cache \in Seq(Pairs) /\ nameCache \in Seq(Pairs)
    /\ ceSeq \in Seq(Nat) /\ session \in 0..Len(ceSeq)
    /\ env \in [id : Nat, seq : Nat]
PeersOK ==
    /\ opened \in Nat
    /\ DOMAIN ks \subseteq 1..opened /\ \A s \in DOMAIN ks : ks[s] \in Nat
    /\ DOMAIN card \subseteq 1..Len(ceSeq) /\ \A s \in DOMAIN card : card[s] \in 0..ceSeq[s]
    /\ \A a \in answers : a \in Answers /\ a.s \in 1..Len(ceSeq) /\ a.seq < ceSeq[a.s]
    /\ wipe \in {"no", "closed", "done"} /\ setting \in Settings
ThreadsOK ==
    /\ pc \in [Threads -> Quiet \union Engaged] /\ loc \in [Threads -> Locs]
TypeOK == ClientOK /\ PeersOK /\ ThreadsOK

----------------------------------------------------------------------------
(* The keys.                                                               *)

Commanding(t) == pc[t] = "receive" \/ (pc[t] \in Sending /\ loc[t].ce[1] # 0)
\* Who needs Client.mu.  A request that opens a session may have dropped it, once Wipe
\* has run.
Holds(t) ==
    \/ pc[t] \in {"wait", "derive"} \/ Commanding(t)
    \/ pc[t] \in Engaged /\ (wipe # "done" \/ loc[t].back = "wait")

\* A command has a sequence number of its own, so that the answer to it is the only one
\* that OpenCEResponse accepts.
CommandOK(t) ==
    LET s == loc[t].ce[1]
        n == loc[t].ce[2]
    IN  /\ s \in 1..Len(ceSeq) /\ loc[t].todo # << >> /\ n <= ceSeq[s]
        /\ pc[t] # "receive" /\ n <= SeqMax =>
              ceSeq[s] = n + 1 /\ \A a \in answers : a.s = s => a.seq # n
        /\ pc[t] = "receive" =>
              \A a \in answers : a.s = s /\ a.seq = n => a.start = loc[t].todo[1][1]
        /\ pc[t] \in Sending /\ s \in DOMAIN card => n >= card[s]

KeyOK(t) ==
    /\ Holds(t) => mu = t
    /\ pc[t] = "derive" \/ Commanding(t) => session # 0
    /\ pc[t] \in Opening \/ (pc[t] \in Sending /\ loc[t].ce[1] = 0) =>
          loc[t].back \in {"look", "relock", "wait"}
    /\ Commanding(t) => CommandOK(t)
    /\ \A e \in loc[t].keys : e[1] = e[2]

KeysInv ==
    /\ TypeOK /\ Matching(cache) /\ Matching(nameCache)
    /\ wipe # "done" => session # 0
    /\ \A t \in Threads : KeyOK(t)

LEMMA KeysInitOK == Init => KeysInv
<1> SUFFICES ASSUME Init PROVE KeysInv OBVIOUS
<1>1. << >> \in Seq(Pairs) /\ << 0 >> \in Seq(Nat) /\ Len(<< 0 >>) = 1 /\ << 0 >>[1] = 0
  BY SeqEmpty
<1>2. NoLoc \in Locs /\ NoLoc.keys = {} BY <1>1 DEF NoLoc, Locs, Pairs
<1>3. ClientOK BY <1>1 DEF Init, ClientOK
<1>4. PeersOK BY <1>1 DEF Init, PeersOK
<1>5. ThreadsOK BY <1>2 DEF Init, ThreadsOK, Quiet, Engaged
<1>6. \A t \in Threads : pc[t] = "idle" /\ loc[t].keys = {} BY <1>2 DEF Init
<1>7. \A t \in Threads : KeyOK(t)
  BY <1>6 DEF KeyOK, Holds, Commanding, Engaged, Opening, Sending
<1> QED BY <1>3, <1>4, <1>5, <1>7 DEF Init, KeysInv, TypeOK, Matching

\* The lock stays with whoever has it.
Fair(t) == mu' = mu \/ (mu = Nobody /\ mu' = t) \/ (mu = t /\ mu' = Nobody)

\* A step of one thread that leaves the sessions alone.
LEMMA LocalStepOK ==
    ASSUME KeysInv, NEW t \in Threads, NEW l \in Quiet \union Engaged, NEW r \in Locs,
           Goto(t, l), SetLoc(t, r), Fair(t),
           UNCHANGED << session, ceSeq, card, answers, wipe, setting >>,
           ClientOK', PeersOK', Matching(cache)', Matching(nameCache)', KeyOK(t)'
    PROVE  KeysInv'
<1>1. ThreadsOK' BY DEF KeysInv, TypeOK, ThreadsOK, Goto, SetLoc
<1>2. ASSUME NEW u \in Threads, u # t PROVE KeyOK(u)'
  <2>1. pc'[u] = pc[u] /\ loc'[u] = loc[u] BY <1>2 DEF KeysInv, TypeOK, ThreadsOK, Goto, SetLoc
  <2>2. KeyOK(u) BY DEF KeysInv
  <2>3. mu = u => mu' = u
    BY <1>2, ExternalKeysAssumption DEF Fair
  <2>4. Holds(u)' = Holds(u) /\ Commanding(u)' = Commanding(u)
    BY <2>1 DEF Holds, Commanding
  <2>5. CommandOK(u) => CommandOK(u)' BY <2>1 DEF CommandOK
  <2> QED BY <2>1, <2>2, <2>3, <2>4, <2>5 DEF KeyOK
<1> QED BY <1>1, <1>2 DEF KeysInv, TypeOK

\* A step into a place where the request has nothing to do with a session.
LEMMA QuietStepOK ==
    ASSUME KeysInv, NEW t \in Threads, NEW l \in Quiet, NEW r \in Locs,
           r.keys \subseteq loc[t].keys, Goto(t, l), SetLoc(t, r), Fair(t),
           UNCHANGED << session, ceSeq, env, opened, card, answers, wipe, setting >>, PeersOK',
           cache' \in Seq(Pairs), nameCache' \in Seq(Pairs), Matching(cache'), Matching(nameCache')
    PROVE  KeysInv'
<1>1. ClientOK' BY DEF KeysInv, TypeOK, ClientOK, Fair
<1>2. pc'[t] = l /\ loc'[t] = r BY DEF KeysInv, TypeOK, ThreadsOK, Goto, SetLoc
<1>3. KeyOK(t)'
  <2>1. l \notin Engaged BY DEF Quiet, Engaged, Opening, Sending
  <2>2. KeyOK(t) BY DEF KeysInv
  <2> QED BY <1>2, <2>1, <2>2 DEF KeyOK, Holds, Commanding, Engaged
<1> QED BY <1>1, <1>3, LocalStepOK DEF Matching

LEMMA NoLocOK == NoLoc \in Locs /\ NoLoc.keys = {}
BY SeqEmpty DEF NoLoc, Locs, Pairs

\* The request ends, with a key or an error.
LEMMA ReturnOK ==
    ASSUME KeysInv, NEW t \in Threads, Return(t) \/ \E f \in BOOLEAN : Fail(t, f),
           UNCHANGED << session, ceSeq, env, opened, card, answers, wipe, setting,
                        cache, nameCache >>, PeersOK'
    PROVE  KeysInv'
<1>1. loc[t] \in Locs BY DEF KeysInv, TypeOK, ThreadsOK
<1>2. Fair(t) BY Zenon DEF Return, Fail, Unlock, Fair
<1>3. cache' \in Seq(Pairs) /\ nameCache' \in Seq(Pairs) /\ Matching(cache') /\ Matching(nameCache')
  BY DEF KeysInv, TypeOK, ClientOK
<1>4. CASE Return(t)
  BY <1>2, <1>3, <1>4, NoLocOK, QuietStepOK DEF Return, Quiet
<1>5. CASE \E f \in BOOLEAN : Fail(t, f)
  <2>1. PICK f \in BOOLEAN : Fail(t, f) BY <1>5
  <2> DEFINE r == [NoLoc EXCEPT !.op = loc[t].op, !.fault = loc[t].fault \/ f]
  <2>2. r \in Locs /\ r.keys = {} BY ZenonT(30), <1>1, NoLocOK DEF Locs
  <2>3. Goto(t, "failed") /\ SetLoc(t, r) BY Zenon, <2>1 DEF Fail
  <2> HIDE DEF r
  <2> QED BY <1>2, <1>3, <2>2, <2>3, QuietStepOK DEF Quiet
<1> QED BY <1>4, <1>5

LEMMA PeersSame ==
    ASSUME KeysInv, UNCHANGED << ceSeq, ks, opened, card, answers, wipe, setting >>
    PROVE  PeersOK'
BY DEF KeysInv, TypeOK, PeersOK

\* The key is in the cache.
LEMMA FoundOK ==
    ASSUME KeysInv, NEW t \in Threads, InCache(t), Found(t), mu = Nobody,
           UNCHANGED << ceSeq, env, peerVars, wipe, setting >>
    PROVE  KeysInv'
<1>1. loc[t] \in Locs /\ loc[t].i \in Nat /\ loc = [loc EXCEPT ![t] = loc[t]]
  BY DEF KeysInv, TypeOK, ThreadsOK, Locs
<1>2. mu' = mu BY ExternalKeysAssumption DEF Found, Unlock
<1>3. cache' \in Seq(Pairs) /\ nameCache' \in Seq(Pairs) /\ Matching(cache') /\ Matching(nameCache')
  <2>1. CASE loc[t].op = "name"
    BY <1>1, <2>1, TouchedOK DEF Found, TouchCache, InCache, KeysInv, TypeOK, ClientOK
  <2>2. CASE loc[t].op # "name"
    BY <1>1, <2>2, TouchedOK DEF Found, TouchCache, InCache, KeysInv, TypeOK, ClientOK
  <2> QED BY <2>1, <2>2
<1>4. PeersOK' /\ Fair(t) BY <1>2, PeersSame DEF peerVars, Fair
<1>5. CASE loc[t].op = "index"
  <2>1. Goto(t, "setIndexKey") /\ SetLoc(t, loc[t]) BY <1>1, <1>5 DEF Found, SetLoc
  <2> QED BY <1>1, <1>3, <1>4, <2>1, QuietStepOK DEF Found, Quiet, peerVars
<1>6. CASE loc[t].op # "index"
  <2>1. Goto(t, "idle") /\ SetLoc(t, NoLoc) BY <1>6 DEF Found
  <2> QED BY <1>3, <1>4, <2>1, NoLocOK, QuietStepOK DEF Found, Quiet, peerVars
<1> QED BY <1>5, <1>6

\* An error while keys are fetched: once more, or the end.
LEMMA FetchFailedOK ==
    ASSUME KeysInv, NEW t \in Threads, NEW f \in BOOLEAN, FetchFailed(t, f), mu = t,
           UNCHANGED << session, ceSeq, env, opened, card, answers, wipe, setting,
                        cache, nameCache >>, PeersOK'
    PROVE  KeysInv'
<1>1. CASE loc[t].retried BY <1>1, ReturnOK DEF FetchFailed
<1>2. CASE ~loc[t].retried
  <2> DEFINE r == [loc[t] EXCEPT !.retried = TRUE, !.back = "wait", !.fault = @ \/ f,
                                 !.todo = << >>, !.keys = {}]
  <2>0. loc[t] \in Locs BY DEF KeysInv, TypeOK, ThreadsOK
  <2>1. r \in Locs /\ r.back = "wait" /\ r.keys = {} BY Zenon, <2>0, SeqEmpty DEF Locs
  <2>2. Goto(t, "estOpen") /\ SetLoc(t, r) /\ mu' = mu BY <1>2 DEF FetchFailed
  <2> HIDE DEF r
  <2>3. pc'[t] = "estOpen" /\ loc'[t] = r
    BY <2>2 DEF KeysInv, TypeOK, ThreadsOK, Goto, SetLoc
  <2>4. KeyOK(t)' BY <2>1, <2>2, <2>3 DEF KeyOK, Commanding, Sending
  <2>5. ClientOK' /\ Matching(cache)' /\ Matching(nameCache)' /\ Fair(t)
    BY <2>2 DEF KeysInv, TypeOK, ClientOK, Matching, Fair
  <2> QED BY <2>1, <2>2, <2>4, <2>5, LocalStepOK DEF Engaged, Opening
<1> QED BY <1>1, <1>2

\* Any error of a relay.
LEMMA RelayFailedOK ==
    ASSUME KeysInv, NEW t \in Threads, NEW f \in BOOLEAN, RelayFailed(t, f), pc[t] \in Sending,
           UNCHANGED << session, ceSeq, env, ks, opened, card, answers, wipe, setting,
                        cache, nameCache >>
    PROVE  KeysInv'
<1>1. PeersOK' BY PeersSame
<1>2. CASE Handshake(t) BY <1>1, <1>2, ReturnOK DEF RelayFailed
<1>3. CASE ~Handshake(t)
  <2>1. mu = t BY <1>3 DEF KeysInv, KeyOK, Holds, Commanding, Handshake
  <2> QED BY <1>1, <1>3, <2>1, FetchFailedOK DEF RelayFailed
<1> QED BY <1>2, <1>3

----------------------------------------------------------------------------
(* The steps, up to the lock.                                              *)

LEMMA KeysRequestOK ==
    ASSUME KeysInv, NEW t \in Threads, Request(t), UNCHANGED setting
    PROVE  KeysInv'
<1>1. PICK op \in {"block", "name", "index"}, i \in Nat : Begin(t, op, i)
  BY ExternalKeysAssumption DEF Request, KeysInv, TypeOK, PeersOK
<1> DEFINE r == [NoLoc EXCEPT !.op = op, !.i = i]
<1>2. r \in Locs /\ r.keys = {} BY Zenon, NoLocOK DEF Locs
<1>3. SetLoc(t, r) /\ Goto(t, IF op = "index" THEN "readIndexKey" ELSE "lock")
  BY <1>1 DEF Begin
<1> HIDE DEF r
<1>4. PeersOK' BY <1>1, PeersSame DEF Begin, clientVars, peerVars
<1>5. cache' \in Seq(Pairs) /\ nameCache' \in Seq(Pairs) /\ Matching(cache') /\ Matching(nameCache')
  BY <1>1 DEF Begin, clientVars, KeysInv, TypeOK, ClientOK
<1>6. Fair(t) BY <1>1 DEF Begin, clientVars, Fair
<1> QED
  BY <1>1, <1>2, <1>3, <1>4, <1>5, <1>6, QuietStepOK DEF Begin, clientVars, peerVars, Quiet

LEMMA ReadIndexKeyOK ==
    ASSUME KeysInv, NEW t \in Threads, ReadIndexKey(t), UNCHANGED setting
    PROVE  KeysInv'
<1> USE DEF ReadIndexKey, peerVars
<1>1. PeersOK' BY PeersSame
<1>2. loc[t] \in Locs /\ loc = [loc EXCEPT ![t] = loc[t]] BY DEF KeysInv, TypeOK, ThreadsOK
<1>3. CASE indexKey # {} BY <1>1, <1>3, ReturnOK
<1>4. CASE indexKey = {}
  <2>1. SetLoc(t, loc[t]) /\ Goto(t, "lock") /\ Fair(t) BY <1>2, <1>4 DEF SetLoc, Fair
  <2>2. cache' \in Seq(Pairs) /\ nameCache' \in Seq(Pairs) /\ Matching(cache') /\ Matching(nameCache')
    BY DEF KeysInv, TypeOK, ClientOK
  <2> QED BY <1>1, <1>2, <2>1, <2>2, QuietStepOK DEF Quiet
<1> QED BY <1>3, <1>4

\* The lock, for the rest of the request.
LEMMA LockOK ==
    ASSUME KeysInv, NEW t \in Threads, Lock(t), Goto(t, "wait"),
           UNCHANGED << session, cache, nameCache, loc, env, ceSeq, peerVars, wipe, setting >>
    PROVE  KeysInv'
<1>1. loc[t] \in Locs /\ SetLoc(t, loc[t]) BY DEF KeysInv, TypeOK, ThreadsOK, SetLoc
<1>2. pc'[t] = "wait" /\ loc'[t] = loc[t] BY DEF KeysInv, TypeOK, ThreadsOK, Goto
<1>3. KeyOK(t)'
  <2>1. KeyOK(t) BY DEF KeysInv
  <2> QED BY <1>2, <2>1 DEF KeyOK, Holds, Commanding, Opening, Sending, Lock
<1>4. ClientOK' /\ PeersOK' /\ Matching(cache)' /\ Matching(nameCache)' /\ Fair(t)
  BY PeersSame DEF KeysInv, TypeOK, ClientOK, Matching, Fair, Lock, peerVars
<1> QED BY <1>1, <1>3, <1>4, LocalStepOK DEF Engaged, peerVars

LEMMA LookStepsOK ==
    ASSUME KeysInv, NEW t \in Threads, Look(t) \/ Relock(t), UNCHANGED setting
    PROVE  KeysInv'
<1>0. loc[t] \in Locs /\ loc = [loc EXCEPT ![t] = loc[t]] BY DEF KeysInv, TypeOK, ThreadsOK
<1>1. CASE InCache(t) BY <1>1, FoundOK DEF Look, Relock
<1>2. CASE Look(t) /\ ~InCache(t)
  <2>1. SetLoc(t, loc[t]) /\ Goto(t, "relock") /\ Fair(t) BY <1>0, <1>2 DEF Look, SetLoc, Fair
  <2>2. cache' \in Seq(Pairs) /\ nameCache' \in Seq(Pairs) /\ Matching(cache') /\ Matching(nameCache')
    BY <1>2 DEF Look, KeysInv, TypeOK, ClientOK
  <2>3. PeersOK' BY <1>2, PeersSame DEF Look, peerVars
  <2> QED BY <1>0, <1>2, <2>1, <2>2, <2>3, QuietStepOK DEF Look, Quiet, peerVars
<1>3. CASE Relock(t) /\ ~InCache(t) BY <1>3, LockOK DEF Relock
<1> QED BY <1>1, <1>2, <1>3

LEMMA LockAndLookOK ==
    ASSUME KeysInv, NEW t \in Threads, LockAndLook(t), UNCHANGED setting
    PROVE  KeysInv'
<1> USE DEF LockAndLook, peerVars
<1>0. loc[t] \in Locs /\ loc = [loc EXCEPT ![t] = loc[t]] BY DEF KeysInv, TypeOK, ThreadsOK
<1>1. CASE Found(t) /\ InCache(t) BY <1>1, FoundOK
<1>2. CASE /\ session = 0 /\ clearCacheLocked /\ UNCHANGED << mu, session >>
           /\ Goto(t, "estOpen")
           /\ SetLoc(t, [loc[t] EXCEPT !.back = IF loc[t].op = "block" THEN "look" ELSE "relock"])
  <2> DEFINE r == [loc[t] EXCEPT !.back = IF loc[t].op = "block" THEN "look" ELSE "relock"]
  <2>1. r \in Locs /\ r.back \in {"look", "relock"} /\ r.keys = loc[t].keys BY <1>0 DEF Locs
  <2>2. pc'[t] = "estOpen" /\ loc'[t] = r
    BY <1>2 DEF KeysInv, TypeOK, ThreadsOK, Goto, SetLoc
  <2>3. SetLoc(t, r) BY <1>2
  <2> HIDE DEF r
  <2>4. wipe' = "done" BY <1>2 DEF KeysInv
  <2>5. KeyOK(t)'
    <3>1. KeyOK(t) BY DEF KeysInv
    <3> QED BY <2>1, <2>2, <2>4, <3>1 DEF KeyOK, Holds, Commanding, Opening, Sending
  <2>6. PeersOK' /\ Fair(t) BY <1>2, PeersSame DEF Fair
  <2>7. ClientOK' /\ Matching(cache)' /\ Matching(nameCache)'
    BY <1>2, SeqEmpty DEF clearCacheLocked, KeysInv, TypeOK, ClientOK, Matching
  <2> QED BY <1>2, <2>1, <2>3, <2>5, <2>6, <2>7, LocalStepOK DEF Engaged, Opening
<1>3. CASE /\ Goto(t, "relock") /\ UNCHANGED << mu, session, cache, nameCache, indexKey, loc >>
  <2>1. SetLoc(t, loc[t]) /\ Fair(t) BY <1>0, <1>3 DEF SetLoc, Fair
  <2>2. cache' \in Seq(Pairs) /\ nameCache' \in Seq(Pairs) /\ Matching(cache') /\ Matching(nameCache')
    BY <1>3 DEF KeysInv, TypeOK, ClientOK
  <2>3. PeersOK' BY PeersSame
  <2> QED BY <1>0, <1>3, <2>1, <2>2, <2>3, QuietStepOK DEF Quiet
<1>4. CASE /\ Lock(t) /\ Goto(t, "wait") /\ UNCHANGED << session, cache, nameCache, indexKey, loc >>
  BY <1>4, LockOK
<1> QED BY <1>1, <1>2, <1>3, <1>4

----------------------------------------------------------------------------
(* The steps with the lock.                                                *)

LEMMA OthersOutside ==
    ASSUME KeysInv, NEW t \in Threads, mu = t, NEW u \in Threads, u # t
    PROVE  ~Holds(u)
BY DEF KeysInv, KeyOK

\* A step of the thread that holds the lock may change the sessions.
LEMMA HolderStepOK ==
    ASSUME KeysInv, NEW t \in Threads, NEW l \in Quiet \union Engaged, NEW r \in Locs,
           mu = t, Goto(t, l), SetLoc(t, r), wipe' = wipe, session' = session,
           ClientOK', PeersOK', Matching(cache)', Matching(nameCache)', KeyOK(t)'
    PROVE  KeysInv'
<1>1. ThreadsOK' BY DEF KeysInv, TypeOK, ThreadsOK, Goto, SetLoc
<1>2. ASSUME NEW u \in Threads, u # t PROVE KeyOK(u)'
  <2>1. pc'[u] = pc[u] /\ loc'[u] = loc[u] BY <1>2 DEF KeysInv, TypeOK, ThreadsOK, Goto, SetLoc
  <2>2. KeyOK(u) /\ ~Holds(u) BY <1>2, OthersOutside DEF KeysInv
  <2>3. ~Holds(u)' /\ Commanding(u)' = Commanding(u) BY <2>1, <2>2 DEF Holds, Commanding
  <2>4. ~Commanding(u) /\ pc[u] # "derive" BY <2>2 DEF Holds
  <2> QED BY <2>1, <2>2, <2>3, <2>4 DEF KeyOK
<1> QED BY <1>1, <1>2 DEF KeysInv, TypeOK

\* A plan is a sequence of batches.
LEMMA PlanOK ==
    ASSUME NEW start \in Nat, NEW count \in Nat \ {0}
    PROVE  planKeyBatches(start, count) \in Seq(Batches)
<1> DEFINE n == (count + MaxBlockKeyBatch - 1) \div MaxBlockKeyBatch
<1>0. MaxBlockKeyBatch \in Nat \ {0} BY ExternalKeysAssumption
<1>1. n \in Nat BY <1>0
<1> HIDE DEF n
<1>2. ASSUME NEW j \in 1..n
      PROVE  << start + (j - 1) * MaxBlockKeyBatch,
                IF count - (j - 1) * MaxBlockKeyBatch > MaxBlockKeyBatch THEN MaxBlockKeyBatch
                ELSE count - (j - 1) * MaxBlockKeyBatch >> \in Batches
  <2>1. (j - 1) * MaxBlockKeyBatch \in Nat BY <1>0, <1>1
  <2> QED BY <2>1, <1>0 DEF Batches
<1>3. planKeyBatches(start, count) \in [1..n -> Batches]
  BY <1>2 DEF planKeyBatches, n
<1> QED BY <1>1, <1>3, SeqFunction

LEMMA WaitForKeysOK ==
    ASSUME KeysInv, NEW t \in Threads, WaitForKeys(t), UNCHANGED setting
    PROVE  KeysInv'
<1> USE DEF WaitForKeys, clientVars, peerVars
<1>0. loc[t] \in Locs /\ loc[t].i \in Nat BY DEF KeysInv, TypeOK, ThreadsOK, Locs
<1>1. mu = t BY DEF KeysInv, KeyOK, Holds
<1>2. ClientOK' /\ PeersOK' /\ Matching(cache)' /\ Matching(nameCache)'
  BY PeersSame DEF KeysInv, TypeOK, ClientOK, Matching
<1>3. CASE session = 0
  <2> DEFINE r == [loc[t] EXCEPT !.back = "wait"]
  <2>1. r \in Locs /\ r.keys = loc[t].keys /\ r.back = "wait" BY <1>0 DEF Locs
  <2>2. SetLoc(t, r) /\ Goto(t, "estOpen") BY <1>3
  <2>3. pc'[t] = "estOpen" /\ loc'[t] = r
    BY <2>2 DEF KeysInv, TypeOK, ThreadsOK, Goto, SetLoc
  <2> HIDE DEF r
  <2>4. KeyOK(t)'
    <3>1. KeyOK(t) BY DEF KeysInv
    <3> QED BY <1>1, <2>1, <2>3, <3>1 DEF KeyOK, Commanding, Sending
  <2> QED BY <1>1, <1>2, <2>1, <2>2, <2>4, HolderStepOK DEF Engaged, Opening
<1>4. CASE session # 0
  <2> DEFINE r == [loc[t] EXCEPT !.todo = Plan(t), !.keys = {}]
  <2>0. Plan(t) \in Seq(Batches)
    <3>1. KeyCount(loc[t].op) \in Nat \ {0} BY ExternalKeysAssumption DEF KeyCount
    <3> QED BY <1>0, <3>1, PlanOK DEF Plan
  <2>1. r \in Locs /\ r.keys = {} BY Zenon, <1>0, <2>0 DEF Locs
  <2>2. SetLoc(t, r) /\ Goto(t, "derive") BY <1>4
  <2>3. pc'[t] = "derive" /\ loc'[t] = r
    BY <2>2 DEF KeysInv, TypeOK, ThreadsOK, Goto, SetLoc
  <2> HIDE DEF r
  <2>4. KeyOK(t)' BY <1>1, <1>4, <2>1, <2>3 DEF KeyOK, Commanding, Opening, Sending
  <2> QED BY <1>1, <1>2, <2>1, <2>2, <2>4, HolderStepOK DEF Engaged
<1> QED BY <1>3, <1>4

LEMMA DeriveBlockKeysOK ==
    ASSUME KeysInv, NEW t \in Threads, DeriveBlockKeys(t), UNCHANGED setting
    PROVE  KeysInv'
<1> DEFINE n == ceSeq[session]
           r == [loc[t] EXCEPT !.ce = << session, n >>, !.back = "derive"]
<1>0. loc[t] \in Locs /\ KeyOK(t) /\ mu = t /\ pc[t] = "derive"
  BY DEF KeysInv, TypeOK, ThreadsOK, KeyOK, Holds, DeriveBlockKeys
<1>1. session \in 1..Len(ceSeq) /\ n \in Nat /\ ceSeq \in Seq(Nat)
  BY <1>0 DEF KeyOK, KeysInv, TypeOK, ClientOK
<1>2. /\ ceSeq' \in Seq(Nat) /\ Len(ceSeq') = Len(ceSeq)
      /\ \A s \in 1..Len(ceSeq) : ceSeq'[s] >= ceSeq[s]
      /\ n <= ceSeq'[session] /\ (n <= SeqMax => ceSeq'[session] = n + 1)
  <2>1. (IF n > SeqMax THEN n ELSE n + 1) \in Nat BY <1>1
  <2>2. ceSeq' = [ceSeq EXCEPT ![session] = IF n > SeqMax THEN n ELSE n + 1]
    BY DEF DeriveBlockKeys
  <2>3. /\ ceSeq' \in Seq(Nat) /\ Len(ceSeq') = Len(ceSeq)
        /\ \A s \in 1..Len(ceSeq) : ceSeq'[s] = IF s = session THEN IF n > SeqMax THEN n ELSE n + 1
                                                ELSE ceSeq[s]
    BY <1>1, <2>1, <2>2, SeqExcept
  <2>4. SeqMax \in Nat BY ExternalKeysAssumption
  <2> QED BY SMTT(30), <1>1, <2>3, <2>4
<1>3. r \in Locs /\ r.keys = loc[t].keys /\ r.ce = << session, n >> /\ r.todo = loc[t].todo
  <2>1. << session, n >> \in Pairs BY <1>1, SeqLen DEF Pairs
  <2> QED BY Zenon, <1>0, <2>1 DEF Locs
<1>4. /\ SetLoc(t, r) /\ Goto(t, "sealID") /\ loc[t].todo # << >>
      /\ UNCHANGED << mu, session, cache, nameCache, env, opened, ks, card, answers, wipe >>
  BY DEF DeriveBlockKeys, peerVars
<1>5. pc'[t] = "sealID" /\ loc'[t] = r
  BY <1>4 DEF KeysInv, TypeOK, ThreadsOK, Goto, SetLoc
<1> HIDE DEF r, n
<1>6. ClientOK' /\ Matching(cache)' /\ Matching(nameCache)'
  BY <1>1, <1>2, <1>4 DEF KeysInv, TypeOK, ClientOK, Matching
<1>7. PeersOK'
  <2>1. \A s \in DOMAIN card : card[s] \in 0..ceSeq'[s]
    <3> SUFFICES ASSUME NEW s \in DOMAIN card PROVE card[s] \in 0..ceSeq'[s] OBVIOUS
    <3>1. s \in 1..Len(ceSeq) /\ card[s] \in 0..ceSeq[s] BY DEF KeysInv, TypeOK, PeersOK
    <3> QED BY SMTT(30), <1>1, <1>2, <3>1
  <2>2. \A a \in answers : a.seq < ceSeq'[a.s]
    <3> SUFFICES ASSUME NEW a \in answers PROVE a.seq < ceSeq'[a.s] OBVIOUS
    <3>1. a.s \in 1..Len(ceSeq) /\ a.seq < ceSeq[a.s] /\ a.seq \in Nat
      BY DEF KeysInv, TypeOK, PeersOK, Answers
    <3> QED BY SMTT(30), <1>1, <1>2, <3>1
  <2> QED BY <1>2, <1>4, <2>1, <2>2 DEF KeysInv, TypeOK, PeersOK
<1>8. KeyOK(t)'
  <2>1. CommandOK(t)'
    <3>1. \A a \in answers : a.s = session => a.seq # n
      BY <1>1 DEF KeysInv, TypeOK, PeersOK, Answers, n
    <3>2. session \in DOMAIN card => n >= card[session]
      BY <1>1 DEF KeysInv, TypeOK, PeersOK, n
    <3>3. loc'[t].ce[1] = session /\ loc'[t].ce[2] = n /\ loc'[t].todo # << >>
      BY <1>3, <1>4, <1>5
    <3>4. session \in 1..Len(ceSeq') /\ n <= ceSeq'[session] /\ (n <= SeqMax => ceSeq'[session] = n + 1)
      BY <1>1, <1>2
    <3>5. pc'[t] # "receive" /\ answers' = answers /\ card' = card BY Zenon, <1>4, <1>5
    <3> QED BY Zenon, <3>1, <3>2, <3>3, <3>4, <3>5 DEF CommandOK
  <2> QED BY SMTT(30), <1>0, <1>1, <1>3, <1>4, <1>5, <2>1 DEF KeyOK, Opening
<1> QED BY <1>0, <1>3, <1>4, <1>6, <1>7, <1>8, HolderStepOK DEF Engaged, Sending

LEMMA StoreKeyOK ==
    ASSUME KeysInv, NEW t \in Threads, StoreKey(t), UNCHANGED setting
    PROVE  KeysInv'
<1>0. loc[t] \in Locs /\ KeyOK(t) /\ mu = t
  BY DEF StoreKey, KeysInv, TypeOK, ThreadsOK, KeyOK, Holds
<1>1. PICK e \in ToStore(t) :
         /\ IF loc[t].op = "name"
            THEN nameCache' = Inserted(nameCache, e[1], e[2]) /\ UNCHANGED cache
            ELSE cache' = Inserted(cache, e[1], e[2]) /\ UNCHANGED nameCache
         /\ SetLoc(t, [loc[t] EXCEPT !.keys = @ \ {e}, !.got = @ \/ e[1] = loc[t].i])
  BY ZenonT(30) DEF StoreKey
<1>2. e \in loc[t].keys /\ e[1] \in Nat /\ e[2] = e[1]
  BY <1>0 DEF ToStore, KeyOK, Locs, Pairs
<1> DEFINE r == [loc[t] EXCEPT !.keys = @ \ {e}, !.got = @ \/ e[1] = loc[t].i]
<1>3. r \in Locs /\ r.keys \subseteq loc[t].keys BY Zenon, <1>0 DEF Locs
<1>4. SetLoc(t, r) /\ Goto(t, "derive")
  BY <1>1 DEF StoreKey, Goto, KeysInv, TypeOK, ThreadsOK
<1>5. pc'[t] = "derive" /\ loc'[t] = r BY <1>4 DEF KeysInv, TypeOK, ThreadsOK, Goto, SetLoc
<1> HIDE DEF r
<1>6. cache' \in Seq(Pairs) /\ nameCache' \in Seq(Pairs) /\ Matching(cache') /\ Matching(nameCache')
  <2>1. Capacity \in Nat \ {0} BY ExternalKeysAssumption
  <2>2. CASE loc[t].op = "name"
    BY Zenon, <1>1, <1>2, <2>1, <2>2, InsertedOK DEF KeysInv, TypeOK, ClientOK
  <2>3. CASE loc[t].op # "name"
    BY Zenon, <1>1, <1>2, <2>1, <2>3, InsertedOK DEF KeysInv, TypeOK, ClientOK
  <2> QED BY <2>2, <2>3
<1>7. ClientOK' /\ PeersOK' /\ Matching(cache)' /\ Matching(nameCache)'
  BY <1>6, PeersSame DEF StoreKey, peerVars, KeysInv, TypeOK, ClientOK, Matching
<1>8. KeyOK(t)'
  BY <1>0, <1>3, <1>5 DEF StoreKey, KeyOK, Commanding, Opening, Sending
<1> QED BY <1>0, <1>3, <1>4, <1>7, <1>8, HolderStepOK DEF StoreKey, Engaged

LEMMA KeysStoredOK ==
    ASSUME KeysInv, NEW t \in Threads, KeysStored(t) \/ SetIndexKey(t) \/ ReportError(t),
           UNCHANGED setting
    PROVE  KeysInv'
<1>0. loc[t] \in Locs /\ loc = [loc EXCEPT ![t] = loc[t]] BY DEF KeysInv, TypeOK, ThreadsOK
<1>1. PeersOK' BY Zenon, PeersSame DEF KeysStored, SetIndexKey, ReportError, clientVars, peerVars
<1>2. UNCHANGED << session, ceSeq, env, opened, card, answers, wipe, setting, cache, nameCache >>
  BY Zenon DEF KeysStored, SetIndexKey, ReportError, clientVars, peerVars
<1>3. cache' \in Seq(Pairs) /\ nameCache' \in Seq(Pairs) /\ Matching(cache') /\ Matching(nameCache')
  BY <1>2 DEF KeysInv, TypeOK, ClientOK
<1>4. CASE Return(t) \/ Fail(t, FALSE) BY Zenon, <1>1, <1>2, <1>4, ReturnOK
<1>5. CASE Goto(t, "setIndexKey") /\ Unlock(t) /\ UNCHANGED loc
  <2>1. SetLoc(t, loc[t]) /\ Fair(t) BY <1>0, <1>5 DEF SetLoc, Unlock, Fair
  <2> QED BY <1>0, <1>1, <1>2, <1>3, <1>5, <2>1, QuietStepOK DEF Quiet
<1>6. CASE ReportError(t)
  <2>1. Goto(t, "idle") /\ SetLoc(t, NoLoc) /\ Fair(t)
    BY <1>6 DEF ReportError, clientVars, Fair
  <2> QED BY <1>1, <1>2, <1>3, <2>1, NoLocOK, QuietStepOK DEF Quiet
<1> QED BY Zenon, <1>4, <1>5, <1>6 DEF KeysStored, SetIndexKey

----------------------------------------------------------------------------
(* Opening a session, with the lock or without, and the relay.             *)

LEMMA EstOpenOK ==
    ASSUME KeysInv, NEW t \in Threads, EstOpen(t), UNCHANGED setting
    PROVE  KeysInv'
<1>0. loc[t] \in Locs /\ KeyOK(t) BY DEF KeysInv, TypeOK, ThreadsOK
<1>1. CASE EstFailed(t) /\ UNCHANGED << opened, ks, tsid >>
  <2>1. PeersOK' BY <1>1, PeersSame DEF EstOpen
  <2>2. \E f \in BOOLEAN : Fail(t, f) BY Zenon, <1>1 DEF EstFailed
  <2> QED BY <1>1, <2>1, <2>2, ReturnOK DEF EstOpen
<1>2. CASE /\ opened' = opened + 1
           /\ ks' = [s \in DOMAIN ks \union {opened'} |-> IF s = opened' THEN 0 ELSE ks[s]]
           /\ Goto(t, "estBind") /\ SetLoc(t, [loc[t] EXCEPT !.id = opened']) /\ UNCHANGED mu
  <2> DEFINE r == [loc[t] EXCEPT !.id = opened']
  <2>1. opened' \in Nat /\ opened \in Nat BY <1>2 DEF KeysInv, TypeOK, PeersOK
  <2>2. r \in Locs /\ r.keys = loc[t].keys /\ r.back = loc[t].back BY <1>0, <2>1 DEF Locs
  <2>3. pc'[t] = "estBind" /\ loc'[t] = r
    BY <1>2 DEF KeysInv, TypeOK, ThreadsOK, Goto, SetLoc
  <2>4. SetLoc(t, r) BY <1>2
  <2> HIDE DEF r
  <2>5. KeyOK(t)'
    BY <1>0, <1>2, <2>2, <2>3
    DEF EstOpen, KeyOK, Holds, Commanding, Opening, Sending, Engaged
  <2>6. ClientOK' /\ Matching(cache)' /\ Matching(nameCache)' /\ Fair(t)
    BY <1>2 DEF EstOpen, KeysInv, TypeOK, ClientOK, Matching, Fair
  <2>7. PeersOK' BY <1>2, <2>1 DEF EstOpen, KeysInv, TypeOK, PeersOK
  <2> QED BY <1>2, <2>2, <2>4, <2>5, <2>6, <2>7, LocalStepOK DEF EstOpen, Engaged, Opening
<1> QED BY <1>1, <1>2 DEF EstOpen

=============================================================================

---------------------------- MODULE ExternalKeys -----------------------------
(***************************************************************************)
(* The external key client: goroutines ask for block, name and index keys, *)
(* which come from caches or from a smart card behind a key server (KS).   *)
(* A transport session with the KS and a card session carry sequence       *)
(* numbers; either can be lost at any time, and so can an answer; an old   *)
(* answer may come in place of the right one.  The key of index i is i.    *)
(***************************************************************************)
EXTENDS Lru, FiniteSets

CONSTANTS
    Threads, Nobody,
    Settings,                      \* the circumstances considered: records with the
                                   \* indices asked for as block keys, as name keys and
                                   \* through IndexKey, a bound on how often sessions
                                   \* get lost, and whether Wipe may run
    MaxBlockCount,                 \* keys fetched at a time
    MaxBlockKeyBatch,              \* keys the card derives per request
    MaxSessions,                   \* bound: sessions the KS can open
    MaxRelays,                     \* bound: relays per session before the KS is unreachable
    SeqMax                         \* last sequence number the card accepts

ASSUME ExternalKeysAssumption ==
    /\ {MaxBlockCount, MaxBlockKeyBatch, MaxSessions, Capacity} \subseteq Nat \ {0}
    /\ MaxRelays \in Nat /\ SeqMax \in Nat
    \* A new card session has numbers enough for the requests of one waitForKeys.
    /\ (MaxBlockCount + MaxBlockKeyBatch - 1) \div MaxBlockKeyBatch <= SeqMax + 1
    /\ Nobody \notin Threads
    /\ Settings \subseteq [block : SUBSET Nat, name : SUBSET Nat, index : SUBSET Nat,
                           breaks : Nat, wipes : BOOLEAN]

VARIABLES
    mu,         \* Client.mu: who holds it
    session,    \* Client.session: a card session, 0 for nil
    cache, nameCache,
    indexKey,   \* Client.indexKey: {} for nil, otherwise {the session at the time}
    tsid,       \* cardclient: transportSessionID, 0 for ""
    env,        \* TransportEnvelopeClient: [id, seq]
    ceSeq,      \* CardSession.sequence of the card sessions made so far
    ks,         \* KS: [id -> last sequence number seen] of the open sessions
    card,       \* card: [id -> next sequence number] of the live sessions
    answers,    \* the card's answers in its newest session: [s, seq, start, count]
    opened,     \* sessions opened so far
    breaks,     \* sessions lost so far
    wipe,       \* "no", "closed" (half-way), "done"
    pc, loc,    \* per thread
    setting     \* the circumstances of this behaviour; never changes

clientVars == << mu, session, cache, nameCache, indexKey, tsid, env, ceSeq >>
peerVars == << ks, card, answers, opened, breaks >>
vars == << clientVars, peerVars, wipe, pc, loc, setting >>

NoLoc == [op |-> "none", i |-> 0, retried |-> FALSE, back |-> "none", todo |-> << >>,
          keys |-> {}, id |-> 0, seq |-> 0, ce |-> << 0, 0 >>, got |-> FALSE, fault |-> FALSE]

\* NewClient has established the first session.
Init ==
    /\ mu = Nobody /\ session = 1
    /\ cache = << >> /\ nameCache = << >> /\ indexKey = {}
    /\ tsid = 1 /\ env = [id |-> 1, seq |-> 1]
    /\ ceSeq = << 0 >>
    /\ ks = [s \in {1} |-> 1] /\ card = [s \in {1} |-> 0]
    /\ answers = {} /\ opened = 1 /\ breaks = 0 /\ wipe = "no"
    /\ pc = [t \in Threads |-> "idle"]
    /\ loc = [t \in Threads |-> NoLoc]
    /\ setting \in Settings

----------------------------------------------------------------------------
Goto(t, label) == pc' = [pc EXCEPT ![t] = label]
SetLoc(t, r) == loc' = [loc EXCEPT ![t] = r]
Lock(t) == mu = Nobody /\ mu' = t
Unlock(t) == mu' = IF mu = t THEN Nobody ELSE mu

\* The request is over; the caller has the key or an error.
Return(t) == Goto(t, "idle") /\ SetLoc(t, NoLoc) /\ Unlock(t)
Fail(t, fault) ==
    /\ Goto(t, "failed") /\ Unlock(t)
    /\ SetLoc(t, [NoLoc EXCEPT !.op = loc[t].op, !.fault = loc[t].fault \/ fault])
EstFailed(t) == Fail(t, TRUE)

KeyCount(op) == IF op = "block" THEN MaxBlockCount ELSE 1

\* planKeyBatches, as << start, count >>.
planKeyBatches(start, count) ==
    [j \in 1 .. (count + MaxBlockKeyBatch - 1) \div MaxBlockKeyBatch |->
        LET done == (j - 1) * MaxBlockKeyBatch
        IN  << start + done,
               IF count - done > MaxBlockKeyBatch THEN MaxBlockKeyBatch ELSE count - done >>]

Begin(t, op, i) ==
    /\ pc[t] = "idle"
    /\ SetLoc(t, [NoLoc EXCEPT !.op = op, !.i = i])
    /\ Goto(t, IF op = "index" THEN "readIndexKey" ELSE "lock")
    /\ UNCHANGED << clientVars, peerVars, wipe >>

\* IndexKey: the cached copy, under RLock.
ReadIndexKey(t) ==
    /\ pc[t] = "readIndexKey" /\ mu = Nobody
    /\ IF indexKey # {} THEN Return(t)
       ELSE Goto(t, "lock") /\ UNCHANGED << mu, loc >>
    /\ UNCHANGED << session, cache, nameCache, indexKey, tsid, env, ceSeq, peerVars, wipe >>

InCache(t) == Has(IF loc[t].op = "name" THEN nameCache ELSE cache, loc[t].i)
TouchCache(t) ==
    IF loc[t].op = "name"
    THEN nameCache' = Touched(nameCache, loc[t].i) /\ UNCHANGED cache
    ELSE cache' = Touched(cache, loc[t].i) /\ UNCHANGED nameCache

\* The key is there.  IndexKey still has to store it.
Found(t) ==
    /\ TouchCache(t)
    /\ Unlock(t)
    /\ IF loc[t].op = "index" THEN Goto(t, "setIndexKey") /\ UNCHANGED loc
       ELSE Goto(t, "idle") /\ SetLoc(t, NoLoc)
    /\ UNCHANGED << session, indexKey >>

clearCacheLocked == cache' = << >> /\ nameCache' = << >> /\ indexKey' = {}

\* GetBlockAEAD, GetNameEME, deriveKeyCached, up to the first look into the
\* cache.  GetBlockAEAD looks at the session first; without one it and
\* GetNameEME drop the caches and the lock.
LockAndLook(t) ==
    /\ pc[t] = "lock" /\ mu = Nobody
    /\ CASE loc[t].op # "block" /\ InCache(t) -> Found(t)
         [] loc[t].op \in {"block", "name"} /\ session = 0 ->
               /\ clearCacheLocked
               /\ Goto(t, "estOpen") /\ SetLoc(t, [loc[t] EXCEPT !.back =
                                            IF loc[t].op = "block" THEN "look" ELSE "relock"])
               /\ UNCHANGED << mu, session >>
         [] loc[t].op = "block" /\ session # 0 /\ InCache(t) -> Found(t)
         [] loc[t].op = "block" /\ session # 0 /\ ~InCache(t) ->
               /\ Goto(t, "relock")
               /\ UNCHANGED << mu, session, cache, nameCache, indexKey, loc >>
         [] OTHER ->
               /\ Lock(t) /\ Goto(t, "wait")
               /\ UNCHANGED << session, cache, nameCache, indexKey, loc >>
    /\ UNCHANGED << tsid, env, ceSeq, peerVars, wipe >>

\* GetBlockAEAD with its new session looks into the cache first.
Look(t) ==
    /\ pc[t] = "look" /\ mu = Nobody
    /\ IF InCache(t) THEN Found(t)
       ELSE Goto(t, "relock") /\ UNCHANGED << mu, session, cache, nameCache, indexKey, loc >>
    /\ UNCHANGED << tsid, env, ceSeq, peerVars, wipe >>

\* The lock again, the double check.
Relock(t) ==
    /\ pc[t] = "relock" /\ mu = Nobody
    /\ IF InCache(t) THEN Found(t)
       ELSE /\ Lock(t) /\ Goto(t, "wait")
            /\ UNCHANGED << session, cache, nameCache, indexKey, loc >>
    /\ UNCHANGED << tsid, env, ceSeq, peerVars, wipe >>

----------------------------------------------------------------------------
(* waitForKeys and fetchBlockKeys, with the lock held.                     *)

Plan(t) == planKeyBatches(loc[t].i, KeyCount(loc[t].op))

WaitForKeys(t) ==
    /\ pc[t] = "wait"
    /\ IF session = 0
       THEN Goto(t, "estOpen") /\ SetLoc(t, [loc[t] EXCEPT !.back = "wait"])
       ELSE Goto(t, "derive") /\ SetLoc(t, [loc[t] EXCEPT !.todo = Plan(t), !.keys = {}])
    /\ UNCHANGED << clientVars, peerVars, wipe >>

\* BuildCERequest of the next batch.
DeriveBlockKeys(t) ==
    /\ pc[t] = "derive" /\ loc[t].todo # << >>
    /\ SetLoc(t, [loc[t] EXCEPT !.ce = << session, ceSeq[session] >>, !.back = "derive"])
    /\ ceSeq' = [ceSeq EXCEPT ![session] = IF @ > SeqMax THEN @ ELSE @ + 1]
    /\ Goto(t, "sealID")
    /\ UNCHANGED << mu, session, cache, nameCache, indexKey, tsid, env, peerVars, wipe >>

\* Mutant: no second attempt.
FetchFailed_giveUp(t, fault) == Fail(t, fault)

\* Mutant: again and again.
FetchFailed_forever(t, fault) ==
    /\ Goto(t, "wait") /\ SetLoc(t, [loc[t] EXCEPT !.todo = << >>, !.keys = {}])
    /\ UNCHANGED mu

\* Any error of a batch: once more, with a new session.
FetchFailed(t, fault) ==
    IF loc[t].retried THEN Fail(t, fault)
    ELSE /\ Goto(t, "estOpen")
         /\ SetLoc(t, [loc[t] EXCEPT !.retried = TRUE, !.back = "wait", !.fault = @ \/ fault,
                                     !.todo = << >>, !.keys = {}])
         /\ UNCHANGED mu

\* GetBlockAEAD puts all keys, in the order of a map; the others put their one.
ToStore(t) == {e \in loc[t].keys : loc[t].op = "block" \/ e[1] = loc[t].i}
StoreKey(t) ==
    /\ pc[t] = "derive" /\ loc[t].todo = << >>
    /\ \E e \in ToStore(t) :
          /\ IF loc[t].op = "name"
             THEN nameCache' = Inserted(nameCache, e[1], e[2]) /\ UNCHANGED cache
             ELSE cache' = Inserted(cache, e[1], e[2]) /\ UNCHANGED nameCache
          /\ SetLoc(t, [loc[t] EXCEPT !.keys = @ \ {e}, !.got = @ \/ e[1] = loc[t].i])
    /\ UNCHANGED << mu, session, indexKey, tsid, env, ceSeq, peerVars, wipe, pc >>
KeysStored(t) ==
    /\ pc[t] = "derive" /\ loc[t].todo = << >> /\ ToStore(t) = {}
    /\ CASE ~loc[t].got -> Fail(t, FALSE)
         [] loc[t].got /\ loc[t].op = "index" ->
               Goto(t, "setIndexKey") /\ Unlock(t) /\ UNCHANGED loc
         [] OTHER -> Return(t)
    /\ UNCHANGED << session, cache, nameCache, indexKey, tsid, env, ceSeq, peerVars, wipe >>

SetIndexKey(t) ==
    /\ pc[t] = "setIndexKey" /\ mu = Nobody
    /\ indexKey' = IF indexKey = {} THEN {session} ELSE indexKey
    /\ Return(t)
    /\ UNCHANGED << session, cache, nameCache, tsid, env, ceSeq, peerVars, wipe >>

----------------------------------------------------------------------------
(* EstablishSession: a transport session, then a card session.             *)

\* POST transport-sessions.
EstOpen(t) ==
    /\ pc[t] = "estOpen"
    /\ \/ /\ opened < MaxSessions
          /\ opened' = opened + 1
          /\ ks' = [s \in DOMAIN ks \union {opened'} |-> IF s = opened' THEN 0 ELSE ks[s]]
          /\ tsid' = opened'
          /\ Goto(t, "estBind") /\ SetLoc(t, [loc[t] EXCEPT !.id = opened'])
          /\ UNCHANGED mu
       \/ /\ EstFailed(t) /\ UNCHANGED << opened, ks, tsid >>
    /\ UNCHANGED << session, cache, nameCache, indexKey, env, ceSeq, card, answers, breaks, wipe >>

\* SetTransportSessionID: the id, then the sequence counter.
EstBind(t) ==
    /\ pc[t] = "estBind"
    /\ env' = [env EXCEPT !.id = loc[t].id]
    /\ Goto(t, "estReset")
    /\ UNCHANGED << mu, session, cache, nameCache, indexKey, tsid, ceSeq, peerVars, wipe, loc >>
EstReset(t) ==
    /\ pc[t] = "estReset"
    /\ env' = [env EXCEPT !.seq = 0]
    /\ Goto(t, "sealID") /\ SetLoc(t, [loc[t] EXCEPT !.ce = << 0, 0 >>])
    /\ UNCHANGED << mu, session, cache, nameCache, indexKey, tsid, ceSeq, peerVars, wipe >>

----------------------------------------------------------------------------
(* relay: Seal, the KS and the card, OpenResponse and OpenCEResponse.      *)

Handshake(t) == loc[t].ce[1] = 0
RelayFailed(t, fault) == IF Handshake(t) THEN Fail(t, fault) ELSE FetchFailed(t, fault)

SealID(t) ==
    /\ pc[t] = "sealID"
    /\ SetLoc(t, [loc[t] EXCEPT !.id = env.id])
    /\ Goto(t, "sealSeq")
    /\ UNCHANGED << clientVars, peerVars, wipe >>
\* Mutant: the counter is read and not moved on.
SealSeq_stuck(t) ==
    /\ pc[t] = "sealSeq"
    /\ SetLoc(t, [loc[t] EXCEPT !.seq = env.seq + 1])
    /\ Goto(t, "send")
    /\ UNCHANGED << clientVars, peerVars, wipe >>
SealSeq(t) ==
    /\ pc[t] = "sealSeq"
    /\ IF env.seq < MaxRelays
       THEN /\ env' = [env EXCEPT !.seq = @ + 1]
            /\ SetLoc(t, [loc[t] EXCEPT !.seq = env.seq + 1])
            /\ Goto(t, "send") /\ UNCHANGED mu
       ELSE RelayFailed(t, TRUE) /\ UNCHANGED env
    /\ UNCHANGED << session, cache, nameCache, indexKey, tsid, ceSeq, peerVars, wipe >>

\* The KS and the card accept a message once, and only of a session they know.
KsAccepts(t) == loc[t].id \in DOMAIN ks /\ loc[t].seq > ks[loc[t].id]
CardAccepts(s, n) == s \in DOMAIN card /\ n >= card[s] /\ n <= SeqMax

SendRejected(t) ==
    /\ pc[t] = "send" /\ ~KsAccepts(t)
    /\ RelayFailed(t, FALSE)
    /\ UNCHANGED << session, cache, nameCache, indexKey, tsid, env, ceSeq, peerVars, wipe >>

\* GET_AUTH_CHALLENGE, and establishSession publishes the new session.
SendHandshake(t) ==
    /\ pc[t] = "send" /\ KsAccepts(t) /\ Handshake(t)
    /\ ks' = [ks EXCEPT ![loc[t].id] = loc[t].seq]
    /\ LET new == Len(ceSeq) + 1
       IN  /\ card' = [s \in DOMAIN card \union {new} |-> IF s = new THEN 0 ELSE card[s]]
           /\ \/ /\ session' = new /\ ceSeq' = Append(ceSeq, 0)
                 /\ Goto(t, loc[t].back) /\ UNCHANGED << mu, loc >>
              \/ /\ EstFailed(t) /\ ceSeq' = Append(ceSeq, 0)      \* the answer is lost
                 /\ UNCHANGED session
    /\ answers' = {}
    /\ UNCHANGED << cache, nameCache, indexKey, tsid, env, opened, breaks, wipe >>

\* A protected command.
SendCommand(t) ==
    LET s == loc[t].ce[1]
        n == loc[t].ce[2]
    IN  /\ pc[t] = "send" /\ KsAccepts(t) /\ ~Handshake(t)
        /\ ks' = [ks EXCEPT ![loc[t].id] = loc[t].seq]
        /\ IF CardAccepts(s, n)
           THEN /\ card' = [card EXCEPT ![s] = n + 1]
                /\ answers' = answers \union
                      {[s |-> s, seq |-> n, start |-> loc[t].todo[1][1], count |-> loc[t].todo[1][2]]}
                /\ Goto(t, "receive") /\ UNCHANGED << mu, loc >>
           ELSE FetchFailed(t, FALSE) /\ UNCHANGED << card, answers >>
        /\ UNCHANGED << session, cache, nameCache, indexKey, tsid, env, ceSeq, opened, breaks, wipe >>

\* Mutant: OpenCEResponse does not compare the sequence number.
OpensCEResponse_anySeq(t, a) == a.s = loc[t].ce[1] /\ a.count = loc[t].todo[1][2]

\* OpenCEResponse: requestId, sequence and session; then the number of keys.
OpensCEResponse(t, a) ==
    a.s = loc[t].ce[1] /\ a.seq = loc[t].ce[2] /\ a.count = loc[t].todo[1][2]

\* The answer, an older one, or none.
Receive(t) ==
    /\ pc[t] = "receive"
    /\ \/ \E a \in answers :
             /\ OpensCEResponse(t, a)
             /\ SetLoc(t, [loc[t] EXCEPT
                   !.keys = @ \union {<< loc[t].todo[1][1] + j, a.start + j >> : j \in 0 .. a.count - 1},
                   !.todo = Tail(@)])
             /\ Goto(t, "derive") /\ UNCHANGED mu
       \/ FetchFailed(t, TRUE)
    /\ UNCHANGED << session, cache, nameCache, indexKey, tsid, env, ceSeq, peerVars, wipe >>

\* The caller gets an error: Seal panics, Open answers EIO.
ReportError(t) ==
    /\ pc[t] = "failed"
    /\ Goto(t, "idle") /\ SetLoc(t, NoLoc)
    /\ UNCHANGED << clientVars, peerVars, wipe >>

----------------------------------------------------------------------------
\* The KS or the card forgets a session: a restart, a timeout, a power cycle.
Break ==
    /\ breaks < setting.breaks
    /\ breaks' = breaks + 1
    /\ \/ \E s \in DOMAIN ks : ks' = [x \in DOMAIN ks \ {s} |-> ks[x]] /\ UNCHANGED card
       \/ \E s \in DOMAIN card : card' = [x \in DOMAIN card \ {s} |-> card[x]] /\ UNCHANGED ks
    /\ loc' = [t \in Threads |-> IF pc[t] = "idle" THEN NoLoc ELSE [loc[t] EXCEPT !.fault = TRUE]]
    /\ UNCHANGED << clientVars, answers, opened, wipe, pc >>

\* Wipe: first card.Close(), without the lock.
WipeClose ==
    /\ setting.wipes /\ wipe = "no" /\ wipe' = "closed"
    /\ ks' = [x \in DOMAIN ks \ {tsid} |-> ks[x]]
    /\ tsid' = 0
    /\ UNCHANGED << mu, session, cache, nameCache, indexKey, env, ceSeq, card, answers, opened, breaks, pc, loc >>
WipeClear ==
    /\ wipe = "closed" /\ wipe' = "done"
    /\ mu = Nobody
    /\ clearCacheLocked
    /\ session' = 0
    /\ UNCHANGED << mu, tsid, env, ceSeq, peerVars, pc, loc >>

Step(t) ==
    \/ ReadIndexKey(t) \/ LockAndLook(t) \/ Look(t) \/ Relock(t) \/ WaitForKeys(t)
    \/ DeriveBlockKeys(t) \/ StoreKey(t) \/ KeysStored(t) \/ SetIndexKey(t)
    \/ EstOpen(t) \/ EstBind(t) \/ EstReset(t) \/ SealID(t) \/ SealSeq(t)
    \/ SendRejected(t) \/ SendHandshake(t) \/ SendCommand(t) \/ Receive(t) \/ ReportError(t)

Request(t) ==
    \/ \E i \in setting.block : Begin(t, "block", i)
    \/ \E i \in setting.name : Begin(t, "name", i)
    \/ \E i \in setting.index : Begin(t, "index", i)

Next ==
    /\ \/ \E t \in Threads : Request(t) \/ Step(t)
       \/ Break \/ WipeClose \/ WipeClear
    /\ UNCHANGED setting

Spec == Init /\ [][Next]_vars

\* Every goroutine keeps running, a KS call ends (the HTTP client has a timeout),
\* and sync.RWMutex hands the lock to every waiter in time: only the steps that
\* take it can be enabled and disabled in turn.
Fairness == \A t \in Threads : SF_vars(Step(t) /\ UNCHANGED setting)
FairSpec == Spec /\ Fairness

----------------------------------------------------------------------------
(* Properties                                                              *)

\* A cached key is the card's key for its index, in whatever pieces it was
\* fetched and whichever answer came back (fetchBlockKeys, OpenCEResponse).
RightKeys ==
    /\ \A j \in 1 .. Len(cache) : cache[j][1] = cache[j][2]
    /\ \A j \in 1 .. Len(nameCache) : nameCache[j][1] = nameCache[j][2]

\* Sequence numbers are strictly increasing per transport session and per card
\* session (transport.go:149, card.go:92): nobody sends one that the KS or the
\* card has seen.  Until Wipe has run: after it two requests open sessions without the
\* lock, and SetTransportSessionID of one comes between two steps of the other.
SequencesIncrease ==
    wipe # "done" => \A t \in Threads : pc[t] = "send" =>
        /\ loc[t].id \in DOMAIN ks => loc[t].seq > ks[loc[t].id]
        /\ loc[t].ce[1] \in DOMAIN card => loc[t].ce[2] >= card[loc[t].ce[1]]

\* A session that was lost before the request began, or whose sequence numbers
\* ran out, costs a second attempt and nothing else (waitForKeys), until Wipe closes
\* the sessions.
SessionLossIsMasked ==
    wipe = "no" => \A t \in Threads : pc[t] = "failed" => loc[t].fault

\* A request ends with a key or an error (waitForKeys, "retry exactly once").
RequestsEnd == \A t \in Threads : []<>(pc[t] = "idle")

=============================================================================

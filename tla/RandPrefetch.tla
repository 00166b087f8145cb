---------------------------- MODULE RandPrefetch ----------------------------
(***************************************************************************)
(* The prefetcher behind every nonce and file ID: goroutines read from one *)
(* buffer under a mutex, and fetch a fresh batch from refillWorker over an *)
(* unbuffered channel when the buffer runs dry.  Every random byte is a    *)
(* number of its own; bytes.Buffer.Read copies first and advances then.    *)
(***************************************************************************)
EXTENDS Naturals, Sequences, FiniteSets, Functions

CONSTANTS Threads, None,
          prefetchN,    \* size of a batch
          Wants,        \* sizes of the reads
          MaxBatches    \* bound: batches made

PrefetchAssumption ==
    /\ None \notin Threads
    /\ prefetchN \in Nat \ {0} /\ Wants \subseteq 1..prefetchN /\ MaxBatches \in Nat

VARIABLES mutex, buf,
          made, offered,     \* refillWorker: batches made, the one it is sending
          pc, want, fresh, out,
          handed             \* ghost: bytes that reads have returned
vars == << mutex, buf, made, offered, pc, want, fresh, out, handed >>

Init ==
    /\ mutex = None /\ buf = << >> /\ made = 0 /\ offered = << >>
    /\ pc = [t \in Threads |-> "idle"] /\ want = [t \in Threads |-> 0]
    /\ fresh = [t \in Threads |-> << >>] /\ out = [t \in Threads |-> << >>]
    /\ handed = {}

Goto(t, label) == pc' = [pc EXCEPT ![t] = label]
Front(t) == SubSeq(buf, 1, IF want[t] < Len(buf) THEN want[t] ELSE Len(buf))

\* The bound on batches ends a behaviour between two reads, not inside one.
Stocked ==
    Cardinality({t \in Threads : pc[t] # "idle"})
        < MaxBatches - made + (IF offered = << >> THEN 0 ELSE 1)

\* RandBytes(prefetchN), and the send that waits for a receiver.
refillWorker ==
    /\ offered = << >> /\ made < MaxBatches
    /\ offered' = [i \in 1..prefetchN |-> prefetchN * made + i]
    /\ made' = made + 1
    /\ UNCHANGED << mutex, buf, pc, want, fresh, out, handed >>

read(t) ==
    /\ pc[t] = "idle" /\ Stocked
    /\ \E w \in Wants : want' = [want EXCEPT ![t] = w]
    /\ Goto(t, "lock")
    /\ UNCHANGED << mutex, buf, made, offered, fresh, out, handed >>

\* Mutant: the buffer is used without the mutex.
Lock_not(t) ==
    /\ pc[t] = "lock" /\ Goto(t, "copy")
    /\ UNCHANGED << mutex, buf, made, offered, want, fresh, out, handed >>

Lock(t) ==
    /\ pc[t] = "lock" /\ mutex = None
    /\ mutex' = t /\ Goto(t, "copy")
    /\ UNCHANGED << buf, made, offered, want, fresh, out, handed >>

\* buf.Read: a short read leaves the buffer empty and asks for a refill, once.
Copy(t) ==
    /\ pc[t] \in {"copy", "copyAgain"}
    /\ out' = [out EXCEPT ![t] = Front(t)]
    /\ Goto(t, IF pc[t] = "copy" THEN "advance" ELSE "advanceAgain")
    /\ UNCHANGED << mutex, buf, made, offered, want, fresh, handed >>
Advance(t) ==
    /\ pc[t] \in {"advance", "advanceAgain"}
    /\ buf' = SubSeq(buf, Len(out[t]) + 1, Len(buf))
    /\ Goto(t, IF Len(out[t]) = want[t] THEN "return"
               ELSE IF pc[t] = "advance" THEN "receive" ELSE "panic")
    /\ UNCHANGED << mutex, made, offered, want, fresh, out, handed >>

Receive(t) ==
    /\ pc[t] = "receive" /\ offered # << >>
    /\ fresh' = [fresh EXCEPT ![t] = offered] /\ offered' = << >>
    /\ Goto(t, "refill")
    /\ UNCHANGED << mutex, buf, made, want, out, handed >>

\* Reset and Write; the second Read starts over with the fresh bytes.
Refill(t) ==
    /\ pc[t] = "refill"
    /\ buf' = fresh[t] /\ fresh' = [fresh EXCEPT ![t] = << >>]
    /\ Goto(t, "copyAgain")
    /\ UNCHANGED << mutex, made, offered, want, out, handed >>

Return(t) ==
    /\ pc[t] = "return"
    /\ handed' = handed \union Range(out[t])
    /\ mutex' = None /\ Goto(t, "idle")
    /\ want' = [want EXCEPT ![t] = 0] /\ out' = [out EXCEPT ![t] = << >>]
    /\ UNCHANGED << buf, made, offered, fresh >>

Step(t) ==
    Lock(t) \/ Copy(t) \/ Advance(t) \/ Receive(t) \/ Refill(t) \/ Return(t)
Next == refillWorker \/ \E t \in Threads : read(t) \/ Step(t)

Spec == Init /\ [][Next]_vars
\* Goroutines are scheduled; sync.Mutex starves nobody.
FairSpec == Spec /\ WF_vars(refillWorker) /\ \A t \in Threads : SF_vars(Step(t))

----------------------------------------------------------------------------
(* Properties                                                              *)

\* However reads and refills interleave, no byte is handed out twice, so two nonces
\* never share one, and no read comes back short (the mutex of read, held while it
\* waits for refillWorker).
NoByteTwice ==
    \A t \in Threads :
        /\ pc[t] # "panic"
        /\ pc[t] = "return" =>
              /\ Range(out[t]) \intersect handed = {}
              /\ \A u \in Threads \ {t} : pc[u] = "return" => Range(out[t]) \intersect Range(out[u]) = {}

\* A read that has to wait for fresh bytes gets them (refillWorker never stops sending).
ReadsReturn == \A t \in Threads : []<>(pc[t] = "idle")
=============================================================================

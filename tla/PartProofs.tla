----------------------------- MODULE PartProofs -----------------------------
(***************************************************************************)
(* Proofs about AsUser, for any number of goroutines and OS threads,       *)
(* OpenWriteOnly, for any number of opens, and RandPrefetch, for any       *)
(* number of goroutines and any batch. UserInv says which credentials an   *)
(* OS thread has at every step of a call; OpenInv which mode the backing   *)
(* file has between the two chmods; BytesOK that the bytes in the buffer,  *)
(* in the channel and in the readers' hands are distinct and not yet       *)
(* handed out, and ReadOK what a reader has copied where. BlobMeta: the    *)
(* arithmetic of info-chunks, for records of every length.                 *)
(***************************************************************************)
EXTENDS RandPrefetch, UserPart, OpenPart, Integers, TLAPS

----------------------------------------------------------------------------
(* AsUser                                                                  *)

\* From LockOSThread to UnlockOSThread.
UserLabels == {"setgroups", "setregid", "setreuid", "revertUid", "revertGid", "revertGroups"}

UserTypeOK ==
    /\ groups \in [OSThreads -> Users \union {"none", "started"}]
    /\ gid \in [OSThreads -> Users \union {"root"}] /\ uid \in [OSThreads -> Users \union {"root"}]
    /\ locked \in [Goroutines -> OSThreads \union {Nobody}]
    /\ context \in [Goroutines -> Users \union {Nobody}]
    /\ userPc \in [Goroutines -> UserLabels \union {"idle", "run", "unlock"}]
    /\ wrong = FALSE

\* What has been set, and not yet set back, on the thread a goroutine has locked.
IsRoot(o) == uid[o] = "root" /\ gid[o] = "root"
LockedOK(t) ==
    LET o == locked[t] IN
    /\ userPc[t] \in {"setgroups", "unlock"} => IsRoot(o) /\ groups[o] \notin Users
    /\ userPc[t] \in {"setregid", "revertGroups"} => IsRoot(o)
    /\ userPc[t] \in {"setreuid", "revertGid"} => uid[o] = "root"
    /\ userPc[t] \in {"setreuid", "run"} => gid[o] = context[t]
    /\ userPc[t] = "run" => uid[o] = context[t]
    /\ userPc[t] \in {"setregid", "setreuid", "run"} => groups[o] \in U!getSupplementaryGroups(t)

\* A goroutine works on a thread of its own while it has a context.
GoroutineOK(t) ==
    /\ context[t] = Nobody <=> locked[t] = Nobody
    /\ userPc[t] \in UserLabels => context[t] # Nobody
    /\ userPc[t] = "idle" => context[t] = Nobody
    /\ context[t] # Nobody => LockedOK(t)

Unlocked == OSThreads \ {locked[t] : t \in Goroutines}

UserInv ==
    /\ U!AsUserAssumption /\ UserTypeOK
    /\ \A t, u \in Goroutines : locked[t] = locked[u] => t = u \/ locked[t] = Nobody
    /\ \A t \in Goroutines : GoroutineOK(t)
    /\ \A o \in Unlocked : IsRoot(o) /\ groups[o] \notin Users

LEMMA UserInitOK == U!AsUserAssumption /\ U!Init => UserInv
BY DEF U!AsUserAssumption, U!Init, UserInv, UserTypeOK, UserLabels, GoroutineOK, Unlocked, IsRoot

\* Where a goroutine may run: on the thread it has locked.
LEMMA RunsOnItsThread ==
    ASSUME UserInv, NEW t \in Goroutines, context[t] # Nobody
    PROVE  /\ U!RunsOn(t) = {locked[t]} /\ locked[t] \in OSThreads /\ LockedOK(t)
           /\ context[t] \in Users
           /\ \A u \in Goroutines \ {t} : locked[u] # locked[t]
BY DEF UserInv, UserTypeOK, GoroutineOK, U!RunsOn

\* A call of a goroutine that has locked a thread changes that thread only.
LEMMA OfLockedThread ==
    ASSUME UserInv, NEW t \in Goroutines, context[t] # Nobody,
           NEW label \in (UserLabels \union {"run", "unlock"}), U!Goto(t, label),
           UNCHANGED << locked, context >>,
           UserTypeOK', LockedOK(t)',
           \A o \in OSThreads \ {locked[t]} :
               groups'[o] = groups[o] /\ gid'[o] = gid[o] /\ uid'[o] = uid[o]
    PROVE  UserInv'
<1>1. userPc'[t] = label /\ \A u \in Goroutines \ {t} : userPc'[u] = userPc[u]
  BY DEF UserInv, UserTypeOK, U!Goto
<1>2. GoroutineOK(t)'
  BY <1>1 DEF UserInv, GoroutineOK, UserLabels
<1>3. ASSUME NEW u \in Goroutines \ {t} PROVE GoroutineOK(u)'
  <2>1. GoroutineOK(u) BY DEF UserInv
  <2>2. CASE context[u] = Nobody BY <1>1, <2>1, <2>2 DEF GoroutineOK
  <2>3. CASE context[u] # Nobody
    <3>1. LockedOK(u) /\ locked[u] \in OSThreads /\ locked[u] # locked[t]
      BY <2>3, RunsOnItsThread
    <3>2. LockedOK(u)'
      BY <3>1, <1>1 DEF LockedOK, IsRoot, U!getSupplementaryGroups
    <3> QED BY <1>1, <2>1, <3>2 DEF GoroutineOK
  <2> QED BY Zenon, <2>2, <2>3
<1>4. \A o \in Unlocked' : IsRoot(o)' /\ (groups[o] \notin Users)'
  BY Zenon DEF UserInv, Unlocked, IsRoot
<1> QED BY Zenon, <1>2, <1>3, <1>4 DEF UserInv, U!AsUserAssumption

LEMMA SetGroupsOK == ASSUME UserInv, NEW t \in Goroutines, U!SetGroups(t) PROVE UserInv'
<1>1. context[t] # Nobody BY DEF UserInv, GoroutineOK, UserLabels, U!SetGroups
<1>2. /\ U!RunsOn(t) = {locked[t]} /\ locked[t] \in OSThreads /\ LockedOK(t)
      /\ context[t] \in Users
  BY <1>1, RunsOnItsThread
<1>3. UserTypeOK /\ userPc[t] = "setgroups" BY DEF UserInv, U!SetGroups
<1>4. CASE U!Goto(t, "unlock") /\ UNCHANGED groups
  <2>1. UserTypeOK' /\ LockedOK(t)'
    BY <1>2, <1>3, <1>4 DEF U!SetGroups, U!Goto, UserTypeOK, UserLabels, LockedOK, IsRoot
  <2> QED BY <1>1, <1>4, <2>1, OfLockedThread DEF U!SetGroups
<1>5. CASE \E g \in U!getSupplementaryGroups(t) :
              groups' = [groups EXCEPT ![locked[t]] = g] /\ U!Goto(t, "setregid")
  <2>1. UserTypeOK' /\ LockedOK(t)'
    BY <1>2, <1>3, <1>5
    DEF U!SetGroups, U!Goto, UserTypeOK, UserLabels, LockedOK, IsRoot, U!getSupplementaryGroups
  <2>2. \A o \in OSThreads \ {locked[t]} : groups'[o] = groups[o]
    BY <1>3, <1>5 DEF UserTypeOK
  <2> QED BY <1>1, <1>5, <2>1, <2>2, OfLockedThread DEF U!SetGroups, UserLabels
<1> QED BY Zenon, <1>2, <1>4, <1>5 DEF U!SetGroups

LEMMA SetRegidOK == ASSUME UserInv, NEW t \in Goroutines, U!SetRegid(t) PROVE UserInv'
<1>1. context[t] # Nobody BY DEF UserInv, GoroutineOK, UserLabels, U!SetRegid
<1>2. /\ U!RunsOn(t) = {locked[t]} /\ locked[t] \in OSThreads /\ LockedOK(t)
      /\ context[t] \in Users
  BY <1>1, RunsOnItsThread
<1>3. UserTypeOK /\ userPc[t] = "setregid" BY DEF UserInv, U!SetRegid
<1>4. CASE U!Goto(t, "revertGroups") /\ UNCHANGED gid
  <2>1. UserTypeOK' /\ LockedOK(t)'
    BY <1>2, <1>3, <1>4 DEF U!SetRegid, U!Goto, UserTypeOK, UserLabels, LockedOK, IsRoot
  <2> QED BY <1>1, <1>4, <2>1, OfLockedThread DEF U!SetRegid, UserLabels
<1>5. CASE gid' = [gid EXCEPT ![locked[t]] = context[t]] /\ U!Goto(t, "setreuid")
  <2>1. UserTypeOK' /\ LockedOK(t)'
    BY <1>2, <1>3, <1>5
    DEF U!SetRegid, U!Goto, UserTypeOK, UserLabels, LockedOK, IsRoot, U!getSupplementaryGroups
  <2>2. \A o \in OSThreads \ {locked[t]} : gid'[o] = gid[o]
    BY <1>3, <1>5 DEF UserTypeOK
  <2> QED BY Zenon, <1>1, <1>5, <2>1, <2>2, OfLockedThread DEF U!SetRegid, UserLabels
<1> QED BY Zenon, <1>2, <1>4, <1>5 DEF U!SetRegid

LEMMA SetReuidOK == ASSUME UserInv, NEW t \in Goroutines, U!SetReuid(t) PROVE UserInv'
<1>1. context[t] # Nobody BY DEF UserInv, GoroutineOK, UserLabels, U!SetReuid
<1>2. /\ U!RunsOn(t) = {locked[t]} /\ locked[t] \in OSThreads /\ LockedOK(t)
      /\ context[t] \in Users
  BY <1>1, RunsOnItsThread
<1>3. UserTypeOK /\ userPc[t] = "setreuid" BY DEF UserInv, U!SetReuid
<1>4. CASE U!Goto(t, "revertGid") /\ UNCHANGED uid
  <2>1. UserTypeOK' /\ LockedOK(t)'
    BY <1>2, <1>3, <1>4 DEF U!SetReuid, U!Goto, UserTypeOK, UserLabels, LockedOK, IsRoot
  <2> QED BY Zenon, <1>1, <1>4, <2>1, OfLockedThread DEF U!SetReuid, UserLabels
<1>5. CASE uid' = [uid EXCEPT ![locked[t]] = context[t]] /\ U!Goto(t, "run")
  <2>1. UserTypeOK' /\ LockedOK(t)'
    BY <1>2, <1>3, <1>5
    DEF U!SetReuid, U!Goto, UserTypeOK, UserLabels, LockedOK, IsRoot, U!getSupplementaryGroups
  <2>2. \A o \in OSThreads \ {locked[t]} : uid'[o] = uid[o]
    BY <1>3, <1>5 DEF UserTypeOK
  <2> QED BY Zenon, <1>1, <1>5, <2>1, <2>2, OfLockedThread DEF U!SetReuid
<1> QED BY <1>2, <1>4, <1>5 DEF U!SetReuid

LEMMA RevertOK ==
    ASSUME UserInv, NEW t \in Goroutines, U!RevertUid(t) \/ U!RevertGid(t) \/ U!RevertGroups(t)
    PROVE  UserInv'
<1>1. context[t] # Nobody
  BY DEF UserInv, GoroutineOK, UserLabels, U!RevertUid, U!RevertGid, U!RevertGroups
<1>2. /\ U!RunsOn(t) = {locked[t]} /\ locked[t] \in OSThreads /\ LockedOK(t)
      /\ context[t] \in Users
  BY <1>1, RunsOnItsThread
<1>3. UserTypeOK /\ U!AsUserAssumption BY DEF UserInv
<1>4. CASE U!RevertUid(t)
  <2>1. UserTypeOK' /\ LockedOK(t)'
    BY Zenon, <1>2, <1>3, <1>4 DEF U!RevertUid, U!Goto, UserTypeOK, UserLabels, LockedOK, IsRoot
  <2>2. \A o \in OSThreads \ {locked[t]} : uid'[o] = uid[o]
    BY <1>2, <1>3, <1>4 DEF UserTypeOK, U!RevertUid
  <2> QED BY <1>1, <1>4, <2>1, <2>2, OfLockedThread DEF U!RevertUid, UserLabels
<1>5. CASE U!RevertGid(t)
  <2>1. gid' = [gid EXCEPT ![locked[t]] = "root"] /\ U!Goto(t, "revertGroups")
    BY <1>2, <1>5 DEF U!RevertGid, LockedOK, U!Privileged
  <2>2. UserTypeOK' /\ LockedOK(t)'
    BY <1>2, <1>3, <1>5, <2>1 DEF U!RevertGid, U!Goto, UserTypeOK, UserLabels, LockedOK, IsRoot
  <2>3. \A o \in OSThreads \ {locked[t]} : gid'[o] = gid[o]
    BY <1>3, <2>1 DEF UserTypeOK
  <2> QED BY <1>1, <1>5, <2>1, <2>2, <2>3, OfLockedThread DEF U!RevertGid, UserLabels
<1>6. CASE U!RevertGroups(t)
  <2>1. groups' = [groups EXCEPT ![locked[t]] = "none"] /\ U!Goto(t, "unlock")
    BY <1>2, <1>6 DEF U!RevertGroups, LockedOK, IsRoot, U!Privileged
  <2>2. UserTypeOK' /\ LockedOK(t)'
    BY <1>2, <1>3, <1>6, <2>1
    DEF U!RevertGroups, U!Goto, UserTypeOK, UserLabels, LockedOK, IsRoot, U!AsUserAssumption
  <2>3. \A o \in OSThreads \ {locked[t]} : groups'[o] = groups[o]
    BY <1>3, <2>1 DEF UserTypeOK
  <2> QED BY Zenon, <1>1, <1>6, <2>1, <2>2, <2>3, OfLockedThread DEF U!RevertGroups
<1> QED BY <1>4, <1>5, <1>6

\* Without a context, a goroutine runs on a thread that nobody has locked.
LEMMA RunOK == ASSUME UserInv, NEW t \in Goroutines, U!Run(t) PROVE UserInv'
<1>1. UserTypeOK /\ GoroutineOK(t) /\ userPc[t] = "run" BY DEF UserInv, U!Run
<1>2. CASE context[t] = Nobody
  <2>1. U!RunsOn(t) = Unlocked BY <1>1, <1>2 DEF U!RunsOn, Unlocked, GoroutineOK
  <2>2. wrong' = FALSE
    BY Zenon, <1>1, <1>2, <2>1 DEF UserInv, UserTypeOK, IsRoot, U!Run
  <2>3. UserTypeOK' BY <1>1, <1>2, <2>2 DEF UserTypeOK, UserLabels, U!Run, U!Goto, U!creds
  <2>4. userPc' = [userPc EXCEPT ![t] = "unlock"] /\ UNCHANGED << locked, context, groups, gid,
     uid >>
    BY <1>2 DEF U!Run, U!Goto, U!creds
  <2>5. ASSUME NEW u \in Goroutines PROVE GoroutineOK(u)'
    BY <1>1, <1>2, <2>4
    DEF UserInv, UserTypeOK, GoroutineOK, LockedOK, IsRoot, UserLabels, U!getSupplementaryGroups
  <2> QED BY <2>3, <2>4, <2>5 DEF UserInv, Unlocked, IsRoot, U!AsUserAssumption
<1>3. CASE context[t] # Nobody
  <2>1. U!RunsOn(t) = {locked[t]} /\ LockedOK(t) BY <1>3, RunsOnItsThread
  <2>2. wrong' = FALSE BY Zenon, <1>1, <1>3, <2>1 DEF UserTypeOK, LockedOK, U!Run
  <2>3. U!Goto(t, "revertUid") /\ UNCHANGED << locked, context, groups, gid, uid >>
    BY Zenon, <1>3 DEF U!Run, U!creds
  <2>4. UserTypeOK' /\ LockedOK(t)'
    BY <1>1, <2>2, <2>3 DEF UserTypeOK, UserLabels, U!Goto, LockedOK
  <2> QED BY Zenon, <1>3, <2>3, <2>4, OfLockedThread DEF UserLabels
<1> QED BY <1>2, <1>3

LEMMA AsUserOK == ASSUME UserInv, NEW t \in Goroutines, U!asUser(t) PROVE UserInv'
<1>1. UserTypeOK /\ GoroutineOK(t) /\ userPc[t] = "idle" /\ context[t] = Nobody /\ locked[t] = Nobody
  BY DEF UserInv, GoroutineOK, U!asUser
<1>2. UNCHANGED << groups, gid, uid, wrong >> BY DEF U!asUser, U!creds
<1>3. CASE U!Goto(t, "run") /\ UNCHANGED << context, locked >>
  <2>1. UserTypeOK' BY <1>1, <1>2, <1>3 DEF UserTypeOK, UserLabels, U!Goto
  <2>2. ASSUME NEW u \in Goroutines PROVE GoroutineOK(u)'
    BY <1>1, <1>2, <1>3
    DEF UserInv, UserTypeOK, GoroutineOK, LockedOK, IsRoot, UserLabels, U!getSupplementaryGroups,
    U!Goto
  <2> QED BY Zenon, <1>2, <1>3, <2>1, <2>2 DEF UserInv, Unlocked, IsRoot, U!AsUserAssumption
<1>4. ASSUME NEW u \in Users, NEW o \in U!RunsOn(t),
             context' = [context EXCEPT ![t] = u], locked' = [locked EXCEPT ![t] = o],
             U!Goto(t, "setgroups")
      PROVE  UserInv'
  <2>1. o \in Unlocked BY <1>1 DEF U!RunsOn, Unlocked
  <2>2. o \in OSThreads /\ (\A v \in Goroutines : locked[v] # o) /\ IsRoot(o) /\ groups[o] \notin Users
    BY <2>1 DEF Unlocked, UserInv
  <2>3. UserTypeOK' BY <1>1, <1>2, <1>4, <2>2 DEF UserTypeOK, UserLabels, U!Goto
  <2>4. /\ userPc'[t] = "setgroups" /\ context'[t] = u /\ locked'[t] = o
        /\ \A v \in Goroutines \ {t} : /\ userPc'[v] = userPc[v] /\ context'[v] = context[v]
                                    /\ locked'[v] = locked[v]
    BY <1>1, <1>4 DEF UserTypeOK, U!Goto
  <2>5. o # Nobody /\ u # Nobody BY <2>2 DEF UserInv, U!AsUserAssumption
  <2>6. LockedOK(t)' BY Zenon, <1>2, <2>2, <2>4 DEF LockedOK, IsRoot
  <2>7. GoroutineOK(t)' BY Zenon, <2>4, <2>5, <2>6 DEF GoroutineOK
  <2>8. ASSUME NEW v \in Goroutines \ {t} PROVE GoroutineOK(v)'
    <3>1. GoroutineOK(v) BY DEF UserInv
    <3>2. LockedOK(v) => LockedOK(v)'
      BY Zenon, <1>2, <2>4 DEF LockedOK, IsRoot, U!getSupplementaryGroups
    <3> QED BY Zenon, <2>4, <3>1, <3>2 DEF GoroutineOK
  <2>9. \A v, w \in Goroutines : locked'[v] = locked'[w] => v = w \/ locked'[v] = Nobody
    <3> SUFFICES ASSUME NEW v \in Goroutines, NEW w \in Goroutines, locked'[v] = locked'[w], v # w
                 PROVE  locked'[v] = Nobody
      OBVIOUS
    <3>1. v # t /\ w # t BY Zenon, <2>2, <2>4
    <3>2. locked'[v] = locked[v] /\ locked'[w] = locked[w] BY Zenon, <2>4, <3>1
    <3> QED BY Zenon, <3>2 DEF UserInv
  <2>10. Unlocked' \subseteq Unlocked BY Zenon, <1>1, <2>4 DEF Unlocked, UserInv, U!AsUserAssumption
  <2>11. \A p \in Unlocked' : IsRoot(p)' /\ (groups[p] \notin Users)'
    BY <1>2, <2>10 DEF UserInv, IsRoot
  <2> QED BY Zenon, <2>3, <2>7, <2>8, <2>9, <2>11 DEF UserInv, U!AsUserAssumption
<1> QED BY <1>3, <1>4 DEF U!asUser

LEMMA UnlockOK == ASSUME UserInv, NEW t \in Goroutines, U!UnlockOSThread(t) PROVE UserInv'
<1>1. UserTypeOK /\ GoroutineOK(t) /\ userPc[t] = "unlock" BY DEF UserInv, U!UnlockOSThread
<1>2. UNCHANGED << groups, gid, uid, wrong >> BY DEF U!UnlockOSThread, U!creds
<1>3. UserTypeOK' BY <1>1, <1>2 DEF UserTypeOK, UserLabels, U!UnlockOSThread, U!Goto
<1>4. /\ userPc'[t] = "idle" /\ context'[t] = Nobody /\ locked'[t] = Nobody
      /\ \A v \in Goroutines \ {t} : /\ userPc'[v] = userPc[v] /\ context'[v] = context[v]
                                  /\ locked'[v] = locked[v]
  BY <1>1 DEF UserTypeOK, U!UnlockOSThread, U!Goto
<1>5. GoroutineOK(t)' BY <1>4 DEF GoroutineOK, UserLabels
<1>6. ASSUME NEW v \in Goroutines \ {t} PROVE GoroutineOK(v)'
  <2>1. GoroutineOK(v) BY DEF UserInv
  <2>2. LockedOK(v) => LockedOK(v)'
    BY <1>2, <1>4 DEF LockedOK, IsRoot, U!getSupplementaryGroups
  <2> QED BY <1>4, <2>1, <2>2 DEF GoroutineOK
<1>7. \A v, w \in Goroutines : locked'[v] = locked'[w] => v = w \/ locked'[v] = Nobody
  BY Zenon, <1>4 DEF UserInv
<1>8. ASSUME NEW o \in Unlocked' PROVE IsRoot(o) /\ groups[o] \notin Users
  <2>1. o \in OSThreads /\ (o \in Unlocked \/ o = locked[t])
    BY <1>4 DEF Unlocked
  <2>2. CASE o \in Unlocked BY <2>2 DEF UserInv
  <2>3. CASE o = locked[t] /\ o \in OSThreads
    <3>1. context[t] # Nobody BY <1>1, <2>3 DEF GoroutineOK, UserInv, U!AsUserAssumption
    <3> QED BY <1>1, <2>3, <3>1 DEF GoroutineOK, LockedOK
  <2> QED BY <2>1, <2>2, <2>3 DEF Unlocked
<1>9. \A o \in Unlocked' : IsRoot(o)' /\ (groups[o] \notin Users)'
  BY <1>2, <1>8 DEF IsRoot
<1> QED BY <1>3, <1>5, <1>6, <1>7, <1>9 DEF UserInv, U!AsUserAssumption

LEMMA UserStutterOK == UserInv /\ UNCHANGED U!vars => UserInv'
BY DEF U!vars, UserInv, UserTypeOK, GoroutineOK, LockedOK, IsRoot, Unlocked, U!AsUserAssumption,
       U!getSupplementaryGroups

LEMMA UserNextOK == UserInv /\ [U!Next]_U!vars => UserInv'
BY AsUserOK, SetGroupsOK, SetRegidOK, SetReuidOK, RunOK, RevertOK, UnlockOK, UserStutterOK
DEF U!Next

\* Whichever threads the scheduler picks and whichever call of asUser fails, for any
\* number of requests, threads and callers: no system call runs with the credentials of
\* somebody else, no deferred call is refused, and a thread that is given back has nothing
\* left of the caller (asUser, SetgroupsPanic, SetregidPanic, SetreuidPanic).
THEOREM CallsRunAsTheirCaller == U!AsUserAssumption /\ U!Spec => []CredentialsMatch
<1>1. UserInv => CredentialsMatch
  BY DEF UserInv, UserTypeOK, UserLabels, Unlocked, IsRoot, CredentialsMatch, U!CredentialsMatch
<1> QED BY <1>1, UserInitOK, UserNextOK, PTL DEF U!Spec

----------------------------------------------------------------------------
(* RandPrefetch                                                            *)

RandLabels == {"idle", "lock", "copy", "advance", "receive", "refill", "copyAgain",
"advanceAgain", "return"}

RandTypeOK ==
    /\ PrefetchAssumption
    /\ mutex \in Threads \union {None}
    /\ buf \in Seq(Nat) /\ offered \in Seq(Nat) /\ made \in Nat
    /\ pc \in [Threads -> RandLabels] /\ want \in [Threads -> Nat]
    /\ fresh \in [Threads -> Seq(Nat)] /\ out \in [Threads -> Seq(Nat)]
    /\ handed \subseteq Nat

\* The bytes that have left refillWorker are 1..Issued.
Issued == prefetchN * (IF offered = << >> THEN made ELSE made - 1)
Distinct(s) == \A i, j \in 1..Len(s) : s[i] = s[j] => i = j
Disjoint(r, s) == \A i \in 1..Len(r), j \in 1..Len(s) : r[i] # s[j]
Unused(s) == \A i \in 1..Len(s) : s[i] \notin handed /\ s[i] <= Issued

BytesOK ==
    /\ offered # << >> => made > 0 /\ offered = [i \in 1..prefetchN |-> Issued + i]
    /\ Distinct(buf) /\ Unused(buf)
    /\ \A b \in handed : b <= Issued

\* What a read that holds the mutex knows.
ReadOK(t) ==
    /\ pc[t] \notin {"idle", "lock"} => mutex = t
    /\ pc[t] # "idle" => want[t] \in 1..prefetchN
    /\ pc[t] = "copyAgain" => Len(buf) = prefetchN
    /\ pc[t] \in {"advance", "advanceAgain"} =>
          /\ Len(out[t]) <= Len(buf) /\ \A i \in 1..Len(out[t]) : out[t][i] = buf[i]
          /\ Len(out[t]) <= want[t]
    /\ pc[t] = "advanceAgain" => Len(out[t]) = want[t]
    /\ pc[t] = "refill" => Len(fresh[t]) = prefetchN /\ Distinct(fresh[t]) /\ Unused(fresh[t])
    /\ pc[t] = "return" => Unused(out[t]) /\ Disjoint(out[t], buf)

RandInv == RandTypeOK /\ BytesOK /\ \A t \in Threads : ReadOK(t)

LEMMA PrefetchConstants ==
    RandTypeOK \/ PrefetchAssumption =>
        None \notin Threads /\ prefetchN \in Nat \ {0} /\ Wants \subseteq 1..prefetchN /\ MaxBatches \in Nat
BY DEF RandTypeOK, PrefetchAssumption

LEMMA RandInitOK == PrefetchAssumption /\ Init => RandInv
BY PrefetchConstants
DEF Init, RandInv, RandTypeOK, RandLabels, BytesOK, ReadOK, Issued, Unused, Disjoint, Distinct

LEMMA SeqDomain == \A s \in Seq(Nat) : DOMAIN s = 1..Len(s) /\ Len(s) \in Nat
OBVIOUS

LEMMA IssuedIsNat == RandTypeOK /\ BytesOK => Issued \in Nat
<1> SUFFICES ASSUME RandTypeOK, BytesOK PROVE Issued \in Nat OBVIOUS
<1>1. \A m \in Nat : prefetchN * m \in Nat BY PrefetchConstants
<1>2. made \in Nat /\ (offered # << >> => made - 1 \in Nat) BY DEF RandTypeOK, BytesOK
<1> QED BY <1>1, <1>2 DEF Issued

\* While one read holds the mutex, the others are before it.
LEMMA Alone ==
    ASSUME RandInv, NEW t \in Threads, pc[t] \notin {"idle", "lock"},
           NEW u \in Threads, u # t
    PROVE  pc[u] \in {"idle", "lock"}
BY DEF RandInv, ReadOK

\* A read that has not got the mutex knows nothing that others could change.
LEMMA WaitingOK ==
    ASSUME RandInv, NEW u \in Threads, pc[u] \in {"idle", "lock"},
           pc'[u] = pc[u], want'[u] = want[u]
    PROVE  ReadOK(u)'
BY DEF RandInv, ReadOK

LEMMA RefillWorkerOK == RandInv /\ refillWorker => RandInv'
<1> SUFFICES ASSUME RandInv, refillWorker PROVE RandInv' OBVIOUS
<1> USE DEF refillWorker, RandInv
<1>1. Issued' = Issued /\ Issued = prefetchN * made
  <2>1. prefetchN \in Nat /\ prefetchN # 0 BY PrefetchConstants
  <2>2. offered' # << >>
    <3>1. 1 \in DOMAIN offered' BY <2>1
    <3>2. 1 \notin DOMAIN << >> OBVIOUS
    <3> QED BY <3>1, <3>2
  <2>3. made \in Nat /\ made' = made + 1 /\ offered = << >> BY DEF RandTypeOK
  <2>4. made' - 1 = made BY <2>3
  <2> QED BY <2>2, <2>3, <2>4 DEF Issued
<1>2. Issued \in Nat BY IssuedIsNat
<1>3. RandTypeOK'
  <2>1. offered' \in [1..prefetchN -> Nat] BY <1>1, <1>2, PrefetchConstants
  <2>2. offered' \in Seq(Nat) BY <2>1, PrefetchConstants
  <2> QED BY <2>2 DEF RandTypeOK
<1>4. BytesOK' BY SMTT(30), <1>1, <1>3 DEF BytesOK, RandTypeOK, Unused, Disjoint, Distinct
<1>5. ASSUME NEW t \in Threads PROVE ReadOK(t)'
  <2>1. ReadOK(t) OBVIOUS
  <2> QED BY <2>1, <1>1 DEF ReadOK, Unused, Disjoint, Distinct
<1> QED BY <1>3, <1>4, <1>5

\* A step that leaves the bytes alone.
LEMMA BytesUnchanged ==
    ASSUME RandInv, UNCHANGED << buf, made, offered, handed >>
    PROVE  BytesOK' /\ Issued' = Issued
BY DEF RandInv, BytesOK, Issued, Unused, Distinct

LEMMA ReadStepOK ==
    ASSUME RandInv, NEW t \in Threads, read(t)
    PROVE  RandInv'
<1> USE DEF read, Goto
<1>1. RandTypeOK' BY SMTT(30), PrefetchConstants DEF RandInv, RandTypeOK, RandLabels
<1>2. BytesOK' BY BytesUnchanged
<1>3. ReadOK(t)' BY PrefetchConstants DEF RandInv, RandTypeOK, ReadOK
<1>4. ASSUME NEW u \in Threads, u # t PROVE ReadOK(u)'
  <2>1. ReadOK(u) BY DEF RandInv
  <2>2. pc'[u] = pc[u] /\ want'[u] = want[u] BY <1>4 DEF RandInv, RandTypeOK
  <2>3. Issued' = Issued BY BytesUnchanged
  <2> QED BY <2>1, <2>2, <2>3 DEF ReadOK, Unused, Disjoint, Distinct
<1> QED BY <1>1, <1>2, <1>3, <1>4 DEF RandInv

\* The other reads, whatever the holder of the mutex does to the buffer.
LEMMA HolderStep ==
    ASSUME RandInv, NEW t \in Threads, pc[t] \notin {"idle", "lock"},
           NEW l \in RandLabels, Goto(t, l),
           \A u \in Threads \ {t} : want'[u] = want[u],
           RandTypeOK', BytesOK', ReadOK(t)'
    PROVE  RandInv'
<1>1. ASSUME NEW u \in Threads, u # t PROVE ReadOK(u)'
  <2>1. pc[u] \in {"idle", "lock"} BY <1>1, Alone
  <2>2. pc'[u] = pc[u] BY <1>1 DEF Goto, RandInv, RandTypeOK
  <2> QED BY <1>1, <2>1, <2>2, WaitingOK
<1> QED BY <1>1 DEF RandInv

LEMMA LockStepOK ==
    ASSUME RandInv, NEW t \in Threads, Lock(t)
    PROVE  RandInv'
<1> USE DEF Lock, Goto
<1>1. RandTypeOK' BY DEF RandInv, RandTypeOK, RandLabels
<1>2. BytesOK' BY BytesUnchanged
<1>3. ReadOK(t)' BY DEF RandInv, RandTypeOK, ReadOK
<1>4. ASSUME NEW u \in Threads, u # t PROVE ReadOK(u)'
  <2>1. pc[u] \in {"idle", "lock"} BY PrefetchConstants DEF RandInv, ReadOK
  <2>2. pc'[u] = pc[u] BY <1>4 DEF RandInv, RandTypeOK
  <2> QED BY <2>1, <2>2, WaitingOK
<1> QED BY <1>1, <1>2, <1>3, <1>4 DEF RandInv

LEMMA CopyStepOK ==
    ASSUME RandInv, NEW t \in Threads, Copy(t)
    PROVE  RandInv'
<1> USE DEF Copy
<1> DEFINE n == IF want[t] < Len(buf) THEN want[t] ELSE Len(buf)
<1>1. buf \in Seq(Nat) /\ want[t] \in Nat /\ Len(buf) \in Nat /\ n \in 0..Len(buf) /\ n <= want[t]
  BY SMTT(30) DEF RandInv, RandTypeOK
<1>2. /\ Front(t) \in Seq(Nat) /\ Len(Front(t)) = n
      /\ \A i \in 1..n : Front(t)[i] = buf[i]
  <2>1. \A i \in 1..n : buf[i] \in Nat BY SMTT(30), <1>1
  <2>2. Front(t) = SubSeq(buf, 1, n) BY DEF Front
  <2> QED BY <1>1, <2>1, <2>2
<1>3. out' \in [Threads -> Seq(Nat)] /\ out'[t] = Front(t)
  BY <1>2 DEF RandInv, RandTypeOK
<1>4. PICK l \in {"advance", "advanceAgain"} :
         Goto(t, l) /\ (l = "advanceAgain" => pc[t] = "copyAgain")
  OBVIOUS
<1>5. pc' \in [Threads -> RandLabels] /\ pc'[t] = l
  BY <1>4 DEF Goto, RandInv, RandTypeOK, RandLabels
<1>6. RandTypeOK' BY <1>3, <1>5 DEF RandInv, RandTypeOK
<1>7. BytesOK' BY BytesUnchanged
<1>8. ReadOK(t)'
  <2>1. ReadOK(t) BY DEF RandInv
  <2>2. mutex = t /\ want[t] \in 1..prefetchN BY <2>1 DEF ReadOK
  <2>3. l = "advanceAgain" => n = want[t] BY <1>1, <1>4, <2>1, <2>2, PrefetchConstants DEF ReadOK
  <2> QED BY SMTT(30), <1>1, <1>2, <1>3, <1>5, <2>2, <2>3 DEF ReadOK
<1> QED BY <1>4, <1>6, <1>7, <1>8, HolderStep DEF RandLabels

\* What is left when the first n bytes are taken away.
LEMMA DropFront ==
    ASSUME NEW s \in Seq(Nat), NEW n \in Nat, n <= Len(s)
    PROVE  /\ SubSeq(s, n + 1, Len(s)) \in Seq(Nat)
           /\ Len(SubSeq(s, n + 1, Len(s))) = Len(s) - n
           /\ \A i \in 1..(Len(s) - n) : SubSeq(s, n + 1, Len(s))[i] = s[n + i]
OBVIOUS

LEMMA DropFrontDistinct ==
    ASSUME NEW s \in Seq(Nat), NEW r \in Seq(Nat), NEW n \in Nat, n <= Len(s), Len(r) = Len(s) - n,
           \A i \in 1..Len(r) : r[i] = s[n + i],
           Distinct(s)
    PROVE  /\ Distinct(r)
           /\ \A i \in 1..n, j \in 1..Len(r) : s[i] # r[j]
<1>1. \A i \in 1..Len(r) : n + i \in 1..Len(s) OBVIOUS
<1>2. \A i \in 1..n : i \in 1..Len(s) OBVIOUS
<1>3. Distinct(r)
  <2> SUFFICES ASSUME NEW i \in 1..Len(r), NEW j \in 1..Len(r), r[i] = r[j] PROVE i = j
    BY Zenon DEF Distinct
  <2>1. s[n + i] = s[n + j] BY Zenon
  <2>2. n + i = n + j BY Zenon, <1>1, <2>1 DEF Distinct
  <2> QED BY SMTT(30), <2>2
<1>4. ASSUME NEW i \in 1..n, NEW j \in 1..Len(r), s[i] = r[j] PROVE FALSE
  <2>1. i = n + j BY Zenon, <1>1, <1>2, <1>4 DEF Distinct
  <2> QED BY <2>1
<1> QED BY <1>3, <1>4

LEMMA AdvanceStepOK ==
    ASSUME RandInv, NEW t \in Threads, Advance(t)
    PROVE  RandInv'
<1> DEFINE n == Len(out[t])
<1>0. UNCHANGED << mutex, made, offered, want, fresh, out, handed >> BY DEF Advance
<1>1. ReadOK(t) /\ pc[t] \in {"advance", "advanceAgain"} BY DEF RandInv, Advance
<1>2. /\ mutex = t /\ want[t] \in 1..prefetchN
      /\ buf \in Seq(Nat) /\ Len(buf) \in Nat /\ out[t] \in Seq(Nat)
      /\ n \in Nat /\ n <= Len(buf) /\ n <= want[t] /\ \A i \in 1..n : out[t][i] = buf[i]
  <2>1. mutex = t /\ want[t] \in 1..prefetchN BY Zenon, <1>1 DEF ReadOK
  <2>2. n <= Len(buf) /\ n <= want[t] /\ \A i \in 1..n : out[t][i] = buf[i]
    BY Zenon, <1>1 DEF ReadOK
  <2>3. buf \in Seq(Nat) /\ out[t] \in Seq(Nat) BY Zenon DEF RandInv, RandTypeOK
  <2>4. Len(buf) \in Nat /\ n \in Nat BY <2>3
  <2> QED BY Zenon, <2>1, <2>2, <2>3, <2>4
<1>3. buf' \in Seq(Nat) /\ Len(buf') = Len(buf) - n /\ \A i \in 1..Len(buf') : buf'[i] = buf[n + i]
  <2>1. buf' = SubSeq(buf, n + 1, Len(buf)) BY DEF Advance
  <2> HIDE DEF n
  <2> QED BY SMTT(30), <1>2, <2>1, DropFront
<1>4. PICK l \in {"return", "receive"} : Goto(t, l)
  BY <1>1 DEF ReadOK, Advance
<1>5. pc' \in [Threads -> RandLabels] /\ pc'[t] = l
  BY <1>4 DEF Goto, RandInv, RandTypeOK, RandLabels
<1>6. RandTypeOK' BY <1>0, <1>3, <1>5 DEF RandInv, RandTypeOK
<1>7. Issued' = Issued BY <1>0 DEF Issued
<1>8. Distinct(buf') /\ \A i \in 1..n, j \in 1..Len(buf') : buf[i] # buf'[j]
  <2>1. Distinct(buf) BY DEF RandInv, BytesOK
  <2> HIDE DEF n
  <2> QED BY Zenon, <1>2, <1>3, <2>1, DropFrontDistinct
<1>9. BytesOK'
  <2>1. Unused(buf)'
    <3> SUFFICES ASSUME NEW i \in 1..Len(buf') PROVE buf'[i] \notin handed /\ buf'[i] <= Issued
      BY <1>0, <1>7 DEF Unused
    <3>1. n + i \in 1..Len(buf) /\ buf'[i] = buf[n + i]
      <4> HIDE DEF n
      <4> QED BY SMTT(30), <1>2, <1>3
    <3> QED BY <3>1 DEF Unused, RandInv, BytesOK
  <2> QED BY <1>0, <1>7, <1>8, <2>1 DEF RandInv, BytesOK, Distinct
<1>10. ReadOK(t)'
  <2>1. Unused(out[t])'
    <3> SUFFICES ASSUME NEW i \in 1..Len(out[t])
                 PROVE  out[t][i] \notin handed /\ out[t][i] <= Issued
      BY <1>0, <1>7 DEF Unused
    <3>1. i \in 1..Len(buf) /\ out[t][i] = buf[i] BY SMTT(30), <1>2
    <3> QED BY <3>1 DEF Unused, RandInv, BytesOK
  <2>2. Disjoint(out[t], buf)' BY ZenonT(30), <1>0, <1>2, <1>8 DEF Disjoint
  <2> QED BY <1>0, <1>2, <1>5, <2>1, <2>2 DEF ReadOK
<1> QED BY <1>0, <1>1, <1>4, <1>6, <1>9, <1>10, HolderStep DEF RandLabels

LEMMA ReceiveStepOK ==
    ASSUME RandInv, NEW t \in Threads, Receive(t)
    PROVE  RandInv'
<1> USE DEF Receive
<1>c. prefetchN \in Nat \ {0} BY PrefetchConstants DEF RandInv
<1>0. ReadOK(t) /\ mutex = t /\ want[t] \in 1..prefetchN BY DEF RandInv, ReadOK
<1>1. Issued \in Nat /\ Issued' \in Nat /\ Issued' = Issued + prefetchN
  <2>1. made \in Nat /\ made > 0 /\ made' = made /\ offered' = << >> /\ offered # << >>
    BY DEF RandInv, RandTypeOK, BytesOK
  <2>2. Issued = prefetchN * (made - 1) /\ Issued' = prefetchN * made BY <2>1 DEF Issued
  <2>3. prefetchN * made = prefetchN * (made - 1) + prefetchN BY <2>1, <1>c
  <2>4. Issued \in Nat BY IssuedIsNat DEF RandInv
  <2> QED BY <2>2, <2>3, <2>4, <1>c
<1>2. /\ offered \in Seq(Nat) /\ Len(offered) = prefetchN
      /\ \A i \in 1..prefetchN : offered[i] = Issued + i
  <2>1. offered \in Seq(Nat) /\ offered = [i \in 1..prefetchN |-> Issued + i]
    BY DEF RandInv, RandTypeOK, BytesOK
  <2>2. DOMAIN offered = 1..prefetchN /\ DOMAIN offered = 1..Len(offered) /\ Len(offered) \in Nat
    BY Zenon, <2>1, SeqDomain
  <2> QED BY <2>1, <2>2, <1>c
<1>3. fresh' \in [Threads -> Seq(Nat)] /\ fresh'[t] = offered
  BY <1>2 DEF RandInv, RandTypeOK
<1>4. Goto(t, "refill") OBVIOUS
<1>5. pc' \in [Threads -> RandLabels] /\ pc'[t] = "refill"
  BY <1>4 DEF Goto, RandInv, RandTypeOK, RandLabels
<1>6. RandTypeOK' BY <1>3, <1>5 DEF RandInv, RandTypeOK
<1>7. BytesOK'
  <2>1. \A b \in Nat : b <= Issued => b <= Issued' BY <1>1, <1>c
  <2>2. \A i \in 1..Len(buf) : buf[i] \in Nat BY SMTT(30) DEF RandInv, RandTypeOK
  <2>3. Unused(buf)' BY <2>1, <2>2 DEF RandInv, BytesOK, Unused
  <2>4. \A b \in handed' : b <= Issued' BY <2>1 DEF RandInv, RandTypeOK, BytesOK
  <2> QED BY <2>3, <2>4 DEF RandInv, BytesOK, Distinct
<1>8. ReadOK(t)'
  <2>1. Distinct(fresh'[t]) BY <1>1, <1>2, <1>3, <1>c DEF Distinct
  <2>2. Unused(fresh[t])' BY SMTT(30), <1>1, <1>2, <1>3, <1>c DEF Unused, RandInv, BytesOK
  <2> QED BY Zenon, <1>0, <1>2, <1>3, <1>5, <2>1, <2>2 DEF ReadOK, Distinct
<1> QED BY <1>4, <1>6, <1>7, <1>8, HolderStep DEF RandLabels

LEMMA RefillStepOK ==
    ASSUME RandInv, NEW t \in Threads, Refill(t)
    PROVE  RandInv'
<1> USE DEF Refill
<1>0. ReadOK(t) /\ mutex = t /\ want[t] \in 1..prefetchN BY DEF RandInv, ReadOK
<1>1. Issued' = Issued BY DEF Issued
<1>2. Goto(t, "copyAgain") OBVIOUS
<1>3. pc' \in [Threads -> RandLabels] /\ pc'[t] = "copyAgain"
  BY <1>2 DEF Goto, RandInv, RandTypeOK, RandLabels
<1>4. RandTypeOK'
  <2>1. << >> \in Seq(Nat) OBVIOUS
  <2>2. fresh \in [Threads -> Seq(Nat)] BY Zenon DEF RandInv, RandTypeOK
  <2>3. fresh' = [fresh EXCEPT ![t] = << >>] /\ buf' = fresh[t] BY Zenon
  <2>4. fresh' \in [Threads -> Seq(Nat)] /\ buf' \in Seq(Nat) BY Zenon, <2>1, <2>2, <2>3
  <2> QED BY <1>3, <2>4 DEF RandInv, RandTypeOK
<1>5. BytesOK'
  <2>1. Distinct(fresh[t]) /\ Unused(fresh[t]) /\ buf' = fresh[t] /\ handed' = handed
    BY Zenon, <1>0 DEF ReadOK
  <2>2. Distinct(buf)' /\ Unused(buf)' BY Zenon, <2>1, <1>1 DEF Distinct, Unused
  <2>3. /\ offered' # << >> => made' > 0 /\ offered' = [i \in 1..prefetchN |-> Issued + i]
        /\ \A b \in handed' : b <= Issued
    BY Zenon, <2>1 DEF RandInv, BytesOK
  <2> QED BY Zenon, <1>1, <2>2, <2>3 DEF BytesOK
<1>6. ReadOK(t)' BY Zenon, <1>0, <1>3 DEF ReadOK
<1> QED BY <1>2, <1>4, <1>5, <1>6, HolderStep DEF RandLabels

LEMMA ReturnStepOK ==
    ASSUME RandInv, NEW t \in Threads, Return(t)
    PROVE  RandInv'
<1> USE DEF Return
<1>0. ReadOK(t) /\ Unused(out[t]) /\ Disjoint(out[t], buf) BY DEF RandInv, ReadOK
<1>1. Issued' = Issued BY DEF Issued
<1>2. Goto(t, "idle") OBVIOUS
<1>3. pc' \in [Threads -> RandLabels] /\ pc'[t] = "idle"
  BY <1>2 DEF Goto, RandInv, RandTypeOK, RandLabels
<1>4. out[t] \in Seq(Nat) /\ \A b \in Range(out[t]) : \E i \in 1..Len(out[t]) : out[t][i] = b
  BY DEF RandInv, RandTypeOK, Range
<1>5. RandTypeOK'
  <2>1. handed' \subseteq Nat
    <3>1. \A i \in 1..Len(out[t]) : out[t][i] \in Nat BY <1>4
    <3> QED BY Zenon, <1>4, <3>1 DEF RandInv, RandTypeOK
  <2>2. << >> \in Seq(Nat) OBVIOUS
  <2>3. out' \in [Threads -> Seq(Nat)] BY <2>2 DEF RandInv, RandTypeOK
  <2>4. want' \in [Threads -> Nat] BY DEF RandInv, RandTypeOK
  <2> QED BY <1>3, <2>1, <2>3, <2>4 DEF RandInv, RandTypeOK
<1>6. BytesOK'
  <2>1. \A b \in handed' : b <= Issued BY <1>0, <1>4 DEF Unused, RandInv, BytesOK
  <2>2. Unused(buf)'
    <3> SUFFICES ASSUME NEW j \in 1..Len(buf) PROVE buf[j] \notin handed' /\ buf[j] <= Issued
      BY <1>1 DEF Unused
    <3> QED BY <1>0, <1>4 DEF Disjoint, Unused, RandInv, BytesOK
  <2> QED BY <1>1, <2>1, <2>2 DEF RandInv, BytesOK, Distinct
<1>7. ReadOK(t)' BY <1>3 DEF ReadOK
<1>8. \A u \in Threads \ {t} : want'[u] = want[u] BY DEF RandInv, RandTypeOK
<1> QED BY <1>2, <1>3, <1>5, <1>6, <1>7, <1>8, HolderStep DEF RandLabels

LEMMA RandNextOK == RandInv /\ [Next]_vars => RandInv'
<1> SUFFICES ASSUME RandInv, [Next]_vars PROVE RandInv' OBVIOUS
<1>1. CASE refillWorker BY <1>1, RefillWorkerOK
<1>2. ASSUME NEW t \in Threads, read(t) \/ Step(t) PROVE RandInv'
  BY <1>2, ReadStepOK, LockStepOK, CopyStepOK, AdvanceStepOK, ReceiveStepOK, RefillStepOK,
     ReturnStepOK DEF Step
<1>3. CASE UNCHANGED vars
  BY <1>3 DEF vars, RandInv, RandTypeOK, BytesOK, ReadOK, Issued, Unused, Distinct, Disjoint
<1> QED BY <1>1, <1>2, <1>3 DEF Next

\* However reads of random bytes and refills interleave, for any batch size and any sizes
\* of the reads, no byte gets into two of them and no read is short (randPrefetcher.read).
THEOREM PrefetcherGivesEachByteOnce == PrefetchAssumption /\ Spec => []NoByteTwice
<1>1. RandInv => NoByteTwice
  <2> SUFFICES ASSUME RandInv, NEW t \in Threads
               PROVE  /\ pc[t] # "panic"
                      /\ pc[t] = "return" =>
                            /\ Range(out[t]) \intersect handed = {}
                            /\ \A u \in Threads \ {t} : pc[u] # "return"
    BY DEF NoByteTwice
  <2>1. pc[t] # "panic" BY Zenon DEF RandInv, RandTypeOK, RandLabels
  <2>2. ASSUME pc[t] = "return" PROVE Range(out[t]) \intersect handed = {}
    <3>1. Unused(out[t]) /\ out[t] \in Seq(Nat) BY <2>2 DEF RandInv, ReadOK, RandTypeOK
    <3> QED BY SMTT(30), <3>1 DEF Unused, Range
  <2>3. ASSUME pc[t] = "return", NEW u \in Threads \ {t} PROVE pc[u] # "return"
    BY <2>3, Alone
  <2> QED BY <2>1, <2>2, <2>3
<1> QED BY <1>1, RandInitOK, RandNextOK, PTL DEF Spec

----------------------------------------------------------------------------
(* OpenWriteOnly                                                           *)

\* Where a thread holds openWriteOnlyLock for reading, where for writing.
Reading == {"openat", "woOpen", "runlock", "return"}
Writing == {"relax", "reopen", "revert", "unlock"}

\* Who holds the lock follows from where the threads are; a writer is alone.
OpenLockOK ==
    /\ openPc \in [Openers -> {"idle", "lock", "rlock"} \union Reading \union Writing]
    /\ readers = {t \in Openers : openPc[t] \in Reading}
    /\ \A t \in Openers : openPc[t] \in Writing => writer = t
    /\ writer # NoOpener => writer \in Openers /\ openPc[writer] \in Writing /\ readers = {}

\* openWriteOnlyFile is only for O_WRONLY, and remembers a mode that could not be read.
WriteOnlyOK ==
    /\ mode \in O!Modes
    /\ flags \in [Openers -> O!AccessModes \union {NoOpener}] /\ perms \in [Openers -> O!Modes]
    /\ \A t \in Openers :
          openPc[t] \in {"woOpen", "runlock", "lock"} \union Writing => flags[t] = "O_WRONLY"
    /\ \A t \in Openers : openPc[t] # "idle" => flags[t] \in O!AccessModes
    /\ \A t \in Openers : openPc[t] \in {"runlock", "lock"} \union Writing => "r" \notin perms[t]

OpenInv == O!OpenAssumption /\ OpenLockOK /\ WriteOnlyOK /\ O!RelaxedIsPrivate

LEMMA OpenConstants == OpenInv => NoOpener \notin Openers /\ Chmods \subseteq O!Modes
BY DEF OpenInv, O!OpenAssumption

LEMMA OpenInitOK == O!OpenAssumption /\ O!Init => OpenInv
BY DEF O!Init, OpenInv, OpenLockOK, WriteOnlyOK, Reading, Writing, O!RelaxedIsPrivate,
       O!NoReadThroughRelaxed, O!RelaxedIsReverted, O!Modes

\* While somebody reads, or nobody has the lock, no mode is relaxed.
LEMMA NothingRelaxed ==
    ASSUME OpenInv, writer = NoOpener
    PROVE  "r" \in mode => "r" \in chosen
BY OpenConstants DEF OpenInv, OpenLockOK, Writing, O!RelaxedIsPrivate, O!RelaxedIsReverted

LEMMA OpenStepOK ==
    ASSUME OpenInv, NEW t \in Openers, O!Open(t) \/ O!Step(t)
    PROVE  OpenInv'
<1>0. NoOpener \notin Openers BY OpenConstants
<1> USE <1>0 DEF OpenInv, O!Goto, O!RelaxedIsPrivate
<1>1. CASE O!Open(t)
  <2> USE <1>1 DEF O!Open, O!RLockFree
  <2>1. OpenLockOK' BY DEF OpenLockOK, Reading, Writing
  <2>2. WriteOnlyOK' BY DEF OpenLockOK, WriteOnlyOK, Reading, Writing, O!AccessModes
  <2>3. O!NoReadThroughRelaxed' BY DEF O!NoReadThroughRelaxed
  <2>4. O!RelaxedIsReverted' BY NothingRelaxed DEF O!RelaxedIsReverted
  <2> QED BY <2>1, <2>2, <2>3, <2>4
<1>2. CASE O!Openat(t)
  <2> USE <1>2 DEF O!Openat, O!lock
  <2>0. writer = NoOpener BY DEF OpenLockOK, Reading
  <2>1. OpenLockOK' BY DEF OpenLockOK, Reading, Writing
  <2>2. WriteOnlyOK' BY DEF OpenLockOK, WriteOnlyOK, Reading, Writing
  <2>3. O!NoReadThroughRelaxed'
    <3>1. flags[t] \in O!AccessModes BY DEF WriteOnlyOK
    <3>2. O!mangleOpenCreateFlags(flags[t]) \subseteq mode => "r" \in chosen
      BY <2>0, NothingRelaxed DEF O!mangleOpenCreateFlags
    <3> QED BY <3>1, <3>2 DEF O!NoReadThroughRelaxed, O!Opened
  <2>4. O!RelaxedIsReverted' BY <2>0, NothingRelaxed DEF O!RelaxedIsReverted
  <2> QED BY <2>1, <2>2, <2>3, <2>4
<1>3. CASE O!woOpen(t)
  <2> USE <1>3 DEF O!woOpen, O!lock
  <2>0. writer = NoOpener BY DEF OpenLockOK, Reading
  <2>1. OpenLockOK' BY DEF OpenLockOK, Reading, Writing
  <2>2. WriteOnlyOK' BY DEF OpenLockOK, WriteOnlyOK, Reading, Writing
  <2>3. O!NoReadThroughRelaxed' BY DEF O!NoReadThroughRelaxed
  <2>4. O!RelaxedIsReverted' BY <2>0, NothingRelaxed DEF O!RelaxedIsReverted
  <2> QED BY <2>1, <2>2, <2>3, <2>4
<1>4. CASE O!Upgrade(t)
  <2> USE <1>4 DEF O!Upgrade
  <2>0. writer = NoOpener BY DEF OpenLockOK, Reading
  <2>1. OpenLockOK' BY DEF OpenLockOK, Reading, Writing
  <2>2. WriteOnlyOK' BY DEF OpenLockOK, WriteOnlyOK, Reading, Writing
  <2>3. O!NoReadThroughRelaxed' BY DEF O!NoReadThroughRelaxed
  <2>4. O!RelaxedIsReverted' BY <2>0, NothingRelaxed DEF O!RelaxedIsReverted
  <2> QED BY <2>1, <2>2, <2>3, <2>4
<1>5. CASE O!Lock(t)
  <2> USE <1>5 DEF O!Lock
  <2>1. OpenLockOK' BY DEF OpenLockOK, Reading, Writing
  <2>2. WriteOnlyOK' BY DEF OpenLockOK, WriteOnlyOK, Reading, Writing
  <2>3. O!NoReadThroughRelaxed' BY DEF O!NoReadThroughRelaxed
  <2>4. O!RelaxedIsReverted' BY NothingRelaxed DEF O!RelaxedIsReverted
  <2> QED BY <2>1, <2>2, <2>3, <2>4
<1>6. CASE O!Relax(t)
  <2> USE <1>6 DEF O!Relax, O!lock
  <2>1. OpenLockOK' BY DEF OpenLockOK, Reading, Writing
  <2>2. WriteOnlyOK' BY Zenon DEF OpenLockOK, WriteOnlyOK, Reading, Writing, O!Modes
  <2>3. O!NoReadThroughRelaxed' BY Zenon DEF O!NoReadThroughRelaxed
  <2>4. O!RelaxedIsReverted'
    BY Zenon DEF OpenLockOK, Reading, Writing, O!RelaxedIsReverted
  <2> QED BY Zenon, <2>1, <2>2, <2>3, <2>4
<1>7. CASE O!Reopen(t)
  <2> USE <1>7 DEF O!Reopen, O!lock
  <2>1. OpenLockOK' BY DEF OpenLockOK, Reading, Writing
  <2>2. WriteOnlyOK' BY DEF OpenLockOK, WriteOnlyOK, Reading, Writing
  <2>3. O!NoReadThroughRelaxed'
    <3>1. flags[t] = "O_WRONLY" BY DEF WriteOnlyOK, Writing
    <3>2. "r" \notin O!Needs(flags[t]) BY <3>1 DEF O!Needs
    <3> QED BY <3>2 DEF O!NoReadThroughRelaxed, O!Opened
  <2>4. O!RelaxedIsReverted'
    <3>1. openPc'[t] = "revert" BY DEF OpenLockOK
    <3> QED BY Zenon, <3>1 DEF O!RelaxedIsReverted
  <2> QED BY <2>1, <2>2, <2>3, <2>4
<1>8. CASE O!Revert(t)
  <2> USE <1>8 DEF O!Revert, O!lock
  <2>1. OpenLockOK' BY DEF OpenLockOK, Reading, Writing
  <2>2. WriteOnlyOK' BY DEF OpenLockOK, WriteOnlyOK, Reading, Writing
  <2>3. O!NoReadThroughRelaxed' BY DEF O!NoReadThroughRelaxed
  <2>4. O!RelaxedIsReverted' BY DEF WriteOnlyOK, Writing, O!RelaxedIsReverted
  <2> QED BY <2>1, <2>2, <2>3, <2>4
<1>9. CASE O!Unlock(t)
  <2> USE <1>9 DEF O!Unlock
  <2>1. OpenLockOK' BY DEF OpenLockOK, Reading, Writing
  <2>2. WriteOnlyOK' BY DEF OpenLockOK, WriteOnlyOK, Reading, Writing
  <2>3. O!NoReadThroughRelaxed' BY DEF O!NoReadThroughRelaxed
  <2>4. O!RelaxedIsReverted' BY DEF OpenLockOK, Writing, O!RelaxedIsReverted
  <2> QED BY <2>1, <2>2, <2>3, <2>4
<1>10. CASE O!RLockAgain(t)
  <2> USE <1>10 DEF O!RLockAgain, O!RLockFree
  <2>1. OpenLockOK' BY DEF OpenLockOK, Reading, Writing
  <2>2. WriteOnlyOK' BY DEF OpenLockOK, WriteOnlyOK, Reading, Writing
  <2>3. O!NoReadThroughRelaxed' BY DEF O!NoReadThroughRelaxed
  <2>4. O!RelaxedIsReverted' BY NothingRelaxed DEF O!RelaxedIsReverted
  <2> QED BY <2>1, <2>2, <2>3, <2>4
<1>11. CASE O!Return(t)
  <2> USE <1>11 DEF O!Return
  <2>0. writer = NoOpener BY DEF OpenLockOK, Reading
  <2>1. OpenLockOK' BY DEF OpenLockOK, Reading, Writing
  <2>2. WriteOnlyOK' BY DEF OpenLockOK, WriteOnlyOK, Reading, Writing, O!Modes
  <2>3. O!NoReadThroughRelaxed' BY DEF O!NoReadThroughRelaxed
  <2>4. O!RelaxedIsReverted' BY <2>0, NothingRelaxed DEF O!RelaxedIsReverted
  <2> QED BY <2>1, <2>2, <2>3, <2>4
<1> QED
  BY <1>1, <1>2, <1>3, <1>4, <1>5, <1>6, <1>7, <1>8, <1>9, <1>10, <1>11 DEF O!Step

LEMMA OpenNextOK == OpenInv /\ [O!Next]_(O!vars) => OpenInv'
<1> SUFFICES ASSUME OpenInv, [O!Next]_(O!vars) PROVE OpenInv' OBVIOUS
<1> USE DEF OpenInv, OpenLockOK, WriteOnlyOK, O!RelaxedIsPrivate, O!NoReadThroughRelaxed,
   O!RelaxedIsReverted
<1>1. CASE O!Chmod BY <1>1, OpenConstants DEF O!Chmod, O!lock
<1>2. ASSUME NEW t \in Openers, O!Open(t) \/ O!Step(t) PROVE OpenInv' BY <1>2, OpenStepOK
<1>3. CASE UNCHANGED O!vars BY <1>3 DEF O!vars
<1>4. O!Chmod \/ (\E t \in Openers : O!Open(t) \/ O!Step(t)) \/ UNCHANGED O!vars BY Zenon DEF O!Next
<1> HIDE DEF OpenInv
<1> QED BY Zenon, <1>1, <1>2, <1>3, <1>4

\* For any number of threads: the mode that openWriteOnlyFile relaxes lets no open for
\* reading through, and does not outlive its own open (openWriteOnlyLock).
THEOREM RelaxedModeIsPrivate == O!OpenAssumption /\ O!Spec => []RelaxedIsPrivate
<1>1. OpenInv => RelaxedIsPrivate BY DEF OpenInv, RelaxedIsPrivate
<1> QED BY <1>1, OpenInitOK, OpenNextOK, PTL DEF O!Spec
----------------------------------------------------------------------------
(* BlobMeta                                                                *)

CONSTANTS uuids, Garbled
B == INSTANCE BlobMeta

\* unit0Payload and unitNPayload, computed.
LEMMA Payloads == B!unit0Payload = 476 /\ B!unitNPayload = 480
BY DEF B!unit0Payload, B!unitNPayload, B!unitPlainLen, B!UnitSize

\* UnitCountFor is the least number of units that hold a record of metaLen
\* bytes: SealInfoChunk's slices stay within the record's encoding, none is
\* empty, and together they are all of it.
THEOREM UnitCountIsExact ==
    ASSUME NEW metaLen \in Nat
    PROVE  /\ B!UnitCountFor(metaLen) \in Nat \ {0}
           /\ metaLen <= B!unit0Payload + (B!UnitCountFor(metaLen) - 1) * B!unitNPayload
           /\ B!UnitCountFor(metaLen) > 1 =>
                 B!unit0Payload + (B!UnitCountFor(metaLen) - 2) * B!unitNPayload < metaLen
<1>1. CASE metaLen <= 476
  BY <1>1, Payloads DEF B!UnitCountFor
<1>2. CASE metaLen > 476
  <2>1. B!UnitCountFor(metaLen) = 1 + (metaLen + 3) \div 480
    BY <1>2, Payloads DEF B!UnitCountFor
  <2>2. PICK q \in Nat : q = (metaLen + 3) \div 480
    OBVIOUS
  <2>3. 480 * q <= metaLen + 3 /\ metaLen + 3 < 480 * q + 480
    BY <2>2
  <2> QED
    BY <1>2, <2>1, <2>2, <2>3, Payloads
<1> QED
  BY <1>1, <1>2

\* A record that Marshal accepts needs at most 137 units, so SealInfoChunk's
\* errTooManyUnits cannot happen.
THEOREM RecordsFitTheirChunk ==
    ASSUME NEW metaLen \in Nat, metaLen <= B!maxRecordLen
    PROVE  B!UnitCountFor(metaLen) <= B!MaxInfoChunkUnits
<1>1. B!unit0Payload + (B!UnitCountFor(metaLen) - 2) * B!unitNPayload < metaLen \/ B!UnitCountFor(metaLen) <= 1
  BY UnitCountIsExact
<1>2. B!UnitCountFor(metaLen) \in Nat
  BY UnitCountIsExact
<1> QED
  BY <1>1, <1>2, Payloads DEF B!maxRecordLen, B!MaxInfoChunkUnits

=============================================================================

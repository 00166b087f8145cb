------------------------------- MODULE AsUser -------------------------------
(***************************************************************************)
(* asUser: a request whose owner is to be preserved runs its system call   *)
(* with the credentials of the caller.  Credentials belong to an operating *)
(* system thread; the Go scheduler runs a goroutine on any thread that no  *)
(* other goroutine has locked, and moves it between two system calls.      *)
(***************************************************************************)

CONSTANTS Threads,      \* goroutines
          OSThreads,
          Users,        \* the callers' credentials
          None          \* no context: f runs as gocryptfs itself

\* "none" and "started" are the groups of a thread that no call has given a user's.
AsUserAssumption == None \notin OSThreads /\ {None, "none", "started"} \intersect Users = {}

VARIABLES groups, gid, uid,    \* effective, per operating system thread
          locked,              \* goroutine -> its thread, by LockOSThread, or None
          pc, context,
          wrong                \* ghost: f ran with the credentials of somebody else
vars == << groups, gid, uid, locked, pc, context, wrong >>
creds == << groups, gid, uid >>

\* gocryptfs runs as root; the groups it was started with are lost when they are set
\* back for the first time (Setgroups(nil)).
Init ==
    /\ groups = [o \in OSThreads |-> "started"]
    /\ gid = [o \in OSThreads |-> "root"] /\ uid = [o \in OSThreads |-> "root"]
    /\ locked = [t \in Threads |-> None]
    /\ pc = [t \in Threads |-> "idle"] /\ context = [t \in Threads |-> None]
    /\ wrong = FALSE

Goto(t, label) == pc' = [pc EXCEPT ![t] = label]

\* Where the scheduler may run the next system call of t.
RunsOn(t) ==
    IF locked[t] # None THEN {locked[t]}
    ELSE OSThreads \ {locked[u] : u \in Threads}

----------------------------------------------------------------------------
(* Kernel: the identity changes need an effective root; returning to root  *)
(* is open to a real root.                                                 *)
Privileged(o) == uid[o] = "root"

\* Without a context, f runs at once.
asUser(t) ==
    /\ pc[t] = "idle"
    /\ \/ \E u \in Users, o \in RunsOn(t) :
             /\ context' = [context EXCEPT ![t] = u]
             /\ locked' = [locked EXCEPT ![t] = o]
             /\ Goto(t, "setgroups")
       \/ Goto(t, "run") /\ UNCHANGED << context, locked >>
    /\ UNCHANGED << creds, wrong >>

\* None if the caller has gone.
getSupplementaryGroups(t) == {context[t], "none"}

\* Each call may fail (a number the kernel does not accept); the deferred calls of
\* those before it follow.
SetGroups(t) ==
    /\ pc[t] = "setgroups"
    /\ \/ \E o \in RunsOn(t), g \in getSupplementaryGroups(t) :
             Privileged(o) /\ groups' = [groups EXCEPT ![o] = g] /\ Goto(t, "setregid")
       \/ Goto(t, "unlock") /\ UNCHANGED groups
    /\ UNCHANGED << gid, uid, locked, context, wrong >>
SetRegid(t) ==
    /\ pc[t] = "setregid"
    /\ \/ \E o \in RunsOn(t) :
             Privileged(o) /\ gid' = [gid EXCEPT ![o] = context[t]] /\ Goto(t, "setreuid")
       \/ Goto(t, "revertGroups") /\ UNCHANGED gid
    /\ UNCHANGED << groups, uid, locked, context, wrong >>
SetReuid(t) ==
    /\ pc[t] = "setreuid"
    /\ \/ \E o \in RunsOn(t) :
             Privileged(o) /\ uid' = [uid EXCEPT ![o] = context[t]] /\ Goto(t, "run")
       \/ Goto(t, "revertGid") /\ UNCHANGED uid
    /\ UNCHANGED << groups, gid, locked, context, wrong >>

\* f: openat, mknodat, symlinkat, mkdirat or lsetxattr.
Run(t) ==
    /\ pc[t] = "run"
    /\ \E o \in RunsOn(t) :
          wrong' = (wrong \/ IF context[t] = None
                             THEN uid[o] # "root" \/ gid[o] # "root" \/ groups[o] \in Users
                             ELSE \/ uid[o] # context[t] \/ gid[o] # context[t]
                                  \/ groups[o] \notin getSupplementaryGroups(t))
    /\ Goto(t, IF context[t] = None THEN "unlock" ELSE "revertUid")
    /\ UNCHANGED << creds, locked, context >>

\* Mutant: the group is set back first.
RevertUid_last(t) ==
    /\ pc[t] = "revertUid" /\ Goto(t, "revertGid")
    /\ UNCHANGED << creds, locked, context, wrong >>

\* The deferred calls, last one first; one that fails panics.
RevertUid(t) ==
    /\ pc[t] = "revertUid"
    /\ \E o \in RunsOn(t) : uid' = [uid EXCEPT ![o] = "root"]
    /\ Goto(t, "revertGid")
    /\ UNCHANGED << groups, gid, locked, context, wrong >>
RevertGid(t) ==
    /\ pc[t] = "revertGid"
    /\ \E o \in RunsOn(t) :
          IF Privileged(o)
          THEN gid' = [gid EXCEPT ![o] = "root"] /\ Goto(t, "revertGroups")
          ELSE Goto(t, "panic") /\ UNCHANGED gid
    /\ UNCHANGED << groups, uid, locked, context, wrong >>
RevertGroups(t) ==
    /\ pc[t] = "revertGroups"
    /\ \E o \in RunsOn(t) :
          IF Privileged(o)
          THEN groups' = [groups EXCEPT ![o] = "none"] /\ Goto(t, "unlock")
          ELSE Goto(t, "panic") /\ UNCHANGED groups
    /\ UNCHANGED << gid, uid, locked, context, wrong >>

UnlockOSThread(t) ==
    /\ pc[t] = "unlock"
    /\ locked' = [locked EXCEPT ![t] = None] /\ context' = [context EXCEPT ![t] = None]
    /\ Goto(t, "idle")
    /\ UNCHANGED << creds, wrong >>

Next ==
    \E t \in Threads :
        \/ asUser(t) \/ SetGroups(t) \/ SetRegid(t) \/ SetReuid(t) \/ Run(t)
        \/ RevertUid(t) \/ RevertGid(t) \/ RevertGroups(t) \/ UnlockOSThread(t)

Spec == Init /\ [][Next]_vars

----------------------------------------------------------------------------
(* Properties                                                              *)

\* A system call made for a user has that user's credentials and every other one has
\* those of gocryptfs, whichever thread it runs on; a thread goes back to the scheduler
\* without anything of the user, whichever call of asUser failed, and no deferred call
\* is refused (asUser, SetgroupsPanic, SetregidPanic, SetreuidPanic).
CredentialsMatch ==
    /\ ~wrong /\ \A t \in Threads : pc[t] # "panic"
    /\ \A o \in OSThreads \ {locked[t] : t \in Threads} :
          uid[o] = "root" /\ gid[o] = "root" /\ groups[o] \notin Users
=============================================================================

----------------------------- MODULE IdleMonitor ----------------------------
(***************************************************************************)
(* gocryptfs -idle: the thread that unmounts a file system that has not    *)
(* been used for a while, next to the FUSE operations and the open file    *)
(* table it watches.  Time is discrete; the monitor sleeps sleepNs units.  *)
(***************************************************************************)
EXTENDS Naturals

CONSTANTS IdleTimeouts,   \* values of -idle, in time units
          TwoMinutes,     \* the longest sleep between two checks
          MaxOpen         \* bound: files open at once

IdleAssumption == IdleTimeouts \subseteq (Nat \ 0..3) /\ TwoMinutes \in Nat \ {0}

VARIABLES idleTimeout,
          IsIdle, open, busy,    \* the flag; open files; a working directory in the mount
          mounted,
          pc, phase, isIdle, idleCount,      \* of the monitor; phase: how long it has slept
          quiet, sinceOpen,                  \* ghosts: time since the last operation on
          quietAtCheck                       \* a name, since a check saw an open file
monitor == << pc, phase, isIdle, idleCount, quietAtCheck >>
vars == << idleTimeout, IsIdle, open, busy, mounted, monitor, quiet, sinceOpen >>

checksDuringTimeoutPeriod == 4
MinUint64(x, y) == IF x < y THEN x ELSE y
sleepNs == MinUint64(idleTimeout \div checksDuringTimeoutPeriod, TwoMinutes)
timeoutCycles == (idleTimeout + sleepNs - 1) \div sleepNs

Init ==
    /\ idleTimeout \in IdleTimeouts
    /\ IsIdle = FALSE /\ open = 0 /\ busy = FALSE /\ mounted = TRUE
    /\ pc = "sleep" /\ phase = sleepNs /\ isIdle = FALSE /\ idleCount = 0
    /\ quiet = 0 /\ sinceOpen = 0 /\ quietAtCheck = 0

----------------------------------------------------------------------------
(* The file system.                                                        *)

\* Mutant: the marker is reset when the directory is not in the cache only.
NamedOp_cached ==
    /\ mounted /\ IsIdle' \in {FALSE, IsIdle} /\ quiet' = 0
    /\ UNCHANGED << idleTimeout, open, busy, mounted, monitor, sinceOpen >>

\* An operation on a name: prepareAtSyscall.  One on the root directory itself
\* (prepareAtSyscallMyself) leaves the marker alone.
NamedOp ==
    /\ mounted /\ IsIdle' = FALSE /\ quiet' = 0
    /\ UNCHANGED << idleTimeout, open, busy, mounted, monitor, sinceOpen >>

\* Open or Opendir, of the root or of something below it; Register.
Open ==
    /\ mounted /\ open < MaxOpen
    /\ open' = open + 1
    /\ \/ IsIdle' = FALSE /\ quiet' = 0
       \/ UNCHANGED << IsIdle, quiet >>
    /\ UNCHANGED << idleTimeout, busy, mounted, monitor, sinceOpen >>

\* Release, after the last Read or Write; Unregister.
Release ==
    /\ mounted /\ open > 0
    /\ open' = open - 1
    /\ UNCHANGED << idleTimeout, IsIdle, busy, mounted, monitor, quiet, sinceOpen >>

\* A process moves its working directory into, or out of, the mount.
ChangeDir ==
    /\ mounted /\ busy' = ~busy
    /\ UNCHANGED << idleTimeout, IsIdle, open, mounted, monitor, quiet, sinceOpen >>

----------------------------------------------------------------------------
(* idleMonitor                                                             *)

Later(t) == IF t < idleTimeout THEN t + 1 ELSE t
Tick ==
    /\ mounted /\ pc = "sleep" /\ phase < sleepNs
    /\ phase' = phase + 1
    /\ quiet' = Later(quiet)
    /\ sinceOpen' = Later(sinceOpen)
    /\ UNCHANGED << idleTimeout, IsIdle, open, busy, mounted, pc, isIdle, idleCount, quietAtCheck >>

\* isIdle := !fs.IsIdle.CompareAndSwap(false, true)
CheckFlag ==
    /\ mounted /\ pc = "sleep" /\ phase = sleepNs
    /\ isIdle' = IsIdle /\ IsIdle' = TRUE /\ quietAtCheck' = quiet
    /\ pc' = "count"
    /\ UNCHANGED << idleTimeout, open, busy, mounted, phase, idleCount, quiet, sinceOpen >>

NotIdle == ~isIdle \/ open > 0

CountOpenFiles ==
    /\ mounted /\ pc = "count"
    /\ idleCount' = IF NotIdle THEN 0 ELSE idleCount + 1
    /\ IF idleCount' > 0 /\ idleCount' % timeoutCycles = 0
       THEN pc' = "unmount" /\ UNCHANGED phase
       ELSE pc' = "sleep" /\ phase' = 0
    /\ sinceOpen' = IF open > 0 THEN 0 ELSE sinceOpen
    /\ UNCHANGED << idleTimeout, IsIdle, open, busy, mounted, isIdle, quietAtCheck, quiet >>

\* Mutant: the monitor gives up after the first failure.
Unmount_once ==
    /\ mounted /\ pc = "unmount"
    /\ IF open > 0 \/ busy THEN pc' = "done" /\ UNCHANGED mounted
       ELSE mounted' = FALSE /\ pc' = "sleep"
    /\ UNCHANGED << idleTimeout, IsIdle, open, busy, phase, isIdle, idleCount, quietAtCheck, quiet, sinceOpen >>

\* The kernel refuses to unmount what is in use.
Unmount ==
    /\ mounted /\ pc = "unmount"
    /\ IF open > 0 \/ busy THEN idleCount' = 0 /\ UNCHANGED mounted
       ELSE mounted' = FALSE /\ UNCHANGED idleCount
    /\ pc' = "sleep" /\ phase' = 0
    /\ UNCHANGED << idleTimeout, IsIdle, open, busy, isIdle, quietAtCheck, quiet, sinceOpen >>

Next == \/ NamedOp \/ Open \/ Release \/ ChangeDir
        \/ Tick \/ CheckFlag \/ CountOpenFiles \/ Unmount

Spec == Init /\ [][Next]_vars

\* Time passes, and the monitor thread is scheduled.
Monitor == Tick \/ CheckFlag \/ CountOpenFiles \/ Unmount
FairSpec == Spec /\ WF_vars(Monitor)

----------------------------------------------------------------------------
(* Properties                                                              *)

\* idleMonitor decides to unmount only when, at its last check, no operation on a
\* name had come in (prepareAtSyscall) for the whole -idle duration, and no check in
\* that time had found a file open (CountOpenFiles), however long ago it was opened.
UnmountsOnlyWhenQuiet ==
    pc = "unmount" => quietAtCheck >= idleTimeout /\ sinceOpen >= idleTimeout

\* If from some time on no file is open, no process has its working directory in
\* the mount and no name is used, idleMonitor does unmount, whatever went before.
IdleIsUnmounted == <>[](open = 0 /\ ~busy /\ IsIdle) => <>~mounted
=============================================================================

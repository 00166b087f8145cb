---------------------------- MODULE OpenWriteOnly ---------------------------
(***************************************************************************)
(* Node.Open of one file, and openWriteOnlyFile: the backing file must be  *)
(* readable even for a write-only open, so its mode is relaxed for a       *)
(* moment, under openWriteOnlyLock held for writing.  Other opens and      *)
(* chmods run next to it.  A mode is a subset of {"r", "w"}.               *)
(***************************************************************************)
EXTENDS Naturals

CONSTANTS Threads, None,
          Chmods        \* modes the user sets while files are being opened

VARIABLES mode,         \* of the backing file
          chosen,       \* ghost: the mode the user set last
          readers, writer, waiting,     \* openWriteOnlyLock
          pc, flags, perms, fd,         \* per thread; fd: opened or not
          granted       \* ghost: opens that should have failed, by access mode
vars == << mode, chosen, readers, writer, waiting, pc, flags, perms, fd, granted >>
lock == << readers, writer, waiting >>

Modes == SUBSET {"r", "w"}
AccessModes == {"O_RDONLY", "O_WRONLY", "O_RDWR"}

OpenAssumption == None \notin Threads /\ Chmods \subseteq Modes

Init ==
    /\ mode \in Modes /\ chosen = mode
    /\ readers = {} /\ writer = None /\ waiting = {}
    /\ pc = [t \in Threads |-> "idle"] /\ flags = [t \in Threads |-> None]
    /\ perms = [t \in Threads |-> {}] /\ fd = [t \in Threads |-> FALSE]
    /\ granted = {}

\* O_WRONLY becomes O_RDWR: read-modify-write.
mangleOpenCreateFlags(f) == IF f = "O_RDONLY" THEN {"r"} ELSE {"r", "w"}
\* What the caller needs.
Needs(f) == CASE f = "O_RDONLY" -> {"r"} [] f = "O_WRONLY" -> {"w"} [] OTHER -> {"r", "w"}

Goto(t, label) == pc' = [pc EXCEPT ![t] = label]
Opened(t, ok) ==
    /\ fd' = [fd EXCEPT ![t] = ok]
    /\ granted' = IF ok /\ ("r" \in Needs(flags[t]) /\ "r" \notin chosen)
                  THEN granted \union {flags[t]} ELSE granted

\* sync.RWMutex: a waiting writer holds up new readers.
RLockFree == writer = None /\ waiting = {}

Open(t) ==
    /\ pc[t] = "idle" /\ RLockFree
    /\ readers' = readers \union {t}
    /\ \E f \in AccessModes : flags' = [flags EXCEPT ![t] = f]
    /\ Goto(t, "openat")
    /\ UNCHANGED << mode, chosen, writer, waiting, perms, fd, granted >>

\* EACCES leads to openWriteOnlyFile, for a write-only open.
Openat(t) ==
    /\ pc[t] = "openat"
    /\ LET ok == mangleOpenCreateFlags(flags[t]) \subseteq mode IN
       /\ Opened(t, ok)
       /\ Goto(t, IF ~ok /\ flags[t] = "O_WRONLY" THEN "woOpen" ELSE "return")
    /\ UNCHANGED << mode, chosen, lock, flags, perms >>

\* Openat(O_WRONLY), Fstat and the check that the file is not readable.
woOpen(t) ==
    /\ pc[t] = "woOpen"
    /\ perms' = [perms EXCEPT ![t] = mode]
    /\ Goto(t, IF "w" \in mode /\ "r" \notin mode THEN "runlock" ELSE "return")
    /\ UNCHANGED << mode, chosen, lock, flags, fd, granted >>

\* Mutant: the lock is not upgraded.
Upgrade_not(t) ==
    /\ pc[t] = "runlock" /\ Goto(t, "relax")
    /\ UNCHANGED << mode, chosen, lock, flags, perms, fd, granted >>

\* Mutant: the read lock is kept while waiting for the write lock.
Upgrade_keep(t) ==
    /\ pc[t] = "runlock"
    /\ waiting' = waiting \union {t}
    /\ Goto(t, "lock")
    /\ UNCHANGED << mode, chosen, readers, writer, flags, perms, fd, granted >>

\* RUnlock; Lock waits.
Upgrade(t) ==
    /\ pc[t] = "runlock"
    /\ readers' = readers \ {t} /\ waiting' = waiting \union {t}
    /\ Goto(t, "lock")
    /\ UNCHANGED << mode, chosen, writer, flags, perms, fd, granted >>

Lock(t) ==
    /\ pc[t] = "lock" /\ readers = {} /\ writer = None
    /\ writer' = t /\ waiting' = waiting \ {t}
    /\ Goto(t, "relax")
    /\ UNCHANGED << mode, chosen, readers, flags, perms, fd, granted >>

\* Fchmod may fail: nothing to revert then.
Relax(t) ==
    /\ pc[t] = "relax"
    /\ \/ mode' = perms[t] \union {"r"} /\ Goto(t, "reopen")
       \/ Goto(t, "unlock") /\ UNCHANGED mode
    /\ UNCHANGED << chosen, lock, flags, perms, fd, granted >>

\* The open may also fail for another reason (EMFILE).
Reopen(t) ==
    /\ pc[t] = "reopen"
    /\ \/ Opened(t, mangleOpenCreateFlags(flags[t]) \subseteq mode)
       \/ Opened(t, FALSE)
    /\ Goto(t, "revert")
    /\ UNCHANGED << mode, chosen, lock, flags, perms >>

Revert(t) ==
    /\ pc[t] = "revert"
    /\ mode' = perms[t] /\ Goto(t, "unlock")
    /\ UNCHANGED << chosen, lock, flags, perms, fd, granted >>

\* Unlock, and RLock again for the caller.
Unlock(t) ==
    /\ pc[t] = "unlock"
    /\ writer' = (IF writer = t THEN None ELSE writer) /\ Goto(t, "rlock")
    /\ UNCHANGED << mode, chosen, readers, waiting, flags, perms, fd, granted >>
RLockAgain(t) ==
    /\ pc[t] = "rlock" /\ RLockFree
    /\ readers' = readers \union {t} /\ Goto(t, "return")
    /\ UNCHANGED << mode, chosen, writer, waiting, flags, perms, fd, granted >>

\* NewFile, or the error; the deferred RUnlock.
Return(t) ==
    /\ pc[t] = "return"
    /\ readers' = readers \ {t} /\ Goto(t, "idle")
    /\ flags' = [flags EXCEPT ![t] = None] /\ perms' = [perms EXCEPT ![t] = {}]
    /\ fd' = [fd EXCEPT ![t] = FALSE]
    /\ UNCHANGED << mode, chosen, writer, waiting, granted >>

\* Node.Setattr and File.setAttr take other locks only.
Chmod ==
    /\ \E m \in Chmods : mode' = m /\ chosen' = m
    /\ UNCHANGED << lock, pc, flags, perms, fd, granted >>

Step(t) ==
    \/ Openat(t) \/ woOpen(t) \/ Upgrade(t) \/ Lock(t) \/ Relax(t) \/ Reopen(t) \/ Revert(t)
    \/ Unlock(t) \/ RLockAgain(t) \/ Return(t)
Next == Chmod \/ \E t \in Threads : Open(t) \/ Step(t)

Spec == Init /\ [][Next]_vars
\* Every thread is scheduled; a sync.RWMutex lets nobody wait forever.
FairSpec == Spec /\ \A t \in Threads : SF_vars(Step(t))

----------------------------------------------------------------------------
(* Properties                                                              *)

NoReadThroughRelaxed == granted = {}
RelaxedIsReverted ==
    (\A t \in Threads : pc[t] \notin {"reopen", "revert"}) => ("r" \in mode => "r" \in chosen)

\* Open takes the lock to not "race openWriteOnlyFile()": no open for reading succeeds on
\* a file that is readable only because another open relaxed its mode; and once the
\* relaxed mode was used or failed to be, it is gone (openWriteOnlyFile only logs an error
\* of the second Fchmod; a mount that may change the mode once may change it again).
RelaxedIsPrivate == NoReadThroughRelaxed /\ RelaxedIsReverted

\* The lock upgrade does not deadlock, and no open is held up by it for ever.
OpensReturn == \A t \in Threads : []<>(pc[t] = "idle")
=============================================================================

------------------------------ MODULE MCProcess ------------------------------
(***************************************************************************)
(* The life of a gocryptfs process, from -init and -passwd over the mount  *)
(* and its signals to the unmount of an idle file system, a run of -fsck,  *)
(* and the threads of a mount that wait for one another to open files and  *)
(* to get random bytes.  The parts share no state, so each behaviour is    *)
(* one of one part; the others stay as they were made.                     *)
(***************************************************************************)
EXTENDS RandPrefetch, MountParts, IdlePart, OpenPart

CONSTANTS Paths, Root, Kind(_), Ino(_), Children(_)

VARIABLES part,
          defects, corruptList, skippedList, seenInodes, abort, todo, fsckPc, cur, op,
          watcher, reports, dropped, exit
fsckVars == << defects, corruptList, skippedList, seenInodes, abort, todo, fsckPc, cur, op,
               watcher, reports, dropped, exit >>
allVars == << part, vars, mountVars, openVars, confVars, idleVars, fsckVars >>

F == INSTANCE Fsck WITH pc <- fsckPc

ASSUME PartAssumptions ==
    /\ C!ConfigFileAssumption /\ I!IdleAssumption
    /\ O!OpenAssumption /\ PrefetchAssumption
    /\ Openers = Threads     \* the threads that serve requests

\* Options of -init: every one is set and not set, together with every kind of name; the
\* last two are refused.
MCOptions ==
    LET opt(p, d, a, x, n) == [plaintextnames |-> p, deterministic_names |-> d, aessiv |-> a,
                               xchacha |-> x, longnamemax |-> n]
    IN  {opt(FALSE, FALSE, FALSE, FALSE, 255), opt(FALSE, FALSE, TRUE, FALSE, 62),
         opt(FALSE, TRUE, FALSE, TRUE, 62), opt(FALSE, TRUE, TRUE, FALSE, 0),
         opt(TRUE, FALSE, FALSE, FALSE, 62), opt(TRUE, TRUE, FALSE, TRUE, 255),
         opt(FALSE, FALSE, TRUE, TRUE, 255), opt(TRUE, FALSE, TRUE, TRUE, 255)}

\* A file system to check: a subdirectory, a symlink in it, and a file with two names.
MCPaths == {"", "d", "d/f", "d/s", "g"}
MCKind(p) == CASE p \in {"", "d"} -> "dir" [] p \in {"d/f", "g"} -> "file" [] OTHER -> "symlink"
MCIno(p) == CASE p = "" -> 1 [] p = "d" -> 2 [] p \in {"d/f", "g"} -> 3 [] OTHER -> 4
MCChildren(p) == CASE p = "" -> << "d", "g" >> [] p = "d" -> << "d/f", "d/s" >> [] OTHER -> << >>

\* A part that does not run starts in one of its initial states only.
MCInit ==
    /\ part \in {"ConfigFile", "Mount", "IdleMonitor", "Fsck", "OpenWriteOnly", "RandPrefetch"}
    /\ Init /\ M!Init /\ C!Init
    /\ I!Init /\ (part # "IdleMonitor" => \A t \in IdleTimeouts : idleTimeout <= t)
    /\ O!Init /\ (part # "OpenWriteOnly" => mode = {})
    /\ F!Init /\ (part # "Fsck" => \A i \in DOMAIN defects : defects[i] = {})

Monitors(A) == /\ part = "IdleMonitor" /\ A
               /\ UNCHANGED << part, vars, mountVars, openVars, confVars, fsckVars >>
Checks(A) == /\ part = "Fsck" /\ A
             /\ UNCHANGED << part, vars, mountVars, openVars, confVars, idleVars >>
Opens(A) == /\ part = "OpenWriteOnly" /\ A
            /\ UNCHANGED << part, vars, mountVars, confVars, idleVars, fsckVars >>
Reads(A) == /\ part = "RandPrefetch" /\ A
            /\ UNCHANGED << part, mountVars, openVars, confVars, idleVars, fsckVars >>

MCNext ==
    \/ /\ part = "Mount" /\ M!Next
       /\ UNCHANGED << part, vars, openVars, confVars, idleVars, fsckVars >>
    \/ /\ part = "ConfigFile" /\ C!Next
       /\ UNCHANGED << part, vars, mountVars, openVars, idleVars, fsckVars >>
    \/ Monitors(I!Next) \/ Checks(F!Next) \/ Opens(O!Next) \/ Reads(Next)

\* The fairness of the parts; only one of them takes steps.
MCSpec ==
    /\ MCInit /\ [][MCNext]_allVars
    /\ WF_allVars(Monitors(I!Monitor) \/ Checks(F!Walk) \/ Reads(refillWorker))
    /\ WF_allVars(Checks(F!Report)) /\ WF_allVars(Checks(F!WatcherMarks))
    /\ \A t \in Threads : SF_allVars(Opens(O!Step(t)) \/ Reads(Step(t)))

----------------------------------------------------------------------------
(* The properties of the parts, under their own names.                     *)

\* A file system that stays idle is unmounted (idleMonitor); the other parts have no monitor.
IdleIsUnmounted == part = "IdleMonitor" => I!IdleIsUnmounted
\* An -fsck that says "ok" has met nothing that is damaged.
ExitZeroMeansClean == F!ExitZeroMeansClean
\* Nobody waits forever: every open gets through openWriteOnlyLock, every read of random
\* bytes gets them though it waits for a mutex whose holder waits for refillWorker; and
\* -fsck ends though the walk, its watchers and the FUSE threads wait for each other.
NothingHangs ==
    /\ \A t \in Threads : []<>(openPc[t] = "idle" /\ pc[t] = "idle")
    /\ part = "Fsck" => F!FsckEnds
=============================================================================

----------------------------- MODULE MountParts -----------------------------
(***************************************************************************)
(* The commands -init and -passwd, and the life of the gocryptfs process   *)
(* that mounts.  The two share no state.                                   *)
(***************************************************************************)

CONSTANTS Procs,        \* gocryptfs processes that mount
          Commands,     \* gocryptfs processes that run -init or -passwd
          Missing,      \* no socket, no file
          Passwords, MasterKey, WrongKey, Options, Partial, MaxRuns

VARIABLES sockfile, listener, mnt, keys, main, sig, diedOf, parent, usr1, served,
          conf, tmp, bak, diriv, ready, raced, zeroed, runs, confPc, job
mountVars == << sockfile, listener, mnt, keys, main, sig, diedOf, parent, usr1, served >>
confVars == << conf, tmp, bak, diriv, ready, raced, zeroed, runs, confPc, job >>

M == INSTANCE Mount WITH None <- Missing
C == INSTANCE ConfigFile WITH Procs <- Commands, None <- Missing, pc <- confPc

\* A mount has its keys and its server as long as it is there (doMount, handleSigint).
MountIsServed == M!MountIsServed
\* The exit status of the parent says whether the file system was mounted (forkChild).
ParentTellsOutcome == M!ParentTellsOutcome
\* gocryptfs.conf can be loaded at any time, and the master key is never lost with it
\* (WriteFile, changePassword, initDir).
MasterKeySurvives == C!MasterKeySurvives
=============================================================================

------------------------------ MODULE UserPart ------------------------------
(***************************************************************************)
(* The goroutines that make system calls for a user (AsUser), as a part of *)
(* a mount.                                                                *)
(***************************************************************************)

CONSTANTS Goroutines, OSThreads, Users, Nobody

VARIABLES groups, gid, uid, locked, userPc, context, wrong
userVars == << groups, gid, uid, locked, userPc, context, wrong >>

U == INSTANCE AsUser WITH Threads <- Goroutines, None <- Nobody, pc <- userPc

\* A system call made for a user runs with the credentials of that user, and any other
\* with those of gocryptfs (asUser).
CredentialsMatch == U!CredentialsMatch
=============================================================================

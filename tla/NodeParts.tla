------------------------------ MODULE NodeParts -----------------------------
(***************************************************************************)
(* What the requests on names go through: inode numbers and the cache of   *)
(* directory descriptors.  The two share no state.                         *)
(***************************************************************************)
EXTENDS InoMap

CONSTANTS Threads, None, DirInos, DirNames, dirCacheSize, MaxFd, MaxGen

VARIABLES gen, at, tree, moved, fds, entries, nextIndex, dirPc, loc
dirVars == << gen, at, tree, moved, fds, entries, nextIndex, dirPc, loc >>

D == INSTANCE DirCache WITH Inos <- DirInos, Names <- DirNames, pc <- dirPc

\* prepareAtSyscall hands out the right directory, unless a rename overtakes it, and the
\* IV of that directory, and every open directory descriptor has one owner (dirCache).
DirCacheIsSound == D!DirCacheIsSound
=============================================================================

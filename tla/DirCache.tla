------------------------------ MODULE DirCache ------------------------------
(***************************************************************************)
(* The cache of directory descriptors and IVs, the operations that fill    *)
(* and use it (prepareAtSyscall), its expire thread, and the descriptor    *)
(* table and directories beneath.  A Node is known by its inode number,    *)
(* which the backing file system may reuse for a new directory.            *)
(*                                                                         *)
(* All directories are in the root.  The slow path opens a directory by    *)
(* the name go-fuse has for the Node, which it asks for first; the backing *)
(* directory changes before go-fuse is told, and both may change while the *)
(* path is under way.  The descriptor of the root, held meanwhile, takes   *)
(* no place in the table.                                                  *)
(***************************************************************************)
EXTENDS Naturals

CONSTANTS Threads, Inos, dirCacheSize,
          Names,      \* encrypted names in the root directory
          MaxFd,      \* bound: descriptors 1..MaxFd; none free means EMFILE
          MaxGen,     \* bound: directories made per inode number
          None

Dirs == Inos \X (1 .. MaxGen)

DirCacheAssumption ==
    /\ {dirCacheSize, MaxFd, MaxGen} \subseteq Nat \ {0}
    /\ None \notin Inos \union (Inos \X Nat) \union Names

VARIABLES gen,                 \* inode number -> its latest directory, 0 for none yet
          at,                  \* name -> the directory << ino, gen >> there, or None
          tree,                \* what go-fuse knows: Node -> its name, or None
          moved,               \* Nodes with another name than go-fuse has been told
          fds,                 \* descriptor -> None or the open directory << ino, gen >>
          entries, nextIndex,  \* [node, fd, iv], 0 for an fd that is not there
          pc, loc              \* threads: [node, fd, iv], and the name of the Node.
\* Both have a field sure as well (history): no change of name has overtaken the slow
\* path that opened the directory.
dirs == << gen, at, tree, moved >>
cache == << entries, nextIndex >>
vars == << dirs, fds, cache, pc, loc >>

Empty == [node |-> None, fd |-> 0, iv |-> None, name |-> None, sure |-> TRUE]

Init ==
    /\ gen = [i \in Inos |-> 0] /\ at = [n \in Names |-> None]
    /\ tree = [i \in Inos |-> None] /\ moved = {}
    /\ fds = [f \in 1..MaxFd |-> None]
    /\ entries = [k \in 1..dirCacheSize |-> Empty] /\ nextIndex = 1
    /\ pc = [t \in Threads |-> "idle"] /\ loc = [t \in Threads |-> Empty]

Lowest(S) == {n \in S : \A m \in S : n <= m}
FreeFds == {f \in DOMAIN fds : fds[f] = None}
\* The IV of a directory never changes, and no two have the same.
IvOf(d) == d
\* The directory a Node stands for.
DirOf(i) == << i, gen[i] >>
Linked(d) == \E n \in Names : at[n] = d

----------------------------------------------------------------------------
(* The backing file system, and what go-fuse knows of it.  The kernel lets *)
(* one request at a time change the names in a directory.                  *)

Mkdir(i, n) ==
    /\ moved = {} /\ at[n] = None
    /\ ~Linked(DirOf(i)) /\ gen[i] < MaxGen
    /\ \A f \in DOMAIN fds : fds[f] # DirOf(i)            \* an open inode is not reused
    /\ gen' = [gen EXCEPT ![i] = @ + 1] /\ at' = [at EXCEPT ![n] = << i, gen[i] + 1 >>]
    /\ moved' = {i}
    /\ UNCHANGED << tree, fds, cache, pc, loc >>

\* Names change, perhaps under a request that has asked for one and not used it yet.
Relink(new) ==
    /\ moved = {} /\ at' = new
    /\ moved' = {i \in Inos : \E n \in Names : at[n] = DirOf(i) /\ new[n] # at[n]}
    /\ loc' = [t \in Threads |->
                  IF pc[t] = "open" /\ new[loc[t].name] # at[loc[t].name]
                  THEN [loc[t] EXCEPT !.sure = FALSE] ELSE loc[t]]
    /\ UNCHANGED << gen, tree, fds, cache, pc >>

Rmdir(n) == at[n] # None /\ Relink([at EXCEPT ![n] = None])
\* Node.Rename: an empty directory at the new name is removed first.
Rename(old, n) == at[old] # None /\ old # n /\ Relink([at EXCEPT ![n] = at[old], ![old] = None])
\* With RENAME_EXCHANGE.
Exchange(old, n) ==
    /\ at[old] # None /\ at[n] # None /\ old # n
    /\ Relink([at EXCEPT ![n] = at[old], ![old] = at[n]])

\* The request succeeds, and go-fuse changes its tree.
Reply ==
    /\ moved # {} /\ moved' = {}
    /\ tree' = [i \in Inos |->
                   IF Linked(DirOf(i)) THEN CHOOSE n \in Names : at[n] = DirOf(i) ELSE None]
    /\ UNCHANGED << gen, at, fds, cache, pc, loc >>

----------------------------------------------------------------------------
(* dirCache; each operation holds the mutex.                               *)

Hits(node) == {k \in DOMAIN entries : entries[k].fd > 0 /\ entries[k].node = node}
Step(t, label, l) == pc' = [pc EXCEPT ![t] = label] /\ loc' = [loc EXCEPT ![t] = l]

\* prepareAtSyscall(node): a hit, a miss, or a hit whose Dup fails (a miss, too).
Lookup(t, node) ==
    /\ pc[t] = "idle"
    /\ IF Hits(node) = {} \/ FreeFds = {}
       THEN Step(t, "parent", [Empty EXCEPT !.node = node]) /\ UNCHANGED fds
       ELSE \E k \in Lowest(Hits(node)), f \in Lowest(FreeFds) :
                /\ fds' = [fds EXCEPT ![f] = fds[entries[k].fd]]
                /\ Step(t, "use", [entries[k] EXCEPT !.fd = f])
    /\ UNCHANGED << dirs, cache >>

\* The slow path, prepareAtSyscallMyself: n.Parent() ...
Parent(t) ==
    /\ pc[t] = "parent"
    /\ LET i == loc[t].node IN
       IF tree[i] = None THEN Step(t, "idle", Empty)
       ELSE Step(t, "open", [loc[t] EXCEPT !.name = tree[i], !.sure = i \notin moved])
    /\ UNCHANGED << dirs, fds, cache >>

\* ... Openat of what has that name now ...
OpenDir(t) ==
    /\ pc[t] = "open"
    /\ LET d == at[loc[t].name] IN
       IF d # None /\ FreeFds # {}
       THEN \E f \in Lowest(FreeFds) :
            /\ fds' = [fds EXCEPT ![f] = d]
            /\ Step(t, "readIV", [loc[t] EXCEPT !.fd = f, !.name = None])
       ELSE Step(t, "idle", Empty) /\ UNCHANGED fds
    /\ UNCHANGED << dirs, cache >>

\* ... and ReadDirIVAt, which fails in a directory that has been removed.
ReadDirIVAt(t) ==
    /\ pc[t] = "readIV"
    /\ LET d == fds[loc[t].fd] IN
       \/ /\ Linked(d)
          /\ Step(t, "store", [loc[t] EXCEPT !.iv = IvOf(d)]) /\ UNCHANGED fds
       \/ /\ ~Linked(d)
          /\ fds' = [fds EXCEPT ![loc[t].fd] = None] /\ Step(t, "idle", Empty)
    /\ UNCHANGED << dirs, cache >>

\* dirCacheEntry.Clear, on a descriptor table.
Cleared(ff, e) == IF e.fd > 0 THEN [ff EXCEPT ![e.fd] = None] ELSE ff

\* Mutant: the caller's descriptor is stored, not a duplicate.
Store_noDup(t) ==
    /\ pc[t] = "store"
    /\ nextIndex' = (nextIndex % dirCacheSize) + 1
    /\ fds' = Cleared(fds, entries[nextIndex])
    /\ entries' = [entries EXCEPT ![nextIndex] = loc[t]]
    /\ Step(t, "use", loc[t])
    /\ UNCHANGED dirs

Store(t) ==
    /\ pc[t] = "store"
    /\ nextIndex' = (nextIndex % dirCacheSize) + 1
    /\ LET ff == Cleared(fds, entries[nextIndex])
           free == {f \in DOMAIN ff : ff[f] = None}
       IN  IF free = {}
           THEN fds' = ff /\ entries' = [entries EXCEPT ![nextIndex] = Empty]
           ELSE \E f \in Lowest(free) :
                /\ fds' = [ff EXCEPT ![f] = ff[loc[t].fd]]
                /\ entries' = [entries EXCEPT ![nextIndex] = [loc[t] EXCEPT !.fd = f]]
    /\ Step(t, "use", loc[t])
    /\ UNCHANGED dirs

\* The operation is done: defer syscall.Close(dirfd).
Close(t) ==
    /\ pc[t] = "use"
    /\ fds' = [fds EXCEPT ![loc[t].fd] = None] /\ Step(t, "idle", Empty)
    /\ UNCHANGED << dirs, cache >>

\* expireThread: Clear of the whole cache.
Expire ==
    /\ \E k \in DOMAIN entries : entries[k] # Empty
    /\ fds' = [f \in DOMAIN fds |-> IF \E k \in DOMAIN entries : entries[k].fd = f
                                    THEN None ELSE fds[f]]
    /\ entries' = [k \in DOMAIN entries |-> Empty]
    /\ UNCHANGED << dirs, nextIndex, pc, loc >>

Next ==
    \/ \E n \in Names : Rmdir(n) \/ \E i \in Inos : Mkdir(i, n)
    \/ \E old, n \in Names : Rename(old, n) \/ Exchange(old, n)
    \/ Reply
    \/ \E t \in Threads : \/ \E i \in Inos : Lookup(t, i)
                          \/ Parent(t) \/ OpenDir(t) \/ ReadDirIVAt(t) \/ Store(t) \/ Close(t)
    \/ Expire

Spec == Init /\ [][Next]_vars

----------------------------------------------------------------------------
(* Properties                                                              *)

\* prepareAtSyscall hands out a descriptor and the IV of one and the same directory:
\* never a descriptor someone else has closed and the system reused.  It is the
\* directory the Node stands for now, however it has been renamed since and even if
\* the inode number had been another directory's before, unless the directory got
\* another name between n.Parent() and Openat.  (Then the descriptor can be that of a
\* directory that has got the name instead, and the cache keeps it until it expires.)
RightDirectory ==
    \A t \in Threads : pc[t] = "use" =>
        /\ fds[loc[t].fd] # None /\ loc[t].iv = IvOf(fds[loc[t].fd])
        /\ loc[t].sure => fds[loc[t].fd] = DirOf(loc[t].node)

\* Every open descriptor belongs to one cache entry or to one operation, so that
\* an idle mount holds no more than dirCacheSize of them.
Owners(f) ==
    ({"entry"} \X {k \in DOMAIN entries : entries[k].fd = f})
        \union ({"operation"} \X {t \in Threads : loc[t].fd = f})
NoFdLeak ==
    \A f \in DOMAIN fds :
        IF fds[f] = None THEN Owners(f) = {} ELSE \E o \in Owners(f) : Owners(f) = {o}

\* The two together: what the cache hands out is right, and nothing it takes is lost
\* (dirCache.Store, Lookup, Clear, prepareAtSyscall).
DirCacheIsSound == RightDirectory /\ NoFdLeak
=============================================================================

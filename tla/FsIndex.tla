------------------------------- MODULE FsIndex -------------------------------
(***************************************************************************)
(* The blob store and its index cache: one blob per file, whose info-chunk *)
(* says where the file is in the tree, and idx/tree, a cache of the whole  *)
(* tree that is trusted unless idx/dirty exists.  A client creates, moves  *)
(* and deletes files as the two packages ask: MarkDirty before a batch of  *)
(* blob mutations, Put or Remove after each, Save at the end.  Every file  *)
(* system call is a step; the process may die between any two of them.     *)
(***************************************************************************)
EXTENDS Naturals, FiniteSets

CONSTANTS
    Threads,
    Uuids,        \* files and directories
    RootDirUUID,  \* the root directory
    Dirs,         \* the Uuids that are directories
    Names,
    None, Torn,
    Settings      \* the circumstances considered: records with the threads that
                  \* run, the uuids they use, and a bound on the crashes

FsIndexAssumption ==
    /\ Dirs \subseteq Uuids /\ RootDirUUID \notin Uuids
    /\ Settings \subseteq [threads : SUBSET Threads, uuids : SUBSET Uuids, crashes : Nat]

TREE == "tree"                                   \* idx/tree
Blobs == Uuids \union {RootDirUUID}
Files == Blobs \union {TREE}
Places == (Dirs \union {RootDirUUID}) \X Names   \* ParentDirID and Name
NoParent == << None, None >>                     \* of the root directory
Records == Places \union {NoParent}

VARIABLES
    disk,      \* blobs (a record each) and idx/tree (a set of << uuid, record >>)
    tmp,       \* the .tmp siblings
    dirty,     \* does idx/dirty exist?
    recs,      \* Index.recs, None where there is no record
    children,  \* Index.children, by place
    crashes,
    pc, loc,   \* per thread
    setting    \* the circumstances of this behaviour; never changes
vars == << disk, tmp, dirty, recs, children, crashes, pc, loc, setting >>
diskVars == << disk, tmp, dirty >>
memVars == << recs, children >>

NoLoc == [file |-> TREE, data |-> None, then |-> "idle", moved |-> FALSE]

Init ==
    /\ disk = [f \in Files |-> None] /\ tmp = [f \in Files |-> None]
    /\ dirty = FALSE
    /\ recs = [u \in Blobs |-> None] /\ children = [p \in Places |-> None]
    /\ crashes = 0
    /\ pc = [t \in Threads |-> "down"] /\ loc = [t \in Threads |-> NoLoc]
    /\ setting \in Settings

Goto(t, label) == pc' = [pc EXCEPT ![t] = label]
Set(t, r) == loc' = [loc EXCEPT ![t] = r]

----------------------------------------------------------------------------
(* The in-memory tree.                                                     *)

IsRoot(u, r) == u = RootDirUUID /\ r = NoParent

\* Mutant: the old entry stays.
putLocked_keepOld(u, r) ==
    /\ recs' = [recs EXCEPT ![u] = r]
    /\ children' = IF IsRoot(u, r) THEN children ELSE [children EXCEPT ![r] = u]

putLocked(u, r) ==
    LET old == recs[u]
        gone == IF old \in Places /\ old # r THEN [children EXCEPT ![old] = None] ELSE children
    IN  /\ recs' = [recs EXCEPT ![u] = r]
        /\ children' = IF IsRoot(u, r) THEN gone ELSE [gone EXCEPT ![r] = u]

Remove(u) ==
    IF recs[u] = None THEN UNCHANGED memVars
    ELSE /\ recs' = [recs EXCEPT ![u] = None]
         /\ children' = [p \in Places |-> IF p = recs[u] \/ p[1] = u THEN None ELSE children[p]]

\* Rebuild and decodeBody: putLocked of one record after the other.  Of two
\* records with one place the last in the order of the blob ids wins.
BuiltFrom(s) ==
    /\ recs' = [u \in Blobs |-> IF \E e \in s : e[1] = u THEN (CHOOSE e \in s : e[1] = u)[2] ELSE None]
    /\ children' = [p \in Places |->
          LET here == {e \in s : e[2] = p} IN IF here = {} THEN None ELSE (CHOOSE e \in here : TRUE)[1]]

Lookup(p) == children[p]
HasChildren(u) == \E p \in Places : p[1] = u /\ children[p] # None

----------------------------------------------------------------------------
(* WriteFileAtomic.                                                        *)

\* Mutant: the file itself is truncated and written.
WriteFileAtomic_inPlace(t, f, data, then) ==
    /\ disk' = [disk EXCEPT ![f] = Torn] /\ tmp' = [tmp EXCEPT ![f] = Torn]
    /\ Goto(t, "write") /\ Set(t, [file |-> f, data |-> data, then |-> then, moved |-> FALSE])
    /\ UNCHANGED dirty
\* Open the .tmp file with O_CREATE and O_TRUNC.
WriteFileAtomic(t, f, data, then) ==
    /\ tmp' = [tmp EXCEPT ![f] = Torn]
    /\ Goto(t, "write") /\ Set(t, [file |-> f, data |-> data, then |-> then, moved |-> FALSE])
    /\ UNCHANGED << disk, dirty >>

\* An error: the .tmp file goes, the caller gets the error.
WfaFailed(t) ==
    /\ tmp' = [tmp EXCEPT ![loc[t].file] = None]
    /\ Goto(t, "error") /\ UNCHANGED << disk, dirty, memVars, crashes, loc >>

\* Write and Sync.  When another thread has renamed the file away, the data
\* goes into what is now the target, over the data that is there.
WfaWrite(t) ==
    /\ pc[t] = "write"
    /\ \/ /\ ~loc[t].moved /\ tmp' = [tmp EXCEPT ![loc[t].file] = loc[t].data]
          /\ Goto(t, "rename") /\ UNCHANGED << disk, dirty, memVars, crashes, loc >>
       \/ /\ loc[t].moved
          /\ \E d \in {loc[t].data, Torn} : disk' = [disk EXCEPT ![loc[t].file] = d]
          /\ Goto(t, "rename") /\ UNCHANGED << tmp, dirty, memVars, crashes, loc >>
       \/ WfaFailed(t)

\* Rename, and fsync of the directory.
WfaRename(t) ==
    LET f == loc[t].file
    IN  /\ pc[t] = "rename"
        /\ \/ /\ tmp[f] # None
              /\ disk' = [disk EXCEPT ![f] = tmp[f]] /\ tmp' = [tmp EXCEPT ![f] = None]
              /\ loc' = [o \in Threads |->
                    IF o # t /\ pc[o] = "write" /\ loc[o].file = f
                    THEN [loc[o] EXCEPT !.moved = TRUE] ELSE loc[o]]
              /\ Goto(t, loc[t].then)
              /\ UNCHANGED << dirty, memVars, crashes >>
           \/ WfaFailed(t)

\* The caller reports the error and goes on with its batch, or gives up opening.
Error(t) ==
    /\ pc[t] = "error"
    /\ Goto(t, IF loc[t].then \in {"put", "clean"} THEN "batch" ELSE "down") /\ Set(t, NoLoc)
    /\ UNCHANGED << diskVars, memVars, crashes >>

----------------------------------------------------------------------------
(* Opening: blobstore.Init, then LoadOrRebuild.  One thread does it.       *)

Down == \A t \in Threads : pc[t] = "down"

\* Init writes the root blob unless it is there.
InitRoot(t) ==
    /\ Down
    /\ IF disk[RootDirUUID] = None
       THEN WriteFileAtomic(t, RootDirUUID, NoParent, "load")
       ELSE Goto(t, "load") /\ UNCHANGED << diskVars, loc >>
    /\ UNCHANGED << memVars, crashes >>

\* Scan: what the blobs say.  Unreadable ones are skipped.
Scan == {<< u, disk[u] >> : u \in {u \in Blobs : disk[u] \in Records}}

Loadable == ~dirty /\ disk[TREE] \notin {None, Torn}
Load(t) ==
    /\ pc[t] = "load" /\ Loadable
    /\ BuiltFrom(disk[TREE])
    /\ Goto(t, "open") /\ Set(t, NoLoc)
    /\ UNCHANGED << diskVars, crashes >>
Rebuild(t) ==
    /\ pc[t] = "load" /\ ~Loadable
    /\ BuiltFrom(Scan)
    /\ Goto(t, "rebuilt") /\ Set(t, NoLoc)
    /\ UNCHANGED << diskVars, crashes >>

\* LoadOrRebuild is done: the threads may use the index.
Opened(t) ==
    /\ pc[t] = "open"
    /\ pc' = [o \in Threads |-> "idle"] /\ Set(t, NoLoc)
    /\ UNCHANGED << diskVars, memVars, crashes >>

----------------------------------------------------------------------------
(* A batch of mutations.                                                   *)

MarkDirty(t) ==
    /\ pc[t] = "idle"
    /\ dirty' = TRUE
    /\ Goto(t, "batch")
    /\ UNCHANGED << disk, tmp, memVars, crashes, loc >>

\* The caller lets no two operations on a file, or in one place or directory
\* that is going away, overlap.
Free(t, u, p) ==
    \A o \in Threads \ {t} : pc[o] \in {"write", "rename", "error", "put", "remove"} =>
        /\ loc[o].file \notin {u, p[1]}
        /\ loc[o].file # TREE /\ pc[o] # "remove" => loc[o].data # p /\ loc[o].data[1] # u

\* WriteMeta (a new file) and ReplaceMeta (a move), at a free place.
WriteMeta(t, u, p) ==
    /\ pc[t] = "batch" /\ Lookup(p) = None /\ Free(t, u, p)
    /\ p[1] # u /\ (p[1] \in Uuids => recs[p[1]] # None) /\ ~HasChildren(u)
    /\ recs[u] # None => disk[u] \in Records       \* ReadMeta of ReplaceMeta
    /\ WriteFileAtomic(t, u, p, "put")
    /\ UNCHANGED << memVars, crashes >>
Put(t) ==
    /\ pc[t] = "put"
    /\ putLocked(loc[t].file, loc[t].data)
    /\ Goto(t, "batch") /\ Set(t, NoLoc)
    /\ UNCHANGED << diskVars, crashes >>

Delete(t, u) ==
    /\ pc[t] = "batch" /\ recs[u] # None /\ ~HasChildren(u) /\ Free(t, u, NoParent)
    /\ disk' = [disk EXCEPT ![u] = None]
    /\ Goto(t, "remove") /\ Set(t, [NoLoc EXCEPT !.file = u])
    /\ UNCHANGED << tmp, dirty, memVars, crashes >>
RemoveEntry(t) ==
    /\ pc[t] = "remove"
    /\ Remove(loc[t].file)
    /\ Goto(t, "batch") /\ Set(t, NoLoc)
    /\ UNCHANGED << diskVars, crashes >>

\* Save, up to the .tmp file; then WriteFileAtomic; then the marker goes.
encodeBody == {<< u, recs[u] >> : u \in {u \in Blobs : recs[u] # None}}
\* Mutant: the marker goes before the tree is written.
Save_clearFirst(t) ==
    /\ pc[t] \in {"batch", "rebuilt"}
    /\ dirty' = FALSE /\ tmp' = [tmp EXCEPT ![TREE] = Torn]
    /\ Goto(t, "write")
    /\ Set(t, [file |-> TREE, data |-> encodeBody, moved |-> FALSE,
               then |-> IF pc[t] = "batch" THEN "clean" ELSE "cleanOpen"])
    /\ UNCHANGED << disk, memVars, crashes >>
Save(t) ==
    /\ pc[t] \in {"batch", "rebuilt"}
    /\ WriteFileAtomic(t, TREE, encodeBody, IF pc[t] = "batch" THEN "clean" ELSE "cleanOpen")
    /\ UNCHANGED << memVars, crashes >>
ClearDirty(t) ==
    /\ pc[t] \in {"clean", "cleanOpen"}
    /\ dirty' = FALSE
    /\ Goto(t, IF pc[t] = "clean" THEN "idle" ELSE "open") /\ Set(t, NoLoc)
    /\ UNCHANGED << disk, tmp, memVars, crashes >>

\* The process dies; what it has written stays.
Crash ==
    /\ ~Down /\ crashes < setting.crashes
    /\ crashes' = crashes + 1
    /\ recs' = [u \in Blobs |-> None] /\ children' = [p \in Places |-> None]
    /\ pc' = [t \in Threads |-> "down"] /\ loc' = [t \in Threads |-> NoLoc]
    /\ UNCHANGED diskVars

Step(t) ==
    \/ InitRoot(t) \/ Load(t) \/ Rebuild(t) \/ Opened(t)
    \/ MarkDirty(t) \/ Put(t) \/ RemoveEntry(t) \/ Save(t) \/ ClearDirty(t)
    \/ WfaWrite(t) \/ WfaRename(t) \/ Error(t)
    \/ \E u \in setting.uuids : Delete(t, u)
    \/ \E u \in setting.uuids, p \in Places : WriteMeta(t, u, p)

Next ==
    /\ \/ \E t \in setting.threads : Step(t)
       \/ Crash
    /\ UNCHANGED setting

Spec == Init /\ [][Next]_vars

----------------------------------------------------------------------------
(* Properties                                                              *)

\* One thread has the store for itself.
Alone == Cardinality(setting.threads) = 1

\* "A crash between a blob write and the matching cache update is caught on the
\* next open via the idx/dirty marker" (fsindex.go:7): whenever Load would
\* accept idx/tree, it says what the blobs say.
AcceptedCacheIsCurrent == Alone /\ Loadable => disk[TREE] = Scan

\* Between two calls the tree in memory is the one the blobs describe, and its
\* directory entries are those of its records (putLocked, Remove).
IndexMatchesBlobs ==
    (\A t \in setting.threads : pc[t] \in {"idle", "batch"}) =>
        /\ encodeBody = Scan
        /\ \A p \in Places, u \in Uuids : children[p] = u <=> recs[u] = p

\* "A crash at any point leaves either the old file intact or the new file fully
\* in place" (WriteFileAtomic).
NothingTorn == Alone => \A f \in Files : disk[f] # Torn

=============================================================================

-------------------------------- MODULE Fsck --------------------------------
(***************************************************************************)
(* gocryptfs -fsck walks a temporary mount of the file system.  What the   *)
(* FUSE threads repair on the fly they send over the unbuffered channel    *)
(* MitigatedCorruptions; a watcher goroutine per call takes it from there  *)
(* until the walk ends it over the unbuffered channel watchDone.           *)
(***************************************************************************)
EXTENDS Naturals, Sequences, FiniteSets

CONSTANTS Paths, Root,
          Kind(_),          \* path -> "dir", "file" or "symlink"
          Ino(_),           \* path -> inode number; equal for hard links
          Children(_),      \* path -> sequence of paths, sorted
          None

VARIABLES defects,          \* what is wrong on disk: inode -> set of defects
          corruptList, skippedList, seenInodes, abort,
          todo,             \* the walk: paths still to visit, next first
          pc, cur, op,      \* of the walk: the path it is at and the call it makes
          watcher,          \* [path, item]: what it marks, whether it holds an item
          reports,          \* reports the FUSE thread of the call has still to send
          dropped,          \* ghost: a report was dropped
          exit
vars == << defects, corruptList, skippedList, seenInodes, abort, todo, pc, cur, op,
           watcher, reports, dropped, exit >>
lists == << corruptList, skippedList, seenInodes >>

\* Calls that fail, calls that succeed with a report, and calls only root may make.
\* A symlink has no extended attributes.
Defects(kind) ==
    LET xattr == {"xattr name", "listxattr fails", "xattr value", "xattr denied"}
    IN  {"lstat fails"} \union
        CASE kind = "dir" -> xattr \union {"opendir fails", "open denied", "name", "readdir fails"}
          [] kind = "file" -> xattr \union {"open fails", "open denied", "header", "read fails"}
          [] kind = "symlink" -> {"readlink fails"}
AllDefects == UNION {Defects(k) : k \in {"dir", "file", "symlink"}}
Has(path, d) == d \in defects[Ino(path)]

\* Bound: one defect per inode, on at most two inodes; the root has none that
\* keeps it from being stated.
Init ==
    /\ defects \in [{Ino(p) : p \in Paths} -> {{}} \union {{d} : d \in AllDefects}]
    /\ \A p \in Paths : defects[Ino(p)] \subseteq Defects(Kind(p))
    /\ Cardinality({i \in DOMAIN defects : defects[i] # {}}) <= 2
    /\ ~Has(Root, "lstat fails")
    /\ corruptList = {} /\ skippedList = {} /\ seenInodes = {} /\ abort = FALSE
    /\ todo = << >> /\ pc = "visit" /\ cur = Root /\ op = None
    /\ watcher = None /\ reports = 0 /\ dropped = FALSE /\ exit = None

nlink(path) == Cardinality({p \in Paths : Ino(p) = Ino(path)})

----------------------------------------------------------------------------
(* The walk: dir, file, symlink, xattrs.                                   *)

At(label) == pc = label /\ exit = None
Marked(path) == corruptList' = corruptList \union {path} /\ UNCHANGED << skippedList, seenInodes >>
Skipped(path) == skippedList' = skippedList \union {path} /\ UNCHANGED << corruptList, seenInodes >>

\* The next entry of the directories that are open; a walk that was aborted
\* returns instead.
Entry ==
    /\ At("entry") /\ ~abort /\ todo # << >>
    /\ cur' = Head(todo) /\ todo' = Tail(todo)
    /\ IF Has(cur', "lstat fails")
       THEN Marked(cur') /\ UNCHANGED pc
       ELSE pc' = (IF Kind(cur') = "symlink" THEN "readlink" ELSE "visit") /\ UNCHANGED lists
    /\ UNCHANGED << defects, abort, op, watcher, reports, dropped, exit >>

\* Hard links are checked once.  dir and file both begin with xattrs.
Visit ==
    /\ At("visit")
    /\ IF Kind(cur) = "file" /\ nlink(cur) > 1 /\ Ino(cur) \in seenInodes
       THEN pc' = "entry" /\ UNCHANGED << lists, op >>
       ELSE /\ pc' = "spawn" /\ op' = "listxattr"
            /\ seenInodes' = (IF Kind(cur) = "file" /\ nlink(cur) > 1
                              THEN seenInodes \union {Ino(cur)} ELSE seenInodes)
            /\ UNCHANGED << corruptList, skippedList >>
    /\ UNCHANGED << defects, abort, todo, cur, watcher, reports, dropped, exit >>

symlink ==
    /\ At("readlink") /\ pc' = "entry"
    /\ IF Has(cur, "readlink fails") THEN Marked(cur) ELSE UNCHANGED lists
    /\ UNCHANGED << defects, abort, todo, cur, op, watcher, reports, dropped, exit >>

Reported == [listxattr |-> "xattr name", opendir |-> "none", readdir |-> "name", read |-> "header"]

\* go ck.watchMitigatedCorruptions...; then the call, one or two bad items in it.
Spawn ==
    /\ At("spawn")
    /\ watcher' = [path |-> cur, item |-> FALSE]
    /\ reports' \in (IF Has(cur, Reported[op]) THEN 1..2 ELSE {0})
    /\ pc' = "call"
    /\ UNCHANGED << defects, lists, abort, todo, cur, op, dropped, exit >>

\* ReadAt may fail while the watcher runs; file looks at abort between two reads.
Returned ==
    /\ At("call") /\ reports = 0 /\ pc' = "done"
    /\ \/ op = "read" /\ Has(cur, "read fails") /\ Marked(cur)
       \/ (op = "read" /\ Has(cur, "read fails") => abort) /\ UNCHANGED lists
    /\ UNCHANGED << defects, abort, todo, cur, op, watcher, reports, dropped, exit >>

\* Mutant: the walk does not wait for the watcher.
Rendezvous_not == TRUE
\* ck.watchDone <- struct{}{}: the watcher is in its select.
Rendezvous == watcher # None /\ ~watcher.item

\* os.Open wraps EACCES in a PathError, which is never == os.ErrPermission.
OpenFailed == Has(cur, IF Kind(cur) = "dir" THEN "opendir fails" ELSE "open fails")
              \/ Has(cur, "open denied")

\* The watcher has ended.  An error ends the visit, except of xattrs, whose caller
\* goes on in any case.
WatchDone ==
    /\ At("done") /\ Rendezvous
    /\ watcher' = None
    /\ CASE op = "listxattr" ->
              /\ CASE Has(cur, "listxattr fails") \/ Has(cur, "xattr value") -> Marked(cur)
                   [] Has(cur, "xattr denied") -> Skipped(cur)
                   [] OTHER -> UNCHANGED lists
              /\ IF Kind(cur) = "dir" THEN pc' = "spawn" /\ op' = "opendir"
                 ELSE pc' = "open" /\ UNCHANGED op
              /\ UNCHANGED todo
         [] op = "opendir" ->
              /\ IF OpenFailed THEN Marked(cur) /\ pc' = "entry" /\ UNCHANGED op
                 ELSE UNCHANGED lists /\ pc' = "spawn" /\ op' = "readdir"
              /\ UNCHANGED todo
         [] op = "readdir" ->
              /\ IF Has(cur, "readdir fails") THEN Marked(cur) /\ UNCHANGED todo
                 ELSE UNCHANGED lists /\ todo' = Children(cur) \o todo
              /\ pc' = "entry" /\ UNCHANGED op
         [] op = "read" ->
              /\ UNCHANGED << lists, todo, op >> /\ pc' = "entry"
    /\ UNCHANGED << defects, abort, cur, reports, dropped, exit >>

OpenFile ==
    /\ At("open")
    /\ IF OpenFailed THEN Marked(cur) /\ pc' = "entry" /\ UNCHANGED op
       ELSE UNCHANGED lists /\ pc' = "spawn" /\ op' = "read"
    /\ UNCHANGED << defects, abort, todo, cur, watcher, reports, dropped, exit >>

\* ck.dir("") has returned.
Finish ==
    /\ At("entry") /\ (abort \/ todo = << >>)
    /\ exit' = (CASE abort -> "Other"
                  [] corruptList = {} /\ skippedList = {} -> "ok"
                  [] OTHER -> "FsckErrors")
    /\ UNCHANGED << defects, lists, abort, todo, pc, cur, op, watcher, reports, dropped >>

----------------------------------------------------------------------------
(* The other threads.                                                      *)

\* reportMitigatedCorruption meets the watcher's select.
Report ==
    /\ reports > 0 /\ watcher # None /\ ~watcher.item
    /\ reports' = reports - 1 /\ watcher' = [watcher EXCEPT !.item = TRUE]
    /\ UNCHANGED << defects, lists, abort, todo, pc, cur, op, dropped, exit >>

\* The second is over.
ReportTimeout ==
    /\ reports > 0
    /\ reports' = reports - 1 /\ dropped' = TRUE
    /\ UNCHANGED << defects, lists, abort, todo, pc, cur, op, watcher, exit >>

WatcherMarks ==
    /\ watcher # None /\ watcher.item
    /\ Marked(watcher.path) /\ watcher' = [watcher EXCEPT !.item = FALSE]
    /\ UNCHANGED << defects, abort, todo, pc, cur, op, reports, dropped, exit >>

Signal ==
    /\ exit = None /\ ~abort /\ abort' = TRUE
    /\ UNCHANGED << defects, lists, todo, pc, cur, op, watcher, reports, dropped, exit >>

Walk == \/ Entry \/ Visit \/ symlink \/ Spawn \/ Returned \/ WatchDone \/ OpenFile
        \/ Finish
Next == Walk \/ Report \/ ReportTimeout \/ WatcherMarks \/ Signal

Spec == Init /\ [][Next]_vars
\* Nobody relies on the second that a report may wait.
FairSpec == Spec /\ WF_vars(Walk) /\ WF_vars(Report) /\ WF_vars(WatcherMarks)

----------------------------------------------------------------------------
(* Properties                                                              *)

\* The paths the walk gets to see, the least set that has with a directory its entries:
\* one that cannot be read hides them.
Hides(path) ==
    {"lstat fails", "opendir fails", "open denied", "readdir fails"} \intersect defects[Ino(path)] # {}
Closed(S) ==
    \A p \in S : Kind(p) = "dir" /\ ~Hides(p) => \A i \in DOMAIN Children(p) : Children(p)[i] \in S
Reachable == {p \in Paths : \A S \in SUBSET Paths : Root \in S /\ Closed(S) => p \in S}

\* "If corruption is found, the exit code is 26": fsck that ran to its end with
\* exit code 0 has met nothing that is damaged or that it could not check, in any
\* of the paths it can reach; no report gets lost between a FUSE thread, the
\* watcher and the walk.
ExitZeroMeansClean ==
    exit = "ok" /\ ~dropped => \A p \in Reachable : defects[Ino(p)] = {}

\* The walk, its watchers and the FUSE threads do not wait for each other forever,
\* and no report needs the second after which it is dropped to get them going
\* (watchDone, reportMitigatedCorruption).
FsckEnds == <>(exit # None)
=============================================================================

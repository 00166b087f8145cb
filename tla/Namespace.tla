------------------------------ MODULE Namespace ------------------------------
(***************************************************************************)
(* The directory tree of a forward mount with encrypted names: the         *)
(* gocryptfs.diriv file of every directory, the .name file next to every   *)
(* entry with a long name, and the system calls Create, Mknod, Link,       *)
(* Symlink, Mkdir, Unlink, Rmdir and Rename make on the backing            *)
(* directories, one step each, so that other requests, a second mount of   *)
(* the same directory (-sharedstorage) and a crash can come in between.    *)
(* An encrypted name is a function of the directory and the plaintext      *)
(* name, since the IV of a directory never changes: names stand for both.  *)
(***************************************************************************)
EXTENDS Naturals, FiniteSets

CONSTANTS
    Threads,     \* goroutines that serve FUSE requests
    Dirs, Root,  \* directories of the backing file system
    Files,       \* everything else
    Whiteout,    \* the device node RENAME_WHITEOUT leaves behind
    ShortNames,
    LongNames,   \* names whose encrypted form is hashed
    Absent,
    Settings     \* the circumstances considered: records with the threads that
                 \* run, the files and directories made, the names in use, whether the
                 \* threads belong to one mount (else each is a mount of its own), and
                 \* whether it may crash

ASSUME NamespaceAssumption ==
    /\ Root \in Dirs /\ Whiteout \notin Files
    /\ Dirs \intersect (Files \union {Whiteout}) = {}
    /\ ShortNames \intersect LongNames = {}
    /\ Absent \notin Dirs \union Files \union {Whiteout}
    /\ Settings \subseteq [threads : SUBSET Threads, nodes : SUBSET (Dirs \union Files),
                            names : SUBSET (ShortNames \union LongNames),
                            oneMount : BOOLEAN, crashes : BOOLEAN]

Names == ShortNames \union LongNames

VARIABLES
    ent,         \* ent[d][n]: what the content entry of name n in d is
    nam,         \* nam[d][n]: the .name file: "none", "empty" or "full"
    iv,          \* iv[d]: gocryptfs.diriv in d: "none", "empty" or "full"
    tmp,         \* << p, d, c >>: the diriv of d, moved to p by Rmdir, with content c
    known,       \* << t, d >>: t has read the diriv of d, so dirCache may have it
    ivLocked,    \* the threads that hold the dirIVLock of their mount
    pc, req,     \* per thread: the next system call, and the request
    nameLost,    \* has a directory been renamed over one with a long name? (history)
    setting      \* the circumstances of this behaviour; never changes

diskVars == << ent, nam, iv, tmp >>
vars == << diskVars, known, ivLocked, pc, req, nameLost, setting >>

NoReq == [op |-> "none", d |-> Root, n |-> Absent, d2 |-> Root, n2 |-> Absent,
          flags |-> {}, o |-> Absent, there |-> FALSE, locks |-> {}]

Init ==
    /\ ent = [d \in Dirs |-> [n \in Names |-> Absent]]
    /\ nam = [d \in Dirs |-> [n \in LongNames |-> "none"]]
    /\ iv = [d \in Dirs |-> IF d = Root THEN "full" ELSE "none"]
    /\ tmp = {}
    /\ known = {}
    /\ ivLocked = {}
    /\ pc = [t \in Threads |-> "idle"]
    /\ req = [t \in Threads |-> NoReq]
    /\ nameLost = FALSE
    /\ setting \in Settings

----------------------------------------------------------------------------
(* The backing directories.                                                *)

Linked(o) == o = Root \/ \E d \in Dirs, n \in Names : ent[d][n] = o

NumChildren(d) ==
    Cardinality({n \in Names : ent[d][n] # Absent})
    + Cardinality({n \in LongNames : nam[d][n] # "none"})
    + Cardinality({x \in tmp : x[1] = d})
    + (IF iv[d] = "none" THEN 0 ELSE 1)

\* The directories at and below directory o.
Below(o) ==
    LET level[k \in Nat] ==
            IF k = 0 THEN {o}
            ELSE level[k - 1] \union
                 ({ent[d][n] : d \in level[k - 1], n \in Names} \intersect Dirs)
    IN  level[Cardinality(Dirs)]

\* What renameat2(2) answers.
RenameErr(d, n, d2, n2, flags) ==
    LET src == ent[d][n]
        dst == ent[d2][n2]
    IN  CASE src = Absent \/ ~Linked(d) \/ ~Linked(d2) -> "ENOENT"
          [] src \in Dirs /\ d2 \in Below(src) -> "EINVAL"
          [] "exchange" \in flags ->
                IF dst = Absent THEN "ENOENT"
                ELSE IF dst \in Dirs /\ d \in Below(dst) THEN "EINVAL" ELSE "OK"
          [] "noreplace" \in flags /\ dst # Absent -> "EEXIST"
          [] dst \in Dirs /\ src \notin Dirs -> "EISDIR"
          [] dst \in Files \union {Whiteout} /\ src \in Dirs -> "ENOTDIR"
          [] dst \in Dirs /\ NumChildren(dst) > 0 -> "ENOTEMPTY"
          [] OTHER -> "OK"

SameFile(a, b) == a \in Files /\ a = b

\* The tree after renameat2(2).  Two links to one file stay as they are.
Renamed(d, n, d2, n2, flags) ==
    LET src == ent[d][n]
        left == CASE "exchange" \in flags -> ent[d2][n2]
                  [] "whiteout" \in flags -> Whiteout
                  [] OTHER -> Absent
    IN  IF SameFile(src, ent[d2][n2]) THEN ent
        ELSE [ent EXCEPT ![d][n] = left, ![d2][n2] = src]

----------------------------------------------------------------------------
(* Requests.  While it serves one, the kernel holds the locks of the       *)
(* directories involved: of the same mount, not of other mounts.           *)

SameMount(t, u) == setting.oneMount \/ t = u
Goto(t, label) == pc' = [pc EXCEPT ![t] = label]
Done(t) ==
    /\ Goto(t, "idle")
    /\ req' = [req EXCEPT ![t] = NoReq]
    /\ ivLocked' = ivLocked \ {t}

\* The entry that is created or removed.
Dir(t) == IF req[t].op = "rename" THEN req[t].d2 ELSE req[t].d
Name(t) == IF req[t].op = "rename" THEN req[t].n2 ELSE req[t].n
Long(t) == Name(t) \in LongNames

Locks(r) == {r.d, r.d2} \union
            ({ent[r.d][r.n], IF r.op = "rename" THEN ent[r.d2][r.n2] ELSE Root}
                 \intersect Dirs)

\* prepareAtSyscall: the IV comes from dirCache or from disk.
prepareAtSyscall(t, d) ==
    \/ iv[d] = "full"
    \/ << t, d >> \in known

Begin(t, r, label) ==
    /\ prepareAtSyscall(t, r.d) /\ prepareAtSyscall(t, r.d2)
    /\ \A u \in Threads \ {t} : SameMount(t, u) =>
          /\ req[u].locks \intersect Locks(r) = {}
          /\ ~(r.op = "rename" /\ req[u].op = "rename")
    /\ Goto(t, label)
    /\ req' = [req EXCEPT ![t] = [r EXCEPT !.locks = Locks(r)]]
    /\ known' = {k \in known : Linked(k[2])} \union
          {u \in Threads : SameMount(t, u)} \X ({r.d, r.d2} \ {Root})
    /\ UNCHANGED << diskVars, ivLocked >>

First(n, label) == IF n \in LongNames THEN "name" ELSE label

\* A directory number is free again when nobody has it open.
UnusedDirs == {o \in Dirs \intersect setting.nodes : ~Linked(o) /\ \A u \in Threads : o \notin {req[u].d, req[u].d2, req[u].o}}

\* Create, Mknod, Symlink (a new file) and Link (a file that is there).
Create(t, d, n, f) ==
    Begin(t, [NoReq EXCEPT !.op = "create", !.d = d, !.n = n, !.d2 = d, !.o = f],
          First(n, "create"))
Mkdir(t, d, n, o) ==
    /\ o \in UnusedDirs
    /\ Begin(t, [NoReq EXCEPT !.op = "mkdir", !.d = d, !.n = n, !.d2 = d, !.o = o],
             First(n, "ivLock"))
Unlink(t, d, n) ==
    Begin(t, [NoReq EXCEPT !.op = "unlink", !.d = d, !.n = n, !.d2 = d], "unlinkat")
Rmdir(t, d, n) ==
    Begin(t, [NoReq EXCEPT !.op = "rmdir", !.d = d, !.n = n, !.d2 = d], "openat")
\* On one mount the kernel itself answers when both names are the same file.
Rename(t, d, n, d2, n2, flags) ==
    /\ << d, n >> # << d2, n2 >>
    /\ setting.oneMount => ~SameFile(ent[d][n], ent[d2][n2])
    /\ Begin(t, [NoReq EXCEPT !.op = "rename", !.d = d, !.n = n, !.d2 = d2,
                              !.n2 = n2, !.flags = flags],
             First(n2, "renameat2"))
\* OpendirHandle: the kernel takes no lock for it, but it does not know of a
\* directory before Mkdir has returned.
OpendirHandle(t, d) ==
    /\ \A u \in Threads : SameMount(t, u) => ~(req[u].op = "mkdir" /\ req[u].o = d)
    /\ Goto(t, "readIV")
    /\ req' = [req EXCEPT ![t] = [NoReq EXCEPT !.op = "opendir", !.o = d]]
    /\ UNCHANGED << diskVars, known, ivLocked >>

----------------------------------------------------------------------------
(* WriteLongNameAt and DeleteLongNameAt.                                   *)

AfterName == [create |-> "create", mkdir |-> "ivLock", rename |-> "renameat2"]

\* It reads the diriv once more, then creates the .name file with O_EXCL.
\* Only Rename goes on when the file exists.
WriteLongNameOpen(t) ==
    /\ pc[t] = "name"
    /\ \/ /\ iv[Dir(t)] = "full" /\ Linked(Dir(t)) /\ nam[Dir(t)][Name(t)] = "none"
          /\ nam' = [nam EXCEPT ![Dir(t)][Name(t)] = "empty"]
          /\ Goto(t, "nameWrite")
          /\ UNCHANGED << req, ivLocked >>
       \/ /\ iv[Dir(t)] = "full" /\ nam[Dir(t)][Name(t)] # "none" /\ req[t].op = "rename"
          /\ req' = [req EXCEPT ![t].there = TRUE]
          /\ Goto(t, "renameat2")
          /\ UNCHANGED << nam, ivLocked >>
       \/ /\ Done(t) /\ UNCHANGED nam    \* EEXIST, no diriv, no space
          /\ nam[Dir(t)][Name(t)] # "none" => req[t].op # "rename" \/ iv[Dir(t)] # "full"
    /\ UNCHANGED << ent, iv, tmp, known >>

\* On an error the incomplete file is deleted.
WriteLongNameWrite(t) ==
    /\ pc[t] = "nameWrite"
    /\ \/ /\ nam' = [nam EXCEPT ![Dir(t)][Name(t)] = IF @ = "none" THEN @ ELSE "full"]
          /\ Goto(t, AfterName[req[t].op])
          /\ UNCHANGED << req, ivLocked >>
       \/ /\ nam' = [nam EXCEPT ![Dir(t)][Name(t)] = "none"]
          /\ Done(t)
    /\ UNCHANGED << ent, iv, tmp, known >>

DeleteLongName(t) ==
    /\ pc[t] = "unname"
    /\ nam' = [nam EXCEPT ![Dir(t)][Name(t)] = "none"]
    /\ Done(t)
    /\ UNCHANGED << ent, iv, tmp, known >>

----------------------------------------------------------------------------
(* Create, Unlink, Mkdir.                                                  *)

\* The end of a request that leaves its .name file in place.
KeepName(t) == Done(t)
\* The end of one that rolls it back, or has to delete it.
DropName(t) ==
    IF Long(t) THEN Goto(t, "unname") /\ UNCHANGED << req, ivLocked >> ELSE Done(t)

\* Mutant: the .name file is not rolled back.
CreateContent_noRollback(t) ==
    /\ pc[t] = "create"
    /\ \/ /\ ent[Dir(t)][Name(t)] = Absent /\ Linked(Dir(t))
          /\ ent' = [ent EXCEPT ![Dir(t)][Name(t)] = req[t].o]
          /\ KeepName(t)
       \/ KeepName(t) /\ UNCHANGED ent
    /\ UNCHANGED << nam, iv, tmp, known >>
CreateContent(t) ==
    /\ pc[t] = "create"
    /\ \/ /\ ent[Dir(t)][Name(t)] = Absent /\ Linked(Dir(t))
          /\ ent' = [ent EXCEPT ![Dir(t)][Name(t)] = req[t].o]
          /\ KeepName(t)
       \/ DropName(t) /\ UNCHANGED ent      \* EEXIST, ENOENT, no space
    /\ UNCHANGED << nam, iv, tmp, known >>

UnlinkContent(t) ==
    /\ pc[t] = "unlinkat"
    /\ IF ent[Dir(t)][Name(t)] \in Files \union {Whiteout}
       THEN /\ ent' = [ent EXCEPT ![Dir(t)][Name(t)] = Absent]
            /\ DropName(t)
       ELSE Done(t) /\ UNCHANGED ent
    /\ UNCHANGED << nam, iv, tmp, known >>

DirIVLock(t) ==
    /\ pc[t] \in {"ivLock", "rmLock"}
    /\ \A u \in ivLocked : ~SameMount(t, u)
    /\ ivLocked' = ivLocked \union {t}
    /\ Goto(t, IF pc[t] = "ivLock" THEN "mkdirat" ELSE "ivMove")
    /\ UNCHANGED << diskVars, req, known >>

Mkdirat(t) ==
    /\ pc[t] = "mkdirat"
    /\ \/ /\ ent[Dir(t)][Name(t)] = Absent /\ Linked(Dir(t))
          /\ ent' = [ent EXCEPT ![Dir(t)][Name(t)] = req[t].o]
          /\ Goto(t, "ivCreate")
          /\ UNCHANGED << req, ivLocked >>
       \/ DropName(t) /\ UNCHANGED ent
    /\ UNCHANGED << nam, iv, tmp, known >>

\* WriteDirIVAt in the new directory.  The write goes to the file, wherever the
\* Rmdir of another mount has moved it.
WriteDirIVOpen(t) ==
    /\ pc[t] = "ivCreate"
    /\ \/ /\ Linked(req[t].o)
          /\ iv' = [iv EXCEPT ![req[t].o] = "empty"]
          /\ Goto(t, "ivWrite")
       \/ Goto(t, "ivUndo") /\ UNCHANGED iv
    /\ UNCHANGED << ent, nam, tmp, req, ivLocked, known >>

WriteDirIVWrite(t) ==
    /\ pc[t] = "ivWrite"
    /\ \/ /\ iv' = [iv EXCEPT ![req[t].o] = IF @ = "none" THEN @ ELSE "full"]
          /\ tmp' = {IF x[2] = req[t].o THEN << x[1], x[2], "full" >> ELSE x : x \in tmp}
          /\ KeepName(t)
       \/ /\ iv' = [iv EXCEPT ![req[t].o] = "none"]
          /\ Goto(t, "ivUndo")
          /\ UNCHANGED << tmp, req, ivLocked >>
    /\ UNCHANGED << ent, nam, known >>

\* Delete the inconsistent directory.
MkdirUndo(t) ==
    /\ pc[t] = "ivUndo"
    /\ ent' = IF ent[Dir(t)][Name(t)] = req[t].o /\ NumChildren(req[t].o) = 0
              THEN [ent EXCEPT ![Dir(t)][Name(t)] = Absent] ELSE ent
    /\ DropName(t)
    /\ UNCHANGED << nam, iv, tmp, known >>

----------------------------------------------------------------------------
(* Rmdir, alone or inside Rename.                                          *)

\* Inside Rename the request goes on.
RmdirFailed(t) ==
    IF req[t].op = "rename"
    THEN /\ Goto(t, "rollback")
         /\ ivLocked' = ivLocked \ {t}
         /\ UNCHANGED req
    ELSE Done(t)
RmdirDone(t) ==
    IF req[t].op = "rename"
    THEN /\ Goto(t, "renameAgain")
         /\ ivLocked' = ivLocked \ {t}
         /\ UNCHANGED req
    ELSE Done(t)

RmdirOpen(t) ==
    /\ pc[t] = "openat"
    /\ IF ent[Dir(t)][Name(t)] \in Dirs
       THEN /\ req' = [req EXCEPT ![t].o = ent[Dir(t)][Name(t)]]
            /\ Goto(t, "getdents")
            /\ UNCHANGED ivLocked
       ELSE RmdirFailed(t)
    /\ UNCHANGED << diskVars, known >>

\* Mutant: the diriv of any directory is moved away.
RmdirGetdents_any(t) ==
    /\ pc[t] = "getdents"
    /\ Goto(t, "rmLock")
    /\ UNCHANGED << diskVars, known, req, ivLocked >>
\* A directory without even a diriv is removed at once.
RmdirGetdents(t) ==
    /\ pc[t] = "getdents"
    /\ CASE NumChildren(req[t].o) = 0 ->
              IF ent[Dir(t)][Name(t)] = req[t].o
              THEN ent' = [ent EXCEPT ![Dir(t)][Name(t)] = Absent] /\ RmdirDone(t)
              ELSE RmdirFailed(t) /\ UNCHANGED ent
         [] NumChildren(req[t].o) = 1 ->
              Goto(t, "rmLock") /\ UNCHANGED << ent, req, ivLocked >>
         [] OTHER -> RmdirFailed(t) /\ UNCHANGED ent
    /\ UNCHANGED << nam, iv, tmp, known >>

Moved(t) == {x \in tmp : x[1] = Dir(t) /\ x[2] = req[t].o}

RmdirMoveIV(t) ==
    /\ pc[t] = "ivMove"
    /\ IF iv[req[t].o] = "none" \/ ~Linked(Dir(t))
       THEN RmdirFailed(t) /\ UNCHANGED << iv, tmp >>
       ELSE /\ iv' = [iv EXCEPT ![req[t].o] = "none"]
            /\ tmp' = tmp \union {<< Dir(t), req[t].o, iv[req[t].o] >>}
            /\ Goto(t, "rmdirat")
            /\ UNCHANGED << req, ivLocked >>
    /\ UNCHANGED << ent, nam, known >>

RmdirRemove(t) ==
    /\ pc[t] = "rmdirat"
    /\ IF ent[Dir(t)][Name(t)] = req[t].o /\ NumChildren(req[t].o) = 0
       THEN /\ ent' = [ent EXCEPT ![Dir(t)][Name(t)] = Absent]
            /\ Goto(t, "tmpUnlink")
       ELSE Goto(t, "ivBack") /\ UNCHANGED ent
    /\ UNCHANGED << nam, iv, tmp, req, ivLocked, known >>

\* Undo the rename of the diriv; impossible when the directory is gone.
RmdirUndo(t) ==
    /\ pc[t] = "ivBack"
    /\ \/ \E x \in Moved(t) :
             /\ Linked(req[t].o)
             /\ iv' = [iv EXCEPT ![req[t].o] = x[3]]
             /\ tmp' = tmp \ {x}
       \/ ~Linked(req[t].o) /\ UNCHANGED << iv, tmp >>
    /\ RmdirFailed(t)
    /\ UNCHANGED << ent, nam, known >>

RmdirCleanup(t) ==
    /\ pc[t] = "tmpUnlink"
    /\ tmp' = tmp \ Moved(t)
    /\ IF Long(t) THEN Goto(t, "rmUnname") /\ UNCHANGED << req, ivLocked >>
       ELSE RmdirDone(t)
    /\ UNCHANGED << ent, nam, iv, known >>

RmdirUnname(t) ==
    /\ pc[t] = "rmUnname"
    /\ nam' = [nam EXCEPT ![Dir(t)][Name(t)] = "none"]
    /\ RmdirDone(t)
    /\ UNCHANGED << ent, iv, tmp, known >>

----------------------------------------------------------------------------
(* Rename.                                                                 *)

\* Mutant: the source's .name file is deleted whatever the flags say.
Renameat2_anyFlags(t) ==
    /\ pc[t] \in {"renameat2", "renameAgain"}
    /\ LET r == req[t]
       IN  \/ /\ RenameErr(r.d, r.n, r.d2, r.n2, r.flags) = "OK"
              /\ ent' = Renamed(r.d, r.n, r.d2, r.n2, r.flags)
              /\ IF r.n \in LongNames
                 THEN Goto(t, "srcUnname") /\ UNCHANGED << req, ivLocked >>
                 ELSE Done(t)
           \/ Goto(t, "rollback") /\ UNCHANGED << ent, req, ivLocked >>
    /\ UNCHANGED << nam, iv, tmp, known >>
\* An empty target directory still holds its diriv: remove it, then rename
\* again.
Renameat2(t) ==
    /\ pc[t] \in {"renameat2", "renameAgain"}
    /\ LET r == req[t]
           err == RenameErr(r.d, r.n, r.d2, r.n2, r.flags)
       IN  \/ /\ err = "OK"
              /\ ent' = Renamed(r.d, r.n, r.d2, r.n2, r.flags)
              /\ IF r.n \in LongNames /\ r.flags \intersect {"exchange", "whiteout"} = {}
                 THEN Goto(t, "srcUnname") /\ UNCHANGED << req, ivLocked >>
                 ELSE Done(t)
           \/ /\ UNCHANGED << ent, req, ivLocked >>
              /\ IF /\ pc[t] = "renameat2" /\ "noreplace" \notin r.flags
                    /\ err = "ENOTEMPTY"
                 THEN Goto(t, "openat")
                 ELSE Goto(t, "rollback")
    /\ UNCHANGED << nam, iv, tmp, known >>

RenameRollback(t) ==
    /\ pc[t] = "rollback"
    /\ IF req[t].there THEN Done(t) ELSE DropName(t)
    /\ UNCHANGED << diskVars, known >>

RenameUnnameSource(t) ==
    /\ pc[t] = "srcUnname"
    /\ nam' = [nam EXCEPT ![req[t].d][req[t].n] = "none"]
    /\ Done(t)
    /\ UNCHANGED << ent, iv, tmp, known >>

\* Whatever ReadDirIVAt finds, the request is over.
ReadDirIV(t) ==
    /\ pc[t] = "readIV"
    /\ Done(t)
    /\ UNCHANGED << diskVars, known >>

\* The process dies and is started again.
Crash ==
    /\ setting.crashes
    /\ pc' = [t \in Threads |-> "idle"]
    /\ req' = [t \in Threads |-> NoReq]
    /\ known' = {}
    /\ ivLocked' = {}
    /\ UNCHANGED diskVars

Step(t) ==
    \/ WriteLongNameOpen(t) \/ WriteLongNameWrite(t) \/ DeleteLongName(t)
    \/ CreateContent(t) \/ UnlinkContent(t)
    \/ DirIVLock(t) \/ Mkdirat(t) \/ WriteDirIVOpen(t) \/ WriteDirIVWrite(t) \/ MkdirUndo(t)
    \/ RmdirOpen(t) \/ RmdirGetdents(t) \/ RmdirMoveIV(t) \/ RmdirRemove(t)
    \/ RmdirUndo(t) \/ RmdirCleanup(t) \/ RmdirUnname(t)
    \/ Renameat2(t) \/ RenameRollback(t) \/ RenameUnnameSource(t)
    \/ ReadDirIV(t)

\* The combinations rejectRenameFlags lets pass.
RenameFlags == {{}, {"noreplace"}, {"exchange"}, {"whiteout"}, {"noreplace", "whiteout"}}

\* The requests of a thread that has none, on the directories of the tree.
Request(t, d, tree) ==
    \/ OpendirHandle(t, d)
    \/ \E n \in setting.names :
          \/ \E f \in Files \intersect setting.nodes : Create(t, d, n, f)
          \/ \E o \in Dirs : Mkdir(t, d, n, o)
          \/ Unlink(t, d, n)
          \/ Rmdir(t, d, n)
          \/ \E d2 \in tree, n2 \in setting.names, flags \in RenameFlags :
                Rename(t, d, n, d2, n2, flags)

Next ==
    /\ \/ \E t \in setting.threads :
             pc[t] = "idle" /\ LET tree == {d \in Dirs : Linked(d)} IN \E d \in tree : Request(t, d, tree)
       \/ \E t \in setting.threads : Step(t)
       \/ Crash
    /\ nameLost' = (nameLost \/ \E t \in Threads : pc[t] = "renameAgain" /\ Long(t) /\ ent' # ent)
    /\ UNCHANGED setting

Spec == Init /\ [][Next]_vars

----------------------------------------------------------------------------
(* Properties                                                              *)

\* One mount has the directory for itself and does not crash.
Undisturbed == setting.oneMount /\ ~setting.crashes

Quiescent == \A t \in Threads : pc[t] \in {"idle", "readIV"}

\* The names Readdirent returns: an entry with a long name shows up only with
\* a complete .name file.
Readdirent(d) ==
    {n \in Names : ent[d][n] # Absent /\ (n \in LongNames => nam[d][n] = "full")}

\* A file is listed at every moment of its life: the .name file is there before
\* and after the content, whichever requests run and fail (Create, Link,
\* Symlink, Unlink, Rename; longnames.go:17, two files).  Where Rename has left a
\* directory without its .name file, an exchange can put a file in its place.  A
\* mount that crashes between two steps leaves no file without .name file either;
\* but it may be one that a crash kept from being filled, and that is never filled.
FilesAreListed ==
    setting.oneMount /\ ~nameLost =>
        \A d \in Dirs, n \in Names :
            ent[d][n] \in Files =>
                n \in Readdirent(d) \/ (setting.crashes /\ nam[d][n] = "empty")

\* The same for directories, when nothing is going on (Mkdir, Rmdir, Rename).
DirsAreListed ==
    Undisturbed /\ Quiescent => \A d \in Dirs, n \in Names : ent[d][n] \in Dirs => n \in Readdirent(d)

\* When nothing is going on, nothing is left behind: no .name file without its
\* entry, which would make O_EXCL fail for ever and keep the directory from being
\* removed (the rollbacks of Create, Mkdir and Rename, Unlink, Rmdir), no directory
\* without a diriv, and no diriv under its temporary name (mkdirWithIv, Rmdir).
NothingLeftBehind ==
    Undisturbed /\ Quiescent =>
        /\ \A d \in Dirs, n \in LongNames : nam[d][n] # "none" => ent[d][n] # Absent
        /\ \A d \in Dirs : Linked(d) => iv[d] = "full"
        /\ tmp = {}

\* A directory with entries has its diriv at every moment, so that a crash of
\* the mount never makes names undecryptable (Rmdir moves the diriv of empty
\* directories only).  With a second mount, which has the IV in its cache and
\* creates an entry while Rmdir is under way, it has it again when nothing is
\* going on any more (the undo of Rmdir's renameat).
NamesStayDecryptable ==
    setting.oneMount \/ Quiescent =>
        \A d \in Dirs :
            Linked(d) /\ (\E n \in Names : ent[d][n] # Absent) => iv[d] = "full"
=============================================================================

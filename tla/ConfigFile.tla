------------------------------ MODULE ConfigFile -----------------------------
(***************************************************************************)
(* gocryptfs.conf: -init creates it (and the diriv of the root directory), *)
(* -passwd replaces it, both through gocryptfs.conf.tmp.  Every file       *)
(* system call is a step and may fail; several gocryptfs processes may run *)
(* at once, and each may die between two steps.                            *)
(***************************************************************************)
EXTENDS Naturals

CONSTANTS Procs, Passwords,
          MasterKey, WrongKey,   \* the real one, and any other
          Options,               \* bound: options of -init
          None, Partial,
          MaxRuns                \* bound: how often gocryptfs is started

Args == [plaintextnames : BOOLEAN, aessiv : BOOLEAN, deterministic_names : BOOLEAN,
         xchacha : BOOLEAN, longnamemax : 0 .. 255]

\* The fields of the file that matter here, without FIDO2; key and password stand for
\* EncryptedKey.
Flags == {"HKDF", "GCMIV128", "XChaCha20Poly1305", "PlaintextNames", "EMENames", "LongNames",
          "Raw64", "DirIV", "LongNameMax", "AESSIV"}
ConfFile == [flags : SUBSET Flags, LongNameMax : 0 .. 255,
             key : {MasterKey, WrongKey}, password : Passwords]

ConfigFileAssumption ==
    /\ MaxRuns \in Nat /\ MasterKey # WrongKey /\ Options \subseteq Args
    /\ None # Partial /\ None \notin ConfFile /\ Partial \notin ConfFile

VARIABLES conf, tmp, bak,        \* files: None, Partial or a ConfFile
          diriv,                 \* of the root: None, Partial or "full"
          ready,                 \* ghost: -init has reported success
          raced,                 \* ghost: a second -init began before the first one ended
          zeroed,                \* ghost: a -passwd -zerokey has replaced the file
          runs, pc, job
vars == << conf, tmp, bak, diriv, ready, raced, zeroed, runs, pc, job >>
files == << conf, tmp, bak, diriv >>

NoJob == [cf |-> None, diriv |-> FALSE, init |-> FALSE, zero |-> FALSE]

Init ==
    /\ conf = None /\ tmp = None /\ bak = None /\ diriv = None
    /\ ready = FALSE /\ raced = FALSE /\ zeroed = FALSE /\ runs = 0
    /\ pc = [p \in Procs |-> "off"] /\ job = [p \in Procs |-> NoJob]

----------------------------------------------------------------------------
(* ConfFile                                                                *)

Validate(cf) ==
    LET has(f) == f \in cf.flags
    IN  /\ ~(has("XChaCha20Poly1305") /\ has("AESSIV"))
        /\ has("AESSIV") => has("GCMIV128")
        /\ has("XChaCha20Poly1305") => ~has("GCMIV128") /\ has("HKDF")
        /\ ~has("XChaCha20Poly1305") /\ ~has("AESSIV") => has("GCMIV128")
        /\ has("PlaintextNames") =>
              cf.flags \intersect {"EMENames", "DirIV", "LongNames", "Raw64", "LongNameMax"} = {}
        /\ cf.LongNameMax # 0 <=> has("LongNameMax")

LongNameMaxSaved(a) == ~a.plaintextnames /\ a.longnamemax \notin {0, 255}

FeatureFlags(a) ==
    {"HKDF", IF a.xchacha THEN "XChaCha20Poly1305" ELSE "GCMIV128"}
    \union (IF a.plaintextnames THEN {"PlaintextNames"}
            ELSE {"EMENames", "LongNames", "Raw64"}
                 \union (IF a.deterministic_names THEN {} ELSE {"DirIV"})
                 \union (IF LongNameMaxSaved(a) THEN {"LongNameMax"} ELSE {}))
    \union (IF a.aessiv THEN {"AESSIV"} ELSE {})

Create(a, password, key) ==
    [flags |-> FeatureFlags(a), LongNameMax |-> IF LongNameMaxSaved(a) THEN a.longnamemax ELSE 0,
     key |-> key, password |-> password]

----------------------------------------------------------------------------
Goto(p, label) == pc' = [pc EXCEPT ![p] = label]
Exit(p) == Goto(p, "off") /\ job' = [job EXCEPT ![p] = NoJob]
Started(p) == pc[p] = "off" /\ runs < MaxRuns /\ runs' = runs + 1

Off == \A p \in Procs : pc[p] = "off"
isEmptyDir == conf = None /\ tmp = None /\ bak = None /\ diriv = None

NeedsDirIV(a) == ~a.plaintextnames /\ ~a.deterministic_names

Inits == {p \in Procs : job[p].init}

\* Nothing excludes a second -init between isEmptyDir and the open of the .tmp file; it makes
\* a key of its own.
initDir(p) ==
    /\ Started(p) /\ isEmptyDir
    /\ \E a \in Options, new \in Passwords :
          LET cf == Create(a, new, IF Inits = {} THEN MasterKey ELSE WrongKey)
          IN  /\ Validate(cf)
              /\ job' = [job EXCEPT ![p] =
                     [cf |-> cf, init |-> TRUE, diriv |-> NeedsDirIV(a), zero |-> FALSE]]
    /\ Goto(p, "open")
    /\ raced' = (raced \/ Inits # {})
    /\ UNCHANGED << files, ready, zeroed >>

\* loadConfig: with -masterkey, the key is not checked; with -zerokey it is replaced, and
\* there is no backup.
changePassword(p) ==
    /\ Started(p) /\ conf \notin {None, Partial} /\ Validate(conf)
    /\ \E new \in Passwords :
          \/ /\ job' = [job EXCEPT ![p] = [NoJob EXCEPT !.cf = [conf EXCEPT !.password = new]]]
             /\ Goto(p, "open")
          \/ \E k \in {MasterKey, WrongKey} :
                /\ job' = [job EXCEPT ![p] =
                       [NoJob EXCEPT !.cf = [conf EXCEPT !.password = new, !.key = k]]]
                /\ Goto(p, "link")
          \/ /\ job' = [job EXCEPT ![p] =
                    [NoJob EXCEPT !.cf = [conf EXCEPT !.password = new, !.key = WrongKey],
                                  !.zero = TRUE]]
             /\ Goto(p, "open")
    /\ UNCHANGED << files, ready, raced, zeroed >>

\* Mutant: an existing backup is replaced.
LinkBackup_replace(p) ==
    /\ pc[p] = "link"
    /\ bak' = conf /\ Goto(p, "open")
    /\ UNCHANGED << conf, tmp, diriv, ready, raced, zeroed, runs, job >>

LinkBackup(p) ==
    /\ pc[p] = "link"
    /\ \/ bak = None /\ bak' = conf /\ Goto(p, "open") /\ UNCHANGED job
       \/ Exit(p) /\ UNCHANGED bak                 \* EEXIST, or another error
    /\ UNCHANGED << conf, tmp, diriv, ready, raced, zeroed, runs >>

(* WriteFile *)

OpenTmp(p) ==
    /\ pc[p] = "open"
    /\ \/ tmp = None /\ tmp' = Partial /\ Goto(p, "write") /\ UNCHANGED job
       \/ Exit(p) /\ UNCHANGED tmp                 \* EEXIST, or another error
    /\ UNCHANGED << conf, bak, diriv, ready, raced, zeroed, runs >>

\* Write, Sync and Close; an error leaves the .tmp file there.
WriteTmp(p) ==
    /\ pc[p] = "write"
    /\ \/ tmp' = job[p].cf /\ Goto(p, "rename") /\ UNCHANGED job
       \/ Exit(p) /\ UNCHANGED tmp
    /\ UNCHANGED << conf, bak, diriv, ready, raced, zeroed, runs >>

RenameTmp(p) ==
    /\ pc[p] = "rename"
    /\ \/ /\ tmp # None /\ conf' = tmp /\ tmp' = None /\ zeroed' = (zeroed \/ job[p].zero)
          /\ IF job[p].diriv THEN Goto(p, "diriv") /\ UNCHANGED << ready, job >>
             ELSE Exit(p) /\ ready' = (ready \/ job[p].init)
       \/ Exit(p) /\ UNCHANGED << conf, tmp, ready, zeroed >>
    /\ UNCHANGED << bak, diriv, raced, runs >>

\* WriteDirIVAt, a failed write included: the file is removed again.
WriteDirIV(p) ==
    /\ pc[p] = "diriv"
    /\ \/ diriv = None /\ diriv' = Partial /\ Goto(p, "dirivWrite") /\ UNCHANGED job
       \/ Exit(p) /\ UNCHANGED diriv
    /\ UNCHANGED << conf, tmp, bak, ready, raced, zeroed, runs >>
WriteDirIVData(p) ==
    /\ pc[p] = "dirivWrite"
    /\ \/ diriv' = "full" /\ ready' = TRUE
       \/ diriv' = None /\ UNCHANGED ready
    /\ Exit(p)
    /\ UNCHANGED << conf, tmp, bak, raced, zeroed, runs >>

Crash(p) ==
    /\ pc[p] # "off" /\ Exit(p)
    /\ UNCHANGED << files, ready, raced, zeroed, runs >>

\* The user removes a .tmp file that no process is writing, and the backup once
\* the files can be read with the new password; and empties a directory that
\* -init has not finished.
RemoveTmp ==
    /\ Off /\ tmp # None /\ tmp' = None
    /\ UNCHANGED << conf, bak, diriv, ready, raced, zeroed, runs, pc, job >>
RemoveBackup ==
    /\ Off /\ bak # None /\ conf.key = MasterKey /\ bak' = None
    /\ UNCHANGED << conf, tmp, diriv, ready, raced, zeroed, runs, pc, job >>
StartOver ==
    /\ Off /\ ~ready /\ ~isEmptyDir
    /\ conf' = None /\ tmp' = None /\ bak' = None /\ diriv' = None
    /\ raced' = FALSE /\ zeroed' = FALSE
    /\ UNCHANGED << ready, runs, pc, job >>

Next ==
    \/ \E p \in Procs :
          \/ initDir(p) \/ changePassword(p) \/ LinkBackup(p) \/ OpenTmp(p) \/ WriteTmp(p)
          \/ RenameTmp(p) \/ WriteDirIV(p) \/ WriteDirIVData(p) \/ Crash(p)
    \/ RemoveTmp \/ RemoveBackup \/ StartOver

Spec == Init /\ [][Next]_vars

----------------------------------------------------------------------------
(* Properties                                                              *)

\* Whatever fails and whoever else runs, gocryptfs.conf is a config that Load
\* accepts (WriteFile, "a password change atomically replaces the file").  Unless two -init
\* of the directory overlapped, what -init has reported as created can be mounted: the
\* config is there, and so is the gocryptfs.diriv that its flags ask for (initDir); and
\* until a -passwd with -zerokey replaces it, the master key is in the config or in the
\* backup that a password change with -masterkey makes (changePassword).
MasterKeySurvives ==
    /\ conf # None => conf # Partial /\ Validate(conf)
    /\ ready /\ ~raced => conf # None /\ ("DirIV" \in conf.flags => diriv = "full")
    /\ conf # None /\ ~raced /\ ~zeroed =>
          conf.key = MasterKey \/ (bak # None /\ bak.key = MasterKey)
=============================================================================

-------------------------------- MODULE Xattr -------------------------------
(***************************************************************************)
(* Extended attributes of one file: names and values are encrypted on the  *)
(* backing file, except those of ACLs; what others have stored there is    *)
(* skipped.  Reads and listings take several system calls, with a buffer   *)
(* sized by the one before; other requests come in between.                *)
(***************************************************************************)
EXTENDS Naturals, FiniteSets

CONSTANTS Threads,
          UserAttrs, Acl,        \* names users see; any ACL name
          Capability,            \* security.capability
          Invalid,               \* the empty name, or one with a NUL byte
          Foreign, Undecryptable,     \* names found on the backing file
          Values,                \* lengths stand for values
          Overhead,              \* of an encrypted value
          GETXATTR_BUFSZ_SMALL, XATTR_SIZE_MAX,
          LISTXATTR_BUFSZ_SMALL,      \* counted in names, like every listing here
          Dests,                 \* sizes of the buffer of the caller
          Absent

XattrAssumption ==
    /\ Values \union Dests \subseteq Nat /\ Overhead \in Nat \ {0}
    /\ GETXATTR_BUFSZ_SMALL \in 1 .. XATTR_SIZE_MAX

VARIABLES args,      \* NoXattr and Suid
          disk,      \* stored name -> stored value
          attrs,     \* ghost: the attributes as the user left them
          pc, call,  \* call: the arguments of the pending call, and the size probed
          surprised  \* ghost: calls that returned something else than an ordinary file
vars == << args, disk, attrs, pc, call, surprised >>

Attrs == UserAttrs \union {Acl, Capability}

\* What calls return.
Value(v) == << "value", v >>
Errno(e) == << e >>

----------------------------------------------------------------------------
(* Names and values on disk.                                               *)

isAcl(n) == n = Acl
encryptXattrName(n) == << "user.gocryptfs.", n >>
\* Where an attribute is stored.
Stored(n) == IF isAcl(n) THEN << "", n >> ELSE encryptXattrName(n)

StoredNames ==
    {Stored(n) : n \in Attrs}
    \union {encryptXattrName(Acl), encryptXattrName(Undecryptable), << "", Foreign >>}

\* The names in a listing of the backing file that are shown: ACLs, and what
\* decryptXattrName accepts, but no ACL encrypted by an old version.
Shown(names) ==
    {s[2] : s \in {x \in names :
        IF x[1] = "" THEN isAcl(x[2]) ELSE x[2] # Undecryptable /\ ~isAcl(x[2])}}

encryptXattrValue(v) == IF v = 0 THEN << "empty", 0 >> ELSE << "block", v >>

\* A block, or what old versions wrote: the same in base64.
decryptXattrValue(c) ==
    IF c[1] \in {"empty", "block", "base64"} THEN Value(c[2]) ELSE Errno("EIO")

Size(c) ==
    CASE c[1] = "empty" -> 0
      [] c[1] = "block" -> c[2] + Overhead
      [] c[1] = "base64" -> 2 * (c[2] + Overhead)
      [] OTHER -> c[2]

Plain(n, c) == IF isAcl(n) THEN Value(c[2]) ELSE decryptXattrValue(c)

----------------------------------------------------------------------------
\* A backing file that other programs and old versions have written to.
Init ==
    /\ args \in {[NoXattr |-> TRUE, Suid |-> FALSE], [NoXattr |-> FALSE, Suid |-> FALSE],
                 [NoXattr |-> FALSE, Suid |-> TRUE]}
    /\ disk \in [StoredNames -> {Absent, << "damaged", 1 >>, << "base64", 1 >>}]
    /\ \A s \in StoredNames : disk[s] = << "damaged", 1 >> => \E u \in UserAttrs : s = Stored(u)
    /\ disk[Stored(Acl)] = Absent /\ disk[Stored(Capability)] = Absent
    /\ attrs = [n \in Attrs |-> LET c == disk[Stored(n)]
                               IN  IF c = Absent THEN Absent ELSE Plain(n, c)]
    /\ pc = [t \in Threads |-> "idle"] /\ call = [t \in Threads |-> << >>]
    /\ surprised = {}

OnDisk == {s \in StoredNames : disk[s] # Absent}

Returns(t, what, ret, expected) ==
    /\ pc' = [pc EXCEPT ![t] = "idle"] /\ call' = [call EXCEPT ![t] = << >>]
    /\ surprised' = IF ret = expected THEN surprised ELSE surprised \union {what}
Calls(t, label, c) ==
    /\ pc' = [pc EXCEPT ![t] = label] /\ call' = [call EXCEPT ![t] = c]
    /\ UNCHANGED surprised

\* What the calls return on a file that simply has the attributes attrs.
Fits(ret, dest) == IF ret[1] = "value" /\ dest < ret[2] THEN Errno("ERANGE") ELSE ret
PlainGet(n, dest) ==
    IF args.NoXattr \/ (n \in Attrs /\ attrs[n] = Absent) THEN Errno("ENODATA")
    ELSE IF n = Invalid THEN Errno("EIO") ELSE Fits(attrs[n], dest)
PlainSet(n, v, flags) ==
    IF args.NoXattr THEN Errno("EOPNOTSUPP")
    ELSE IF n = Invalid THEN Errno("EINVAL")
    ELSE IF flags = "XATTR_CREATE" /\ attrs[n] # Absent THEN Errno("EEXIST")
    ELSE IF flags = "XATTR_REPLACE" /\ attrs[n] = Absent THEN Errno("ENODATA")
    ELSE Errno("ok")
PlainList(dest) ==
    LET names == IF args.NoXattr THEN {} ELSE {n \in Attrs : attrs[n] # Absent}
    IN  IF Cardinality(names) > dest THEN Errno("ERANGE") ELSE Value(names)

----------------------------------------------------------------------------
(* Getxattr                                                                *)

\* A value of the size of the limit is accepted by Lsetxattr and refused here.
GetReturns(t, n, dest, ret) ==
    Returns(t, "Getxattr", ret,
            IF ret[1] \in {"EOPNOTSUPP", "EOVERFLOW"}
            THEN IF \/ n = Capability /\ ~args.Suid
                    \/ Size(disk[Stored(n)]) = XATTR_SIZE_MAX
                 THEN ret ELSE Errno("EIO")
            ELSE PlainGet(n, dest))

\* The first system call of Lgetxattr, with the small buffer.
Getxattr(t, n, dest) ==
    /\ pc[t] = "idle"
    /\ IF args.NoXattr THEN GetReturns(t, n, dest, Errno("ENODATA"))
       ELSE IF n = Capability /\ ~args.Suid THEN GetReturns(t, n, dest, Errno("EOPNOTSUPP"))
       ELSE IF n = Invalid THEN GetReturns(t, n, dest, Errno("EIO"))
       ELSE LET c == disk[Stored(n)]
            IN  IF c = Absent THEN GetReturns(t, n, dest, Errno("ENODATA"))
                ELSE IF Size(c) < GETXATTR_BUFSZ_SMALL
                THEN GetReturns(t, n, dest, Fits(Plain(n, c), dest))
                ELSE Calls(t, "getBig", << n, dest >>)
    /\ UNCHANGED << args, disk, attrs >>

GetBig(t) ==
    /\ pc[t] = "getBig"
    /\ LET n == call[t][1]
           c == disk[Stored(n)]
       IN  GetReturns(t, n, call[t][2],
               IF c = Absent THEN Errno("ENODATA")
               ELSE IF Size(c) >= XATTR_SIZE_MAX THEN Errno("EOVERFLOW")
               ELSE Fits(Plain(n, c), call[t][2]))
    /\ UNCHANGED << args, disk, attrs >>

----------------------------------------------------------------------------
(* Setxattr, Removexattr                                                   *)

\* lsetxattr(2): the kernel checks the flags and the size.
Lsetxattr(s, c, flags) ==
    IF flags = "XATTR_CREATE" /\ disk[s] # Absent THEN Errno("EEXIST")
    ELSE IF flags = "XATTR_REPLACE" /\ disk[s] = Absent THEN Errno("ENODATA")
    ELSE IF Size(c) > XATTR_SIZE_MAX THEN Errno("E2BIG")
    ELSE Errno("ok")

\* Mutant: ACLs are encrypted, as they used to be.
SetStored_acl(n) == encryptXattrName(n)
SetStored(n) == Stored(n)

Setxattr(t, n, v, flags) ==
    /\ pc[t] = "idle" /\ UNCHANGED args
    /\ LET s   == SetStored(n)
           c   == IF isAcl(n) THEN << "raw", v >> ELSE encryptXattrValue(v)
           ret == IF args.NoXattr THEN Errno("EOPNOTSUPP")
                  ELSE IF n = Invalid THEN Errno("EINVAL") ELSE Lsetxattr(s, c, flags)
       IN  /\ Returns(t, "Setxattr", ret, IF ret = Errno("E2BIG") THEN ret ELSE PlainSet(n, v, flags))
           /\ IF ret = Errno("ok") THEN disk' = [disk EXCEPT ![s] = c] /\ attrs' = [attrs EXCEPT ![n] = Value(v)]
              ELSE UNCHANGED << disk, attrs >>

Removexattr(t, n) ==
    /\ pc[t] = "idle" /\ UNCHANGED args
    /\ LET ret == IF args.NoXattr THEN Errno("EOPNOTSUPP")
                  ELSE IF n = Invalid THEN Errno("EINVAL")
                  ELSE IF disk[Stored(n)] = Absent THEN Errno("ENODATA") ELSE Errno("ok")
       IN  /\ Returns(t, "Removexattr", ret, PlainSet(n, 0, "XATTR_REPLACE"))
           /\ IF ret = Errno("ok")
              THEN disk' = [disk EXCEPT ![Stored(n)] = Absent] /\ attrs' = [attrs EXCEPT ![n] = Absent]
              ELSE UNCHANGED << disk, attrs >>

----------------------------------------------------------------------------
(* Listxattr                                                               *)

ListReturns(t, dest, names) ==
    Returns(t, "Listxattr",
            IF Cardinality(Shown(names)) > dest THEN Errno("ERANGE")
            ELSE Value(Shown(names)), PlainList(dest))

\* The first system call of Llistxattr, with the small buffer.
Listxattr(t, dest) ==
    /\ pc[t] = "idle"
    /\ IF args.NoXattr THEN ListReturns(t, dest, {})
       ELSE IF Cardinality(OnDisk) > LISTXATTR_BUFSZ_SMALL THEN Calls(t, "listProbe", << dest >>)
       ELSE ListReturns(t, dest, OnDisk)
    /\ UNCHANGED << args, disk, attrs >>
ListProbe(t) ==
    /\ pc[t] = "listProbe"
    /\ Calls(t, "listFull", << call[t][1], Cardinality(OnDisk) >>)
    /\ UNCHANGED << args, disk, attrs >>
\* A buffer of size 0 is a probe to the kernel, whose answer is then the length of a
\* slice of an empty buffer; ERANGE is left to the caller to retry.
ListFull(t) ==
    /\ pc[t] = "listFull"
    /\ LET sz == call[t][2]
       IN  IF sz = 0 /\ OnDisk # {} THEN Calls(t, "panic", << >>)
           ELSE IF Cardinality(OnDisk) > sz THEN Returns(t, "Listxattr", Errno("ERANGE"), Errno("ERANGE"))
           ELSE ListReturns(t, call[t][1], OnDisk)
    /\ UNCHANGED << args, disk, attrs >>

\* A panic ends the process.
Alive == \A t \in Threads : pc[t] # "panic"

Next ==
    /\ Alive
    /\ \E t \in Threads :
          \/ \E n \in Attrs \union {Invalid} :
                \/ \E dest \in Dests : Getxattr(t, n, dest)
                \/ \E v \in Values, f \in {"0", "XATTR_CREATE", "XATTR_REPLACE"} : Setxattr(t, n, v, f)
                \/ Removexattr(t, n)
          \/ \E dest \in Dests : Listxattr(t, dest)
          \/ GetBig(t) \/ ListProbe(t) \/ ListFull(t)

Spec == Init /\ [][Next]_vars

----------------------------------------------------------------------------
(* Properties                                                              *)

\* Users see ordinary attributes: a value set is the value read, through both buffers
\* of Lgetxattr; ACLs, foreign and damaged attributes do not get in the way; a listing
\* shows what can be read; and -noxattr shows none of it (Getxattr, Setxattr,
\* Removexattr, Listxattr).
XattrsAreAMap == surprised = {}

\* A listing that races changes may have to be retried and does nothing worse
\* (listxattrSmartBuf).
ListingSurvivesRaces == Alive
=============================================================================

---------------------------- MODULE MCMountState ----------------------------
(***************************************************************************)
(* What a mount keeps besides the open files: inode numbers, directory     *)
(* descriptors, keys, the credentials of its threads, extended attributes. *)
(* The parts share no state, so each behaviour is one of one part; the     *)
(* others stay as they were made.                                          *)
(***************************************************************************)
EXTENDS NodeParts, UserPart, TLC

CONSTANTS Indices, Keys, BadKey, Capacity, Entries, Nil,
          UserAttrs, Acl, Capability, Invalid, Foreign, Undecryptable, Values, Overhead,
          GETXATTR_BUFSZ_SMALL, XATTR_SIZE_MAX, LISTXATTR_BUFSZ_SMALL, Dests

VARIABLES part,
          c, last,
          args, disk, attrs, attrPc, call, surprised
keyVars == << c, last >>
attrVars == << args, disk, attrs, attrPc, call, surprised >>
allVars == << part, vars, dirVars, keyVars, userVars, attrVars >>

K == INSTANCE KeyCache
X == INSTANCE Xattr WITH pc <- attrPc

ASSUME PartAssumptions ==
    /\ D!DirCacheAssumption /\ U!AsUserAssumption
    /\ K!KeyCacheAssumption /\ X!XattrAssumption

MCInos == 0..2

\* The threads, directories and names of DirCache are in no other part.
DirSymmetry == Permutations(Threads) \union Permutations(DirInos) \union Permutations(DirNames)

\* A part that does not run starts in one of its initial states only.
MCInit ==
    /\ part \in {"InoMap", "DirCache", "KeyCache", "AsUser", "Xattr"}
    /\ Init /\ D!Init /\ K!Init /\ U!Init
    /\ X!Init
    /\ part # "Xattr" => args.NoXattr /\ X!OnDisk = {}

Attr(A) == /\ part = "Xattr" /\ A
           /\ UNCHANGED << part, vars, dirVars, keyVars, userVars >>

MCNext ==
    \/ /\ part = "InoMap" /\ Next
       /\ UNCHANGED << part, dirVars, keyVars, userVars, attrVars >>
    \/ /\ part = "DirCache" /\ D!Next
       /\ UNCHANGED << part, vars, keyVars, userVars, attrVars >>
    \/ /\ part = "KeyCache" /\ K!Next
       /\ UNCHANGED << part, vars, dirVars, userVars, attrVars >>
    \/ /\ part = "AsUser" /\ U!Next
       /\ UNCHANGED << part, vars, dirVars, keyVars, attrVars >>
    \/ Attr(X!Next)

MCSpec == MCInit /\ [][MCNext]_allVars

\* The extended attributes alone.
XattrSpec == MCInit /\ part = "Xattr" /\ [][Attr(X!Next)]_allVars

----------------------------------------------------------------------------
(* The properties of the parts, under their own names.                     *)

\* smartAEADCache is an LRU cache.
ImplementsLruSpec == K!ImplementsLruSpec
\* Encrypted attributes look like ordinary ones (Getxattr, Setxattr, Removexattr, Listxattr).
XattrsAreAMap == X!XattrsAreAMap
\* A listing that races changes may have to be retried and does nothing worse
\* (listxattrSmartBuf).
ListingSurvivesRaces == X!ListingSurvivesRaces
=============================================================================

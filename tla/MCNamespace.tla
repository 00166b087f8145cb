---------------------------- MODULE MCNamespace ----------------------------
(***************************************************************************)
(* The backing directory that requests and mounts share: the entries of    *)
(* its directories, and the content of a file that several mounts have     *)
(* open.  Each behaviour is one of one part; the other stays as it was     *)
(* made.                                                                   *)
(***************************************************************************)
EXTENDS Namespace, TLC
CONSTANTS t1, t2, t3, d1, d2,
          Sharers, m1, m2, FileIDs, NoID, ZeroID, Torn, Zero, MaxBlocks, Users

VARIABLES part, hdr, body, ID, lk, expected, sharePc, loc, want, resized, remade, misfit, user

S == INSTANCE SharedStorage WITH Threads <- Sharers, Mounts <- {m1, m2}, pc <- sharePc
ASSUME PartAssumptions == S!SharedAssumption

shareVars == << hdr, body, ID, lk, expected, sharePc, loc, want, resized, remade, misfit, user >>
allVars == << part, vars, shareVars >>

\* Two requests at once on one mount, one mount that crashes at any moment, two
\* mounts of one directory, which need fewer names, and one request at a time
\* with a directory more, so that one can be renamed over another.
OneRequest ==
    {[threads |-> {t1}, nodes |-> {d1, d2}, names |-> Names, oneMount |-> TRUE, crashes |-> FALSE]}
MCSettings ==
    {[threads |-> {t1, t2}, nodes |-> {d1} \union Files, names |-> Names, oneMount |-> TRUE, crashes |-> FALSE],
     [threads |-> {t1}, nodes |-> {d1} \union Files, names |-> Names, oneMount |-> TRUE, crashes |-> TRUE],
     [threads |-> {t1, t2}, nodes |-> {d1} \union Files, names |-> LongNames, oneMount |-> FALSE, crashes |-> FALSE]}
    \union OneRequest

\* Two mounts that write to the same blocks, one of which also reads and one also
\* truncates to zero; a writer, and a mount that truncates to other sizes; and
\* a writer, and two reads at once on another mount.
Uses(m, reads, writes, sizes) == [mount |-> m, reads |-> reads, writes |-> writes, sizes |-> sizes]
Idle == Uses(m1, {}, {}, {})
MCUsers ==
    {(t1 :> Uses(m1, {}, {<< 0, 1 >>, << 2, 1 >>}, {0})
        @@ t2 :> Uses(m2, {<< 1, 2 >>}, {<< 1, 2 >>}, {}) @@ t3 :> Idle),
     (t1 :> Uses(m1, {}, {}, {1, 3, 4})
        @@ t2 :> Uses(m2, {}, {<< 0, 1 >>}, {0}) @@ t3 :> Idle),
     (t1 :> Uses(m1, {<< 0, 1 >>}, {}, {})
        @@ t2 :> Uses(m2, {}, {<< 0, 1 >>, << 1, 2 >>}, {}) @@ t3 :> Uses(m1, {<< 1, 2 >>}, {}, {}))}

\* A part that does not run starts in one of its initial states only.
MCInit ==
    /\ part \in {"Namespace", "SharedStorage"}
    /\ Init /\ S!Init
    /\ part # "Namespace" => setting = CHOOSE s \in Settings : TRUE
    /\ part # "SharedStorage" => user = CHOOSE u \in Users : TRUE

Share(A) == part = "SharedStorage" /\ A /\ UNCHANGED << part, vars >>

MCNext ==
    \/ part = "Namespace" /\ Next /\ UNCHANGED << part, shareVars >>
    \/ Share(S!Next)

MCSpec == MCInit /\ [][MCNext]_allVars

\* One part alone.
NamespaceSpec == MCInit /\ part = "Namespace" /\ [][MCNext]_allVars
SharedSpec == MCInit /\ part = "SharedStorage" /\ [][Share(S!Next)]_allVars

\* The threads are told apart by the settings only, like the nodes; the next-state
\* relation treats all files alike, and all directories but the root.
Symmetry == Permutations(Files) \union Permutations(Dirs \ {Root})

----------------------------------------------------------------------------
(* The properties of the shared file, under their own names.               *)

\* Mounts that share a file agree on its header and do not lose what others write
\* (LockSharedStorage).
SharedFileIsSound == part = "SharedStorage" => S!SharedFileIsSound
\* A file ID that a mount has cached is the one on disk (truncate).
HeaderIsKept == part = "SharedStorage" => S!HeaderIsKept
============================================================================

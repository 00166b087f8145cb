---------------------------- MODULE MCFileContent ----------------------------
(* Small instances of FileContent for TLC. *)
EXTENDS FileContent, TLC

\* A payload of one block: at an even offset it replaces a block, at an odd one
\* it changes the end of a block and the start of the next.  Its bytes differ, so
\* that a shifted payload is noticed.
MCWriteData == {<<1, 2>>}

Symmetry == Permutations(Handles) \union Permutations(FileIDs)

=============================================================================

------------------------------ MODULE OpenPart ------------------------------
(***************************************************************************)
(* The threads that open backing files (OpenWriteOnly), as a part of a     *)
(* process.                                                                *)
(***************************************************************************)

CONSTANTS Openers, NoOpener, Chmods

VARIABLES mode, chosen, readers, writer, waiting, openPc, flags, perms, fd, granted
openVars == << mode, chosen, readers, writer, waiting, openPc, flags, perms, fd, granted >>

O == INSTANCE OpenWriteOnly WITH Threads <- Openers, None <- NoOpener, pc <- openPc

\* The mode that openWriteOnlyFile relaxes is seen by its own open only.
RelaxedIsPrivate == O!RelaxedIsPrivate
=============================================================================

------------------------------ MODULE IdlePart ------------------------------
(***************************************************************************)
(* The monitor that -idle starts (IdleMonitor), as a part of a process.    *)
(***************************************************************************)

CONSTANTS IdleTimeouts, TwoMinutes, MaxOpen

VARIABLES idleTimeout, IsIdle, open, busy, mounted, monitorPc, phase, isIdle, idleCount,
          quiet, sinceOpen, quietAtCheck
idleVars == << idleTimeout, IsIdle, open, busy, mounted, monitorPc, phase, isIdle,
               idleCount, quiet, sinceOpen, quietAtCheck >>

I == INSTANCE IdleMonitor WITH pc <- monitorPc

\* idleMonitor unmounts only after a whole -idle duration without a named operation
\* and without a check that found a file open.
UnmountsOnlyWhenQuiet == I!UnmountsOnlyWhenQuiet
=============================================================================

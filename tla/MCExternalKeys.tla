--------------------------- MODULE MCExternalKeys ----------------------------
EXTENDS ExternalKeys, TLC

\* Overlapping ranges of block keys, one range while a session gets lost, and
\* name and index keys while the client is wiped.
MCSettings ==
    {[block |-> {0, 1}, name |-> {}, index |-> {}, breaks |-> 0, wipes |-> FALSE],
     [block |-> {0}, name |-> {}, index |-> {}, breaks |-> 1, wipes |-> FALSE],
     [block |-> {}, name |-> {0}, index |-> {9}, breaks |-> 0, wipes |-> TRUE]}
=============================================================================

--------------------------- MODULE MCPowerAssertions ---------------------------
(* Small instances of PowerAssertions for TLC. *)
EXTENDS PowerAssertions

CONSTANTS r1, r2

OneRun == {r1}
TwoRuns == {r1, r2}

\* A run that works and ends, and one more that starts meanwhile.
ShortLife == [r \in Runs |-> <<"running", "completed">>]
MCLife == [r \in Runs |-> IF r = r1 THEN <<"running", "completed">> ELSE <<"planning">>]
===============================================================================

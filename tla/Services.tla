------------------------------ MODULE Services ------------------------------
(* Connectors and email side by side in one brain: each keeps its rows in    *)
(* app.db and everything else in memory, and the brain's end empties both    *)
(* memories at once (__main__.py, serve).                                    *)

EXTENDS Connectors, Email

CONSTANT MaxCrashes     \* bound on the ends of the brain

ASSUME ServicesAssumption == MaxCrashes \in Nat

VARIABLE crashes

vars == <<connectorVars, emailVars, crashes>>

Init == ConnectorsInit /\ EmailInit /\ crashes = 0

Crash ==
    /\ crashes < MaxCrashes
    /\ ConnectorsCrash
    /\ EmailCrash
    /\ crashes' = crashes + 1

\* The request loop serves a connector request only when no send is under way;
\* a server's exit waits for nobody.
Next ==
    \/ Idle /\ ConnectorsRequest /\ UNCHANGED <<emailVars, crashes>>
    \/ \E c \in Connectors : ServerExits(c) /\ UNCHANGED <<emailVars, crashes>>
    \/ EmailNext /\ UNCHANGED <<connectorVars, crashes>>
    \/ Crash

Spec == Init /\ [][Next]_vars

TypeOK == ConnectorsTypeOK /\ EmailTypeOK /\ crashes \in 0 .. MaxCrashes
=============================================================================

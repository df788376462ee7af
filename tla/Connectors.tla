----------------------------- MODULE Connectors -----------------------------
(* MCP connectors: the registry row of each, the live session the manager    *)
(* keeps for it, and the tool grants that decide which calls reach its       *)
(* server (mcp/manager.py, registry.py, mcp_rpc.py, connector_actions.py).   *)
(* The brain serves one request at a time, so a request is one action; what  *)
(* falls in between is the connector's own process ending, and the brain's.  *)

CONSTANTS
    Connectors,     \* the catalog's connector ids
    Tools,          \* the tools a connector advertises
    Sensitive       \* those of them that are not granted by default

ASSUME SensitiveAssumption == Sensitive \subseteq Tools

VARIABLES
    registry,       \* the row of each connector in app.db, durable
    session,        \* McpManager._sessions, in memory
    failed,         \* McpManager._errors: connectors with a last error
    optedIn,        \* history: grants the user has chosen since the install
    reached         \* history: tools whose calls reached the server since then

connectorVars == <<registry, session, failed, optedIn, reached>>

Row == [installed: BOOLEAN, granted: SUBSET Tools, enabled: BOOLEAN]
NoRow == [installed |-> FALSE, granted |-> {}, enabled |-> FALSE]

\* "dead": the manager holds a session whose server has gone.
Session == {"none", "live", "dead"}

Installed == {c \in Connectors : registry[c].installed}

ConnectorsInit ==
    /\ registry = [c \in Connectors |-> NoRow]
    /\ session = [c \in Connectors |-> "none"]
    /\ failed = {}
    /\ optedIn = [c \in Connectors |-> {}]
    /\ reached = [c \in Connectors |-> {}]

\* Mutant of DefaultGrants: the sensitive flag is not looked at.
AllGrants == Tools
DefaultGrants == Tools \ Sensitive

\* McpManager.install: a row for a connector that has none, with the grants
\* asked for or the default ones.
InstallRow(c, grants) ==
    registry' = [registry EXCEPT ![c] =
                    [installed |-> TRUE, granted |-> grants, enabled |-> TRUE]]

Install(c) ==
    /\ c \notin Installed
    /\ \/ /\ InstallRow(c, DefaultGrants)
          /\ UNCHANGED optedIn
       \/ \E tools \in SUBSET Tools :
             /\ InstallRow(c, tools)
             /\ optedIn' = [optedIn EXCEPT ![c] = tools]
    /\ UNCHANGED <<session, failed, reached>>

\* "Set up Slack" in the conversation: the install with default grants, and no
\* error when it has been done before.
Setup(c) ==
    /\ IF c \in Installed THEN UNCHANGED registry ELSE InstallRow(c, DefaultGrants)
    /\ UNCHANGED <<session, failed, optedIn, reached>>

\* Mutant of StopSession: the session stays in the map.
KeepSession(c) == UNCHANGED <<session, failed>>
\* McpManager.stop: the session leaves the map first; closing it may fail.
StopSession(c) ==
    /\ session' = [session EXCEPT ![c] = "none"]
    /\ \/ UNCHANGED failed
       \/ session[c] # "none" /\ failed' = failed \cup {c}

Stop(c) ==
    /\ StopSession(c)
    /\ UNCHANGED <<registry, optedIn, reached>>

\* Stops the session, then deletes the row; the delete may raise, and the
\* connector stays installed without a session.
Uninstall(c) ==
    /\ StopSession(c)
    /\ \/ UNCHANGED <<registry, optedIn, reached>>
       \/ /\ registry' = [registry EXCEPT ![c] = NoRow]
          /\ optedIn' = [optedIn EXCEPT ![c] = {}]
          /\ reached' = [reached EXCEPT ![c] = {}]

SetGrants(c, tools) ==
    /\ c \in Installed
    /\ registry' = [registry EXCEPT ![c].granted = tools]
    /\ optedIn' = [optedIn EXCEPT ![c] = @ \cup tools]
    /\ UNCHANGED <<session, failed, reached>>

SetEnabled(c, on) ==
    /\ IF on THEN UNCHANGED <<session, failed>> ELSE StopSession(c)
    /\ registry' = [registry EXCEPT ![c].enabled = registry[c].installed /\ on]
    /\ UNCHANGED <<optedIn, reached>>

\* A connector that has a session keeps it, dead or with old secrets as it may
\* be.  Otherwise it is opened; listing its tools may fail and leaves it open.
\* Whether the connector is enabled is not asked.
Start(c) ==
    /\ c \in Installed
    /\ session[c] = "none"
    /\ \/ /\ session' = [session EXCEPT ![c] = "live"]
          /\ \/ failed' = failed \ {c}
             \/ failed' = failed \cup {c}
       \/ /\ failed' = failed \cup {c}
          /\ UNCHANGED session
    /\ UNCHANGED <<registry, optedIn, reached>>

\* McpManager.call_tool, in the order of its checks.
MayCall(c, tool) ==
    /\ registry[c].installed
    /\ registry[c].enabled
    /\ tool \in registry[c].granted
    /\ session[c] # "none"

CallTool(c, tool) ==
    /\ MayCall(c, tool)
    /\ session[c] = "live"
    /\ reached' = [reached EXCEPT ![c] = @ \cup {tool}]
    /\ UNCHANGED <<registry, session, failed, optedIn>>

\* The server's process ends or drops the connection; nobody tells the manager.
ServerExits(c) ==
    /\ session[c] = "live"
    /\ session' = [session EXCEPT ![c] = "dead"]
    /\ UNCHANGED <<registry, failed, optedIn, reached>>

\* The brain ends, by a crash or through McpManager.shutdown.
ConnectorsCrash ==
    /\ session' = [c \in Connectors |-> "none"]
    /\ failed' = {}
    /\ UNCHANGED <<registry, optedIn, reached>>

ConnectorsRequest ==
    \E c \in Connectors :
        \/ Install(c) \/ Setup(c) \/ Uninstall(c)
        \/ \E tools \in SUBSET Tools : SetGrants(c, tools)
        \/ \E on \in BOOLEAN : SetEnabled(c, on)
        \/ Start(c) \/ Stop(c)
        \/ \E tool \in Tools : CallTool(c, tool)

ConnectorsTypeOK ==
    /\ registry \in [Connectors -> Row]
    /\ session \in [Connectors -> Session]
    /\ failed \subseteq Connectors
    /\ optedIn \in [Connectors -> SUBSET Tools]
    /\ reached \in [Connectors -> SUBSET Tools]

\* A sensitive tool has been called only if the user has opted in to it since
\* the connector was last installed: neither a reinstall nor a set-up by
\* conversation brings earlier grants back (McpManager.install).
SensitiveNeedsOptIn ==
    \A c \in Connectors : reached[c] \cap Sensitive \subseteq optedIn[c]

\* No server runs for a connector that is not installed, through uninstalls
\* that fail half-way, disabling, and restarts (McpManager.uninstall).
SessionNeedsInstall ==
    \A c \in Connectors : session[c] # "none" => c \in Installed
=============================================================================

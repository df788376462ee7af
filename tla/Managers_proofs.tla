---------------------------- MODULE Managers_proofs ----------------------------
(* Theorems about the managers the brain keeps beside its runs: connectors    *)
(* and email (Services), for any connectors, tools, accounts, drafts, lost    *)
(* answers and crashes, and the browser (BrowserSession), for any runs,       *)
(* commands and connections.                                                  *)
EXTENDS Services, BrowserSession, TLAPS

-------------------------------------------------------------------------------
(* The inductive invariants *)

\* A connector without a row has a clean slate, and every sensitive grant it has
\* is one the user chose since the install.
GrantInv ==
    \A c \in Connectors :
        /\ c \notin Installed => /\ session[c] = "none" /\ reached[c] = {}
                                 /\ registry[c].granted = {}
        /\ (registry[c].granted \cup reached[c]) \cap Sensitive \subseteq optedIn[c]

\* How often a draft may have gone out by where it stands.
DraftInv(d) ==
    /\ draft[d] = "unused" => d \notin clicked
    /\ draft[d] # "unused" => from[d] \in Accounts
    /\ draft[d] = "approved" => d \in clicked
    /\ d \notin clicked => copies[d] = 0
    /\ draft[d] # "gone" => copies[d] <= lost[d]
    /\ copies[d] <= 1 + lost[d]

\* Adapters are kept for stored accounts only, and a send under way is of an
\* approved draft of such an account.
SendInv ==
    /\ \A d \in Drafts : DraftInv(d)
    /\ \A a \in Accounts : adapter[a] # "none" => account[a] = "stored"
    /\ sending # None => draft[sending] = "approved" /\ account[from[sending]] = "stored"

\* A connection not marked closed has its owner, and a WebSocket whose reader no
\* late answer killed is that of the last connection, not marked closed and with
\* Chromium at its end: the rest has been closed or has ended.
OpenIsOwned == ~closed => attached \/ op.verb = "attach"
Linked == \A c \in sockets \ killed : c = attaches /\ ~closed /\ chromium

\* The reader ends with the connection; a request other than an attach has a
\* session; numbers are written to the capture directory once they are taken, and
\* the one being taken has not been written.
BrowserInv ==
    /\ reader = ~closed
    /\ OpenIsOwned
    /\ Linked
    /\ \A n \in Numbers : written[n] <= 1 /\ (written[n] = 1 => n < stepSeq)
    /\ op.verb = "capture" =>
          op.step < stepSeq /\ (op.step \in Numbers => written[op.step] = 0)

-------------------------------------------------------------------------------
(* Connectors *)

LEMMA ConnectorsTypeInit == ConnectorsInit => ConnectorsTypeOK
  BY DEF ConnectorsInit, ConnectorsTypeOK, NoRow, Row, Session

\* What a request does to the rows and histories of other connectors: nothing.
OnlyConnector(c) ==
    \A x \in Connectors : x # c =>
        /\ registry'[x] = registry[x] /\ session'[x] = session[x]
        /\ optedIn'[x] = optedIn[x] /\ reached'[x] = reached[x]

LEMMA StopFields ==
    ASSUME ConnectorsTypeOK, NEW c \in Connectors, StopSession(c)
    PROVE  /\ session' \in [Connectors -> Session] /\ failed' \subseteq Connectors
           /\ session'[c] = "none"
           /\ \A x \in Connectors : x # c => session'[x] = session[x]
  BY DEF StopSession, ConnectorsTypeOK, Session

\* The guarantees of one connector, carried over a request for it.
LEMMA OthersKeepGrants ==
    ASSUME GrantInv, NEW c \in Connectors, OnlyConnector(c),
           c \notin Installed' => /\ session'[c] = "none" /\ reached'[c] = {}
                                  /\ registry'[c].granted = {},
           (registry'[c].granted \cup reached'[c]) \cap Sensitive \subseteq optedIn'[c]
    PROVE  GrantInv'
  BY DEF GrantInv, OnlyConnector, Installed

LEMMA RequestStep ==
    ASSUME ConnectorsTypeOK, GrantInv, ConnectorsRequest
    PROVE  ConnectorsTypeOK' /\ GrantInv'
<1>0. PICK c \in Connectors :
        \/ Install(c) \/ Setup(c) \/ Uninstall(c)
        \/ \E tools \in SUBSET Tools : SetGrants(c, tools)
        \/ \E on \in BOOLEAN : SetEnabled(c, on)
        \/ Start(c) \/ Stop(c)
        \/ \E tool \in Tools : CallTool(c, tool)
  BY DEF ConnectorsRequest
<1> USE DEF Session
<1>a. /\ registry \in [Connectors -> Row] /\ registry[c] \in Row
      /\ session \in [Connectors -> Session]
      /\ optedIn \in [Connectors -> SUBSET Tools] /\ reached \in [Connectors -> SUBSET Tools]
      /\ failed \subseteq Connectors
  BY DEF ConnectorsTypeOK
<1>b. /\ c \notin Installed => /\ session[c] = "none" /\ reached[c] = {}
                               /\ registry[c].granted = {}
      /\ (registry[c].granted \cup reached[c]) \cap Sensitive \subseteq optedIn[c]
      /\ c \in Installed <=> registry[c].installed
  BY DEF GrantInv, Installed
<1>c. ASSUME NEW tools \in SUBSET Tools, InstallRow(c, tools)
      PROVE  /\ registry' \in [Connectors -> Row]
             /\ registry'[c].granted = tools /\ registry'[c].installed = TRUE
             /\ \A x \in Connectors : x # c => registry'[x] = registry[x]
  BY <1>a, <1>c DEF InstallRow, Row
<1>d. DefaultGrants \in SUBSET Tools /\ DefaultGrants \cap Sensitive = {}
  BY DEF DefaultGrants
<1>1. CASE Install(c)
  <2>1. CASE InstallRow(c, DefaultGrants) /\ UNCHANGED optedIn
    <3>1. ConnectorsTypeOK' /\ OnlyConnector(c)
      BY <1>1, <1>a, <1>c, <1>d, <2>1 DEF Install, ConnectorsTypeOK, OnlyConnector
    <3>2. c \in Installed' /\ registry'[c].granted = DefaultGrants /\ reached' = reached
      BY <1>1, <1>c, <1>d, <2>1 DEF Install, Installed
    <3>3. QED BY <1>b, <1>d, <2>1, <3>1, <3>2, OthersKeepGrants
  <2>2. ASSUME NEW tools \in SUBSET Tools, InstallRow(c, tools),
               optedIn' = [optedIn EXCEPT ![c] = tools]
        PROVE  ConnectorsTypeOK' /\ GrantInv'
    <3>1. ConnectorsTypeOK' /\ OnlyConnector(c)
      BY <1>1, <1>a, <1>c, <2>2 DEF Install, ConnectorsTypeOK, OnlyConnector
    <3>2. /\ c \in Installed' /\ registry'[c].granted = tools /\ optedIn'[c] = tools
          /\ reached'[c] = {}
      BY <1>1, <1>a, <1>b, <1>c, <2>2 DEF Install, Installed
    <3>3. QED BY <3>1, <3>2, OthersKeepGrants
  <2>3. QED BY <1>1, <2>1, <2>2 DEF Install
<1>2. CASE Setup(c)
  <2>1. CASE c \in Installed
    BY <1>2, <2>1 DEF Setup, ConnectorsTypeOK, GrantInv, Installed
  <2>2. CASE c \notin Installed
    <3>1. ConnectorsTypeOK' /\ OnlyConnector(c)
      BY <1>2, <1>a, <1>c, <1>d, <2>2 DEF Setup, ConnectorsTypeOK, OnlyConnector
    <3>2. /\ c \in Installed' /\ registry'[c].granted = DefaultGrants
          /\ reached' = reached /\ optedIn' = optedIn
      BY <1>2, <1>c, <1>d, <2>2 DEF Setup, Installed
    <3>3. QED BY <1>b, <1>d, <3>1, <3>2, OthersKeepGrants
  <2>3. QED BY <2>1, <2>2
<1>3. CASE Uninstall(c)
  <2>1. StopSession(c)
    BY <1>3 DEF Uninstall
  <2>2. CASE UNCHANGED <<registry, optedIn, reached>>
    <3>1. ConnectorsTypeOK' /\ OnlyConnector(c)
      BY <1>a, <2>1, <2>2, StopFields DEF ConnectorsTypeOK, OnlyConnector
    <3>2. session'[c] = "none" /\ (c \in Installed' <=> c \in Installed)
      BY <2>1, <2>2, StopFields DEF Installed
    <3>3. QED BY <1>b, <2>2, <3>1, <3>2, OthersKeepGrants
  <2>3. CASE /\ registry' = [registry EXCEPT ![c] = NoRow]
             /\ optedIn' = [optedIn EXCEPT ![c] = {}]
             /\ reached' = [reached EXCEPT ![c] = {}]
    <3>1. NoRow \in Row /\ NoRow.granted = {}
      BY DEF NoRow, Row
    <3>2. ConnectorsTypeOK' /\ OnlyConnector(c)
      BY <1>a, <2>1, <2>3, <3>1, StopFields DEF ConnectorsTypeOK, OnlyConnector
    <3>3. session'[c] = "none" /\ reached'[c] = {} /\ registry'[c].granted = {}
      BY <1>a, <2>1, <2>3, <3>1, StopFields
    <3>4. QED BY <3>2, <3>3, OthersKeepGrants
  <2>4. QED BY <1>3, <2>2, <2>3 DEF Uninstall
<1>4. ASSUME NEW tools \in SUBSET Tools, SetGrants(c, tools)
      PROVE  ConnectorsTypeOK' /\ GrantInv'
  <2>1. /\ registry' \in [Connectors -> Row] /\ registry'[c].granted = tools
        /\ registry'[c].installed = registry[c].installed
        /\ \A x \in Connectors : x # c => registry'[x] = registry[x]
    BY <1>4, <1>a DEF SetGrants, Row
  <2>2. /\ optedIn' \in [Connectors -> SUBSET Tools] /\ optedIn'[c] = optedIn[c] \cup tools
        /\ \A x \in Connectors : x # c => optedIn'[x] = optedIn[x]
        /\ UNCHANGED <<session, failed, reached>> /\ c \in Installed
    BY <1>4, <1>a DEF SetGrants
  <2>3. ConnectorsTypeOK' /\ OnlyConnector(c) /\ c \in Installed'
    BY <1>b, <2>1, <2>2 DEF ConnectorsTypeOK, OnlyConnector, Installed
  <2>4. QED BY <1>b, <2>1, <2>2, <2>3, OthersKeepGrants
<1>5. ASSUME NEW on \in BOOLEAN, SetEnabled(c, on)
      PROVE  ConnectorsTypeOK' /\ GrantInv'
  <2>1. /\ registry' \in [Connectors -> Row] /\ registry'[c].granted = registry[c].granted
        /\ registry'[c].installed = registry[c].installed
        /\ \A x \in Connectors : x # c => registry'[x] = registry[x]
        /\ UNCHANGED <<optedIn, reached>>
    BY <1>5, <1>a DEF SetEnabled, Row
  <2>2. /\ session' \in [Connectors -> Session] /\ failed' \subseteq Connectors
        /\ session'[c] \in {session[c], "none"}
        /\ \A x \in Connectors : x # c => session'[x] = session[x]
    BY <1>5, <1>a, StopFields DEF SetEnabled
  <2>3. ConnectorsTypeOK' /\ OnlyConnector(c) /\ (c \in Installed' <=> c \in Installed)
    BY <1>b, <2>1, <2>2 DEF ConnectorsTypeOK, OnlyConnector, Installed
  <2>4. QED BY <1>b, <2>1, <2>2, <2>3, OthersKeepGrants
<1>6. CASE Start(c)
  <2>1. /\ session' \in [Connectors -> Session] /\ failed' \subseteq Connectors
        /\ \A x \in Connectors : x # c => session'[x] = session[x]
        /\ UNCHANGED <<registry, optedIn, reached>> /\ c \in Installed
    BY <1>6, <1>a DEF Start
  <2>2. ConnectorsTypeOK' /\ OnlyConnector(c) /\ c \in Installed'
    BY <2>1 DEF ConnectorsTypeOK, OnlyConnector, Installed
  <2>3. QED BY <1>b, <2>1, <2>2, OthersKeepGrants
<1>7. CASE Stop(c)
  <2>1. ConnectorsTypeOK' /\ OnlyConnector(c) /\ session'[c] = "none"
        /\ UNCHANGED <<registry, optedIn, reached>>
    BY <1>7, <1>a, StopFields DEF Stop, ConnectorsTypeOK, OnlyConnector
  <2>2. c \in Installed' <=> c \in Installed
    BY <2>1 DEF Installed
  <2>3. QED BY <1>b, <2>1, <2>2, OthersKeepGrants
<1>8. ASSUME NEW tool \in Tools, CallTool(c, tool) PROVE ConnectorsTypeOK' /\ GrantInv'
  <2>1. /\ reached' \in [Connectors -> SUBSET Tools] /\ reached'[c] = reached[c] \cup {tool}
        /\ \A x \in Connectors : x # c => reached'[x] = reached[x]
        /\ UNCHANGED <<registry, session, failed, optedIn>>
        /\ tool \in registry[c].granted /\ c \in Installed
    BY <1>8, <1>a, <1>b DEF CallTool, MayCall
  <2>2. ConnectorsTypeOK' /\ OnlyConnector(c) /\ c \in Installed'
    BY <2>1 DEF ConnectorsTypeOK, OnlyConnector, Installed
  <2>3. (registry'[c].granted \cup reached'[c]) \cap Sensitive \subseteq optedIn'[c]
    BY <1>b, <2>1
  <2>4. QED BY <2>2, <2>3, OthersKeepGrants
<1>9. QED
  BY <1>0, <1>1, <1>2, <1>3, <1>4, <1>5, <1>6, <1>7, <1>8

\* A server that exits, or the brain's end, takes sessions away and nothing else.
LEMMA FewerSessions ==
    ASSUME ConnectorsTypeOK, GrantInv, UNCHANGED <<registry, optedIn, reached>>,
           session' \in [Connectors -> Session], failed' \subseteq Connectors,
           \A c \in Connectors : session[c] = "none" => session'[c] = "none"
    PROVE  ConnectorsTypeOK' /\ GrantInv'
  BY DEF ConnectorsTypeOK, GrantInv, Installed

LEMMA ConnectorsStep ==
    ASSUME ConnectorsTypeOK, GrantInv, [Next]_vars
    PROVE  ConnectorsTypeOK' /\ GrantInv'
<1>1. CASE ConnectorsRequest
  BY <1>1, RequestStep
<1>2. ASSUME NEW c \in Connectors, ServerExits(c) PROVE ConnectorsTypeOK' /\ GrantInv'
  <2>1. /\ UNCHANGED <<registry, optedIn, reached>> /\ failed' = failed
        /\ session' \in [Connectors -> Session]
        /\ \A x \in Connectors : session[x] = "none" => session'[x] = "none"
    BY <1>2 DEF ServerExits, ConnectorsTypeOK, Session
  <2>2. failed' \subseteq Connectors
    BY <2>1 DEF ConnectorsTypeOK
  <2>3. QED BY <2>1, <2>2, FewerSessions
<1>3. CASE ConnectorsCrash
  <2>1. /\ UNCHANGED <<registry, optedIn, reached>> /\ failed' = {}
        /\ session' \in [Connectors -> Session]
        /\ \A x \in Connectors : session'[x] = "none"
    BY <1>3 DEF ConnectorsCrash, Session
  <2>2. QED BY <2>1, FewerSessions
<1>4. CASE UNCHANGED connectorVars
  BY <1>4, FewerSessions DEF connectorVars, ConnectorsTypeOK
<1>5. QED
  BY <1>1, <1>2, <1>3, <1>4 DEF Next, Crash, vars

-------------------------------------------------------------------------------
(* Email *)

LEMMA EmailTypeInit == EmailInit => EmailTypeOK
  BY DEF EmailInit, EmailTypeOK, Adapter, DraftStatus

\* The name of no account is no account's, nor no draft's a draft's.
LEMMA NoneIsNothing == None \notin Accounts /\ None \notin Drafts
  BY EmailAssumption

\* How a send ends that the provider has accepted: once more, for this draft.
LEMMA Accepted ==
    ASSUME EmailTypeOK, sending # None,
           copies' = [copies EXCEPT ![sending] = @ + 1]
    PROVE  /\ copies' \in [Drafts -> Nat] /\ copies'[sending] = copies[sending] + 1
           /\ \A d \in Drafts : d # sending => copies'[d] = copies[d]
  BY DEF EmailTypeOK

LEMMA AuthorizedFields ==
    ASSUME EmailTypeOK, NEW a \in Accounts, Authorized(a) \/ Unauthorized(a)
    PROVE  /\ adapter' \in [Accounts -> Adapter]
           /\ \A x \in Accounts : x # a => adapter'[x] = adapter[x]
  BY DEF EmailTypeOK, Adapter, Authorized, Unauthorized

\* Requests that touch neither drafts nor sends.
LEMMA AccountStep ==
    ASSUME EmailTypeOK, SendInv, Idle, NEW a \in Accounts,
           \/ AddAccount(a) \/ RemoveAccount(a)
           \/ SetCredentials(a) \/ ClearCredentials(a) \/ ReadMail(a)
    PROVE  EmailTypeOK' /\ SendInv'
<1> USE DEF draftVars, Adapter, DraftStatus
<1>1. CASE AddAccount(a)
  <2>1. /\ account' \in [Accounts -> {"unused", "stored", "removed"}]
        /\ account'[a] = "stored"
        /\ \A x \in Accounts : x # a => account'[x] = account[x]
        /\ UNCHANGED <<creds, adapter, sending, draftVars>>
    BY <1>1 DEF AddAccount, EmailTypeOK
  <2>2. QED BY <2>1 DEF EmailTypeOK, SendInv, DraftInv, Idle
<1>2. CASE RemoveAccount(a)
  <2>1. /\ account' \in [Accounts -> {"unused", "stored", "removed"}]
        /\ \A x \in Accounts : x # a => account'[x] = account[x]
        /\ adapter' \in [Accounts -> Adapter] /\ adapter'[a] = "none"
        /\ \A x \in Accounts : x # a => adapter'[x] = adapter[x]
        /\ UNCHANGED <<creds, sending, draftVars>>
    BY <1>2 DEF RemoveAccount, DropAdapter, EmailTypeOK
  <2>2. QED BY <2>1 DEF EmailTypeOK, SendInv, DraftInv, Idle
<1>3. CASE SetCredentials(a) \/ ClearCredentials(a)
  BY <1>3 DEF SetCredentials, ClearCredentials, EmailTypeOK, SendInv, DraftInv
<1>4. CASE ReadMail(a)
  <2>1. /\ adapter' \in [Accounts -> Adapter]
        /\ \A x \in Accounts : x # a => adapter'[x] = adapter[x]
        /\ account[a] = "stored"
        /\ UNCHANGED <<account, creds, sending, draftVars>>
    BY <1>4, AuthorizedFields DEF ReadMail, AdapterFor, SendInv
  <2>2. QED BY <2>1 DEF EmailTypeOK, SendInv, DraftInv, Idle
<1>5. QED BY <1>1, <1>2, <1>3, <1>4

LEMMA DraftStep ==
    ASSUME EmailTypeOK, SendInv, NEW d \in Drafts,
           \/ \E a \in Accounts : CreateDraft(d, a)
           \/ ApproveDraft(d) \/ DiscardDraft(d) \/ SendDraft(d)
    PROVE  EmailTypeOK' /\ SendInv'
<1> USE DEF draftVars, Adapter, DraftStatus
<1>0. DraftInv(d) /\ sending = None
  BY DEF SendInv, CreateDraft, ApproveDraft, DiscardDraft, SendDraft, Idle
<1>1. ASSUME NEW a \in Accounts, CreateDraft(d, a) PROVE EmailTypeOK' /\ SendInv'
  <2>1. /\ draft' \in [Drafts -> DraftStatus] /\ draft'[d] = "open" /\ draft[d] = "unused"
        /\ from' \in [Drafts -> Accounts \cup {None}] /\ from'[d] = a
        /\ \A x \in Drafts : x # d => draft'[x] = draft[x] /\ from'[x] = from[x]
        /\ UNCHANGED <<account, creds, adapter, sending, clicked, copies, lost>>
    BY <1>1 DEF CreateDraft, EmailTypeOK
  <2>2. \A x \in Drafts : DraftInv(x)'
    BY <1>0, <2>1 DEF SendInv, DraftInv
  <2>3. QED BY <1>0, <2>1, <2>2 DEF EmailTypeOK, SendInv
<1>2. CASE ApproveDraft(d)
  <2>1. /\ draft' \in [Drafts -> DraftStatus] /\ draft'[d] = "approved"
        /\ draft[d] \in {"open", "approved"}
        /\ \A x \in Drafts : x # d => draft'[x] = draft[x]
        /\ clicked' = clicked \cup {d}
        /\ UNCHANGED <<account, creds, adapter, from, sending, copies, lost>>
    BY <1>2 DEF ApproveDraft, EmailTypeOK
  <2>2. \A x \in Drafts : DraftInv(x)'
    BY <1>0, <2>1 DEF SendInv, DraftInv
  <2>3. QED BY <1>0, <2>1, <2>2 DEF EmailTypeOK, SendInv
<1>3. CASE DiscardDraft(d)
  <2>1. /\ draft' \in [Drafts -> DraftStatus] /\ draft'[d] = "gone"
        /\ draft[d] \in {"open", "approved"}
        /\ \A x \in Drafts : x # d => draft'[x] = draft[x]
        /\ UNCHANGED <<account, creds, adapter, from, sending, clicked, copies, lost>>
    BY <1>3 DEF DiscardDraft, EmailTypeOK
  <2>2. \A x \in Drafts : DraftInv(x)'
    BY <1>0, <2>1 DEF SendInv, DraftInv
  <2>3. QED BY <1>0, <2>1, <2>2 DEF EmailTypeOK, SendInv
<1>4. CASE SendDraft(d)
  <2>1. draft[d] = "approved" /\ from[d] \in Accounts
    BY <1>0, <1>4 DEF SendDraft, DraftInv
  <2>2. account[from[d]] = "stored"
    BY <1>4, <2>1 DEF SendDraft, AdapterFor, SendInv
  <2>3. /\ adapter' \in [Accounts -> Adapter]
        /\ \A x \in Accounts : x # from[d] => adapter'[x] = adapter[x]
    BY <1>4, <2>1, AuthorizedFields DEF SendDraft
  <2>4. /\ sending' \in {None, d}
        /\ UNCHANGED <<account, creds, draftVars>>
    BY <1>0, <1>4 DEF SendDraft
  <2>5. \A x \in Drafts : DraftInv(x)'
    BY <2>4 DEF SendInv, DraftInv
  <2>6. QED BY <2>1, <2>2, <2>3, <2>4, <2>5 DEF EmailTypeOK, SendInv
<1>5. QED BY <1>1, <1>2, <1>3, <1>4

\* The ends of a send, and of the brain in the middle of one.
LEMMA SendEnds ==
    ASSUME EmailTypeOK, SendInv, Sent \/ AnswerLost \/ Refused \/ EmailCrash
    PROVE  EmailTypeOK' /\ SendInv'
<1> USE DEF draftVars, Adapter, DraftStatus
<1>0. \A d \in Drafts : DraftInv(d) /\ copies[d] \in Nat /\ lost[d] \in Nat
  BY DEF SendInv, EmailTypeOK
<1>1. CASE Sent
  <2>1. PICK s \in Drafts : s = sending /\ draft[s] = "approved"
    BY <1>1 DEF Sent, Idle, EmailTypeOK, SendInv
  <2>2. /\ draft' \in [Drafts -> DraftStatus] /\ draft'[s] = "gone"
        /\ \A x \in Drafts : x # s => draft'[x] = draft[x]
        /\ UNCHANGED <<account, creds, adapter, from, clicked, lost>> /\ sending' = None
    BY <1>1, <2>1 DEF Sent, Settle, EmailTypeOK
  <2>3. /\ copies' \in [Drafts -> Nat] /\ copies'[s] = copies[s] + 1
        /\ \A x \in Drafts : x # s => copies'[x] = copies[x]
    BY <1>1, <2>1, Accepted DEF Sent, Idle
  <2>4. ASSUME NEW x \in Drafts PROVE DraftInv(x)'
    <3>1. CASE x = s
      BY <1>0, <2>1, <2>2, <2>3, <3>1 DEF DraftInv
    <3>2. CASE x # s
      BY <1>0, <2>2, <2>3, <3>2 DEF DraftInv
    <3>3. QED BY <3>1, <3>2
  <2>5. QED BY <2>2, <2>3, <2>4 DEF EmailTypeOK, SendInv
<1>2. CASE AnswerLost
  <2>1. PICK s \in Drafts : s = sending /\ draft[s] = "approved"
    BY <1>2 DEF AnswerLost, Idle, EmailTypeOK, SendInv
  <2>2. /\ lost' \in [Drafts -> Nat] /\ lost'[s] = lost[s] + 1
        /\ \A x \in Drafts : x # s => lost'[x] = lost[x]
        /\ UNCHANGED <<account, creds, adapter, draft, from, clicked>> /\ sending' = None
    BY <1>2, <2>1 DEF AnswerLost, EmailTypeOK
  <2>3. /\ copies' \in [Drafts -> Nat] /\ copies'[s] = copies[s] + 1
        /\ \A x \in Drafts : x # s => copies'[x] = copies[x]
    BY <1>2, <2>1, Accepted DEF AnswerLost, Idle
  <2>4. ASSUME NEW x \in Drafts PROVE DraftInv(x)'
    <3>1. CASE x = s
      BY <1>0, <2>1, <2>2, <2>3, <3>1 DEF DraftInv
    <3>2. CASE x # s
      BY <1>0, <2>2, <2>3, <3>2 DEF DraftInv
    <3>3. QED BY <3>1, <3>2
  <2>5. QED BY <2>2, <2>3, <2>4 DEF EmailTypeOK, SendInv
<1>3. CASE Refused
  BY <1>3 DEF Refused, EmailTypeOK, SendInv, DraftInv
<1>4. CASE EmailCrash
  <2>1. /\ draft' \in [Drafts -> DraftStatus]
        /\ \A x \in Drafts : draft'[x] = IF draft[x] = "unused" THEN "unused" ELSE "gone"
        /\ adapter' \in [Accounts -> Adapter] /\ \A a \in Accounts : adapter'[a] = "none"
        /\ creds' = {} /\ sending' = None
        /\ UNCHANGED <<account, from, clicked, lost>>
    BY <1>4 DEF EmailCrash
  <2>2. CASE UNCHANGED copies
    <3>1. \A x \in Drafts : DraftInv(x)'
      BY <1>0, <2>1, <2>2 DEF DraftInv
    <3>2. QED BY <2>1, <2>2, <3>1 DEF EmailTypeOK, SendInv
  <2>3. CASE ~Idle /\ copies' = [copies EXCEPT ![sending] = @ + 1]
    <3>1. PICK s \in Drafts : s = sending /\ draft[s] = "approved"
      BY <2>3 DEF Idle, EmailTypeOK, SendInv
    <3>2. /\ copies' \in [Drafts -> Nat] /\ copies'[s] = copies[s] + 1
          /\ \A x \in Drafts : x # s => copies'[x] = copies[x]
      BY <2>3, <3>1, Accepted DEF Idle
    <3>3. ASSUME NEW x \in Drafts PROVE DraftInv(x)'
      <4>1. CASE x = s
        BY <1>0, <2>1, <3>1, <3>2, <4>1 DEF DraftInv
      <4>2. CASE x # s
        BY <1>0, <2>1, <3>2, <4>2 DEF DraftInv
      <4>3. QED BY <4>1, <4>2
    <3>4. QED BY <2>1, <3>2, <3>3 DEF EmailTypeOK, SendInv
  <2>4. QED BY <1>4, <2>2, <2>3 DEF EmailCrash
<1>5. QED BY <1>1, <1>2, <1>3, <1>4

LEMMA EmailStep ==
    ASSUME EmailTypeOK, SendInv, [Next]_vars
    PROVE  EmailTypeOK' /\ SendInv'
<1>1. ASSUME NEW a \in Accounts, TokenExpires(a) PROVE EmailTypeOK' /\ SendInv'
  <2>1. /\ adapter' \in [Accounts -> Adapter] /\ adapter[a] # "none"
        /\ \A x \in Accounts : x # a => adapter'[x] = adapter[x]
        /\ UNCHANGED <<account, creds, sending, draftVars>>
    BY <1>1 DEF TokenExpires, EmailTypeOK, Adapter
  <2>2. QED BY <2>1 DEF EmailTypeOK, SendInv, DraftInv, draftVars
<1>2. CASE EmailNext
  BY <1>1, <1>2, AccountStep, DraftStep, SendEnds
  DEF EmailNext, AddAccount, RemoveAccount, SetCredentials, ClearCredentials, ReadMail
<1>3. CASE EmailCrash
  BY <1>3, SendEnds
<1>4. CASE UNCHANGED emailVars
  BY <1>4 DEF emailVars, EmailTypeOK, SendInv, DraftInv
<1>5. QED
  BY <1>2, <1>3, <1>4 DEF Next, Crash, vars

-------------------------------------------------------------------------------
(* The theorems about connectors and email *)

LEMMA ServicesInit == Init => TypeOK /\ GrantInv /\ SendInv
<1> SUFFICES ASSUME Init PROVE TypeOK /\ GrantInv /\ SendInv
  OBVIOUS
<1>1. GrantInv
  BY DEF Init, ConnectorsInit, GrantInv, Installed, NoRow
<1>2. SendInv
  BY DEF Init, EmailInit, SendInv, DraftInv
<1>3. crashes \in 0 .. MaxCrashes
  BY ServicesAssumption DEF Init
<1>4. QED
  BY <1>1, <1>2, <1>3, ConnectorsTypeInit, EmailTypeInit DEF Init, TypeOK

LEMMA ServicesStep ==
    TypeOK /\ GrantInv /\ SendInv /\ [Next]_vars => (TypeOK /\ GrantInv /\ SendInv)'
<1> SUFFICES ASSUME TypeOK, GrantInv, SendInv, [Next]_vars
             PROVE  (TypeOK /\ GrantInv /\ SendInv)'
  OBVIOUS
<1>1. ConnectorsTypeOK /\ EmailTypeOK /\ crashes \in 0 .. MaxCrashes
  BY DEF TypeOK
<1>2. crashes' = crashes \/ (crashes < MaxCrashes /\ crashes' = crashes + 1)
  BY DEF Next, Crash, vars
<1>3. crashes' \in 0 .. MaxCrashes
  BY <1>1, <1>2, ServicesAssumption
<1>4. QED
  BY <1>1, <1>3, ConnectorsStep, EmailStep DEF TypeOK

LEMMA ServicesSound == Spec => [](TypeOK /\ GrantInv /\ SendInv)
  BY ServicesInit, ServicesStep, PTL DEF Spec

\* The tables, sessions, adapters and drafts keep their shapes (mcp/, email/).
THEOREM ServicesTypes == Spec => []TypeOK
  BY ServicesSound, PTL

\* Whatever is installed, set up, granted and uninstalled, a sensitive tool's call
\* reaches a server only after the user's own grant (McpManager.call_tool).
THEOREM SensitiveIsGranted == Spec => []SensitiveNeedsOptIn
<1>1. GrantInv => SensitiveNeedsOptIn
  BY DEF GrantInv, SensitiveNeedsOptIn
<1>2. QED
  BY <1>1, ServicesSound, PTL

\* A connector that is not installed has no session, also after an uninstall
\* whose delete has raised (McpManager.uninstall, start).
THEOREM SessionsAreInstalled == Spec => []SessionNeedsInstall
<1>1. GrantInv => SessionNeedsInstall
  BY DEF GrantInv, SessionNeedsInstall
<1>2. QED
  BY <1>1, ServicesSound, PTL

\* Copies of a draft beyond the first are answers lost, and without an approval
\* there is none, through crashes in the middle of a send (EmailManager.send_draft).
THEOREM CopiesAreClicked == Spec => []OneCopyPerClick
<1>1. TypeOK /\ SendInv => OneCopyPerClick
  <2> SUFFICES ASSUME TypeOK, SendInv, NEW d \in Drafts
               PROVE  copies[d] <= IF d \in clicked THEN 1 + lost[d] ELSE 0
    BY DEF OneCopyPerClick
  <2>1. DraftInv(d) /\ copies[d] \in Nat
    BY DEF TypeOK, EmailTypeOK, SendInv
  <2>2. QED BY <2>1 DEF DraftInv
<1>2. QED
  BY <1>1, ServicesSound, PTL

\* A step that sends is the end of a send, and that is from a stored account.
THEOREM SendersAreStored == Spec => RemovedIsSilent
<1>1. TypeOK /\ SendInv /\ [Next]_vars
        => [\A d \in Drafts : copies'[d] # copies[d] => account[from[d]] = "stored"]_emailVars
  <2> SUFFICES ASSUME TypeOK, SendInv, [Next]_vars, NEW d \in Drafts,
                      emailVars' # emailVars, copies'[d] # copies[d]
               PROVE  account[from[d]] = "stored"
    OBVIOUS
  <2>1. EmailTypeOK
    BY DEF TypeOK
  <2>2. CASE EmailNext \/ EmailCrash
    <3>1. sending # None /\ copies' = [copies EXCEPT ![sending] = @ + 1]
      BY <2>2 DEF EmailNext, AddAccount, RemoveAccount, TokenExpires, SetCredentials,
        ClearCredentials, ReadMail, CreateDraft, ApproveDraft, DiscardDraft, SendDraft,
        Sent, AnswerLost, Refused, EmailCrash, draftVars, Idle
    <3>2. d = sending
      BY <2>1, <3>1, Accepted
    <3>3. QED BY <3>1, <3>2 DEF SendInv
  <2>3. QED
    BY <2>2 DEF Next, Crash, vars
<1>2. QED
  BY <1>1, ServicesSound, PTL DEF Spec, RemovedIsSilent

-------------------------------------------------------------------------------
(* The browser *)

\* The types of the connection's variables with what ties its WebSockets to them, and of the request's and captures'.
WireType ==
    /\ {closed, reader, chromium} \subseteq BOOLEAN
    /\ sockets \cup killed \subseteq 0 .. MaxAttach
    /\ nextId \in 1 .. MaxId + 1
    /\ pending \subseteq Ids /\ asked \subseteq Ids /\ wire \subseteq Ids
    /\ fut \in [Ids -> Fut]
    /\ Linked
CaptureType ==
    /\ captureRun \in Runs \cup {NoRun}
    /\ stepSeq \in Nat
    /\ written \in [Numbers -> Nat]

LEMMA BrowserTypes ==
    BrowserTypeOK /\ Linked <=>
                      /\ attached \in BOOLEAN /\ WireType /\ CaptureType
                      /\ op \in Op /\ attaches \in 0 .. MaxAttach
  BY DEF BrowserTypeOK, WireType, CaptureType

LEMMA OpFields ==
    ASSUME op \in Op
    PROVE  op.verb \in Verb \cup {"capture", "none"} /\ op.step \in Nat /\ op.awaits \subseteq Ids
  BY DEF Op

LEMMA AwaitType ==
    ASSUME NEW verb \in Verb \cup {"capture", "none"}, NEW step \in Nat,
           NEW ids \in SUBSET Ids, Await(verb, step, ids)
    PROVE  op' \in Op /\ op'.verb = verb /\ op'.step = step /\ op'.awaits = ids
  BY DEF Await, Op

LEMMA NoOpType == NoOp \in Op /\ NoOp.verb = "none"
  BY DEF NoOp, Op

\* What closes a connection stops its reader and fails what is pending.
LEMMA FailType ==
    ASSUME fut \in [Ids -> Fut], FailPending
    PROVE  pending' \subseteq Ids /\ fut' \in [Ids -> Fut]
  BY DEF FailPending, Fut

LEMMA CloseFields ==
    ASSUME WireType, reader = ~closed, CloseConnection, attaches' = attaches
    PROVE  WireType' /\ closed' = TRUE /\ reader' = FALSE
<1>1. CASE closed
  BY <1>1 DEF CloseConnection, connection, WireType, Linked
<1>2. CASE ~closed
  <2>1. sockets' = sockets \ {attaches} /\ UNCHANGED <<chromium, killed, nextId, asked, wire>>
    BY <1>2 DEF CloseConnection
  <2>2. Linked'
    BY <2>1 DEF WireType, Linked
  <2>3. QED BY <1>2, <2>1, <2>2, FailType DEF CloseConnection, WireType
<1>3. QED BY <1>1, <1>2

LEMMA ReaderEndsFields ==
    ASSUME WireType, ReaderEnds, wire' \subseteq Ids,
           \/ ~chromium /\ killed' = killed
           \/ attaches \in 0 .. MaxAttach /\ killed' = killed \cup {attaches}
    PROVE  WireType' /\ closed' = TRUE /\ reader' = FALSE
<1>1. UNCHANGED <<sockets, chromium, attaches>>
  BY DEF ReaderEnds
<1>2. sockets' \cup killed' \subseteq 0 .. MaxAttach /\ Linked'
  BY <1>1 DEF WireType, Linked
<1>3. QED BY <1>1, <1>2, FailType DEF ReaderEnds, WireType

LEMMA SendFields ==
    ASSUME WireType, op \in Op, NEW n \in {1, 2}, Send(n), attaches' = attaches
    PROVE  WireType' /\ UNCHANGED <<closed, reader>> /\ op' \in Op
           /\ op'.verb = op.verb /\ op'.step = op.step
<1>1. nextId \in Nat /\ nextId >= 1 /\ MaxId \in Nat /\ nextId + n - 1 <= MaxId
  BY BrowserAssumption DEF WireType, Send
<1>2. nextId .. nextId + n - 1 \subseteq Ids
  BY <1>1 DEF Ids
<1>3. nextId' \in 1 .. MaxId + 1
  BY <1>1 DEF Send
<1>4. fut' \in [Ids -> Fut]
  BY DEF Send, WireType, Fut
<1>5. /\ op' \in Op /\ op'.verb = op.verb /\ op'.step = op.step
  <2>1. PICK ids \in SUBSET Ids : Await(op.verb, op.step, ids)
    BY <1>2 DEF Send
  <2>2. op.verb \in Verb \cup {"capture", "none"} /\ op.step \in Nat
    BY OpFields
  <2>3. QED BY <2>1, <2>2, AwaitType
<1>6. UNCHANGED <<closed, reader, chromium, sockets, killed, wire>> /\ Linked'
  BY DEF Send, WireType, Linked
<1>7. QED BY <1>2, <1>3, <1>4, <1>5, <1>6 DEF Send, WireType

LEMMA ForgetFields ==
    ASSUME WireType, NEW i \in Ids, Forget(i), attaches' = attaches
    PROVE  WireType' /\ UNCHANGED <<closed, reader>>
<1>1. UNCHANGED <<closed, reader, chromium, sockets, killed, nextId, asked, wire>>
  BY DEF Forget
<1>2. Linked'
  BY <1>1 DEF WireType, Linked
<1>3. QED BY <1>1, <1>2 DEF Forget, WireType, Fut

\* The two ways in which a number is taken and used.
LEMMA BeginCaptureStep ==
    ASSUME CaptureType, BrowserInv, op \in Op, BeginCapture
    PROVE  /\ CaptureType' /\ op' \in Op /\ op'.verb = "capture"
           /\ \A n \in Numbers : written'[n] <= 1 /\ (written'[n] = 1 => n < stepSeq')
           /\ op'.step < stepSeq' /\ (op'.step \in Numbers => written'[op'.step] = 0)
<1>1. stepSeq \in Nat /\ stepSeq' = stepSeq + 1 /\ UNCHANGED <<captureRun, written>>
  BY DEF CaptureType, BeginCapture
<1>2. op' \in Op /\ op'.verb = "capture" /\ op'.step = stepSeq
  BY <1>1, AwaitType DEF BeginCapture
<1>3. \A n \in Numbers : n \in Nat /\ written[n] \in Nat
  BY BrowserAssumption DEF Numbers, CaptureType
<1>4. QED
  BY <1>1, <1>2, <1>3 DEF BrowserInv, CaptureType

LEMMA WriteCaptureStep ==
    ASSUME CaptureType, BrowserInv, op \in Op, op.verb = "capture", WriteCapture
    PROVE  /\ CaptureType' /\ op' \in Op /\ op'.verb = "none"
           /\ \A n \in Numbers : written'[n] <= 1 /\ (written'[n] = 1 => n < stepSeq')
<1>1. PICK step \in Nat : step = op.step
  BY OpFields
<1>2. /\ written' = [written EXCEPT ![step] = @ + 1]
      /\ UNCHANGED <<captureRun, stepSeq>> /\ op' = NoOp
  BY <1>1 DEF WriteCapture
<1>3. \A n \in Numbers : /\ n \in Nat /\ written[n] \in Nat
                         /\ written[n] <= 1 /\ (written[n] = 1 => n < stepSeq)
  BY BrowserAssumption DEF Numbers, CaptureType, BrowserInv
<1>4. step < stepSeq /\ (step \in Numbers => written[step] = 0) /\ stepSeq \in Nat
  BY <1>1 DEF BrowserInv, CaptureType
<1>5. written' \in [Numbers -> Nat]
  <2>1. CASE step \in Numbers
    BY <1>2, <2>1 DEF CaptureType
  <2>2. CASE step \notin Numbers
    BY <1>2, <2>2 DEF CaptureType
  <2>3. QED BY <2>1, <2>2
<1>6. \A n \in Numbers : written'[n] = IF n = step THEN written[n] + 1 ELSE written[n]
  BY <1>2 DEF CaptureType
<1>7. QED
  BY <1>2, <1>3, <1>4, <1>5, <1>6, NoOpType DEF CaptureType

\* A step that leaves connection, session and captures as they are, or closes the
\* connection, and whose request does not write or begin a capture.
LEMMA QuietBrowser ==
    ASSUME BrowserTypeOK, BrowserInv, UNCHANGED <<captures, attaches>>,
           attached' \in BOOLEAN, WireType', op' \in Op,
           reader' = ~closed', ~closed' => attached' \/ op'.verb = "attach",
           op'.verb = "capture" => op.verb = "capture" /\ op'.step = op.step
    PROVE  BrowserTypeOK' /\ BrowserInv'
<1>1. CaptureType' /\ attaches' \in 0 .. MaxAttach
  BY BrowserTypes DEF captures, CaptureType, BrowserInv
<1>2. attached' \in BOOLEAN /\ WireType' /\ CaptureType' /\ op' \in Op /\ attaches' \in 0 .. MaxAttach
  BY <1>1
<1>3. BrowserTypeOK'
  BY <1>2 DEF BrowserTypeOK, WireType, CaptureType
<1>4. QED
  BY <1>3 DEF BrowserInv, WireType, OpenIsOwned, captures

LEMMA BrowserInitial == BrowserInit => BrowserTypeOK /\ BrowserInv
<1> SUFFICES ASSUME BrowserInit PROVE BrowserTypeOK /\ BrowserInv
  OBVIOUS
<1>1. MaxId \in Nat /\ MaxAttach \in Nat
  BY BrowserAssumption
<1>2. WireType
  <2>1. 1 \in 1 .. MaxId + 1
    BY <1>1
  <2>2. QED BY <2>1 DEF BrowserInit, WireType, Fut, Linked
<1>3. CaptureType
  BY DEF BrowserInit, CaptureType
<1>4. BrowserTypeOK
  <2>1. attached \in BOOLEAN /\ op \in Op /\ attaches \in 0 .. MaxAttach
    <3>1. attached = FALSE /\ op = NoOp /\ attaches = 0
      BY DEF BrowserInit
    <3>2. 0 \in 0 .. MaxAttach
      BY <1>1
    <3>3. QED BY <3>1, <3>2, NoOpType
  <2>2. QED BY <1>2, <1>3, <2>1, BrowserTypes
<1>5. BrowserInv
  <2>1. op.verb = "none" /\ closed /\ ~reader
    BY NoOpType DEF BrowserInit
  <2>2. \A n \in Numbers : written[n] = 0
    BY DEF BrowserInit
  <2>3. QED BY <2>1, <2>2, <1>2 DEF BrowserInv, WireType, OpenIsOwned
<1>6. QED BY <1>4, <1>5

\* The request's own step after an answer, a failure or a deadline.
LEMMA ResumeStep ==
    ASSUME BrowserTypeOK, BrowserInv, NEW i \in Ids, Resume(i)
    PROVE  BrowserTypeOK' /\ BrowserInv'
<1>0. /\ attached \in BOOLEAN /\ WireType /\ CaptureType /\ op \in Op
      /\ attaches \in 0 .. MaxAttach /\ attaches' = attaches
      /\ reader = ~closed /\ OpenIsOwned
  BY BrowserTypes DEF Resume, BrowserInv
<1>f. op.verb \in Verb \cup {"capture", "none"} /\ op.step \in Nat /\ op.awaits \subseteq Ids
  BY <1>0, OpFields
<1>a. ASSUME Forget(i) PROVE WireType' /\ closed' = closed /\ reader' = reader
  BY <1>0, <1>a, ForgetFields
<1>1. CASE Forget(i) /\ UNCHANGED <<attached, op, captures>>
  BY <1>0, <1>1, <1>a, QuietBrowser DEF OpenIsOwned
<1>2. CASE Forget(i) /\ op.verb = "capture" /\ WriteCapture
  <2>1. /\ CaptureType' /\ op' \in Op /\ op'.verb = "none" /\ attached' = attached
        /\ \A n \in Numbers : written'[n] <= 1 /\ (written'[n] = 1 => n < stepSeq')
    BY <1>0, <1>2, WriteCaptureStep DEF WriteCapture
  <2>2. BrowserTypeOK'
    BY <1>0, <1>2, <1>a, <2>1 DEF BrowserTypeOK, WireType, CaptureType
  <2>3. ~closed' => attached'
    BY <1>0, <1>2, <1>a, <2>1 DEF OpenIsOwned
  <2>4. QED
    BY <1>0, <1>2, <1>a, <2>1, <2>2, <2>3 DEF BrowserInv, WireType, OpenIsOwned
<1>3. CASE Forget(i) /\ op.verb = "capture" /\ Await("capture", op.step, op.awaits \ {i})
           /\ UNCHANGED <<attached, captures>>
  <2>1. op' \in Op /\ op'.verb = op.verb /\ op'.step = op.step
    BY <1>3, <1>f, AwaitType
  <2>2. QED BY <1>0, <1>3, <1>a, <2>1, QuietBrowser DEF OpenIsOwned
<1>4. CASE Forget(i) /\ op.verb # "capture" /\ Succeed
  <2>1. /\ attached' \in BOOLEAN /\ (~closed => attached')
    BY <1>0, <1>4 DEF Succeed, OpenIsOwned
  <2>2. CASE BeginCapture
    <3>1. /\ CaptureType' /\ op' \in Op /\ op'.verb = "capture"
          /\ \A n \in Numbers : written'[n] <= 1 /\ (written'[n] = 1 => n < stepSeq')
          /\ op'.step < stepSeq' /\ (op'.step \in Numbers => written'[op'.step] = 0)
      BY <1>0, <2>2, BeginCaptureStep
    <3>2. BrowserTypeOK'
      BY <1>0, <1>4, <1>a, <2>1, <3>1 DEF BrowserTypeOK, WireType, CaptureType
    <3>3. QED
      BY <1>0, <1>4, <1>a, <2>1, <3>1, <3>2 DEF BrowserInv, WireType, OpenIsOwned
  <2>3. CASE op' = NoOp /\ UNCHANGED captures
    BY <1>0, <1>4, <1>a, <2>1, <2>3, NoOpType, QuietBrowser
  <2>4. QED BY <1>4, <2>2, <2>3 DEF Succeed
<1>5. CASE Forget(i) /\ op.verb # "capture" /\ Await(op.verb, op.step + 1, {})
           /\ UNCHANGED <<attached, captures>>
  <2>1. op' \in Op /\ op'.verb = op.verb
    BY <1>5, <1>f, AwaitType
  <2>2. QED BY <1>0, <1>5, <1>a, <2>1, QuietBrowser DEF OpenIsOwned
<1>6. CASE op.verb # "attach" /\ Forget(i) /\ op' = NoOp /\ UNCHANGED <<attached, captures>>
  BY <1>0, <1>6, <1>a, NoOpType, QuietBrowser DEF OpenIsOwned
<1>7. CASE op.verb = "attach" /\ Fail
  <2>1. op' = NoOp /\ CloseConnection /\ UNCHANGED <<attached, captures, attaches>>
    BY <1>7 DEF Fail
  <2>2. QED BY <1>0, <2>1, CloseFields, NoOpType, QuietBrowser
<1>8. QED
  BY <1>1, <1>2, <1>3, <1>4, <1>5, <1>6, <1>7 DEF Resume

\* Chromium, the reader task and the timers.
LEMMA WireStep ==
    ASSUME BrowserTypeOK, BrowserInv,
           \/ ChromiumExits \/ ReadEof
           \/ \E i \in Ids : Answer(i) \/ Dispatch(i) \/ TimerFires(i)
    PROVE  BrowserTypeOK' /\ BrowserInv'
<1>0. /\ attached \in BOOLEAN /\ WireType /\ CaptureType /\ op \in Op
      /\ attaches \in 0 .. MaxAttach
      /\ reader = ~closed /\ OpenIsOwned
  BY BrowserTypes DEF BrowserInv
<1>1. UNCHANGED <<attached, op, captures, attaches>>
  BY DEF ChromiumExits, ReadEof, Answer, Dispatch, TimerFires, ReaderEnds
<1>2. /\ WireType'
      /\ \/ UNCHANGED <<closed, reader>>
         \/ closed' = TRUE /\ reader' = FALSE
  <2>1. CASE ChromiumExits
    <3>1. PICK gone \in SUBSET sockets : sockets' = sockets \ (gone \cup {attaches})
      BY <2>1 DEF ChromiumExits
    <3>2. Linked' /\ sockets' \subseteq sockets
      BY <1>0, <2>1, <3>1 DEF ChromiumExits, WireType, Linked
    <3>3. QED BY <1>0, <2>1, <3>2 DEF ChromiumExits, WireType
  <2>2. CASE ReadEof
    <3>1. ReaderEnds /\ wire' \subseteq Ids /\ ~chromium /\ killed' = killed
      BY <1>0, <2>2 DEF ReadEof, WireType
    <3>2. QED BY <1>0, <3>1, ReaderEndsFields
  <2>3. ASSUME NEW i \in Ids, Answer(i) \/ TimerFires(i)
        PROVE  WireType' /\ UNCHANGED <<closed, reader>>
    <3>1. UNCHANGED <<closed, reader, chromium, sockets, killed, attaches>>
      BY <2>3 DEF Answer, TimerFires
    <3>2. Linked'
      BY <1>0, <3>1 DEF WireType, Linked
    <3>3. QED BY <1>0, <2>3, <3>1, <3>2 DEF Answer, TimerFires, WireType, Fut
  <2>4. ASSUME NEW i \in Ids, Dispatch(i)
        PROVE  WireType' /\ (UNCHANGED <<closed, reader>> \/ (closed' = TRUE /\ reader' = FALSE))
    <3>1. CASE ReaderEnds /\ killed' = killed \cup {attaches} /\ reader
      <4>1. wire' \subseteq Ids
        BY <1>0, <2>4 DEF Dispatch, WireType
      <4>2. QED BY <1>0, <3>1, <4>1, ReaderEndsFields
    <3>2. CASE /\ UNCHANGED <<closed, reader, chromium, sockets, killed, nextId, asked, pending>>
               /\ \/ \E outcome \in {"result", "error"} : fut' = [fut EXCEPT ![i] = outcome]
                  \/ fut' = fut
      <4>1. Linked'
        BY <1>0, <1>1, <3>2 DEF WireType, Linked
      <4>2. QED BY <1>0, <2>4, <3>2, <4>1 DEF Dispatch, WireType, Fut
    <3>3. QED BY <2>4, <3>1, <3>2 DEF Dispatch
  <2>5. QED BY <2>1, <2>2, <2>3, <2>4
<1>3. /\ attached' \in BOOLEAN /\ op' \in Op
      /\ op'.verb = op.verb /\ op'.step = op.step
      /\ reader' = ~closed' /\ (~closed' => attached' \/ op'.verb = "attach")
  <2>1. attached' = attached /\ op' = op
    BY <1>1
  <2>2. CASE UNCHANGED <<closed, reader>>
    <3>1. closed' = closed /\ reader' = reader
      BY <2>2
    <3>2. QED BY <1>0, <2>1, <3>1 DEF OpenIsOwned
  <2>3. CASE closed' = TRUE /\ reader' = FALSE
    BY <1>0, <2>1, <2>3
  <2>4. QED BY <1>2, <2>2, <2>3
<1>4. QED
  BY <1>1, <1>2, <1>3, QuietBrowser

\* The requests, from their beginning to their first command.
LEMMA ManagerStep ==
    ASSUME BrowserTypeOK, BrowserInv,
           \/ Attach \/ Detach \/ Capture \/ ClearCaptureDir \/ IssueNext
           \/ \E verb \in Verb : Request(verb)
           \/ \E run \in Runs : SetCaptureDir(run)
    PROVE  BrowserTypeOK' /\ BrowserInv'
<1>0. /\ attached \in BOOLEAN /\ WireType /\ CaptureType /\ op \in Op
      /\ attaches \in 0 .. MaxAttach
      /\ reader = ~closed /\ OpenIsOwned
  BY BrowserTypes DEF BrowserInv
<1>f. op.verb \in Verb \cup {"capture", "none"} /\ op.step \in Nat /\ op.awaits \subseteq Ids
  BY <1>0, OpFields
<1>1. CASE Attach
  <2>1. op' \in Op /\ op'.verb = "attach"
    BY <1>1, AwaitType DEF Attach, Verb, Script
  <2>2. WireType'
    <3>1. 1 \in 1 .. MaxId + 1
      BY BrowserAssumption
    <3>2. /\ ~attached /\ op.verb # "attach" /\ attaches < MaxAttach
          /\ attaches' = attaches + 1 /\ UNCHANGED killed
          /\ sockets' = sockets \cup {attaches + 1}
          /\ closed' = FALSE /\ chromium' = TRUE
      BY <1>1, NoOpType DEF Attach, NoRequest
    <3>3. sockets \ killed = {}
      BY <1>0, <3>2 DEF WireType, Linked, OpenIsOwned
    <3>4. Linked' /\ sockets' \cup killed' \subseteq 0 .. MaxAttach
      BY <1>0, <3>2, <3>3, BrowserAssumption DEF WireType, Linked
    <3>5. QED BY <1>0, <1>1, <3>1, <3>2, <3>4 DEF Attach, WireType, Fut
  <2>3. attaches' \in 0 .. MaxAttach
    BY <1>0, <1>1, BrowserAssumption DEF Attach
  <2>4. attached' = attached /\ UNCHANGED captures /\ reader' = ~closed'
    BY <1>1 DEF Attach
  <2>5. BrowserTypeOK'
    BY <1>0, <2>1, <2>2, <2>3, <2>4 DEF BrowserTypeOK, WireType, CaptureType, captures
  <2>6. QED BY <1>0, <2>1, <2>2, <2>4, <2>5 DEF BrowserInv, WireType, OpenIsOwned, captures
<1>2. ASSUME NEW verb \in Verb, Request(verb) PROVE BrowserTypeOK' /\ BrowserInv'
  <2>1. op' \in Op /\ op'.verb = verb /\ verb # "capture"
    BY <1>2, AwaitType DEF Request, Verb, Script
  <2>2. attached /\ UNCHANGED <<attached, connection, captures, attaches>>
    BY <1>2 DEF Request
  <2>3. WireType' /\ reader' = ~closed'
    BY <1>0, <2>2 DEF connection, WireType, Linked
  <2>4. QED BY <1>0, <2>1, <2>2, <2>3, QuietBrowser
<1>3. CASE Capture
  <2>1. attached /\ UNCHANGED <<attached, connection, attaches>> /\ BeginCapture
    BY <1>3 DEF Capture
  <2>2. /\ CaptureType' /\ op' \in Op /\ op'.verb = "capture"
        /\ \A n \in Numbers : written'[n] <= 1 /\ (written'[n] = 1 => n < stepSeq')
        /\ op'.step < stepSeq' /\ (op'.step \in Numbers => written'[op'.step] = 0)
    BY <1>0, <2>1, BeginCaptureStep
  <2>3. BrowserTypeOK'
    BY <1>0, <2>1, <2>2 DEF BrowserTypeOK, WireType, CaptureType, connection, Linked
  <2>4. QED
    BY <1>0, <2>1, <2>2, <2>3 DEF BrowserInv, WireType, OpenIsOwned, connection, Linked
<1>4. ASSUME CaptureType', op.verb = "none", op' = op,
             \A n \in Numbers : written'[n] <= 1 /\ (written'[n] = 1 => n < stepSeq'),
             attached' \in BOOLEAN, WireType', reader' = ~closed', ~closed' => attached',
             attaches' = attaches
      PROVE  BrowserTypeOK' /\ BrowserInv'
  <2>1. BrowserTypeOK'
    BY <1>0, <1>4 DEF BrowserTypeOK, WireType, CaptureType
  <2>2. QED BY <1>4, <2>1 DEF BrowserInv, WireType, OpenIsOwned
<1>5. ASSUME ClearCaptures
      PROVE  /\ CaptureType'
             /\ \A n \in Numbers : written'[n] <= 1 /\ (written'[n] = 1 => n < stepSeq')
  BY <1>5 DEF ClearCaptures, CaptureType
<1>6. CASE ClearCaptureDir
  <2>1. /\ ClearCaptures /\ UNCHANGED <<attached, connection, op, attaches>>
        /\ op.verb = "none"
    BY <1>6, NoOpType DEF ClearCaptureDir, NoRequest
  <2>2. WireType' /\ reader' = ~closed' /\ (~closed' => attached')
    BY <1>0, <2>1 DEF connection, WireType, OpenIsOwned, Linked
  <2>3. QED BY <1>0, <1>4, <1>5, <2>1, <2>2
<1>7. CASE Detach
  <2>1. /\ ClearCaptures /\ CloseConnection /\ UNCHANGED <<op, attaches>>
        /\ attached' = FALSE /\ op.verb = "none"
    BY <1>7, NoOpType DEF Detach, NoRequest
  <2>2. WireType' /\ closed' = TRUE /\ reader' = FALSE
    BY <1>0, <2>1, CloseFields
  <2>3. QED BY <1>4, <1>5, <2>1, <2>2
<1>8. ASSUME NEW run \in Runs, SetCaptureDir(run) PROVE BrowserTypeOK' /\ BrowserInv'
  <2>1. UNCHANGED <<attached, connection, op, attaches>> /\ op.verb = "none"
    BY <1>8, NoOpType DEF SetCaptureDir, NoRequest
  <2>2. WireType' /\ reader' = ~closed' /\ (~closed' => attached')
    BY <1>0, <2>1 DEF connection, WireType, OpenIsOwned, Linked
  <2>3. /\ CaptureType'
        /\ \A n \in Numbers : written'[n] <= 1 /\ (written'[n] = 1 => n < stepSeq')
    <3>1. CASE run = captureRun
      BY <1>0, <1>8, <3>1 DEF SetCaptureDir, CaptureType, BrowserInv
    <3>2. CASE run # captureRun
      BY <1>8, <3>2 DEF SetCaptureDir, CaptureType
    <3>3. QED BY <3>1, <3>2
  <2>4. QED BY <1>0, <1>4, <2>1, <2>2, <2>3
<1>9. CASE IssueNext
  <2>1. CASE Fail /\ op.verb = "attach"
    <3>1. op' = NoOp /\ CloseConnection /\ UNCHANGED <<attached, captures, attaches>>
      BY <2>1 DEF Fail
    <3>2. QED BY <1>0, <3>1, CloseFields, NoOpType, QuietBrowser
  <2>2. CASE Fail /\ op.verb # "attach"
    <3>1. op' = NoOp /\ UNCHANGED <<connection, attached, captures, attaches>>
      BY <2>2 DEF Fail
    <3>2. WireType' /\ reader' = ~closed' /\ (~closed' => attached')
      BY <1>0, <2>2, <3>1 DEF connection, WireType, OpenIsOwned, Linked
    <3>3. QED BY <1>0, <3>1, <3>2, NoOpType, QuietBrowser
  <2>3. ASSUME NEW n \in {1, 2}, Send(n), UNCHANGED <<attached, captures, attaches>>
        PROVE  BrowserTypeOK' /\ BrowserInv'
    <3>1. /\ WireType' /\ UNCHANGED <<closed, reader>> /\ op' \in Op
          /\ op'.verb = op.verb /\ op'.step = op.step
      BY <1>0, <2>3, SendFields
    <3>2. QED BY <1>0, <2>3, <3>1, QuietBrowser DEF OpenIsOwned
  <2>4. QED BY <1>9, <2>1, <2>2, <2>3 DEF IssueNext
<1>10. QED
  BY <1>1, <1>2, <1>3, <1>6, <1>7, <1>8, <1>9

LEMMA BrowserStep ==
    BrowserTypeOK /\ BrowserInv /\ [BrowserNext]_browserVars => (BrowserTypeOK /\ BrowserInv)'
<1> SUFFICES ASSUME BrowserTypeOK, BrowserInv, [BrowserNext]_browserVars
             PROVE  (BrowserTypeOK /\ BrowserInv)'
  OBVIOUS
<1>1. CASE UNCHANGED browserVars
  BY <1>1 DEF browserVars, connection, captures, BrowserTypeOK, BrowserInv, OpenIsOwned, Linked
<1>2. CASE BrowserNext
  BY <1>2, ManagerStep, ResumeStep, WireStep DEF BrowserNext, Handler
<1>3. QED BY <1>1, <1>2

LEMMA BrowserSound == BrowserSpec => [](BrowserTypeOK /\ BrowserInv)
  BY BrowserInitial, BrowserStep, PTL DEF BrowserSpec

\* Ids, futures and request keep their shapes (browser_cdp.py, browser.py).
THEOREM BrowserTypesHold == BrowserSpec => []BrowserTypeOK
  BY BrowserSound, PTL

\* However many commands, timers and answers cross, an open connection is read
\* (CdpConnection._reader_loop).
THEOREM OpenIsRead == BrowserSpec => []OpenMeansRead
<1>1. BrowserInv => OpenMeansRead
  BY DEF BrowserInv, OpenMeansRead
<1>2. QED
  BY <1>1, BrowserSound, PTL

\* No WebSocket is up but that of the session or of the attach under way, for any
\* number of attaches and commands; one whose reader an answer behind its timer
\* killed is excepted (BrowserManager.attach, detach; CdpConnection.close).
THEOREM ConnectionsAreOwned == BrowserSpec => []NoStrayConnection
<1>1. BrowserInv => NoStrayConnection
  BY DEF BrowserInv, OpenIsOwned, Linked, NoStrayConnection
<1>2. QED
  BY <1>1, BrowserSound, PTL

\* No number of a capture directory is written twice, however many captures
\* failed before (BrowserManager.capture, set_capture_dir).
THEOREM CapturesStay == BrowserSpec => []CapturesKept
<1>1. BrowserInv => CapturesKept
  BY DEF BrowserInv, CapturesKept
<1>2. QED
  BY <1>1, BrowserSound, PTL
===============================================================================

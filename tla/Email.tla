------------------------------- MODULE Email --------------------------------
(* Email accounts, drafts and the two-step send (email/manager.py, store.py, *)
(* adapters.py, credentials.py, email_rpc.py).  Account rows are durable;    *)
(* adapters, their access tokens, credentials, drafts and approvals live in  *)
(* the brain's memory.  Requests are served one at a time and may come in    *)
(* any order, from any caller, twice.                                        *)

EXTENDS Naturals

CONSTANTS
    Accounts,       \* account ids, never reused (new_account_id)
    Drafts,         \* draft ids, never reused (new_draft_id)
    None,           \* the account of a draft not created yet, no draft
    MaxLost         \* bound on provider answers lost on the way

ASSUME EmailAssumption ==
    /\ None \notin Accounts
    /\ None \notin Drafts
    /\ MaxLost \in Nat

VARIABLES
    account,        \* the row in email_accounts
    creds,          \* accounts with credentials in EmailCredentialsCache
    adapter,        \* EmailManager._adapters: none, or whether its token is good
    draft,          \* what each draft is
    from,           \* EmailDraft.account_id
    sending,        \* the draft a send_draft request has handed to its adapter
    clicked,        \* history: drafts the user has approved
    copies,         \* history: copies of the draft the provider has accepted
    lost            \* history: acceptances whose answer was lost

emailVars == <<account, creds, adapter, draft, from, sending, clicked, copies, lost>>

Adapter == {"none", "unauthorized", "authorized"}
DraftStatus == {"unused", "open", "approved", "gone"}

EmailInit ==
    /\ account = [a \in Accounts |-> "unused"]
    /\ creds = {}
    /\ adapter = [a \in Accounts |-> "none"]
    /\ draft = [d \in Drafts |-> "unused"]
    /\ from = [d \in Drafts |-> None]
    /\ sending = None
    /\ clicked = {}
    /\ copies = [d \in Drafts |-> 0]
    /\ lost = [d \in Drafts |-> 0]

Idle == sending = None
draftVars == <<draft, from, clicked, copies, lost>>

AddAccount(a) ==
    /\ Idle /\ account[a] = "unused"
    /\ account' = [account EXCEPT ![a] = "stored"]
    /\ UNCHANGED <<creds, adapter, sending, draftVars>>

\* email.set_credentials; the adapter of the account keeps the token it has.
SetCredentials(a) ==
    /\ Idle
    /\ creds' = creds \cup {a}
    /\ UNCHANGED <<account, adapter, sending, draftVars>>

ClearCredentials(a) ==
    /\ Idle
    /\ creds' = creds \ {a}
    /\ UNCHANGED <<account, adapter, sending, draftVars>>

\* Mutant of DropAdapter: the cached adapter survives its account.
KeepAdapter(a) == UNCHANGED adapter
\* EmailManager.remove_account: the adapter goes first, then the row, whose
\* deletion may raise.
DropAdapter(a) == adapter' = [adapter EXCEPT ![a] = "none"]

RemoveAccount(a) ==
    /\ Idle /\ account[a] = "stored"
    /\ DropAdapter(a)
    /\ \/ account' = [account EXCEPT ![a] = "removed"]
       \/ UNCHANGED account
    /\ UNCHANGED <<creds, sending, draftVars>>

\* _adapter_for: the cached adapter, or one for a stored account.
AdapterFor(a) == adapter[a] # "none" \/ account[a] = "stored"

\* _access_token: the cached token, or one exchanged for the credentials.  The
\* adapter is in the map from here on, whether or not it gets a token.
Authorized(a) ==
    /\ adapter[a] = "authorized" \/ a \in creds
    /\ adapter' = [adapter EXCEPT ![a] = "authorized"]

\* No credentials, or the provider refuses them: the request fails.
Unauthorized(a) ==
    /\ adapter[a] # "authorized"
    /\ adapter' = [adapter EXCEPT ![a] = "unauthorized"]

\* email.list_messages and email.get_message.
ReadMail(a) ==
    /\ Idle /\ AdapterFor(a)
    /\ Authorized(a) \/ Unauthorized(a)
    /\ UNCHANGED <<account, creds, sending, draftVars>>

\* The cached token runs out; the next use needs credentials again.
TokenExpires(a) ==
    /\ adapter[a] = "authorized"
    /\ adapter' = [adapter EXCEPT ![a] = "unauthorized"]
    /\ UNCHANGED <<account, creds, sending, draftVars>>

CreateDraft(d, a) ==
    /\ Idle /\ draft[d] = "unused" /\ account[a] = "stored"
    /\ draft' = [draft EXCEPT ![d] = "open"]
    /\ from' = [from EXCEPT ![d] = a]
    /\ UNCHANGED <<account, creds, adapter, sending, clicked, copies, lost>>

ApproveDraft(d) ==
    /\ Idle /\ draft[d] \in {"open", "approved"}
    /\ draft' = [draft EXCEPT ![d] = "approved"]
    /\ clicked' = clicked \cup {d}
    /\ UNCHANGED <<account, creds, adapter, from, sending, copies, lost>>

DiscardDraft(d) ==
    /\ Idle /\ draft[d] \in {"open", "approved"}
    /\ draft' = [draft EXCEPT ![d] = "gone"]
    /\ UNCHANGED <<account, creds, adapter, from, sending, clicked, copies, lost>>

\* EmailManager.send_draft up to the provider: the draft must be approved and
\* its account have an adapter, which needs a token.
SendDraft(d) ==
    /\ Idle /\ draft[d] = "approved" /\ AdapterFor(from[d])
    /\ \/ Authorized(from[d]) /\ sending' = d
       \/ Unauthorized(from[d]) /\ UNCHANGED sending
    /\ UNCHANGED <<account, creds, draftVars>>

\* Mutant of Settle: the draft is kept.
KeepDraft(d) == UNCHANGED draft
\* The answer arrives, and the draft and its approval are dropped.
Settle(d) == draft' = [draft EXCEPT ![d] = "gone"]

Sent ==
    /\ ~Idle
    /\ Settle(sending)
    /\ copies' = [copies EXCEPT ![sending] = @ + 1]
    /\ sending' = None
    /\ UNCHANGED <<account, creds, adapter, from, clicked, lost>>

\* The provider has accepted the message and the answer does not come back
\* (httpx raises): send_draft fails and the draft stays approved.
AnswerLost ==
    /\ ~Idle /\ lost[sending] < MaxLost
    /\ copies' = [copies EXCEPT ![sending] = @ + 1]
    /\ lost' = [lost EXCEPT ![sending] = @ + 1]
    /\ sending' = None
    /\ UNCHANGED <<account, creds, adapter, draft, from, clicked>>

Refused ==
    /\ ~Idle
    /\ sending' = None
    /\ UNCHANGED <<account, creds, adapter, draftVars>>

\* The brain ends; a send under way may or may not have been accepted.
EmailCrash ==
    /\ creds' = {}
    /\ adapter' = [a \in Accounts |-> "none"]
    /\ draft' = [d \in Drafts |-> IF draft[d] = "unused" THEN "unused" ELSE "gone"]
    /\ sending' = None
    /\ \/ UNCHANGED copies
       \/ ~Idle /\ copies' = [copies EXCEPT ![sending] = @ + 1]
    /\ UNCHANGED <<account, from, clicked, lost>>

EmailNext ==
    \/ \E a \in Accounts :
          \/ AddAccount(a) \/ RemoveAccount(a) \/ TokenExpires(a)
          \/ SetCredentials(a) \/ ClearCredentials(a) \/ ReadMail(a)
    \/ \E d \in Drafts :
          \/ \E a \in Accounts : CreateDraft(d, a)
          \/ ApproveDraft(d) \/ DiscardDraft(d) \/ SendDraft(d)
    \/ Sent \/ AnswerLost \/ Refused

EmailTypeOK ==
    /\ account \in [Accounts -> {"unused", "stored", "removed"}]
    /\ creds \subseteq Accounts
    /\ adapter \in [Accounts -> Adapter]
    /\ draft \in [Drafts -> DraftStatus]
    /\ from \in [Drafts -> Accounts \cup {None}]
    /\ sending \in Drafts \cup {None}
    /\ clicked \subseteq Drafts
    /\ copies \in [Drafts -> Nat]
    /\ lost \in [Drafts -> Nat]

\* A draft goes out only if the user has approved it, and then once, plus once
\* more for each acceptance whose answer was lost: send_draft keeps the draft
\* until it has the answer, in case it has to be sent again.
OneCopyPerClick ==
    \A d \in Drafts : copies[d] <= IF d \in clicked THEN 1 + lost[d] ELSE 0

\* Nothing is sent from an account that has been removed, whatever drafts,
\* approvals and cached tokens it has left behind (EmailManager.remove_account).
RemovedIsSilent ==
    [][\A d \in Drafts : copies'[d] # copies[d] => account[from[d]] = "stored"]_emailVars
=============================================================================

------------------------- MODULE EternalThread_proofs -------------------------
(* Theorems about EternalThread, for every number of messages and crashes,   *)
(* every way of answering and every digest budget: the database refines      *)
(* AtomicTurns, the index follows the rows, and what the client was told is  *)
(* what the database holds.                                                  *)
EXTENDS EternalThread, FiniteSetTheorems, WellFoundedInduction, TLAPS

-------------------------------------------------------------------------------
(* The inductive invariants *)

User(i) == <<"user", i>>
Lead(i) == <<"lead", i>>
Brain(i) == <<"brain", i>>

\* Of a message: nothing yet; the message alone; the whole answer.
Blank(i) ==
    db.row[User(i)] = "absent" /\ db.row[Lead(i)] = "absent" /\ db.row[Brain(i)] = "absent"
Open(i) ==
    db.row[User(i)] = "in_progress" /\ db.row[Lead(i)] = "absent" /\ db.row[Brain(i)] = "absent"
Whole(i) ==
    /\ db.row[User(i)] = "completed" /\ db.row[Brain(i)] = "completed"
    /\ db.row[Lead(i)] = IF kind[i] = "delegated" THEN "completed" ELSE "absent"

\* The store s with the rows R completed on top.
With(s, R) == [row   |-> [r \in Row |-> IF r \in R THEN "completed" ELSE s.row[r]],
               index |-> s.index \cup R]

\* What the open transaction has completed at each of its statements.
Uncommitted ==
    IF pc = "lead" THEN {User(asked)}
    ELSE IF pc = "brain"
         THEN {User(asked)} \cup (IF cur = "delegated" THEN {Lead(asked)} ELSE {})
    ELSE IF pc = "commit"
         THEN {User(asked), Brain(asked)}
              \cup (IF cur = "delegated" THEN {Lead(asked)} ELSE {})
    ELSE {}

Preparing == {"digest", "compress", "mark", "begin"}
Writing == {"dispatch", "stream", "flip", "lead", "brain", "commit"}

\* The database and the request that writes it.  A message is blank, open or
\* whole, and the one being answered is open until its transaction commits;
\* the transaction differs from what is committed by its own rows only.
StoreInv ==
    /\ db \in Store
    /\ asked \in 0..MaxSends
    /\ pc \in Step
    /\ cur \in Kinds \cup {NoKind}
    /\ kind \in [Send -> Kinds \cup {NoKind}]
    /\ work = With(db, Uncommitted)
    /\ db.index = Completed
    /\ \A i \in Send : i > asked => Blank(i)
    /\ \A i \in Send : i <= asked => Blank(i) \/ Open(i) \/ Whole(i)
    /\ pc # "idle" => cur \in Kinds
    /\ pc \in Preparing => asked < MaxSends
    /\ pc = "lead" => cur = "delegated"
    /\ pc \in Writing => asked \in Send /\ kind[asked] = cur /\ Open(asked)
    /\ pc = "reply" => asked \in Send /\ kind[asked] = cur /\ Whole(asked)

\* What the client saw and what the actions did: nobody is told before the
\* answer is committed, an ungated action has run once by the time its message
\* is answered, a gated one waits for its staged entry.
HistoryInv ==
    /\ seen \subseteq Send /\ told \subseteq Send /\ withdrawn \subseteq Send
    /\ effects \in [Send -> Nat]
    /\ pending \in [Send -> PendingStatus]
    /\ \A i \in told : i <= asked /\ Whole(i) /\ (kind[i] = "action" => effects[i] = 1)
    /\ pc \in Writing \cup {"reply"} => asked \notin told
    /\ TurnComesFirst
    /\ \A i \in Send : i > asked => effects[i] = 0 /\ pending[i] = "none"
    /\ pc = "dispatch" => effects[asked] = 0 /\ pending[asked] = "none"
    /\ (pc \in (Writing \ {"dispatch"}) \cup {"reply"} /\ cur = "action") => effects[asked] = 1
    /\ \A i \in Send : pending[i] # "none" => kind[i] = "staged"
    /\ GatedOnce

\* The digests: none reaches past the messages sent before, or into the one
\* being answered; whatever a digest covers lies in the past of the next window;
\* and while a compression marks its batch, the last digest covers what is left
\* to mark.
DigestInv ==
    /\ digests \in Seq(Digest)
    /\ \A d \in DOMAIN digests : digests[d].hi <= 2 * asked
    /\ pc \in Writing => \A d \in DOMAIN digests : digests[d].hi < 2 * asked - 1
    /\ \A d \in DOMAIN digests : \A r \in digests[d].covers : At(r) <= LatestEnd
    /\ DigestCoverage
    /\ pc = "mark" =>
          /\ marking \in Seq(1..(Len(digests) - 1)) /\ marking # <<>>
          /\ Len(digests) \in Roots
          /\ \A n \in DOMAIN marking :
                digests[marking[n]].covers \subseteq digests[Len(digests)].covers

-------------------------------------------------------------------------------
(* Lemmas about rows and stores *)

LEMMA RowsOfMessage ==
    ASSUME NEW i \in Send
    PROVE  User(i) \in Row /\ Lead(i) \in Row /\ Brain(i) \in Row
  BY DEF User, Lead, Brain, Row

LEMMA RowsDiffer ==
    ASSUME NEW i \in Send, NEW j \in Send
    PROVE  /\ User(i) # Lead(j) /\ User(i) # Brain(j) /\ Lead(i) # Brain(j)
           /\ User(i) = User(j) => i = j
           /\ Lead(i) = Lead(j) => i = j
           /\ Brain(i) = Brain(j) => i = j
  BY DEF User, Lead, Brain

LEMMA WithNothing == ASSUME NEW s \in Store PROVE With(s, {}) = s
  BY DEF With, Store

LEMMA WithTyped == ASSUME NEW s \in Store, NEW R \in SUBSET Row PROVE With(s, R) \in Store
  BY DEF With, Store, RowStatus

\* A statement of the transaction adds its row to those completed so far.
LEMMA WithOneMore ==
    ASSUME NEW s \in Store, NEW R \in SUBSET Row, NEW r \in Row,
           work = With(s, R), Complete(r)
    PROVE  work' = With(s, R \cup {r})
  BY DEF With, Complete, Store, RowStatus

LEMMA SameRows ==
    ASSUME UNCHANGED <<db, asked, kind>>
    PROVE  /\ \A i : (Blank(i)' <=> Blank(i)) /\ (Open(i)' <=> Open(i)) /\ (Whole(i)' <=> Whole(i))
           /\ Completed' = Completed
  BY DEF Blank, Open, Whole, User, Lead, Brain, Completed

-------------------------------------------------------------------------------
(* StoreInv *)

\* The step changes no message but j.
OnlyMessage(j) ==
    \A i \in Send : i # j =>
        /\ Blank(i)' <=> Blank(i)
        /\ Open(i)' <=> Open(i)
        /\ Whole(i)' <=> Whole(i)

\* A step that leaves the rows alone keeps the invariant if it takes the
\* request where its rows allow it to be.
LEMMA StillStep ==
    ASSUME StoreInv, UNCHANGED <<store, asked, kind>>,
           pc \notin {"lead", "brain", "commit"}, pc' \notin {"lead", "brain", "commit"},
           pc' \in Step, cur' \in Kinds \cup {NoKind},
           pc' # "idle" => cur' \in Kinds,
           pc' \in Preparing => asked < MaxSends,
           pc' \in Writing \cup {"reply"} => pc \in Writing /\ pc' \in Writing /\ cur' = cur
    PROVE  StoreInv'
<1>1. Uncommitted = {} /\ Uncommitted' = {}
  BY DEF Uncommitted
<1>2. work' = With(db, Uncommitted)'
  BY <1>1 DEF StoreInv, store, With
<1>3. Completed' = Completed
  BY SameRows DEF store
<1>4. \A i \in Send : (i > asked => Blank(i)) /\ (i <= asked => Blank(i) \/ Open(i) \/ Whole(i))
  BY DEF StoreInv
<1>5. \A i \in Send : (i > asked' => Blank(i)')
                    /\ (i <= asked' => Blank(i)' \/ Open(i)' \/ Whole(i)')
  BY <1>4, SameRows DEF store
<1>6. pc' \in Writing => asked' \in Send /\ kind'[asked'] = cur' /\ Open(asked)'
  BY SameRows DEF StoreInv, store
<1>7. pc' # "reply"
  BY DEF Writing
<1>8. QED
  BY <1>2, <1>3, <1>5, <1>6, <1>7 DEF StoreInv, store

LEMMA StoreInit == Init => StoreInv
<1> SUFFICES ASSUME Init PROVE StoreInv
  OBVIOUS
<1>1. db \in Store /\ db.index = {} /\ (\A r \in Row : db.row[r] = "absent")
  BY DEF Init, EmptyStore, Store, RowStatus
<1>2. work = With(db, Uncommitted)
  BY <1>1, WithNothing DEF Init, Uncommitted
<1>3. Completed = {}
  BY <1>1 DEF Completed
<1>4. \A i \in Send : Blank(i)
  BY <1>1, RowsOfMessage DEF Blank
<1>5. asked \in 0..MaxSends /\ \A i \in Send : ~ (i <= asked)
  BY ThreadAssumption DEF Init, Send
<1>6. pc = "idle" /\ cur = NoKind /\ kind \in [Send -> Kinds \cup {NoKind}]
  BY DEF Init
<1>7. QED
  BY <1>1, <1>2, <1>3, <1>4, <1>5, <1>6 DEF StoreInv, Step, Preparing, Writing

\* Begin stores the next message, open.
LEMMA BeginStep ==
    ASSUME StoreInv, Begin
    PROVE  /\ StoreInv'
           /\ \E i \in Send : /\ i = asked + 1 /\ asked' = i
                             /\ Blank(i) /\ Open(i)' /\ OnlyMessage(i)
<1>0. asked + 1 \in Send
  BY ThreadAssumption DEF Begin, StoreInv, Send, Preparing
<1> PICK i \in Send : i = asked + 1
  BY <1>0
<1>1. i \in Send /\ asked' = i /\ asked' \in 0..MaxSends
  BY ThreadAssumption DEF Begin, StoreInv, Send, Preparing
<1>2. db' \in Store /\ db'.index = db.index
      /\ \A r \in Row : db'.row[r] = IF r = User(i) THEN "in_progress" ELSE db.row[r]
  BY <1>1, RowsOfMessage DEF Begin, StoreInv, Store, RowStatus, User
<1>3. kind' \in [Send -> Kinds \cup {NoKind}] /\ kind'[i] = cur
      /\ \A j \in Send : j # i => kind'[j] = kind[j]
  BY <1>1 DEF Begin, StoreInv
<1>4. Blank(i) /\ Open(i)'
  <2>1. \A j \in Send : j > asked => Blank(j)
    BY DEF StoreInv
  <2>2. i > asked
    BY DEF StoreInv
  <2>3. Blank(i)
    BY <1>1, <2>1, <2>2
  <2>4. QED BY <1>1, <1>2, <2>3, RowsOfMessage, RowsDiffer DEF Blank, Open, User, Lead, Brain
<1>5. \A j \in Send : j # i =>
        (Blank(j)' <=> Blank(j)) /\ (Open(j)' <=> Open(j)) /\ (Whole(j)' <=> Whole(j))
  BY <1>1, <1>2, <1>3, RowsOfMessage, RowsDiffer DEF Blank, Open, Whole, User, Lead, Brain
<1>6. \A j \in Send : (j > asked' => Blank(j)')
                    /\ (j <= asked' => Blank(j)' \/ Open(j)' \/ Whole(j)')
  <2>1. \A j \in Send : (j > asked => Blank(j)) /\ (j <= asked => Blank(j) \/ Open(j) \/ Whole(j))
    BY DEF StoreInv
  <2>2. \A j \in Send : j # i => (j > i => j > asked) /\ (j <= i => j <= asked)
    BY DEF StoreInv, Send
  <2>3. QED BY <1>1, <1>4, <1>5, <2>1, <2>2
<1>7. Completed' = Completed
  BY <1>1, <1>2, <1>4, RowsOfMessage DEF Completed, Blank
<1>8. pc' = "dispatch" /\ cur' = cur /\ cur \in Kinds /\ work' = db'
  BY DEF Begin, Goto, StoreInv
<1>9. work' = With(db, Uncommitted)'
  BY <1>2, <1>8, WithNothing DEF Uncommitted
<1>10. db'.index = Completed'
  BY <1>2, <1>7 DEF StoreInv
<1>11. pc' \in Step /\ pc' \notin Preparing /\ pc' # "lead" /\ pc' # "reply" /\ pc' # "idle"
  BY <1>8 DEF Step, Preparing
<1>12. kind'[asked'] = cur' /\ Open(asked)'
  BY <1>1, <1>3, <1>4, <1>8
<1>13. QED
  <2>1. StoreInv'
    BY <1>1, <1>2, <1>3, <1>6, <1>8, <1>9, <1>10, <1>11, <1>12 DEF StoreInv
  <2>2. OnlyMessage(i)
    BY <1>5 DEF OnlyMessage
  <2>3. QED BY <1>1, <1>4, <2>1, <2>2

\* The statements of the transaction change nothing that is committed.
LEMMA WriteStep ==
    ASSUME StoreInv, Flip \/ InsertLead \/ InsertBrain
    PROVE  StoreInv'
<1>1. asked \in Send /\ cur \in Kinds /\ db \in Store /\ UNCHANGED <<db, asked, cur, kind>>
      /\ kind[asked] = cur /\ Open(asked)
  BY DEF Flip, InsertLead, InsertBrain, StoreInv, Writing
<1>2. User(asked) \in Row /\ Lead(asked) \in Row /\ Brain(asked) \in Row
  BY <1>1, RowsOfMessage
<1>3. Uncommitted \in SUBSET Row
  BY <1>2 DEF Uncommitted
<1>4. work' = With(db, Uncommitted')
  <2>1. CASE Flip
    <3>1. work' = With(db, Uncommitted \cup {User(asked)})
      BY <2>1, <1>1, <1>2, <1>3, WithOneMore DEF Flip, StoreInv, User
    <3>2. Uncommitted' = Uncommitted \cup {User(asked)}
      BY <2>1, <1>1 DEF Flip, Goto, Uncommitted, User, Lead, Brain
    <3>3. QED BY <3>1, <3>2
  <2>2. CASE InsertLead
    <3>1. work' = With(db, Uncommitted \cup {Lead(asked)})
      BY <2>2, <1>1, <1>2, <1>3, WithOneMore DEF InsertLead, StoreInv, Lead
    <3>2. cur = "delegated"
      BY <2>2 DEF InsertLead, StoreInv
    <3>3. QED BY <2>2, <3>1, <3>2, <1>1 DEF InsertLead, Goto, Uncommitted, User, Lead, Brain
  <2>3. CASE InsertBrain
    <3>1. work' = With(db, Uncommitted \cup {Brain(asked)})
      BY <2>3, <1>1, <1>2, <1>3, WithOneMore DEF InsertBrain, StoreInv, Brain
    <3>2. Uncommitted' = Uncommitted \cup {Brain(asked)}
      BY <2>3, <1>1 DEF InsertBrain, Goto, Uncommitted, User, Lead, Brain
    <3>3. QED BY <3>1, <3>2
  <2>4. QED BY <2>1, <2>2, <2>3
<1>5. work' = With(db, Uncommitted)'
  BY <1>1, <1>4 DEF With
<1>6. Completed' = Completed
  BY <1>1, SameRows
<1>7. \A i \in Send : (i > asked' => Blank(i)')
                    /\ (i <= asked' => Blank(i)' \/ Open(i)' \/ Whole(i)')
  BY <1>1, SameRows DEF StoreInv
<1>8. pc' \in {"lead", "brain", "commit"} /\ (pc' = "lead" => cur = "delegated")
  BY DEF Flip, InsertLead, InsertBrain, Goto
<1>9. Open(asked)'
  BY <1>1, SameRows
<1>10. QED
  BY <1>1, <1>5, <1>6, <1>7, <1>8, <1>9 DEF StoreInv, Step, Preparing, Writing

\* COMMIT publishes the whole answer at once.
LEMMA CommitStep ==
    ASSUME StoreInv, Commit
    PROVE  StoreInv' /\ Whole(asked)' /\ OnlyMessage(asked)
<1> DEFINE R == {User(asked), Brain(asked)} \cup (IF cur = "delegated" THEN {Lead(asked)} ELSE {})
<1>1. /\ asked \in Send /\ cur \in Kinds /\ db \in Store /\ kind[asked] = cur /\ Open(asked)
      /\ UNCHANGED <<asked, cur, kind, work>> /\ pc' = "reply" /\ db' = work
  BY DEF Commit, Goto, StoreInv, Writing
<1>2. User(asked) \in Row /\ Lead(asked) \in Row /\ Brain(asked) \in Row
  BY <1>1, RowsOfMessage
<1>3. R \in SUBSET Row /\ Uncommitted = R
  BY <1>1, <1>2 DEF Commit, Uncommitted
<1>4. db' = With(db, R)
  BY <1>1, <1>3 DEF StoreInv
<1>5. db' \in Store
  BY <1>1, <1>3, <1>4, WithTyped
<1>6. db'.index = db.index \cup R
      /\ \A r \in Row : db'.row[r] = IF r \in R THEN "completed" ELSE db.row[r]
  BY <1>4 DEF With
<1>7. Whole(asked)'
  <2>1. Lead(asked) \in R <=> cur = "delegated"
    BY <1>1 DEF User, Lead, Brain
  <2>2. QED BY <1>1, <1>2, <1>6, <2>1 DEF Open, Whole, User, Lead, Brain
<1>8. \A j \in Send : j # asked =>
        (Blank(j)' <=> Blank(j)) /\ (Open(j)' <=> Open(j)) /\ (Whole(j)' <=> Whole(j))
  <2> SUFFICES ASSUME NEW j \in Send, j # asked
               PROVE (Blank(j)' <=> Blank(j)) /\ (Open(j)' <=> Open(j)) /\ (Whole(j)' <=> Whole(j))
    OBVIOUS
  <2>1. User(j) \notin R /\ Lead(j) \notin R /\ Brain(j) \notin R
    BY <1>1 DEF User, Lead, Brain
  <2>2. User(j) \in Row /\ Lead(j) \in Row /\ Brain(j) \in Row
    BY RowsOfMessage
  <2>3. QED BY <1>1, <1>6, <2>1, <2>2 DEF Blank, Open, Whole, User, Lead, Brain
<1>9. \A j \in Send : (j > asked' => Blank(j)')
                    /\ (j <= asked' => Blank(j)' \/ Open(j)' \/ Whole(j)')
  BY <1>1, <1>7, <1>8 DEF StoreInv, Send
<1>10. db'.index = Completed'
  BY <1>3, <1>6 DEF StoreInv, Completed
<1>11. work' = With(db, Uncommitted)'
  <2>1. Uncommitted' = {}
    BY <1>1 DEF Uncommitted
  <2>2. QED BY <1>1, <1>5, <2>1, WithNothing
<1>12. QED
  <2>1. StoreInv'
    BY <1>1, <1>5, <1>7, <1>9, <1>10, <1>11 DEF StoreInv, Step, Preparing, Writing
  <2>2. QED BY <1>7, <1>8, <2>1 DEF OnlyMessage

\* A recovery deletes an open message and nothing else.
LEMMA RecoveryStep ==
    ASSUME StoreInv, NEW i \in Send, RecoveryResolve(i)
    PROVE  StoreInv' /\ i <= asked /\ Open(i) /\ Blank(i)' /\ OnlyMessage(i)
<1>1. /\ UNCHANGED <<asked, pc, cur, kind>> /\ pc = "idle" /\ work' = db' /\ db \in Store
      /\ db.row[User(i)] = "in_progress"
  BY DEF RecoveryResolve, Serving, Droppable, StoreInv, User
<1>2. i <= asked /\ Open(i)
  BY <1>1, ThreadAssumption DEF StoreInv, Blank, Open, Whole, Send
<1>3. /\ db' \in Store /\ db'.index = db.index \ {User(i)}
      /\ \A r \in Row : db'.row[r] = IF r = User(i) THEN "absent" ELSE db.row[r]
  BY <1>1, RowsOfMessage DEF RecoveryResolve, Store, RowStatus, User
<1>4. Blank(i)'
  BY <1>2, <1>3, RowsOfMessage, RowsDiffer DEF Blank, Open, User, Lead, Brain
<1>5. \A j \in Send : j # i =>
        (Blank(j)' <=> Blank(j)) /\ (Open(j)' <=> Open(j)) /\ (Whole(j)' <=> Whole(j))
  BY <1>1, <1>3, RowsOfMessage, RowsDiffer DEF Blank, Open, Whole, User, Lead, Brain
<1>6. \A j \in Send : (j > asked' => Blank(j)')
                    /\ (j <= asked' => Blank(j)' \/ Open(j)' \/ Whole(j)')
  BY <1>1, <1>4, <1>5 DEF StoreInv
<1>7. db'.index = Completed'
  BY <1>1, <1>3, RowsOfMessage DEF StoreInv, Completed
<1>8. work' = With(db, Uncommitted)'
  BY <1>1, <1>3, WithNothing DEF Uncommitted
<1>9. StoreInv'
  BY <1>1, <1>2, <1>3, <1>4, <1>6, <1>7, <1>8 DEF StoreInv, Preparing, Writing
<1>10. QED
  BY <1>2, <1>4, <1>5, <1>9 DEF OnlyMessage

\* A crash rolls the transaction back.
LEMMA CrashStep == ASSUME StoreInv, Crash PROVE StoreInv'
<1>1. UNCHANGED <<db, asked, kind>> /\ work' = db /\ pc' = "idle" /\ cur' = NoKind /\ db \in Store
  BY DEF Crash, Finish, StoreInv
<1>2. work' = With(db, Uncommitted)'
  BY <1>1, WithNothing DEF Uncommitted
<1>3. Completed' = Completed
  BY <1>1, SameRows
<1>4. \A j \in Send : (j > asked' => Blank(j)')
                    /\ (j <= asked' => Blank(j)' \/ Open(j)' \/ Whole(j)')
  BY <1>1, SameRows DEF StoreInv
<1>5. QED
  BY <1>1, <1>2, <1>3, <1>4 DEF StoreInv, Step, Preparing, Writing

\* The steps that leave the rows alone, wherever they take the request.
Quiet ==
    \/ \E k \in Kinds : Ask(k)
    \/ IdleDigest \/ DigestFails \/ Compress \/ MarkChild
    \/ NoAction \/ RunAction \/ StageAction
    \/ StreamDirect \/ StreamRelay \/ StreamConfirmation
    \/ SendFails \/ Reply
    \/ DigestRun \/ RecoveryStatus
    \/ \E i \in Send : Approve(i) \/ Reject(i)

LEMMA NextSplit ==
    ASSUME [Next]_vars
    PROVE  \/ Quiet \/ Begin \/ Flip \/ InsertLead \/ InsertBrain \/ Commit
           \/ (\E i \in Send : RecoveryResolve(i)) \/ Crash \/ UNCHANGED vars
  BY DEF Next, Handler, Quiet

LEMMA QuietRows == ASSUME Quiet PROVE UNCHANGED <<store, asked, kind>>
  BY DEF Quiet, Ask, IdleDigest, DigestFails, Compress, MarkChild, NoAction, RunAction,
         StageAction, StreamDirect, StreamRelay, StreamConfirmation, Emit, SendFails, Reply,
         DigestRun, RecoveryStatus, Approve, Reject, history

LEMMA QuietStep == ASSUME StoreInv, Quiet PROVE StoreInv'
<1> USE QuietRows, StillStep DEF Preparing, Writing, Step, Goto, Finish
<1>1. ASSUME NEW k \in Kinds, Ask(k) PROVE StoreInv'
  BY <1>1 DEF Ask, Serving, Quiet
<1>2. CASE IdleDigest
  BY <1>2 DEF IdleDigest, StoreInv
<1>3. CASE DigestFails
  BY <1>3 DEF DigestFails, StoreInv
<1>4. CASE Compress
  BY <1>4 DEF Compress, StoreInv
<1>5. CASE MarkChild
  BY <1>5 DEF MarkChild, StoreInv
<1>6. CASE NoAction
  BY <1>6 DEF NoAction, StoreInv
<1>7. CASE RunAction
  BY <1>7 DEF RunAction, StoreInv
<1>8. CASE StageAction
  BY <1>8 DEF StageAction, StoreInv
<1>9. CASE StreamDirect \/ StreamRelay \/ StreamConfirmation
  BY <1>9 DEF StreamDirect, StreamRelay, StreamConfirmation, Emit, StoreInv
<1>10. CASE SendFails
  BY <1>10 DEF SendFails, StoreInv
<1>11. CASE Reply
  BY <1>11 DEF Reply, StoreInv
<1>12. CASE DigestRun
  BY <1>12 DEF DigestRun, Serving, StoreInv
<1>13. CASE RecoveryStatus
  BY <1>13 DEF RecoveryStatus, Serving, StoreInv
<1>14. ASSUME NEW i \in Send, Approve(i) \/ Reject(i) PROVE StoreInv'
  BY <1>14 DEF Approve, Reject, Serving, StoreInv, Quiet
<1>15. QED
  BY <1>1, <1>2, <1>3, <1>4, <1>5, <1>6, <1>7, <1>8, <1>9, <1>10, <1>11, <1>12, <1>13, <1>14
  DEF Quiet

LEMMA StoreNext == ASSUME StoreInv, [Next]_vars PROVE StoreInv'
<1>1. CASE Quiet
  BY <1>1, QuietStep
<1>2. CASE Begin
  BY <1>2, BeginStep
<1>3. CASE Flip \/ InsertLead \/ InsertBrain
  BY <1>3, WriteStep
<1>4. CASE Commit
  BY <1>4, CommitStep
<1>5. ASSUME NEW i \in Send, RecoveryResolve(i) PROVE StoreInv'
  BY <1>5, RecoveryStep
<1>6. CASE Crash
  BY <1>6, CrashStep
<1>7. CASE UNCHANGED vars
  <2>1. UNCHANGED <<store, asked, kind, pc, cur>>
    BY <1>7 DEF vars, store
  <2>2. QED BY <2>1, SameRows DEF store, StoreInv, Uncommitted, With
<1>8. QED
  BY <1>1, <1>2, <1>3, <1>4, <1>5, <1>6, <1>7, NextSplit

\* The store is sound at every step of every behaviour.
THEOREM StoreSound == Spec => []StoreInv
<1>1. Init => StoreInv
  BY StoreInit
<1>2. StoreInv /\ [Next]_vars => StoreInv'
  BY StoreNext
<1>3. QED
  BY <1>1, <1>2, PTL DEF Spec

\* Search knows exactly the completed turns (the triggers of migration 006).
THEOREM IndexFollows == Spec => []IndexIsCompleted
<1>1. StoreInv => IndexIsCompleted
  BY DEF StoreInv, IndexIsCompleted
<1>2. QED
  BY <1>1, StoreSound, PTL

-------------------------------------------------------------------------------
(* HistoryInv *)

LEMMA HistoryInit == Init => HistoryInv
  BY DEF Init, HistoryInv, PendingStatus, Send, Writing, TurnComesFirst, Traces, GatedOnce

\* A quiet step that touches neither the actions nor what the client saw.
LEMMA StillHistory ==
    ASSUME StoreInv, HistoryInv, UNCHANGED <<store, asked, kind>>,
           UNCHANGED <<pending, seen, told, withdrawn, effects>>,
           pc' \in Writing \cup {"reply"} =>
               pc \in Writing /\ cur' = cur /\ pc' # "dispatch",
           (pc' \in Writing \cup {"reply"} /\ pc = "dispatch") => cur # "action"
    PROVE  HistoryInv'
<1>1. \A i : Whole(i)' <=> Whole(i)
  BY SameRows DEF store
<1>2. \A i \in told' : i <= asked' /\ Whole(i)' /\ (kind'[i] = "action" => effects'[i] = 1)
  BY <1>1 DEF HistoryInv
<1>3. pc' \in Writing \cup {"reply"} => asked' \notin told'
  BY DEF HistoryInv
<1>4. (pc' \in (Writing \ {"dispatch"}) \cup {"reply"} /\ cur' = "action") => effects'[asked'] = 1
  BY DEF HistoryInv
<1>5. TurnComesFirst' /\ GatedOnce'
  BY DEF HistoryInv, TurnComesFirst, Traces, GatedOnce, store
<1>6. pc' # "dispatch"
  BY DEF Writing
<1>7. QED
  BY <1>2, <1>3, <1>4, <1>5, <1>6 DEF HistoryInv

\* Running and staging are the only steps of dispatch that act.
LEMMA DispatchHistory ==
    ASSUME StoreInv, HistoryInv, RunAction \/ StageAction
    PROVE  HistoryInv'
<1>1. /\ asked \in Send /\ kind[asked] = cur /\ Open(asked) /\ asked \notin told
      /\ effects[asked] = 0 /\ pending[asked] = "none"
      /\ effects \in [Send -> Nat] /\ pending \in [Send -> PendingStatus]
  BY DEF RunAction, StageAction, StoreInv, HistoryInv, Writing
<1>0. db.row[<<"user", asked>>] # "absent"
  BY <1>1 DEF Open, User
<1>2. /\ pc = "dispatch" /\ pc' = "stream"
      /\ UNCHANGED <<store, asked, kind, cur, seen, told, withdrawn>>
  BY DEF RunAction, StageAction, Goto, history
<1>3. \A i : Whole(i)' <=> Whole(i)
  BY <1>2, SameRows DEF store
<1>4. CASE RunAction
  <2>1. cur = "action" /\ pending' = pending /\ effects' = [effects EXCEPT ![asked] = @ + 1]
    BY <1>4 DEF RunAction
  <2>2. effects' \in [Send -> Nat] /\ effects'[asked] = 1
        /\ \A i \in Send : i # asked => effects'[i] = effects[i]
    BY <1>1, <2>1
  <2>3. TurnComesFirst'
    BY <1>0, <1>2, <2>1, <2>2 DEF HistoryInv, TurnComesFirst, Traces, store
  <2>4. GatedOnce'
    BY <1>1, <1>2, <2>1, <2>2 DEF HistoryInv, GatedOnce
  <2>5. \A i \in told' : i <= asked' /\ Whole(i)' /\ (kind'[i] = "action" => effects'[i] = 1)
    BY <1>1, <1>2, <1>3, <2>2 DEF HistoryInv
  <2>6. \A i \in Send : i > asked' => effects'[i] = 0 /\ pending'[i] = "none"
    BY <1>1, <1>2, <2>1, <2>2 DEF HistoryInv, Send
  <2>7. QED BY <1>1, <1>2, <2>1, <2>2, <2>3, <2>4, <2>5, <2>6 DEF HistoryInv
<1>5. CASE StageAction
  <2>1. cur = "staged" /\ effects' = effects /\ pending' = [pending EXCEPT ![asked] = "pending"]
    BY <1>5 DEF StageAction, history
  <2>2. pending' \in [Send -> PendingStatus] /\ pending'[asked] = "pending"
        /\ \A i \in Send : i # asked => pending'[i] = pending[i]
    BY <1>1, <2>1 DEF PendingStatus
  <2>3. TurnComesFirst'
    BY <1>0, <1>2, <2>1, <2>2 DEF HistoryInv, TurnComesFirst, Traces, store
  <2>4. GatedOnce'
    BY <1>1, <1>2, <2>1, <2>2 DEF HistoryInv, GatedOnce
  <2>5. \A i \in told' : i <= asked' /\ Whole(i)' /\ (kind'[i] = "action" => effects'[i] = 1)
    BY <1>2, <1>3, <2>1 DEF HistoryInv
  <2>6. \A i \in Send : i > asked' => effects'[i] = 0 /\ pending'[i] = "none"
    BY <1>1, <1>2, <2>1, <2>2 DEF HistoryInv, Send
  <2>7. QED BY <1>1, <1>2, <2>1, <2>2, <2>3, <2>4, <2>5, <2>6 DEF HistoryInv
<1>6. QED
  BY <1>4, <1>5 DEF RunAction, StageAction

\* A chunk is emitted for the message being answered, whose row is open.
LEMMA EmitHistory ==
    ASSUME StoreInv, HistoryInv,
           StreamDirect \/ StreamRelay \/ StreamConfirmation \/ SendFails
    PROVE  HistoryInv'
<1>1. /\ asked \in Send /\ kind[asked] = cur /\ Open(asked)
      /\ pc \in Writing
  BY DEF StreamDirect, StreamRelay, StreamConfirmation, Emit, SendFails, StoreInv, Writing
<1>2. /\ UNCHANGED <<store, asked, kind, pending, told, withdrawn, effects>>
      /\ seen' = seen \/ seen' = seen \cup {asked}
      /\ pc' = "idle" \/ (pc = "stream" /\ pc' = "flip" /\ cur' = cur)
  BY DEF StreamDirect, StreamRelay, StreamConfirmation, Emit, SendFails, Goto, Finish
<1>3. \A i : Whole(i)' <=> Whole(i)
  BY <1>2, SameRows DEF store
<1>4. TurnComesFirst'
  <2>1. db.row[<<"user", asked>>] # "absent"
    BY <1>1 DEF Open, User
  <2>2. QED BY <1>2, <2>1 DEF HistoryInv, TurnComesFirst, Traces, store
<1>5. GatedOnce'
  BY <1>2 DEF HistoryInv, GatedOnce
<1>6. \A i \in told' : i <= asked' /\ Whole(i)' /\ (kind'[i] = "action" => effects'[i] = 1)
  BY <1>2, <1>3 DEF HistoryInv
<1>7. pc' \in Writing \cup {"reply"} => asked' \notin told'
  BY <1>2 DEF HistoryInv, Writing
<1>8. (pc' \in (Writing \ {"dispatch"}) \cup {"reply"} /\ cur' = "action") => effects'[asked'] = 1
  BY <1>1, <1>2 DEF HistoryInv, Writing
<1>9. QED
  BY <1>1, <1>2, <1>4, <1>5, <1>6, <1>7, <1>8 DEF HistoryInv

\* The user decides on a staged action between two requests.
LEMMA DecisionHistory ==
    ASSUME StoreInv, HistoryInv, NEW i \in Send, Approve(i) \/ Reject(i)
    PROVE  HistoryInv'
<1>1. /\ UNCHANGED <<store, asked, kind, pc, cur, seen, told, withdrawn>>
      /\ pc = "idle" /\ pending[i] = "pending"
  BY DEF Approve, Reject, Serving, history
<1>2. effects \in [Send -> Nat] /\ pending \in [Send -> PendingStatus]
  BY DEF HistoryInv
<1>3. kind[i] = "staged" /\ effects[i] = 0 /\ i <= asked
  BY <1>1, <1>2 DEF HistoryInv, GatedOnce, StoreInv, Send
<1>4. /\ pending' \in [Send -> PendingStatus] /\ effects' \in [Send -> Nat]
      /\ \A j \in Send : j # i => pending'[j] = pending[j] /\ effects'[j] = effects[j]
      /\ effects'[i] <= (IF pending'[i] \in {"pending", "rejected"} THEN 0 ELSE 1)
  <2>1. CASE Approve(i)
    <3>1. pending' = [pending EXCEPT ![i] = "approved"]
          /\ (effects' = effects \/ effects' = [effects EXCEPT ![i] = @ + 1])
      BY <2>1 DEF Approve
    <3>2. QED BY <1>2, <1>3, <3>1 DEF PendingStatus
  <2>2. CASE Reject(i)
    <3>1. pending' = [pending EXCEPT ![i] = "rejected"] /\ effects' = effects
      BY <2>2 DEF Reject, history
    <3>2. QED BY <1>2, <1>3, <3>1 DEF PendingStatus
  <2>3. QED BY <2>1, <2>2
<1>5. \A j : Whole(j)' <=> Whole(j)
  BY <1>1, SameRows DEF store
<1>6. TurnComesFirst'
  <2>1. i \in Traces /\ Traces' \subseteq Traces \cup {i}
    BY <1>1, <1>4 DEF Traces
  <2>2. QED BY <1>1, <2>1 DEF HistoryInv, TurnComesFirst, store
<1>7. GatedOnce'
  BY <1>1, <1>4 DEF HistoryInv, GatedOnce
<1>8. \A j \in told' : j <= asked' /\ Whole(j)' /\ (kind'[j] = "action" => effects'[j] = 1)
  BY <1>1, <1>3, <1>4, <1>5 DEF HistoryInv
<1>9. \A j \in Send : j > asked' => effects'[j] = 0 /\ pending'[j] = "none"
  BY <1>1, <1>3, <1>4 DEF HistoryInv, StoreInv, Send
<1>10. \A j \in Send : pending'[j] # "none" => kind'[j] = "staged"
  BY <1>1, <1>3, <1>4 DEF HistoryInv
<1>11. QED
  BY <1>1, <1>4, <1>6, <1>7, <1>8, <1>9, <1>10 DEF HistoryInv, Writing

LEMMA QuietHistory == ASSUME StoreInv, HistoryInv, Quiet PROVE HistoryInv'
<1>0. UNCHANGED <<store, asked, kind>>
  BY QuietRows
<1>1. ASSUME NEW k \in Kinds, Ask(k) PROVE HistoryInv'
  BY <1>0, <1>1, StillHistory DEF Ask, Goto, history, Writing
<1>2. CASE IdleDigest \/ DigestFails \/ Compress \/ MarkChild
  BY <1>0, <1>2, StillHistory
  DEF IdleDigest, DigestFails, Compress, MarkChild, Goto, Finish, history, Writing
<1>3. CASE NoAction
  BY <1>0, <1>3, StillHistory DEF NoAction, Goto, history, Writing
<1>4. CASE RunAction \/ StageAction
  BY <1>4, DispatchHistory
<1>5. CASE StreamDirect \/ StreamRelay \/ StreamConfirmation \/ SendFails
  BY <1>5, EmitHistory
<1>6. CASE Reply
  <2>1. /\ asked \in Send /\ kind[asked] = cur /\ Whole(asked)
        /\ (cur = "action" => effects[asked] = 1)
    BY <1>6 DEF Reply, StoreInv, HistoryInv
  <2>2. told' = told \cup {asked} /\ UNCHANGED <<pending, seen, withdrawn, effects>> /\ pc' = "idle"
    BY <1>6 DEF Reply, Finish
  <2>3. \A i : Whole(i)' <=> Whole(i)
    BY <1>0, SameRows DEF store
  <2>4. \A i \in told' : i <= asked' /\ Whole(i)' /\ (kind'[i] = "action" => effects'[i] = 1)
    BY <1>0, <2>1, <2>2, <2>3 DEF HistoryInv, Send
  <2>5. TurnComesFirst' /\ GatedOnce'
    BY <1>0, <2>2 DEF HistoryInv, TurnComesFirst, Traces, GatedOnce, store
  <2>6. QED BY <1>0, <2>1, <2>2, <2>4, <2>5 DEF HistoryInv, Writing
<1>7. CASE DigestRun \/ RecoveryStatus
  BY <1>0, <1>7, StillHistory DEF DigestRun, RecoveryStatus, Serving, history, Writing
<1>8. ASSUME NEW i \in Send, Approve(i) \/ Reject(i) PROVE HistoryInv'
  BY <1>8, DecisionHistory
<1>9. QED
  BY <1>1, <1>2, <1>3, <1>4, <1>5, <1>6, <1>7, <1>8 DEF Quiet

\* The steps that write rows: none of them touches an answered message.
LEMMA RowHistory ==
    ASSUME StoreInv, HistoryInv, NEW j \in Send, OnlyMessage(j), j \notin told,
           UNCHANGED <<pending, seen, told, effects>>, asked' \in {asked, asked + 1},
           withdrawn \subseteq withdrawn', withdrawn' \subseteq Send,
           \A i \in Send : i # j => kind'[i] = kind[i],
           kind'[j] = kind[j] \/ (effects[j] = 0 /\ pending[j] = "none"),
           j \in Traces => Blank(j) \/ Open(j)' \/ Whole(j)' \/ j \in withdrawn',
           pc' \in Writing \cup {"reply"} => asked' \notin told',
           pc' = "dispatch" => effects'[asked'] = 0 /\ pending'[asked'] = "none",
           (pc' \in (Writing \ {"dispatch"}) \cup {"reply"} /\ cur' = "action")
               => effects'[asked'] = 1
    PROVE  HistoryInv'
<1>1. told \subseteq Send /\ asked \in Nat /\ told' = told
  BY DEF HistoryInv, StoreInv
<1>2. \A i \in told' : i <= asked' /\ Whole(i)' /\ (kind'[i] = "action" => effects'[i] = 1)
  <2> SUFFICES ASSUME NEW i \in told
               PROVE  i <= asked' /\ Whole(i)' /\ (kind'[i] = "action" => effects'[i] = 1)
    BY <1>1
  <2>1. i \in Send /\ i # j /\ i <= asked /\ Whole(i) /\ (kind[i] = "action" => effects[i] = 1)
    BY <1>1 DEF HistoryInv
  <2>2. Whole(i)' /\ kind'[i] = kind[i]
    BY <2>1 DEF OnlyMessage
  <2>3. QED BY <1>1, <2>1, <2>2 DEF Send
<1>3. \A i \in Send : i > asked' => effects'[i] = 0 /\ pending'[i] = "none"
  BY <1>1 DEF HistoryInv, Send
<1>4. \A i \in Send : pending'[i] # "none" => kind'[i] = "staged"
  BY DEF HistoryInv
<1>5. GatedOnce'
  BY DEF HistoryInv, GatedOnce
<1>6. TurnComesFirst'
  <2>0. Traces' = Traces
    BY DEF Traces
  <2> SUFFICES ASSUME NEW i \in Traces
               PROVE  (db.row[<<"user", i>>])' # "absent" \/ i \in withdrawn'
    BY <2>0 DEF TurnComesFirst
  <2>1. i \in Send /\ (db.row[<<"user", i>>] # "absent" \/ i \in withdrawn)
    BY DEF HistoryInv, TurnComesFirst, Traces
  <2>2. Blank(i) => i \in withdrawn'
    BY <2>1 DEF Blank, User
  <2>3. (i > asked => Blank(i)) /\ (i <= asked => Blank(i) \/ Open(i) \/ Whole(i))
    BY <2>1 DEF StoreInv
  <2>4. Blank(i) \/ Open(i) \/ Whole(i)
    BY <1>1, <2>1, <2>3 DEF Send
  <2>5. i # j => (Open(i) => Open(i)') /\ (Whole(i) => Whole(i)')
    BY <2>1 DEF OnlyMessage
  <2>6. Open(i)' \/ Whole(i)' \/ i \in withdrawn'
    BY <2>2, <2>4, <2>5
  <2>7. Open(i)' \/ Whole(i)' => (db.row[<<"user", i>>])' # "absent"
    BY DEF Open, Whole, User
  <2>8. QED BY <2>6, <2>7
<1>7. QED
  BY <1>2, <1>3, <1>4, <1>5, <1>6 DEF HistoryInv

LEMMA HistoryNext == ASSUME StoreInv, HistoryInv, [Next]_vars PROVE HistoryInv'
<1>1. CASE Quiet
  BY <1>1, QuietHistory
<1>2. CASE Begin
  <2>1. PICK j \in Send : j = asked + 1 /\ asked' = j /\ Open(j)' /\ OnlyMessage(j)
    BY <1>2, BeginStep
  <2>2. j > asked /\ j \notin told
    BY <2>1 DEF StoreInv, HistoryInv, Send
  <2>3. effects[j] = 0 /\ pending[j] = "none" /\ asked' = asked + 1
    BY <2>1, <2>2 DEF HistoryInv
  <2>4. /\ UNCHANGED <<pending, seen, told, withdrawn, effects>> /\ pc' = "dispatch"
        /\ \A i \in Send : i # j => kind'[i] = kind[i]
    BY <1>2, <2>1 DEF Begin, Goto, history, StoreInv
  <2>5. withdrawn \subseteq Send
    BY DEF HistoryInv
  <2>6. QED BY <2>1, <2>2, <2>3, <2>4, <2>5, RowHistory
<1>3. CASE Flip \/ InsertLead \/ InsertBrain
  <2>1. /\ UNCHANGED <<db, asked, kind, cur, pending, seen, told, withdrawn, effects>>
        /\ pc \in Writing \ {"dispatch"} /\ pc' \in Writing \ {"dispatch"}
        /\ asked \in Send
    BY <1>3 DEF Flip, InsertLead, InsertBrain, Goto, history, StoreInv, Writing
  <2>2. \A i : Whole(i)' <=> Whole(i)
    BY <2>1, SameRows
  <2>3. \A i \in told' : i <= asked' /\ Whole(i)' /\ (kind'[i] = "action" => effects'[i] = 1)
    BY <2>1, <2>2 DEF HistoryInv
  <2>4. TurnComesFirst' /\ GatedOnce'
    BY <2>1 DEF HistoryInv, TurnComesFirst, Traces, GatedOnce
  <2>5. QED BY <2>1, <2>3, <2>4 DEF HistoryInv
<1>4. CASE Commit
  <2>1. asked \in Send /\ Whole(asked)' /\ OnlyMessage(asked)
    BY <1>4, CommitStep DEF Commit, StoreInv, Writing
  <2>2. /\ UNCHANGED <<asked, kind, cur, pending, seen, told, withdrawn, effects>>
        /\ pc = "commit" /\ pc' = "reply"
    BY <1>4 DEF Commit, Goto, history
  <2>3. asked \notin told /\ (cur = "action" => effects[asked] = 1) /\ withdrawn \subseteq Send
    BY <2>2 DEF HistoryInv, Writing
  <2>4. PICK j \in Send : j = asked /\ Whole(j)' /\ OnlyMessage(j)
    BY <2>1, <2>2
  <2>5. QED BY <2>2, <2>3, <2>4, RowHistory
<1>5. ASSUME NEW j \in Send, RecoveryResolve(j) PROVE HistoryInv'
  <2>1. Open(j) /\ OnlyMessage(j)
    BY <1>5, RecoveryStep
  <2>2. /\ UNCHANGED <<asked, kind, pc, cur, pending, seen, told, effects>> /\ pc = "idle"
        /\ withdrawn' = withdrawn \cup {j}
    BY <1>5 DEF RecoveryResolve, Serving
  <2>3. j \notin told /\ withdrawn \subseteq Send
    BY <2>1 DEF HistoryInv, Open, Whole
  <2>4. pc' \notin Writing \cup {"reply"}
    BY <2>2 DEF Writing
  <2>5. QED BY <2>1, <2>2, <2>3, <2>4, RowHistory DEF Writing
<1>6. CASE Crash
  <2>1. /\ UNCHANGED <<db, asked, kind, seen, told, withdrawn, effects>>
        /\ pc' = "idle" /\ pending' = [i \in Send |-> "none"]
    BY <1>6 DEF Crash, Finish
  <2>2. \A i : Whole(i)' <=> Whole(i)
    BY <2>1, SameRows
  <2>3. \A i \in told' : i <= asked' /\ Whole(i)' /\ (kind'[i] = "action" => effects'[i] = 1)
    BY <2>1, <2>2 DEF HistoryInv
  <2>4. TurnComesFirst'
    BY <2>1 DEF HistoryInv, TurnComesFirst, Traces
  <2>5. GatedOnce'
    BY <2>1 DEF HistoryInv, GatedOnce
  <2>6. QED BY <2>1, <2>3, <2>4, <2>5 DEF HistoryInv, Writing, PendingStatus
<1>7. CASE UNCHANGED vars
  BY <1>7, SameRows DEF vars, HistoryInv, TurnComesFirst, Traces, GatedOnce
<1>8. QED
  BY <1>1, <1>2, <1>3, <1>4, <1>5, <1>6, <1>7, NextSplit

LEMMA HistorySound == Spec => [](StoreInv /\ HistoryInv)
<1>1. Init => StoreInv /\ HistoryInv
  BY StoreInit, HistoryInit
<1>2. (StoreInv /\ HistoryInv) /\ [Next]_vars => (StoreInv /\ HistoryInv)'
  BY StoreNext, HistoryNext
<1>3. QED
  BY <1>1, <1>2, PTL DEF Spec

\* A message the client was told is answered has every row of its exchange in
\* the thread and in search, and its action ran once (thread_send.py replies
\* after complete_turn_pair has committed).
THEOREM AnswersAreDurable == Spec => []AnsweredIsDurable
<1>1. StoreInv /\ HistoryInv => AnsweredIsDurable
  <2> SUFFICES ASSUME StoreInv, HistoryInv, NEW i \in told
               PROVE  /\ \A r \in RowsOf(i, kind[i]) : db.row[r] = "completed" /\ r \in db.index
                      /\ kind[i] = "action" => effects[i] = 1
    BY DEF AnsweredIsDurable
  <2>1. i \in Send /\ Whole(i) /\ (kind[i] = "action" => effects[i] = 1)
    BY DEF HistoryInv
  <2>2. \A r \in RowsOf(i, kind[i]) : r \in Row /\ db.row[r] = "completed"
    BY <2>1, RowsOfMessage DEF RowsOf, Whole, User, Lead, Brain
  <2>3. QED BY <2>1, <2>2 DEF StoreInv, Completed
<1>2. QED
  BY <1>1, HistorySound, PTL

\* Nothing of a reply is shown, run or staged without its message in the database,
\* unless a recovery dropped that.
THEOREM TracesNeedTurns == Spec => []TurnComesFirst
<1>1. HistoryInv => TurnComesFirst
  BY DEF HistoryInv
<1>2. QED
  BY <1>1, HistorySound, PTL

\* A hard-gated action runs at most once, and only once approved
\* (PendingActionStore resolves the entry before the executor runs).
THEOREM GateHolds == Spec => []GatedOnce
<1>1. HistoryInv => GatedOnce
  BY DEF HistoryInv
<1>2. QED
  BY <1>1, HistorySound, PTL

-------------------------------------------------------------------------------
(* DigestInv *)

\* The least and the greatest of a set of bounded numbers.
Less == {p \in Nat \X Nat : p[1] < p[2]}

LEMMA LeastNumber ==
    ASSUME NEW T, T \subseteq Nat, T # {}
    PROVE  Min(T) \in T /\ \A y \in T : Min(T) <= y
<1>1. IsWellFoundedOn(Less, Nat)
  BY NatLessThanWellFounded DEF OpToRel, Less
<1>2. PICK x \in T : \A y \in T : ~ (<<y, x>> \in Less)
  BY <1>1, WFMin
<1>3. ASSUME NEW y \in T PROVE x <= y
  <2>1. x \in Nat /\ y \in Nat /\ <<y, x>> \notin Less
    BY <1>2
  <2>2. y < x => <<y, x>> \in Less
    BY <2>1 DEF Less
  <2>3. QED BY <2>1, <2>2
<1>4. QED
  BY <1>3 DEF Min

LEMMA GreatestNumber ==
    ASSUME NEW T, T \subseteq Nat, T # {}, NEW B \in Nat, \A x \in T : x <= B
    PROVE  Max(T) \in T /\ \A y \in T : y <= Max(T)
<1> DEFINE Rest == {B - x : x \in T}
<1>1. Rest \subseteq Nat /\ Rest # {}
  <2>1. \A x \in T : B - x \in Nat
    OBVIOUS
  <2>2. PICK x \in T : TRUE
    OBVIOUS
  <2>3. B - x \in Rest
    OBVIOUS
  <2>4. QED BY <2>1, <2>3
<1>2. Min(Rest) \in Rest /\ \A y \in Rest : Min(Rest) <= y
  BY <1>1, LeastNumber
<1>3. PICK x \in T : Min(Rest) = B - x
  BY <1>2
<1>4. ASSUME NEW y \in T PROVE x >= y
  <2>1. B - y \in Rest
    OBVIOUS
  <2>2. B - x <= B - y /\ x \in Nat /\ y \in Nat
    BY <1>2, <1>3, <2>1
  <2>3. QED BY <2>2
<1>5. Max(T) \in T /\ \A y \in T : Max(T) >= y
  BY <1>4 DEF Max
<1>6. QED
  BY <1>5

LEMMA Times ==
    /\ Now \in Nat /\ MaxSends \in Nat
    /\ \A r \in Row : At(r) \in 1..Now
    /\ \A i \in Send : /\ At(User(i)) = 2 * i - 1
                       /\ At(Lead(i)) = 2 * i /\ At(Brain(i)) = 2 * i
  BY ThreadAssumption DEF Now, At, Row, Send, User, Lead, Brain

\* The end of the latest of some digests is where one of them ends, and none ends
\* later.
EndOf(ds) == Max({ds[d].hi : d \in DOMAIN ds} \cup {0})

LEMMA LatestIs ==
    ASSUME NEW ds \in Seq(Digest)
    PROVE  /\ EndOf(ds) \in Nat
           /\ \A d \in DOMAIN ds : ds[d].hi \in 1..Now /\ ds[d].hi \in Nat
                                    /\ ds[d].hi <= EndOf(ds)
           /\ EndOf(ds) = 0 \/ \E d \in DOMAIN ds : EndOf(ds) = ds[d].hi
<1> DEFINE T == {ds[d].hi : d \in DOMAIN ds} \cup {0}
<1>1. \A d \in DOMAIN ds : ds[d].hi \in 1..Now
  <2>1. \A d \in DOMAIN ds : ds[d] \in Digest
    OBVIOUS
  <2>2. QED BY <2>1 DEF Digest
<1>2. T \subseteq Nat /\ T # {} /\ Now \in Nat /\ \A x \in T : x <= Now
  BY <1>1, Times
<1>3. Max(T) \in T /\ \A y \in T : y <= Max(T)
  <2> HIDE DEF T
  <2>1. QED BY <1>2, GreatestNumber
<1>4. EndOf(ds) = Max(T)
  BY DEF EndOf
<1>5. QED
  BY <1>1, <1>2, <1>3, <1>4

\* What the new digest of run_digest looks like.
LEMMA LeafIs ==
    ASSUME digests \in Seq(Digest), Digestible, InsertLeaf
    PROVE  \E leaf \in Digest :
              /\ digests' = Append(digests, leaf)
              /\ leaf.parent = 0 /\ leaf.covers = NewTurns
              /\ \E r \in NewTurns : leaf.hi = At(r)
              /\ \A r \in NewTurns : At(r) <= leaf.hi
<1> DEFINE T == {At(r) : r \in NewTurns}
<1>1. NewTurns \subseteq Row
  BY DEF NewTurns, Completed
<1>2. NewTurns # {}
  <2>1. Cardinality({}) = 0
    BY FS_EmptySet
  <2>2. MinTurns \in Nat /\ MinTurns > 0
    BY ThreadAssumption
  <2>3. Cardinality(NewTurns) >= MinTurns
    BY DEF Digestible
  <2>4. QED BY <2>1, <2>2, <2>3
<1>3. T \subseteq Nat /\ T # {} /\ Now \in Nat /\ T \subseteq 1..Now /\ \A x \in T : x <= Now
  BY <1>1, <1>2, Times
<1>4. /\ Min(T) \in T /\ Max(T) \in T /\ \A y \in T : y <= Max(T)
  <2> HIDE DEF T
  <2>1. QED BY <1>3, LeastNumber, GreatestNumber
<1> DEFINE leaf == [lo |-> Min(T), hi |-> Max(T), covers |-> NewTurns, parent |-> 0]
<1>5. leaf \in Digest /\ digests' = Append(digests, leaf)
  BY <1>1, <1>3, <1>4 DEF Digest, InsertLeaf
<1>6. QED
  BY <1>4, <1>5

\* A message's row is completed by the transaction that answers it, and no
\* completed row ever changes again.
LEMMA CompletedGrows ==
    ASSUME StoreInv, [Next]_vars
    PROVE  /\ Completed \subseteq Completed'
           /\ \A r \in Completed' \ Completed : Commit /\ asked \in Send /\ At(r) >= 2 * asked - 1
<1>0. db \in Store /\ asked \in 0..MaxSends
  BY DEF StoreInv
<1>1. CASE Begin
  <2>1. PICK i \in Send : i = asked + 1 /\ Blank(i)
    BY <1>1, BeginStep
  <2>2. /\ User(i) \in Row /\ db.row[User(i)] = "absent"
        /\ \A r \in Row : db'.row[r] = IF r = User(i) THEN "in_progress" ELSE db.row[r]
    BY <1>0, <1>1, <2>1, RowsOfMessage DEF Begin, Blank, Store, User
  <2>3. QED BY <2>2 DEF Completed
<1>2. CASE Commit
  <2> DEFINE R == {User(asked), Brain(asked)}
                  \cup (IF cur = "delegated" THEN {Lead(asked)} ELSE {})
  <2>1. asked \in Send /\ pc = "commit" /\ db' = With(db, Uncommitted)
    BY <1>2 DEF Commit, StoreInv, Writing
  <2>2. Uncommitted = R
    BY <2>1 DEF Uncommitted
  <2>3. \A r \in Row : db'.row[r] = IF r \in R THEN "completed" ELSE db.row[r]
    BY <2>1, <2>2 DEF With
  <2>4. \A r \in R : At(r) >= 2 * asked - 1
    <3>1. /\ At(User(asked)) = 2 * asked - 1 /\ At(Lead(asked)) = 2 * asked
          /\ At(Brain(asked)) = 2 * asked /\ asked \in Nat
      BY <1>0, <2>1, Times
    <3>2. QED BY <3>1
  <2>5. QED BY <1>2, <2>1, <2>3, <2>4 DEF Completed
<1>3. ASSUME NEW i \in Send, RecoveryResolve(i)
      PROVE  Completed \subseteq Completed' /\ Completed' \subseteq Completed
  <2>1. /\ User(i) \in Row /\ db.row[User(i)] = "in_progress"
        /\ \A r \in Row : db'.row[r] = IF r = User(i) THEN "absent" ELSE db.row[r]
    BY <1>0, <1>3, RowsOfMessage DEF RecoveryResolve, Droppable, Store, User
  <2>2. QED BY <2>1 DEF Completed
<1>4. CASE Quiet \/ Flip \/ InsertLead \/ InsertBrain \/ Crash \/ UNCHANGED vars
  <2>1. db' = db
    BY <1>4, QuietRows DEF Flip, InsertLead, InsertBrain, Crash, vars, store
  <2>2. QED BY <2>1 DEF Completed
<1>5. QED
  BY <1>1, <1>2, <1>3, <1>4, NextSplit

\* No completed row is later than the messages sent.
LEMMA CompletedAreSent == ASSUME StoreInv PROVE \A r \in Completed : At(r) <= 2 * asked
<1> SUFFICES ASSUME NEW r \in Completed PROVE At(r) <= 2 * asked
  OBVIOUS
<1>1. PICK i \in Send : r = User(i) \/ r = Lead(i) \/ r = Brain(i)
  BY DEF Completed, Row, User, Lead, Brain
<1>2. i \in Nat /\ asked \in Nat
  BY ThreadAssumption DEF StoreInv, Send
<1>3. ~ Blank(i)
  BY <1>1 DEF Blank, Completed
<1>4. i <= asked
  BY <1>2, <1>3 DEF StoreInv
<1>5. At(r) <= 2 * i
  BY <1>1, <1>2, Times
<1>6. At(r) \in Nat
  BY Times DEF Completed
<1>7. QED
  BY <1>2, <1>4, <1>5, <1>6

\* Steps that leave the digests alone.
LEMMA DigestsKept ==
    ASSUME StoreInv, DigestInv, UNCHANGED digests, [Next]_vars,
           asked' \in Nat, asked' >= asked,
           pc' \in Writing => (pc \in Writing /\ asked' = asked) \/ asked' = asked + 1,
           pc' = "mark" => pc = "mark" /\ marking' = marking
    PROVE  DigestInv'
<1>1. /\ digests \in Seq(Digest) /\ digests' = digests /\ asked \in Nat
      /\ LatestEnd \in Nat
      /\ \A d \in DOMAIN digests : digests[d].hi \in Nat /\ digests[d].hi <= LatestEnd
      /\ LatestEnd = 0 \/ \E d \in DOMAIN digests : LatestEnd = digests[d].hi
  <2>1. digests \in Seq(Digest) /\ asked \in Nat
    BY DEF DigestInv, StoreInv
  <2>2. QED BY <2>1, LatestIs DEF LatestEnd, EndOf
<1>2. LatestEnd' = LatestEnd /\ Roots' = Roots
  BY DEF LatestEnd, Roots
<1>3. ASSUME NEW d \in DOMAIN digests
      PROVE  /\ digests[d].hi <= 2 * asked'
             /\ pc' \in Writing => digests[d].hi < 2 * asked' - 1
  <2>1. digests[d].hi <= 2 * asked /\ (pc \in Writing => digests[d].hi < 2 * asked - 1)
    BY DEF DigestInv
  <2>2. QED BY <1>1, <2>1
<1>4. DigestCoverage'
  <2> SUFFICES ASSUME NEW r \in Completed', At(r) <= LatestEnd
               PROVE  \E d \in Roots : r \in digests[d].covers
    BY <1>1, <1>2 DEF DigestCoverage
  <2>1. CASE r \in Completed
    BY <2>1 DEF DigestInv, DigestCoverage
  <2>2. CASE r \notin Completed
    <3>1. Commit /\ asked \in Send /\ At(r) >= 2 * asked - 1
      BY <2>2, CompletedGrows
    <3>2. At(r) \in Nat /\ At(r) >= 1
      BY Times DEF Completed
    <3>3. pc \in Writing
      BY <3>1 DEF Commit, Writing
    <3>4. \A d \in DOMAIN digests : digests[d].hi < 2 * asked - 1
      BY <3>3 DEF DigestInv
    <3>5. LatestEnd < 2 * asked - 1 \/ LatestEnd = 0
      BY <1>1, <3>4
    <3>6. QED BY <1>1, <3>1, <3>2, <3>5
  <2>3. QED BY <2>1, <2>2
<1>5. pc' = "mark" =>
          /\ marking' \in Seq(1..(Len(digests) - 1)) /\ marking' # <<>>
          /\ Len(digests) \in Roots
          /\ \A n \in DOMAIN marking' :
                digests[marking'[n]].covers \subseteq digests[Len(digests)].covers
  BY DEF DigestInv
<1>6. \A d \in DOMAIN digests : \A r \in digests[d].covers : At(r) <= LatestEnd
  BY DEF DigestInv
<1>7. QED
  BY <1>1, <1>2, <1>3, <1>4, <1>5, <1>6 DEF DigestInv

\* The windows of the leaves follow one another.
LEMMA LeafStep ==
    ASSUME StoreInv, DigestInv, UNCHANGED <<db, asked>>, Digestible, InsertLeaf,
           pc' \notin Writing, pc' # "mark"
    PROVE  DigestInv'
<1>1. PICK leaf \in Digest :
         /\ digests' = Append(digests, leaf)
         /\ leaf.parent = 0 /\ leaf.covers = NewTurns
         /\ \E r \in NewTurns : leaf.hi = At(r)
         /\ \A r \in NewTurns : At(r) <= leaf.hi
  BY LeafIs DEF DigestInv
<1>2. PICK N \in Nat : N = Len(digests) /\ digests \in Seq(Digest) /\ DOMAIN digests = 1..N
  BY DEF DigestInv
<1>3. /\ digests' \in Seq(Digest) /\ DOMAIN digests' = 1..(N + 1)
      /\ digests'[N + 1] = leaf /\ \A d \in 1..N : digests'[d] = digests[d]
  BY <1>1, <1>2
<1>4. /\ LatestEnd \in Nat
      /\ \A d \in 1..N : digests[d].hi \in Nat /\ digests[d].hi <= LatestEnd
  BY <1>2, LatestIs DEF LatestEnd, EndOf
<1>5. /\ LatestEnd' \in Nat
      /\ \A d \in 1..(N + 1) : digests'[d].hi <= LatestEnd'
      /\ LatestEnd' = 0 \/ \E d \in 1..(N + 1) : LatestEnd' = digests'[d].hi
  BY <1>3, LatestIs DEF LatestEnd, EndOf
<1>6. /\ leaf.hi \in Nat /\ leaf.hi > LatestEnd /\ leaf.hi <= 2 * asked
  <2>1. PICK r \in NewTurns : leaf.hi = At(r)
    BY <1>1
  <2>2. r \in Completed /\ At(r) > LatestEnd /\ At(r) \in Nat /\ At(r) <= 2 * asked
    BY CompletedAreSent, Times DEF NewTurns, Completed
  <2>3. QED BY <2>1, <2>2
<1>7. LatestEnd' = leaf.hi
  <2>1. leaf.hi <= LatestEnd'
    BY <1>2, <1>3, <1>5
  <2>2. ASSUME NEW d \in 1..(N + 1), LatestEnd' = digests'[d].hi PROVE LatestEnd' = leaf.hi
    <3>1. CASE d = N + 1
      BY <1>3, <2>2, <3>1
    <3>2. CASE d # N + 1
      <4>1. d \in 1..N
        BY <1>2, <3>2
      <4>2. QED BY <1>3, <1>4, <1>6, <2>1, <2>2, <4>1
    <3>3. QED BY <3>1, <3>2
  <2>3. LatestEnd' # 0
    BY <1>4, <1>5, <1>6, <2>1
  <2>4. QED BY <1>5, <2>2, <2>3
<1>8. Roots' = Roots \cup {N + 1}
  BY <1>1, <1>2, <1>3 DEF Roots
<1>9. Completed' = Completed
  BY DEF Completed
<1>10. ASSUME NEW d \in DOMAIN digests'
       PROVE  /\ digests'[d].hi <= 2 * asked
              /\ \A r \in digests'[d].covers : At(r) <= LatestEnd'
  <2>1. CASE d = N + 1
    BY <1>1, <1>3, <1>6, <1>7, <2>1
  <2>2. CASE d # N + 1
    <3>1. d \in 1..N
      BY <1>2, <1>3, <2>2
    <3>2. \A r \in digests[d].covers : At(r) <= LatestEnd /\ At(r) \in Nat
      <4>1. digests[d] \in Digest
        BY <1>2, <3>1
      <4>2. digests[d].covers \subseteq Row
        BY <4>1 DEF Digest
      <4>3. QED BY <1>2, <3>1, <4>2, Times DEF DigestInv
    <3>3. digests[d].hi <= 2 * asked
      BY <1>2, <3>1 DEF DigestInv
    <3>4. QED BY <1>3, <1>4, <1>6, <1>7, <3>1, <3>2, <3>3
  <2>3. QED BY <2>1, <2>2
<1>11. DigestCoverage'
  <2> SUFFICES ASSUME NEW r \in Completed, At(r) <= LatestEnd'
               PROVE  \E d \in Roots' : r \in digests'[d].covers
    BY <1>9 DEF DigestCoverage
  <2>1. At(r) \in Nat
    BY Times DEF Completed
  <2>2. CASE At(r) <= LatestEnd
    <3>1. PICK d \in Roots : r \in digests[d].covers
      BY <2>2 DEF DigestInv, DigestCoverage
    <3>2. d \in 1..N
      BY <1>2, <3>1 DEF Roots
    <3>3. QED BY <1>3, <1>8, <3>1, <3>2
  <2>3. CASE ~ (At(r) <= LatestEnd)
    <3>1. r \in NewTurns
      BY <1>4, <2>1, <2>3 DEF NewTurns
    <3>2. QED BY <1>1, <1>3, <1>8, <3>1
  <2>4. QED BY <2>2, <2>3
<1>12. QED
  BY <1>3, <1>10, <1>11 DEF DigestInv

\* A compression batch is a nonempty choice of roots.
LEMMA BatchIs ==
    ASSUME digests \in Seq(Digest), OverBudget, NEW batch \in Batches
    PROVE  \E k \in Nat \ {0} : /\ batch \in [1..k -> Roots] /\ DOMAIN batch = 1..k
                                /\ Len(batch) = k /\ batch \in Seq(Roots)
<1>1. IsFiniteSet(Roots)
  <2>1. DOMAIN digests = 1..Len(digests) /\ Len(digests) \in Nat
    OBVIOUS
  <2>2. IsFiniteSet(1..Len(digests))
    BY <2>1, FS_Interval
  <2>3. Roots \in SUBSET (1..Len(digests))
    BY <2>1 DEF Roots
  <2>4. QED BY <2>2, <2>3, FS_Subset
<1>2. Cardinality(Roots) \in Nat /\ Cardinality(Roots) > 0
  <2>1. Cardinality(Roots) \in Nat
    BY <1>1, FS_CardinalityType
  <2>2. QED BY <2>1, ThreadAssumption DEF OverBudget
<1> DEFINE T == {BatchSize, Cardinality(Roots)}
<1>3. T \subseteq Nat \ {0} /\ T # {} /\ T \subseteq Nat
  BY <1>2, ThreadAssumption
<1>4. Min(T) \in T
  <2> HIDE DEF T
  <2>1. QED BY <1>3, LeastNumber
<1>5. PICK k \in Nat \ {0} : k = Min(T)
  BY <1>3, <1>4
<1>6. batch \in [1..k -> Roots]
  BY <1>5 DEF Batches
<1>7. batch \in Seq(Roots) /\ DOMAIN batch = 1..k
  BY <1>6
<1>8. Len(batch) = k
  BY <1>7
<1>9. QED
  BY <1>6, <1>7, <1>8

\* The parent covers what its children cover, and ends where one of them does.
LEMMA CompressStep ==
    ASSUME StoreInv, DigestInv, OverBudget, UNCHANGED <<db, asked>>,
           NEW batch \in Batches, digests' = Append(digests, Parent(batch)),
           marking' = batch, pc' = "mark"
    PROVE  DigestInv'
<1>1. PICK N \in Nat : N = Len(digests) /\ digests \in Seq(Digest) /\ DOMAIN digests = 1..N
  BY DEF DigestInv
<1>2. PICK k \in Nat \ {0} : /\ batch \in [1..k -> Roots] /\ DOMAIN batch = 1..k
                             /\ Len(batch) = k /\ batch \in Seq(Roots)
  BY <1>1, BatchIs
<1>3. \A n \in 1..k : batch[n] \in Roots /\ batch[n] \in 1..N /\ digests[batch[n]] \in Digest
  BY <1>1, <1>2 DEF Roots
<1>4. PICK first \in 1..N, last \in 1..N : first = batch[1] /\ last = batch[k]
  BY <1>2, <1>3
<1>5. PICK top \in Digest :
         /\ digests' = Append(digests, top)
         /\ top.hi = digests[last].hi /\ top.parent = 0
         /\ top.covers = UNION {digests[batch[n]].covers : n \in 1..k}
  <2>1. /\ digests[first].lo \in 1..Now /\ digests[last].hi \in 1..Now
        /\ UNION {digests[batch[n]].covers : n \in 1..k} \in SUBSET Row
    <3>1. \A m \in 1..N : digests[m] \in Digest
      BY <1>1
    <3>2. \A m \in 1..N : digests[m].lo \in 1..Now /\ digests[m].hi \in 1..Now
      BY <3>1 DEF Digest
    <3>3. \A m \in 1..N : digests[m].covers \subseteq Row
      BY <3>1 DEF Digest
    <3>4. \A n \in 1..k : digests[batch[n]].covers \subseteq Row
      BY <1>3, <3>3
    <3>5. UNION {digests[batch[n]].covers : n \in 1..k} \in SUBSET Row
      BY <3>4
    <3>6. QED BY <3>2, <3>5
  <2>2. Parent(batch) \in Digest
    BY <1>2, <1>4, <2>1 DEF Parent, Digest
  <2>3. QED BY <1>2, <1>4, <2>2 DEF Parent
<1>6. /\ digests' \in Seq(Digest) /\ DOMAIN digests' = 1..(N + 1) /\ Len(digests') = N + 1
      /\ digests'[N + 1] = top /\ \A d \in 1..N : digests'[d] = digests[d]
  BY <1>1, <1>5
<1>7. LatestEnd' = LatestEnd
  <2>1. {digests'[d].hi : d \in 1..(N + 1)} = {digests[d].hi : d \in 1..N}
    BY <1>1, <1>4, <1>5, <1>6
  <2>2. QED BY <1>1, <1>6, <2>1 DEF LatestEnd
<1>8. Roots' = Roots \cup {N + 1}
  BY <1>1, <1>5, <1>6 DEF Roots
<1>9. Completed' = Completed
  BY DEF Completed
<1>10. ASSUME NEW d \in DOMAIN digests'
       PROVE  /\ digests'[d].hi <= 2 * asked
              /\ \A r \in digests'[d].covers : At(r) <= LatestEnd
  <2>1. \A c \in 1..N : /\ digests[c].hi <= 2 * asked
                        /\ \A r \in digests[c].covers : At(r) <= LatestEnd
    BY <1>1 DEF DigestInv
  <2>2. CASE d = N + 1
    <3>1. digests'[d].hi <= 2 * asked
      BY <1>4, <1>5, <1>6, <2>1, <2>2
    <3>2. \A r \in top.covers : At(r) <= LatestEnd
      BY <1>3, <1>5, <2>1
    <3>3. QED BY <1>6, <2>2, <3>1, <3>2
  <2>3. CASE d # N + 1
    <3>1. d \in 1..N
      BY <1>1, <1>6, <2>3
    <3>2. QED BY <1>6, <2>1, <3>1
  <2>4. QED BY <2>2, <2>3
<1>11. DigestCoverage'
  <2> SUFFICES ASSUME NEW r \in Completed, At(r) <= LatestEnd
               PROVE  \E d \in Roots' : r \in digests'[d].covers
    BY <1>7, <1>9 DEF DigestCoverage
  <2>1. PICK d \in Roots : r \in digests[d].covers
    BY DEF DigestInv, DigestCoverage
  <2>2. d \in 1..N
    BY <1>1, <2>1 DEF Roots
  <2>3. QED BY <1>6, <1>8, <2>1, <2>2
<1>12. /\ marking' \in Seq(1..(Len(digests') - 1)) /\ marking' # <<>>
       /\ Len(digests') \in Roots'
       /\ \A n \in DOMAIN marking' :
             digests'[marking'[n]].covers \subseteq digests'[Len(digests')].covers
  <2>1. batch \in [1..k -> 1..N] /\ N + 1 - 1 = N
    BY <1>2, <1>3
  <2>2. batch \in Seq(1..N) /\ batch # <<>>
    BY <1>2, <2>1
  <2>3. \A n \in 1..k : digests'[batch[n]].covers \subseteq top.covers
    BY <1>3, <1>5, <1>6
  <2>4. QED BY <1>2, <1>6, <1>8, <2>1, <2>2, <2>3
<1>13. pc' \notin Writing
  BY DEF Writing
<1>14. QED
  BY <1>6, <1>7, <1>10, <1>11, <1>12, <1>13 DEF DigestInv

\* A child handed to the parent is a root no more; the parent covers its turns.
LEMMA MarkStep ==
    ASSUME StoreInv, DigestInv, MarkChild
    PROVE  DigestInv'
<1>1. /\ UNCHANGED <<db, asked>> /\ pc = "mark" /\ marking' = Tail(marking)
      /\ digests' = [digests EXCEPT ![Head(marking)].parent = Len(digests)]
      /\ pc' = IF Len(marking) = 1 THEN "begin" ELSE "mark"
  BY DEF MarkChild, Goto, store
<1>2. PICK N \in Nat : N = Len(digests) /\ digests \in Seq(Digest) /\ DOMAIN digests = 1..N
  BY DEF DigestInv
<1>3. /\ marking \in Seq(1..(N - 1)) /\ marking # <<>> /\ N \in Roots
      /\ \A n \in DOMAIN marking : digests[marking[n]].covers \subseteq digests[N].covers
  BY <1>1, <1>2 DEF DigestInv
<1>4. PICK h \in 1..(N - 1) : /\ h = Head(marking)
                              /\ digests[h].covers \subseteq digests[N].covers
  <2>1. 1 \in DOMAIN marking /\ Head(marking) = marking[1] /\ marking[1] \in 1..(N - 1)
    BY <1>3
  <2>2. QED BY <1>3, <2>1
<1>5. h \in 1..N /\ N \in 1..N /\ h # N /\ N # 0
  BY <1>4
<1>6. digests' = [digests EXCEPT ![h].parent = N]
  BY <1>1, <1>2, <1>4
<1>7. /\ digests' \in Seq(Digest) /\ DOMAIN digests' = 1..N /\ Len(digests') = N
      /\ \A d \in 1..N : /\ digests'[d].hi = digests[d].hi
                         /\ digests'[d].covers = digests[d].covers
                         /\ digests'[d].parent = IF d = h THEN N ELSE digests[d].parent
  <2>1. digests \in [1..N -> Digest]
    BY <1>2
  <2>2. \A d \in 1..N : /\ digests'[d].hi = digests[d].hi
                        /\ digests'[d].covers = digests[d].covers
                        /\ digests'[d].parent = IF d = h THEN N ELSE digests[d].parent
    BY <1>6, <2>1 DEF Digest
  <2>3. digests' \in [1..N -> Digest]
    BY <1>5, <1>6, <2>1 DEF Digest
  <2>4. digests' \in Seq(Digest) /\ DOMAIN digests' = 1..N
    BY <2>3
  <2>5. Len(digests') = N
    BY <2>4
  <2>6. QED BY <2>2, <2>4, <2>5
<1>8. LatestEnd' = LatestEnd
  <2>1. {digests'[d].hi : d \in 1..N} = {digests[d].hi : d \in 1..N}
    BY <1>7
  <2>2. QED BY <1>2, <1>7, <2>1 DEF LatestEnd
<1>9. Roots' = Roots \ {h}
  BY <1>2, <1>5, <1>7 DEF Roots
<1>10. Completed' = Completed
  BY <1>1 DEF Completed
<1>11. DigestCoverage'
  <2> SUFFICES ASSUME NEW r \in Completed, At(r) <= LatestEnd
               PROVE  \E d \in Roots' : r \in digests'[d].covers
    BY <1>8, <1>10 DEF DigestCoverage
  <2>1. PICK d \in Roots : r \in digests[d].covers
    BY DEF DigestInv, DigestCoverage
  <2>2. d \in 1..N
    BY <1>2, <2>1 DEF Roots
  <2>3. CASE d = h
    BY <1>3, <1>4, <1>5, <1>7, <1>9, <2>1, <2>3
  <2>4. CASE d # h
    BY <1>7, <1>9, <2>1, <2>2, <2>4
  <2>5. QED BY <2>3, <2>4
<1>12. ASSUME NEW d \in DOMAIN digests'
       PROVE  /\ digests'[d].hi <= 2 * asked
              /\ \A r \in digests'[d].covers : At(r) <= LatestEnd
  <2>1. \A c \in 1..N : /\ digests[c].hi <= 2 * asked
                        /\ \A r \in digests[c].covers : At(r) <= LatestEnd
    BY <1>2 DEF DigestInv
  <2>2. QED BY <1>7, <2>1
<1>13. ASSUME pc' = "mark"
       PROVE  /\ marking' \in Seq(1..(N - 1)) /\ marking' # <<>> /\ N \in Roots'
              /\ \A n \in DOMAIN marking' :
                    digests'[marking'[n]].covers \subseteq digests'[N].covers
  <2>1. Len(marking) # 1 /\ Len(marking) \in Nat /\ Len(marking) > 0
    BY <1>1, <1>3, <1>13
  <2>2. /\ marking' \in Seq(1..(N - 1)) /\ marking' # <<>>
        /\ \A n \in DOMAIN marking' : n + 1 \in DOMAIN marking /\ marking'[n] = marking[n + 1]
                                      /\ marking'[n] \in 1..(N - 1)
    <3>1. marking \in Seq(1..(N - 1)) /\ marking' = Tail(marking)
      BY <1>1, <1>3
    <3>2. marking' \in Seq(1..(N - 1)) /\ Len(marking') = Len(marking) - 1
      BY <3>1, <1>3
    <3>6. marking' # <<>>
      BY <2>1, <3>2
    <3>3. ASSUME NEW n \in DOMAIN marking'
          PROVE  n + 1 \in DOMAIN marking /\ marking'[n] = marking[n + 1]
      BY <3>1
    <3>4. \A n \in DOMAIN marking' : marking'[n] \in 1..(N - 1)
      BY <3>2
    <3>5. QED BY <3>2, <3>3, <3>4, <3>6
  <2>3. ASSUME NEW n \in DOMAIN marking'
        PROVE  digests'[marking'[n]].covers \subseteq digests'[N].covers
    <3>1. marking'[n] \in 1..N /\ digests[marking'[n]].covers \subseteq digests[N].covers
      BY <1>3, <2>2
    <3>2. QED BY <1>5, <1>7, <3>1
  <2>4. QED BY <1>3, <1>5, <1>9, <2>2, <2>3
<1>14. pc' \notin Writing
  BY <1>1 DEF Writing
<1>15. QED
  BY <1>1, <1>7, <1>8, <1>11, <1>12, <1>13, <1>14 DEF DigestInv

LEMMA DigestInit == Init => DigestInv
<1> SUFFICES ASSUME Init PROVE DigestInv
  OBVIOUS
<1>1. digests = <<>> /\ digests \in Seq(Digest) /\ DOMAIN digests = {} /\ pc = "idle"
  BY DEF Init
<1>2. Completed = {}
  BY DEF Init, EmptyStore, Completed
<1>3. QED
  BY <1>1, <1>2 DEF DigestInv, DigestCoverage

LEMMA DigestNext == ASSUME StoreInv, DigestInv, [Next]_vars PROVE DigestInv'
<1>0. asked \in Nat
  BY DEF StoreInv
<1>1. CASE IdleDigest
  <2>1. /\ UNCHANGED <<db, asked>> /\ pc' = "compress"
        /\ UNCHANGED digests \/ (Digestible /\ InsertLeaf)
    BY <1>1 DEF IdleDigest, Goto, store
  <2>2. pc' \notin Writing
    BY <2>1 DEF Writing
  <2>3. CASE UNCHANGED digests
    BY <1>0, <2>1, <2>2, <2>3, DigestsKept
  <2>4. CASE Digestible /\ InsertLeaf
    BY <2>1, <2>2, <2>4, LeafStep
  <2>5. QED BY <2>1, <2>3, <2>4
<1>2. CASE DigestRun
  <2>1. UNCHANGED <<db, asked>> /\ pc' = "idle" /\ Digestible /\ InsertLeaf
    BY <1>2 DEF DigestRun, Serving, store
  <2>2. pc' \notin Writing
    BY <2>1 DEF Writing
  <2>3. QED BY <2>1, <2>2, LeafStep
<1>3. CASE Compress
  <2>1. CASE OverBudget
    <3>1. PICK batch \in Batches :
             /\ digests' = Append(digests, Parent(batch)) /\ marking' = batch /\ pc' = "mark"
             /\ UNCHANGED <<db, asked>>
      BY <1>3, <2>1 DEF Compress, Goto, store
    <3>2. QED BY <2>1, <3>1, CompressStep
  <2>2. CASE ~OverBudget
    <3>1. UNCHANGED <<digests, asked>> /\ pc' = "begin"
      BY <1>3, <2>2 DEF Compress, Goto
    <3>2. pc' \notin Writing
      BY <3>1 DEF Writing
    <3>3. QED BY <1>0, <3>1, <3>2, DigestsKept
  <2>3. QED BY <2>1, <2>2
<1>4. CASE MarkChild
  BY <1>4, MarkStep
<1>5. CASE Begin
  <2>1. asked' = asked + 1 /\ UNCHANGED digests /\ pc' = "dispatch"
    BY <1>5 DEF Begin, Goto
  <2>2. QED BY <1>0, <2>1, DigestsKept
<1>6. CASE \/ \E k \in Kinds : Ask(k)
           \/ DigestFails \/ NoAction \/ RunAction \/ StageAction \/ StreamDirect
           \/ StreamRelay \/ StreamConfirmation \/ SendFails \/ Flip \/ InsertLead
           \/ InsertBrain \/ Commit \/ Reply \/ RecoveryStatus \/ Crash \/ UNCHANGED vars
           \/ \E i \in Send : RecoveryResolve(i) \/ Approve(i) \/ Reject(i)
  <2>1. UNCHANGED <<digests, asked>>
    BY <1>6 DEF Ask, DigestFails, NoAction, RunAction, StageAction, StreamDirect, StreamRelay,
       StreamConfirmation, Emit, SendFails, Flip, InsertLead, InsertBrain, Commit, Reply,
       RecoveryStatus, Crash, vars, RecoveryResolve, Approve, Reject
  <2>2. pc' \in Writing => pc \in Writing
    BY <1>6 DEF Ask, DigestFails, NoAction, RunAction, StageAction, StreamDirect, StreamRelay,
       StreamConfirmation, Emit, SendFails, Flip, InsertLead, InsertBrain, Commit, Reply,
       RecoveryStatus, Crash, vars, RecoveryResolve, Approve, Reject, Goto, Finish, Writing
  <2>3. pc' = "mark" => pc = "mark" /\ marking' = marking
    BY <1>6 DEF Ask, DigestFails, NoAction, RunAction, StageAction, StreamDirect, StreamRelay,
       StreamConfirmation, Emit, SendFails, Flip, InsertLead, InsertBrain, Commit, Reply,
       RecoveryStatus, Crash, vars, RecoveryResolve, Approve, Reject, Goto, Finish
  <2>4. QED BY <1>0, <2>1, <2>2, <2>3, DigestsKept
<1>7. QED
  BY <1>1, <1>2, <1>3, <1>4, <1>5, <1>6 DEF Next, Handler

LEMMA DigestSound == Spec => [](StoreInv /\ DigestInv)
  BY StoreInit, DigestInit, StoreNext, DigestNext, PTL DEF Spec

\* Every completed turn up to the latest digest is covered by a digest no parent
\* has replaced, whatever the batches of the compressions and wherever a crash
\* interrupts their marking (run_digest, maybe_compress_old_digests,
\* _set_parent_digest).
THEOREM DigestsCover == Spec => []DigestCoverage
<1>1. DigestInv => DigestCoverage
  BY DEF DigestInv
<1>2. QED
  BY <1>1, DigestSound, PTL

\* A digest is added by run_digest over turns no digest covers yet, or else by a
\* compression (run_digest's window begins after latest_digest).
THEOREM NoTurnTwice == Spec => TurnsDigestedOnce
<1> DEFINE Once == \A n \in DOMAIN digests' \ DOMAIN digests : pc # "compress" =>
                     \A d \in DOMAIN digests :
                        digests'[n].covers \cap digests[d].covers = {}
<1>1. StoreInv /\ DigestInv /\ [Next]_vars => [Once]_vars
  <2> SUFFICES ASSUME StoreInv, DigestInv, [Next]_vars, vars' # vars,
                      NEW n \in DOMAIN digests' \ DOMAIN digests, pc # "compress",
                      NEW d \in DOMAIN digests
               PROVE  digests'[n].covers \cap digests[d].covers = {}
    OBVIOUS
  <2>1. digests \in Seq(Digest)
    BY DEF DigestInv
  <2>2. CASE Digestible /\ InsertLeaf
    <3>1. PICK leaf \in Digest : digests' = Append(digests, leaf) /\ leaf.covers = NewTurns
      BY <2>1, <2>2, LeafIs
    <3>2. digests'[n] = leaf
      BY <2>1, <3>1
    <3>3. \A r \in digests[d].covers : At(r) <= LatestEnd
      BY DEF DigestInv
    <3>4. \A r \in NewTurns : At(r) > LatestEnd /\ At(r) \in Nat
      BY Times DEF NewTurns, Completed
    <3>5. LatestEnd \in Nat
      BY <2>1, LatestIs DEF LatestEnd, EndOf
    <3>6. QED BY <3>1, <3>2, <3>3, <3>4, <3>5
  <2>3. CASE ~(Digestible /\ InsertLeaf)
    <3>1. CASE IdleDigest \/ DigestRun
      <4>1. UNCHANGED digests
        BY <2>3, <3>1 DEF IdleDigest, DigestRun
      <4>2. QED BY <4>1
    <3>2. CASE MarkChild
      <4>1. DOMAIN digests' = DOMAIN digests
        BY <3>2 DEF MarkChild
      <4>2. QED BY <4>1
    <3>3. CASE ~(IdleDigest \/ DigestRun \/ MarkChild)
      <4>1. UNCHANGED digests
        BY <3>3 DEF Next, Handler, Ask, DigestFails, Compress, NoAction, RunAction,
           StageAction, StreamDirect, StreamRelay, StreamConfirmation, Emit, SendFails, Begin,
           Flip, InsertLead, InsertBrain, Commit, Reply, RecoveryStatus, Crash, vars,
           RecoveryResolve, Approve, Reject
      <4>2. QED BY <4>1
    <3>4. QED BY <3>1, <3>2, <3>3
  <2>4. QED BY <2>2, <2>3
<1>2. QED
  BY <1>1, DigestSound, PTL DEF Spec, TurnsDigestedOnce

-------------------------------------------------------------------------------
(* The database refines AtomicTurns *)

\* What ExchangeOf reads off three rows.
LEMMA ExchangeStates ==
    ASSUME NEW i \in Send, StoreInv
    PROVE  ExchangeOf(i) = IF i > asked THEN "unsent"
                           ELSE IF Blank(i) THEN "withdrawn"
                           ELSE IF Open(i) THEN "open" ELSE "answered"
<1>1. RowsOf(i, "delegated") = {User(i), Lead(i), Brain(i)}
  BY DEF RowsOf, User, Lead, Brain
<1>2. (\A r \in RowsOf(i, "delegated") : db.row[r] = "absent") <=> Blank(i)
  BY <1>1 DEF Blank
<1>3. (\A r \in RowsOf(i, "delegated") :
         db.row[r] = IF r[1] = "user" THEN "in_progress" ELSE "absent") <=> Open(i)
  BY <1>1 DEF Open, User, Lead, Brain
<1>4. Whole(i) => \A r \in RowsOf(i, "delegated") :
         db.row[r] = IF r \in RowsOf(i, kind[i]) THEN "completed" ELSE "absent"
  <2>1. User(i) \in RowsOf(i, kind[i]) /\ Brain(i) \in RowsOf(i, kind[i])
        /\ (Lead(i) \in RowsOf(i, kind[i]) <=> kind[i] = "delegated")
    BY DEF RowsOf, User, Lead, Brain
  <2>2. QED BY <1>1, <2>1 DEF Whole
<1>5. i <= asked => Blank(i) \/ Open(i) \/ Whole(i)
  BY DEF StoreInv
<1>6. ~ (i > asked) => i <= asked
  BY DEF StoreInv, Send
<1>7. QED
  BY <1>2, <1>3, <1>4, <1>5, <1>6 DEF ExchangeOf

\* The same of the next state.
LEMMA ExchangeAfter ==
    ASSUME NEW i \in Send, StoreInv'
    PROVE  ExchangeOf(i)' = IF (i > asked)' THEN "unsent"
                            ELSE IF Blank(i)' THEN "withdrawn"
                            ELSE IF Open(i)' THEN "open" ELSE "answered"
<1>1. (StoreInv => ExchangeOf(i) = IF i > asked THEN "unsent"
                                   ELSE IF Blank(i) THEN "withdrawn"
                                   ELSE IF Open(i) THEN "open" ELSE "answered")'
  BY ExchangeStates, PTL
<1>2. QED BY <1>1

LEMMA SameExchange ==
    ASSUME UNCHANGED <<db, asked, kind>>
    PROVE  [i \in Send |-> ExchangeOf(i)]' = [i \in Send |-> ExchangeOf(i)]
  BY DEF ExchangeOf

\* A step that changes the state of one message only.
LEMMA OneExchange ==
    ASSUME NEW j \in Send, StoreInv, StoreInv',
           OnlyMessage(j), \A i \in Send : i # j => ((i > asked)' <=> (i > asked))
    PROVE  [i \in Send |-> ExchangeOf(i)]' =
               [[i \in Send |-> ExchangeOf(i)] EXCEPT ![j] = ExchangeOf(j)']
<1>1. \A i \in Send : ExchangeOf(i)' = IF (i > asked)' THEN "unsent"
                           ELSE IF Blank(i)' THEN "withdrawn"
                           ELSE IF Open(i)' THEN "open" ELSE "answered"
  BY ExchangeAfter
<1>2. \A i \in Send : i # j => ExchangeOf(i)' = ExchangeOf(i)
  <2> SUFFICES ASSUME NEW i \in Send, i # j PROVE ExchangeOf(i)' = ExchangeOf(i)
    OBVIOUS
  <2>1. /\ (i > asked)' <=> (i > asked)
        /\ Blank(i)' <=> Blank(i)
        /\ Open(i)' <=> Open(i)
    BY DEF OnlyMessage
  <2>2. ExchangeOf(i) = IF i > asked THEN "unsent"
                           ELSE IF Blank(i) THEN "withdrawn"
                           ELSE IF Open(i) THEN "open" ELSE "answered"
    BY ExchangeStates
  <2>3. ExchangeOf(i)' = IF (i > asked)' THEN "unsent"
                           ELSE IF Blank(i)' THEN "withdrawn"
                           ELSE IF Open(i)' THEN "open" ELSE "answered"
    BY <1>1
  <2>4. QED BY <2>1, <2>2, <2>3
<1>3. QED
  BY <1>2

\* Accepting, answering and withdrawing are the only steps the thread shows.
\* A message is never half answered and an answered one never changes
\* (complete_turn_pair, abandon_in_progress).
THEOREM ExchangesAreAtomic == Spec => AtomicExchange
<1> DEFINE ex == [i \in Send |-> ExchangeOf(i)]
<1>1. Init => Abstract!Init
  <2> SUFFICES ASSUME Init PROVE Abstract!Init
    OBVIOUS
  <2>1. StoreInv
    BY StoreInit
  <2>2. \A i \in Send : i > asked
    BY DEF Init, Send
  <2>3. \A i \in Send : ExchangeOf(i) = "unsent"
    BY <2>1, <2>2, ExchangeStates
  <2>4. QED BY <2>3 DEF Abstract!Init, Abstract!Send, Send
<1>2. StoreInv /\ [Next]_vars => [Abstract!Next]_ex
  <2> SUFFICES ASSUME StoreInv, [Next]_vars PROVE [Abstract!Next]_ex
    OBVIOUS
  <2>1. StoreInv'
    BY StoreNext
  <2>2. ASSUME UNCHANGED <<db, asked, kind>> PROVE ex' = ex
    BY <2>2, SameExchange
  <2>3. CASE Quiet
    BY <2>2, <2>3, QuietRows DEF store
  <2>4. CASE Begin
    <3>1. PICK j \in Send : j = asked + 1 /\ asked' = j /\ Blank(j) /\ Open(j)' /\ OnlyMessage(j)
      BY <2>4, BeginStep
    <3>2. \A i \in Send : i # j => ((i > asked)' <=> (i > asked))
      BY <3>1 DEF StoreInv, Send
    <3>3. ex' = [ex EXCEPT ![j] = ExchangeOf(j)']
      BY <2>1, <3>1, <3>2, OneExchange
    <3>4. ExchangeOf(j) = "unsent"
      BY <3>1, ExchangeStates DEF StoreInv, Send
    <3>5. ExchangeOf(j)' = "open"
      BY <2>1, <3>1, ExchangeAfter DEF Send, Open, Blank
    <3>6. Abstract!Accept(j)
      BY <3>3, <3>4, <3>5 DEF Abstract!Accept
    <3>7. QED BY <3>6 DEF Abstract!Next, Abstract!Send, Send
  <2>5. CASE Flip \/ InsertLead \/ InsertBrain
    BY <2>2, <2>5 DEF Flip, InsertLead, InsertBrain
  <2>6. CASE Commit
    <3>1. asked \in Send /\ asked' = asked /\ Open(asked)
      BY <2>6 DEF Commit, StoreInv, Writing
    <3>2. Whole(asked)' /\ OnlyMessage(asked)
      BY <2>6, CommitStep
    <3>3. PICK j \in Send : j = asked /\ Open(j) /\ Whole(j)' /\ OnlyMessage(j)
      BY <3>1, <3>2
    <3>4. ex' = [ex EXCEPT ![j] = ExchangeOf(j)']
      BY <2>1, <3>1, <3>3, OneExchange
    <3>5. ExchangeOf(j) = "open"
      BY <3>3, ExchangeStates DEF StoreInv, Send, Open, Blank
    <3>6. ExchangeOf(j)' = "answered"
      BY <2>1, <3>1, <3>3, ExchangeAfter DEF StoreInv, Send, Open, Blank, Whole
    <3>7. Abstract!Answer(j)
      BY <3>4, <3>5, <3>6 DEF Abstract!Answer
    <3>8. QED BY <3>7 DEF Abstract!Next, Abstract!Send, Send
  <2>7. ASSUME NEW j \in Send, RecoveryResolve(j) PROVE [Abstract!Next]_ex
    <3>1. j <= asked /\ Open(j) /\ Blank(j)' /\ OnlyMessage(j) /\ asked' = asked
      BY <2>7, RecoveryStep DEF RecoveryResolve
    <3>2. ex' = [ex EXCEPT ![j] = ExchangeOf(j)']
      BY <2>1, <3>1, OneExchange
    <3>3. ExchangeOf(j) = "open"
      BY <3>1, ExchangeStates DEF StoreInv, Send, Open, Blank
    <3>4. ExchangeOf(j)' = "withdrawn"
      BY <2>1, <3>1, ExchangeAfter DEF StoreInv, Send
    <3>5. Abstract!Withdraw(j)
      BY <3>2, <3>3, <3>4 DEF Abstract!Withdraw
    <3>6. QED BY <3>5 DEF Abstract!Next, Abstract!Send, Send
  <2>8. CASE Crash
    BY <2>2, <2>8 DEF Crash
  <2>9. CASE UNCHANGED vars
    BY <2>2, <2>9 DEF vars
  <2>10. QED
    BY <2>3, <2>4, <2>5, <2>6, <2>7, <2>8, <2>9, NextSplit
<1>3. QED
  BY <1>1, <1>2, StoreSound, PTL DEF Spec, AtomicExchange, Abstract!Spec
===============================================================================

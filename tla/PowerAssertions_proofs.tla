------------------------ MODULE PowerAssertions_proofs ------------------------
(* Theorems about PowerAssertions, for any runs, lives of runs and number of *)
(* streaming calls that forward a status: however the update tasks           *)
(* interleave, no token is mixed up.                                         *)
EXTENDS PowerAssertions, TLAPS

Label == {"none", "check", "acquire", "insert", "remove", "release", "done"}
InHand(t) == task[t].pc \in {"insert", "release"}

\* A token that is acquired but not yet in the map belongs to one task; once it
\* is taken out of the map nobody else knows it.
TokenInv ==
    /\ task \in [Task -> [pc : Label, token : Nat \cup {NoToken}]]
    /\ assertions \in [Runs -> Nat \cup {NoToken}]
    /\ issued \in Nat
    /\ \A t \in Task : InHand(t) => task[t].token \in 1..issued
    /\ \A r \in Runs : assertions[r] # NoToken => assertions[r] \in 1..issued
    /\ \A t \in Task : task[t].pc = "insert" =>
          /\ task[t].token \in held
          /\ \A r \in Runs : task[t].token # assertions[r]
    /\ \A t, u \in Task : (task[t].pc = "insert" /\ InHand(u) /\ t # u)
          => task[t].token # task[u].token
    /\ MapIsHeld
    /\ TokensApart

LEMMA TaskRun == ASSUME NEW t \in Task PROVE t[1] \in Runs
  BY DEF Task

LEMMA TokenInit == Init => TokenInv
  BY PowerAssumption DEF Init, TokenInv, InHand, Label, MapIsHeld, TokensApart

\* A step that hands no token on.
LEMMA NoHandOn ==
    ASSUME TokenInv, UNCHANGED <<assertions, held, issued>>,
           task' \in [Task -> [pc : Label, token : Nat \cup {NoToken}]],
           \A t \in Task : task'[t] = task[t] \/ task'[t].pc \notin {"insert", "release"}
    PROVE  TokenInv'
  BY DEF TokenInv, InHand, MapIsHeld, TokensApart

LEMMA TokenStep == ASSUME TokenInv, NEW t \in Task, Step(t) PROVE TokenInv'
<1>0. t[1] \in Runs /\ task \in [Task -> [pc : Label, token : Nat \cup {NoToken}]]
  BY TaskRun DEF TokenInv
<1>1. CASE Check(t)
  <2>1. \E label \in {"done", "acquire"} : task' = [task EXCEPT ![t].pc = label]
    BY <1>1 DEF Check, To
  <2>2. QED BY <1>0, <1>1, <2>1, NoHandOn DEF Check, Label
<1>2. CASE Acquire(t)
  <2>1. CASE /\ issued' = issued + 1 /\ held' = held \cup {issued + 1}
             /\ task' = [task EXCEPT ![t] = [pc |-> "insert", token |-> issued + 1]]
    <3>1. UNCHANGED assertions
      BY <1>2 DEF Acquire
    <3>2. \A n \in 1..issued : n # issued + 1 /\ n \in 1..issued'
      BY <2>1 DEF TokenInv
    <3>3. issued + 1 \in 1..issued' /\ issued + 1 # NoToken /\ issued' \in Nat
      BY <2>1, PowerAssumption DEF TokenInv
    <3>4. \A r \in Runs : assertions[r] # issued + 1
      BY <3>2, <3>3 DEF TokenInv
    <3>5. \A u \in Task : task'[u] = IF u = t THEN [pc |-> "insert", token |-> issued + 1] ELSE task[u]
      BY <1>0, <2>1
    <3>6. \A u \in Task : u # t /\ InHand(u) => task[u].token # issued + 1
      BY <3>2 DEF TokenInv
    <3>7. task' \in [Task -> [pc : Label, token : Nat \cup {NoToken}]]
      BY <1>0, <2>1 DEF Label, TokenInv
    <3>8. MapIsHeld' /\ TokensApart'
      BY <2>1, <3>1, <3>5 DEF TokenInv, MapIsHeld, TokensApart
    <3>9. QED
      BY <2>1, <3>1, <3>2, <3>3, <3>4, <3>5, <3>6, <3>7, <3>8 DEF TokenInv, InHand
  <2>2. CASE To(t, "done") /\ UNCHANGED <<held, issued>>
    BY <1>0, <1>2, <2>2, NoHandOn DEF Acquire, To, Label
  <2>3. QED BY <1>2, <2>1, <2>2 DEF Acquire
<1>3. CASE Insert(t)
  <2> DEFINE n == task[t].token
  <2>1. /\ assertions' = [assertions EXCEPT ![t[1]] = n] /\ UNCHANGED <<held, issued>>
        /\ task' = [task EXCEPT ![t].pc = "done"] /\ task[t].pc = "insert"
    BY <1>3 DEF Insert, To
  <2>2. n \in 1..issued /\ n \in held /\ \A r \in Runs : n # assertions[r]
    BY <2>1 DEF TokenInv, InHand
  <2>3. \A u \in Task : u # t /\ InHand(u) => task[u].token # n
    BY <2>1 DEF TokenInv
  <2>4. \A u \in Task : u # t => task'[u] = task[u]
    BY <1>0, <2>1
  <2>5. task'[t].pc = "done" /\ task' \in [Task -> [pc : Label, token : Nat \cup {NoToken}]]
    BY <1>0, <2>1 DEF Label
  <2>6. \A r \in Runs : assertions'[r] = IF r = t[1] THEN n ELSE assertions[r]
    BY <1>0, <2>1 DEF TokenInv
  <2>7. assertions' \in [Runs -> Nat \cup {NoToken}]
    BY <1>0, <2>1, <2>2 DEF TokenInv
  <2> HIDE DEF n
  <2>8. QED
    BY <1>0, <2>1, <2>2, <2>3, <2>4, <2>5, <2>6, <2>7 DEF TokenInv, InHand, MapIsHeld, TokensApart
<1>4. CASE Remove(t)
  <2> DEFINE n == assertions[t[1]]
  <2>1. /\ assertions' = [assertions EXCEPT ![t[1]] = NoToken] /\ UNCHANGED <<held, issued>>
        /\ task' = [task EXCEPT ![t] = IF n = NoToken THEN [pc |-> "done", token |-> NoToken]
                                       ELSE [pc |-> "release", token |-> n]]
    BY <1>4 DEF Remove
  <2>2. n \in Nat \cup {NoToken} /\ (n # NoToken => n \in 1..issued)
    BY <1>0 DEF TokenInv
  <2>3. n # NoToken => /\ \A r \in Runs : r # t[1] => assertions[r] # n
                       /\ \A u \in Task : InHand(u) => task[u].token # n
    BY <1>0 DEF TokenInv, TokensApart, InHand
  <2>4. \A u \in Task : u # t => task'[u] = task[u]
    BY <1>0, <2>1
  <2>5. /\ task' \in [Task -> [pc : Label, token : Nat \cup {NoToken}]]
        /\ task'[t].pc = "done" \/ (task'[t].pc = "release" /\ task'[t].token = n /\ n # NoToken)
    BY <1>0, <2>1, <2>2 DEF Label
  <2>6. \A r \in Runs : assertions'[r] = IF r = t[1] THEN NoToken ELSE assertions[r]
    BY <1>0, <2>1 DEF TokenInv
  <2>7. assertions' \in [Runs -> Nat \cup {NoToken}]
    BY <1>0, <2>1 DEF TokenInv
  <2>8. \A k \in 1..issued : k # NoToken
    BY PowerAssumption DEF TokenInv
  <2> HIDE DEF n
  <2>9. QED
    BY <1>0, <2>1, <2>2, <2>3, <2>4, <2>5, <2>6, <2>7, <2>8
    DEF TokenInv, InHand, MapIsHeld, TokensApart
<1>5. CASE Release(t)
  <2> DEFINE n == task[t].token
  <2>1. /\ held' = held \ {n} /\ UNCHANGED <<assertions, issued>>
        /\ task' = [task EXCEPT ![t].pc = "done"] /\ task[t].pc = "release"
    BY <1>5 DEF Release, To
  <2>2. \A r \in Runs : assertions[r] # n
    BY <2>1 DEF TokenInv, TokensApart
  <2>3. \A u \in Task : task[u].pc = "insert" => task[u].token # n
    BY <2>1 DEF TokenInv, InHand
  <2>4. \A u \in Task : u # t => task'[u] = task[u]
    BY <1>0, <2>1
  <2>5. task'[t].pc = "done" /\ task' \in [Task -> [pc : Label, token : Nat \cup {NoToken}]]
    BY <1>0, <2>1 DEF Label
  <2> HIDE DEF n
  <2>6. QED
    BY <2>1, <2>2, <2>3, <2>4, <2>5 DEF TokenInv, InHand, MapIsHeld, TokensApart
<1>6. QED
  BY <1>1, <1>2, <1>3, <1>4, <1>5 DEF Step

LEMMA TokenNext == ASSUME TokenInv, [Next]_vars PROVE TokenInv'
<1>1. ASSUME NEW r \in Runs, Forward(r) PROVE TokenInv'
  <2>1. task' \in [Task -> [pc : Label, token : Nat \cup {NoToken}]]
        /\ \A t \in Task : task'[t] = task[t] \/ task'[t].pc \notin {"insert", "release"}
    BY <1>1 DEF Forward, TokenInv, Label
  <2>2. QED BY <1>1, <2>1, NoHandOn DEF Forward
<1>2. ASSUME NEW t \in Task, Step(t) PROVE TokenInv'
  BY <1>2, TokenStep
<1>3. CASE UNCHANGED vars
  BY <1>3 DEF vars, TokenInv, InHand, MapIsHeld, TokensApart
<1>4. QED
  BY <1>1, <1>2, <1>3 DEF Next

LEMMA TokenSound == Spec => []TokenInv
<1>1. Init => TokenInv
  BY TokenInit
<1>2. TokenInv /\ [Next]_vars => TokenInv'
  BY TokenNext
<1>3. QED
  BY <1>1, <1>2, PTL DEF Spec

\* A token in the map has its child process (update_power_assertion's
\* contains_key never trusts a dead one).
THEOREM MapStaysHeld == Spec => []MapIsHeld
<1>1. TokenInv => MapIsHeld
  BY DEF TokenInv
<1>2. QED
  BY <1>1, TokenSound, PTL

\* Releasing one run's token never takes another's (update_power_assertion).
THEOREM TokensStayApart == Spec => []TokensApart
<1>1. TokenInv => TokensApart
  BY DEF TokenInv
<1>2. QED
  BY <1>1, TokenSound, PTL

===============================================================================

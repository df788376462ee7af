--------------------------- MODULE Scheduler_proofs ---------------------------
(* Theorems about Scheduler, for any schedules, slot length, drift, poll      *)
(* interval, stretch of time and number of failures.                          *)
EXTENDS Scheduler, TLAPS, FiniteSetTheorems

\* A row at rest points past its last dispatch, a tick's list names each schedule
\* once, and one that is deleted can only still stand on the list.
SchedInv ==
    /\ startedAt <= now
    /\ NextAfterLast
    /\ \A i, j \in DOMAIN due : i # j => due[i][1] # due[j][1]
    /\ \A s \in Schedules \ deleted : after[s] = 0
    /\ \A s \in deleted :
          /\ s \notin Live /\ after[s] \in {0, 1}
          /\ after[s] = 1 => \A i \in DOMAIN due : due[i][1] # s

\* Failures whose consequences are over: a stop counts once the loop has halted.
Settled == IF stopping THEN failures - 1 ELSE failures

\* The schedules the tick still has to dispatch.
Listed == {due[i][1] : i \in DOMAIN due}

\* The early dispatch of a row's slot is behind it, and the loop will not look at
\* the table again before the slot itself has come.
Awaited(s) ==
    /\ row[s].next <= now + Drift
    /\ \/ loop \in {"pick", "dispatch"} /\ s \notin Listed
       \/ loop = "sleep" /\ wake >= row[s].next

\* How often the slot of a row has been dispatched.
SlotInv(s) ==
    LET count == fired[s][row[s].next] IN
    /\ now < row[s].next => \/ count <= Settled
                            \/ count <= Settled + 1 /\ Awaited(s)
    /\ now >= row[s].next => \/ count <= Settled + 1
                             \/ count <= Settled + 2 /\ loop = "dispatch" /\ firing = s
    /\ \A t \in Slot : t > row[s].next => fired[s][t] = 0

\* Every dispatch in relation to the table, the list of the tick and the failures.
RefireInv ==
    /\ stopping => failures > 0
    /\ due # <<>> => loop \in {"pick", "dispatch"}
    /\ \A i \in DOMAIN due : LET s == due[i][1] IN
          /\ s \in Live => row[s].next = due[i][2] /\ due[i][2] <= now + Drift
          /\ s \in Live \cup deleted
          /\ fired[s][due[i][2]] <= Settled + 1
    /\ loop = "dispatch" =>
          /\ firing \in Live \cup deleted /\ firing \notin Listed
          /\ firing \in Live => row[firing].next <= now + Drift
    /\ \A s \in Schedules, t \in Slot : fired[s][t] <= Settled + 2
    /\ \A s \in Schedules \ (Live \cup deleted), t \in Slot : fired[s][t] = 0
    /\ \A s \in Live : SlotInv(s)

-------------------------------------------------------------------------------
(* The calendar and the list of a tick *)

\* The slot computed from a time lies after it (next_fire_ms).
LEMMA FireIsLater ==
    ASSUME NEW t \in Nat PROVE NextFire(t) > t /\ NextFire(t) \in Nat
<1>1. /\ Period \in Nat /\ Period > 0
  BY SchedulerAssumption
<1>2. (t \div Period + 1) * Period > t
  BY <1>1
<1>3. t \div Period + 1 \in Nat
  BY <1>1
<1>4. \A m, n \in Nat : m * n \in Nat
  OBVIOUS
<1>5. (t \div Period + 1) * Period \in Nat
  BY <1>1, <1>3, <1>4
<1>6. QED
  BY <1>2, <1>5 DEF NextFire

LEMMA SlotOfTime == ASSUME NEW t \in Time PROVE NextFire(t) \in Slot /\ t \in Nat
  BY SchedulerAssumption DEF Slot, Time

\* A scan lists schedules that are due, none of them twice.
LEMMA ScanLists ==
    ASSUME TypeOK, Scan
    PROVE  /\ due' \in Seq(Schedules \X Slot)
           /\ \A i, j \in DOMAIN due' : i # j => due'[i][1] # due'[j][1]
           /\ \A i \in DOMAIN due' : /\ due'[i][1] \in Live
                                     /\ due'[i][2] = row[due'[i][1]].next
                                     /\ due'[i][2] <= now + Drift
<1> DEFINE D == {s \in Schedules : DueNow(s)}
<1>1. IsFiniteSet(D) /\ Cardinality(D) \in Nat
  BY SchedulerAssumption, FS_Subset, FS_CardinalityType
<1>2. PICK order \in SetToSeqs(D) :
         due' = [n \in DOMAIN order |-> <<order[n], row[order[n]].next>>]
  BY DEF Scan
<1>3. /\ order \in [1..Cardinality(D) -> D]
      /\ \A i, j \in 1..Cardinality(D) : i # j => order[i] # order[j]
  BY DEF SetToSeqs
<1>4. \A s \in D : /\ s \in Schedules /\ s \in Live /\ row[s].next \in Slot
                   /\ row[s].next <= now + Drift
  BY DEF DueNow, Live, TypeOK
<1> HIDE DEF D
<1>5. PICK N \in Nat : N = Cardinality(D)
  BY <1>1
<1>6. /\ DOMAIN due' = 1..N
      /\ \A n \in 1..N : due'[n] = <<order[n], row[order[n]].next>> /\ order[n] \in D
  BY <1>2, <1>3, <1>5
<1>7. due' \in [1..N -> Schedules \X Slot]
  BY <1>2, <1>3, <1>4, <1>5
<1>8. due' \in Seq(Schedules \X Slot)
  BY <1>7
<1>9. QED
  BY <1>3, <1>4, <1>5, <1>6, <1>8

\* Slots are whole periods apart.
LEMMA Multiples ==
    ASSUME NEW a \in Nat, NEW b \in Nat, a * Period < b * Period
    PROVE  a < b
<1>1. Period \in Nat /\ a * Period \in Nat
  BY SchedulerAssumption
<1>2. \A d \in Nat : d * Period \in Nat
  BY <1>1
<1>3. a = b + (a - b) /\ (a >= b => a - b \in Nat)
  OBVIOUS
<1>4. \A d \in Nat : (b + d) * Period = b * Period + d * Period
  BY <1>1
<1>5. a >= b => a * Period = b * Period + (a - b) * Period /\ (a - b) * Period \in Nat
  BY <1>2, <1>3, <1>4
<1>6. b * Period \in Nat
  BY <1>2
<1>7. QED
  BY <1>1, <1>5, <1>6

LEMMA SlotShape == ASSUME NEW n \in Slot
                   PROVE  \E k \in Nat : n = (k + 1) * Period /\ n \in Nat
<1>1. PICK t \in Time : n = (t \div Period + 1) * Period
  BY DEF Slot, NextFire
<1>2. t \in Nat /\ t \div Period \in Nat
  BY <1>1, SchedulerAssumption DEF Time
<1>3. n \in Nat
  BY <1>1, <1>2, FireIsLater DEF NextFire
<1>4. QED BY <1>1, <1>2, <1>3

\* What is recorded before a slot that is due early is that slot again.
LEMMA SlotComesAgain ==
    ASSUME NEW n \in Slot, NEW m \in Nat, m < n, n <= m + Drift
    PROVE  NextFire(m) = n
<1>1. PICK k \in Nat : n = (k + 1) * Period /\ n \in Nat
  BY SlotShape
<1>2. PICK q \in Nat : q = m \div Period /\ q * Period <= m /\ m < (q + 1) * Period
  BY SchedulerAssumption
<1>3. Period \in Nat /\ Drift \in Nat /\ Drift < Period
  BY SchedulerAssumption
<1>4. /\ (q + 2) * Period = (q + 1) * Period + Period /\ (q + 1) * Period \in Nat
      /\ q * Period \in Nat
  BY <1>3
<1>5. q * Period < (k + 1) * Period
  BY <1>1, <1>2, <1>4
<1>6. (k + 1) * Period < (q + 2) * Period
  BY <1>1, <1>2, <1>3, <1>4
<1>7. q < k + 1 /\ k + 1 < q + 2
  BY <1>5, <1>6, Multiples
<1>8. k = q
  BY <1>7
<1>9. QED BY <1>1, <1>2, <1>8 DEF NextFire

\* The clock ends on a slot, and none lies in the drift beyond it.
LEMMA NoSlotAtTheEnd ==
    ASSUME NEW n \in Slot, n > MaxTime
    PROVE  n > MaxTime + Drift
<1>1. PICK k \in Nat : n = (k + 1) * Period /\ n \in Nat
  BY SlotShape
<1>2. PICK q \in Nat : MaxTime = q * Period
  BY SchedulerAssumption
<1>3. Period \in Nat /\ Drift \in Nat /\ Drift < Period /\ MaxTime \in Nat
  BY SchedulerAssumption
<1>4. q < k + 1
  BY <1>1, <1>2, Multiples
<1>5. (k + 1) * Period = q * Period + (k + 1 - q) * Period
  BY <1>3, <1>4
<1>6. k + 1 - q \in Nat /\ k + 1 - q >= 1
  BY <1>4
<1>7. \A d \in Nat : d >= 1 => d * Period >= Period
  BY <1>3
<1>8. QED BY <1>1, <1>2, <1>3, <1>5, <1>6, <1>7

-------------------------------------------------------------------------------
(* Types *)

LEMMA TypeInit == Init => TypeOK
<1> SUFFICES ASSUME Init PROVE TypeOK
  OBVIOUS
<1>1. now \in Time /\ startedAt \in Time /\ wake \in 0..(MaxTime + Poll) /\ failures \in 0..MaxFailures
  BY SchedulerAssumption DEF Init, Time
<1>2. due \in Seq(Schedules \X Slot)
  BY DEF Init
<1>3. /\ row \in [Schedules -> {Absent} \cup [next : Slot, last : Time]]
      /\ fired \in [Schedules -> [Slot -> Nat]] /\ after \in [Schedules -> Nat]
  BY DEF Init
<1>4. QED
  BY <1>1, <1>2, <1>3 DEF Init, TypeOK

LEMMA TypeStep == TypeOK /\ [Next]_vars => TypeOK'
<1> SUFFICES ASSUME TypeOK, [Next]_vars PROVE TypeOK'
  OBVIOUS
<1> USE DEF history
<1>0. /\ now \in Time /\ Time \subseteq Nat /\ MaxTime \in Nat /\ 0 \in Time /\ Poll \in Nat
      /\ MaxFailures \in Nat /\ Schedules \cap {Nobody} = {}
      /\ NextFire(now) \in Slot
      /\ row \in [Schedules -> {Absent} \cup [next : Slot, last : Time]]
  BY SchedulerAssumption, SlotOfTime DEF TypeOK, Time
<1>1. CASE Tick
  <2>1. now' \in Time
    BY <1>0, <1>1 DEF Tick, Time
  <2>2. QED BY <1>1, <2>1 DEF Tick, TypeOK
<1>2. ASSUME NEW s \in Schedules, Create(s) \/ Delete(s) PROVE TypeOK'
  <2>1. row' \in [Schedules -> {Absent} \cup [next : Slot, last : Time]]
    BY <1>0, <1>2 DEF Create, Delete
  <2>2. deleted' \subseteq Schedules
    BY <1>2 DEF Create, Delete, TypeOK
  <2>3. QED BY <1>2, <2>1, <2>2 DEF Create, Delete, TypeOK
<1>3. CASE Scan
  BY <1>3, ScanLists DEF Scan, TypeOK
<1>4. CASE Fire
  <2>1. Head(due)[1] \in Schedules /\ Head(due)[2] \in Slot /\ due' \in Seq(Schedules \X Slot)
    <3>1. due \in Seq(Schedules \X Slot) /\ due # <<>> /\ due' = Tail(due)
      BY <1>4 DEF Fire, TypeOK
    <3>2. Head(due) \in Schedules \X Slot
      BY <3>1
    <3>3. QED BY <3>1, <3>2
  <2>2. fired' \in [Schedules -> [Slot -> Nat]] /\ after' \in [Schedules -> Nat]
    <3>1. PICK s \in Schedules, t \in Slot :
             /\ fired' = [fired EXCEPT ![s] = [fired[s] EXCEPT ![t] = fired[s][t] + 1]]
             /\ after' = [after EXCEPT ![s] = IF s \in deleted THEN @ + 1 ELSE @]
      BY <1>4, <2>1 DEF Fire, TypeOK
    <3>2. [fired[s] EXCEPT ![t] = fired[s][t] + 1] \in [Slot -> Nat]
      BY DEF TypeOK
    <3>3. QED BY <3>1, <3>2 DEF TypeOK
  <2>3. QED BY <1>0, <1>4, <2>1, <2>2 DEF Fire, TypeOK
<1>5. CASE Record
  <2>1. row' \in [Schedules -> {Absent} \cup [next : Slot, last : Time]]
    BY <1>0, <1>5 DEF Record, TypeOK
  <2>2. QED BY <1>5, <2>1 DEF Record, TypeOK
<1>6. CASE Rest
  <2>1. wake' \in 0..(MaxTime + Poll)
    BY <1>0, <1>6 DEF Rest, Time
  <2>2. QED BY <1>6, <2>1 DEF Rest, TypeOK
<1>7. CASE Wake \/ Halt \/ Start
  BY <1>7 DEF Wake, Halt, Start, TypeOK
<1>8. CASE StatementFails \/ Stop \/ Crash
  <2>1. failures' \in 0..MaxFailures
    <3>1. failures \in Nat /\ failures < MaxFailures /\ failures' = failures + 1
      BY <1>8 DEF StatementFails, Stop, Crash, TypeOK
    <3>2. MaxFailures \in Nat
      BY <1>0
    <3>3. QED BY <3>1, <3>2
  <2>2. due' \in Seq(Schedules \X Slot) /\ firing' \in Schedules \cup {Nobody}
    <3>1. CASE Stop
      BY <3>1 DEF Stop, TypeOK
    <3>2. CASE StatementFails \/ Crash
      <4>1. due' = <<>> /\ firing' = Nobody
        BY <3>2 DEF StatementFails, Crash
      <4>2. QED BY <4>1
    <3>3. QED BY <1>8, <3>1, <3>2
  <2>3. UNCHANGED <<now, row, startedAt, wake, deleted, fired, after>>
        /\ loop' \in {loop, "dead", "down"} /\ stopping' \in BOOLEAN
    BY <1>8 DEF StatementFails, Stop, Crash, TypeOK
  <2>4. QED BY <2>1, <2>2, <2>3 DEF TypeOK
<1>9. CASE UNCHANGED vars
  BY <1>9 DEF vars, TypeOK
<1>10. QED
  BY <1>1, <1>2, <1>3, <1>4, <1>5, <1>6, <1>7, <1>8, <1>9 DEF Next, Loop, Polls

-------------------------------------------------------------------------------
(* The calendar *)

LEMMA SchedInit == Init => SchedInv
  BY DEF Init, SchedInv, NextAfterLast, Live, Absent

LEMMA SchedStep == TypeOK /\ SchedInv /\ [Next]_vars => SchedInv'
<1> SUFFICES ASSUME TypeOK, SchedInv, [Next]_vars PROVE SchedInv'
  OBVIOUS
<1> USE DEF history
<1>0. /\ now \in Nat /\ startedAt \in Nat /\ NextFire(now) > now /\ NextFire(now) \in Nat
      /\ row \in [Schedules -> {Absent} \cup [next : Slot, last : Time]]
      /\ due \in Seq(Schedules \X Slot)
      /\ after \in [Schedules -> Nat] /\ deleted \subseteq Schedules
  BY FireIsLater, SlotOfTime DEF TypeOK
<1>1. CASE Tick
  BY <1>0, <1>1 DEF Tick, SchedInv, NextAfterLast, Live
<1>2. ASSUME NEW s \in Schedules, Create(s) PROVE SchedInv'
  <2>1. /\ row'[s] = [next |-> NextFire(now), last |-> 0] /\ s \notin deleted
        /\ \A x \in Schedules : x # s => row'[x] = row[x]
        /\ UNCHANGED <<now, startedAt, due, deleted, after>>
    BY <1>0, <1>2 DEF Create
  <2>2. NextAfterLast'
    BY <1>0, <2>1 DEF SchedInv, NextAfterLast, Live
  <2>3. QED BY <1>0, <2>1, <2>2 DEF SchedInv, Live
<1>3. ASSUME NEW s \in Schedules, Delete(s) PROVE SchedInv'
  <2>1. /\ row'[s] = Absent /\ s \notin deleted /\ deleted' = deleted \cup {s}
        /\ \A x \in Schedules : x # s => row'[x] = row[x]
        /\ UNCHANGED <<now, startedAt, due, after>>
    BY <1>0, <1>3 DEF Delete, SchedInv
  <2>2. NextAfterLast'
    BY <2>1 DEF SchedInv, NextAfterLast, Live
  <2>3. QED BY <1>0, <2>1, <2>2 DEF SchedInv, Live
<1>4. CASE Scan
  <2>1. UNCHANGED <<now, startedAt, row, deleted, after>>
    BY <1>4 DEF Scan
  <2>2. /\ \A i, j \in DOMAIN due' : i # j => due'[i][1] # due'[j][1]
        /\ \A i \in DOMAIN due' : due'[i][1] \notin deleted
    BY <1>4, ScanLists DEF SchedInv
  <2>3. QED BY <2>1, <2>2 DEF SchedInv, NextAfterLast, Live
<1>5. CASE Fire
  <2>1. PICK s \in Schedules :
           /\ s = Head(due)[1] /\ due # <<>> /\ due' = Tail(due) /\ startedAt' = now
           /\ after' = [after EXCEPT ![s] = IF s \in deleted THEN @ + 1 ELSE @]
           /\ UNCHANGED <<now, row, deleted>>
    <3>1. Head(due) \in Schedules \X Slot
      BY <1>0, <1>5 DEF Fire
    <3>2. QED BY <1>5, <3>1 DEF Fire
  <2>2. /\ 1 \in DOMAIN due /\ due[1][1] = s
        /\ \A i \in DOMAIN due' : i + 1 \in DOMAIN due /\ i + 1 # 1 /\ due'[i] = due[i + 1]
    BY <1>0, <2>1
  <2>3. \A i \in DOMAIN due' : due'[i][1] # s
    BY <2>2 DEF SchedInv
  <2>4. \A i, j \in DOMAIN due' : i # j => due'[i][1] # due'[j][1]
    <3>1. DOMAIN due' \subseteq Nat
      BY <1>0, <2>1
    <3>2. \A i, j \in DOMAIN due' : i # j => i + 1 # j + 1
      BY <3>1
    <3>3. QED BY <2>2, <3>2 DEF SchedInv
  <2>5. ASSUME NEW x \in deleted
        PROVE  x \notin Live' /\ after'[x] \in {0, 1}
               /\ (after'[x] = 1 => \A i \in DOMAIN due' : due'[i][1] # x)
    <3>1. CASE x = s
      <4>1. after[s] = 0
        BY <2>2, <2>5, <3>1 DEF SchedInv
      <4>2. QED BY <1>0, <2>1, <2>3, <2>5, <3>1, <4>1 DEF SchedInv, Live
    <3>2. CASE x # s
      BY <1>0, <2>1, <2>2, <2>5, <3>2 DEF SchedInv, Live
    <3>3. QED BY <3>1, <3>2
  <2>6. \A x \in Schedules \ deleted : after'[x] = 0
    BY <1>0, <2>1 DEF SchedInv
  <2>7. QED BY <1>0, <2>1, <2>4, <2>5, <2>6 DEF SchedInv, NextAfterLast, Live
<1>6. CASE Record
  <2>1. /\ row' = [row EXCEPT ![firing] = IF firing \in Live
                   THEN [next |-> NextFire(now), last |-> startedAt] ELSE Absent]
        /\ UNCHANGED <<now, startedAt, due, deleted, after>>
    BY <1>6 DEF Record
  <2>2. ASSUME NEW x \in Schedules
        PROVE  \/ row'[x] = row[x]
               \/ row'[x] = Absent
               \/ row'[x] = [next |-> NextFire(now), last |-> startedAt] /\ x \in Live
    BY <1>0, <2>1
  <2>3. NextAfterLast'
    <3>1. NextFire(now) > startedAt
      BY <1>0 DEF SchedInv
    <3>2. QED BY <2>2, <3>1 DEF SchedInv, NextAfterLast, Live
  <2>4. \A x \in deleted : x \notin Live'
    BY <1>0, <2>2 DEF SchedInv, Live
  <2>5. QED BY <2>1, <2>3, <2>4 DEF SchedInv
<1>7. CASE Rest \/ Wake \/ Halt \/ Start \/ Stop \/ UNCHANGED vars
  <2>1. UNCHANGED <<now, startedAt, row, due, deleted, after>>
    BY <1>7 DEF Rest, Wake, Halt, Start, Stop, vars
  <2>2. QED BY <2>1 DEF SchedInv, NextAfterLast, Live
<1>8. CASE StatementFails \/ Crash
  <2>1. UNCHANGED <<now, startedAt, row, deleted, after>> /\ due' = <<>>
    BY <1>8 DEF StatementFails, Crash
  <2>2. QED BY <2>1 DEF SchedInv, NextAfterLast, Live
<1>9. QED
  BY <1>1, <1>2, <1>3, <1>4, <1>5, <1>6, <1>7, <1>8 DEF Next, Loop, Polls

-------------------------------------------------------------------------------
(* Dispatches of one slot *)

LEMMA SlotTypes ==
    ASSUME TypeOK, RefireInv
    PROVE  /\ now \in Nat /\ MaxTime \in Nat /\ Drift \in Nat /\ failures \in Nat
           /\ Settled \in Nat /\ Settled <= failures
           /\ \A s \in Live : s \in Schedules /\ row[s].next \in Slot /\ row[s].next \in Nat
           /\ \A s \in Schedules, t \in Slot : fired[s][t] \in Nat
           /\ due \in Seq(Schedules \X Slot)
<1>1. now \in Nat /\ MaxTime \in Nat /\ Drift \in Nat /\ failures \in Nat
  BY SchedulerAssumption DEF TypeOK, Time
<1>2. Settled \in Nat /\ Settled <= failures
  BY <1>1 DEF Settled, RefireInv
<1>3. \A s \in Live : s \in Schedules /\ row[s].next \in Slot
  BY DEF Live, TypeOK
<1>4. \A n \in Slot : n \in Nat
  BY SlotShape
<1>5. QED BY <1>1, <1>2, <1>3, <1>4 DEF TypeOK

\* A row that a step leaves alone.
LEMMA SlotKept ==
    ASSUME TypeOK, RefireInv, NEW s \in Live,
           row'[s] = row[s], fired'[s] = fired[s], now' \in Nat, now' >= now,
           Settled' \in Nat, Settled' >= Settled,
           Awaited(s) /\ now' < row[s].next => Awaited(s)' \/ Settled' >= Settled + 1,
           (loop = "dispatch" /\ firing = s)
              => (loop' = "dispatch" /\ firing' = s) \/ Settled' >= Settled + 1
    PROVE  SlotInv(s)'
<1>1. PICK n \in Slot, old \in Nat, new \in Nat :
        n = row[s].next /\ n \in Nat /\ old = Settled /\ new = Settled'
  BY SlotTypes
<1>2. PICK count \in Nat : count = fired[s][n]
  BY SlotTypes
<1>3. /\ now < n => \/ count <= old
                    \/ count <= old + 1 /\ Awaited(s)
      /\ now >= n => \/ count <= old + 1
                     \/ count <= old + 2 /\ loop = "dispatch" /\ firing = s
      /\ \A t \in Slot : t > n => fired[s][t] = 0
  BY <1>1, <1>2 DEF RefireInv, SlotInv
<1>4. /\ new >= old /\ now \in Nat
      /\ Awaited(s) /\ now' < n => Awaited(s)' \/ new >= old + 1
      /\ (loop = "dispatch" /\ firing = s)
            => (loop' = "dispatch" /\ firing' = s) \/ new >= old + 1
  BY <1>1, SlotTypes
<1>5. now' < n => \/ count <= new
                  \/ count <= new + 1 /\ Awaited(s)'
  BY <1>1, <1>2, <1>3, <1>4
<1>6. now' >= n => \/ count <= new + 1
                   \/ count <= new + 2 /\ loop' = "dispatch" /\ firing' = s
  <2>1. CASE now < n
    BY <1>1, <1>2, <1>3, <1>4, <2>1
  <2>2. CASE ~ (now < n)
    BY <1>1, <1>2, <1>3, <1>4, <2>2
  <2>3. QED BY <2>1, <2>2
<1>7. /\ row'[s].next = n /\ fired'[s][n] = count /\ Settled' = new
      /\ \A t \in Slot : t > n => fired'[s][t] = 0
  BY <1>1, <1>2, <1>3
<1>8. QED
  BY <1>5, <1>6, <1>7 DEF SlotInv

\* Steps that neither dispatch nor write to the table.
LEMMA RefireKept ==
    ASSUME TypeOK, RefireInv, UNCHANGED <<row, deleted, fired>>,
           now' \in Nat, now' >= now, Settled' \in Nat, Settled' >= Settled,
           stopping' => failures' > 0,
           due' \in {due, <<>>}, due' # <<>> => loop' \in {"pick", "dispatch"},
           loop' = "dispatch" => loop = "dispatch" /\ firing' = firing,
           loop = "dispatch" => loop' = "dispatch" \/ Settled' >= Settled + 1,
           \A s \in Live : Awaited(s) /\ now' < row[s].next
                             => Awaited(s)' \/ Settled' >= Settled + 1
    PROVE  RefireInv'
<1>0. /\ now \in Nat /\ Settled \in Nat /\ Drift \in Nat
      /\ \A s \in Schedules, t \in Slot : fired[s][t] \in Nat
      /\ due \in Seq(Schedules \X Slot)
      /\ \A s \in Live : s \in Schedules /\ row[s].next \in Nat
  BY SlotTypes
<1>1. Live' = Live
  BY DEF Live
<1>2. ASSUME NEW s \in Live PROVE SlotInv(s)'
  <2>1. (loop = "dispatch" /\ firing = s)
           => (loop' = "dispatch" /\ firing' = s) \/ Settled' >= Settled + 1
    OBVIOUS
  <2>2. Awaited(s) /\ now' < row[s].next => Awaited(s)' \/ Settled' >= Settled + 1
    OBVIOUS
  <2>3. QED BY <2>1, <2>2, SlotKept
<1>3. DOMAIN due' \subseteq DOMAIN due /\ \A i \in DOMAIN due' : due'[i] = due[i]
  OBVIOUS
<1>4. ASSUME NEW i \in DOMAIN due'
      PROVE  /\ due'[i][1] \in Live => row[due'[i][1]].next = due'[i][2]
                                       /\ due'[i][2] <= now' + Drift
             /\ due'[i][1] \in Live \cup deleted
             /\ fired[due'[i][1]][due'[i][2]] <= Settled' + 1
  <2>1. due[i] \in Schedules \X Slot /\ i \in DOMAIN due /\ due'[i] = due[i]
    BY <1>0, <1>3
  <2>2. PICK s \in Schedules, t \in Slot : due[i] = <<s, t>>
    BY <2>1
  <2>3. due[i][1] = s /\ due[i][2] = t /\ due'[i][1] = s /\ due'[i][2] = t
    BY <2>1, <2>2
  <2>4. /\ s \in Live => row[s].next = t /\ t <= now + Drift
        /\ s \in Live \cup deleted /\ fired[s][t] <= Settled + 1 /\ fired[s][t] \in Nat
    BY <1>0, <2>1, <2>3 DEF RefireInv
  <2>5. QED BY <1>0, <2>3, <2>4
<1>5. loop' = "dispatch" =>
          /\ firing \in Live \cup deleted /\ firing \notin Listed'
          /\ firing \in Live => row[firing].next <= now' + Drift
  <2>1. Listed' \subseteq Listed
    BY <1>3 DEF Listed
  <2>2. QED BY <1>0, <2>1 DEF RefireInv
<1>6. \A s \in Schedules, t \in Slot : fired[s][t] <= Settled' + 2
  BY <1>0 DEF RefireInv
<1>7. \A s \in Schedules \ (Live \cup deleted), t \in Slot : fired[s][t] = 0
  BY DEF RefireInv
<1>8. QED
  BY <1>1, <1>2, <1>4, <1>5, <1>6, <1>7 DEF RefireInv

\* The clock, the loop's own rests and ends, and the failures.
LEMMA QuietRefire ==
    ASSUME TypeOK, RefireInv,
           \/ Tick \/ Rest \/ Wake \/ Halt \/ Start
           \/ StatementFails \/ Stop \/ Crash \/ UNCHANGED vars
    PROVE  RefireInv'
<1> USE DEF history
<1>0. /\ now \in Nat /\ MaxTime \in Nat /\ Drift \in Nat /\ failures \in Nat /\ Poll \in Nat
      /\ Settled \in Nat /\ Settled <= failures
      /\ Drift <= Poll /\ Settled = IF stopping THEN failures - 1 ELSE failures
      /\ \A s \in Live : row[s].next \in Slot /\ row[s].next \in Nat
  BY SlotTypes, SchedulerAssumption DEF Settled
<1>1. stopping => failures > 0
  BY DEF RefireInv
<1>2. due # <<>> => loop \in {"pick", "dispatch"}
  BY DEF RefireInv
<1>3. CASE Tick
  <2>1. /\ now' = now + 1
        /\ UNCHANGED <<row, loop, due, firing, wake, stopping, failures, deleted, fired>>
    BY <1>3 DEF Tick
  <2>2. Settled' = Settled
    BY <2>1 DEF Settled
  <2>3. \A s \in Live : Awaited(s) => Awaited(s)'
    BY <1>0, <2>1 DEF Awaited, Listed
  <2>4. QED BY <1>0, <1>1, <1>2, <2>1, <2>2, <2>3, RefireKept
<1>4. CASE Rest
  <2>1. /\ loop = "pick" /\ due = <<>> /\ loop' = "sleep" /\ wake' = now + Poll
        /\ UNCHANGED <<now, row, due, firing, stopping, failures, deleted, fired>>
    BY <1>4 DEF Rest
  <2>2. Settled' = Settled
    BY <2>1 DEF Settled
  <2>3. \A s \in Live : Awaited(s) => Awaited(s)'
    BY <1>0, <2>1 DEF Awaited, Listed
  <2>4. QED BY <1>0, <1>1, <1>2, <2>1, <2>2, <2>3, RefireKept
<1>5. CASE Wake
  <2>1. /\ loop = "sleep" /\ (now >= wake \/ now = MaxTime) /\ loop' = "scan"
        /\ UNCHANGED <<now, row, due, firing, wake, stopping, failures, deleted, fired>>
    BY <1>5 DEF Wake
  <2>2. Settled' = Settled
    BY <2>1 DEF Settled
  <2>3. ASSUME NEW s \in Live, Awaited(s), now < row[s].next PROVE FALSE
    <3>1. row[s].next <= now + Drift /\ wake >= row[s].next
      BY <2>1, <2>3 DEF Awaited
    <3>2. CASE now >= wake
      <4>1. wake \in Nat
        BY <1>0 DEF TypeOK
      <4>2. QED BY <1>0, <2>3, <3>1, <3>2, <4>1
    <3>3. CASE now = MaxTime
      <4>1. row[s].next > MaxTime
        BY <1>0, <2>3, <3>3
      <4>2. row[s].next > MaxTime + Drift
        BY <1>0, <4>1, NoSlotAtTheEnd
      <4>3. QED BY <1>0, <3>1, <3>3, <4>2
    <3>4. QED BY <2>1, <3>2, <3>3
  <2>4. QED BY <1>0, <1>1, <1>2, <2>1, <2>2, <2>3, RefireKept
<1>6. CASE Halt
  <2>1. /\ stopping /\ loop \in {"scan", "sleep", "dead"} /\ loop' = "down" /\ ~stopping'
        /\ UNCHANGED <<now, row, due, firing, failures, deleted, fired>>
    BY <1>6 DEF Halt, TypeOK
  <2>2. Settled' \in Nat /\ Settled' = Settled + 1
    BY <1>0, <2>1 DEF Settled
  <2>3. QED BY <1>0, <1>1, <1>2, <2>1, <2>2, RefireKept
<1>7. CASE Start
  <2>1. /\ loop = "down" /\ loop' = "scan"
        /\ UNCHANGED <<now, row, due, firing, wake, stopping, failures, deleted, fired>>
    BY <1>7 DEF Start
  <2>2. Settled' = Settled
    BY <2>1 DEF Settled
  <2>3. \A s \in Live : ~Awaited(s)
    BY <2>1 DEF Awaited
  <2>4. QED BY <1>0, <1>1, <1>2, <2>1, <2>2, <2>3, RefireKept
<1>8. CASE StatementFails
  <2>1. /\ loop' = "dead" /\ due' = <<>> /\ failures' = failures + 1
        /\ UNCHANGED <<now, row, stopping, deleted, fired>>
    BY <1>8 DEF StatementFails
  <2>2. Settled' \in Nat /\ Settled' = Settled + 1
    BY <1>0, <2>1 DEF Settled
  <2>3. QED BY <1>0, <1>1, <1>2, <2>1, <2>2, RefireKept
<1>9. CASE Stop
  <2>1. /\ ~stopping /\ stopping' /\ failures' = failures + 1
        /\ UNCHANGED <<now, row, loop, due, firing, wake, deleted, fired>>
    BY <1>9 DEF Stop, Serving
  <2>2. Settled' = Settled
    BY <1>0, <2>1 DEF Settled
  <2>3. \A s \in Live : Awaited(s) => Awaited(s)'
    BY <2>1 DEF Awaited, Listed
  <2>4. QED BY <1>0, <1>1, <1>2, <2>1, <2>2, <2>3, RefireKept
<1>10. CASE Crash
  <2>1. /\ loop' = "down" /\ due' = <<>> /\ failures' = failures + 1 /\ ~stopping'
        /\ UNCHANGED <<now, row, deleted, fired>>
    BY <1>10 DEF Crash
  <2>2. Settled' \in Nat /\ Settled' >= Settled + 1
    BY <1>0, <2>1 DEF Settled
  <2>3. QED BY <1>0, <1>1, <1>2, <2>1, <2>2, RefireKept
<1>11. CASE UNCHANGED vars
  <2>1. UNCHANGED <<now, row, loop, due, firing, wake, stopping, failures, deleted, fired>>
    BY <1>11 DEF vars
  <2>2. Settled' = Settled
    BY <2>1 DEF Settled
  <2>3. \A s \in Live : Awaited(s) => Awaited(s)'
    BY <2>1 DEF Awaited, Listed
  <2>4. QED BY <1>0, <1>1, <1>2, <2>1, <2>2, <2>3, RefireKept
<1>12. QED
  BY <1>3, <1>4, <1>5, <1>6, <1>7, <1>8, <1>9, <1>10, <1>11

\* The list, the clock and the loop as they are: what RefireInv says of them is
\* kept if the rows listed or being dispatched are.
LEMMA ListKept ==
    ASSUME RefireInv, UNCHANGED <<now, due, loop, firing, stopping, failures, fired>>,
           \A s \in Live : s \in Live' \cup deleted',
           deleted \subseteq deleted',
           \A s \in Live \cup deleted : s \in Live' => s \in Live /\ row'[s] = row[s]
    PROVE  /\ \A i \in DOMAIN due : LET s == due[i][1] IN
                 /\ s \in Live' => row'[s].next = due[i][2] /\ due[i][2] <= now + Drift
                 /\ s \in Live' \cup deleted'
                 /\ fired[s][due[i][2]] <= Settled + 1
           /\ loop = "dispatch" =>
                 /\ firing \in Live' \cup deleted' /\ firing \notin Listed
                 /\ firing \in Live' => row'[firing].next <= now + Drift
  BY DEF RefireInv

LEMMA TableRefire ==
    ASSUME TypeOK, RefireInv, NEW x \in Schedules, Create(x) \/ Delete(x)
    PROVE  RefireInv'
<1> USE DEF history
<1>0. /\ now \in Nat /\ Settled \in Nat
      /\ row \in [Schedules -> {Absent} \cup [next : Slot, last : Time]]
      /\ \A s \in Live : s \in Schedules /\ row[s].next \in Slot /\ row[s].next \in Nat
      /\ deleted \subseteq Schedules
  BY SlotTypes DEF TypeOK
<1>1. /\ UNCHANGED <<now, due, loop, firing, wake, stopping, failures, fired>>
      /\ \A s \in Schedules : s # x => row'[s] = row[s]
      /\ deleted \subseteq deleted' /\ deleted' \subseteq deleted \cup {x}
  BY <1>0 DEF Create, Delete
<1>2. Settled' = Settled /\ Listed' = Listed
  BY <1>1 DEF Settled, Listed
<1>3. ASSUME NEW s \in Live, s # x PROVE s \in Live' /\ SlotInv(s)'
  <2>1. row'[s] = row[s] /\ fired'[s] = fired[s] /\ now' = now
    BY <1>0, <1>1, <1>3
  <2>2. s \in Live'
    BY <1>0, <2>1 DEF Live
  <2>3. Awaited(s) => Awaited(s)'
    BY <1>1, <1>2, <2>1 DEF Awaited
  <2>4. (loop = "dispatch" /\ firing = s) => (loop' = "dispatch" /\ firing' = s)
    BY <1>1
  <2>5. QED BY <1>0, <1>2, <2>1, <2>2, <2>3, <2>4, SlotKept
<1>4. CASE Create(x)
  <2>1. /\ x \notin Live \cup deleted /\ deleted' = deleted
        /\ row'[x] = [next |-> NextFire(now), last |-> 0]
    BY <1>0, <1>4 DEF Create
  <2>2. NextFire(now) \in Slot /\ NextFire(now) > now /\ NextFire(now) \in Nat
    BY <1>0, SlotOfTime, FireIsLater DEF TypeOK
  <2>3. x \in Live' /\ Live' \subseteq Live \cup {x}
    <3>1. row'[x].next = NextFire(now) /\ NextFire(now) # 0 /\ Absent.next = 0
      BY <1>0, <2>1, <2>2 DEF Absent
    <3>2. row'[x] # Absent
      BY <3>1
    <3>3. x \in Live'
      BY <3>2 DEF Live, Absent
    <3>4. \A s \in Schedules : s # x /\ s \in Live' => s \in Live
      BY <1>1 DEF Live
    <3>5. \A s \in Live' : s \in Schedules
      BY DEF Live
    <3>6. QED BY <3>3, <3>4, <3>5
  <2>4. \A t \in Slot : fired[x][t] = 0
    BY <2>1 DEF RefireInv
  <2>5. SlotInv(x)'
    <3>1. row'[x].next = NextFire(now) /\ now' = now /\ fired' = fired
      BY <1>1, <2>1
    <3>2. fired'[x][row'[x].next] = 0
      BY <2>2, <2>4, <3>1
    <3>3. now' < row'[x].next /\ ~(now' >= row'[x].next)
      BY <1>0, <2>2, <3>1
    <3>4. QED BY <1>0, <1>2, <2>4, <3>1, <3>2, <3>3 DEF SlotInv
  <2>6. \A s \in Live' : SlotInv(s)'
    BY <1>3, <2>3, <2>5
  <2>7. \A s \in Live : s \in Live' \cup deleted'
    BY <1>3, <2>1
  <2>8. \A s \in Live \cup deleted : s \in Live' => s \in Live /\ row'[s] = row[s]
    BY <1>0, <1>1, <2>1, <2>3
  <2>9. \A s \in Schedules \ (Live' \cup deleted'), t \in Slot : fired[s][t] = 0
    BY <1>3, <2>1, <2>3 DEF RefireInv
  <2>10. QED
    BY <1>1, <1>2, <2>6, <2>7, <2>8, <2>9, ListKept DEF RefireInv
<1>5. CASE Delete(x)
  <2>1. x \in Live /\ row'[x] = Absent /\ deleted' = deleted \cup {x}
    BY <1>0, <1>5 DEF Delete
  <2>2. x \notin Live' /\ Live' \subseteq Live
    BY <1>1, <2>1 DEF Live
  <2>3. \A s \in Live' : SlotInv(s)'
    BY <1>3, <2>2
  <2>4. \A s \in Live : s \in Live' \cup deleted'
    BY <1>3, <2>1
  <2>5. \A s \in Live \cup deleted : s \in Live' => s \in Live /\ row'[s] = row[s]
    BY <1>0, <1>1, <2>2
  <2>6. \A s \in Schedules \ (Live' \cup deleted'), t \in Slot : fired[s][t] = 0
    BY <2>1, <2>4 DEF RefireInv
  <2>7. QED
    BY <1>1, <1>2, <2>3, <2>4, <2>5, <2>6, ListKept DEF RefireInv
<1>6. QED BY <1>4, <1>5

LEMMA ScanRefire == ASSUME TypeOK, RefireInv, Scan PROVE RefireInv'
<1> USE DEF history
<1>0. /\ now \in Nat /\ Settled \in Nat
      /\ \A s \in Live : s \in Schedules /\ row[s].next \in Slot /\ row[s].next \in Nat
      /\ \A s \in Schedules, t \in Slot : fired[s][t] \in Nat
  BY SlotTypes
<1>1. /\ UNCHANGED <<now, row, firing, stopping, failures, deleted, fired>>
      /\ loop = "scan" /\ loop' = "pick"
  BY DEF Scan
<1>2. Settled' = Settled /\ Live' = Live
  BY <1>1 DEF Settled, Live
<1>3. ASSUME NEW s \in Live PROVE SlotInv(s)'
  <2>1. ~Awaited(s) /\ loop # "dispatch"
    BY <1>1 DEF Awaited
  <2>2. QED BY <1>0, <1>1, <1>2, <2>1, SlotKept
<1>4. ASSUME NEW i \in DOMAIN due'
      PROVE  /\ due'[i][1] \in Live
             /\ due'[i][2] = row[due'[i][1]].next /\ due'[i][2] <= now + Drift
             /\ fired[due'[i][1]][due'[i][2]] <= Settled + 1
  <2>1. PICK s \in Live : /\ due'[i][1] = s /\ due'[i][2] = row[s].next
                          /\ row[s].next <= now + Drift
    BY ScanLists
  <2>2. ~Awaited(s) /\ loop # "dispatch" /\ SlotInv(s)
    BY <1>1 DEF Awaited, RefireInv
  <2>3. fired[s][row[s].next] <= Settled + 1
    BY <1>0, <2>2 DEF SlotInv
  <2>4. QED BY <2>1, <2>3
<1>5. QED
  BY <1>1, <1>2, <1>3, <1>4 DEF RefireInv

LEMMA FireRefire == ASSUME TypeOK, SchedInv, RefireInv, Fire PROVE RefireInv'
<1> USE DEF history
<1>0. /\ now \in Nat /\ Settled \in Nat /\ Drift \in Nat
      /\ fired \in [Schedules -> [Slot -> Nat]] /\ deleted \subseteq Schedules
      /\ \A s \in Live : s \in Schedules /\ row[s].next \in Slot /\ row[s].next \in Nat
      /\ \A s \in Schedules, t \in Slot : fired[s][t] \in Nat
      /\ due \in Seq(Schedules \X Slot)
  BY SlotTypes DEF TypeOK
<1>1. /\ UNCHANGED <<now, row, wake, stopping, failures, deleted>>
      /\ loop = "pick" /\ loop' = "dispatch" /\ due # <<>> /\ due' = Tail(due)
      /\ firing' = Head(due)[1]
      /\ fired' = [fired EXCEPT ![Head(due)[1]][Head(due)[2]] = @ + 1]
  BY DEF Fire
<1>2. Settled' = Settled /\ Live' = Live
  BY <1>1 DEF Settled, Live
<1>3. PICK x \in Schedules, n \in Slot : Head(due) = <<x, n>>
  <2>1. Head(due) \in Schedules \X Slot
    BY <1>0, <1>1
  <2>2. QED BY <2>1
<1>4. /\ firing' = x /\ fired' = [fired EXCEPT ![x][n] = @ + 1]
      /\ 1 \in DOMAIN due /\ due[1] = <<x, n>> /\ due[1][1] = x /\ due[1][2] = n
      /\ \A i \in DOMAIN due' : i + 1 \in DOMAIN due /\ i + 1 # 1 /\ due'[i] = due[i + 1]
  <2>1. /\ due # <<>> /\ due' = Tail(due) /\ due \in Seq(Schedules \X Slot)
        /\ firing' = x /\ fired' = [fired EXCEPT ![x][n] = @ + 1]
    <3>1. Head(due)[1] = x /\ Head(due)[2] = n
      BY <1>3
    <3>2. QED BY <1>0, <3>1, <1>1
  <2>2. 1 \in DOMAIN due /\ due[1] = <<x, n>>
    BY <2>1, <1>3
  <2>3. \A i \in DOMAIN due' : i + 1 \in DOMAIN due /\ i + 1 # 1 /\ due'[i] = due[i + 1]
    BY <2>1
  <2>4. QED BY <2>1, <2>2, <2>3
<1>5. /\ fired'[x][n] = fired[x][n] + 1
      /\ \A t \in Slot : t # n => fired'[x][t] = fired[x][t]
      /\ \A s \in Schedules : s # x => fired'[s] = fired[s]
  BY <1>0, <1>4
<1>6. x \in Listed /\ x \notin Listed' /\ Listed' \subseteq Listed
  BY <1>4 DEF Listed, SchedInv
<1>7. /\ x \in Live => row[x].next = n /\ n <= now + Drift
      /\ x \in Live \cup deleted /\ fired[x][n] <= Settled + 1 /\ fired[x][n] \in Nat
  BY <1>0, <1>4 DEF RefireInv
<1>8. ASSUME NEW s \in Live PROVE SlotInv(s)'
  <2>1. CASE s # x
    <3>1. row'[s] = row[s] /\ fired'[s] = fired[s] /\ now' = now
      BY <1>0, <1>1, <1>5, <1>8, <2>1
    <3>2. Awaited(s) => Awaited(s)'
      BY <1>1, <1>6, <3>1 DEF Awaited
    <3>3. loop # "dispatch"
      BY <1>1
    <3>4. QED BY <1>0, <1>2, <3>1, <3>2, <3>3, SlotKept
  <2>2. CASE s = x
    <3>1. ~Awaited(x) /\ loop # "dispatch" /\ SlotInv(x)
      BY <1>1, <1>6, <1>8, <2>2 DEF Awaited, RefireInv
    <3>2. PICK old \in Nat, count \in Nat : old = Settled /\ count = fired[x][n]
      BY <1>0
    <3>3. row'[x].next = n /\ row[x].next = n /\ n \in Nat /\ n <= now + Drift
      BY <1>0, <1>1, <1>7, <1>8, <2>2
    <3>4. /\ now < n => count <= old
          /\ now >= n => count <= old + 1
          /\ \A t \in Slot : t > n => fired[x][t] = 0
      BY <3>1, <3>2, <3>3 DEF SlotInv
    <3>5. Awaited(x)'
      BY <1>1, <1>6, <3>3 DEF Awaited
    <3>6. \A t \in Slot : t \in Nat
      BY SlotShape
    <3>7. ASSUME NEW t \in Slot, t > n PROVE fired'[x][t] = 0
      <4>1. t # n
        BY <3>3, <3>6, <3>7
      <4>2. QED BY <1>5, <3>4, <3>7, <4>1
    <3>8. fired'[x][n] = count + 1 /\ Settled' = old /\ now' = now
      BY <1>1, <1>2, <1>5, <3>2
    <3>9. now' < n => fired'[x][n] <= Settled' + 1
      BY <3>2, <3>4, <3>8
    <3>10. now' >= n => fired'[x][n] <= Settled' + 2
      BY <3>2, <3>4, <3>8
    <3>11. QED
      BY <1>1, <1>4, <2>2, <3>3, <3>5, <3>7, <3>9, <3>10 DEF SlotInv
  <2>3. QED BY <2>1, <2>2
<1>9. ASSUME NEW i \in DOMAIN due'
      PROVE  /\ due'[i][1] \in Live => row[due'[i][1]].next = due'[i][2]
                                       /\ due'[i][2] <= now + Drift
             /\ due'[i][1] \in Live \cup deleted
             /\ fired'[due'[i][1]][due'[i][2]] <= Settled + 1
  <2>1. due[i + 1] \in Schedules \X Slot /\ i + 1 \in DOMAIN due /\ due'[i] = due[i + 1]
    BY <1>0, <1>4
  <2>2. PICK s \in Schedules, t \in Slot : due[i + 1] = <<s, t>>
    BY <2>1
  <2>3. /\ due[i + 1][1] = s /\ due[i + 1][2] = t /\ due'[i][1] = s /\ due'[i][2] = t
    BY <2>1, <2>2
  <2>4. s # x
    BY <1>4, <2>1, <2>3 DEF SchedInv
  <2>5. /\ s \in Live => row[s].next = t /\ t <= now + Drift
        /\ s \in Live \cup deleted /\ fired[s][t] <= Settled + 1
    BY <2>1, <2>3 DEF RefireInv
  <2>6. fired'[s][t] = fired[s][t]
    BY <1>5, <2>4
  <2>7. QED BY <2>3, <2>5, <2>6
<1>10. \A s \in Schedules, t \in Slot : fired'[s][t] <= Settled + 2
  <2>1. SUFFICES ASSUME NEW s \in Schedules, NEW t \in Slot
                 PROVE  fired'[s][t] <= Settled + 2
    OBVIOUS
  <2>2. fired[s][t] <= Settled + 2 /\ fired[s][t] \in Nat
    BY <1>0 DEF RefireInv
  <2>3. CASE s = x /\ t = n
    BY <1>0, <1>5, <1>7, <2>3
  <2>4. CASE ~(s = x /\ t = n)
    BY <1>5, <2>2, <2>4
  <2>5. QED BY <2>3, <2>4
<1>11. \A s \in Schedules \ (Live \cup deleted), t \in Slot : fired'[s][t] = 0
  BY <1>5, <1>7 DEF RefireInv
<1>12. stopping => failures > 0
  BY DEF RefireInv
<1>13. firing' \in Live \cup deleted /\ firing' \notin Listed'
  BY <1>4, <1>6, <1>7
<1>14. firing' \in Live => row[firing'].next <= now + Drift
  BY <1>4, <1>7
<1>15. QED
  BY <1>1, <1>2, <1>8, <1>9, <1>10, <1>11, <1>12, <1>13, <1>14 DEF RefireInv

LEMMA RecordRefire == ASSUME TypeOK, SchedInv, RefireInv, Record PROVE RefireInv'
<1> USE DEF history
<1>0. /\ now \in Nat /\ Settled \in Nat /\ Drift \in Nat
      /\ row \in [Schedules -> {Absent} \cup [next : Slot, last : Time]]
      /\ deleted \subseteq Schedules
      /\ \A s \in Live : s \in Schedules /\ row[s].next \in Slot /\ row[s].next \in Nat
      /\ \A s \in Schedules, t \in Slot : fired[s][t] \in Nat
      /\ NextFire(now) \in Slot /\ NextFire(now) > now /\ NextFire(now) \in Nat
  BY SlotTypes, SlotOfTime, FireIsLater DEF TypeOK
<1>1. /\ UNCHANGED <<now, due, stopping, failures, deleted, fired>>
      /\ loop = "dispatch" /\ loop' = "pick"
      /\ row' = [row EXCEPT ![firing] = IF firing \in Live
                 THEN [next |-> NextFire(now), last |-> startedAt] ELSE Absent]
  BY DEF Record
<1>2. PICK x \in Schedules : x = firing /\ x \in Live \cup deleted /\ x \notin Listed
  BY <1>0, <1>1 DEF RefireInv, Live
<1>3. /\ \A s \in Schedules : s # x => row'[s] = row[s]
      /\ x \in Live => row'[x] = [next |-> NextFire(now), last |-> startedAt]
      /\ x \notin Live => row'[x] = Absent
  BY <1>0, <1>1, <1>2
<1>4. Live' = Live
  <2>1. x \in Live => row'[x].next # 0
    BY <1>0, <1>3
  <2>2. x \in Live => row'[x] # Absent
    BY <2>1 DEF Absent
  <2>3. \A s \in Schedules : row'[s] # Absent <=> row[s] # Absent
    BY <1>3, <2>2 DEF Live
  <2>4. QED BY <2>3 DEF Live, Absent
<1>5. Settled' = Settled /\ Listed' = Listed
  BY <1>1 DEF Settled, Listed
<1>6. ASSUME NEW s \in Live PROVE SlotInv(s)'
  <2>1. CASE s # x
    <3>1. row'[s] = row[s] /\ fired'[s] = fired[s] /\ now' = now
      BY <1>0, <1>1, <1>3, <1>6, <2>1
    <3>2. Awaited(s) => Awaited(s)'
      BY <1>1, <1>5, <3>1 DEF Awaited
    <3>3. firing # s
      BY <1>2, <2>1
    <3>4. QED BY <1>0, <1>5, <3>1, <3>2, <3>3, SlotKept
  <2>2. CASE s = x
    <3>1. PICK n \in Slot, m \in Slot, old \in Nat :
             n = row[x].next /\ m = NextFire(now) /\ old = Settled
      BY <1>0, <1>6, <2>2
    <3>2. n \in Nat /\ m \in Nat /\ m > now /\ row'[x].next = m /\ n <= now + Drift
      BY <1>0, <1>1, <1>2, <1>3, <1>6, <2>2, <3>1 DEF RefireInv
    <3>3. /\ now < n => fired[x][n] <= old + 1
          /\ \A t \in Slot : t > n => fired[x][t] = 0
      BY <1>0, <1>6, <2>2, <3>1 DEF RefireInv, SlotInv
    <3>4. \A t \in Slot : t \in Nat
      BY SlotShape
    <3>5. m >= n /\ (now < n => m = n)
      <4>1. CASE now < n
        BY <1>0, <3>1, <3>2, <4>1, SlotComesAgain
      <4>2. CASE ~(now < n)
        BY <1>0, <3>2, <4>2
      <4>3. QED BY <4>1, <4>2, <3>2
    <3>6. \A t \in Slot : t > m => fired'[x][t] = 0
      BY <1>1, <3>2, <3>3, <3>4, <3>5
    <3>7. now' < m /\ ~(now' >= m) /\ Settled' = old
      BY <1>0, <1>1, <1>5, <3>1, <3>2
    <3>8. \/ fired'[x][m] <= Settled'
          \/ fired'[x][m] <= Settled' + 1 /\ Awaited(x)'
      <4>1. CASE now < n
        <5>1. m = n /\ fired'[x][m] <= Settled' + 1
          BY <1>1, <3>3, <3>5, <3>7, <4>1
        <5>2. Awaited(x)'
          BY <1>1, <1>2, <1>5, <3>2, <5>1 DEF Awaited
        <5>3. QED BY <5>1, <5>2
      <4>2. CASE ~(now < n)
        <5>1. m > n
          BY <1>0, <3>2, <4>2
        <5>2. fired'[x][m] = 0
          BY <1>1, <3>3, <5>1
        <5>3. QED BY <3>1, <3>7, <5>2
      <4>3. QED BY <4>1, <4>2
    <3>9. QED
      BY <2>2, <3>2, <3>6, <3>7, <3>8 DEF SlotInv
  <2>3. QED BY <2>1, <2>2
<1>7. ASSUME NEW i \in DOMAIN due
      PROVE  /\ due[i][1] \in Live => row'[due[i][1]].next = due[i][2]
                                       /\ due[i][2] <= now + Drift
             /\ due[i][1] \in Live \cup deleted
             /\ fired[due[i][1]][due[i][2]] <= Settled + 1
  <2>1. due[i][1] # x
    BY <1>2 DEF Listed
  <2>2. due[i][1] \in Live => row'[due[i][1]] = row[due[i][1]]
    BY <1>0, <1>3, <2>1
  <2>3. QED BY <2>2 DEF RefireInv
<1>8. /\ stopping => failures > 0
      /\ \A s \in Schedules, t \in Slot : fired[s][t] <= Settled + 2
      /\ \A s \in Schedules \ (Live \cup deleted), t \in Slot : fired[s][t] = 0
  BY DEF RefireInv
<1>9. QED
  BY <1>1, <1>4, <1>5, <1>6, <1>7, <1>8 DEF RefireInv

LEMMA RefireInit == Init => RefireInv
<1> SUFFICES ASSUME Init PROVE RefireInv
  OBVIOUS
<1>1. /\ failures = 0 /\ stopping = FALSE /\ due = <<>> /\ loop = "scan"
      /\ \A s \in Schedules : row[s] = Absent
      /\ \A s \in Schedules, t \in Slot : fired[s][t] = 0
  BY DEF Init
<1>2. Live = {} /\ Settled = 0
  BY <1>1 DEF Live, Settled
<1>3. QED
  BY <1>1, <1>2 DEF RefireInv

LEMMA RefireStep == TypeOK /\ SchedInv /\ RefireInv /\ [Next]_vars => RefireInv'
  BY TableRefire, ScanRefire, FireRefire, RecordRefire, QuietRefire DEF Next, Loop, Polls

-------------------------------------------------------------------------------
(* The theorems *)

\* The table and the loop's list keep their shapes (schedules.py).
THEOREM TypeCorrect == Spec => []TypeOK
  BY TypeInit, TypeStep, PTL DEF Spec

LEMMA SchedSound == Spec => []SchedInv
  BY SchedInit, SchedStep, TypeCorrect, PTL DEF Spec

\* However long a dispatch takes, the slot recorded after it lies beyond its
\* beginning (_fire takes next_fire_ms from the present).
THEOREM NextIsLater == Spec => []NextAfterLast
<1>1. SchedInv => NextAfterLast
  BY DEF SchedInv
<1>2. QED
  BY <1>1, SchedSound, PTL

\* A schedule deleted during a tick is dispatched at most once more, and its row
\* is not brought back by the record of that dispatch.
THEOREM DeletedStaysDeleted == Spec => []DeletedStops
<1>1. SchedInv => DeletedStops
  BY DEF SchedInv, DeletedStops
<1>2. QED
  BY <1>1, SchedSound, PTL

\* However the loop's early dispatches, its polls, the length of a dispatch and
\* the failures fall, a slot is dispatched at most twice, and once more for each
\* crash, stop or failed statement that lost the record of a dispatch (_tick,
\* _fire).
THEOREM RefiresAreFew == Spec => []FewRefires
<1>1. TypeOK /\ RefireInv => FewRefires
  <2> SUFFICES ASSUME TypeOK, RefireInv, NEW s \in Schedules, NEW t \in Slot
               PROVE  fired[s][t] <= 2 + failures
    BY DEF FewRefires
  <2>1. /\ fired[s][t] \in Nat /\ Settled \in Nat /\ failures \in Nat
        /\ Settled <= failures
    BY SlotTypes
  <2>2. fired[s][t] <= Settled + 2
    BY DEF RefireInv
  <2>3. QED BY <2>1, <2>2
<1>2. Spec => []RefireInv
  BY RefireInit, RefireStep, TypeCorrect, SchedSound, PTL DEF Spec
<1>3. QED
  BY <1>1, <1>2, TypeCorrect, PTL

===============================================================================

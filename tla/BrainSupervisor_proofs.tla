------------------------ MODULE BrainSupervisor_proofs ------------------------
(* Theorems about BrainSupervisor, for every number of calls, every stream of *)
(* notifications, every size of the buffer and of the pipes and every death   *)
(* of the brain: answers go to their own callers, and slots do not outlive    *)
(* their calls.                                                               *)
EXTENDS BrainSupervisor, TLAPS

-------------------------------------------------------------------------------
(* Types *)

LEMMA Step == ASSUME [Next]_vars
              PROVE  \/ Register \/ (\E c \in Call : Caller(c))
                     \/ Serve \/ Notify \/ LspMessage \/ Respond \/ Exit
                     \/ ReadResponse \/ ReadNote \/ ReadEof \/ UNCHANGED vars
  BY DEF Next, Reader

LEMMA HeadLine ==
    ASSUME TypeOK, stdout # <<>>
    PROVE  /\ Head(stdout) \in Line /\ Tail(stdout) \in Seq(Line)
           /\ Head(stdout).call \in Origin
           /\ Head(stdout).kind = "response" => Head(stdout).call \in Call
<1>1. Head(stdout) \in Line /\ Tail(stdout) \in Seq(Line)
  BY DEF TypeOK
<1>2. QED
  BY <1>1 DEF Line, Origin

LEMMA TypeInit == Init => TypeOK
  BY SupervisorAssumption DEF Init, TypeOK, Result, None, Line, Call, Origin

\* What a caller's steps do to the types.
LEMMA CallerTyped == ASSUME TypeOK, NEW c \in Call, Caller(c) PROVE TypeOK'
<1> USE DEF TypeOK
<1>1. CASE Subscribe(c)
  BY <1>1 DEF Subscribe
<1>2. CASE Lock(c)
  BY <1>2 DEF Lock, Origin
<1>3. CASE Write(c)
  <2>1. stdin' = Append(stdin, c) /\ UNCHANGED sub
    BY <1>3 DEF Write
  <2>2. stdin' \in Seq(Call)
    BY <2>1
  <2>3. QED BY <1>3, <2>1, <2>2 DEF Write, Origin
<1>4. CASE WriteFails(c) \/ Answered(c) \/ Timeout(c)
  <2>1. sub' = [sub EXCEPT ![c] = <<>>]
    BY <1>4 DEF WriteFails, Answered, Timeout, Return
  <2>2. sub' \in [Call -> Seq(Origin)] /\ \A d \in Call : Len(sub'[d]) <= Buffer
    BY <2>1, SupervisorAssumption
  <2>3. QED BY <1>4, <2>2 DEF WriteFails, Answered, Timeout, Return, Result, Origin
<1>5. CASE Notified(c)
  <2>1. /\ Head(sub[c]) \in Origin /\ Tail(sub[c]) \in Seq(Origin)
        /\ Len(Tail(sub[c])) <= Buffer
    BY <1>5, SupervisorAssumption DEF Notified
  <2>2. QED BY <1>5, <2>1 DEF Notified
<1>6. QED
  BY <1>1, <1>2, <1>3, <1>4, <1>5 DEF Caller

\* A receiver takes what fits, dropping its oldest.
LEMMA ReceivedIs ==
    ASSUME NEW queue \in Seq(Origin), Len(queue) <= Buffer, NEW o \in Origin
    PROVE  Received(queue, o) \in Seq(Origin) /\ Len(Received(queue, o)) <= Buffer
<1>1. CASE Len(queue) = Buffer
  <2>1. queue # <<>>
    BY <1>1, SupervisorAssumption
  <2>2. Tail(queue) \in Seq(Origin) /\ Len(Tail(queue)) = Buffer - 1
    BY <1>1, <2>1
  <2>3. QED BY <1>1, <2>2, SupervisorAssumption DEF Received
<1>2. CASE Len(queue) # Buffer
  BY <1>2, SupervisorAssumption DEF Received
<1>3. QED
  BY <1>1, <1>2

LEMMA TypeNext == ASSUME TypeOK, [Next]_vars PROVE TypeOK'
<1>1. CASE Register
  <2>1. made + 1 \in Call /\ made' \in 0..MaxCalls
    BY <1>1, SupervisorAssumption DEF Register, TypeOK, Call
  <2>2. pending' \subseteq Call
    BY <1>1, <2>1 DEF Register, TypeOK
  <2>3. QED BY <1>1, <2>1, <2>2 DEF Register, TypeOK
<1>2. ASSUME NEW c \in Call, Caller(c) PROVE TypeOK'
  BY <1>2, CallerTyped
<1>3. CASE Serve
  <2>1. Head(stdin) \in Call /\ Tail(stdin) \in Seq(Call)
    BY <1>3 DEF Serve, TypeOK
  <2>2. PICK starts \in BOOLEAN :
           brain' = [brain EXCEPT !.serves = Head(stdin), !.lsp = @ \/ starts]
    BY <1>3 DEF Serve
  <2>3. brain' \in [up : BOOLEAN, serves : Origin, lsp : BOOLEAN]
    BY <2>1, <2>2 DEF TypeOK, Origin
  <2>4. QED BY <1>3, <2>1, <2>3 DEF Serve, TypeOK
<1>4. ASSUME NEW o \in Origin, Note(o) PROVE TypeOK'
  <2>1. [kind |-> "note", call |-> o] \in Line
    BY DEF Line
  <2>2. stdout' \in Seq(Line)
    BY <1>4, <2>1 DEF Note, WriteLine, TypeOK
  <2>3. QED BY <1>4, <2>2 DEF Note, TypeOK
<1>5. CASE Notify \/ LspMessage
  BY <1>4, <1>5 DEF Notify, LspMessage, TypeOK, Origin
<1>6. CASE Respond
  <2>1. brain.serves \in Call
    BY <1>6 DEF Respond, TypeOK, Origin
  <2>2. [kind |-> "response", call |-> brain.serves] \in Line
    BY <2>1 DEF Line
  <2>3. stdout' \in Seq(Line)
    BY <1>6, <2>2 DEF Respond, WriteLine, TypeOK
  <2>4. brain' \in [up : BOOLEAN, serves : Origin, lsp : BOOLEAN]
    BY <1>6 DEF Respond, TypeOK, Origin
  <2>5. QED BY <1>6, <2>3, <2>4 DEF Respond, TypeOK
<1>7. CASE Exit
  BY <1>7 DEF Exit, TypeOK, Origin
<1>8. CASE ReadResponse
  BY <1>8, HeadLine DEF ReadResponse, TypeOK
<1>9. CASE ReadNote
  <2>1. Head(stdout).call \in Origin /\ Tail(stdout) \in Seq(Line)
    BY <1>9, HeadLine DEF ReadNote
  <2>2. \A c \in Call : /\ Received(sub[c], Head(stdout).call) \in Seq(Origin)
                        /\ Len(Received(sub[c], Head(stdout).call)) <= Buffer
    BY <2>1, ReceivedIs DEF TypeOK
  <2>3. sub' \in [Call -> Seq(Origin)] /\ \A c \in Call : Len(sub'[c]) <= Buffer
    BY <1>9, <2>2 DEF ReadNote, TypeOK
  <2>4. QED BY <1>9, <2>1, <2>3 DEF ReadNote, TypeOK
<1>10. CASE ReadEof
  BY <1>10 DEF ReadEof, TypeOK
<1>11. CASE UNCHANGED vars
  BY <1>11 DEF vars, TypeOK
<1>12. QED
  BY <1>1, <1>2, <1>3, <1>5, <1>6, <1>7, <1>8, <1>9, <1>10, <1>11, Step

\* Every reachable state is well-typed; no receiver outgrows the buffer.
THEOREM TypeCorrect == Spec => []TypeOK
<1>1. Init => TypeOK
  BY TypeInit
<1>2. TypeOK /\ [Next]_vars => TypeOK'
  BY TypeNext
<1>3. QED
  BY <1>1, <1>2, PTL DEF Spec

-------------------------------------------------------------------------------
(* Slots *)

\* A slot is filled once, by the answer to its own call or by the drain, and
\* leaves the map when it is; a call returns the slot's content or none.
SlotInv ==
    /\ \A c \in Call :
        /\ slot[c] \in {<<"empty">>, <<"eof">>, <<"answer", c>>}
        /\ slot[c] # <<"empty">> => c \notin pending
        /\ c > made => pc[c] = "new" /\ slot[c] = <<"empty">> /\ c \notin pending
        /\ pc[c] # "done" => result[c] = "none"
    /\ OwnAnswer
    /\ SlotsAreLive

LEMMA SlotInit == Init => SlotInv
  BY DEF Init, SlotInv, OwnAnswer, SlotsAreLive, Call

LEMMA SlotCaller == ASSUME TypeOK, SlotInv, NEW c \in Call, Caller(c) PROVE SlotInv'
<1> USE DEF SlotInv, OwnAnswer, SlotsAreLive, TypeOK
<1>1. CASE Subscribe(c)
  BY <1>1 DEF Subscribe
<1>2. CASE Lock(c) \/ Write(c)
  BY <1>2 DEF Lock, Write
<1>3. CASE WriteFails(c)
  BY <1>3 DEF WriteFails, Return
<1>4. CASE Answered(c)
  BY <1>4 DEF Answered, Return
<1>5. CASE Notified(c)
  BY <1>5 DEF Notified
<1>6. CASE Timeout(c)
  BY <1>6 DEF Timeout, Return
<1>7. QED
  BY <1>1, <1>2, <1>4, <1>5, <1>6, <1>3 DEF Caller

LEMMA SlotNext == ASSUME TypeOK, SlotInv, [Next]_vars PROVE SlotInv'
<1>1. CASE Register
  <2>1. made + 1 \in Call /\ made \in Nat
    BY <1>1, SupervisorAssumption DEF Register, TypeOK, Call
  <2>2. pc[made + 1] = "new" /\ slot[made + 1] = <<"empty">>
    BY <2>1 DEF SlotInv
  <2>3. \A c \in Call : c > made' => c > made /\ c # made + 1
    BY <1>1, <2>1 DEF Register, Call
  <2>4. QED BY <1>1, <2>1, <2>2, <2>3 DEF Register, SlotInv, OwnAnswer, SlotsAreLive, TypeOK
<1>2. ASSUME NEW c \in Call, Caller(c) PROVE SlotInv'
  BY <1>2, SlotCaller
<1>3. CASE Serve \/ Notify \/ LspMessage \/ Respond \/ Exit \/ ReadNote
  <2>1. UNCHANGED <<made, pc, result, pending, slot>>
    BY <1>3 DEF Serve, Notify, LspMessage, Note, Respond, Exit, ReadNote
  <2>2. QED BY <2>1 DEF SlotInv, OwnAnswer, SlotsAreLive
<1>4. CASE ReadResponse
  <2>1. PICK d \in Call : /\ d = Head(stdout).call
                          /\ pending' = pending \ {d}
                          /\ slot' = IF d \in pending THEN [slot EXCEPT ![d] = <<"answer", d>>]
                                     ELSE slot
    BY <1>4, HeadLine DEF ReadResponse
  <2>2. UNCHANGED <<made, pc, result>>
    BY <1>4 DEF ReadResponse
  <2>3. d \in pending => result[d] # "ok" /\ ~ (d > made)
    BY DEF SlotInv, SlotsAreLive
  <2>4. QED BY <2>1, <2>2, <2>3 DEF SlotInv, OwnAnswer, SlotsAreLive, TypeOK
<1>5. CASE ReadEof
  <2>1. /\ UNCHANGED <<made, pc, result>> /\ pending' = {}
        /\ \A c \in Call : slot'[c] = IF c \in pending THEN <<"eof">> ELSE slot[c]
    BY <1>5 DEF ReadEof
  <2>2. \A c \in pending : result[c] # "ok"
    BY DEF SlotInv, SlotsAreLive, TypeOK
  <2>3. \A c \in Call : result[c] = "ok" => slot'[c] = slot[c]
    BY <2>1, <2>2
  <2>4. OwnAnswer' /\ SlotsAreLive'
    BY <2>1, <2>3 DEF SlotInv, OwnAnswer, SlotsAreLive
  <2>5. \A c \in Call : slot'[c] \in {<<"empty">>, <<"eof">>, <<"answer", c>>}
    BY <2>1 DEF SlotInv
  <2>6. \A c \in Call : c > made' => pc'[c] = "new" /\ slot'[c] = <<"empty">>
    BY <2>1 DEF SlotInv
  <2>7. QED BY <2>1, <2>4, <2>5, <2>6 DEF SlotInv
<1>6. CASE UNCHANGED vars
  BY <1>6 DEF vars, SlotInv, OwnAnswer, SlotsAreLive
<1>7. QED
  BY <1>1, <1>2, <1>3, <1>4, <1>5, <1>6, Step

LEMMA SlotSound == Spec => [](TypeOK /\ SlotInv)
<1>1. Init => TypeOK /\ SlotInv
  BY TypeInit, SlotInit
<1>2. (TypeOK /\ SlotInv) /\ [Next]_vars => (TypeOK /\ SlotInv)'
  BY TypeNext, SlotNext
<1>3. QED
  BY <1>1, <1>2, PTL DEF Spec

\* A call that returns Ok returns the brain's answer to its own request
\* (reader_loop takes the slot by the id of the response).
THEOREM AnswersAreOwn == Spec => []OwnAnswer
<1>1. SlotInv => OwnAnswer
  BY DEF SlotInv
<1>2. QED
  BY <1>1, SlotSound, PTL

\* A slot lives no longer than its call, unless the call's write failed
\* (call_streaming, consume_response).
THEOREM SlotsEndWithCalls == Spec => []SlotsAreLive
<1>1. SlotInv => SlotsAreLive
  BY DEF SlotInv
<1>2. QED
  BY <1>1, SlotSound, PTL
===============================================================================

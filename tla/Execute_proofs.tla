--------------------------- MODULE Execute_proofs ---------------------------
(***************************************************************************)
(* Theorems about Execute: keys survive the way to the client and back;    *)
(* statements find the connection their binding asks for; the caller and   *)
(* the audit log are told the same; an answer holds the rows it says.      *)
(*                                                                         *)
(* There are three inductive invariants, of variables that hardly meet:    *)
(* ConnInv of the connections, AnswerInv of outcomes, answers and audit    *)
(* events, ReadInv of the rows.                                            *)
(***************************************************************************)
EXTENDS Execute, Statements_proofs

(* The key that a row of an answer shows, sent back as an argument.        *)
Bound(i) == Bindable(CelToJson(JsonToCel(ValueToJson(Number(i)))))

(* A key within i64 travels as a number, one beyond it as a string.        *)
LEMMA NarrowInt ==
    ASSUME NEW i \in Int, Fits(i)
    PROVE  Bound(i) = Number(i)
<1>1. ValueToJson(Number(i)) = Number(i)
  BY DEF ValueToJson, NarrowToJson, Is, Number
<1>2. JsonToCel(Number(i)) = [celInt |-> i]
  BY DEF JsonToCel, Is, Number
<1>3. CelToJson([celInt |-> i]) = Number(i)
  BY DEF CelToJson, Is, Number
<1>4. Bindable(Number(i)) = Number(i)
  BY DEF Bindable, Is, Number
<1>. QED
  BY <1>1, <1>2, <1>3, <1>4 DEF Bound

(* ... and neither conversion of CEL changes it.                           *)
LEMMA WideInt ==
    ASSUME NEW i \in Int, ~Fits(i)
    PROVE  Bound(i) = Digits(i)
<1>1. ValueToJson(Number(i)) = Digits(i)
  BY DEF ValueToJson, NarrowToJson, Is, Number
<1>2. JsonToCel(Digits(i)) = Digits(i)
  BY DEF JsonToCel, Is, Digits
<1>3. CelToJson(Digits(i)) = Digits(i)
  BY DEF CelToJson, Is, Digits
<1>4. Bindable(Digits(i)) = Digits(i)
  BY DEF Bindable, Is, Digits
<1>. QED
  BY <1>1, <1>2, <1>3, <1>4 DEF Bound

(* An integer key that a row of an answer showed is bound, when the client *)
(* sends it back, as a value that equals that key and no other integer:    *)
(* keys beyond i64 travel as strings and never meet a double, whatever the *)
(* widths of integers and the precision of doubles.                        *)
THEOREM KeysRoundTrip ==
    \A i, j \in Int : Equals(Number(j), Bound(i)) <=> i = j
<1>. TAKE i, j \in Int
<1>1. CASE Fits(i)
  <2>1. Bound(i) = Number(i)
    BY <1>1, NarrowInt
  <2>. QED
    BY <2>1 DEF Equals, Is, Number
<1>2. CASE ~Fits(i)
  <2>1. Bound(i) = Digits(i)
    BY <1>2, WideInt
  <2>. QED
    BY <2>1 DEF Equals, Is, Number, Digits
<1>. QED
  BY <1>1, <1>2

(* The same of the cursor that a listing takes from its last row and is    *)
(* given back for its next page, always as a string.                       *)
THEOREM CursorsRoundTrip ==
    \A i, j \in Int :
        Equals(Number(j), CursorValueToString(ValueToJson(Number(i)))) <=> i = j
<1>. TAKE i, j \in Int
<1>1. CursorValueToString(Number(i)) = Digits(i)
  BY DEF CursorValueToString, Is, Number
<1>2. CursorValueToString(Digits(i)) = Digits(i)
  BY DEF CursorValueToString, Is, Digits
<1>3. ValueToJson(Number(i)) \in {Number(i), Digits(i)}
  BY DEF ValueToJson, NarrowToJson, Is, Number
<1>4. CursorValueToString(ValueToJson(Number(i))) = Digits(i)
  BY <1>1, <1>2, <1>3
<1>5. Equals(Number(j), Digits(i)) <=> i = j
  BY DEF Equals, Is, Number, Digits
<1>. QED
  BY <1>4, <1>5

-----------------------------------------------------------------------------
(* The connections.                                                        *)

Steps ==
    [step : {"open"}, readOnly : BOOLEAN, external : BOOLEAN]
        \cup [step : {"init"}, sql : STRING] \cup [step : {"attach"}, alias : STRING]

ConnType == [done : Seq(Steps), ran : BOOLEAN]

Whole(c) == c \in ConnType /\ c.done = OpenSteps(binding)

Partial(c) ==
    /\ c \in ConnType /\ ~c.ran
    /\ Len(c.done) <= Len(OpenSteps(binding))
    /\ \A i \in 1..Len(c.done) : c.done[i] = OpenSteps(binding)[i]

ConnInv ==
    /\ binding \in Bindings
    /\ pooled # None => Whole(pooled) /\ ~InMemory
    /\ orphan # None => Whole(orphan) /\ ~InMemory
    /\ phase = "acquiring" => ~InMemory
    /\ phase = "opening" => Partial(conn)
    /\ phase \in {"ready", "reading"} => Whole(conn)

(* Three sequences of steps one after the other, the first of one step.    *)
LEMMA ThreeParts ==
    \A s, t, u \in Seq(Steps) : Len(s) = 1 =>
        /\ s \o t \o u \in Seq(Steps)
        /\ Len(s \o t \o u) = 1 + Len(t) + Len(u)
        /\ (s \o t \o u)[1] = s[1]
        /\ \A i \in 1..Len(t) : (s \o t \o u)[1 + i] = t[i]
        /\ \A i \in 1..Len(u) : (s \o t \o u)[1 + Len(t) + i] = u[i]
<1>. TAKE s, t, u \in Seq(Steps)
<1>. HAVE Len(s) = 1
<1>1. Len(t) \in Nat /\ Len(u) \in Nat
  BY LenProperties
<1>2. /\ s \o t \in Seq(Steps) /\ Len(s \o t) = 1 + Len(t)
      /\ \A i \in 1..(1 + Len(t)) : (s \o t)[i] = IF i <= 1 THEN s[i] ELSE t[i - 1]
  <2>1. Len(s \o t) = Len(s) + Len(t) /\ s \o t \in Seq(Steps)
    BY ConcatProperties
  <2>2. \A i \in 1..(Len(s) + Len(t)) :
          (s \o t)[i] = IF i <= Len(s) THEN s[i] ELSE t[i - Len(s)]
    BY ConcatProperties
  <2>. QED
    BY <2>1, <2>2
<1>3. /\ (s \o t) \o u \in Seq(Steps) /\ Len((s \o t) \o u) = (1 + Len(t)) + Len(u)
      /\ \A i \in 1..((1 + Len(t)) + Len(u)) :
            ((s \o t) \o u)[i] = IF i <= 1 + Len(t) THEN (s \o t)[i] ELSE u[i - (1 + Len(t))]
  <2> DEFINE front == s \o t
  <2>1. front \in Seq(Steps) /\ Len(front) = 1 + Len(t)
    BY <1>2
  <2>. HIDE DEF front
  <2>2. Len(front \o u) = Len(front) + Len(u) /\ front \o u \in Seq(Steps)
    BY <2>1, ConcatProperties
  <2>3. \A i \in 1..(Len(front) + Len(u)) :
          (front \o u)[i] = IF i <= Len(front) THEN front[i] ELSE u[i - Len(front)]
    BY <2>1, ConcatProperties
  <2>. QED
    BY <2>1, <2>2, <2>3 DEF front
<1>4. ASSUME NEW i \in 1..Len(t) PROVE (s \o t \o u)[1 + i] = t[i]
  <2>1. ((s \o t) \o u)[1 + i] = (s \o t)[1 + i]
    BY <1>1, <1>3
  <2>2. (s \o t)[1 + i] = t[i]
    BY <1>1, <1>2
  <2>. QED
    BY <2>1, <2>2
<1>5. ASSUME NEW i \in 1..Len(u) PROVE (s \o t \o u)[1 + Len(t) + i] = u[i]
  BY <1>1, <1>3
<1>6. (s \o t \o u)[1] = s[1]
  BY <1>1, <1>2, <1>3
<1>. QED
  BY <1>3, <1>4, <1>5, <1>6, Zenon

(* The steps of an open, one by one.                                       *)
LEMMA OpenStepsShape ==
    ASSUME NEW b \in Bindings
    PROVE  /\ OpenSteps(b) \in Seq(Steps)
           /\ Len(OpenSteps(b)) = 1 + Len(b.init_sql) + Len(b.attach)
           /\ OpenSteps(b)[1] = [step |-> "open", external |-> b.external,
                                 readOnly |-> b.read_only /\ b.database # ":memory:"]
           /\ \A i \in DOMAIN b.init_sql :
                OpenSteps(b)[1 + i] = [step |-> "init", sql |-> b.init_sql[i]]
           /\ \A i \in DOMAIN b.attach :
                OpenSteps(b)[1 + Len(b.init_sql) + i] = [step |-> "attach", alias |-> b.attach[i]]
<1> DEFINE flags == [step |-> "open", readOnly |-> b.read_only /\ b.database # ":memory:",
                     external |-> b.external]
           inits == [i \in DOMAIN b.init_sql |-> [step |-> "init", sql |-> b.init_sql[i]]]
           attaches == [i \in DOMAIN b.attach |-> [step |-> "attach", alias |-> b.attach[i]]]
<1>1. /\ Len(b.init_sql) \in Nat /\ DOMAIN b.init_sql = 1..Len(b.init_sql)
      /\ Len(b.attach) \in Nat /\ DOMAIN b.attach = 1..Len(b.attach)
  BY BindingsAssumption, LenProperties
<1>2. /\ \A i \in DOMAIN b.init_sql : b.init_sql[i] \in STRING
      /\ \A i \in DOMAIN b.attach : b.attach[i] \in STRING
  BY BindingsAssumption, ElementOfSeq, <1>1
<1>3. flags \in Steps
  BY BindingsAssumption DEF Steps
<1>4. inits \in Seq(Steps) /\ Len(inits) = Len(b.init_sql)
  <2>1. \A i \in DOMAIN b.init_sql : [step |-> "init", sql |-> b.init_sql[i]] \in Steps
    BY <1>2 DEF Steps
  <2>2. inits \in [1..Len(b.init_sql) -> Steps]
    BY <1>1, <2>1
  <2>. QED
    BY <1>1, <2>2
<1>5. attaches \in Seq(Steps) /\ Len(attaches) = Len(b.attach)
  <2>1. \A i \in DOMAIN b.attach : [step |-> "attach", alias |-> b.attach[i]] \in Steps
    BY <1>2 DEF Steps
  <2>2. attaches \in [1..Len(b.attach) -> Steps]
    BY <1>1, <2>1
  <2>. QED
    BY <1>1, <2>2
<1>6. /\ \A i \in DOMAIN b.init_sql : inits[i] = [step |-> "init", sql |-> b.init_sql[i]]
      /\ \A i \in DOMAIN b.attach : attaches[i] = [step |-> "attach", alias |-> b.attach[i]]
  OBVIOUS
<1>7. <<flags>> \in Seq(Steps) /\ Len(<<flags>>) = 1 /\ <<flags>>[1] = flags
  <2>. HIDE DEF flags
  <2>. QED
    BY <1>3
<1>8. OpenSteps(b) = <<flags>> \o inits \o attaches
  BY DEF OpenSteps
<1>9. flags = [step |-> "open", external |-> b.external,
               readOnly |-> b.read_only /\ b.database # ":memory:"]
  OBVIOUS
<1>. HIDE DEF flags, inits, attaches
<1>10. /\ OpenSteps(b) \in Seq(Steps)
       /\ Len(OpenSteps(b)) = 1 + Len(inits) + Len(attaches)
       /\ OpenSteps(b)[1] = flags
       /\ \A i \in 1..Len(inits) : OpenSteps(b)[1 + i] = inits[i]
       /\ \A i \in 1..Len(attaches) : OpenSteps(b)[1 + Len(inits) + i] = attaches[i]
  <2> DEFINE head == <<flags>>
  <2>1. head \in Seq(Steps) /\ Len(head) = 1 /\ head[1] = flags
    BY <1>7
  <2>2. OpenSteps(b) = head \o inits \o attaches
    BY <1>8
  <2>. HIDE DEF head
  <2> DEFINE whole == head \o inits \o attaches
  <2>3. /\ whole \in Seq(Steps)
        /\ Len(whole) = 1 + Len(inits) + Len(attaches)
        /\ whole[1] = head[1]
        /\ \A i \in 1..Len(inits) : whole[1 + i] = inits[i]
        /\ \A i \in 1..Len(attaches) : whole[1 + Len(inits) + i] = attaches[i]
    BY <1>4, <1>5, <2>1, ThreeParts, Zenon
  <2>4. OpenSteps(b) = whole
    BY <2>2
  <2>. HIDE DEF whole
  <2>. QED
    BY <2>1, <2>3, <2>4, Zenon
<1>11. \A i \in DOMAIN b.init_sql :
          OpenSteps(b)[1 + i] = [step |-> "init", sql |-> b.init_sql[i]]
  BY <1>1, <1>4, <1>6, <1>10
<1>12. \A i \in DOMAIN b.attach :
          OpenSteps(b)[1 + Len(b.init_sql) + i] = [step |-> "attach", alias |-> b.attach[i]]
  BY <1>1, <1>4, <1>5, <1>6, <1>10
<1>. QED
  <2>1. Len(OpenSteps(b)) = 1 + Len(b.init_sql) + Len(b.attach)
    BY <1>4, <1>5, <1>10
  <2>2. OpenSteps(b) \in Seq(Steps)
    BY <1>10
  <2>3. OpenSteps(b)[1] = [step |-> "open", external |-> b.external,
                           readOnly |-> b.read_only /\ b.database # ":memory:"]
    BY <1>10 DEF flags
  <2>. QED
    BY <2>1, <2>2, <2>3, <1>11, <1>12, Zenon

(* A step of an open adds what comes next.                                 *)
LEMMA OpenStepPartial ==
    ASSUME ConnInv, OpenStep
    PROVE  Partial(conn)'
<1> DEFINE steps == OpenSteps(binding)
<1>1. steps \in Seq(Steps) /\ Len(steps) \in Nat
  <2>1. steps \in Seq(Steps)
    BY OpenStepsShape DEF ConnInv
  <2>. QED
    BY <2>1, LenProperties
<1>2. Partial(conn) /\ Len(conn.done) < Len(steps) /\ binding' = binding
  BY DEF ConnInv, OpenStep, NotRead
<1>3. conn' = [conn EXCEPT !.done = Append(@, steps[Len(@) + 1])]
  BY DEF OpenStep
<1>. HIDE DEF steps
<1>4. Len(conn.done) \in Nat /\ conn.done \in Seq(Steps) /\ conn.ran \in BOOLEAN
  BY <1>2 DEF Partial, ConnType
<1>5. steps[Len(conn.done) + 1] \in Steps
  BY <1>1, <1>2, <1>4
<1>6. /\ conn'.done = Append(conn.done, steps[Len(conn.done) + 1])
      /\ conn'.ran = conn.ran /\ conn' = [done |-> conn'.done, ran |-> conn'.ran]
  BY <1>2, <1>3 DEF Partial, ConnType
<1>7. /\ conn'.done \in Seq(Steps) /\ Len(conn'.done) = Len(conn.done) + 1
      /\ \A i \in 1..Len(conn.done) : conn'.done[i] = conn.done[i]
      /\ conn'.done[Len(conn.done) + 1] = steps[Len(conn.done) + 1]
  BY <1>4, <1>5, <1>6, AppendProperties
<1>8. \A i \in 1..Len(conn'.done) : conn'.done[i] = steps[i]
  BY <1>2, <1>4, <1>7 DEF Partial, steps
<1>9. conn' \in ConnType /\ ~conn'.ran
  BY <1>2, <1>4, <1>6, <1>7 DEF Partial, ConnType
<1>10. Len(conn'.done) <= Len(steps)
  BY <1>1, <1>2, <1>4, <1>7
<1>. QED
  BY <1>2, <1>8, <1>9, <1>10 DEF Partial, steps

(* An open with as many steps done as there are is complete.               *)
LEMMA OpenedWhole ==
    ASSUME ConnInv, Opened
    PROVE  Whole(conn) /\ ~conn.ran
<1>1. OpenSteps(binding) \in Seq(Steps)
  BY OpenStepsShape DEF ConnInv
<1>2. Partial(conn) /\ Len(conn.done) = Len(OpenSteps(binding))
  BY DEF ConnInv, Opened
<1>3. conn.done = OpenSteps(binding)
  BY <1>1, <1>2, SeqEqual DEF Partial, ConnType
<1>. QED
  BY <1>2, <1>3 DEF Partial, Whole

(* Every step keeps the connections as they should be.                     *)
LEMMA ConnStep ==
    ConnInv /\ [Next]_vars => ConnInv'
<1>. SUFFICES ASSUME ConnInv, [Next]_vars PROVE ConnInv'
  OBVIOUS
<1>. USE DEF ConnInv, InMemory
<1>1. ASSUME NEW request \in Requests, Call(request) PROVE ConnInv'
  <2>1. phase = "idle"
    BY <1>1 DEF Call, CallUnknown, CallMalformed, CallRefused, CallExecute, CallComplete,
                CallUnconfigured, Begin
  <2>2. CASE \E what : Submit(what)
    <3>1. PICK what : Submit(what)
      BY <2>2
    <3>2. Partial(Fresh)
      <4>1. OpenSteps(binding) \in Seq(Steps)
        BY OpenStepsShape
      <4>. QED
        BY <4>1 DEF Partial, Fresh, ConnType
    <3>. QED
      BY <3>1, <3>2 DEF Submit, Whole, Partial
  <2>3. CASE NothingRun /\ phase' = "answered"
    BY <2>3 DEF NothingRun, Whole
  <2>. QED
    BY <1>1, <2>2, <2>3 DEF Call, CallUnknown, CallMalformed, CallRefused, CallExecute,
       CallComplete, CallUnconfigured, Answered
<1>2. CASE Lend
  BY <1>2 DEF Lend, NotRead, Whole
<1>3. CASE Evict
  BY <1>3 DEF Evict, NotRead, Whole
<1>4. CASE OpenPooled
  <2>1. OpenSteps(binding) \in Seq(Steps)
    BY OpenStepsShape
  <2>2. Partial(Fresh)
    BY <2>1 DEF Partial, Fresh, ConnType
  <2>. QED
    BY <1>4, <2>2 DEF OpenPooled, NotRead, Whole, Partial
<1>5. CASE OpenStep
  BY <1>5, OpenStepPartial DEF OpenStep, NotRead, Whole
<1>6. CASE Opened
  BY <1>6, OpenedWhole DEF Opened, NotRead, Whole
<1>7. CASE OpenFails
  BY <1>7 DEF OpenFails, FailsWith, Ends, NotRead, Whole
<1>8. CASE AcquireTimeout
  BY <1>8 DEF AcquireTimeout, FailsWith, Ends, NotRead, Whole
<1>9. CASE StatementTimeout
  BY <1>9 DEF StatementTimeout, FailsWith, Ends, NotRead, Whole, ConnType
<1>10. CASE OrphanEnds
  BY <1>10 DEF OrphanEnds, NotRead, Whole, Partial
<1>11. CASE Start
  BY <1>11 DEF Start, NotRead, Whole, ConnType
<1>12. CASE StatementFails
  BY <1>12 DEF StatementFails, FailsWith, Ends, Release, NotRead, Whole, ConnType
<1>13. CASE ReadNext
  BY <1>13 DEF ReadNext, Whole
<1>14. CASE ReadEnds
  BY <1>14 DEF ReadEnds, Ends, Release, NotRead, Whole, ConnType
<1>15. CASE AnswerExecute
  BY <1>15 DEF AnswerExecute, Answered, Whole
<1>16. CASE AnswerComplete
  BY <1>16 DEF AnswerComplete, Answered, Whole
<1>17. CASE NextCall
  BY <1>17 DEF NextCall, Whole
<1>18. CASE UNCHANGED vars
  BY <1>18 DEF vars, Whole, Partial
<1>. QED
  BY <1>1, <1>2, <1>3, <1>4, <1>5, <1>6, <1>7, <1>8, <1>9, <1>10, <1>11, <1>12, <1>13,
     <1>14, <1>15, <1>16, <1>17, <1>18 DEF Next

(* The invariant of the connections holds throughout.                      *)
LEMMA ConnInvariance == Spec => []ConnInv
<1>1. Init => ConnInv
  BY DEF Init, ConnInv
<1>. QED
  BY <1>1, ConnStep, PTL DEF Spec

(* Statements run on completely set up connections only: whatever fails or *)
(* times out during an open, and whatever is done with the connection      *)
(* later, for every binding.                                               *)
THEOREM StatementsFindSetup == Spec => []ConfiguredBeforeUse
<1>1. ConnInv => ConfiguredBeforeUse
  <2>. SUFFICES ASSUME ConnInv, phase \in {"ready", "reading"} PROVE ConfiguredBeforeUse
    BY DEF ConfiguredBeforeUse
  <2>1. conn.done = OpenSteps(binding) /\ binding \in Bindings
    BY DEF ConnInv, Whole
  <2>. QED
    BY <2>1, OpenStepsShape DEF ConfiguredBeforeUse
<1>. QED
  BY <1>1, ConnInvariance, PTL

-----------------------------------------------------------------------------
(* The answers.                                                            *)

AnswerInv ==
    /\ binding \in Bindings
    /\ phase = "idle" => todo = None
    /\ phase \notin {"idle", "answered"} /\ call.entry = "execute" => todo # None
    /\ phase = "ended" =>
         /\ outcome.ok \in BOOLEAN
         /\ ~outcome.ok => outcome.timer \in BOOLEAN /\ outcome.message \subseteq Markers
         /\ ~outcome.ok /\ outcome.timer => outcome.message = TimedOut
    /\ AuditMatchesAnswer
    /\ TimeoutsReported

(* An error has the kind that says whether it may be retried, and is not   *)
(* the absence of one.                                                     *)
LEMMA ErrorShape ==
    ASSUME NEW message
    PROVE  /\ ErrorEnvelope(message).error = DownstreamError(message)
           /\ DownstreamError(message) # None
           /\ DownstreamError(message).kind # "profile_not_found"
           /\ DownstreamError(message).retryable = Retryable(message)
<1>1. Retryable(message) \in BOOLEAN
  BY DEF Retryable
<1>2. ErrorKind(message) \in ErrorKinds
  BY DEF ErrorKind, ErrorKinds
<1>3. DownstreamError(message) \in [kind : ErrorKinds, retryable : BOOLEAN]
  BY <1>1, <1>2, Zenon DEF DownstreamError
<1>. QED
  BY <1>3, NoneAssumption DEF ErrorEnvelope, DownstreamError, ErrorKind

(* A BackendError is an error that may not be retried.                     *)
LEMMA RefusalShape ==
    ASSUME NEW kind \in ErrorKinds
    PROVE  /\ Refusal(kind).error # None
           /\ Refusal(kind).error.kind = kind
           /\ Refusal(kind).error.retryable = FALSE
<1> DEFINE error == [kind |-> kind, retryable |-> FALSE]
<1>1. error \in [kind : ErrorKinds, retryable : BOOLEAN]
  BY Zenon
<1>2. Refusal(kind).error = error /\ error.kind = kind /\ error.retryable = FALSE
  BY Zenon DEF Refusal
<1>. HIDE DEF error
<1>. QED
  BY <1>1, <1>2, NoneAssumption

(* What a failed statement is answered with, and what is audited of it.    *)
LEMMA FailureAnswer ==
    ASSUME NEW message
    PROVE  LET shaped == FailureShaped(message)
               events == AuditEvents(shaped.label)
           IN  /\ shaped.answer.error # None
               /\ shaped.answer.error.kind # "profile_not_found"
               /\ events \in {<<"request_timeout">>,
                               IF shaped.answer.error.retryable THEN <<"request_failed">>
                               ELSE <<"query_rejected">>}
               /\ message = TimedOut =>
                    shaped.answer.error.retryable /\ events = <<"request_timeout">>
<1> DEFINE shaped == FailureShaped(message)
<1>1. shaped.answer = ErrorEnvelope(message) /\ shaped.label = FailureLabel(message)
  BY DEF FailureShaped
<1>2. shaped.answer.error.retryable = Retryable(message)
  BY <1>1, ErrorShape
<1>3. CASE "timeout" \in message
  <2>1. AuditEvents(shaped.label) = <<"request_timeout">>
    BY <1>1, <1>3 DEF FailureLabel, AuditEvents
  <2>2. message = TimedOut => Retryable(message)
    BY DEF TimedOut, Retryable
  <2>. QED
    BY <1>1, <1>2, <2>1, <2>2, ErrorShape
<1>4. CASE "timeout" \notin message /\ Retryable(message)
  <2>1. AuditEvents(shaped.label) = <<"request_failed">>
    BY <1>1, <1>4 DEF FailureLabel, AuditEvents
  <2>. QED
    BY <1>1, <1>2, <1>4, <2>1, ErrorShape DEF TimedOut
<1>5. CASE "timeout" \notin message /\ ~Retryable(message)
  <2>1. AuditEvents(shaped.label) = <<"query_rejected">>
    BY <1>1, <1>5 DEF FailureLabel, AuditEvents
  <2>. QED
    BY <1>1, <1>2, <1>5, <2>1, ErrorShape DEF TimedOut
<1>. QED
  BY <1>3, <1>4, <1>5

(* ... and one that succeeded, on each surface.                            *)
LEMMA SuccessAnswer ==
    ASSUME NEW b \in Bindings, NEW arguments, NEW result
    PROVE  LET shaped == Shaped(b, arguments, result)
               events == AuditEvents(shaped.label)
           IN  \/ shaped.answer.error = None /\ events = << >>
               \/ /\ shaped.answer.error # None
                  /\ shaped.answer.error.kind # "profile_not_found"
                  /\ ~shaped.answer.error.retryable
                  /\ events = <<"query_rejected">>
<1> DEFINE shaped == Shaped(b, arguments, result)
           uri == ResolveResourceUri(b.uri, arguments)
<1>1. b.surface \in {"tool", "resource", "prompt"}
  BY BindingsAssumption
<1>2. AuditEvents("ok") = << >> /\ AuditEvents("duckdb_error") = <<"query_rejected">>
  BY DEF AuditEvents
<1>3. CASE b.surface = "tool"
  BY <1>2, <1>3 DEF Shaped, Envelope
<1>4. CASE b.surface = "prompt"
  BY <1>2, <1>4 DEF Shaped, PromptMessages
<1>5. CASE b.surface = "resource" /\ uri = None
  <2>1. shaped.answer = ErrorEnvelope(WithoutUri) /\ shaped.label = "duckdb_error"
    BY <1>5 DEF Shaped
  <2>2. ~Retryable(WithoutUri)
    BY DEF Retryable, WithoutUri
  <2>. QED
    BY <1>2, <2>1, <2>2, ErrorShape
<1>6. CASE b.surface = "resource" /\ uri # None
  BY <1>2, <1>6 DEF Shaped, ResourceContents
<1>. QED
  BY <1>1, <1>3, <1>4, <1>5, <1>6
(* Every step keeps caller and audit log in agreement.                     *)
LEMMA AnswerStep ==
    AnswerInv /\ [Next]_vars => AnswerInv'
<1>. SUFFICES ASSUME AnswerInv, [Next]_vars PROVE AnswerInv'
  OBVIOUS
<1>. USE DEF AnswerInv, AuditMatchesAnswer, AuditEventsFor, TimeoutsReported
<1>1. ASSUME NEW request \in Requests, CallUnknown(request) PROVE AnswerInv'
  <2>1. /\ phase' = "answered" /\ call' = request /\ todo' = None /\ binding' = binding
        /\ answer' = Refusal("profile_not_found")
        /\ request.entry = "execute" => audits' = AuditEvents("profile_not_found")
    BY <1>1 DEF CallUnknown, Begin, NothingRun, Answered
  <2>2. AuditEvents("profile_not_found") = << >>
    BY DEF AuditEvents
  <2>3. answer'.error # None /\ answer'.error.kind = "profile_not_found"
        /\ answer'.error.retryable = FALSE
    BY <2>1, RefusalShape DEF ErrorKinds
  <2>. QED
    BY <2>1, <2>2, <2>3
<1>2. ASSUME NEW request \in Requests, CallMalformed(request) PROVE AnswerInv'
  <2>1. /\ phase' = "answered" /\ todo' = None /\ binding' = binding
        /\ answer' = Refusal("invalid_spec") /\ audits' = AuditEvents("invalid_spec")
    BY <1>2 DEF CallMalformed, Begin, NothingRun, Answered
  <2>2. AuditEvents("invalid_spec") = <<"request_failed">>
    BY DEF AuditEvents
  <2>3. answer'.error # None /\ answer'.error.kind = "invalid_spec"
    BY <2>1, RefusalShape DEF ErrorKinds
  <2>. QED
    BY <2>1, <2>2, <2>3
<1>3. ASSUME NEW request \in Requests, CallRefused(request) PROVE AnswerInv'
  <2>1. PICK message \in Texts :
          /\ phase' = "answered" /\ todo' = None /\ binding' = binding
          /\ answer' = ErrorEnvelope(message) /\ audits' = AuditEvents("invalid_spec")
    BY <1>3 DEF CallRefused, Begin, NothingRun, Answered
  <2>2. AuditEvents("invalid_spec") = <<"request_failed">>
    BY DEF AuditEvents
  <2>. QED
    BY <2>1, <2>2, ErrorShape
<1>4. ASSUME NEW request \in Requests, CallExecute(request) \/ CallComplete(request)
      PROVE  AnswerInv'
  <2>1. phase' \in {"opening", "acquiring"} /\ binding' = binding /\ call' = request
    BY <1>4 DEF CallExecute, CallComplete, Submit, Begin
  <2>2. request.entry = "execute" => todo' # None
    <3>1. request.entry = "execute" =>
             /\ ~ParamsRefused(binding, request.arguments)
             /\ todo' = StatementFor(binding, request.arguments)
      BY <1>4 DEF CallExecute, CallComplete, Submit
    <3>. QED
      BY <3>1, NoneAssumption
  <2>. QED
    BY <2>1, <2>2
<1>5. ASSUME NEW request \in Requests, CallUnconfigured(request) PROVE AnswerInv'
  <2>1. phase' = "answered" /\ call'.entry = "complete" /\ binding' = binding
    BY <1>5 DEF CallUnconfigured, Begin, NothingRun, Answered
  <2>. QED
    BY <2>1
<1>6. CASE Lend \/ Evict \/ OpenPooled \/ OpenStep \/ Opened \/ Start \/ ReadNext
  BY <1>6 DEF Lend, Evict, OpenPooled, OpenStep, Opened, Start, ReadNext, NotRead
<1>7. CASE OpenFails \/ StatementFails
  <2>1. PICK message \in Texts : FailsWith(message, FALSE)
    BY <1>7 DEF OpenFails, StatementFails
  <2>2. message \subseteq Markers
    BY TextsAssumption
  <2>. QED
    BY <1>7, <2>1, <2>2 DEF OpenFails, StatementFails, FailsWith, Ends, NotRead
<1>8. CASE AcquireTimeout \/ StatementTimeout
  <2>1. /\ phase # "idle" /\ phase # "answered"
        /\ phase' = "ended" /\ UNCHANGED <<binding, call, todo>>
        /\ outcome' = [ok |-> FALSE, message |-> TimedOut, timer |-> TRUE]
    BY <1>8 DEF AcquireTimeout, StatementTimeout, FailsWith, Ends, NotRead
  <2>2. TimedOut \subseteq Markers
    BY DEF TimedOut, Markers
  <2>3. outcome'.ok = FALSE /\ outcome'.timer = TRUE /\ outcome'.message = TimedOut
    BY <2>1
  <2>. QED
    BY <2>1, <2>2, <2>3
<1>9. CASE ReadEnds
  BY <1>9 DEF ReadEnds, Ends, NotRead
<1>10. CASE OrphanEnds
  BY <1>10 DEF OrphanEnds, NotRead
<1>11. CASE AnswerExecute
  <2>1. /\ phase = "ended" /\ phase' = "answered" /\ outcome.ok \in BOOLEAN
        /\ UNCHANGED <<binding, call, todo, outcome>>
    BY <1>11 DEF AnswerExecute, Answered
  <2>2. CASE outcome.ok
    <3>1. /\ answer' = Shaped(binding, call.arguments, outcome).answer
          /\ audits' = AuditEvents(Shaped(binding, call.arguments, outcome).label)
      BY <1>11, <2>2 DEF AnswerExecute, Answered
    <3>2. \/ answer'.error = None /\ audits' = << >>
          \/ /\ answer'.error # None /\ answer'.error.kind # "profile_not_found"
             /\ ~answer'.error.retryable /\ audits' = <<"query_rejected">>
      BY <3>1, SuccessAnswer
    <3>. QED
      BY <2>1, <2>2, <3>2
  <2>3. CASE ~outcome.ok
    <3>1. /\ answer' = FailureShaped(outcome.message).answer
          /\ audits' = AuditEvents(FailureShaped(outcome.message).label)
      BY <1>11, <2>3 DEF AnswerExecute, Answered
    <3>2. /\ answer'.error # None /\ answer'.error.kind # "profile_not_found"
          /\ audits' \in {<<"request_timeout">>,
                          IF answer'.error.retryable THEN <<"request_failed">>
                          ELSE <<"query_rejected">>}
          /\ outcome.message = TimedOut =>
               answer'.error.retryable /\ audits' = <<"request_timeout">>
      BY <3>1, FailureAnswer
    <3>. QED
      BY <2>1, <2>3, <3>2
  <2>. QED
    BY <2>1, <2>2, <2>3
<1>12. CASE AnswerComplete
  BY <1>12 DEF AnswerComplete, Answered
<1>13. CASE NextCall
  BY <1>13 DEF NextCall
<1>14. CASE UNCHANGED vars
  BY <1>14 DEF vars
<1>. QED
  BY <1>1, <1>2, <1>3, <1>4, <1>5, <1>6, <1>7, <1>8, <1>9, <1>10, <1>11, <1>12, <1>13,
     <1>14 DEF Next, Call

(* The invariant of the answers holds throughout.                          *)
LEMMA AnswerInvariance == Spec => []AnswerInv
<1>1. Init => AnswerInv
  BY DEF Init, AnswerInv, AuditMatchesAnswer, TimeoutsReported
<1>. QED
  BY <1>1, AnswerStep, PTL DEF Spec

(* Every answer of execute comes with an audit event that goes with it, on *)
(* every surface and whatever the texts of the failures; which of two, for *)
(* an error of a statement, depends on whether its text holds "timeout".   *)
THEOREM AuditAgrees == Spec => []AuditMatchesAnswer
  BY AnswerInvariance, PTL DEF AnswerInv

(* A timer's failure is always reported as one, and as worth a retry.      *)
THEOREM TimersAreReported == Spec => []TimeoutsReported
  BY AnswerInvariance, PTL DEF AnswerInv
-----------------------------------------------------------------------------
(* The rows.                                                               *)

Held(n) == IF n <= MaxRows THEN n ELSE MaxRows

FirstRows(n) == [i \in 1..Held(n) |-> ReadRow(i)]

(* The statement of the call is the one its request asks for.              *)
Submitted ==
    /\ call \in Requests /\ call.payload = "JSON"
    /\ \/ /\ call.entry = "execute"
          /\ todo = StatementFor(binding, call.arguments)
       \/ /\ call.entry = "complete" /\ binding.completion # None
          /\ todo = [sql |-> binding.completion, binds |-> <<call.arguments.prefix>>]

(* The outcome is that of reading its result from the first row to the     *)
(* last, and the answer shows the rows of the outcome.                     *)
ReadAll ==
    /\ Executable(todo.sql, todo.binds)
    /\ outcome.rows = FirstRows(Len(Result)) /\ outcome.count = Len(Result)
    /\ outcome.truncated <=> Len(Result) > MaxRows

ShowsOutcome ==
    /\ call.entry = "execute" =>
         /\ answer.rows = outcome.rows
         /\ answer.shape = "envelope" =>
              answer.count = outcome.count /\ answer.truncated = outcome.truncated
    /\ call.entry = "complete" =>
         answer.rows = CompletionValues(outcome.rows,
                                        FirstColumn(ResultColumns(todo.sql), keyOrder), MaxRows)

ReadInv ==
    /\ binding \in Bindings
    /\ phase = "idle" => todo = None
    /\ phase \in {"idle", "acquiring", "opening", "ready"} => count = 0 /\ kept = << >>
    /\ phase \in {"acquiring", "opening", "ready", "reading", "ended"} => Submitted
    /\ phase = "reading" =>
         /\ Executable(todo.sql, todo.binds)
         /\ count \in 0..Len(Result) /\ kept = FirstRows(count)
    /\ phase = "ended" => outcome.ok \in BOOLEAN /\ (outcome.ok => ReadAll)
    /\ phase = "answered" /\ todo # None =>
         Submitted /\ (answer.error = None => ReadAll /\ ShowsOutcome)
    /\ phase = "answered" /\ answer.error # None => "rows" \notin DOMAIN answer

(* One more element at the end of the first n.                             *)
LEMMA AppendNext ==
    ASSUME NEW n \in Nat, NEW f
    PROVE  /\ Len([i \in 1..n |-> f[i]]) = n
           /\ Append([i \in 1..n |-> f[i]], f[n + 1]) = [i \in 1..(n + 1) |-> f[i]]
<1> DEFINE s == [i \in 1..n |-> f[i]]
           S == {f[i] : i \in 1..(n + 1)}
           t == [i \in 1..(n + 1) |-> f[i]]
<1>1. s \in Seq(S) /\ Len(s) = n
  OBVIOUS
<1>2. f[n + 1] \in S
  OBVIOUS
<1>3. t \in Seq(S) /\ Len(t) = n + 1
  OBVIOUS
<1>4. \A i \in 1..n : s[i] = f[i] /\ t[i] = f[i]
  OBVIOUS
<1>5. t[n + 1] = f[n + 1]
  OBVIOUS
<1>. HIDE DEF s, S, t
<1>6. /\ Append(s, f[n + 1]) \in Seq(S) /\ Len(Append(s, f[n + 1])) = n + 1
      /\ \A i \in 1..n : Append(s, f[n + 1])[i] = s[i]
      /\ Append(s, f[n + 1])[n + 1] = f[n + 1]
  BY <1>1, <1>2, AppendProperties
<1>7. \A i \in 1..(n + 1) : Append(s, f[n + 1])[i] = t[i]
  BY <1>4, <1>5, <1>6
<1>8. Append(s, f[n + 1]) = t
  BY <1>3, <1>6, <1>7, SeqEqual
<1>. QED
  BY <1>1, <1>8 DEF s, t

(* The cap, and the length of a result.                                    *)
LEMMA CapAndLength ==
    ASSUME ReadInv
    PROVE  /\ MaxRows \in Nat
           /\ Executable(todo.sql, todo.binds) =>
                /\ Len(Result) = Cardinality(Selected(todo.sql, todo.binds))
                /\ Len(Result) \in Nat
<1>1. MaxRows \in Nat
  BY BindingsAssumption DEF ReadInv, MaxRows
<1>2. Executable(todo.sql, todo.binds) => todo.sql.from \in DOMAIN Relations
  BY DEF Executable
<1>. QED
  BY <1>1, <1>2, ResultLength DEF Result

(* Reading a row keeps it as long as there is room.                        *)
LEMMA ReadOneMore ==
    ASSUME ReadInv, ReadNext
    PROVE  kept' = FirstRows(count + 1)
<1> DEFINE f == [i \in Nat |-> ReadRow(i)]
<1>1. /\ phase = "reading" /\ MaxRows \in Nat /\ count \in Nat
      /\ kept = FirstRows(count)
  BY CapAndLength DEF ReadInv, ReadNext
<1>2. Held(count) \in Nat
  BY <1>1 DEF Held
<1>3. /\ kept = [i \in 1..Held(count) |-> f[i]]
      /\ \A n \in Nat : ReadRow(n) = f[n]
  BY <1>1, <1>2 DEF FirstRows
<1>. HIDE DEF f
<1>4. Len(kept) = Held(count)
  BY <1>2, <1>3, AppendNext
<1>5. kept' = IF Len(kept) >= MaxRows THEN kept ELSE Append(kept, ReadRow(count + 1))
  BY DEF ReadNext
<1>6. CASE count >= MaxRows
  <2>1. kept' = kept
    BY <1>1, <1>4, <1>5, <1>6 DEF Held
  <2>2. Held(count + 1) = Held(count)
    BY <1>1, <1>6 DEF Held
  <2>. QED
    BY <1>1, <2>1, <2>2 DEF FirstRows
<1>7. CASE count < MaxRows
  <2>1. Held(count) = count /\ Held(count + 1) = count + 1
    BY <1>1, <1>7 DEF Held
  <2>2. kept' = Append(kept, f[count + 1])
    BY <1>1, <1>3, <1>4, <1>5, <1>7, <2>1
  <2>3. kept' = [i \in 1..(count + 1) |-> f[i]]
    BY <1>1, <1>3, <2>1, <2>2, AppendNext
  <2>. QED
    BY <1>1, <1>3, <2>1, <2>3 DEF FirstRows
<1>. QED
  BY <1>1, <1>6, <1>7

(* Each surface passes the rows on.                                        *)
LEMMA SurfaceRows ==
    ASSUME NEW b \in Bindings, NEW arguments, NEW result
    PROVE  LET shown == Shaped(b, arguments, result).answer
           IN  \/ /\ shown.error = None /\ shown.rows = result.rows
                  /\ shown.shape = "envelope" =>
                       shown.count = result.count /\ shown.truncated = result.truncated
               \/ shown.error # None /\ "rows" \notin DOMAIN shown
<1> DEFINE shown == Shaped(b, arguments, result).answer
           uri == ResolveResourceUri(b.uri, arguments)
<1>1. b.surface \in {"tool", "resource", "prompt"}
  BY BindingsAssumption
<1>2. CASE b.surface = "tool"
  <2>1. shown = Envelope(result)
    BY <1>2 DEF Shaped
  <2>. QED
    BY <2>1 DEF Envelope
<1>3. CASE b.surface = "prompt"
  <2>1. shown = PromptMessages(result.rows)
    BY <1>3 DEF Shaped
  <2>. QED
    BY <2>1 DEF PromptMessages
<1>4. CASE b.surface = "resource" /\ uri = None
  <2>1. shown = ErrorEnvelope(WithoutUri)
    BY <1>4 DEF Shaped
  <2>2. shown.error # None
    BY <2>1, ErrorShape
  <2>3. "rows" \notin DOMAIN shown
    BY <2>1 DEF ErrorEnvelope
  <2>. QED
    BY <2>2, <2>3
<1>5. CASE b.surface = "resource" /\ uri # None
  <2>1. shown = ResourceContents(uri, result.rows)
    BY <1>5 DEF Shaped
  <2>. QED
    BY <2>1 DEF ResourceContents
<1>. QED
  BY <1>1, <1>2, <1>3, <1>4, <1>5
(* What is read of a call depends on its binding, its request and its      *)
(* statement, and on nothing else.                                         *)
LEMMA SameStatement ==
    ASSUME UNCHANGED <<binding, call, todo>>
    PROVE  /\ Result' = Result /\ MaxRows' = MaxRows
           /\ \A n : FirstRows(n)' = FirstRows(n)
           /\ Submitted' <=> Submitted
<1>1. Result' = Result /\ MaxRows' = MaxRows
  BY DEF Result, MaxRows
<1>2. \A i : ReadRow(i)' = ReadRow(i)
  BY <1>1 DEF ReadRow
<1>3. \A n : FirstRows(n)' = FirstRows(n)
  BY <1>1, <1>2 DEF FirstRows, Held
<1>4. Submitted' <=> Submitted
  BY DEF Submitted
<1>. QED
  BY <1>1, <1>3, <1>4

(* The whole result is read when the statement ends.                       *)
LEMMA AllIsRead ==
    ASSUME ReadInv, ReadEnds
    PROVE  ReadAll'
<1>1. /\ phase = "reading" /\ count = Len(Result)
      /\ outcome' = [ok |-> TRUE, rows |-> kept, count |-> count,
                     truncated |-> count > Len(kept)]
      /\ UNCHANGED <<binding, call, todo>>
  BY DEF ReadEnds, Ends, NotRead
<1>2. /\ outcome'.rows = kept /\ outcome'.count = count
      /\ outcome'.truncated = (count > Len(kept))
  BY <1>1
<1>3. /\ Executable(todo.sql, todo.binds) /\ kept = FirstRows(Len(Result))
      /\ Len(Result) \in Nat /\ MaxRows \in Nat
  BY <1>1, CapAndLength DEF ReadInv
<1>4. Len(kept) = Held(Len(Result))
  <2>1. Held(Len(Result)) \in Nat
    BY <1>3 DEF Held
  <2>. QED
    BY <1>3, <2>1 DEF FirstRows
<1>5. count > Len(kept) <=> Len(Result) > MaxRows
  BY <1>1, <1>3, <1>4 DEF Held
<1>6. /\ Result' = Result /\ MaxRows' = MaxRows
      /\ FirstRows(Len(Result))' = FirstRows(Len(Result))
  BY <1>1, SameStatement
<1>7. Executable(todo.sql, todo.binds)'
  BY <1>1, <1>3
<1>. QED
  BY <1>1, <1>2, <1>3, <1>5, <1>6, <1>7 DEF ReadAll

(* Every step keeps the rows to the first ones of the result, and an       *)
(* answer to the rows of the outcome.                                      *)
LEMMA ReadStep ==
    ReadInv /\ [Next]_vars => ReadInv'
<1>. SUFFICES ASSUME ReadInv, [Next]_vars PROVE ReadInv'
  OBVIOUS
<1>1. CASE \E request \in Requests : CallExecute(request) \/ CallComplete(request)
  <2>1. PICK request \in Requests : CallExecute(request) \/ CallComplete(request)
    BY <1>1
  <2>2. /\ phase' \in {"opening", "acquiring"} /\ call' = request /\ phase = "idle"
        /\ UNCHANGED <<binding, count, kept>>
    BY <2>1 DEF CallExecute, CallComplete, Submit, Begin
  <2>3. Submitted'
    BY <2>1 DEF CallExecute, CallComplete, Submit, Begin, Submitted
  <2>. QED
    BY <2>2, <2>3 DEF ReadInv
<1>2. ASSUME NEW request \in Requests,
             CallUnknown(request) \/ CallMalformed(request) \/ CallRefused(request)
                 \/ CallUnconfigured(request)
      PROVE  ReadInv'
  <2>1. phase = "idle" /\ phase' = "answered" /\ UNCHANGED <<binding, todo>>
    BY <1>2 DEF CallUnknown, CallMalformed, CallRefused, CallUnconfigured, Begin, NothingRun,
                Answered
  <2>2. answer'.error # None => "rows" \notin DOMAIN answer'
    <3>1. CASE CallUnconfigured(request)
      BY <3>1 DEF CallUnconfigured, Answered, Candidates
    <3>2. CASE ~CallUnconfigured(request)
      <4>1. answer' \in {Refusal("profile_not_found"), Refusal("invalid_spec")}
              \/ \E message \in Texts : answer' = ErrorEnvelope(message)
        BY <1>2, <3>2 DEF CallUnknown, CallMalformed, CallRefused, Answered
      <4>. QED
        BY <4>1 DEF Refusal, ErrorEnvelope
    <3>. QED
      BY <3>1, <3>2
  <2>. QED
    BY <2>1, <2>2 DEF ReadInv
<1>3. CASE Lend \/ Evict \/ OpenPooled \/ OpenStep \/ Opened
  <2>1. /\ phase \in {"acquiring", "opening"} /\ phase' \in {"acquiring", "opening", "ready"}
        /\ UNCHANGED <<binding, call, todo, count, kept>>
    BY <1>3 DEF Lend, Evict, OpenPooled, OpenStep, Opened, NotRead
  <2>2. Submitted'
    BY <2>1, SameStatement DEF ReadInv
  <2>. QED
    BY <2>1, <2>2 DEF ReadInv
<1>4. CASE OpenFails \/ StatementFails \/ AcquireTimeout \/ StatementTimeout
  <2>1. /\ phase \in {"acquiring", "opening", "ready", "reading"} /\ phase' = "ended"
        /\ outcome'.ok = FALSE /\ UNCHANGED <<binding, call, todo>>
    BY <1>4 DEF OpenFails, StatementFails, AcquireTimeout, StatementTimeout, FailsWith, Ends,
                NotRead
  <2>2. Submitted'
    BY <2>1, SameStatement DEF ReadInv
  <2>. QED
    BY <2>1, <2>2 DEF ReadInv
<1>5. CASE OrphanEnds \/ UNCHANGED vars
  <2>1. UNCHANGED <<binding, keyOrder, phase, call, todo, count, kept, outcome, answer>>
    BY <1>5 DEF OrphanEnds, NotRead, vars
  <2>2. /\ Result' = Result /\ MaxRows' = MaxRows /\ (Submitted' <=> Submitted)
        /\ \A i : ReadRow(i)' = ReadRow(i)
    BY <2>1, SameStatement DEF ReadRow
  <2>3. /\ FirstRows(count)' = FirstRows(count)
        /\ FirstRows(Len(Result))' = FirstRows(Len(Result))
    BY <2>1, <2>2 DEF FirstRows, Held
  <2>4. (ReadAll' <=> ReadAll) /\ (ShowsOutcome' <=> ShowsOutcome)
    BY <2>1, <2>2, <2>3 DEF ReadAll, ShowsOutcome
  <2>. QED
    BY <2>1, <2>2, <2>3, <2>4 DEF ReadInv
<1>6. CASE Start
  <2>1. /\ phase = "ready" /\ phase' = "reading" /\ Executable(todo.sql, todo.binds)
        /\ UNCHANGED <<binding, call, todo, count, kept>>
    BY <1>6 DEF Start, NotRead
  <2>2. Result' = Result /\ Submitted' /\ FirstRows(0)' = FirstRows(0)
    BY <2>1, SameStatement DEF ReadInv
  <2>3. count = 0 /\ kept = << >> /\ MaxRows \in Nat /\ Len(Result) \in Nat
    BY <2>1, CapAndLength DEF ReadInv
  <2>4. FirstRows(0) = << >>
    BY <2>3 DEF FirstRows, Held
  <2>5. Executable(todo.sql, todo.binds)'
    BY <2>1
  <2>. QED
    BY <2>1, <2>2, <2>3, <2>4, <2>5 DEF ReadInv
<1>7. CASE ReadNext
  <2>1. /\ phase = "reading" /\ phase' = "reading" /\ count' = count + 1
        /\ count < Len(Result) /\ UNCHANGED <<binding, call, todo>>
    BY <1>7 DEF ReadNext
  <2>2. kept' = FirstRows(count + 1)
    BY <1>7, ReadOneMore
  <2>3. count \in Nat /\ Len(Result) \in Nat /\ Executable(todo.sql, todo.binds)
    BY <2>1, CapAndLength DEF ReadInv
  <2>4. /\ Result' = Result /\ Submitted'
        /\ FirstRows(count)' = FirstRows(count + 1)
    <3>1. \A n : FirstRows(n)' = FirstRows(n)
      BY <2>1, SameStatement
    <3>2. MaxRows' = MaxRows /\ Result' = Result /\ Submitted'
      BY <2>1, SameStatement DEF ReadInv
    <3>3. \A i : ReadRow(i)' = ReadRow(i)
      BY <2>1, <3>2 DEF ReadRow
    <3>4. FirstRows(count)' = FirstRows(count + 1)
      BY <2>1, <3>2, <3>3 DEF FirstRows, Held
    <3>. QED
      BY <3>2, <3>4
  <2>5. Executable(todo.sql, todo.binds)'
    BY <2>1, <2>3
  <2>. QED
    BY <2>1, <2>2, <2>3, <2>4, <2>5 DEF ReadInv
<1>8. CASE ReadEnds
  <2>1. /\ phase = "reading" /\ phase' = "ended" /\ outcome'.ok = TRUE
        /\ UNCHANGED <<binding, call, todo>>
    BY <1>8 DEF ReadEnds, Ends, NotRead
  <2>2. Submitted' /\ ReadAll'
    BY <1>8, <2>1, SameStatement, AllIsRead DEF ReadInv
  <2>. QED
    BY <2>1, <2>2 DEF ReadInv
<1>9. CASE AnswerExecute \/ AnswerComplete
  <2>1. /\ phase = "ended" /\ phase' = "answered" /\ outcome.ok \in BOOLEAN
        /\ binding \in Bindings
        /\ UNCHANGED <<binding, keyOrder, call, todo, outcome>>
    BY <1>9 DEF AnswerExecute, AnswerComplete, Answered, ReadInv
  <2>2. Submitted' /\ MaxRows' = MaxRows
    BY <2>1, SameStatement DEF ReadInv
  <2>3. outcome.ok => ReadAll'
    <3>1. outcome.ok => ReadAll
      BY <2>1 DEF ReadInv
    <3>2. /\ Result' = Result /\ MaxRows' = MaxRows
          /\ FirstRows(Len(Result))' = FirstRows(Len(Result))
      BY <2>1, SameStatement
    <3>. QED
      BY <2>1, <3>1, <3>2 DEF ReadAll
  <2>4. CASE ~outcome.ok
    <3>1. answer' = ErrorEnvelope(outcome.message) \/ answer' = Refusal("transport")
      BY <1>9, <2>4 DEF AnswerExecute, AnswerComplete, Answered, FailureShaped
    <3>2. answer'.error # None
      <4>1. ErrorEnvelope(outcome.message).error # None
        BY ErrorShape
      <4>2. Refusal("transport").error # None
        BY RefusalShape DEF ErrorKinds
      <4>. QED
        BY <3>1, <4>1, <4>2
    <3>3. "rows" \notin DOMAIN answer'
      BY <3>1 DEF ErrorEnvelope, Refusal
    <3>. QED
      BY <2>1, <2>2, <3>2, <3>3 DEF ReadInv
  <2>5. CASE outcome.ok /\ AnswerExecute
    <3>1. answer' = Shaped(binding, call.arguments, outcome).answer /\ call.entry = "execute"
      BY <2>5 DEF AnswerExecute, Answered
    <3>2. \/ /\ answer'.error = None /\ answer'.rows = outcome.rows
             /\ answer'.shape = "envelope" =>
                  answer'.count = outcome.count /\ answer'.truncated = outcome.truncated
          \/ answer'.error # None /\ "rows" \notin DOMAIN answer'
      BY <2>1, <3>1, SurfaceRows
    <3>3. answer'.error = None => ShowsOutcome'
      BY <2>1, <3>1, <3>2 DEF ShowsOutcome
    <3>. QED
      BY <2>1, <2>2, <2>3, <2>5, <3>2, <3>3 DEF ReadInv
  <2>6. CASE outcome.ok /\ AnswerComplete
    <3> DEFINE values == CompletionValues(outcome.rows,
                                          FirstColumn(ResultColumns(todo.sql), keyOrder), MaxRows)
    <3>1. answer' = Candidates(values) /\ call.entry = "complete"
      BY <2>6 DEF AnswerComplete, Answered
    <3>2. values' = values
      BY <2>1, <2>2
    <3>. HIDE DEF values
    <3>3. answer'.rows = values /\ answer'.error = None
      BY <3>1 DEF Candidates
    <3>4. ShowsOutcome'
      BY <2>1, <3>1, <3>2, <3>3 DEF ShowsOutcome, values
    <3>. QED
      BY <2>1, <2>2, <2>3, <2>6, <3>3, <3>4 DEF ReadInv
  <2>. QED
    BY <1>9, <2>1, <2>4, <2>5, <2>6
<1>10. CASE NextCall
  BY <1>10 DEF NextCall, ReadInv
<1>. QED
  BY <1>1, <1>2, <1>3, <1>4, <1>5, <1>6, <1>7, <1>8, <1>9, <1>10 DEF Next, Call

(* The invariant of the rows holds throughout.                             *)
LEMMA ReadInvariance == Spec => []ReadInv
<1>1. Init => ReadInv
  BY DEF Init, ReadInv
<1>. QED
  BY <1>1, ReadStep, PTL DEF Spec

(* Whatever the statement, its result, the cap and the surface, an answer  *)
(* of execute holds exactly the first rows of the result, the envelope the *)
(* exact number of all of them, and no error comes with rows.              *)
THEOREM AnswersAreWhole == Spec => []WholeAnswer
<1>1. ReadInv => WholeAnswer
  <2>. SUFFICES ASSUME ReadInv PROVE WholeAnswer
    OBVIOUS
  <2>1. ASSUME Succeeded("execute")
        PROVE  /\ answer.rows = FirstRows(Len(Result)) /\ MaxRows = binding.max_rows
               /\ answer.shape = "envelope" =>
                    answer.count = Len(Result) /\ (answer.truncated <=> Len(Result) > MaxRows)
    BY <2>1 DEF Succeeded, ReadInv, ReadAll, ShowsOutcome, MaxRows
  <2>. QED
    BY <2>1 DEF WholeAnswer, ReadInv, FirstRows, Held
<1>. QED
  BY <1>1, ReadInvariance, PTL
-----------------------------------------------------------------------------
(* Types.                                                                  *)

TypeInv ==
    /\ keyOrder \in {"inserted", "byName"}
    /\ phase \in {"idle", "acquiring", "opening", "ready", "reading", "ended", "answered"}
    /\ call \in Requests \cup {None}
    /\ phase \notin {"opening", "ready", "reading"} => conn = None
    /\ count \in Nat
    /\ \E S : kept \in Seq(S)
    /\ phase = "reading" => Len(kept) <= MaxRows
    /\ Len(kept) <= count
    /\ Len(audits) <= 1

(* What agrees with the first elements of a sequence is a prefix of it.    *)
LEMMA IsPrefix ==
    ASSUME NEW S, NEW s \in Seq(S), NEW t \in Seq(S), Len(t) <= Len(s),
           \A i \in 1..Len(t) : t[i] = s[i]
    PROVE  t \in Prefixes(s)
<1>1. Len(s) \in Nat /\ Len(t) \in Nat
  BY LenProperties
<1>2. SubSeq(s, 1, Len(t)) = t
  <2>1. /\ SubSeq(s, 1, Len(t)) \in Seq(S) /\ Len(SubSeq(s, 1, Len(t))) = Len(t)
        /\ \A i \in 1..Len(t) : SubSeq(s, 1, Len(t))[i] = s[i]
    BY <1>1
  <2>. QED
    BY <2>1, SeqEqual
<1>3. Len(t) \in 0..Len(s)
  BY <1>1
<1>4. SubSeq(s, 1, Len(t)) \in Prefixes(s)
  BY <1>3, Zenon DEF Prefixes
<1>. QED
  BY <1>2, <1>4, Zenon

(* A connection set up in part or as a whole has the type of one.          *)
LEMMA ConnectionTypes ==
    ASSUME ConnInv
    PROVE  \A c : Whole(c) \/ Partial(c) => c \in Connections
<1>. TAKE c
<1>. HAVE Whole(c) \/ Partial(c)
<1>1. OpenSteps(binding) \in Seq(Steps) /\ Len(OpenSteps(binding)) \in Nat
  <2>1. OpenSteps(binding) \in Seq(Steps)
    BY OpenStepsShape DEF ConnInv
  <2>. QED
    BY <2>1, LenProperties
<1>2. c \in ConnType
  BY DEF Whole, Partial
<1>3. /\ c.done \in Seq(Steps) /\ Len(c.done) <= Len(OpenSteps(binding))
      /\ \A i \in 1..Len(c.done) : c.done[i] = OpenSteps(binding)[i]
  BY <1>1, <1>2 DEF Whole, Partial, ConnType
<1>4. c.done \in Prefixes(OpenSteps(binding))
  BY <1>1, <1>3, IsPrefix
<1>. QED
  BY <1>2, <1>4 DEF Connections, ConnType

(* One audit event at most.                                                *)
LEMMA OneEvent ==
    \A label : Len(AuditEvents(label)) <= 1
<1>1. \A label : AuditEvents(label) \in
             {<< >>, <<"request_timeout">>, <<"request_failed">>, <<"query_rejected">>}
  BY DEF AuditEvents
<1>2. Len(<< >>) = 0
  OBVIOUS
<1>3. /\ Len(<<"request_timeout">>) = 1 /\ Len(<<"request_failed">>) = 1
      /\ Len(<<"query_rejected">>) = 1
  OBVIOUS
<1>4. \A n \in {0, 1} : n <= 1
  OBVIOUS
<1>5. \A label : Len(AuditEvents(label)) \in {0, 1}
  BY <1>1, <1>2, <1>3, Zenon
<1>. QED
  BY <1>4, <1>5, Zenon

(* What the readers of rows change, and what they leave in type.           *)
LEMMA TypeStep ==
    TypeInv /\ ReadInv /\ [Next]_vars => TypeInv'
<1>. SUFFICES ASSUME TypeInv, ReadInv, [Next]_vars PROVE TypeInv'
  OBVIOUS
<1>. USE DEF TypeInv
<1>1. CASE \E request \in Requests : CallExecute(request) \/ CallComplete(request)
  BY <1>1 DEF CallExecute, CallComplete, Begin, Submit
<1>2. CASE \E request \in Requests :
             \/ CallUnknown(request) \/ CallMalformed(request)
             \/ CallRefused(request) \/ CallUnconfigured(request)
  <2>1. PICK request \in Requests :
             \/ CallUnknown(request) \/ CallMalformed(request)
             \/ CallRefused(request) \/ CallUnconfigured(request)
    BY <1>2
  <2>2. /\ phase = "idle" /\ phase' = "answered" /\ call' = request
        /\ UNCHANGED <<keyOrder, conn, count, kept>>
        /\ \E label : audits' = AuditEvents(label)
    BY <2>1 DEF CallUnknown, CallMalformed, CallRefused, CallUnconfigured, Begin, NothingRun,
                Answered
  <2>. QED
    BY <2>2, OneEvent
<1>3. CASE Lend \/ Evict \/ OpenPooled \/ OpenStep \/ Opened \/ OpenFails
             \/ AcquireTimeout \/ StatementTimeout \/ OrphanEnds \/ StatementFails
  BY <1>3 DEF Lend, Evict, OpenPooled, OpenStep, Opened, OpenFails, AcquireTimeout,
     StatementTimeout, OrphanEnds, StatementFails, Release, FailsWith, Ends, NotRead, MaxRows
<1>4. CASE Start
  <2>1. phase' = "reading" /\ UNCHANGED <<binding, keyOrder, call, count, kept, audits>>
    BY <1>4 DEF Start, NotRead
  <2>2. count = 0 /\ Len(kept) = 0
    BY <1>4 DEF Start, ReadInv
  <2>3. MaxRows \in Nat /\ MaxRows' = MaxRows
    BY <2>1, BindingsAssumption DEF MaxRows, ReadInv
  <2>. QED
    BY <2>1, <2>2, <2>3
<1>5. CASE ReadNext
  <2>1. /\ phase = "reading" /\ count' = count + 1
        /\ kept' = IF Len(kept) >= MaxRows THEN kept ELSE Append(kept, ReadRow(count + 1))
        /\ UNCHANGED <<binding, keyOrder, phase, call, conn, audits>>
    BY <1>5 DEF ReadNext
  <2>2. MaxRows \in Nat /\ MaxRows' = MaxRows
    BY <2>1, BindingsAssumption DEF MaxRows, ReadInv
  <2>3. PICK S : kept \in Seq(S)
    OBVIOUS
  <2> DEFINE row == ReadRow(count + 1)
             T == S \cup {row}
  <2>. HIDE DEF row
  <2>4. kept \in Seq(T) /\ row \in T /\ Len(kept) \in Nat
    BY <2>3
  <2>5. Append(kept, row) \in Seq(T) /\ Len(Append(kept, row)) = Len(kept) + 1
    BY <2>4
  <2>6. /\ kept' \in Seq(T) /\ Len(kept') <= MaxRows
        /\ Len(kept') <= count + 1
    BY <2>1, <2>2, <2>4, <2>5 DEF row
  <2>7. \E R : kept' \in Seq(R)
    BY <2>6, Zenon
  <2>. QED
    BY <2>1, <2>2, <2>6, <2>7
<1>6. CASE ReadEnds
  BY <1>6 DEF ReadEnds, Release, Ends, NotRead
<1>7. CASE AnswerExecute \/ AnswerComplete
  <2>1. /\ phase = "ended" /\ phase' = "answered"
        /\ UNCHANGED <<keyOrder, call, conn, count, kept>>
        /\ \E label : audits' = AuditEvents(label)
    BY <1>7 DEF AnswerExecute, AnswerComplete, Answered
  <2>. QED
    BY <2>1, OneEvent
<1>8. CASE NextCall
  <2>1. /\ phase' = "idle" /\ phase = "answered" /\ call' = None /\ count' = 0
        /\ kept' = << >> /\ audits' = << >> /\ UNCHANGED <<keyOrder, conn>>
    BY <1>8 DEF NextCall
  <2>2. << >> \in Seq({}) /\ Len(<< >>) = 0
    OBVIOUS
  <2>. QED
    BY <2>1, <2>2
<1>9. CASE UNCHANGED vars
  BY <1>9 DEF vars, MaxRows
<1>. QED
  BY <1>1, <1>2, <1>3, <1>4, <1>5, <1>6, <1>7, <1>8, <1>9 DEF Next, Call

(* The invariant of the types holds throughout.                            *)
LEMMA TypeInvariance == Spec => []TypeInv
<1>1. Init => TypeInv
  <2>1. << >> \in Seq({}) /\ Len(<< >>) = 0
    OBVIOUS
  <2>. QED
    BY <2>1 DEF Init, TypeInv
<1>. QED
  BY <1>1, TypeStep, ReadInvariance, PTL DEF Spec

(* Every variable keeps its type, for all bindings, requests and results.  *)
THEOREM TypeCorrect == Spec => []TypeOK
<1>1. TypeInv /\ ConnInv => TypeOK
  BY ConnectionTypes DEF TypeInv, ConnInv, TypeOK
<1>. QED
  BY <1>1, TypeInvariance, ConnInvariance, PTL
=============================================================================

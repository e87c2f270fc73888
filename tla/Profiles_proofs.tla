-------------------------- MODULE Profiles_proofs --------------------------
(***************************************************************************)
(* What runs is guarded, and on a connection of its own registration, for  *)
(* any set of specs, any number of registrations and any calls.            *)
(*                                                                         *)
(* The argument has two halves.  AcceptedText is about register_profile    *)
(* alone: whatever statement an entry point selects from an accepted spec, *)
(* the checks together see to it that there is one, and that it is guarded *)
(* unless it is the predicate of a file read.  IInv is about time: the     *)
(* registry only ever holds accepted specs, and a call's clone and its job *)
(* stay those of the registration it began with.                           *)
(***************************************************************************)
EXTENDS Profiles, TLAPS

RegAccepted ==
    /\ \A g \in 1..Len(reg) : Accepts(reg[g].spec)
    /\ \A n \in Names : profile[n] # 0 => reg[profile[n]].name = n

(* Listing and completion test for their statement, execute does not.      *)
Configured(s, k) == k # "execute" => TextFor(s, k) # "absent"

(* A task that has begun holds a clone of what its caller asked for.       *)
OwnClone ==
    \A c \in Calls :
        /\ pc[c] = "idle" <=> held[c] = 0
        /\ pc[c] = "begun" => job[c] = 0
        /\ held[c] # 0 => /\ reg[held[c]].name = asked[c]
                          /\ Configured(reg[held[c]].spec, kind[c])

RanGiven == \A c \in Calls : job[c] # 0 => Configured(reg[job[c]].spec, kind[c])

IInv == TypeOK /\ RegAccepted /\ OwnClone /\ RunsOwnProfile /\ RanGiven /\ IdleReachable

(* Every statement an accepted spec may run is neither empty nor blank,    *)
(* and guarded if the profile is read-only; but for a file's predicate.    *)
LEMMA AcceptedText ==
    ASSUME NEW s \in SpecShape, Accepts(s), NEW k \in Kinds, Configured(s, k)
    PROVE  /\ TextFor(s, k) \in {"read", "write", "built"}
           /\ s.readOnly /\ ~(k = "execute" /\ s.operation = "read_file")
                 => TextFor(s, k) # "write"
<1>. USE DEF Configured
<1>1. CASE k = "execute"
  <2>1. CASE s.operation # "query"
    <3>1. s.operation = "read_file" => s.predicate # "blank"
      BY DEF Accepts, OperationOk
    <3>2. Executed(s) \in {"read", "write", "built"}
      BY <2>1, <3>1 DEF Executed, SpecShape, Texts
    <3>3. s.operation # "read_file" => Executed(s) = "built"
      BY <2>1 DEF Executed
    <3>4. TextFor(s, k) = Executed(s)
      BY <1>1 DEF TextFor
    <3>. QED
      BY <1>1, <3>2, <3>3, <3>4
  <2>2. CASE s.operation = "query" /\ s.surface = "resource" /\ s.readQuery # "absent"
    BY <1>1, <2>2 DEF TextFor, Executed, Accepts, ReadQueryOk, Given, Guarded, SpecShape, Texts
  <2>3. CASE s.operation = "query" /\ ~(s.surface = "resource" /\ s.readQuery # "absent")
    <3>1. Given(s.statement)
      BY <2>3 DEF Accepts, OperationOk, ReadQueryOk, Given
    <3>2. Guarded(s, s.statement)
      BY <2>3, <3>1 DEF Accepts, StatementOk
    <3>. QED
      BY <1>1, <2>3, <3>1, <3>2 DEF TextFor, Executed, Given, Guarded, SpecShape, Texts
  <2>. QED
    BY <2>1, <2>2, <2>3
<1>2. CASE k = "list"
  BY <1>2 DEF TextFor, Accepts, ListQueryOk, Given, Guarded, SpecShape, Texts
<1>3. CASE k = "complete"
  BY <1>3 DEF TextFor, Accepts, CompletionsOk, Given, Guarded, SpecShape, Texts
<1>. QED
  BY <1>1, <1>2, <1>3 DEF Kinds

LEMMA SeqElement ==
    ASSUME NEW S, NEW q \in Seq(S), NEW i \in 1..Len(q)
    PROVE  q[i] \in S
OBVIOUS

LEMMA TextType ==
    ASSUME NEW s \in SpecShape, NEW k \in Kinds
    PROVE  TextFor(s, k) \in Texts \cup {"built"}
BY DEF TextFor, Executed, SpecShape, Texts, Kinds

LEMMA InitInv == Init => IInv
<1>1. (CHOOSE n \in Names : TRUE) \in Names
  BY ProfilesAssumption
<1>. QED
  BY <1>1, ProfilesAssumption DEF Init, IInv, TypeOK, RegAccepted, OwnClone, RunsOwnProfile,
     RanGiven, IdleReachable, Generations, Kinds, Texts

LEMMA RegisterInv ==
    ASSUME IInv, NEW n \in Names, NEW s \in Specs, Register(n, s)
    PROVE  IInv'
<1>0. /\ reg \in Seq([name : Names, spec : Specs])
      /\ [name |-> n, spec |-> s] \in [name : Names, spec : Specs]
      /\ MaxRegistrations \in Nat /\ Len(reg) \in Nat
  BY ProfilesAssumption DEF IInv, TypeOK
<1>1. /\ reg' \in Seq([name : Names, spec : Specs])
      /\ Len(reg') = Len(reg) + 1 /\ Len(reg') <= MaxRegistrations
      /\ \A g \in 1..Len(reg) : reg'[g] = reg[g]
      /\ reg'[Len(reg) + 1] = [name |-> n, spec |-> s]
  BY <1>0 DEF Register
<1>2. profile' \in [Names -> 0..Len(reg')] /\ idle' \in [Generations -> Nat]
  BY <1>0, <1>1 DEF IInv, TypeOK, Register, Reap
<1>3. TypeOK'
  BY <1>0, <1>1, <1>2 DEF IInv, TypeOK, Register
<1>4. RegAccepted'
  BY <1>0, <1>1 DEF IInv, TypeOK, RegAccepted, Register
<1>5. OwnClone' /\ RunsOwnProfile' /\ RanGiven'
  BY <1>0, <1>1 DEF IInv, TypeOK, OwnClone, RunsOwnProfile, RanGiven, Register
<1>6. IdleReachable'
  BY <1>2 DEF IdleReachable, Register, Reap, Alive
<1>. QED
  BY <1>3, <1>4, <1>5, <1>6 DEF IInv

LEMMA BeginInv ==
    ASSUME IInv, NEW c \in Calls, NEW n \in Names, NEW k \in Kinds, Begin(c, n, k)
    PROVE  IInv'
<1>1. TypeOK'
  BY DEF IInv, TypeOK, Begin
<1>2. RegAccepted'
  BY DEF IInv, RegAccepted, Begin
<1>3. OwnClone'
  BY DEF IInv, TypeOK, RegAccepted, OwnClone, Configured, Begin
<1>4. RunsOwnProfile' /\ RanGiven'
  BY DEF IInv, TypeOK, RunsOwnProfile, RanGiven, Begin
<1>5. IdleReachable'
  <2>1. held[c] = 0
    BY DEF IInv, OwnClone, Begin
  <2>2. \A d \in Calls \ {c} : held'[d] = held[d]
    BY DEF IInv, TypeOK, Begin
  <2>3. ASSUME NEW g \in Generations, Alive(g) PROVE Alive(g)'
    <3>1. g # 0
      BY ProfilesAssumption DEF Generations
    <3>. QED
      BY <2>1, <2>2, <2>3, <3>1 DEF Alive, Begin
  <2>. QED
    BY <2>3 DEF IInv, IdleReachable, Begin
<1>. QED
  BY <1>1, <1>2, <1>3, <1>4, <1>5 DEF IInv

LEMMA RunInv ==
    ASSUME IInv, NEW c \in Calls, Run(c)
    PROVE  IInv'
<1>1. held[c] \in 1..Len(reg) /\ held[c] \in Generations
  BY ProfilesAssumption DEF IInv, TypeOK, OwnClone, Run, Generations
<1>2. reg[held[c]].spec \in SpecShape /\ kind[c] \in Kinds
  <2>1. reg[held[c]] \in [name : Names, spec : Specs] /\ kind[c] \in Kinds
    BY <1>1, SeqElement DEF IInv, TypeOK
  <2>. QED
    BY <2>1, ProfilesAssumption
<1>3. TextFor(reg[held[c]].spec, kind[c]) \in Texts \cup {"built"}
  BY <1>2, TextType
<1>4. idle' \in [Generations -> Nat] /\ \A g \in Generations : idle'[g] <= idle[g]
  BY <1>1 DEF IInv, TypeOK, Run
<1>5. TypeOK'
  BY <1>1, <1>3, <1>4 DEF IInv, TypeOK, Run
<1>6. RegAccepted'
  BY DEF IInv, RegAccepted, Run
<1>7. OwnClone'
  BY DEF IInv, TypeOK, OwnClone, Run
<1>8. RunsOwnProfile' /\ RanGiven'
  BY <1>1, <1>3 DEF IInv, TypeOK, OwnClone, RunsOwnProfile, RanGiven, Run
<1>9. IdleReachable'
  BY <1>4 DEF IInv, TypeOK, IdleReachable, Alive, Run
<1>. QED
  BY <1>5, <1>6, <1>7, <1>8, <1>9 DEF IInv

LEMMA AnswerInv ==
    ASSUME IInv, NEW c \in Calls, Answer(c)
    PROVE  IInv'
<1>1. TypeOK'
  BY DEF IInv, TypeOK, Answer, Reap
<1>2. RegAccepted'
  BY DEF IInv, RegAccepted, Answer
<1>3. OwnClone'
  BY DEF IInv, TypeOK, OwnClone, Answer
<1>4. RunsOwnProfile' /\ RanGiven'
  BY DEF IInv, TypeOK, RunsOwnProfile, RanGiven, Answer
<1>5. IdleReachable'
  BY <1>1 DEF IdleReachable, TypeOK, Alive, Answer, Reap
<1>. QED
  BY <1>1, <1>2, <1>3, <1>4, <1>5 DEF IInv

LEMMA EndJobInv ==
    ASSUME IInv, NEW c \in Calls, EndJob(c)
    PROVE  IInv'
<1>1. job[c] \in Generations
  BY ProfilesAssumption DEF IInv, TypeOK, EndJob, Generations
<1>2. TypeOK'
  BY <1>1 DEF IInv, TypeOK, EndJob
<1>3. RegAccepted'
  BY DEF IInv, RegAccepted, EndJob
<1>4. OwnClone' /\ RunsOwnProfile' /\ RanGiven'
  BY DEF IInv, TypeOK, OwnClone, RunsOwnProfile, RanGiven, EndJob
<1>5. IdleReachable'
  BY <1>1 DEF IInv, TypeOK, IdleReachable, Alive, EndJob
<1>. QED
  BY <1>2, <1>3, <1>4, <1>5 DEF IInv

LEMMA NextInv == IInv /\ [Next]_vars => IInv'
<1>. SUFFICES ASSUME IInv, [Next]_vars PROVE IInv'
  OBVIOUS
<1>1. ASSUME NEW n \in Names, NEW s \in Specs, Register(n, s) PROVE IInv'
  BY <1>1, RegisterInv
<1>2. ASSUME NEW c \in Calls, NEW n \in Names, NEW k \in Kinds, Begin(c, n, k) PROVE IInv'
  BY <1>2, BeginInv
<1>3. ASSUME NEW c \in Calls, Run(c) PROVE IInv'
  BY <1>3, RunInv
<1>4. ASSUME NEW c \in Calls, Answer(c) PROVE IInv'
  BY <1>4, AnswerInv
<1>5. ASSUME NEW c \in Calls, EndJob(c) PROVE IInv'
  BY <1>5, EndJobInv
<1>6. CASE UNCHANGED vars
  BY <1>6 DEF vars, IInv, TypeOK, RegAccepted, OwnClone, RunsOwnProfile, RanGiven,
     IdleReachable, Alive
<1>. QED
  BY <1>1, <1>2, <1>3, <1>4, <1>5, <1>6 DEF Next

THEOREM Inductive == Spec => []IInv
BY InitInv, NextInv, PTL DEF Spec

(* Every variable keeps its type; no pool hands out a connection it does   *)
(* not have (DuckDbProfile, register_profile, execute).                    *)
THEOREM TypeCorrect == Spec => []TypeOK
<1>1. IInv => TypeOK
  BY DEF IInv
<1>. QED
  BY <1>1, Inductive, PTL

(* Re-registering a binding while calls are in flight never pairs a        *)
(* statement with the connection of another registration.                  *)
THEOREM CallsKeepTheirProfile == Spec => []RunsOwnProfile
<1>1. IInv => RunsOwnProfile
  BY DEF IInv
<1>. QED
  BY <1>1, Inductive, PTL

(* Whatever the gateway registers, what any entry point runs is neither    *)
(* empty nor blank, and passed the guard of a read-only profile unless it  *)
(* is the predicate of a file read (register_profile).                     *)
THEOREM StatementsAreGuarded == Spec => []RunsGuarded
<1>1. IInv => RunsGuarded
  <2>. SUFFICES ASSUME IInv, NEW c \in Calls, job[c] # 0
                PROVE  /\ ran[c] \in {"read", "write", "built"}
                       /\ reg[job[c]].spec.readOnly /\ ~PredicateRuns(c) => ran[c] # "write"
    BY DEF RunsGuarded
  <2>1. job[c] \in 1..Len(reg) /\ kind[c] \in Kinds /\ reg[job[c]].spec \in SpecShape
    <3>1. job[c] \in 1..Len(reg) /\ kind[c] \in Kinds
      BY DEF IInv, TypeOK
    <3>2. reg[job[c]] \in [name : Names, spec : Specs]
      BY <3>1, SeqElement DEF IInv, TypeOK
    <3>. QED
      BY <3>1, <3>2, ProfilesAssumption
  <2>2. Accepts(reg[job[c]].spec)
    BY <2>1 DEF IInv, RegAccepted
  <2>3. ran[c] = TextFor(reg[job[c]].spec, kind[c]) /\ Configured(reg[job[c]].spec, kind[c])
    BY DEF IInv, RunsOwnProfile, RanGiven
  <2>. QED
    BY <2>1, <2>2, <2>3, AcceptedText DEF PredicateRuns
<1>. QED
  BY <1>1, Inductive, PTL

(* No connection stays idle in a pool nobody can reach.                    *)
THEOREM NoIdleLeak == Spec => []IdleReachable
<1>1. IInv => IdleReachable
  BY DEF IInv
<1>. QED
  BY <1>1, Inductive, PTL
=============================================================================

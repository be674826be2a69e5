------------------------- MODULE StreamSetup_proofs -------------------------
(***************************************************************************)
(* For any services, any extra subjects and any number of failures and     *)
(* extensions: a service that is up has the subjects it needs, and as long *)
(* as the operator only provisions, the stream keeps what he asked for.    *)
(***************************************************************************)
EXTENDS StreamSetup, TLAPS

\* Type correctness and coverage are inductive together: a service that extends the
\* stream leaves one that covers, whatever it read.
SetupInv == TypeOK /\ ReadyMeansCovered

LEMMA SetupInit == Init => SetupInv
<1> SUFFICES ASSUME Init PROVE SetupInv
  OBVIOUS
<1>1. 0 \in 0..MaxOperator /\ 0 \in 0..MaxRestarts
  BY SetupAssumption
<1> QED
  BY <1>1 DEF Init, SetupInv, TypeOK, ReadyMeansCovered, Phases, Subjects, NoStream,
    Covered, Required

\* The part of an extension that both the operator's actions share: subjects are
\* added, phases and reads stay.
LEMMA AddingKeeps ==
  ASSUME SetupInv, stream \subseteq stream', stream' \subseteq Subjects,
         UNCHANGED <<phase, read, restarts>>,
         wanted' \subseteq Subjects, operated' \in 0..MaxOperator
  PROVE  SetupInv'
BY DEF SetupInv, TypeOK, ReadyMeansCovered, Covered

\* One step of one service keeps the invariant.
LEMMA StepKeeps ==
  ASSUME SetupInv, NEW s \in Services, Steps(s) \/ Exit(s)
  PROVE  SetupInv'
<1> USE DEF SetupInv
<1>1. CASE StreamInfo(s)
  BY <1>1 DEF StreamInfo, Enter, TypeOK, ReadyMeansCovered, Phases, Covered
<1>2. CASE UpdateStream(s)
  <2>1. stream' \subseteq Subjects /\ Covered(stream')
    BY <1>2 DEF UpdateStream, Extended, TypeOK, Covered, Subjects
  <2> QED
    BY <1>2, <2>1 DEF UpdateStream, Extended, Enter, TypeOK, ReadyMeansCovered, Phases
<1>3. CASE AddStream(s)
  <2>1. CASE stream' = Required
    BY <1>3, <2>1 DEF AddStream, Enter, TypeOK, ReadyMeansCovered, Phases, Covered, Subjects
  <2>2. CASE phase' = [phase EXCEPT ![s] = "exited"] /\ stream' = stream
    BY <1>3, <2>2 DEF AddStream, TypeOK, ReadyMeansCovered, Phases
  <2> QED
    BY <1>3, <2>1, <2>2 DEF AddStream, Enter
<1>4. CASE Exit(s)
  <2>1. restarts' \in 0..MaxRestarts
    BY <1>4, SetupAssumption DEF Exit, TypeOK
  <2> QED
    BY <1>4, <2>1 DEF Exit, Enter, TypeOK, ReadyMeansCovered, Phases
<1>5. CASE Restart(s)
  BY <1>5 DEF Restart, Enter, TypeOK, ReadyMeansCovered, Phases
<1> QED
  BY <1>1, <1>2, <1>3, <1>4, <1>5 DEF Steps

LEMMA SetupNext == SetupInv /\ [Next]_vars => SetupInv'
<1> SUFFICES ASSUME SetupInv, [Next]_vars PROVE SetupInv'
  OBVIOUS
<1>1. CASE \E s \in Services : Steps(s) \/ Exit(s)
  BY <1>1, StepKeeps
<1>2. ASSUME NEW subjects \in SUBSET Subjects \ {{}}, Provision(subjects) PROVE SetupInv'
  BY <1>2, AddingKeeps DEF Provision, SetupInv, TypeOK, NoStream
<1>3. ASSUME NEW x \in Extra, Extend(x) PROVE SetupInv'
  <2>1. operated' \in 0..MaxOperator
    BY <1>3, SetupAssumption DEF Extend, SetupInv, TypeOK
  <2> QED
    BY <1>3, <2>1, AddingKeeps DEF Extend, SetupInv, TypeOK, Subjects
<1>4. CASE UNCHANGED vars
  BY <1>4 DEF vars, SetupInv, TypeOK, ReadyMeansCovered
<1> QED
  BY <1>1, <1>2, <1>3, <1>4 DEF Next

\* Every variable keeps to its type (StreamSetup's calls at the start of a service).
THEOREM SetupTypeCorrect == Spec => []TypeOK
<1>1. SetupInv => TypeOK
  BY DEF SetupInv
<1> QED
  BY <1>1, SetupInit, SetupNext, PTL DEF Spec

\* A service that came up has a stream that takes all its events, and keeps it
\* (publisher.go:144).
THEOREM ReadyIsCovered == Spec => []ReadyMeansCovered
<1>1. SetupInv => ReadyMeansCovered
  BY DEF SetupInv
<1> QED
  BY <1>1, SetupInit, SetupNext, PTL DEF Spec

----------------------------------------------------------------------------

\* What a service writes back holds all that was provisioned, as long as nothing was
\* asked for between its two calls.
KeptInv ==
  /\ SetupInv
  /\ OperatorSubjectsKept
  /\ stream = NoStream => wanted = {}
  /\ \A s \in Services : phase[s] = "short" =>
       stream # NoStream /\ (operated = 0 => wanted \subseteq read[s])

LEMMA KeptInit == Init => KeptInv
BY SetupInit DEF Init, KeptInv, OperatorSubjectsKept

LEMMA KeptNext ==
  ASSUME KeptInv, [Next]_vars PROVE KeptInv'
<1>1. SetupInv'
  BY SetupNext DEF KeptInv
<1> USE DEF KeptInv, OperatorSubjectsKept
<1>2. ASSUME NEW s \in Services, Steps(s) \/ Exit(s) PROVE KeptInv'
  <2>1. CASE StreamInfo(s)
    BY <1>1, <2>1 DEF StreamInfo, Enter, SetupInv, TypeOK
  <2>2. CASE UpdateStream(s)
    <3>1. stream' # NoStream
      BY <2>2 DEF UpdateStream, Extended, NoStream, Required
    <3> QED
      BY <1>1, <2>2, <3>1 DEF UpdateStream, Extended, Enter, SetupInv, TypeOK
  <2>3. CASE AddStream(s)
    <3>1. CASE stream \in {NoStream, Required} /\ stream' = Required
      <4>1. Required # NoStream
        BY DEF Required, NoStream
      <4> QED
        BY <1>1, <2>3, <3>1, <4>1 DEF AddStream, Enter, SetupInv, TypeOK
    <3>2. CASE phase' = [phase EXCEPT ![s] = "exited"] /\ stream' = stream
      BY <1>1, <2>3, <3>2 DEF AddStream, SetupInv, TypeOK
    <3> QED
      BY <2>3, <3>1, <3>2 DEF AddStream, Enter
  <2>4. CASE Exit(s)
    BY <1>1, <2>4 DEF Exit, Enter, SetupInv, TypeOK
  <2>5. CASE Restart(s)
    BY <1>1, <2>5 DEF Restart, Enter, SetupInv, TypeOK
  <2> QED
    BY <1>2, <2>1, <2>2, <2>3, <2>4, <2>5 DEF Steps
<1>3. ASSUME NEW subjects \in SUBSET Subjects \ {{}}, Provision(subjects) PROVE KeptInv'
  <2>1. \A s \in Services : phase[s] # "short"
    BY <1>3 DEF Provision
  <2> QED
    BY <1>1, <1>3, <2>1 DEF Provision, NoStream
<1>4. ASSUME NEW x \in Extra, Extend(x) PROVE KeptInv'
  <2>1. operated' # 0
    BY <1>4 DEF Extend, SetupInv, TypeOK
  <2>2. stream' # NoStream
    BY <1>4 DEF Extend, NoStream
  <2> QED
    BY <1>1, <1>4, <2>1, <2>2 DEF Extend
<1>5. CASE UNCHANGED vars
  BY <1>1, <1>5 DEF vars
<1> QED
  BY <1>2, <1>3, <1>4, <1>5 DEF Next

\* Services that race to create and to extend the stream never lose a subject the
\* operator provisioned, as long as he changes nothing while they start
\* (publisher.go:145).
THEOREM ProvisionedIsKept == Spec => []OperatorSubjectsKept
<1>1. KeptInv => OperatorSubjectsKept
  BY DEF KeptInv
<1> QED
  BY <1>1, KeptInit, KeptNext, PTL DEF Spec

=============================================================================

---------------------------- MODULE StreamSetup ----------------------------
(***************************************************************************)
(* How the services make sure of their stream when they start:             *)
(* NewNATSPublisher in order-service, Consumer.Start in marketdata-service *)
(* and wallet-service.  Each asks the server for the stream and creates or *)
(* extends it in a second call; nothing orders the three, nor an operator  *)
(* who provisions or extends the stream by hand.  A service that fails     *)
(* exits and is started again.                                             *)
(*                                                                         *)
(* Of a stream's configuration there are its subjects.  The server creates *)
(* a stream that is there already only if the configuration is the same.   *)
(***************************************************************************)
EXTENDS Naturals

CONSTANTS
  Services,
  Extra,          (* subjects that only an operator asks for               *)
  MaxOperator,    (* bound: what the operator does once the stream exists  *)
  MaxRestarts     (* bound: calls to the server that fail, and redeploys   *)

ASSUME SetupAssumption == {MaxOperator, MaxRestarts} \subseteq Nat

VARIABLES
  stream,         (* subjects of the stream, none when there is no stream   *)
  phase,          (* how far each service is                               *)
  read,           (* StreamInfo's answer, as each service has it           *)
  wanted,         (* the subjects the operator asked for                   *)
  operated,       (* extensions by the operator so far                     *)
  restarts        (* failed calls and redeploys so far                     *)

vars == <<stream, phase, read, wanted, operated, restarts>>

\* streamSubjects, the same in the three services.
Required == {"order.>", "trade.>"}

Subjects == Required \cup Extra
NoStream == {}

Phases == {"connected", "missing", "short", "ready", "exited"}

Covered(subjects) == Required \subseteq subjects

\* unionStreamSubjects of what is there and what is required.
Extended(subjects) == subjects \cup Required

Enter(s, p) == phase' = [phase EXCEPT ![s] = p]

\* js.StreamInfo, and what follows from its answer.
StreamInfo(s) ==
  /\ phase[s] = "connected"
  /\ Enter(s, IF stream = NoStream THEN "missing"
              ELSE IF Covered(stream) THEN "ready" ELSE "short")
  /\ read' = [read EXCEPT ![s] = stream]
  /\ UNCHANGED <<stream, wanted, operated, restarts>>

\* Mutants of UpdateStream: the stream gets the subjects the service needs, and no
\* other; the service goes on although it did not extend the stream.
UpdateDroppingOthers(s) ==
  /\ phase[s] = "short"
  /\ stream' = Required
  /\ Enter(s, "ready")
  /\ UNCHANGED <<read, wanted, operated, restarts>>

UpdateForgotten(s) ==
  /\ phase[s] = "short"
  /\ Enter(s, "ready")
  /\ UNCHANGED <<stream, read, wanted, operated, restarts>>

\* js.UpdateStream, written from what was read.
UpdateStream(s) ==
  /\ phase[s] = "short"
  /\ stream' = Extended(read[s])
  /\ Enter(s, "ready")
  /\ UNCHANGED <<read, wanted, operated, restarts>>

\* Mutant of AddStream: it is tried again without another look at the stream.
AddStreamInsisting(s) ==
  /\ phase[s] = "missing"
  /\ stream \in {NoStream, Required}
  /\ stream' = Required
  /\ Enter(s, "ready")
  /\ UNCHANGED <<read, wanted, operated, restarts>>

\* js.AddStream: refused when a different stream came first.
AddStream(s) ==
  /\ phase[s] = "missing"
  /\ \/ /\ stream \in {NoStream, Required}
        /\ stream' = Required
        /\ Enter(s, "ready")
     \/ /\ stream \notin {NoStream, Required}
        /\ Enter(s, "exited")
        /\ UNCHANGED stream
  /\ UNCHANGED <<read, wanted, operated, restarts>>

\* One of the calls fails for another reason, or a running service is replaced.
Exit(s) ==
  /\ phase[s] # "exited"
  /\ restarts < MaxRestarts
  /\ restarts' = restarts + 1
  /\ Enter(s, "exited")
  /\ UNCHANGED <<stream, read, wanted, operated>>

Restart(s) ==
  /\ phase[s] = "exited"
  /\ Enter(s, "connected")
  /\ UNCHANGED <<stream, read, wanted, operated, restarts>>

\* The operator provisions the stream in advance, in a shape of his own.
Provision(subjects) ==
  /\ stream = NoStream
  /\ stream' = subjects
  /\ wanted' = subjects
  /\ UNCHANGED <<phase, read, operated, restarts>>

\* The operator extends the stream.
Extend(x) ==
  /\ stream # NoStream
  /\ operated < MaxOperator
  /\ operated' = operated + 1
  /\ stream' = stream \cup {x}
  /\ wanted' = wanted \cup {x}
  /\ UNCHANGED <<phase, read, restarts>>

Init ==
  /\ stream = NoStream
  /\ phase = [s \in Services |-> "connected"]
  /\ read = [s \in Services |-> NoStream]
  /\ wanted = {}
  /\ operated = 0
  /\ restarts = 0

Steps(s) == StreamInfo(s) \/ UpdateStream(s) \/ AddStream(s) \/ Restart(s)

Next ==
  \/ \E s \in Services : Steps(s) \/ Exit(s)
  \/ \E subjects \in SUBSET Subjects \ {{}} : Provision(subjects)
  \/ \E x \in Extra : Extend(x)

Spec == Init /\ [][Next]_vars

\* The server answers, and a service that exits is started again; the operator
\* owes nothing.
FairSpec == Spec /\ \A s \in Services : WF_vars(Steps(s))

----------------------------------------------------------------------------
(* Properties *)

\* Type invariant; a service that is about to extend the stream has read a stream
\* that was too short.
TypeOK ==
  /\ stream \subseteq Subjects
  /\ phase \in [Services -> Phases]
  /\ read \in [Services -> SUBSET Subjects]
  /\ \A s \in Services : phase[s] = "short" => read[s] # NoStream /\ ~ Covered(read[s])
  /\ wanted \subseteq Subjects
  /\ operated \in 0..MaxOperator
  /\ restarts \in 0..MaxRestarts

\* A service that is up has a stream that takes all its events, whatever the others
\* and the operator did since it looked (publisher.go:144): an update written from
\* an old answer never takes away a subject that a service needs.
ReadyMeansCovered ==
  (\E s \in Services : phase[s] = "ready") => Covered(stream)

\* What an operator provisioned the stream with stays in it ("we leave it alone - the
\* operator may have extended it", publisher.go:145), although services update it
\* at once.  An extension has no such promise: a service that read the stream
\* before writes the old subjects back (publisher.go:154).
OperatorSubjectsKept == operated = 0 /\ stream # NoStream => wanted \subseteq stream

\* Every service comes up in the end, whoever was first to create the stream.
AllComeUp == <>[](\A s \in Services : phase[s] = "ready")

=============================================================================

--------------------------- MODULE SyncJob_proof ---------------------------
(***************************************************************************)
(* Proofs about SyncJob.                                                   *)
(***************************************************************************)
EXTENDS SyncJob, TLAPS

-----------------------------------------------------------------------------
(***************************************************************************)
(* Type correctness.  TypeOK is not inductive by itself: PutSource counts  *)
(* the version up, which stays in Data since the versions of a secret are  *)
(* at most as many as its writes.                                          *)
(***************************************************************************)
SourceBounded ==
  /\ source.version <= written /\ source.data <= written
  /\ IsLive(source) => source.data = written

TypeInv == TypeOK /\ SourceBounded

LEMMA DataFacts ==
  /\ 0 \in Data /\ 1 \in Data
  /\ NoSecret \in Secret /\ NoCopy \in Copy /\ NoRecord \in Record
  /\ NoRequest \in Request /\ DeleteRequest \in Request
  /\ NotSeen \in Sighting
BY MaxWritesAssumption
DEF Data, NoSecret, Secret, NoCopy, Copy, NoRecord, Record, NoRequest, Request,
    DeleteRequest, NotSeen, Sighting

\* What a request and its row can be.
LEMMA RequestFacts ==
  ASSUME NEW q \in Request, NEW ok \in BOOLEAN, NEW stored \in BOOLEAN
  PROVE  /\ CarriedOut(q) \in Copy
         /\ RowAfter(q, ok) \in Record
         /\ StatusAfter(q, ok, stored) \in Statuses
BY DataFacts
DEF Request, CarriedOut, Copy, RowAfter, Record, StatusAfter, Statuses, NoRecord

LEMMA WriteRequestType ==
  ASSUME NEW s \in Secret PROVE WriteRequest(s) \in Request
BY DEF Secret, WriteRequest, Request

LEMMA InitTypeInv == Init => TypeInv
BY DataFacts
DEF Init, TypeInv, TypeOK, SourceBounded, Everywhere, Phases, Outcomes, Statuses,
    WorkerStates, NoSecret, IsLive, Data

LEMMA StrikesType ==
  ASSUME faults \in [Faults -> Nat], NEW f, Strikes(f)
  PROVE  faults' \in [Faults -> Nat]
BY DEF Strikes

LEMMA ResetType ==
  ASSUME TypeOK, NEW p \in Runs, NEW phase \in {"idle", "records"}, Reset(p, phase)
  PROVE  /\ pc' \in [Runs -> Phases]
         /\ todo' \in [Runs -> SUBSET Replicas]
         /\ records' \in [Runs -> [Replicas -> Record]]
         /\ seen' \in [Runs -> Sighting]
         /\ found' \in [Runs -> SUBSET Replicas]
         /\ request' \in [Runs -> Request]
         /\ worker' \in [Runs -> [Replicas -> WorkerStates]]
         /\ cancelled' \in [Runs -> BOOLEAN]
         /\ outcome' \in [Runs -> Outcomes]
         /\ status' \in [Runs -> [Replicas -> Statuses]]
BY DataFacts DEF TypeOK, Reset, Everywhere, Phases, WorkerStates, Outcomes, Statuses

LEMMA StepTypeInv ==
  ASSUME TypeInv, NEW p \in Runs, Step(p)
  PROVE  TypeInv'
<1> USE DEF TypeInv, TypeOK, SourceBounded, world, copies, gathered, sending, result
<1>1. CASE Start(p)
  BY <1>1, ResetType DEF Start, IsLive
<1>2. CASE CheckSource(p)
  BY <1>2 DEF CheckSource, SourceSeen, Sighting, HasMetadata, Phases, IsLive
<1>3. CASE ReadMetadata(p)
  BY <1>3 DEF ReadMetadata, Sighting, Secret, Phases, IsLive
<1>4. CASE Decide(p)
  <2>1. /\ pc' \in [Runs -> Phases]
        /\ UNCHANGED <<source, written, replica, landed, late, db, faults, todo,
                       records, seen, found, cancelled>>
    BY <1>4 DEF Decide, Finish, FanOut, Phases
  <2>2. request' \in [Runs -> Request] /\ worker' \in [Runs -> [Replicas -> WorkerStates]]
    <3>1. UNCHANGED <<request, worker>> \/ FanOut(p, DeleteRequest)
      BY <1>4 DEF Decide
    <3>2. CASE UNCHANGED <<request, worker>>
      BY <3>2
    <3>3. CASE FanOut(p, DeleteRequest)
      BY <3>3, DataFacts DEF FanOut, Everywhere, WorkerStates
    <3> QED BY <3>1, <3>2, <3>3
  <2>3. outcome' \in [Runs -> Outcomes] /\ status' \in [Runs -> [Replicas -> Statuses]]
    <3>1. \/ UNCHANGED <<outcome, status>>
          \/ /\ outcome' = [outcome EXCEPT ![p] = "noop"]
             /\ status' = [status EXCEPT ![p] = NoOpStatus]
      BY <1>4 DEF Decide, Finish
    <3>2. NoOpStatus \in [Replicas -> Statuses]
      BY DEF NoOpStatus, Everywhere, Statuses
    <3>3. CASE UNCHANGED <<outcome, status>>
      BY <3>3
    <3>4. CASE /\ outcome' = [outcome EXCEPT ![p] = "noop"]
               /\ status' = [status EXCEPT ![p] = NoOpStatus]
      BY <3>2, <3>4 DEF Outcomes
    <3> QED BY <3>1, <3>3, <3>4
  <2> QED BY <2>1, <2>2, <2>3 DEF IsLive
<1>5. CASE ReadSecret(p)
  BY <1>5, WriteRequestType DEF ReadSecret, FanOut, Everywhere, Phases, WorkerStates, IsLive
<1>6. CASE CallFails(p)
  BY <1>6, StrikesType DEF CallFails, VaultCallFails, Finish, Phases, Outcomes, IsLive
<1>7. CASE Collect(p)
  BY <1>7 DEF Collect, Phases, IsLive
<1>8. CASE CollectCancelled(p)
  BY <1>8 DEF CollectCancelled, Finish, Phases, Outcomes, IsLive
<1>9. ASSUME NEW r \in Replicas, ReplicaStep(p, r) PROVE TypeInv'
  <2>1. CASE ReadRecord(p, r)
    BY <2>1 DEF ReadRecord, Advance, Phases, IsLive
  <2>2. CASE CheckReplica(p, r)
    <3>1. found' \in [Runs -> SUBSET Replicas]
      <4>1. found' = found \/ found' = [found EXCEPT ![p] = @ \cup {r}]
        BY <2>2 DEF CheckReplica
      <4>2. found[p] \cup {r} \in SUBSET Replicas
        OBVIOUS
      <4>3. CASE found' = found
        BY <4>3
      <4>4. CASE found' = [found EXCEPT ![p] = @ \cup {r}]
        BY <4>2, <4>4
      <4> QED BY <4>1, <4>3, <4>4
    <3>2. faults' \in [Faults -> Nat]
      BY <2>2, StrikesType DEF CheckReplica, VaultCallFails
    <3> QED BY <2>2, <3>1, <3>2 DEF CheckReplica, Advance, Phases, IsLive
  <2>3. CASE Apply(p, r)
    BY <2>3, RequestFacts DEF Apply, CarryOut, WorkerBecomes, Request, WorkerStates, IsLive
  <2>4. CASE Reply(p, r)
    BY <2>4 DEF Reply, WorkerBecomes, WorkerStates, IsLive
  <2>5. CASE RecordResult(p, r)
    BY <2>5, RequestFacts DEF RecordResult, Recording, Advance, Phases, Outcomes, IsLive
  <2> QED BY <1>9, <2>1, <2>2, <2>3, <2>4, <2>5 DEF ReplicaStep
<1> QED BY <1>1, <1>2, <1>3, <1>4, <1>5, <1>6, <1>7, <1>8, <1>9 DEF Step

LEMMA FaultTypeInv ==
  ASSUME TypeInv, NEW p \in Runs, Fault(p)
  PROVE  TypeInv'
<1> USE DEF TypeInv, TypeOK, SourceBounded, world, copies, gathered, sending, result
<1>1. CASE CheckSourceConfused(p)
  BY <1>1, StrikesType DEF CheckSourceConfused, SourceSeen, Sighting, Phases, IsLive
<1>2. CASE Crash(p)
  BY <1>2, ResetType, StrikesType DEF Crash, IsLive
<1>3. CASE Cancel(p)
  BY <1>3, StrikesType DEF Cancel, IsLive
<1>4. ASSUME NEW r \in Replicas,
             \/ LoseReply(p, r) \/ Refuse(p, r) \/ GiveUp(p, r)
             \/ DeleteConfused(p, r) \/ RecordFails(p, r)
      PROVE  TypeInv'
  <2>1. CASE LoseReply(p, r)
    BY <2>1, StrikesType DEF LoseReply, VaultCallFails, WorkerBecomes, WorkerStates, IsLive
  <2>2. CASE Refuse(p, r)
    BY <2>2, StrikesType DEF Refuse, VaultCallFails, WorkerBecomes, WorkerStates, IsLive
  <2>3. CASE GiveUp(p, r)
    BY <2>3, StrikesType DEF GiveUp, WorkerBecomes, WorkerStates, LateRequests, IsLive
  <2>4. CASE DeleteConfused(p, r)
    BY <2>4, StrikesType DEF DeleteConfused, WorkerBecomes, WorkerStates, IsLive
  <2>5. CASE RecordFails(p, r)
    <3>1. db' \in [Replicas -> Record]
      <4>1. RowAfter(request[p], worker[p][r] = "ok") \in Record
        BY RequestFacts
      <4>2. \/ db' = db
            \/ db' = [db EXCEPT ![r] = RowAfter(request[p], worker[p][r] = "ok")]
        BY <2>5 DEF RecordFails
      <4> QED BY <4>1, <4>2
    <3>2. faults' \in [Faults -> Nat]
      BY <2>5, StrikesType DEF RecordFails
    <3> QED
    BY <2>5, <3>1, <3>2, RequestFacts
    DEF RecordFails, Recording, Advance, Phases, Outcomes, IsLive
  <2> QED BY <1>4, <2>1, <2>2, <2>3, <2>4, <2>5
<1> QED BY <1>1, <1>2, <1>3, <1>4 DEF Fault

LEMMA EnvironmentTypeInv ==
  ASSUME TypeInv, Environment
  PROVE  TypeInv'
<1> USE DEF TypeInv, TypeOK, SourceBounded, world, copies, runs
<1>1. CASE PutSource
  BY <1>1, MaxWritesAssumption DEF PutSource, SourceBecomes, Secret, Data, IsLive
<1>2. CASE RecreateSource
  BY <1>2, StrikesType, MaxWritesAssumption
  DEF RecreateSource, SourceBecomes, Secret, Data, IsLive
<1>3. CASE SoftDeleteSource
  BY <1>3 DEF SoftDeleteSource, SourceBecomes, Secret, Data, IsLive
<1>4. CASE DestroySource
  BY <1>4, DataFacts DEF DestroySource, SourceBecomes, NoSecret, Data, IsLive
<1>5. CASE LandLate
  <2> PICK m \in late : /\ late' = late \ {m}
                        /\ CarryOut(m.to, m.what)
                        /\ UNCHANGED <<world, db, faults, runs>>
    BY <1>5 DEF LandLate
  <2>1. m.to \in Replicas /\ m.what \in Request /\ CarriedOut(m.what) \in Copy
    BY RequestFacts DEF LateRequests
  <2>2. replica' \in [Replicas -> Copy] /\ landed' \in [Replicas -> SUBSET Data]
    BY <2>1 DEF CarryOut, Request
  <2> QED BY <2>2 DEF IsLive
<1>6. ASSUME NEW r \in Replicas, DeleteReplicaCopy(r) PROVE TypeInv'
  <2>1. replica' \in [Replicas -> Copy]
    <3>1. \/ replica' = [replica EXCEPT ![r] = NoCopy]
          \/ replica' = [replica EXCEPT ![r].state = "soft"]
      BY <1>6 DEF DeleteReplicaCopy
    <3>2. [replica[r] EXCEPT !.state = "soft"] \in Copy
      <4>1. replica[r] \in Copy
        OBVIOUS
      <4> QED BY <4>1 DEF Copy
    <3>3. replica' = [replica EXCEPT ![r] = NoCopy]
          \/ replica' = [replica EXCEPT ![r] = [replica[r] EXCEPT !.state = "soft"]]
      BY <3>1
    <3> QED BY <3>2, <3>3, DataFacts
  <2>2. faults' \in [Faults -> Nat]
    BY <1>6, StrikesType DEF DeleteReplicaCopy
  <2> QED BY <1>6, <2>1, <2>2 DEF DeleteReplicaCopy, IsLive
<1> QED BY <1>1, <1>2, <1>3, <1>4, <1>5, <1>6 DEF Environment

LEMMA StutterTypeInv == TypeInv /\ UNCHANGED vars => TypeInv'
BY DEF TypeInv, TypeOK, SourceBounded, vars, IsLive

LEMMA NextTypeInv == TypeInv /\ [Next]_vars => TypeInv'
BY StepTypeInv, FaultTypeInv, EnvironmentTypeInv, StutterTypeInv DEF Next

\* Every variable keeps its type: no version leaves its range, every row and
\* every status is one of those the code writes.
THEOREM TypeCorrect == Spec => [](TypeOK /\ SourceBounded)
<1>1. Init => TypeInv
  BY InitTypeInv
<1>2. TypeInv /\ [Next]_vars => TypeInv'
  BY NextTypeInv
<1> QED BY <1>1, <1>2, PTL DEF Spec, TypeInv
=============================================================================

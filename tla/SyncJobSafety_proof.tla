------------------------ MODULE SyncJobSafety_proof ------------------------
(***************************************************************************)
(* Proofs about runs that may overlap.                                     *)
(*                                                                         *)
(* Rows and copies stay true to one another, and SyncJob implements        *)
(* ReplicaStore: what a request carries was in the source, and a delete is *)
(* asked for only after the metadata of the secret had gone.               *)
(***************************************************************************)
EXTENDS SyncJob_proof

-----------------------------------------------------------------------------
(***************************************************************************)
(* SuccessIsEarned.  A row gets its success from the worker, so the        *)
(* invariant says of the worker what the property says of the row.         *)
(***************************************************************************)
WriteDone(p, r) == request[p].op = "write" /\ worker[p][r] \in {"applied", "ok"}

WorkersEarned ==
  \A p \in Runs, r \in Replicas : WriteDone(p, r) => request[p].data \in landed[r]

EarnedInv == TypeInv /\ SuccessIsEarned /\ WorkersEarned

LEMMA EarnedQuiet ==
  ASSUME EarnedInv, TypeInv', UNCHANGED <<db, landed, request, worker>>
  PROVE  EarnedInv'
BY DEF EarnedInv, SuccessIsEarned, WorkersEarned, WriteDone

LEMMA EarnedReset ==
  ASSUME EarnedInv, TypeInv', NEW p \in Runs, NEW phase, Reset(p, phase),
         UNCHANGED <<db, landed>>
  PROVE  EarnedInv'
BY DEF EarnedInv, SuccessIsEarned, WorkersEarned, WriteDone, Reset, NoRequest,
       TypeInv, TypeOK

LEMMA EarnedFanOut ==
  ASSUME EarnedInv, TypeInv', NEW p \in Runs, NEW req, FanOut(p, req),
         UNCHANGED <<db, landed>>
  PROVE  EarnedInv'
BY DEF EarnedInv, SuccessIsEarned, WorkersEarned, WriteDone, FanOut, Everywhere,
       TypeInv, TypeOK

\* A worker that has not carried out a write and does not now.
LEMMA EarnedWorker ==
  ASSUME EarnedInv, TypeInv', NEW p \in Runs, NEW r \in Replicas, NEW state,
         WorkerBecomes(p, r, state), UNCHANGED landed,
         state \in {"applied", "ok"} => request[p].op # "write" \/ WriteDone(p, r)
  PROVE  EarnedInv'
BY DEF EarnedInv, SuccessIsEarned, WorkersEarned, WriteDone, WorkerBecomes,
       TypeInv, TypeOK

LEMMA CarryOutLands ==
  ASSUME TypeOK, NEW r \in Replicas, NEW req, CarryOut(r, req)
  PROVE  /\ \A q \in Replicas : landed[q] \subseteq landed'[q]
         /\ req.op = "write" => req.data \in landed'[r]
BY DEF CarryOut, TypeOK

LEMMA EarnedRecording ==
  ASSUME EarnedInv, TypeInv', NEW p \in Runs, NEW r \in Replicas, NEW stored,
         Recording(p, r, stored),
         \/ db' = db
         \/ db' = [db EXCEPT ![r] = RowAfter(request[p], worker[p][r] = "ok")]
  PROVE  EarnedInv'
<1>1. UNCHANGED <<landed, request, worker>>
  BY DEF Recording, copies, sending
<1>2. CASE db' = db
  BY <1>1, <1>2, EarnedQuiet
<1>3. CASE db' = [db EXCEPT ![r] = RowAfter(request[p], worker[p][r] = "ok")]
  <2>1. RowAfter(request[p], worker[p][r] = "ok").status = "success"
          => /\ WriteDone(p, r)
             /\ RowAfter(request[p], worker[p][r] = "ok").data = request[p].data
    BY DEF RowAfter, WriteDone, NoRecord
  <2>2. SuccessIsEarned'
    BY <1>1, <1>3, <2>1
    DEF EarnedInv, SuccessIsEarned, WorkersEarned, TypeInv, TypeOK
  <2>3. WorkersEarned'
    BY <1>1 DEF EarnedInv, WorkersEarned, WriteDone
  <2> QED BY <2>2, <2>3 DEF EarnedInv
<1> QED BY <1>2, <1>3

LEMMA StepEarned ==
  ASSUME EarnedInv, TypeInv', NEW p \in Runs, Step(p)
  PROVE  EarnedInv'
<1> USE DEF world, copies, gathered, sending, result
<1>1. CASE Start(p)
  BY <1>1, EarnedReset DEF Start
<1>2. CASE CheckSource(p) \/ ReadMetadata(p) \/ CallFails(p) \/ Collect(p) \/ CollectCancelled(p)
  BY <1>2, EarnedQuiet
  DEF CheckSource, SourceSeen, ReadMetadata, CallFails, Collect, CollectCancelled
<1>3. CASE Decide(p)
  <2>1. UNCHANGED <<db, landed>> /\ (UNCHANGED <<request, worker>> \/ FanOut(p, DeleteRequest))
    BY <1>3 DEF Decide
  <2> QED BY <2>1, EarnedQuiet, EarnedFanOut
<1>4. CASE ReadSecret(p)
  BY <1>4, EarnedFanOut DEF ReadSecret
<1>5. ASSUME NEW r \in Replicas, ReplicaStep(p, r) PROVE EarnedInv'
  <2>1. CASE ReadRecord(p, r) \/ CheckReplica(p, r)
    BY <2>1, EarnedQuiet DEF ReadRecord, CheckReplica
  <2>2. CASE Apply(p, r)
    <3>1. /\ \A q \in Replicas : landed[q] \subseteq landed'[q]
          /\ request[p].op = "write" => request[p].data \in landed'[r]
      BY <2>2, CarryOutLands DEF Apply, EarnedInv, TypeInv
    <3>2. /\ UNCHANGED <<db, request>>
          /\ worker' = [worker EXCEPT ![p][r] = "applied"]
      BY <2>2 DEF Apply, WorkerBecomes
    <3> QED BY <3>1, <3>2
        DEF EarnedInv, SuccessIsEarned, WorkersEarned, WriteDone, TypeInv, TypeOK
  <2>3. CASE Reply(p, r)
    BY <2>3, EarnedWorker DEF Reply, Working, WriteDone
  <2>4. CASE RecordResult(p, r)
    BY <2>4, EarnedRecording DEF RecordResult
  <2> QED BY <1>5, <2>1, <2>2, <2>3, <2>4 DEF ReplicaStep
<1> QED BY <1>1, <1>2, <1>3, <1>4, <1>5 DEF Step

LEMMA FaultEarned ==
  ASSUME EarnedInv, TypeInv', NEW p \in Runs, Fault(p)
  PROVE  EarnedInv'
<1> USE DEF world, copies, gathered, sending, result
<1>1. CASE CheckSourceConfused(p) \/ Cancel(p)
  BY <1>1, EarnedQuiet DEF CheckSourceConfused, SourceSeen, Cancel
<1>2. CASE Crash(p)
  BY <1>2, EarnedReset DEF Crash
<1>3. ASSUME NEW r \in Replicas,
             \/ LoseReply(p, r) \/ Refuse(p, r) \/ GiveUp(p, r)
             \/ DeleteConfused(p, r) \/ RecordFails(p, r)
      PROVE  EarnedInv'
  <2>1. CASE LoseReply(p, r) \/ Refuse(p, r) \/ GiveUp(p, r)
    BY <2>1, EarnedWorker DEF LoseReply, Refuse, GiveUp
  <2>2. CASE DeleteConfused(p, r)
    BY <2>2, EarnedWorker DEF DeleteConfused
  <2>3. CASE RecordFails(p, r)
    BY <2>3, EarnedRecording DEF RecordFails
  <2> QED BY <1>3, <2>1, <2>2, <2>3
<1> QED BY <1>1, <1>2, <1>3 DEF Fault

LEMMA EnvironmentEarned ==
  ASSUME EarnedInv, TypeInv', Environment
  PROVE  EarnedInv'
<1> USE DEF world, copies, runs
<1>1. CASE PutSource \/ RecreateSource \/ SoftDeleteSource \/ DestroySource
  BY <1>1, EarnedQuiet
  DEF PutSource, RecreateSource, SoftDeleteSource, DestroySource, SourceBecomes
<1>2. CASE LandLate
  <2> PICK m \in late : CarryOut(m.to, m.what) /\ UNCHANGED <<db, runs>>
    BY <1>2 DEF LandLate
  <2>1. m.to \in Replicas
    BY DEF EarnedInv, TypeInv, TypeOK, LateRequests
  <2>2. \A q \in Replicas : landed[q] \subseteq landed'[q]
    BY <2>1, CarryOutLands DEF EarnedInv, TypeInv
  <2> QED BY <2>2 DEF EarnedInv, SuccessIsEarned, WorkersEarned, WriteDone
<1>3. ASSUME NEW r \in Replicas, DeleteReplicaCopy(r) PROVE EarnedInv'
  BY <1>3, EarnedQuiet DEF DeleteReplicaCopy
<1> QED BY <1>1, <1>2, <1>3 DEF Environment

LEMMA InitEarned == Init => EarnedInv
BY InitTypeInv
DEF Init, EarnedInv, SuccessIsEarned, WorkersEarned, WriteDone, Everywhere,
    NoRecord, NoRequest

LEMMA NextEarned == EarnedInv /\ [Next]_vars => EarnedInv'
<1> SUFFICES ASSUME EarnedInv, [Next]_vars PROVE EarnedInv'
  OBVIOUS
<1>1. TypeInv'
  BY NextTypeInv DEF EarnedInv
<1>2. CASE Next
  BY <1>1, <1>2, StepEarned, FaultEarned, EnvironmentEarned DEF Next
<1>3. CASE UNCHANGED vars
  BY <1>1, <1>3, EarnedQuiet DEF vars
<1> QED BY <1>2, <1>3

\* A row says success only for data that was written to its replica, for any
\* number of replicas and of runs that overlap, and whatever faults strike.
THEOREM SuccessEarned == Spec => []SuccessIsEarned
<1>1. EarnedInv => SuccessIsEarned
  BY DEF EarnedInv
<1> QED BY <1>1, InitEarned, NextEarned, PTL DEF Spec
-----------------------------------------------------------------------------
(***************************************************************************)
(* Faults are counted up only, so what has struck stays struck.            *)
(***************************************************************************)
LEMMA StruckStays ==
  ASSUME TypeOK, NEW K, UNCHANGED faults \/ (\E f \in FaultKinds : Strikes(f)), Struck(K)
  PROVE  Struck(K)'
<1>1. CASE UNCHANGED faults
  BY <1>1 DEF Struck
<1>2. ASSUME NEW f \in FaultKinds, Strikes(f) PROVE Struck(K)'
  <2>1. f \in Faults /\ faults' = [faults EXCEPT ![f] = @ + 1] /\ faults \in [Faults -> Nat]
    BY <1>2 DEF Strikes, TypeOK
  <2>2. PICK g \in K \cap Faults : faults[g] > 0
    BY DEF Struck
  <2>3. faults'[g] > 0
    BY <2>1, <2>2
  <2> QED BY <2>3 DEF Struck
<1> QED BY <1>1, <1>2

LEMMA StrikesStruck ==
  ASSUME TypeOK, NEW f, Strikes(f), NEW K, f \in K PROVE Struck(K)'
<1>1. f \in Faults /\ faults' = [faults EXCEPT ![f] = @ + 1] /\ faults \in [Faults -> Nat]
  BY DEF Strikes, TypeOK
<1>2. faults'[f] > 0
  BY <1>1
<1> QED BY <1>1, <1>2 DEF Struck

LEMMA NewStrikes ==
  ASSUME [Next]_vars, ~RecreateSource
  PROVE  UNCHANGED faults \/ \E f \in FaultKinds \ {"recreate"} : Strikes(f)
<1> USE DEF FaultKinds, VaultCallFails
<1>1. ASSUME NEW p \in Runs, Step(p)
      PROVE  UNCHANGED faults \/ \E f \in FaultKinds \ {"recreate"} : Strikes(f)
  BY <1>1
  DEF Step, Start, CheckSource, ReadMetadata, Decide, ReadSecret, CallFails, Collect,
      CollectCancelled, ReplicaStep, ReadRecord, CheckReplica, Apply, Reply, RecordResult
<1>2. ASSUME NEW p \in Runs, Fault(p)
      PROVE  UNCHANGED faults \/ \E f \in FaultKinds \ {"recreate"} : Strikes(f)
  BY <1>2
  DEF Fault, CheckSourceConfused, Crash, Cancel, LoseReply, Refuse, GiveUp, DeleteConfused,
      RecordFails
<1>3. CASE Environment
  BY <1>3
  DEF Environment, PutSource, SoftDeleteSource, DestroySource, LandLate, DeleteReplicaCopy
<1> QED BY <1>1, <1>2, <1>3 DEF Next, vars

LEMMA NextStrikes == [Next]_vars => UNCHANGED faults \/ \E f \in FaultKinds : Strikes(f)
BY NewStrikes DEF RecreateSource, FaultKinds

-----------------------------------------------------------------------------
(***************************************************************************)
(* How a run moves: the part of its control that the data depends on.      *)
(***************************************************************************)
Before == {"idle", "records", "source", "metadata", "existence", "read", "done"}

\* In these phases the source was seen.
SourceThere(p) == pc[p] \in {"metadata", "existence"} => seen[p].exists

Stays(p)    == pc'[p] = pc[p] /\ request'[p] = request[p] /\ seen'[p] = seen[p]
Elsewhere(p) == pc'[p] \in Before /\ SourceThere(p)'
ToAbsent(p) == /\ pc'[p] = "decide" /\ pc[p] = "source"
               /\ ~HasMetadata(source) \/ Strikes("confused404")
ToPresent(p) == pc'[p] = "decide" /\ seen'[p].exists
ToDelete(p) == /\ pc[p] = "decide" /\ ~seen[p].exists
               /\ pc'[p] = "fanout" /\ request'[p] = DeleteRequest
ToWrite(p)  == /\ pc[p] = "read" /\ pc'[p] = "fanout" /\ IsLive(source)
               /\ request'[p] = WriteRequest(source)
ToRecord(p) == pc[p] = "fanout" /\ pc'[p] = "record" /\ request'[p] = request[p]

Control(p) == \/ Stays(p) \/ Elsewhere(p) \/ ToAbsent(p) \/ ToPresent(p)
              \/ ToDelete(p) \/ ToWrite(p) \/ ToRecord(p)

LEMMA StepControl ==
  ASSUME TypeOK, NEW p \in Runs, SourceThere(p), Step(p) PROVE Control(p)
<1> USE DEF TypeOK, Control, Before, SourceThere
<1>1. CASE Start(p)
  BY <1>1 DEF Start, Reset, Elsewhere
<1>2. CASE CheckSource(p)
  BY <1>2 DEF CheckSource, SourceSeen, Elsewhere, ToAbsent, Sighting
<1>3. CASE ReadMetadata(p)
  BY <1>3 DEF ReadMetadata, Elsewhere, Sighting
<1>4. CASE Decide(p)
  <2>1. CASE pc'[p] = "done"
    BY <2>1 DEF Elsewhere
  <2>2. CASE pc'[p] = "read"
    BY <2>2 DEF Elsewhere
  <2>3. CASE pc'[p] # "done" /\ pc'[p] # "read"
    <3>1. /\ pc[p] = "decide" /\ FanOut(p, DeleteRequest)
          /\ MakeDecision(records[p], seen[p], found[p]) = "delete"
      BY <1>4, <2>3 DEF Decide, Finish
    <3>2. ~seen[p].exists
      BY <3>1 DEF MakeDecision
    <3> QED BY <3>1, <3>2 DEF FanOut, ToDelete
  <2> QED BY <2>1, <2>2, <2>3
<1>5. CASE ReadSecret(p)
  BY <1>5 DEF ReadSecret, FanOut, ToWrite
<1>6. CASE CallFails(p) \/ CollectCancelled(p)
  BY <1>6 DEF CallFails, CollectCancelled, Finish, Elsewhere
<1>7. CASE Collect(p)
  BY <1>7 DEF Collect, ToRecord, sending
<1>8. ASSUME NEW r \in Replicas, ReplicaStep(p, r) PROVE Control(p)
  <2>1. CASE ReadRecord(p, r)
    BY <2>1 DEF ReadRecord, Advance, Elsewhere
  <2>2. CASE CheckReplica(p, r)
    <3>1. pc[p] = "existence" /\ UNCHANGED <<seen, request>>
          /\ pc' = [pc EXCEPT ![p] = IF todo[p] = {r} THEN "decide" ELSE @]
      BY <2>2 DEF CheckReplica, Advance, sending
    <3> QED BY <3>1 DEF Stays, ToPresent
  <2>3. CASE Apply(p, r) \/ Reply(p, r)
    BY <2>3 DEF Apply, Reply, WorkerBecomes, Stays, gathered
  <2>4. CASE RecordResult(p, r)
    <3>1. /\ UNCHANGED <<seen, request>>
          /\ pc' = [pc EXCEPT ![p] = IF todo[p] = {r} THEN "done" ELSE @]
      BY <2>4 DEF RecordResult, Recording, Advance, gathered, sending
    <3> QED BY <3>1 DEF Stays, Elsewhere
  <2> QED BY <1>8, <2>1, <2>2, <2>3, <2>4 DEF ReplicaStep
<1> QED BY <1>1, <1>2, <1>3, <1>4, <1>5, <1>6, <1>7, <1>8 DEF Step

LEMMA FaultControl ==
  ASSUME TypeOK, NEW p \in Runs, SourceThere(p), Fault(p) PROVE Control(p)
<1> USE DEF TypeOK, Control, Before, SourceThere
<1>1. CASE CheckSourceConfused(p)
  BY <1>1 DEF CheckSourceConfused, SourceSeen, ToAbsent
<1>2. CASE Crash(p)
  BY <1>2 DEF Crash, Reset, Elsewhere
<1>3. CASE Cancel(p)
  BY <1>3 DEF Cancel, Stays, gathered, sending
<1>4. ASSUME NEW r \in Replicas,
             LoseReply(p, r) \/ Refuse(p, r) \/ GiveUp(p, r) \/ DeleteConfused(p, r)
      PROVE  Control(p)
  BY <1>4 DEF LoseReply, Refuse, GiveUp, DeleteConfused, WorkerBecomes, Stays, gathered
<1>5. ASSUME NEW r \in Replicas, RecordFails(p, r) PROVE Control(p)
  <2>1. /\ UNCHANGED <<seen, request>>
        /\ pc' = [pc EXCEPT ![p] = IF todo[p] = {r} THEN "done" ELSE @]
    BY <1>5 DEF RecordFails, Recording, Advance, gathered, sending
  <2> QED BY <2>1 DEF Stays, Elsewhere
<1> QED BY <1>1, <1>2, <1>3, <1>4, <1>5 DEF Fault

LEMMA OthersStay ==
  ASSUME TypeOK, NEW p \in Runs, NEW q \in Runs, q # p, Step(q) \/ Fault(q)
  PROVE  Stays(p) /\ records'[p] = records[p]
<1> USE DEF TypeOK, Stays, gathered, sending
<1>1. CASE Start(q) \/ Crash(q)
  BY <1>1 DEF Start, Crash, Reset
<1>2. CASE \/ CheckSource(q) \/ ReadMetadata(q) \/ Decide(q) \/ ReadSecret(q) \/ CallFails(q)
           \/ Collect(q) \/ CollectCancelled(q) \/ CheckSourceConfused(q) \/ Cancel(q)
  BY <1>2
  DEF CheckSource, SourceSeen, ReadMetadata, Decide, ReadSecret, CallFails, Collect,
      CollectCancelled, CheckSourceConfused, Cancel, Finish, FanOut
<1>3. ASSUME NEW r \in Replicas,
             \/ ReplicaStep(q, r) \/ LoseReply(q, r) \/ Refuse(q, r) \/ GiveUp(q, r)
             \/ DeleteConfused(q, r) \/ RecordFails(q, r)
      PROVE  Stays(p) /\ records'[p] = records[p]
  <2>1. CASE ReadRecord(q, r)
    BY <2>1 DEF ReadRecord, Advance
  <2>2. CASE CheckReplica(q, r)
    BY <2>2 DEF CheckReplica, Advance
  <2>3. CASE \/ Apply(q, r) \/ Reply(q, r) \/ LoseReply(q, r) \/ Refuse(q, r) \/ GiveUp(q, r)
             \/ DeleteConfused(q, r)
    BY <2>3 DEF Apply, Reply, LoseReply, Refuse, GiveUp, DeleteConfused, WorkerBecomes
  <2>4. CASE RecordResult(q, r) \/ RecordFails(q, r)
    BY <2>4 DEF RecordResult, RecordFails, Recording, Advance
  <2> QED BY <1>3, <2>1, <2>2, <2>3, <2>4 DEF ReplicaStep
<1> QED BY <1>1, <1>2, <1>3 DEF Step, Fault

LEMMA OutsideStays ==
  ASSUME Environment \/ UNCHANGED vars, NEW p \in Runs
  PROVE  Stays(p) /\ records'[p] = records[p]
BY DEF Environment, PutSource, RecreateSource, SoftDeleteSource, DestroySource, LandLate,
       DeleteReplicaCopy, SourceBecomes, runs, vars, Stays

LEMMA EveryControl ==
  ASSUME TypeOK, NEW p \in Runs, SourceThere(p), [Next]_vars PROVE Control(p)
<1>1. ASSUME NEW q \in Runs, Step(q) \/ Fault(q) PROVE Control(p)
  BY <1>1, StepControl, FaultControl, OthersStay DEF Control
<1> QED BY <1>1, OutsideStays DEF Next, Control

\* The rows a run has read are those it decides by, and it deletes for a row.
RecordsSettled(p) ==
  /\ \A r \in Replicas : records'[p][r] \in {records[p][r], db[r], NoRecord}
  /\ pc'[p] = "decide" => records'[p] = records[p]
  /\ ToDelete(p) => \E r \in Replicas : HasRecord(records[p][r])

LEMMA EveryRecords ==
  ASSUME TypeOK, NEW p \in Runs, [Next]_vars PROVE RecordsSettled(p)
<1> USE DEF TypeOK, RecordsSettled, ToDelete
<1>1. CASE Start(p) \/ Crash(p)
  BY <1>1 DEF Start, Crash, Reset, Everywhere
<1>2. CASE Decide(p)
  <2>1. CASE pc'[p] = "fanout"
    <3>1. records' = records /\ MakeDecision(records[p], seen[p], found[p]) = "delete"
      BY <1>2, <2>1 DEF Decide, Finish, gathered
    <3> QED BY <2>1, <3>1 DEF MakeDecision
  <2>2. CASE pc'[p] # "fanout"
    BY <1>2, <2>2 DEF Decide, gathered
  <2> QED BY <2>1, <2>2
<1>3. CASE \/ CheckSource(p) \/ ReadMetadata(p) \/ ReadSecret(p) \/ CallFails(p)
           \/ Collect(p) \/ CollectCancelled(p) \/ CheckSourceConfused(p) \/ Cancel(p)
  BY <1>3
  DEF CheckSource, SourceSeen, ReadMetadata, ReadSecret, CallFails, SourceGone, Finish,
      Collect, CollectCancelled, CheckSourceConfused, Cancel, gathered
<1>4. ASSUME NEW r \in Replicas,
             \/ ReplicaStep(p, r) \/ LoseReply(p, r) \/ Refuse(p, r) \/ GiveUp(p, r)
             \/ DeleteConfused(p, r) \/ RecordFails(p, r)
      PROVE  RecordsSettled(p)
  <2>1. CASE ReadRecord(p, r)
    BY <2>1 DEF ReadRecord, Advance
  <2>2. CASE ~ReadRecord(p, r)
    BY <1>4, <2>2
    DEF ReplicaStep, CheckReplica, Apply, Reply, LoseReply, Refuse, GiveUp, DeleteConfused,
        WorkerBecomes, RecordResult, RecordFails, Recording, Advance, gathered
  <2> QED BY <2>1, <2>2
<1>5. ASSUME Stays(p), records'[p] = records[p] PROVE RecordsSettled(p)
  BY <1>5 DEF Stays
<1> QED BY <1>1, <1>2, <1>3, <1>4, <1>5, OthersStay, OutsideStays DEF Next, Step, Fault

-----------------------------------------------------------------------------
(***************************************************************************)
(* What a step does to the source and to the copies.                       *)
(***************************************************************************)
control == <<pc, request, seen>>

Still == UNCHANGED <<source, written, replica, landed, late>>
Carries(p, r) ==
  /\ pc[p] = "fanout" /\ CarryOut(r, request[p])
  /\ UNCHANGED <<source, written, late, db, control>>
Defers(p, r) ==
  /\ pc[p] = "fanout"
  /\ late' = late \cup {[to |-> r, what |-> request[p]]} /\ Strikes("lateWrite")
  /\ UNCHANGED <<source, written, replica, landed, db, control>>
LandsLate ==
  \E m \in late : /\ late' = late \ {m} /\ CarryOut(m.to, m.what)
                  /\ UNCHANGED <<source, written, db, faults, control>>
OwnersWrite ==
  /\ \/ (HasMetadata(source) \/ written = 0) /\ UNCHANGED faults
     \/ written > 0 /\ ~HasMetadata(source) /\ RecreateSource
  /\ IsLive(source') /\ source'.data = written + 1 /\ written' = written + 1
  /\ UNCHANGED <<replica, landed, late, db, control>>
OwnersRemove ==
  /\ HasMetadata(source) /\ ~IsLive(source') /\ written' = written
  /\ HasMetadata(source') => source'.data = source.data
  /\ UNCHANGED faults
  /\ UNCHANGED <<replica, landed, late, db, control>>
LosesCopy(r) ==
  /\ ~IsLive(replica'[r]) /\ \A q \in Replicas : q # r => replica'[q] = replica[q]
  /\ HasMetadata(replica'[r]) => /\ HasMetadata(replica[r]) /\ Strikes("replicaSoftDelete")
                                 /\ replica'[r].data = replica[r].data
  /\ Strikes("replicaDelete") \/ Strikes("replicaSoftDelete")
  /\ UNCHANGED <<source, written, landed, late, db, control>>

LEMMA Effects ==
  ASSUME TypeOK, [Next]_vars
  PROVE  \/ Still
         \/ \E p \in Runs, r \in Replicas : Carries(p, r) \/ Defers(p, r)
         \/ LandsLate \/ OwnersWrite \/ OwnersRemove
         \/ \E r \in Replicas : LosesCopy(r)
<1> USE DEF world, copies, gathered, sending, result, runs, control
<1>1. ASSUME NEW p \in Runs, Step(p)
      PROVE  Still \/ \E r \in Replicas : Carries(p, r)
  <2>1. ASSUME NEW r \in Replicas, ReplicaStep(p, r) PROVE Still \/ Carries(p, r)
    BY <2>1
    DEF ReplicaStep, ReadRecord, CheckReplica, Apply, Reply, RecordResult, Recording,
        WorkerBecomes, Working, Still, Carries
  <2>2. CASE Start(p) \/ CheckSource(p) \/ ReadMetadata(p) \/ Decide(p) \/ ReadSecret(p)
             \/ CallFails(p) \/ Collect(p) \/ CollectCancelled(p)
    BY <2>2
    DEF Start, CheckSource, SourceSeen, ReadMetadata, Decide, ReadSecret, CallFails, Collect,
        CollectCancelled, Still
  <2> QED BY <1>1, <2>1, <2>2 DEF Step
<1>2. ASSUME NEW p \in Runs, Fault(p)
      PROVE  Still \/ \E r \in Replicas : Defers(p, r)
  <2>1. ASSUME NEW r \in Replicas, GiveUp(p, r) PROVE Defers(p, r)
    BY <2>1 DEF GiveUp, Working, WorkerBecomes, Defers
  <2>2. ASSUME NEW r \in Replicas,
               LoseReply(p, r) \/ Refuse(p, r) \/ DeleteConfused(p, r) \/ RecordFails(p, r)
        PROVE  Still
    BY <2>2 DEF LoseReply, Refuse, DeleteConfused, RecordFails, Recording, WorkerBecomes, Still
  <2>3. CASE CheckSourceConfused(p) \/ Crash(p) \/ Cancel(p)
    BY <2>3 DEF CheckSourceConfused, SourceSeen, Crash, Cancel, Still
  <2> QED BY <1>2, <2>1, <2>2, <2>3 DEF Fault
<1>3. CASE PutSource \/ RecreateSource
  BY <1>3 DEF PutSource, RecreateSource, SourceBecomes, OwnersWrite, IsLive
<1>4. CASE SoftDeleteSource \/ DestroySource
  <2>1. source \in Secret
    BY DEF TypeOK
  <2>2. CASE SoftDeleteSource
    <3>1. /\ source'.state = "soft" /\ source'.data = source.data /\ IsLive(source)
      BY <2>1, <2>2 DEF SoftDeleteSource, SourceBecomes, Secret
    <3> QED BY <2>2, <3>1 DEF SoftDeleteSource, SourceBecomes, OwnersRemove, IsLive, HasMetadata
  <2>3. CASE DestroySource
    BY <2>3 DEF DestroySource, SourceBecomes, OwnersRemove, IsLive, HasMetadata, NoSecret
  <2> QED BY <1>4, <2>2, <2>3
<1>5. CASE LandLate
  BY <1>5 DEF LandLate, LandsLate
<1>6. ASSUME NEW r \in Replicas, DeleteReplicaCopy(r) PROVE LosesCopy(r)
  <2>1. replica \in [Replicas -> Copy] /\ replica[r] \in Copy
    BY DEF TypeOK
  <2>2. \/ replica' = [replica EXCEPT ![r] = NoCopy]
        \/ /\ Strikes("replicaSoftDelete")
           /\ replica' = [replica EXCEPT ![r] = [replica[r] EXCEPT !.state = "soft"]]
    BY <1>6 DEF DeleteReplicaCopy
  <2>3. /\ ~IsLive(replica'[r]) /\ \A q \in Replicas : q # r => replica'[q] = replica[q]
        /\ HasMetadata(replica'[r]) => /\ Strikes("replicaSoftDelete")
                                       /\ replica'[r].data = replica[r].data
    BY <2>1, <2>2 DEF IsLive, HasMetadata, NoCopy, Copy
  <2> QED BY <1>6, <2>3 DEF DeleteReplicaCopy, LosesCopy, IsLive, HasMetadata
<1>7. CASE UNCHANGED vars
  BY <1>7 DEF vars, Still
<1> QED BY <1>1, <1>2, <1>3, <1>4, <1>5, <1>6, <1>7 DEF Next, Environment

LEMMA CarryOutEffect ==
  ASSUME TypeOK, NEW r \in Replicas, NEW req \in Request, CarryOut(r, req)
  PROVE  /\ \A q \in Replicas : q # r => replica'[q] = replica[q] /\ landed'[q] = landed[q]
         /\ req.op = "write" => /\ IsLive(replica'[r]) /\ replica'[r].data = req.data
                                /\ landed'[r] = landed[r] \cup {req.data}
         /\ req.op # "write" => ~HasMetadata(replica'[r]) /\ landed' = landed
BY DEF CarryOut, CarriedOut, TypeOK, IsLive, HasMetadata, NoCopy

\* A row changes to what the worker of its replica has come to.
Settles(p, r) ==
  /\ pc[p] = "record"
  /\ db' = [db EXCEPT ![r] = RowAfter(request[p], worker[p][r] = "ok")]

LEMMA RowChanges ==
  [Next]_vars => UNCHANGED db \/ \E p \in Runs, r \in Replicas : (Settles(p, r) /\ Still)
<1> SUFFICES ASSUME [Next]_vars
             PROVE  UNCHANGED db \/ \E p \in Runs, r \in Replicas : (Settles(p, r) /\ Still)
  OBVIOUS
<1> USE DEF world, copies, gathered, sending, result, runs
<1>1. ASSUME NEW p \in Runs, Step(p)
      PROVE  UNCHANGED db \/ \E r \in Replicas : (Settles(p, r) /\ Still)
  <2>1. ASSUME NEW r \in Replicas, ReplicaStep(p, r)
        PROVE  UNCHANGED db \/ (Settles(p, r) /\ Still)
    <3>1. CASE RecordResult(p, r)
      BY <3>1 DEF RecordResult, Recording, Settles, Still
    <3>2. CASE ReadRecord(p, r) \/ CheckReplica(p, r) \/ Apply(p, r) \/ Reply(p, r)
      BY <3>2 DEF ReadRecord, CheckReplica, Apply, Reply, WorkerBecomes
    <3> QED BY <2>1, <3>1, <3>2 DEF ReplicaStep
  <2>2. CASE Start(p) \/ CheckSource(p) \/ ReadMetadata(p) \/ Decide(p) \/ ReadSecret(p)
             \/ CallFails(p) \/ Collect(p) \/ CollectCancelled(p)
    BY <2>2
    DEF Start, CheckSource, SourceSeen, ReadMetadata, Decide, ReadSecret, CallFails, Collect,
        CollectCancelled
  <2> QED BY <1>1, <2>1, <2>2 DEF Step
<1>2. ASSUME NEW p \in Runs, Fault(p)
      PROVE  UNCHANGED db \/ \E r \in Replicas : (Settles(p, r) /\ Still)
  <2>1. ASSUME NEW r \in Replicas,
               LoseReply(p, r) \/ Refuse(p, r) \/ GiveUp(p, r) \/ DeleteConfused(p, r)
        PROVE  UNCHANGED db
    BY <2>1 DEF LoseReply, Refuse, GiveUp, DeleteConfused, WorkerBecomes
  <2>2. ASSUME NEW r \in Replicas, RecordFails(p, r)
        PROVE  UNCHANGED db \/ (Settles(p, r) /\ Still)
    BY <2>2 DEF RecordFails, Recording, Settles, Still
  <2>3. CASE CheckSourceConfused(p) \/ Crash(p) \/ Cancel(p)
    BY <2>3 DEF CheckSourceConfused, SourceSeen, Crash, Cancel
  <2> QED BY <1>2, <2>1, <2>2, <2>3 DEF Fault
<1>3. CASE Environment \/ UNCHANGED vars
  BY <1>3
  DEF Environment, PutSource, RecreateSource, SoftDeleteSource, DestroySource, LandLate,
      DeleteReplicaCopy, SourceBecomes, vars
<1> QED BY <1>1, <1>2, <1>3 DEF Next

-----------------------------------------------------------------------------
(***************************************************************************)
(* Overlapping runs implement ReplicaStore.  A request to write carries    *)
(* what was in the source.  A run deletes for a row that it has read and   *)
(* for a source that it then found gone: no row is older than the first    *)
(* write of the source, so the source had been written, and its metadata   *)
(* deleted.  That stays so for good, and the request may take its time.    *)
(***************************************************************************)
SourceKnown == HasMetadata(source) => source.data = written /\ written >= 1
SourcesThere == \A p \in Runs : SourceThere(p)

Writing(p)  == pc[p] \in {"fanout", "record"} /\ request[p].op = "write"
WritesKnown == \A p \in Runs : Writing(p) => request[p].data \in 1 .. written
LateKnown   == \A m \in late : m.what.op = "write" => m.what.data \in 1 .. written

\* Before the first write of the source there is nothing to delete for.
NothingYet == written = 0 =>
  /\ late = {} /\ \A r \in Replicas : ~HasRecord(db[r])
  /\ \A p \in Runs : /\ pc[p] \notin {"fanout", "record"}
                     /\ \A r \in Replicas : ~HasRecord(records[p][r])

Entitled(p) ==
  /\ pc[p] = "decide" /\ ~seen[p].exists =>
       Dropped \/ \A r \in Replicas : ~HasRecord(records[p][r])
  /\ pc[p] = "fanout" /\ request[p].op # "write" => Dropped
RemovalsEntitled ==
  /\ \A p \in Runs : Entitled(p)
  /\ \A m \in late : m.what.op # "write" => Dropped

StoreInv == /\ EarnedInv /\ SourceKnown /\ SourcesThere
            /\ WritesKnown /\ LateKnown /\ NothingYet
            /\ ~Struck({"confused404"}) => RemovalsEntitled

LEMMA NextSources ==
  ASSUME TypeOK, SourcesThere, [Next]_vars PROVE SourcesThere'
<1> SUFFICES ASSUME NEW p \in Runs PROVE SourceThere(p)'
  BY DEF SourcesThere
<1>1. Control(p) /\ SourceThere(p)
  BY EveryControl DEF SourcesThere
<1> QED BY <1>1
    DEF Control, Stays, Elsewhere, ToAbsent, ToPresent, ToDelete, ToWrite, ToRecord, SourceThere

LEMMA NextSourceKnown ==
  ASSUME TypeOK, SourceKnown, [Next]_vars PROVE SourceKnown'
<1>1. written \in Nat
  BY MaxWritesAssumption DEF TypeOK, Data
<1>2. CASE OwnersWrite
  BY <1>1, <1>2 DEF OwnersWrite, SourceKnown
<1>3. CASE OwnersRemove
  BY <1>3 DEF OwnersRemove, SourceKnown
<1>4. CASE UNCHANGED <<source, written>>
  BY <1>4 DEF SourceKnown
<1> QED BY <1>2, <1>3, <1>4, Effects
        DEF Still, Carries, Defers, LandsLate, LosesCopy

\* Only RecreateSource counts the fault that Dropped looks at.
LEMMA DroppedTold ==
  ASSUME TypeOK, [Next]_vars, ~RecreateSource
  PROVE  Struck({"recreate"})' = Struck({"recreate"})
<1>1. CASE UNCHANGED faults
  BY <1>1 DEF Struck
<1>2. ASSUME NEW f \in FaultKinds \ {"recreate"}, Strikes(f)
      PROVE  Struck({"recreate"})' = Struck({"recreate"})
  <2>1. "recreate" \in Faults => faults'["recreate"] = faults["recreate"]
    BY <1>2 DEF Strikes, TypeOK
  <2> QED BY <2>1 DEF Struck
<1> QED BY <1>1, <1>2, NewStrikes

LEMMA DroppedStays ==
  ASSUME TypeOK, [Next]_vars, Dropped PROVE Dropped'
<1>1. CASE Struck({"recreate"})
  BY <1>1, NextStrikes, StruckStays DEF Dropped
<1>2. CASE RecreateSource
  BY <1>2, StrikesStruck DEF RecreateSource, Dropped
<1>3. CASE ~Struck({"recreate"}) /\ ~RecreateSource
  <2>1. written > 0 /\ ~HasMetadata(source)
    BY <1>3 DEF Dropped
  <2>2. UNCHANGED <<source, written>>
    BY <1>3, <2>1, Effects
    DEF Still, Carries, Defers, LandsLate, LosesCopy, OwnersWrite, OwnersRemove
  <2> QED BY <2>1, <2>2 DEF Dropped
<1> QED BY <1>1, <1>2, <1>3

LEMMA WrittenGrows ==
  ASSUME TypeOK, [Next]_vars
  PROVE  written \in Nat /\ written' \in Nat /\ written <= written'
<1>1. written \in Nat
  BY MaxWritesAssumption DEF TypeOK, Data
<1> QED BY <1>1, Effects
    DEF Still, Carries, Defers, LandsLate, LosesCopy, OwnersWrite, OwnersRemove

\* A request that travels late was a run's in its fan-out.
LEMMA LateFrom ==
  ASSUME TypeOK, [Next]_vars, NEW m \in late'
  PROVE  m \in late \/ \E p \in Runs : pc[p] = "fanout" /\ m.what = request[p]
BY Effects DEF Still, Carries, Defers, LandsLate, LosesCopy, OwnersWrite, OwnersRemove

LEMMA NextRequestsKnown ==
  ASSUME StoreInv, [Next]_vars PROVE WritesKnown' /\ LateKnown'
<1>1. TypeOK /\ WritesKnown /\ LateKnown /\ SourceKnown /\ SourcesThere
  BY DEF StoreInv, EarnedInv, TypeInv
<1>2. \A d \in 1 .. written : d \in 1 .. written'
  BY <1>1, WrittenGrows
<1>3. ASSUME NEW p \in Runs, Writing(p)' PROVE request'[p].data \in 1 .. written'
  <2>1. Control(p)
    BY <1>1, EveryControl DEF SourcesThere
  <2>2. CASE Stays(p) \/ ToRecord(p)
    BY <1>1, <1>2, <1>3, <2>2 DEF Stays, ToRecord, Writing, WritesKnown
  <2>3. CASE ToWrite(p)
    <3>1. request'[p].data = written /\ written >= 1 /\ written \in Nat
      BY <1>1, <2>3, WrittenGrows DEF ToWrite, WriteRequest, SourceKnown, IsLive, HasMetadata
    <3> QED BY <1>2, <3>1
  <2> QED BY <1>3, <2>1, <2>2, <2>3
      DEF Control, Elsewhere, ToAbsent, ToPresent, ToDelete, Before, Writing, DeleteRequest
<1>4. ASSUME NEW m \in late', m.what.op = "write" PROVE m.what.data \in 1 .. written'
  <2>1. CASE m \in late
    BY <1>1, <1>2, <1>4, <2>1 DEF LateKnown
  <2>2. ASSUME NEW p \in Runs, pc[p] = "fanout", m.what = request[p]
        PROVE  m.what.data \in 1 .. written'
    BY <1>1, <1>2, <1>4, <2>2 DEF WritesKnown, Writing
  <2> QED BY <1>1, <2>1, <2>2, LateFrom
<1> QED BY <1>3, <1>4 DEF WritesKnown, LateKnown

LEMMA NextNothingYet ==
  ASSUME StoreInv, [Next]_vars PROVE NothingYet'
<1> SUFFICES ASSUME written' = 0 PROVE NothingYet'
  BY DEF NothingYet
<1>1. TypeOK /\ SourceKnown /\ SourcesThere /\ NothingYet
  BY DEF StoreInv, EarnedInv, TypeInv
<1>2. /\ written = 0 /\ ~HasMetadata(source) /\ late = {}
      /\ \A r \in Replicas : ~HasRecord(db[r])
      /\ \A p \in Runs : /\ pc[p] \notin {"fanout", "record"}
                         /\ \A r \in Replicas : ~HasRecord(records[p][r])
  BY <1>1, WrittenGrows DEF SourceKnown, NothingYet
<1>3. late' = {}
  BY <1>1, <1>2, LateFrom
<1>4. UNCHANGED db
  BY <1>2, RowChanges DEF Settles
<1>5. ASSUME NEW p \in Runs
      PROVE  /\ pc'[p] \notin {"fanout", "record"}
             /\ \A r \in Replicas : ~HasRecord(records'[p][r])
  <2>1. Control(p) /\ RecordsSettled(p)
    BY <1>1, EveryControl, EveryRecords DEF SourcesThere
  <2>2. \A r \in Replicas : ~HasRecord(records'[p][r])
    BY <1>2, <2>1 DEF RecordsSettled, HasRecord, NoRecord
  <2>3. pc'[p] \notin {"fanout", "record"}
    BY <1>2, <2>1
    DEF Control, Stays, Elsewhere, Before, ToAbsent, ToPresent, ToDelete, ToWrite, ToRecord,
        RecordsSettled, IsLive, HasMetadata
  <2> QED BY <2>2, <2>3
<1> QED BY <1>2, <1>3, <1>4, <1>5 DEF NothingYet

LEMMA NextEntitled ==
  ASSUME StoreInv, [Next]_vars, ~Struck({"confused404"})' PROVE RemovalsEntitled'
<1>1. /\ TypeOK /\ SourcesThere /\ NothingYet /\ RemovalsEntitled
      /\ ~Strikes("confused404")
  <2>1. TypeOK
    BY DEF StoreInv, EarnedInv, TypeInv
  <2> QED BY <2>1, NextStrikes, StruckStays, StrikesStruck DEF StoreInv
<1>2. ASSUME NEW p \in Runs PROVE Entitled(p)'
  <2>1. Control(p) /\ RecordsSettled(p) /\ Entitled(p)
    BY <1>1, EveryControl, EveryRecords DEF SourcesThere, RemovalsEntitled
  <2>2. CASE Dropped
    BY <1>1, <2>2, DroppedStays DEF Entitled
  <2>3. CASE ~Dropped
    <3>1. CASE Stays(p)
      BY <2>1, <2>3, <3>1 DEF Stays, RecordsSettled, Entitled
    <3>2. CASE ToAbsent(p)
      <4>1. written = 0
        BY <1>1, <2>3, <3>2, WrittenGrows DEF ToAbsent, Dropped
      <4> QED BY <1>1, <2>1, <3>2, <4>1 DEF ToAbsent, NothingYet, RecordsSettled, Entitled
    <3>3. ~ToDelete(p)
      BY <2>1, <2>3 DEF ToDelete, RecordsSettled, Entitled
    <3> QED BY <2>1, <3>1, <3>2, <3>3
        DEF Control, Elsewhere, Before, ToPresent, ToWrite, ToRecord, WriteRequest, Entitled
  <2> QED BY <2>2, <2>3
<1>3. ASSUME NEW m \in late', m.what.op # "write" PROVE Dropped'
  BY <1>1, <1>3, LateFrom, DroppedStays DEF RemovalsEntitled, Entitled
<1> QED BY <1>2, <1>3 DEF RemovalsEntitled

LEMMA InitStoreInv == Init => StoreInv
<1> SUFFICES ASSUME Init PROVE StoreInv
  OBVIOUS
<1>1. EarnedInv
  BY InitEarned
<1>2. SourceKnown /\ SourcesThere /\ WritesKnown /\ LateKnown /\ NothingYet
  BY DEF Init, SourceKnown, HasMetadata, NoSecret, SourcesThere, SourceThere, WritesKnown,
         Writing, LateKnown, NothingYet, Everywhere, HasRecord, NoRecord
<1>3. RemovalsEntitled
  BY DEF Init, RemovalsEntitled, Entitled
<1> QED BY <1>1, <1>2, <1>3 DEF StoreInv

LEMMA NextStoreInv == StoreInv /\ [Next]_vars => StoreInv'
<1> SUFFICES ASSUME StoreInv, [Next]_vars PROVE StoreInv'
  OBVIOUS
<1>1. EarnedInv' /\ SourceKnown' /\ SourcesThere'
  BY NextEarned, NextSourceKnown, NextSources DEF StoreInv, EarnedInv, TypeInv
<1> QED BY <1>1, NextRequestsKnown, NextNothingYet, NextEntitled DEF StoreInv

\* Every step of the job is one that ReplicaStore allows, or leaves it alone.
LEMMA StoreSteps ==
  ASSUME StoreInv, [Next]_vars PROVE [Store!Next]_Store!vars
<1> DEFINE CopyOf(c) == IF IsLive(c) THEN c.data ELSE 0
           RowOf(d) == IF d.status = "success" THEN d.data ELSE 0
           Lost == Struck({"confused404", "replicaDelete", "replicaSoftDelete"})
<1> SUFFICES ASSUME ~Lost' PROVE [Store!Next]_Store!vars
  BY DEF Store!Next
<1>1. /\ TypeOK /\ EarnedInv /\ SourceKnown /\ WritesKnown /\ LateKnown /\ RemovalsEntitled
      /\ Lost' = Lost /\ written \in Nat /\ request \in [Runs -> Request]
  <2>1. TypeOK
    BY DEF StoreInv, EarnedInv, TypeInv
  <2>2. Lost' = Lost
    <3>1. ~Lost
      BY <2>1, NextStrikes, StruckStays
    <3> QED BY <3>1 DEF Struck
  <2>3. RemovalsEntitled
    <3>1. ~Struck({"confused404"})
      BY <2>2 DEF Struck
    <3> QED BY <3>1 DEF StoreInv
  <2> HIDE DEF Lost
  <2> QED BY <2>1, <2>2, <2>3, WrittenGrows DEF StoreInv, TypeOK
<1>2. CASE OwnersWrite
  <2>1. Dropped' = Dropped
    <3>1. CASE (HasMetadata(source) \/ written = 0) /\ UNCHANGED faults
      BY <1>1, <1>2, <3>1 DEF OwnersWrite, Dropped, Struck, IsLive, HasMetadata
    <3>2. CASE written > 0 /\ ~HasMetadata(source) /\ RecreateSource
      BY <1>1, <3>2, DroppedStays DEF Dropped
    <3> QED BY <1>2, <3>1, <3>2 DEF OwnersWrite
  <2> QED BY <1>1, <1>2, <2>1 DEF OwnersWrite, Store!Next, Store!Promised, Store!Own
<1>3. CASE OwnersRemove
  <2>1. written > 0 /\ (Dropped' = Dropped \/ Dropped' = TRUE)
    BY <1>1, <1>3 DEF OwnersRemove, SourceKnown, Dropped, Struck
  <2> QED BY <1>1, <1>3, <2>1
      DEF OwnersRemove, Store!Next, Store!Promised, Store!Own, Store!vars
<1>4. ASSUME UNCHANGED <<source, written>> PROVE Dropped' = Dropped
  <2>1. ~RecreateSource
    BY <1>1, <1>4 DEF RecreateSource, SourceBecomes
  <2> QED BY <1>1, <1>4, <2>1, DroppedTold DEF Dropped
<1>5. ASSUME NEW r \in Replicas, NEW req \in Request, CarryOut(r, req),
             UNCHANGED <<source, written, db>>,
             req.op = "write" => req.data \in 1 .. written,
             req.op # "write" => Dropped
      PROVE  [Store!Next]_Store!vars
  <2>1. /\ \A q \in Replicas : q # r => replica'[q] = replica[q] /\ landed'[q] = landed[q]
        /\ req.op = "write" => /\ IsLive(replica'[r]) /\ replica'[r].data = req.data
                               /\ landed'[r] = landed[r] \cup {req.data}
        /\ req.op # "write" => ~HasMetadata(replica'[r]) /\ landed' = landed
    BY <1>1, <1>5, CarryOutEffect
  <2>2. landed \in [Replicas -> SUBSET Data] /\ landed' \in [Replicas -> SUBSET Data]
    BY <1>1, NextTypeInv DEF EarnedInv, TypeInv, TypeOK
  <2>3. CASE req.op = "write"
    <3>1. [q \in Replicas |-> CopyOf(replica[q])]'
            = [[q \in Replicas |-> CopyOf(replica[q])] EXCEPT ![r] = req.data]
      BY <2>1, <2>3
    <3>2. landed' = [landed EXCEPT ![r] = @ \cup {req.data}]
      BY <2>1, <2>2, <2>3
    <3>3. Store!Store(r)
      BY <1>1, <1>4, <1>5, <2>3, <3>1, <3>2 DEF Store!Store
    <3> QED BY <3>3 DEF Store!Next, Store!Promised
  <2>4. CASE req.op # "write"
    <3>1. [q \in Replicas |-> CopyOf(replica[q])]'
            = [[q \in Replicas |-> CopyOf(replica[q])] EXCEPT ![r] = 0]
      BY <2>1, <2>4 DEF IsLive, HasMetadata
    <3>2. Store!Remove(r)
      BY <1>1, <1>4, <1>5, <2>1, <2>4, <3>1 DEF Store!Remove
    <3> QED BY <3>2 DEF Store!Next, Store!Promised
  <2> QED BY <2>3, <2>4
<1>6. ASSUME NEW p \in Runs, NEW r \in Replicas, Carries(p, r)
      PROVE  [Store!Next]_Store!vars
  <2>1. /\ pc[p] = "fanout" /\ CarryOut(r, request[p]) /\ request[p] \in Request
        /\ UNCHANGED <<source, written, db>>
    BY <1>1, <1>6 DEF Carries
  <2>2. /\ request[p].op = "write" => request[p].data \in 1 .. written
        /\ request[p].op # "write" => Dropped
    BY <1>1, <2>1 DEF WritesKnown, Writing, RemovalsEntitled, Entitled
  <2> QED BY <1>5, <2>1, <2>2
<1>7. CASE LandsLate
  <2>1. PICK m \in late : CarryOut(m.to, m.what) /\ UNCHANGED <<source, written, db>>
    BY <1>7 DEF LandsLate
  <2>2. m.to \in Replicas /\ m.what \in Request
    BY <1>1 DEF TypeOK, LateRequests
  <2> QED BY <1>1, <1>5, <2>1, <2>2 DEF LateKnown, RemovalsEntitled
<1>8. CASE UNCHANGED <<source, written, replica, landed>>
  <2>1. CASE UNCHANGED db
    BY <1>1, <1>4, <1>8, <2>1 DEF Store!vars
  <2>2. ASSUME NEW p \in Runs, NEW r \in Replicas, Settles(p, r)
        PROVE  [Store!Next]_Store!vars
    <3> DEFINE d == RowOf(RowAfter(request[p], worker[p][r] = "ok"))
    <3>1. d # 0 => WriteDone(p, r) /\ d = request[p].data
      BY <2>2 DEF Settles, RowAfter, WriteDone, NoRecord
    <3>2. d \in landed[r] \cup {0}
      BY <1>1, <3>1 DEF EarnedInv, WorkersEarned
    <3>3. [q \in Replicas |-> RowOf(db[q])]' = [[q \in Replicas |-> RowOf(db[q])] EXCEPT ![r] = d]
      BY <1>1, <2>2 DEF Settles, TypeOK
    <3> HIDE DEF d
    <3>4. Store!Record(r)
      BY <1>1, <1>4, <1>8, <3>2, <3>3 DEF Store!Record
    <3> QED BY <3>4 DEF Store!Next, Store!Promised
  <2> QED BY <2>1, <2>2, RowChanges
<1>9. ASSUME NEW r \in Replicas, LosesCopy(r) PROVE FALSE
  BY <1>1, <1>9, StrikesStruck DEF LosesCopy
<1> QED BY <1>1, <1>2, <1>3, <1>6, <1>7, <1>8, <1>9, Effects DEF Still, Defers

\* However many runs overlap, whatever crashes, fails or is carried out late: a
\* replica holds only what the source held, and loses its copy only after the
\* source's metadata was deleted, unless an error passed for an answer.
THEOREM ImplementsStore == Spec => IsReplicaStore
<1>1. Init => StoreInv /\ Store!Init
  <2> SUFFICES ASSUME Init PROVE Store!Init
    BY InitStoreInv
  <2>1. /\ ~Struck({"confused404", "replicaDelete", "replicaSoftDelete"})
        /\ ~Dropped
    BY DEF Init, Dropped, Struck
  <2> QED BY <2>1 DEF Init, Store!Init, Everywhere, IsLive, NoSecret, NoCopy, NoRecord
<1>2. StoreInv /\ [Next]_vars => StoreInv'
  BY NextStoreInv
<1>3. StoreInv /\ [Next]_vars => [Store!Next]_Store!vars
  BY StoreSteps
<1> QED BY <1>1, <1>2, <1>3, PTL DEF Spec, IsReplicaStore, Store!Spec
=============================================================================

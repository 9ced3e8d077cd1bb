------------------------------ MODULE SyncJob ------------------------------
(***************************************************************************)
(* The sync job of one secret (internal/service/job) with the calls it     *)
(* makes of MultiClusterVaultClient (internal/vault) and of the            *)
(* synced_secrets table (internal/repository).                             *)
(*                                                                         *)
(* A member of Runs is one scheduled "vault-sync sync once".  It executes  *)
(* the job of the secret again and again, each time in a new process: one  *)
(* member is a schedule that forbids overlapping runs, two are a schedule  *)
(* that starts a run while an older one still works.                       *)
(*                                                                         *)
(* One action is one call of another system, with the code up to the next  *)
(* call.  Between two actions of a run anything else may happen: owners    *)
(* change the source, another run takes a step, a fault strikes.           *)
(***************************************************************************)
EXTENDS SecretStore, FiniteSets, Functions

CONSTANTS
  Replicas,   \* the replica clusters, numbered in the order of their names
  Runs,
  Faults,     \* the faults that can strike
  MaxFaults   \* how many faults strike in a behaviour

FaultKinds ==
  { "dbFail",          \* a database call returns an error after its retries
    "vaultFail",       \* a call that reads from a Vault cluster fails
    "writeFail",       \* a replica refuses a change, or never receives it
    "lostReply",       \* a replica carries out a change, its reply is lost
    "lateWrite",       \* the caller gives up while the request still travels
    "confused404",     \* the text of another error contains "404"
    "crash",           \* the process is killed
    "cancel",          \* the context of the run is cancelled
    "recreate",        \* a secret whose metadata was deleted is created anew
    "replicaDelete",   \* someone else deletes the copy of a replica
    "replicaSoftDelete" }  \* ... its current version only

ASSUME ReplicasAssumption ==
  Replicas \subseteq Nat /\ Replicas # {} /\ IsFiniteSet(Replicas)
ASSUME FaultsAssumption == Faults \subseteq FaultKinds /\ MaxFaults \in Nat

VARIABLES
  source,     \* the secret in the main cluster
  written,    \* how often its owners have written it
  replica,    \* the copy of each replica
  landed,     \* history: the data ever written to each replica by a run
  late,       \* requests that still travel although their caller gave up
  db,         \* the synced_secrets row of each replica
  faults,     \* how often each fault has struck
  pc,         \* what a run does next
  todo,       \* the replicas its present loop has not come to
  records,    \* SyncState.RecordsByCluster
  seen,       \* SyncState.SourceExists and SourceVersion, with the data
  found,      \* the replicas for which SyncState.ReplicaExistence is true
  request,    \* what the run asks of every replica
  worker,     \* its goroutine for each replica
  cancelled,  \* its context is done
  outcome,    \* how its last execution ended
  status      \* SyncJobResult.Status of that execution

world    == <<source, written>>
copies   == <<replica, landed, late>>
gathered == <<records, seen, found>>
sending  == <<request, worker>>
result   == <<outcome, status>>
vars == <<source, written, replica, landed, late, db, faults, pc, todo,
          records, seen, found, request, worker, cancelled, outcome, status>>

Phases == {"idle", "records", "source", "metadata", "existence", "decide",
           "read", "fanout", "record", "done"}
AtRest(p) == pc[p] \in {"idle", "done"}

Sighting  == [exists : BOOLEAN, version : Data, data : Data]
NotSeen   == [exists |-> FALSE, version |-> 0, data |-> 0]
Outcomes  == {"none", "error", "noop", "synced", "deleted"}
Statuses  == {"none", "updated", "failed", "deleted", "error_deleting",
              "unmodified"}
WorkerStates == {"none", "sent", "applied", "ok", "failed"}
LateRequests == [to : Replicas, what : Request]

TypeOK ==
  /\ source \in Secret /\ written \in Data
  /\ replica \in [Replicas -> Copy]
  /\ landed \in [Replicas -> SUBSET Data]
  /\ late \subseteq LateRequests
  /\ db \in [Replicas -> Record]
  /\ faults \in [Faults -> Nat]
  /\ pc \in [Runs -> Phases]
  /\ todo \in [Runs -> SUBSET Replicas]
  /\ records \in [Runs -> [Replicas -> Record]]
  /\ seen \in [Runs -> Sighting]
  /\ found \in [Runs -> SUBSET Replicas]
  /\ request \in [Runs -> Request]
  /\ worker \in [Runs -> [Replicas -> WorkerStates]]
  /\ cancelled \in [Runs -> BOOLEAN]
  /\ outcome \in [Runs -> Outcomes]
  /\ status \in [Runs -> [Replicas -> Statuses]]

Everywhere(v) == [r \in Replicas |-> v]

Init ==
  /\ source = NoSecret /\ written = 0
  /\ replica = Everywhere(NoCopy) /\ landed = Everywhere({}) /\ late = {}
  /\ db = Everywhere(NoRecord)
  /\ faults = [f \in Faults |-> 0]
  /\ pc = [p \in Runs |-> "idle"]
  /\ todo = [p \in Runs |-> {}]
  /\ records = [p \in Runs |-> Everywhere(NoRecord)]
  /\ seen = [p \in Runs |-> NotSeen]
  /\ found = [p \in Runs |-> {}]
  /\ request = [p \in Runs |-> NoRequest]
  /\ worker = [p \in Runs |-> Everywhere("none")]
  /\ cancelled = [p \in Runs |-> FALSE]
  /\ outcome = [p \in Runs |-> "none"]
  /\ status = [p \in Runs |-> Everywhere("none")]

-----------------------------------------------------------------------------
\* Faults.

FaultsSoFar == FoldFunction(+, 0, faults)
Strikes(f) == /\ f \in Faults
              /\ FaultsSoFar < MaxFaults
              /\ faults' = [faults EXCEPT ![f] = @ + 1]
Struck(kinds) == \E f \in kinds \cap Faults : faults[f] > 0

\* A call of Vault fails because the cluster fails, or at once when the
\* context is done.
VaultCallFails(p, f) == \/ Strikes(f)
                        \/ cancelled[p] /\ UNCHANGED faults

-----------------------------------------------------------------------------
\* gatherCurrentState: the rows, the source, the copies.

Reset(p, phase) ==
  /\ pc' = [pc EXCEPT ![p] = phase]
  /\ todo' = [todo EXCEPT ![p] = IF phase = "idle" THEN {} ELSE Replicas]
  /\ records' = [records EXCEPT ![p] = Everywhere(NoRecord)]
  /\ seen' = [seen EXCEPT ![p] = NotSeen]
  /\ found' = [found EXCEPT ![p] = {}]
  /\ request' = [request EXCEPT ![p] = NoRequest]
  /\ worker' = [worker EXCEPT ![p] = Everywhere("none")]
  /\ cancelled' = [cancelled EXCEPT ![p] = FALSE]
  /\ outcome' = [outcome EXCEPT ![p] = "none"]
  /\ status' = [status EXCEPT ![p] = Everywhere("none")]

\* The schedule starts a run, and its orchestrator the job of this secret: it
\* may have been discovered, and deleted before the job looks for it.
Start(p) == AtRest(p) /\ Reset(p, "records")
            /\ UNCHANGED <<world, copies, db, faults>>

\* A loop over the replicas that goes on to phase next after the last one.
Advance(p, r, next) ==
  /\ todo' = [todo EXCEPT ![p] = @ \ {r}]
  /\ pc' = [pc EXCEPT ![p] = IF todo[p] = {r} THEN next ELSE @]

\* getDBRecords: the map of replicas is read in no particular order.
ReadRecord(p, r) ==
  /\ pc[p] = "records" /\ r \in todo[p]
  /\ records' = [records EXCEPT ![p][r] = db[r]]
  /\ Advance(p, r, "source")
  /\ UNCHANGED <<world, copies, db, faults, seen, found, sending, cancelled, result>>

SourceSeen(p, exists) ==
  /\ seen' = [seen EXCEPT ![p].exists = exists]
  /\ pc' = [pc EXCEPT ![p] = IF exists THEN "metadata" ELSE "decide"]
  /\ UNCHANGED <<world, copies, db, todo, records, found, sending, cancelled, result>>

\* Slip: a check that fails counts as "not there", as it does for a replica.
CheckSourceSwallowing(p) ==
  /\ pc[p] = "source"
  /\ \/ ~cancelled[p] /\ UNCHANGED faults /\ SourceSeen(p, HasMetadata(source))
     \/ VaultCallFails(p, "vaultFail") /\ SourceSeen(p, FALSE)

\* secretExists reads the metadata, which outlives a deleted version.
CheckSource(p) ==
  /\ pc[p] = "source" /\ ~cancelled[p]
  /\ SourceSeen(p, HasMetadata(source))
  /\ UNCHANGED faults

\* An error whose text contains "404" passes for an answer: no such secret.
CheckSourceConfused(p) ==
  /\ pc[p] = "source" /\ Strikes("confused404")
  /\ SourceSeen(p, FALSE)

ReadMetadata(p) ==
  /\ pc[p] = "metadata" /\ ~cancelled[p] /\ HasMetadata(source)
  /\ seen' = [seen EXCEPT ![p].version = source.version, ![p].data = source.data]
  /\ todo' = [todo EXCEPT ![p] = Replicas]
  /\ pc' = [pc EXCEPT ![p] = "existence"]
  /\ UNCHANGED <<world, copies, db, faults, records, found, sending, cancelled, result>>

\* checkReplicaExistence: a check that fails counts as "not there".
CheckReplica(p, r) ==
  /\ pc[p] = "existence" /\ r \in todo[p]
  /\ \/ /\ ~cancelled[p] /\ UNCHANGED faults
        /\ found' = IF HasMetadata(replica[r]) THEN [found EXCEPT ![p] = @ \cup {r}]
                    ELSE found
     \/ VaultCallFails(p, "vaultFail") /\ UNCHANGED found
  /\ Advance(p, r, "decide")
  /\ UNCHANGED <<world, copies, db, records, seen, sending, cancelled, result>>

-----------------------------------------------------------------------------
\* makeDecision, and the request it leads to.

\* Slip: the versions are compared the wrong way round.
MakeDecisionSwapped(recs, sight, there) ==
  LET outdated == \E r \in Replicas : recs[r].version > sight.version
      missing  == \E r \in Replicas : r \notin there
      all      == \A r \in Replicas : HasRecord(recs[r])
      some     == \E r \in Replicas : HasRecord(recs[r])
  IN IF sight.exists
       THEN IF all /\ ~outdated /\ ~missing THEN "noop" ELSE "sync"
       ELSE IF some THEN "delete" ELSE "noop"

\* Slip: what the replicas hold is not looked at.
MakeDecisionTrustingRows(recs, sight, there) ==
  LET outdated == \E r \in Replicas : recs[r].version < sight.version
      all      == \A r \in Replicas : HasRecord(recs[r])
      some     == \E r \in Replicas : HasRecord(recs[r])
  IN IF sight.exists THEN IF all /\ ~outdated THEN "noop" ELSE "sync"
     ELSE IF some THEN "delete" ELSE "noop"

\* Slip: a delete waits until every replica has a record.
MakeDecisionAllRows(recs, sight, there) ==
  LET outdated == \E r \in Replicas : recs[r].version < sight.version
      missing  == \E r \in Replicas : r \notin there
      all      == \A r \in Replicas : HasRecord(recs[r])
  IN IF sight.exists
       THEN IF all /\ ~outdated /\ ~missing THEN "noop" ELSE "sync"
       ELSE IF all THEN "delete" ELSE "noop"

MakeDecision(recs, sight, there) ==
  LET outdated == \E r \in Replicas : recs[r].version < sight.version
      missing  == \E r \in Replicas : r \notin there
      all      == \A r \in Replicas : HasRecord(recs[r])
      some     == \E r \in Replicas : HasRecord(recs[r])
  IN IF sight.exists
       THEN IF all /\ ~outdated /\ ~missing THEN "noop" ELSE "sync"
       ELSE IF some THEN "delete" ELSE "noop"

Finish(p, how) ==
  /\ pc' = [pc EXCEPT ![p] = "done"]
  /\ outcome' = [outcome EXCEPT ![p] = how]

\* replicaSyncHandler.executeSync: one goroutine for each replica.
FanOut(p, req) ==
  /\ request' = [request EXCEPT ![p] = req]
  /\ worker' = [worker EXCEPT ![p] = Everywhere("sent")]
  /\ pc' = [pc EXCEPT ![p] = "fanout"]

\* buildNoOpResult
NoOpStatus == Everywhere("unmodified")

Decide(p) ==
  LET decision == MakeDecision(records[p], seen[p], found[p])
  IN /\ pc[p] = "decide"
     /\ \/ /\ decision = "noop"
           /\ Finish(p, "noop")
           /\ status' = [status EXCEPT ![p] = NoOpStatus]
           /\ UNCHANGED sending
        \/ /\ decision = "sync"
           /\ pc' = [pc EXCEPT ![p] = "read"]
           /\ UNCHANGED <<sending, result>>
        \/ /\ decision = "delete"
           /\ FanOut(p, DeleteRequest)
           /\ UNCHANGED result
     /\ UNCHANGED <<world, copies, db, faults, todo, gathered, cancelled>>

\* SyncSecretToReplicas reads the source again, its version included.
ReadSecret(p) ==
  /\ pc[p] = "read" /\ ~cancelled[p] /\ IsLive(source)
  /\ FanOut(p, WriteRequest(source))
  /\ UNCHANGED <<world, copies, db, faults, todo, gathered, cancelled, result>>

\* A call whose error ends the job: no row is written, no status is reported.
SourceGone(p) == \/ pc[p] = "metadata" /\ ~HasMetadata(source)
                 \/ pc[p] = "read" /\ ~IsLive(source)
CallFails(p) ==
  /\ \/ pc[p] = "records" /\ Strikes("dbFail")
     \/ pc[p] \in {"source", "metadata", "read"} /\ VaultCallFails(p, "vaultFail")
     \/ SourceGone(p) /\ UNCHANGED faults
  /\ Finish(p, "error")
  /\ UNCHANGED <<world, copies, db, todo, gathered, sending, cancelled, status>>

-----------------------------------------------------------------------------
\* The goroutine of one replica, and the aggregation of the results.

Working(p, r, state) == pc[p] = "fanout" /\ worker[p][r] = state

CarryOut(r, req) ==
  /\ replica' = [replica EXCEPT ![r] = CarriedOut(req)]
  /\ landed' = IF req.op = "write" THEN [landed EXCEPT ![r] = @ \cup {req.data}]
               ELSE landed

WorkerBecomes(p, r, state) ==
  /\ worker' = [worker EXCEPT ![p][r] = state]
  /\ UNCHANGED <<world, db, pc, todo, gathered, request, cancelled, result>>

Apply(p, r) ==
  /\ Working(p, r, "sent")
  /\ CarryOut(r, request[p])
  /\ WorkerBecomes(p, r, "applied")
  /\ UNCHANGED <<late, faults>>

Reply(p, r) ==
  /\ Working(p, r, "applied")
  /\ WorkerBecomes(p, r, "ok")
  /\ UNCHANGED <<copies, faults>>

LoseReply(p, r) ==
  /\ Working(p, r, "applied") /\ VaultCallFails(p, "lostReply")
  /\ WorkerBecomes(p, r, "failed")
  /\ UNCHANGED copies

\* Slip: the status stays at the success that was set before the error.
RefuseUnnoticed(p, r) ==
  /\ Working(p, r, "sent") /\ VaultCallFails(p, "writeFail")
  /\ WorkerBecomes(p, r, "ok")
  /\ UNCHANGED copies

Refuse(p, r) ==
  /\ Working(p, r, "sent") /\ VaultCallFails(p, "writeFail")
  /\ WorkerBecomes(p, r, "failed")
  /\ UNCHANGED copies

GiveUp(p, r) ==
  /\ Working(p, r, "sent") /\ Strikes("lateWrite")
  /\ late' = late \cup {[to |-> r, what |-> request[p]]}
  /\ WorkerBecomes(p, r, "failed")
  /\ UNCHANGED <<replica, landed>>

\* checkSyncError: a delete that fails with a "404" in the error succeeded.
DeleteConfused(p, r) ==
  /\ Working(p, r, "sent") /\ request[p].op = "delete" /\ Strikes("confused404")
  /\ WorkerBecomes(p, r, "ok")
  /\ UNCHANGED copies

Collect(p) ==
  /\ pc[p] = "fanout"
  /\ \A r \in Replicas : worker[p][r] \in {"ok", "failed"}
  /\ pc' = [pc EXCEPT ![p] = "record"]
  /\ todo' = [todo EXCEPT ![p] = Replicas]
  /\ UNCHANGED <<world, copies, db, faults, gathered, sending, cancelled, result>>

\* aggregate sees the context done first and drops every result.
CollectCancelled(p) ==
  /\ pc[p] = "fanout" /\ cancelled[p]
  /\ Finish(p, "error")
  /\ UNCHANGED <<world, copies, db, faults, todo, gathered, sending, cancelled, status>>

-----------------------------------------------------------------------------
\* executeSync and executeDelete: the results, in the order of the clusters.

\* Slip: the status of a failed write stays at its first value.
RowAfterPending(req, ok) ==
  IF req.op = "write"
    THEN [version |-> req.version, data |-> req.data,
          status |-> IF ok THEN "success" ELSE "pending"]
    ELSE NoRecord

\* Slip: every row says success.
RowAfterSuccess(req, ok) ==
  IF req.op = "write"
    THEN [version |-> req.version, data |-> req.data, status |-> "success"]
    ELSE NoRecord

\* Slip: the row goes although the replica refused the delete.
RowAfterForgetting(req, ok) ==
  IF req.op = "write"
    THEN [version |-> req.version, data |-> req.data,
          status |-> IF ok THEN "success" ELSE "failed"]
    ELSE NoRecord

RowAfter(req, ok) ==
  CASE req.op = "write" -> [version |-> req.version, data |-> req.data,
                            status |-> IF ok THEN "success" ELSE "failed"]
    [] req.op # "write" /\ ok -> NoRecord
    [] OTHER -> [version |-> DeleteFailedVersion, data |-> 0, status |-> "failed"]

\* Slip: a row that could not be stored leaves the status as it was.
StatusAfterUnstored(req, ok, stored) ==
  IF req.op = "write" THEN IF ok THEN "updated" ELSE "failed"
  ELSE IF ok THEN "deleted" ELSE "error_deleting"

StatusAfter(req, ok, stored) ==
  CASE req.op = "write" -> IF ok /\ stored THEN "updated" ELSE "failed"
    [] OTHER -> IF ok THEN "deleted" ELSE "error_deleting"

Recording(p, r, stored) ==
  /\ pc[p] = "record" /\ r \in todo[p] /\ \A q \in todo[p] : r <= q
  /\ status' = [status EXCEPT ![p][r] =
                  StatusAfter(request[p], worker[p][r] = "ok", stored)]
  /\ Advance(p, r, "done")
  /\ outcome' = IF todo[p] = {r}
                THEN [outcome EXCEPT ![p] = IF request[p].op = "write"
                                            THEN "synced" ELSE "deleted"]
                ELSE outcome
  /\ UNCHANGED <<world, copies, gathered, sending, cancelled>>

RecordResult(p, r) ==
  /\ Recording(p, r, TRUE)
  /\ db' = [db EXCEPT ![r] = RowAfter(request[p], worker[p][r] = "ok")]
  /\ UNCHANGED faults

\* An error may hide a statement that the database has carried out.
RecordFails(p, r) ==
  /\ Recording(p, r, FALSE)
  /\ Strikes("dbFail")
  /\ db' \in {db, [db EXCEPT ![r] = RowAfter(request[p], worker[p][r] = "ok")]}

-----------------------------------------------------------------------------
\* What happens around the runs.

Crash(p) == ~AtRest(p) /\ Strikes("crash") /\ Reset(p, "idle")
            /\ UNCHANGED <<world, copies, db>>

Cancel(p) ==
  /\ ~AtRest(p) /\ ~cancelled[p] /\ Strikes("cancel")
  /\ cancelled' = [cancelled EXCEPT ![p] = TRUE]
  /\ UNCHANGED <<world, copies, db, pc, todo, gathered, sending, result>>

runs == <<pc, todo, records, seen, found, request, worker, cancelled, outcome, status>>

LandLate ==
  \E m \in late : /\ late' = late \ {m}
                  /\ CarryOut(m.to, m.what)
                  /\ UNCHANGED <<world, db, faults, runs>>

SourceBecomes(s, n) ==
  source' = s /\ written' = n /\ UNCHANGED <<copies, db, runs>>

PutSource ==
  /\ written < MaxWrites /\ (HasMetadata(source) \/ written = 0)
  /\ SourceBecomes([state |-> "live", version |-> source.version + 1,
                    data |-> written + 1], written + 1)
  /\ UNCHANGED faults

RecreateSource ==
  /\ 0 < written /\ written < MaxWrites /\ ~HasMetadata(source)
  /\ Strikes("recreate")
  /\ SourceBecomes([state |-> "live", version |-> 1, data |-> written + 1],
                   written + 1)

SoftDeleteSource ==
  /\ IsLive(source)
  /\ SourceBecomes([source EXCEPT !.state = "soft"], written)
  /\ UNCHANGED faults

DestroySource ==
  /\ HasMetadata(source)
  /\ SourceBecomes(NoSecret, written)
  /\ UNCHANGED faults

DeleteReplicaCopy(r) ==
  /\ IsLive(replica[r])
  /\ \/ Strikes("replicaDelete") /\ replica' = [replica EXCEPT ![r] = NoCopy]
     \/ Strikes("replicaSoftDelete") /\ replica' = [replica EXCEPT ![r].state = "soft"]
  /\ UNCHANGED <<world, landed, late, db, runs>>

-----------------------------------------------------------------------------
ReplicaStep(p, r) ==
  \/ ReadRecord(p, r) \/ CheckReplica(p, r)
  \/ Apply(p, r) \/ Reply(p, r) \/ RecordResult(p, r)
Step(p) ==
  \/ Start(p) \/ CheckSource(p) \/ ReadMetadata(p) \/ Decide(p) \/ ReadSecret(p)
  \/ CallFails(p) \/ Collect(p) \/ CollectCancelled(p)
  \/ \E r \in Replicas : ReplicaStep(p, r)
Fault(p) ==
  \/ CheckSourceConfused(p) \/ Crash(p) \/ Cancel(p)
  \/ \E r \in Replicas : \/ LoseReply(p, r) \/ Refuse(p, r) \/ GiveUp(p, r)
                         \/ DeleteConfused(p, r) \/ RecordFails(p, r)
Environment ==
  \/ PutSource \/ RecreateSource \/ SoftDeleteSource \/ DestroySource \/ LandLate
  \/ \E r \in Replicas : DeleteReplicaCopy(r)

Next == (\E p \in Runs : Step(p) \/ Fault(p)) \/ Environment
Spec == Init /\ [][Next]_vars

\* The schedule keeps starting runs, and a run that can take a step takes one.
FairSpec == Spec /\ \A p \in Runs : WF_vars(Step(p))

-----------------------------------------------------------------------------
(***************************************************************************)
(* Properties.                                                             *)
(***************************************************************************)

\* A row says success only for data that a run did write to that replica,
\* however runs overlap, requests arrive late and processes die
\* (syncSecretFuncFactory sets the success before it knows of an error).
SuccessIsEarned ==
  \A r \in Replicas : db[r].status = "success" => db[r].data \in landed[r]

\* While runs do not overlap, a replica never holds older data than its row
\* says was synced: rows are written after the fan-out, with what it wrote.
RowNeverAhead ==
  ~Struck({"lateWrite"}) =>
    \A r \in Replicas : db[r].status = "success" /\ IsLive(replica[r])
                          => replica[r].data >= db[r].data

\* A request landed late, an error passed for an answer, or a copy was deleted by
\* somebody else: no run can vouch for its replicas then.
Astray == Struck({"lateWrite", "confused404", "replicaDelete", "replicaSoftDelete"})

\* No copy is deleted while it holds what the source holds: a delete that
\* gatherCurrentState justified may be carried out after the secret was
\* created anew, but not after that new secret was synced.
NeverDeletesCurrentCopy ==
  [][\A r \in Replicas :
       /\ IsLive(replica[r]) /\ ~IsLive(replica'[r])
       /\ ~Astray'
       => ~IsLive(source) \/ source.data > replica[r].data]_vars

\* Runs that do not overlap keep a mirror of the source, through every crash,
\* failing call and lost reply, and whatever the owners do meanwhile.
Mirror == INSTANCE ReplicaMirror WITH
  latest <- written, live <- IsLive(source), held <- landed, astray <- Astray,
  copy <- [r \in Replicas |-> IF IsLive(replica[r]) THEN replica[r].data ELSE 0],
  recorded <- [r \in Replicas |-> IF db[r].status = "success" THEN db[r].data ELSE 0]
IsMirror == Mirror!Spec

\* Runs that overlap keep less, but they keep it through late requests as well:
\* no error, crash or slow run makes a replica hold what the source never held,
\* or takes a copy away while the source has never been without the secret.
Dropped == (written > 0 /\ ~HasMetadata(source)) \/ Struck({"recreate"})
Store == INSTANCE ReplicaStore WITH
  latest <- written, dropped <- Dropped, held <- landed,
  astray <- Struck({"confused404", "replicaDelete", "replicaSoftDelete"}),
  copy <- [r \in Replicas |-> IF IsLive(replica[r]) THEN replica[r].data ELSE 0],
  recorded <- [r \in Replicas |-> IF db[r].status = "success" THEN db[r].data ELSE 0]
IsReplicaStore == Store!Spec

\* Between runs every copy has a row, without which no later run would delete
\* it.  A crash, a cancelled run or a failing database breaks this.
CopiesTracked ==
  (\A p \in Runs : AtRest(p))
    /\ ~Struck({"crash", "cancel", "dbFail", "confused404", "lateWrite"})
  => \A r \in Replicas : HasMetadata(replica[r]) => HasRecord(db[r])

UpToDate(p, r) == IsLive(replica[r]) /\ replica[r].data >= seen[p].data

\* "No action needed - all replicas up to date": when a run ends so, each
\* replica holds what the run saw in the source, or lost it meanwhile.
NoOpUpToDate ==
  ~Struck({"writeFail", "cancel", "lateWrite", "recreate", "replicaSoftDelete"}) =>
    \A p \in Runs : pc[p] = "done" /\ outcome[p] = "noop" /\ seen[p].exists =>
      \A r \in Replicas : \/ UpToDate(p, r)
                            \/ /\ Struck({"replicaDelete"})
                               /\ ~HasMetadata(replica[r])

\* What a run that has ended reports of a replica is so in the database and
\* in the replica: updated, deleted, or kept for the next run to delete.
ReportTruthful ==
  \A p \in Runs : pc[p] = "done" => \A r \in Replicas :
    /\ status[p][r] = "updated" =>
         db[r].status = "success" /\ db[r].version = request[p].version
    /\ status[p][r] = "updated"
         /\ ~Struck({"lateWrite", "replicaDelete", "replicaSoftDelete"}) =>
         IsLive(replica[r]) /\ replica[r].data = request[p].data
    /\ status[p][r] = "deleted" /\ ~Struck({"confused404", "lateWrite"}) =>
         ~HasMetadata(replica[r])
    /\ status[p][r] = "error_deleting" /\ ~Struck({"dbFail"}) =>
         db[r].version = DeleteFailedVersion

\* A row goes only after its copy: a replica that refused a delete, or that no
\* run has asked, keeps the row by which a later run deletes its copy.  Without
\* it the copy would be nobody's.
RowGoesLast ==
  [][\A r \in Replicas :
       /\ HasRecord(db[r]) /\ ~HasRecord(db'[r])
       /\ ~Struck({"confused404", "lateWrite"})'
       => ~HasMetadata(replica[r])]_vars

\* A secret that has gone from the source goes from every replica as long as
\* one row remembers it, also when runs crash or the database fails.
Remembered == source.state = "absent" /\ \E r \in Replicas : HasRecord(db[r])
DeletionCarriedThrough ==
  \A r \in Replicas :
    Remembered ~> (~HasMetadata(replica[r]) \/ HasMetadata(source))

\* Once the owners and the faults leave off, every replica comes to hold the
\* source's data and keeps it: what a crash left half done is done again.
Mirrors ==
  <>[](IsLive(source) => \A r \in Replicas :
         IsLive(replica[r]) /\ replica[r].data = source.data)

-----------------------------------------------------------------------------
(***************************************************************************)
(* What the repository says of the job and the code does not keep.         *)
(***************************************************************************)

\* README.md:55 "NO-OP Already Synced" and the log line of buildNoOpResult, "No
\* action needed - all replicas up to date", with no fault excepted: a refused
\* write, or a secret that was created anew, makes it untrue.
NoOpMeansUpToDate ==
  \A p \in Runs : pc[p] = "done" /\ outcome[p] = "noop" /\ seen[p].exists =>
    \A r \in Replicas : UpToDate(p, r)
=============================================================================

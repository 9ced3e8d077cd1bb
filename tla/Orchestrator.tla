---------------------------- MODULE Orchestrator ----------------------------
(***************************************************************************)
(* SyncOrchestrator.StartSync (internal/service/orchestrator): it merges   *)
(* the discovered paths with those of the database, starts one goroutine   *)
(* for each, lets Concurrency of them execute their job at a time, and     *)
(* counts what they send over the jobResults channel.                      *)
(*                                                                         *)
(* A job is here what its Execute returns; SyncJob models how.  One        *)
(* behaviour is one StartSync.                                             *)
(***************************************************************************)
EXTENDS Integers, FiniteSets

CONSTANTS
  Paths,        \* the secret paths there are
  Concurrency   \* the capacity of the semaphore channel

ASSUME PathsAssumption == IsFiniteSet(Paths)
ASSUME ConcurrencyAssumption == Concurrency \in Nat

VARIABLES
  main,       \* what StartSync does next, or how it returned
  cancelled,  \* ctx is done
  total,      \* discoveredPaths, then allPathsToProcess
  unstarted,  \* those whose goroutine does not run yet
  job,        \* what the goroutine of a path does next
  returned,   \* what its Execute returned
  ran,        \* history: the paths whose job was executed
  slots,      \* the length of the semaphore channel
  wg,         \* the counter of the WaitGroup
  closer,     \* the goroutine that closes jobResults
  channel,    \* the results in jobResults
  closed,     \* jobResults is closed
  collected,  \* the paths of SyncResult.JobResults
  counts      \* the counters of SyncResult

vars == <<main, cancelled, total, unstarted, job, returned, ran, slots,
          wg, closer, channel, closed, collected, counts>>
tally == <<collected, counts>>
pipe  == <<closer, channel, closed>>

Returned == {"ok", "interrupted", "refused", "dbError"}
MainStates == {"start", "discover", "query", "spawn", "closer", "collect"} \cup Returned
JobStates  == {"none", "check", "acquire", "execute", "send", "release", "skip",
               "finish", "gone"}

\* SyncJobResult: "context" is an error that is context.Canceled or
\* context.DeadlineExceeded, "changed" stands for updated and deleted,
\* "failed" for failed and error_deleting.
JobResult == [error : {"none", "context", "other"},
              statuses : SUBSET {"changed", "failed", "unmodified"}]
NoResult  == [error |-> "none", statuses |-> {}]
Skipped   == [error |-> "context", statuses |-> {}]

\* What Execute can return, with "Create a failed result" for an error.  A
\* request that ran into its deadline is an error of the context as well.
\* A delete whose row stays reports "deleted" beside an error.
ExecutionResults ==
  { [error |-> "none",    statuses |-> {"unmodified"}],
    [error |-> "none",    statuses |-> {"changed"}],
    [error |-> "other",   statuses |-> {"changed"}],
    [error |-> "other",   statuses |-> {"changed", "failed"}],
    [error |-> "other",   statuses |-> {"failed"}],
    [error |-> "other",   statuses |-> {}],
    [error |-> "context", statuses |-> {}] }

Counters == {"skipped", "failed", "noop", "success"}

TypeOK ==
  /\ main \in MainStates
  /\ cancelled \in BOOLEAN
  /\ total \subseteq Paths /\ unstarted \subseteq Paths
  /\ job \in [Paths -> JobStates]
  /\ returned \in [Paths -> JobResult]
  /\ ran \subseteq Paths
  /\ slots \in Nat /\ wg \in Nat
  /\ closer \in {"none", "waiting", "gone"}
  /\ channel \subseteq [path : Paths, result : JobResult]
  /\ closed \in BOOLEAN
  /\ collected \subseteq Paths
  /\ counts \in [Counters -> Nat]

Init ==
  /\ main = "start"
  /\ cancelled \in BOOLEAN
  /\ total = {} /\ unstarted = {}
  /\ job = [j \in Paths |-> "none"]
  /\ returned = [j \in Paths |-> NoResult]
  /\ ran = {}
  /\ slots = 0 /\ wg = 0
  /\ closer = "none" /\ channel = {} /\ closed = FALSE
  /\ collected = {} /\ counts = [c \in Counters |-> 0]

-----------------------------------------------------------------------------
\* StartSync up to the goroutines.

MainMoves(from, to) == main = from /\ main' = to
NoJobs == UNCHANGED <<unstarted, job, returned, ran, slots, wg, pipe, tally>>

Begin ==
  /\ IF cancelled THEN MainMoves("start", "refused") ELSE MainMoves("start", "discover")
  /\ NoJobs /\ UNCHANGED <<cancelled, total>>

\* The error of DiscoverSecretsForSync is dropped, whatever it found so far is
\* used.
Discover ==
  /\ MainMoves("discover", "query")
  /\ total' \in SUBSET Paths
  /\ NoJobs /\ UNCHANGED cancelled

\* getAllSyncedPathsFromDB, mergePathSets and the return of an empty result.
Merge(synced) ==
  /\ total' = total \cup synced
  /\ unstarted' = total'
  /\ MainMoves("query", IF total' = {} THEN "ok" ELSE "spawn")
  /\ UNCHANGED <<cancelled, job, returned, ran, slots, wg, pipe, tally>>
Query == \E synced \in SUBSET Paths : Merge(synced)
QueryFails == MainMoves("query", "dbError") /\ NoJobs /\ UNCHANGED <<cancelled, total>>

\* runJobsInParallel: wg.Add(1) before the go statement.
Spawn(j) ==
  /\ main = "spawn" /\ j \in unstarted
  /\ wg' = wg + 1
  /\ job' = [job EXCEPT ![j] = "check"]
  /\ unstarted' = unstarted \ {j}
  /\ main' = IF unstarted = {j} THEN "closer" ELSE main
  /\ UNCHANGED <<cancelled, total, returned, ran, slots, pipe, tally>>

StartCloser ==
  /\ MainMoves("closer", "collect")
  /\ closer' = "waiting"
  /\ UNCHANGED <<cancelled, total, unstarted, job, returned, ran, slots, wg,
                 channel, closed, tally>>

\* Slip: the channel is closed without waiting for the group.
CloseWithoutWaiting ==
  /\ closer = "waiting"
  /\ closer' = "gone" /\ closed' = TRUE
  /\ UNCHANGED <<main, cancelled, total, unstarted, job, returned, ran, slots, wg,
                 channel, tally>>

CloseResults ==
  /\ closer = "waiting" /\ wg = 0
  /\ closer' = "gone" /\ closed' = TRUE
  /\ UNCHANGED <<main, cancelled, total, unstarted, job, returned, ran, slots, wg,
                 channel, tally>>

-----------------------------------------------------------------------------
\* executeJob.

JobMoves(j, from, to) == job[j] = from /\ job' = [job EXCEPT ![j] = to]
JobFrame == UNCHANGED <<main, cancelled, total, unstarted, closer, closed, tally>>

CheckContext(j) ==
  /\ IF cancelled THEN JobMoves(j, "check", "skip") ELSE JobMoves(j, "check", "acquire")
  /\ JobFrame /\ UNCHANGED <<returned, ran, slots, wg, channel>>

\* Slip: a channel of capacity Concurrency + 1.
AcquireOneMore(j) ==
  /\ JobMoves(j, "acquire", "execute")
  /\ slots <= Concurrency
  /\ slots' = slots + 1
  /\ JobFrame /\ UNCHANGED <<returned, ran, wg, channel>>

Acquire(j) ==
  /\ JobMoves(j, "acquire", "execute")
  /\ slots < Concurrency
  /\ slots' = slots + 1
  /\ JobFrame /\ UNCHANGED <<returned, ran, wg, channel>>

\* select takes either case when the context is done and a slot is free.
AcquireCancelled(j) ==
  /\ cancelled /\ JobMoves(j, "acquire", "skip")
  /\ JobFrame /\ UNCHANGED <<returned, ran, slots, wg, channel>>

\* Slip: an error returns before a result is sent.
ExecuteWithoutResult(j) ==
  /\ \E res \in ExecutionResults :
       /\ JobMoves(j, "execute", IF res.error # "none" THEN "release" ELSE "send")
       /\ returned' = [returned EXCEPT ![j] = res]
  /\ ran' = ran \cup {j}
  /\ JobFrame /\ UNCHANGED <<slots, wg, channel>>

Execute(j) ==
  /\ JobMoves(j, "execute", "send")
  /\ \E res \in ExecutionResults : returned' = [returned EXCEPT ![j] = res]
  /\ ran' = ran \cup {j}
  /\ JobFrame /\ UNCHANGED <<slots, wg, channel>>

\* Slip: the channel has as many places as the semaphore.
HasRoomPerSlot == Cardinality(channel) < Concurrency

HasRoom == Cardinality(channel) < Cardinality(total)

SendResult(j) ==
  /\ JobMoves(j, "send", "release") /\ HasRoom
  /\ channel' = channel \cup {[path |-> j, result |-> returned[j]]}
  /\ returned' = [returned EXCEPT ![j] = NoResult]   \* out of scope
  /\ JobFrame /\ UNCHANGED <<ran, slots, wg>>

\* Slip: the release is deferred before the slot is taken.
SkipReleasing(j) ==
  /\ JobMoves(j, "skip", "release") /\ HasRoom
  /\ channel' = channel \cup {[path |-> j, result |-> Skipped]}
  /\ JobFrame /\ UNCHANGED <<returned, ran, slots, wg>>

\* cancelJob
SendSkipped(j) ==
  /\ JobMoves(j, "skip", "finish") /\ HasRoom
  /\ channel' = channel \cup {[path |-> j, result |-> Skipped]}
  /\ JobFrame /\ UNCHANGED <<returned, ran, slots, wg>>

\* Slip: the slot is kept.
ReleaseNothing(j) ==
  /\ JobMoves(j, "release", "finish")
  /\ JobFrame /\ UNCHANGED <<returned, ran, slots, wg, channel>>

\* The deferred functions, last one first.
Release(j) ==
  /\ JobMoves(j, "release", "finish")
  /\ slots' = slots - 1
  /\ JobFrame /\ UNCHANGED <<returned, ran, wg, channel>>

Done(j) ==
  /\ JobMoves(j, "finish", "gone")
  /\ wg' = wg - 1
  /\ JobFrame /\ UNCHANGED <<returned, ran, slots, channel>>

-----------------------------------------------------------------------------
\* collectResults and categorizeJobResult.

Categorize(res) ==
  CASE res.error = "context"       -> "skipped"
    [] "failed" \in res.statuses   -> "failed"
    [] "changed" \in res.statuses  -> "success"
    [] OTHER                       -> "noop"

Receive(m) ==
  /\ main = "collect" /\ m \in channel
  /\ channel' = channel \ {m}
  /\ collected' = collected \cup {m.path}
  /\ counts' = [counts EXCEPT ![Categorize(m.result)] = @ + 1]
  /\ UNCHANGED <<main, cancelled, total, unstarted, job, returned, ran, slots, wg,
                 closer, closed>>

\* Slip: the context is not looked at after the jobs.
ReturnNil ==
  /\ closed /\ channel = {}
  /\ MainMoves("collect", "ok")
  /\ NoJobs /\ UNCHANGED <<cancelled, total>>

Return ==
  /\ closed /\ channel = {}
  /\ MainMoves("collect", IF cancelled THEN "interrupted" ELSE "ok")
  /\ NoJobs /\ UNCHANGED <<cancelled, total>>

Cancel ==
  /\ ~cancelled /\ main \notin Returned
  /\ cancelled' = TRUE
  /\ NoJobs /\ UNCHANGED <<main, total>>

-----------------------------------------------------------------------------
JobStep(j) == \/ CheckContext(j) \/ Acquire(j) \/ AcquireCancelled(j) \/ Execute(j)
              \/ SendResult(j) \/ SendSkipped(j) \/ Release(j) \/ Done(j)
MainStep == \/ Begin \/ Discover \/ Query \/ QueryFails \/ StartCloser \/ Return
            \/ \E j \in Paths : Spawn(j)
            \/ \E m \in channel : Receive(m)

\* StartSync has returned and no goroutine is left: the only way to stop.
Terminated == /\ main \in Returned /\ \A j \in Paths : job[j] \in {"none", "gone"}
              /\ UNCHANGED vars

Next == MainStep \/ CloseResults \/ Cancel \/ Terminated \/ \E j \in Paths : JobStep(j)
Spec == Init /\ [][Next]_vars

\* The Go scheduler runs every goroutine that can run.
FairSpec == /\ Spec /\ WF_vars(MainStep) /\ WF_vars(CloseResults)
            /\ \A j \in Paths : WF_vars(JobStep(j))

-----------------------------------------------------------------------------
(***************************************************************************)
(* Properties.                                                             *)
(***************************************************************************)

\* How a run looks to who knows nothing of goroutines and channels.
LoopStage == IF main \in {"start", "discover", "query"} THEN "planning"
             ELSE IF main \in Returned THEN main ELSE "looping"
Waiting == {j \in Paths : j \in unstarted \/ job[j] \in {"check", "acquire"}}
AtWork  == {j \in Paths : job[j] \in {"execute", "send", "release"}}
LeftOut == {j \in Paths : job[j] \in {"skip", "finish", "gone"} /\ j \notin ran}

\* No more than Concurrency jobs work on the clusters at any moment.
WithinLimit == Cardinality(AtWork) <= Concurrency

\* Nothing is sent on jobResults once it is closed, which would end the
\* process with every result lost.
NoSendOnClosed ==
  closed => \A j \in Paths : job[j] \notin {"check", "acquire", "execute", "send", "skip"}

\* When StartSync returns a result, each path was counted once and only once,
\* and nothing it started still runs, holds a slot or waits to be received.
Counted == counts["skipped"] + counts["failed"] + counts["noop"] + counts["success"]
EveryPathAccountedFor ==
  main \in {"ok", "interrupted"} =>
    /\ collected = total /\ Counted = Cardinality(total)
    /\ channel = {} /\ slots = 0
    /\ \A j \in Paths : job[j] = IF j \in total THEN "gone" ELSE "none"

\* A nil error says that every discovered and every recorded path was worked
\* on: no job was left out because of a context that was done.
NilErrorMeansAllRan == main = "ok" => ran = total

\* A goroutine never waits to send: jobResults has a place for every path that is
\* processed, recorded ones that were not discovered included, so that nobody
\* holds a slot for the sake of a slow collector (runJobsInParallel).
SendersHaveRoom == \A j \in Paths : job[j] \in {"send", "skip"} => HasRoom

\* Goroutines, closer and collector never all wait for each other: before the
\* end one of them can go on, with any limit but 0.
MainCanMove == \/ main \in {"start", "discover", "query", "closer"}
               \/ main = "spawn" /\ unstarted # {}
               \/ main = "collect" /\ (channel # {} \/ closed)
JobCanMove(j) == \/ job[j] \in {"check", "execute", "release", "finish"}
                 \/ job[j] = "acquire" /\ (cancelled \/ slots < Concurrency)
                 \/ job[j] \in {"send", "skip"} /\ HasRoom
NeverStuck ==
  0 < Concurrency =>
    \/ main \in Returned /\ \A j \in Paths : job[j] \in {"none", "gone"}
    \/ MainCanMove \/ (closer = "waiting" /\ wg = 0) \/ \E j \in Paths : JobCanMove(j)

\* StartSync returns, since every slot that is taken is released: it "processes
\* all secrets regardless of concurrency limit" (orchestrator_test.go:143).  With
\* the limit 0, which config.go:20 lets through when there is no entry, it does
\* not.
Returns == <>(main \in Returned)

\* All its goroutines, the semaphore, the group and the channel do what a plain
\* loop with a limit would do: only Concurrency secrets at a time, none twice,
\* none left out unless interrupted, and no return while one is worked on.
Loop == INSTANCE ParallelLoop WITH
  Items <- Paths, Limit <- Concurrency, stage <- LoopStage, interrupted <- cancelled,
  todo <- Waiting, running <- AtWork, worked <- ran, skipped <- LeftOut
IsParallelLoop == Loop!Spec

-----------------------------------------------------------------------------
(***************************************************************************)
(* What the repository says of the orchestrator and the code does not keep.*)
(***************************************************************************)

\* orchestrator.go:242 "Create a failed result" for a job that ended in an
\* error: it is counted as a failed one.
ErrorsCountAsFailed ==
  [][\A m \in channel :
       Receive(m) /\ m.result.error = "other" /\ m.result.statuses = {}
       => counts'["failed"] = counts["failed"] + 1]_vars
=============================================================================

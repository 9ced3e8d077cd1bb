---------------------- MODULE OrchestratorResult_proof ----------------------
(***************************************************************************)
(* For every set of secrets and every limit: what StartSync returns counts *)
(* each path once, and a nil error means that each was worked on.          *)
(*                                                                         *)
(* The argument follows one result: a goroutine that is past its send has  *)
(* its result either in the channel or among the collected ones, never in  *)
(* both.  A group of nobody (Orchestrator_proof) and an empty channel then *)
(* leave nothing but collected results.                                    *)
(***************************************************************************)
EXTENDS Orchestrator_proof

Past == {"release", "finish", "gone"}
Sent == {m.path : m \in channel}
Delivered == {j \in Paths : job[j] \in Past}

ResultsKept ==
  /\ Delivered = Sent \cup collected /\ Sent \cap collected = {}
  /\ \A m, n \in channel : m.path = n.path => m = n
  /\ Counted = Cardinality(collected)

\* Exactly the paths that are known and no longer wait for it were started.
StartedAll ==
  /\ main \in {"spawn", "closer", "collect", "ok", "interrupted"} =>
       unstarted \subseteq total
         /\ \A j \in Paths : job[j] # "none" <=> j \in total \ unstarted
  /\ main \in {"closer", "collect", "ok", "interrupted"} => unstarted = {}

ReturnedLast == main \in {"ok", "interrupted"} => Runners = {} /\ channel = {}

RanAll ==
  /\ \A j \in ran : job[j] \in Past \cup {"send"}
  /\ ~cancelled => \A j \in Paths : /\ job[j] # "skip"
                                    /\ job[j] \in Past \cup {"send"} => j \in ran
  /\ main = "ok" => ran = total

ResultInv == LimitInv /\ ResultsKept /\ StartedAll /\ ReturnedLast /\ RanAll

-----------------------------------------------------------------------------
LEMMA InitResultInv == Init => ResultInv
<1> SUFFICES ASSUME Init PROVE ResultInv OBVIOUS
<1>1. Delivered = {} /\ Sent = {} /\ collected = {} /\ channel = {}
  BY DEF Init, Delivered, Sent, Past
<1>2. Counted = 0
  BY DEF Init, Counted, Counters
<1>3. ResultsKept
  BY <1>1, <1>2, FS_EmptySet DEF ResultsKept
<1>4. StartedAll /\ ReturnedLast /\ RanAll
  BY DEF Init, StartedAll, ReturnedLast, RanAll, Past
<1> QED BY <1>3, <1>4, InitLimitInv DEF ResultInv

\* Steps after which every goroutine and every result is where it was.
LEMMA ResultsUnmoved ==
  ASSUME ResultInv, UNCHANGED <<job, channel, tally>>
  PROVE  ResultsKept' /\ Runners' = Runners /\ Delivered' = Delivered
BY DEF ResultInv, ResultsKept, Delivered, Sent, Counted, tally, Runners

LEMMA JobStepResultInv ==
  ASSUME ResultInv, NEW j \in Paths, JobStep(j) PROVE ResultInv'
<1> USE DEF ResultInv
<1>0. LimitInv'
  BY JobStepLimitInv
<1>1. /\ UNCHANGED <<main, cancelled, total, unstarted, closer, closed, collected, counts>>
      /\ job[j] \notin {"none", "gone"} /\ job'[j] # "none"
      /\ \A k \in Paths \ {j} : job'[k] = job[k]
      /\ job \in [Paths -> JobStates] /\ ran \subseteq Paths
  BY DEF JobStep, CheckContext, Acquire, AcquireCancelled, Execute, SendResult,
         SendSkipped, Release, Done, JobMoves, JobFrame, tally, LimitInv, TypeOK
<1>2. j \in Runners
  BY <1>1 DEF Runners, Running, Holding, JobStates
<1>3. StartedAll' /\ ReturnedLast'
  BY <1>1, <1>2 DEF StartedAll, ReturnedLast
<1>4. main # "ok"
  BY <1>2 DEF ReturnedLast
<1>5. Counted' = Counted
  BY <1>1 DEF Counted
<1>6. CASE SendResult(j) \/ SendSkipped(j)
  <2>1. PICK res : channel' = channel \cup {[path |-> j, result |-> res]}
    BY <1>6 DEF SendResult, SendSkipped
  <2>2. job[j] \in {"send", "skip"} /\ job'[j] \in Past /\ ran' = ran
    BY <1>1, <1>6 DEF SendResult, SendSkipped, JobMoves, Past
  <2>3. Sent' = Sent \cup {j}
    <3>1. [path |-> j, result |-> res].path = j
      OBVIOUS
    <3>2. Sent' = Sent \cup {[path |-> j, result |-> res].path}
      BY <2>1, Zenon DEF Sent
    <3> QED BY <3>1, <3>2
  <2>4. Delivered' = Delivered \cup {j} /\ j \notin Delivered
    BY <1>1, <2>2 DEF Delivered, Past
  <2>5. j \notin Sent \cup collected
    BY <2>4 DEF ResultsKept
  <2>6. \A m, n \in channel' : m.path = n.path => m = n
    BY <2>1, <2>5 DEF ResultsKept, Sent
  <2>7. ResultsKept'
    <3>1. /\ Delivered' = Sent' \cup collected' /\ Sent' \cap collected' = {}
      BY <1>1, <2>3, <2>4, <2>5 DEF ResultsKept
    <3> QED BY <3>1, <1>1, <1>5, <2>6 DEF ResultsKept
  <2>8. RanAll'
    <3>1. ~cancelled => job[j] = "send"
      BY <2>2 DEF RanAll
    <3> QED BY <3>1, <1>1, <1>4, <2>2 DEF RanAll, Past
  <2> QED BY <1>0, <1>3, <2>7, <2>8
<1>7. CASE Execute(j)
  <2>1. channel' = channel /\ job[j] = "execute" /\ job'[j] = "send" /\ ran' = ran \cup {j}
    BY <1>1, <1>7 DEF Execute, JobMoves
  <2>2. Delivered' = Delivered /\ Sent' = Sent
    BY <1>1, <2>1 DEF Delivered, Sent, Past
  <2>3. ResultsKept'
    BY <1>1, <1>5, <2>1, <2>2 DEF ResultsKept
  <2>4. RanAll'
    BY <1>1, <1>4, <2>1 DEF RanAll, Past
  <2> QED BY <1>0, <1>3, <2>3, <2>4
<1>8. CASE CheckContext(j) \/ Acquire(j) \/ AcquireCancelled(j) \/ Release(j) \/ Done(j)
  <2>1. /\ channel' = channel /\ ran' = ran
        /\ \/ job[j] \in Past /\ job'[j] \in Past
           \/ job[j] \notin Past \cup {"send"} /\ job'[j] \notin Past \cup {"send"}
        /\ job'[j] = "skip" => cancelled
    BY <1>1, <1>8 DEF CheckContext, Acquire, AcquireCancelled, Release, Done, JobMoves, Past
  <2>2. Delivered' = Delivered /\ Sent' = Sent
    BY <1>1, <2>1 DEF Delivered, Sent, Past
  <2>3. ResultsKept'
    BY <1>1, <1>5, <2>1, <2>2 DEF ResultsKept
  <2>4. RanAll'
    BY <1>1, <1>4, <2>1 DEF RanAll
  <2> QED BY <1>0, <1>3, <2>3, <2>4
<1> QED BY <1>6, <1>7, <1>8 DEF JobStep

LEMMA SpawnResultInv ==
  ASSUME ResultInv, NEW j \in Paths, Spawn(j) PROVE ResultInv'
<1> USE DEF ResultInv
<1>0. LimitInv'
  BY SpawnLimitInv DEF LimitInv
<1>1. /\ job' = [job EXCEPT ![j] = "check"] /\ job \in [Paths -> JobStates]
      /\ unstarted' = unstarted \ {j} /\ j \in unstarted
      /\ main = "spawn" /\ main' = IF unstarted = {j} THEN "closer" ELSE main
      /\ UNCHANGED <<cancelled, total, ran, channel, collected, counts>>
  BY DEF Spawn, pipe, tally, LimitInv, TypeOK
<1>2. job[j] = "none"
  BY <1>1 DEF LimitInv, StartedOnce
<1>3. Delivered' = Delivered /\ Sent' = Sent /\ Counted' = Counted
  BY <1>1, <1>2 DEF Delivered, Past, Sent, Counted
<1>4. ResultsKept'
  BY <1>1, <1>3 DEF ResultsKept
<1>5. StartedAll' /\ ReturnedLast' /\ RanAll'
  BY <1>1, <1>2 DEF StartedAll, ReturnedLast, RanAll, Past
<1> QED BY <1>0, <1>4, <1>5

LEMMA ReceiveResultInv ==
  ASSUME ResultInv, NEW m \in channel, Receive(m) PROVE ResultInv'
<1> USE DEF ResultInv
<1>0. LimitInv'
  BY MainStepLimitInv DEF MainStep
<1>1. /\ main = "collect" /\ channel' = channel \ {m}
      /\ collected' = collected \cup {m.path}
      /\ counts' = [counts EXCEPT ![Categorize(m.result)] = @ + 1]
      /\ UNCHANGED <<main, cancelled, total, unstarted, job, ran>>
  BY DEF Receive
<1>2. m.path \in Sent /\ m.path \notin collected /\ IsFiniteSet(collected)
  <2>1. collected \subseteq Paths
    BY DEF LimitInv, TypeOK
  <2> QED BY <2>1, PathsAssumption, FS_Subset DEF Sent, ResultsKept
<1>3. Sent' = Sent \ {m.path}
  BY <1>1 DEF Sent, ResultsKept
<1>4. Delivered' = Delivered
  BY <1>1 DEF Delivered
<1>5. Cardinality(collected') = Cardinality(collected) + 1
  BY <1>1, <1>2, FS_AddElement
<1>6. Counted' = Counted + 1
  <2>1. counts \in [Counters -> Nat]
    BY DEF LimitInv, TypeOK
  <2>2. Categorize(m.result) \in Counters
    BY DEF Categorize, Counters
  <2> QED BY <1>1, <2>1, <2>2 DEF Counted, Counters
<1>7. ResultsKept'
  <2>1. Delivered' = Sent' \cup collected' /\ Sent' \cap collected' = {}
    BY <1>1, <1>2, <1>3, <1>4 DEF ResultsKept
  <2> QED BY <2>1, <1>1, <1>5, <1>6 DEF ResultsKept
<1>8. StartedAll' /\ ReturnedLast' /\ RanAll'
  BY <1>1 DEF StartedAll, ReturnedLast, RanAll
<1> QED BY <1>0, <1>7, <1>8

LEMMA MergeResultInv ==
  ASSUME ResultInv, Query PROVE ResultInv'
<1> USE DEF ResultInv
<1>0. LimitInv'
  BY MainStepLimitInv DEF MainStep
<1>1. /\ main = "query" /\ unstarted' = total'
      /\ main' = IF total' = {} THEN "ok" ELSE "spawn"
      /\ UNCHANGED <<cancelled, job, channel, ran, tally>>
  BY DEF Query, Merge, MainMoves, pipe
<1>2. \A k \in Paths : job[k] = "none"
  BY <1>1 DEF LimitInv, StartedOnce
<1>3. channel = {} /\ ran = {} /\ Runners = {}
  <2>1. Delivered = {} /\ Runners = {}
    BY <1>2 DEF Delivered, Past, Runners, Running, Holding
  <2>2. Sent = {}
    BY <2>1 DEF ResultsKept
  <2>3. ran \subseteq Paths
    BY DEF LimitInv, TypeOK
  <2> QED BY <1>2, <2>1, <2>2, <2>3 DEF Sent, RanAll, Past
<1>4. ResultsKept' /\ Runners' = {}
  BY <1>1, <1>3, ResultsUnmoved
<1>5. StartedAll' /\ ReturnedLast' /\ RanAll'
  BY <1>1, <1>2, <1>3, <1>4 DEF StartedAll, ReturnedLast, RanAll, Past
<1> QED BY <1>0, <1>4, <1>5

LEMMA ReturnResultInv ==
  ASSUME ResultInv, Return PROVE ResultInv'
<1> USE DEF ResultInv
<1>0. LimitInv'
  BY MainStepLimitInv DEF MainStep
<1>1. /\ closed /\ channel = {} /\ main = "collect"
      /\ main' = IF cancelled THEN "interrupted" ELSE "ok"
      /\ UNCHANGED <<cancelled, total, unstarted, job, channel, ran, tally>>
  BY DEF Return, MainMoves, NoJobs, pipe
<1>2. Runners = {} /\ \A k \in Paths : job[k] \in {"none", "gone"}
  <2>1. Runners = {}
    BY <1>1 DEF LimitInv, ClosedLast
  <2>2. job \in [Paths -> JobStates]
    BY DEF LimitInv, TypeOK
  <2> QED BY <2>1, <2>2 DEF Runners, Running, Holding, JobStates
<1>3. ResultsKept' /\ Runners' = {}
  BY <1>1, <1>2, ResultsUnmoved
<1>4. ~cancelled => ran = total
  <2>1. ran \subseteq Paths /\ total \subseteq Paths
    BY DEF LimitInv, TypeOK
  <2>2. \A k \in Paths : k \in total <=> job[k] = "gone"
    BY <1>1, <1>2 DEF StartedAll
  <2> QED BY <2>1, <2>2, <1>2 DEF RanAll, Past
<1>5. StartedAll' /\ ReturnedLast' /\ RanAll'
  BY <1>1, <1>3, <1>4 DEF StartedAll, ReturnedLast, RanAll
<1> QED BY <1>0, <1>3, <1>5

LEMMA NextResultInv ==
  ASSUME ResultInv, [Next]_vars PROVE ResultInv'
<1>0. LimitInv'
  BY NextLimitInv DEF ResultInv
<1>1. CASE \E j \in Paths : JobStep(j) \/ Spawn(j)
  BY <1>1, JobStepResultInv, SpawnResultInv
<1>2. CASE \E m \in channel : Receive(m)
  BY <1>2, ReceiveResultInv
<1>3. CASE Query \/ Return
  BY <1>3, MergeResultInv, ReturnResultInv
<1>4. CASE Begin \/ Discover \/ QueryFails \/ StartCloser
  <2>1. UNCHANGED <<job, channel, tally, ran, cancelled, unstarted>>
    BY <1>4 DEF Begin, Discover, QueryFails, StartCloser, MainMoves, NoJobs, pipe
  <2>2. /\ main' \notin {"spawn", "closer", "ok", "interrupted"}
        /\ main' = "collect" => main = "closer" /\ total' = total
    BY <1>4 DEF Begin, Discover, QueryFails, StartCloser, MainMoves
  <2>3. ResultsKept'
    BY <2>1, ResultsUnmoved
  <2>4. StartedAll' /\ ReturnedLast' /\ RanAll'
    BY <2>1, <2>2 DEF ResultInv, StartedAll, ReturnedLast, RanAll
  <2> QED BY <1>0, <2>3, <2>4 DEF ResultInv
<1>5. CASE CloseResults \/ UNCHANGED vars
  <2>1. UNCHANGED <<main, job, channel, tally, ran, cancelled, unstarted, total>>
    BY <1>5 DEF CloseResults, vars, tally
  <2>2. ResultsKept' /\ Runners' = Runners
    BY <2>1, ResultsUnmoved
  <2>3. StartedAll' /\ ReturnedLast' /\ RanAll'
    BY <2>1, <2>2 DEF ResultInv, StartedAll, ReturnedLast, RanAll
  <2> QED BY <1>0, <2>2, <2>3 DEF ResultInv
<1>6. CASE Cancel
  <2>1. UNCHANGED <<main, job, channel, tally, ran, unstarted, total>> /\ cancelled'
    BY <1>6 DEF Cancel, NoJobs, pipe
  <2>2. ResultsKept' /\ Runners' = Runners
    BY <2>1, ResultsUnmoved
  <2>3. StartedAll' /\ ReturnedLast' /\ RanAll'
    BY <2>1, <2>2 DEF ResultInv, StartedAll, ReturnedLast, RanAll
  <2> QED BY <1>0, <2>2, <2>3 DEF ResultInv
<1> QED BY <1>1, <1>2, <1>3, <1>4, <1>5, <1>6 DEF Next, MainStep, Terminated

LEMMA ResultInvariant == Spec => []ResultInv
<1>1. Init => ResultInv
  BY InitResultInv
<1>2. ResultInv /\ [Next]_vars => ResultInv'
  BY NextResultInv
<1> QED BY <1>1, <1>2, PTL DEF Spec

\* What executeSyncJobs returns: every path has exactly one result, the four
\* counters add up to the number of paths, and nothing is left running.
THEOREM AllAccountedFor == Spec => []EveryPathAccountedFor
<1>1. ResultInv => EveryPathAccountedFor
  <2> SUFFICES ASSUME ResultInv, main \in {"ok", "interrupted"}
               PROVE  /\ collected = total /\ Counted = Cardinality(total)
                      /\ channel = {} /\ slots = 0
                      /\ \A j \in Paths : job[j] = IF j \in total THEN "gone" ELSE "none"
    BY DEF EveryPathAccountedFor
  <2>1. /\ Runners = {} /\ channel = {} /\ total \subseteq Paths /\ collected \subseteq Paths
        /\ job \in [Paths -> JobStates]
    BY DEF ResultInv, ReturnedLast, LimitInv, TypeOK
  <2>2. \A j \in Paths : job[j] \in {"none", "gone"}
    BY <2>1 DEF Runners, Running, Holding, JobStates
  <2>3. \A j \in Paths : job[j] = IF j \in total THEN "gone" ELSE "none"
    BY <2>2 DEF ResultInv, StartedAll
  <2>4. collected = total
    <3>1. Sent = {}
      BY <2>1 DEF Sent
    <3>2. collected = Delivered
      BY <3>1 DEF ResultInv, ResultsKept
    <3> QED BY <3>2, <2>1, <2>3 DEF Delivered, Past
  <2>5. slots = 0
    <3>1. Holders = {}
      BY <2>1 DEF Holders, Runners, Running
    <3> QED BY <3>1, FS_EmptySet DEF ResultInv, LimitInv, SlotsCounted
  <2> QED BY <2>1, <2>3, <2>4, <2>5 DEF ResultInv, ResultsKept
<1> QED BY <1>1, ResultInvariant, PTL

\* StartSync returns no error only after every job was executed: a job that
\* the cancelled context kept out makes the error "sync interrupted".
THEOREM NilErrorEarned == Spec => []NilErrorMeansAllRan
<1>1. ResultInv => NilErrorMeansAllRan
  BY DEF ResultInv, RanAll, NilErrorMeansAllRan
<1> QED BY <1>1, ResultInvariant, PTL

-----------------------------------------------------------------------------
(***************************************************************************)
(* No deadlock.  What is in the channel are results of different paths     *)
(* that are past their send, so that a path before it finds a place; and a *)
(* full semaphore means a goroutine that is on its way to release a slot.  *)
(***************************************************************************)

\* Nothing has begun before the paths are known, nor when that is the end; a
\* result is one of a job that was executed.
Begun ==
  /\ main \in {"start", "discover", "query", "refused", "dbError"} =>
       unstarted = {} /\ \A j \in Paths : job[j] = "none"
  /\ \A j \in Paths : job[j] \in {"send", "release"} => j \in ran

\* What main waits for is there or still to come.
Underway == /\ main = "spawn" => unstarted # {}
            /\ main = "collect" => closer = "waiting" \/ closed

LoopInv == ResultInv /\ Begun /\ Underway

LEMMA StepBegun == ASSUME LoopInv, [Next]_vars PROVE Begun'
<1> USE DEF LoopInv, ResultInv, LimitInv, TypeOK, Begun
<1>1. ASSUME NEW j \in Paths, JobStep(j) PROVE Begun'
  <2>1. /\ UNCHANGED <<main, unstarted>> /\ job[j] # "none" /\ ran \subseteq ran'
        /\ \A k \in Paths : k # j => job'[k] = job[k]
    BY <1>1 DEF JobStep, CheckContext, Acquire, AcquireCancelled, Execute, SendResult,
                SendSkipped, Release, Done, JobMoves, JobFrame
  <2>2. job'[j] \in {"send", "release"} => j \in ran'
    BY <1>1 DEF JobStep, CheckContext, Acquire, AcquireCancelled, Execute, SendResult,
                SendSkipped, Release, Done, JobMoves
  <2> QED BY <2>1, <2>2
<1>2. ASSUME NEW j \in Paths, Spawn(j) PROVE Begun'
  BY <1>2 DEF Spawn
<1>3. CASE Query
  BY <1>3 DEF Query, Merge, MainMoves
<1>4. CASE Begin \/ Discover \/ QueryFails \/ Return \/ Cancel
  BY <1>4 DEF Begin, Discover, QueryFails, Return, Cancel, MainMoves, NoJobs
<1>5. CASE StartCloser \/ CloseResults \/ UNCHANGED vars \/ \E m \in channel : Receive(m)
  BY <1>5 DEF StartCloser, CloseResults, Receive, MainMoves, vars
<1> QED BY <1>1, <1>2, <1>3, <1>4, <1>5 DEF Next, MainStep, Terminated

LEMMA StepUnderway == ASSUME LoopInv, [Next]_vars PROVE Underway'
<1> USE DEF Underway
<1>1. CASE UNCHANGED vars \/ Cancel \/ QueryFails \/ Begin \/ Discover
  BY <1>1 DEF vars, Cancel, QueryFails, Begin, Discover, MainMoves, NoJobs, pipe, LoopInv
<1>2. CASE Query
  BY <1>2 DEF Query, Merge, MainMoves
<1>3. CASE StartCloser \/ Return \/ CloseResults \/ \E m \in channel : Receive(m)
  BY <1>3 DEF StartCloser, Return, CloseResults, Receive, MainMoves, NoJobs, pipe, LoopInv
<1>4. ASSUME NEW j \in Paths, Spawn(j) PROVE Underway'
  BY <1>4 DEF Spawn, LoopInv
<1>5. ASSUME NEW j \in Paths, JobStep(j) PROVE Underway'
  BY <1>5 DEF JobStep, CheckContext, Acquire, AcquireCancelled, Execute, SendResult,
              SendSkipped, Release, Done, JobFrame, LoopInv
<1> QED BY <1>1, <1>2, <1>3, <1>4, <1>5 DEF Next, MainStep, Terminated

LEMMA LoopInvariant == Spec => []LoopInv
<1>1. Init => Begun /\ Underway
  BY DEF Init, Begun, Underway
<1>2. LoopInv /\ [Next]_vars => LoopInv'
  BY StepBegun, StepUnderway, NextResultInv DEF LoopInv
<1> QED BY <1>1, <1>2, InitResultInv, PTL DEF Spec, LoopInv

\* There are as many results in the channel as paths they are of.
LEMMA ChannelCounted ==
  ASSUME LoopInv
  PROVE  /\ IsFiniteSet(Delivered) /\ IsFiniteSet(channel)
         /\ Cardinality(channel) <= Cardinality(Delivered)
<1>1. IsFiniteSet(Delivered)
  BY PathsAssumption, FS_Subset DEF Delivered
<1>2. DEFINE f == [m \in channel |-> m.path]
<1>3. f \in [channel -> Delivered]
  BY DEF LoopInv, ResultInv, ResultsKept, Sent
<1>4. \A m, n \in channel : f[m] = f[n] => m = n
  BY DEF LoopInv, ResultInv, ResultsKept
<1>5. f \in Injection(channel, Delivered)
  BY <1>3, <1>4 DEF Injection, IsInjective
<1> QED BY <1>1, <1>5, FS_Injection

\* However many secrets there are: no goroutine waits for the collector.
LEMMA RoomToSend == LoopInv => SendersHaveRoom
<1> SUFFICES ASSUME LoopInv, NEW j \in Paths, job[j] \in {"send", "skip"} PROVE HasRoom
  BY DEF SendersHaveRoom
<1> USE DEF LoopInv, ResultInv, LimitInv
<1>1. j \in Runners
  BY DEF Runners, Running, Holding
<1>2. main \in {"spawn", "closer", "collect", "ok", "interrupted"}
  BY DEF Begun, TypeOK, MainStates, Returned
<1>3. /\ Delivered \subseteq total /\ j \in total \ Delivered
      /\ IsFiniteSet(total)
  <2>1. \A k \in Paths : job[k] # "none" => k \in total
    BY <1>2 DEF StartedAll
  <2>2. total \subseteq Paths
    BY DEF TypeOK
  <2> QED BY <2>1, <2>2, PathsAssumption, FS_Subset DEF Delivered, Past
<1>4. Cardinality(Delivered) <= Cardinality(total) /\ Cardinality(Delivered) # Cardinality(total)
  BY <1>3, FS_Subset
<1>5. Cardinality(channel) \in Nat /\ Cardinality(Delivered) \in Nat /\ Cardinality(total) \in Nat
  <2>1. IsFiniteSet(channel)
    BY ChannelCounted
  <2> QED BY <1>3, <2>1, ChannelCounted, FS_CardinalityType
<1> QED BY <1>4, <1>5, ChannelCounted DEF HasRoom

THEOREM SendingNeverBlocks == Spec => []SendersHaveRoom
BY RoomToSend, LoopInvariant, PTL

\* With any limit but 0, and any number of secrets, StartSync with all it
\* started is never in a state in which everyone waits.
THEOREM DeadlockFree == Spec => []NeverStuck
<1>1. LoopInv => NeverStuck
  <2> SUFFICES ASSUME LoopInv, 0 < Concurrency,
                      ~MainCanMove, ~(closer = "waiting" /\ wg = 0),
                      \A j \in Paths : ~JobCanMove(j)
               PROVE  main \in Returned /\ \A j \in Paths : job[j] \in {"none", "gone"}
    BY DEF NeverStuck
  <2> USE DEF LoopInv, ResultInv, LimitInv
  <2>1. \A j \in Paths : job[j] \in {"none", "gone", "acquire"}
    BY RoomToSend DEF JobCanMove, SendersHaveRoom, TypeOK, JobStates
  <2>2. Holders = {}
    BY <2>1 DEF Holders, Holding
  <2>3. slots = 0
    BY <2>2, FS_EmptySet DEF SlotsCounted
  <2>4. \A j \in Paths : job[j] \in {"none", "gone"}
    BY <2>1, <2>3 DEF JobCanMove
  <2>5. wg = 0
    <3>1. Runners = {}
      BY <2>4 DEF Runners, Running, Holding
    <3> QED BY <3>1, FS_EmptySet DEF GroupCounted
  <2>6. main \in Returned
    BY <2>5 DEF MainCanMove, Underway, TypeOK, MainStates
  <2> QED BY <2>4, <2>6
<1> QED BY <1>1, LoopInvariant, PTL

-----------------------------------------------------------------------------
(***************************************************************************)
(* The refinement: each step of StartSync is a step of ParallelLoop, or    *)
(* one that the loop does not know of.                                     *)
(***************************************************************************)

LoopFrame == <<LoopStage, cancelled, Waiting, AtWork, ran, LeftOut>>

LEMMA StartIsPlanning == Init => Loop!Init
BY DEF Init, Loop!Init, LoopStage, Waiting, AtWork, LeftOut

\* The sets before and after a step of goroutine j alone.
LEMMA OneGoroutine ==
  ASSUME LimitInv, NEW j \in Paths, NEW to \in JobStates, job' = [job EXCEPT ![j] = to],
         j \notin unstarted, UNCHANGED unstarted
  PROVE  /\ job'[j] = to /\ \A k \in Paths : k # j => job'[k] = job[k]
         /\ Waiting' = IF to \in {"check", "acquire"} THEN Waiting \cup {j} ELSE Waiting \ {j}
         /\ AtWork' = IF to \in Holding THEN AtWork \cup {j} ELSE AtWork \ {j}
         /\ j \in Waiting <=> job[j] \in {"check", "acquire"}
         /\ j \in AtWork <=> job[j] \in Holding
BY DEF LimitInv, TypeOK, Waiting, AtWork, Holding

\* The loop counts as the orchestrator does.
LEMMA LoopCounts == ASSUME NEW S PROVE Loop!Cardinality(S) = Cardinality(S)
BY DEF Loop!Cardinality, Cardinality

LEMMA GoroutineIsLoopStep ==
  ASSUME LoopInv, NEW j \in Paths, JobStep(j) PROVE Loop!Next \/ UNCHANGED LoopFrame
<1> USE DEF LoopInv, ResultInv, LimitInv
<1>1. /\ UNCHANGED <<main, cancelled, unstarted>> /\ LoopStage' = LoopStage
      /\ job[j] \notin {"none", "gone"} /\ j \notin unstarted
  BY DEF JobStep, CheckContext, Acquire, AcquireCancelled, Execute, SendResult,
         SendSkipped, Release, Done, JobMoves, JobFrame, LoopStage, StartedOnce
<1>2. j \in Runners
  BY <1>1 DEF Runners, Running, Holding, TypeOK, JobStates
<1>3. LoopStage = "looping"
  BY <1>1, <1>2 DEF LoopStage, Begun, ReturnedLast, Returned
<1>4. CASE JobMoves(j, "check", "acquire") /\ CheckContext(j)
  <2>1. Waiting' = Waiting /\ AtWork' = AtWork /\ ran' = ran
    <3>1. job[j] = "check" /\ job' = [job EXCEPT ![j] = "acquire"] /\ ran' = ran
      BY <1>4 DEF JobMoves, CheckContext
    <3>2. "acquire" \in JobStates /\ "acquire" \notin Holding /\ "check" \notin Holding
      BY DEF JobStates, Holding
    <3>3. /\ Waiting' = Waiting \cup {j} /\ AtWork' = AtWork \ {j}
          /\ j \in Waiting /\ j \notin AtWork
      BY <1>1, <3>1, <3>2, OneGoroutine
    <3> QED BY <3>1, <3>3
  <2>2. LeftOut' = LeftOut
    BY <1>4, <2>1 DEF JobMoves, LeftOut, TypeOK
  <2> QED BY <1>1, <2>1, <2>2 DEF LoopFrame
<1>5. CASE (JobMoves(j, "check", "skip") /\ CheckContext(j)) \/ AcquireCancelled(j)
  <2>1. /\ cancelled /\ job[j] \in {"check", "acquire"} /\ job' = [job EXCEPT ![j] = "skip"]
        /\ ran' = ran
    <3>1. CASE AcquireCancelled(j)
      BY <3>1 DEF AcquireCancelled, JobMoves
    <3>2. CASE JobMoves(j, "check", "skip") /\ CheckContext(j)
      <4>1. ~cancelled => job' = [job EXCEPT ![j] = "acquire"]
        BY <3>2 DEF CheckContext, JobMoves
      <4>2. job'[j] = "skip" /\ (~cancelled => job'[j] = "acquire")
        BY <3>2, <4>1 DEF JobMoves, TypeOK
      <4> QED BY <3>2, <4>2 DEF CheckContext, JobMoves
    <3> QED BY <1>5, <3>1, <3>2
  <2>2. j \in Waiting /\ Waiting' = Waiting \ {j} /\ AtWork' = AtWork
    <3>1. "skip" \in JobStates /\ "skip" \notin Holding /\ job[j] \notin Holding
      BY <2>1 DEF JobStates, Holding
    <3>2. /\ Waiting' = Waiting \ {j} /\ AtWork' = AtWork \ {j}
          /\ j \in Waiting /\ j \notin AtWork
      BY <1>1, <2>1, <3>1, OneGoroutine
    <3> QED BY <3>2
  <2>3. j \notin ran
    BY <2>1 DEF RanAll, Past
  <2>4. LeftOut' = LeftOut \cup {j}
    BY <2>1, <2>3 DEF LeftOut, TypeOK
  <2>5. Loop!Skip(j)
    BY <1>1, <1>3, <2>1, <2>2, <2>4 DEF Loop!Skip
  <2> QED BY <2>5 DEF Loop!Next
<1>6. CASE Acquire(j)
  <2>1. job[j] = "acquire" /\ job' = [job EXCEPT ![j] = "execute"] /\ ran' = ran
    BY <1>6 DEF Acquire, JobMoves
  <2>2. j \in Waiting /\ Waiting' = Waiting \ {j} /\ AtWork' = AtWork \cup {j}
    BY <1>1, <2>1, OneGoroutine DEF JobStates, Holding
  <2>3. LeftOut' = LeftOut
    BY <2>1 DEF LeftOut, TypeOK
  <2>4. AtWork = Holders
    BY DEF AtWork, Holders, Holding
  <2>5. Cardinality(AtWork) < Concurrency
    BY <1>6, <2>4 DEF Acquire, SlotsCounted
  <2>6. Loop!WorkOn(j)
    BY <1>1, <1>3, <2>1, <2>2, <2>3, <2>5, LoopCounts DEF Loop!WorkOn
  <2> QED BY <2>6 DEF Loop!Next
<1>7. CASE Execute(j)
  <2>1. job[j] = "execute" /\ job' = [job EXCEPT ![j] = "send"] /\ ran' = ran \cup {j}
    BY <1>7 DEF Execute, JobMoves
  <2>2. j \in AtWork /\ Waiting' = Waiting /\ AtWork' = AtWork
    BY <1>1, <2>1, OneGoroutine DEF JobStates, Holding
  <2>3. LeftOut' = LeftOut
    BY <2>1 DEF LeftOut, TypeOK
  <2>4. Loop!TakeEffect(j)
    BY <1>1, <2>1, <2>2, <2>3 DEF Loop!TakeEffect
  <2> QED BY <2>4 DEF Loop!Next
<1>8. CASE Release(j)
  <2>1. job[j] = "release" /\ job' = [job EXCEPT ![j] = "finish"] /\ ran' = ran
    BY <1>8 DEF Release, JobMoves
  <2>2. j \in AtWork /\ Waiting' = Waiting /\ AtWork' = AtWork \ {j}
    BY <1>1, <2>1, OneGoroutine DEF JobStates, Holding
  <2>3. j \in ran
    BY <2>1 DEF Begun
  <2>4. LeftOut' = LeftOut
    BY <2>1, <2>3 DEF LeftOut, TypeOK
  <2>5. Loop!EndItem(j)
    BY <1>1, <2>1, <2>2, <2>3, <2>4 DEF Loop!EndItem
  <2> QED BY <2>5 DEF Loop!Next
<1>9. CASE SendResult(j) \/ SendSkipped(j) \/ Done(j)
  <2>1. PICK to \in JobStates :
          /\ job' = [job EXCEPT ![j] = to] /\ ran' = ran
          /\ \/ job[j] = "send" /\ to = "release"
             \/ job[j] = "skip" /\ to = "finish"
             \/ job[j] = "finish" /\ to = "gone"
    BY <1>9 DEF SendResult, SendSkipped, Done, JobMoves, JobStates
  <2>2. Waiting' = Waiting /\ AtWork' = AtWork
    BY <1>1, <2>1 DEF Waiting, AtWork, TypeOK
  <2>3. LeftOut' = LeftOut
    BY <2>1 DEF LeftOut, TypeOK
  <2> QED BY <1>1, <2>1, <2>2, <2>3 DEF LoopFrame
<1> QED BY <1>4, <1>5, <1>6, <1>7, <1>8, <1>9 DEF JobStep, CheckContext

LEMMA MainIsLoopStep ==
  ASSUME LoopInv, LoopInv', MainStep PROVE Loop!Next \/ UNCHANGED LoopFrame
<1> USE DEF LoopInv, ResultInv, LimitInv
<1>1. CASE Begin \/ Discover \/ QueryFails
  <2>1. UNCHANGED <<cancelled, Waiting, AtWork, ran, LeftOut>>
    BY <1>1 DEF Begin, Discover, QueryFails, NoJobs, Waiting, AtWork, LeftOut
  <2>2. LoopStage = "planning"
    BY <1>1 DEF Begin, Discover, QueryFails, MainMoves, LoopStage
  <2>3. LoopStage' \in {"planning", "dbError"} \/ (LoopStage' = "refused" /\ cancelled)
    <3>1. main' \in {"discover", "query"} => LoopStage' = "planning"
      BY DEF LoopStage
    <3>2. main' \in Returned => LoopStage' = main'
      BY DEF LoopStage, Returned
    <3>3. CASE Begin
      <4>1. main' = IF cancelled THEN "refused" ELSE "discover"
        BY <3>3 DEF Begin, MainMoves
      <4> QED BY <3>1, <3>2, <4>1 DEF Returned
    <3>4. CASE Discover
      BY <3>1, <3>4 DEF Discover, MainMoves
    <3>5. CASE QueryFails
      BY <3>2, <3>5 DEF QueryFails, MainMoves, Returned
    <3> QED BY <1>1, <3>3, <3>4, <3>5
  <2>4. LoopStage' = "planning" \/ Loop!EndEarly
    BY <2>1, <2>2, <2>3 DEF Loop!EndEarly, Loop!items
  <2> QED BY <2>1, <2>2, <2>4 DEF LoopFrame, Loop!Next
<1>2. CASE Query
  <2>1. /\ main = "query" /\ unstarted' = total' /\ UNCHANGED <<cancelled, job, ran>>
        /\ main' = IF total' = {} THEN "ok" ELSE "spawn"
    BY <1>2 DEF Query, Merge, MainMoves
  <2>2. \A j \in Paths : job[j] = "none"
    BY <2>1 DEF Begun
  <2>3. Waiting = {} /\ Waiting' = total' /\ total' \subseteq Paths
    BY <2>1, <2>2 DEF Waiting, Begun, TypeOK
  <2>4. UNCHANGED <<AtWork, LeftOut>> /\ LoopStage = "planning"
    BY <2>1 DEF AtWork, LeftOut, LoopStage
  <2>5. LoopStage' = IF total' = {} THEN "ok" ELSE "looping"
    BY <2>1 DEF LoopStage, Returned
  <2>6. CASE total' = {}
    BY <2>1, <2>3, <2>4, <2>5, <2>6 DEF Loop!EndEarly, Loop!items, Loop!Next
  <2>7. CASE total' # {}
    BY <2>1, <2>3, <2>4, <2>5, <2>7 DEF Loop!Plan, Loop!Next
  <2> QED BY <2>6, <2>7
<1>3. ASSUME NEW j \in Paths, Spawn(j) PROVE UNCHANGED LoopFrame
  <2>1. /\ main = "spawn" /\ main' \in {"spawn", "closer"} /\ j \in unstarted
        /\ unstarted' = unstarted \ {j} /\ job' = [job EXCEPT ![j] = "check"]
        /\ UNCHANGED <<cancelled, ran>>
    BY <1>3 DEF Spawn
  <2>2. job[j] = "none"
    BY <2>1 DEF StartedOnce
  <2>3. UNCHANGED <<Waiting, AtWork, LeftOut>>
    BY <2>1, <2>2 DEF Waiting, AtWork, LeftOut, TypeOK
  <2> QED BY <2>1, <2>3 DEF LoopFrame, LoopStage, Returned
<1>4. CASE StartCloser \/ \E m \in channel : Receive(m)
  BY <1>4 DEF StartCloser, Receive, MainMoves, LoopFrame, LoopStage, Waiting, AtWork, LeftOut,
     Returned
<1>5. CASE Return
  <2>1. /\ main = "collect" /\ main' = IF cancelled THEN "interrupted" ELSE "ok"
        /\ UNCHANGED <<cancelled, unstarted, job, ran>>
    BY <1>5 DEF Return, MainMoves, NoJobs
  <2>2. unstarted = {} /\ Runners' = {}
    BY <2>1 DEF StartedAll, ReturnedLast
  <2>3. Waiting = {} /\ AtWork = {}
    BY <2>1, <2>2 DEF Waiting, AtWork, Runners, Running, Holding
  <2>4. UNCHANGED <<Waiting, AtWork, LeftOut>>
    BY <2>1 DEF Waiting, AtWork, LeftOut
  <2>5. LoopStage = "looping" /\ LoopStage' = main'
    BY <2>1 DEF LoopStage, Returned
  <2>6. Loop!Return
    BY <2>1, <2>3, <2>4, <2>5 DEF Loop!Return, Loop!items
  <2> QED BY <2>6 DEF Loop!Next
<1> QED BY <1>1, <1>2, <1>3, <1>4, <1>5 DEF MainStep

\* StartSync with its goroutines, semaphore, group and channel is a plain loop
\* with a limit: for every set of secrets and every limit (runJobsInParallel,
\* executeJob, collectResults).
THEOREM ImplementsParallelLoop == Spec => IsParallelLoop
<1>1. LoopInv /\ LoopInv' /\ [Next]_vars => [Loop!Next]_(Loop!vars)
  <2> SUFFICES ASSUME LoopInv, LoopInv', [Next]_vars
               PROVE  Loop!Next \/ UNCHANGED LoopFrame
    BY DEF Loop!vars, LoopFrame
  <2>1. CASE Cancel
    <3>1. /\ main \notin Returned /\ cancelled' = TRUE
          /\ UNCHANGED <<main, unstarted, job, ran>>
      BY <2>1 DEF Cancel, NoJobs
    <3>2. UNCHANGED <<LoopStage, Waiting, AtWork, LeftOut>> /\ LoopStage \notin Returned
      BY <3>1 DEF LoopStage, Waiting, AtWork, LeftOut, Returned
    <3> QED BY <3>1, <3>2 DEF Loop!Interrupt, Loop!Next, Loop!Ends, Loop!items, Returned
  <2>2. CASE CloseResults \/ UNCHANGED vars
    BY <2>2 DEF CloseResults, vars, LoopFrame, LoopStage, Waiting, AtWork, LeftOut
  <2> QED BY <2>1, <2>2, MainIsLoopStep, GoroutineIsLoopStep DEF Next, Terminated
<1> QED BY <1>1, StartIsPlanning, LoopInvariant, PTL DEF Spec, IsParallelLoop, Loop!Spec
=============================================================================

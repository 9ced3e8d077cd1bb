------------------------- MODULE Orchestrator_proof -------------------------
(***************************************************************************)
(* For every set of secrets and every limit: the orchestrator never works  *)
(* on more than Concurrency secrets at once, and no goroutine sends on the *)
(* channel of results after it was closed.                                 *)
(*                                                                         *)
(* Both rest on counting.  The length of the semaphore is the number of    *)
(* goroutines between taking a slot and giving it back, and the counter of *)
(* the WaitGroup the number of those that have not yet called Done.        *)
(***************************************************************************)
EXTENDS Orchestrator, FiniteSetTheorems, TLAPS

Holding == {"execute", "send", "release"}
Running == Holding \cup {"check", "acquire", "skip", "finish"}

Holders == {j \in Paths : job[j] \in Holding}
Runners == {j \in Paths : job[j] \in Running}

SlotsCounted == slots = Cardinality(Holders) /\ slots <= Concurrency
GroupCounted == wg = Cardinality(Runners)

\* The closer is started after the last goroutine and waits for all of them.
ClosedLast ==
  /\ closer # "none" => main \in {"collect"} \cup Returned
  /\ closed => closer = "gone" /\ Runners = {}

\* No goroutine runs before the paths are known, and none is started twice.
StartedOnce ==
  /\ main \in {"start", "discover", "query"} => \A j \in Paths : job[j] = "none"
  /\ \A j \in unstarted : job[j] = "none"

LimitInv == TypeOK /\ SlotsCounted /\ GroupCounted /\ ClosedLast /\ StartedOnce

-----------------------------------------------------------------------------
LEMMA FiniteStates ==
  /\ IsFiniteSet(Holders) /\ Cardinality(Holders) \in Nat
  /\ IsFiniteSet(Runners) /\ Cardinality(Runners) \in Nat
<1>1. Holders \subseteq Paths /\ Runners \subseteq Paths
  BY DEF Holders, Runners
<1> QED BY <1>1, PathsAssumption, FS_Subset, FS_CardinalityType

LEMMA FiniteStatesNext ==
  /\ IsFiniteSet(Holders') /\ Cardinality(Holders') \in Nat
  /\ IsFiniteSet(Runners') /\ Cardinality(Runners') \in Nat
<1>1. Holders' \subseteq Paths /\ Runners' \subseteq Paths
  BY DEF Holders, Runners
<1> QED BY <1>1, PathsAssumption, FS_Subset, FS_CardinalityType

\* What happens to a count when goroutine j moves to a state.
LEMMA HoldersMove ==
  ASSUME TypeOK, NEW j \in Paths, NEW to, job' = [job EXCEPT ![j] = to]
  PROVE  /\ (job[j] \in Holding <=> to \in Holding)
              => Cardinality(Holders') = Cardinality(Holders)
         /\ job[j] \notin Holding /\ to \in Holding
              => Cardinality(Holders') = Cardinality(Holders) + 1
         /\ job[j] \in Holding /\ to \notin Holding
              => Cardinality(Holders') = Cardinality(Holders) - 1
<1>1. ASSUME job[j] \in Holding <=> to \in Holding PROVE Holders' = Holders
  BY <1>1 DEF Holders, TypeOK
<1>2. ASSUME job[j] \notin Holding, to \in Holding
      PROVE  Cardinality(Holders') = Cardinality(Holders) + 1
  <2>1. Holders' = Holders \cup {j} /\ j \notin Holders
    BY <1>2 DEF Holders, TypeOK
  <2> QED BY <2>1, FiniteStates, FS_AddElement
<1>3. ASSUME job[j] \in Holding, to \notin Holding
      PROVE  Cardinality(Holders') = Cardinality(Holders) - 1
  <2>1. Holders' = Holders \ {j} /\ j \in Holders
    BY <1>3 DEF Holders, TypeOK
  <2> QED BY <2>1, FiniteStates, FS_RemoveElement
<1> QED BY <1>1, <1>2, <1>3

LEMMA RunnersMove ==
  ASSUME TypeOK, NEW j \in Paths, NEW to, job' = [job EXCEPT ![j] = to]
  PROVE  /\ (job[j] \in Running <=> to \in Running)
              => Cardinality(Runners') = Cardinality(Runners)
         /\ job[j] \notin Running /\ to \in Running
              => Cardinality(Runners') = Cardinality(Runners) + 1
         /\ job[j] \in Running /\ to \notin Running
              => Cardinality(Runners') = Cardinality(Runners) - 1
<1>1. ASSUME job[j] \in Running <=> to \in Running PROVE Runners' = Runners
  BY <1>1 DEF Runners, TypeOK
<1>2. ASSUME job[j] \notin Running, to \in Running
      PROVE  Cardinality(Runners') = Cardinality(Runners) + 1
  <2>1. Runners' = Runners \cup {j} /\ j \notin Runners
    BY <1>2 DEF Runners, TypeOK
  <2> QED BY <2>1, FiniteStates, FS_AddElement
<1>3. ASSUME job[j] \in Running, to \notin Running
      PROVE  Cardinality(Runners') = Cardinality(Runners) - 1
  <2>1. Runners' = Runners \ {j} /\ j \in Runners
    BY <1>3 DEF Runners, TypeOK
  <2> QED BY <2>1, FiniteStates, FS_RemoveElement
<1> QED BY <1>1, <1>2, <1>3

-----------------------------------------------------------------------------
LEMMA InitLimitInv == Init => LimitInv
<1> SUFFICES ASSUME Init PROVE LimitInv OBVIOUS
<1>1. Holders = {} /\ Runners = {}
  BY DEF Init, Holders, Runners, Holding, Running
<1>2. SlotsCounted /\ GroupCounted
  BY <1>1, FS_EmptySet, ConcurrencyAssumption DEF Init, SlotsCounted, GroupCounted
<1>3. ClosedLast /\ StartedOnce
  BY DEF Init, ClosedLast, StartedOnce
<1>4. TypeOK
  BY DEF Init, TypeOK, MainStates, JobStates, JobResult, NoResult, Counters
<1> QED BY <1>2, <1>3, <1>4 DEF LimitInv

LEMMA StatesFact ==
  /\ Holding \subseteq JobStates /\ Running \subseteq JobStates
  /\ NoResult \in JobResult /\ Skipped \in JobResult
  /\ ExecutionResults \subseteq JobResult
BY DEF Holding, Running, JobStates, NoResult, Skipped, ExecutionResults, JobResult

\* A step of one goroutine, with what it does to its slot and to the group.
LEMMA JobStepLimitInv ==
  ASSUME LimitInv, NEW j \in Paths, JobStep(j) PROVE LimitInv'
<1> USE DEF LimitInv
<1>0. /\ Cardinality(Holders) \in Nat /\ Cardinality(Runners) \in Nat
      /\ wg \in Nat /\ slots \in Nat
  BY FiniteStates DEF TypeOK
<1>a. job[j] \notin {"none", "gone"}
  BY DEF JobStep, CheckContext, Acquire, AcquireCancelled, Execute, SendResult,
         SendSkipped, Release, Done, JobMoves
<1>b. /\ UNCHANGED <<main, cancelled, total, unstarted, closer, closed, tally>>
      /\ job' \in [Paths -> JobStates]
  BY DEF JobStep, CheckContext, Acquire, AcquireCancelled, Execute, SendResult,
         SendSkipped, Release, Done, JobMoves, JobFrame, TypeOK, JobStates
<1>c. ~closed
  BY <1>a DEF ClosedLast, Runners, Running, Holding, TypeOK, JobStates
<1>d. ClosedLast' /\ StartedOnce'
  <2>1. ClosedLast'
    BY <1>b, <1>c DEF ClosedLast
  <2>2. \A k \in Paths \ {j} : job'[k] = job[k]
    BY DEF JobStep, CheckContext, Acquire, AcquireCancelled, Execute, SendResult,
           SendSkipped, Release, Done, JobMoves, TypeOK
  <2>3. StartedOnce'
    BY <1>a, <1>b, <2>2 DEF StartedOnce, TypeOK
  <2> QED BY <2>1, <2>3
<1>1. CASE CheckContext(j) \/ AcquireCancelled(j) \/ SendSkipped(j)
  <2>1. PICK to \in JobStates : /\ job' = [job EXCEPT ![j] = to]
                                /\ job[j] \in Running \ Holding /\ to \in Running \ Holding
    BY <1>1 DEF CheckContext, AcquireCancelled, SendSkipped, JobMoves, JobStates, Running, Holding
  <2>2. UNCHANGED <<slots, wg, returned, ran>>
    BY <1>1 DEF CheckContext, AcquireCancelled, SendSkipped
  <2>3. SlotsCounted' /\ GroupCounted'
    BY <1>0, <2>1, <2>2, HoldersMove, RunnersMove DEF SlotsCounted, GroupCounted
  <2>4. channel' \subseteq [path : Paths, result : JobResult]
    BY <1>1, StatesFact DEF CheckContext, AcquireCancelled, SendSkipped, TypeOK
  <2> QED BY <1>b, <1>d, <2>2, <2>3, <2>4 DEF TypeOK, tally
<1>2. CASE Acquire(j)
  <2>1. /\ job' = [job EXCEPT ![j] = "execute"] /\ job[j] = "acquire"
        /\ slots < Concurrency /\ slots' = slots + 1
        /\ UNCHANGED <<returned, ran, wg, channel>>
    BY <1>2 DEF Acquire, JobMoves
  <2>2. /\ Cardinality(Holders') = Cardinality(Holders) + 1
        /\ Cardinality(Runners') = Cardinality(Runners)
    BY <1>0, <2>1, HoldersMove, RunnersMove DEF Holding, Running, JobStates
  <2>3. SlotsCounted' /\ GroupCounted'
    BY <1>0, <2>1, <2>2, ConcurrencyAssumption DEF SlotsCounted, GroupCounted
  <2> QED BY <1>0, <1>b, <1>d, <2>1, <2>3 DEF TypeOK, tally
<1>3. CASE Execute(j) \/ SendResult(j)
  <2>1. PICK to \in Holding : job' = [job EXCEPT ![j] = to] /\ job[j] \in Holding
    BY <1>3 DEF Execute, SendResult, JobMoves, Holding
  <2>2. UNCHANGED <<slots, wg>> /\ ran' \subseteq Paths
    BY <1>3 DEF Execute, SendResult, TypeOK
  <2>3. SlotsCounted' /\ GroupCounted'
    BY <1>0, <2>1, <2>2, HoldersMove, RunnersMove, StatesFact DEF SlotsCounted, GroupCounted, Running
  <2>4. /\ channel' \subseteq [path : Paths, result : JobResult]
        /\ returned' \in [Paths -> JobResult]
    BY <1>3, StatesFact DEF Execute, SendResult, TypeOK
  <2> QED BY <1>b, <1>d, <2>2, <2>3, <2>4 DEF TypeOK, tally
<1>4. CASE Release(j)
  <2>1. /\ job' = [job EXCEPT ![j] = "finish"] /\ job[j] = "release"
        /\ slots' = slots - 1
        /\ UNCHANGED <<returned, ran, wg, channel>>
    BY <1>4 DEF Release, JobMoves
  <2>2. /\ Cardinality(Holders') = Cardinality(Holders) - 1
        /\ Cardinality(Holders') \in Nat
        /\ Cardinality(Runners') = Cardinality(Runners)
    <3>1. /\ Cardinality(Holders') = Cardinality(Holders) - 1
          /\ Cardinality(Runners') = Cardinality(Runners)
      <4>1. /\ "release" \in Holding /\ "finish" \notin Holding
            /\ "release" \in Running /\ "finish" \in Running
        BY DEF Holding, Running
      <4> QED BY <4>1, <2>1, HoldersMove, RunnersMove
    <3> QED BY <3>1, FiniteStatesNext
  <2>3. SlotsCounted' /\ GroupCounted' /\ slots' \in Nat
    BY <1>0, <2>1, <2>2, ConcurrencyAssumption DEF SlotsCounted, GroupCounted
  <2> QED BY <1>b, <1>d, <2>1, <2>3 DEF TypeOK, tally
<1>5. CASE Done(j)
  <2>1. /\ job' = [job EXCEPT ![j] = "gone"] /\ job[j] = "finish"
        /\ wg' = wg - 1
        /\ UNCHANGED <<returned, ran, slots, channel>>
    BY <1>5 DEF Done, JobMoves
  <2>2. /\ Cardinality(Holders') = Cardinality(Holders)
        /\ Cardinality(Runners') = Cardinality(Runners) - 1
        /\ Cardinality(Runners') \in Nat
    <3>1. /\ Cardinality(Holders') = Cardinality(Holders)
          /\ Cardinality(Runners') = Cardinality(Runners) - 1
      <4>1. /\ "finish" \notin Holding /\ "gone" \notin Holding
            /\ "finish" \in Running /\ "gone" \notin Running
        BY DEF Holding, Running
      <4> QED BY <4>1, <2>1, HoldersMove, RunnersMove
    <3> QED BY <3>1, FiniteStatesNext
  <2>3. SlotsCounted' /\ GroupCounted' /\ wg' \in Nat
    BY <1>0, <2>1, <2>2 DEF SlotsCounted, GroupCounted
  <2> QED BY <1>b, <1>d, <2>1, <2>3 DEF TypeOK, tally
<1> QED BY <1>1, <1>2, <1>3, <1>4, <1>5 DEF JobStep

\* The steps that leave every goroutine where it is.
LEMMA CountsKept ==
  ASSUME LimitInv, UNCHANGED <<job, slots, wg>>
  PROVE  SlotsCounted' /\ GroupCounted' /\ (Runners = {} => Runners' = {})
BY DEF LimitInv, SlotsCounted, GroupCounted, Holders, Runners

LEMMA SpawnLimitInv ==
  ASSUME LimitInv, NEW j \in Paths, Spawn(j) PROVE LimitInv'
<1> USE DEF LimitInv
<1>1. /\ job' = [job EXCEPT ![j] = "check"] /\ wg' = wg + 1 /\ slots' = slots
      /\ unstarted' = unstarted \ {j} /\ main = "spawn" /\ main' \in {"spawn", "closer"}
      /\ UNCHANGED <<cancelled, total, returned, ran, pipe, tally>>
  BY DEF Spawn
<1>2. job[j] = "none" /\ job \in [Paths -> JobStates]
  BY DEF Spawn, StartedOnce, TypeOK
<1>3. /\ "none" \notin Holding /\ "check" \notin Holding
      /\ "none" \notin Running /\ "check" \in Running
  BY DEF Holding, Running
<1>4. /\ Cardinality(Holders') = Cardinality(Holders)
      /\ Cardinality(Runners') = Cardinality(Runners) + 1
  BY <1>1, <1>2, <1>3, HoldersMove, RunnersMove
<1>5. SlotsCounted' /\ GroupCounted'
  BY <1>1, <1>4 DEF SlotsCounted, GroupCounted
<1>6. closer = "none" /\ ~closed
  BY <1>1 DEF ClosedLast, Returned, TypeOK
<1>7. ClosedLast' /\ StartedOnce'
  BY <1>1, <1>2, <1>6 DEF ClosedLast, StartedOnce, pipe
<1>8. TypeOK'
  BY <1>1 DEF TypeOK, JobStates, MainStates, pipe, tally
<1> QED BY <1>5, <1>7, <1>8

LEMMA ReceiveType ==
  ASSUME TypeOK, NEW m \in channel, Receive(m)
  PROVE  collected' \subseteq Paths /\ counts' \in [Counters -> Nat]
<1>1. m.path \in Paths
  BY DEF TypeOK
<1>2. Categorize(m.result) \in Counters
  BY DEF Categorize, Counters
<1> QED BY <1>1, <1>2 DEF TypeOK, Receive

LEMMA MainStepLimitInv ==
  ASSUME LimitInv, MainStep PROVE LimitInv'
<1> USE DEF LimitInv
<1>1. CASE \E j \in Paths : Spawn(j)
  BY <1>1, SpawnLimitInv
<1>2. CASE Begin \/ Discover \/ Query \/ QueryFails \/ StartCloser \/ Return
  <2>1. UNCHANGED <<job, slots, wg, returned, ran, cancelled, collected, counts,
                    channel, closed>>
    BY <1>2 DEF Begin, Discover, Query, Merge, QueryFails, StartCloser, Return,
                MainMoves, NoJobs, pipe, tally
  <2>2. SlotsCounted' /\ GroupCounted' /\ (Runners = {} => Runners' = {})
    BY <2>1, CountsKept
  <2>3. TypeOK'
    BY <1>2, <2>1 DEF Begin, Discover, Query, Merge, QueryFails, StartCloser, Return,
       MainMoves, NoJobs, pipe, tally, TypeOK, MainStates, Returned
  <2>4. ClosedLast'
    BY <1>2, <2>1, <2>2 DEF Begin, Discover, Query, Merge, QueryFails, StartCloser,
       Return, MainMoves, NoJobs, pipe, ClosedLast, Returned
  <2>5. StartedOnce'
    BY <1>2, <2>1 DEF Begin, Discover, Query, Merge, QueryFails, StartCloser, Return,
       MainMoves, NoJobs, StartedOnce, TypeOK
  <2> QED BY <2>2, <2>3, <2>4, <2>5
<1>3. CASE \E m \in channel : Receive(m)
  <2>1. UNCHANGED <<main, cancelled, total, unstarted, job, returned, ran, slots, wg,
                    closer, closed>> /\ channel' \subseteq channel
    BY <1>3 DEF Receive
  <2>2. SlotsCounted' /\ GroupCounted' /\ (Runners = {} => Runners' = {})
    BY <2>1, CountsKept
  <2>3. TypeOK'
    BY <1>3, <2>1, ReceiveType DEF TypeOK
  <2> QED BY <2>1, <2>2, <2>3 DEF ClosedLast, StartedOnce
<1> QED BY <1>1, <1>2, <1>3 DEF MainStep

\* When the group counts nobody, nobody runs.
LEMMA CloseLimitInv ==
  ASSUME LimitInv, CloseResults PROVE LimitInv'
<1> USE DEF LimitInv
<1>1. Runners = {}
  <2>1. Cardinality(Runners) = 0
    BY DEF CloseResults, GroupCounted
  <2> QED BY <2>1, FiniteStates, FS_EmptySet
<1>2. SlotsCounted' /\ GroupCounted' /\ Runners' = {}
  BY <1>1, CountsKept DEF CloseResults
<1> QED BY <1>2 DEF CloseResults, TypeOK, ClosedLast, StartedOnce, tally

LEMMA NextLimitInv ==
  ASSUME LimitInv, [Next]_vars PROVE LimitInv'
<1>1. CASE MainStep
  BY <1>1, MainStepLimitInv
<1>2. CASE CloseResults
  BY <1>2, CloseLimitInv
<1>3. CASE Cancel \/ UNCHANGED vars
  <2>1. UNCHANGED <<main, total, unstarted, job, returned, ran, slots, wg, closer,
                    channel, closed, collected, counts>> /\ cancelled' \in BOOLEAN
    BY <1>3 DEF Cancel, NoJobs, pipe, tally, vars, LimitInv, TypeOK
  <2>2. SlotsCounted' /\ GroupCounted' /\ (Runners = {} => Runners' = {})
    BY <2>1, CountsKept
  <2> QED BY <2>1, <2>2 DEF LimitInv, TypeOK, ClosedLast, StartedOnce
<1>4. CASE \E j \in Paths : JobStep(j)
  BY <1>4, JobStepLimitInv
<1> QED BY <1>1, <1>2, <1>3, <1>4 DEF Next, Terminated

THEOREM LimitInvariant == Spec => []LimitInv
<1>1. Init => LimitInv
  BY InitLimitInv
<1>2. LimitInv /\ [Next]_vars => LimitInv'
  BY NextLimitInv
<1> QED BY <1>1, <1>2, PTL DEF Spec

\* However many secrets there are, and with any limit, the semaphore does its
\* work: never more than Concurrency jobs talk to the clusters (executeJob).
THEOREM LimitKept == Spec => []WithinLimit
<1>1. LimitInv => WithinLimit
  <2> SUFFICES ASSUME LimitInv PROVE WithinLimit OBVIOUS
  <2>1. AtWork = Holders
    BY DEF AtWork, Holders, Holding
  <2> QED BY <2>1 DEF WithinLimit, LimitInv, SlotsCounted
<1> QED BY <1>1, LimitInvariant, PTL

\* The group that runJobsInParallel waits for covers every goroutine that may
\* still send, those that were cancelled before they got a slot included.
THEOREM ClosedChannelSafe == Spec => []NoSendOnClosed
<1>1. LimitInv => NoSendOnClosed
  <2> SUFFICES ASSUME LimitInv, closed, NEW j \in Paths
               PROVE  job[j] \notin {"check", "acquire", "execute", "send", "skip"}
    BY DEF NoSendOnClosed
  <2>1. j \notin Runners
    BY DEF LimitInv, ClosedLast
  <2> QED BY <2>1 DEF Runners, Running, Holding
<1> QED BY <1>1, LimitInvariant, PTL

\* The states of the goroutines, the counters and the channel keep their types.
THEOREM OrchestratorTypes == Spec => []TypeOK
<1>1. LimitInv => TypeOK
  BY DEF LimitInv
<1> QED BY <1>1, LimitInvariant, PTL
=============================================================================

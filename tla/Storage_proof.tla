---------------------------- MODULE Storage_proof ----------------------------
(***************************************************************************)
(* Proofs about the storage: the accounting of the circuit breaker, the    *)
(* end of the health check, and that their composition does nothing to     *)
(* either which it would not do alone.                                     *)
(***************************************************************************)
EXTENDS Storage, FiniteSetTheorems, TLAPS

USE DEF States, CallSteps, NoCall, Fresh, Looked, Renewed

\* What a half open breaker counted are answers and calls that are under way; a
\* closed one has more requests than failures and calls.
Accounted ==
  /\ breaker.state = "halfOpen" =>
       /\ ~breaker.due
       /\ breaker.successes < MaxRequests
       /\ breaker.requests = breaker.successes + Cardinality(Probes)
       /\ breaker.requests <= MaxRequests
  /\ breaker.state = "closed" => breaker.failures + Cardinality(Probes) <= breaker.requests
  /\ TripsWhenAllFail
BreakerInv == RepositoryTypeOK /\ Accounted

(* The calls that count are finitely many.                                 *)
LEMMA ProbesFinite ==
  ASSUME NEW S \in SUBSET Callers PROVE IsFiniteSet(S) /\ Cardinality(S) \in Nat
BY CallersAssumption, FS_Subset, FS_CardinalityType

(* At the start nothing is counted and nobody calls.                       *)
LEMMA InitBreaker == RepositoryInit => BreakerInv
<1>1. RepositoryInit => Probes = {}
  BY DEF RepositoryInit, Probes
<1> QED BY <1>1, LimitsAssumption, FS_EmptySet
        DEF RepositoryInit, BreakerInv, RepositoryTypeOK, Accounted, TripsWhenAllFail

(* A look at the breaker, and at the other calls, keeps the types.         *)
Breakers == [state : States, requests : Nat, successes : Nat, failures : Nat, due : BOOLEAN]
CallRecords == [at : CallSteps, current : BOOLEAN, tries : 0 .. MaxTries]

LEMMA LookedType == ASSUME NEW b \in Breakers PROVE Looked(b) \in Breakers
BY DEF Breakers

LEMMA OthersType ==
  ASSUME RepositoryTypeOK, NEW c \in Callers, NEW ended, NEW r \in CallRecords
  PROVE  [OthersSee(c, ended) EXCEPT ![c] = r] \in [Callers -> CallRecords]
BY DEF RepositoryTypeOK, OthersSee, CallRecords

(* A request is counted with its call.                                     *)
LEMMA EnterCounts ==
  ASSUME BreakerInv, NEW c \in Callers, Enter(c) PROVE BreakerInv'
<1> USE LimitsAssumption DEF BreakerInv
<1>1. RepositoryTypeOK'
  <2>1. Looked(breaker) \in Breakers /\ breaker' = Admitted(Looked(breaker))
    BY LookedType DEF Enter, RepositoryTypeOK, Breakers
  <2> HIDE DEF Looked
  <2>2. \A b \in Breakers : Admitted(b) \in Breakers
    BY DEF Admitted, Breakers
  <2>3. [at |-> "waiting", current |-> TRUE, tries |-> 1] \in CallRecords
    BY DEF CallRecords
  <2>4. call' \in [Callers -> CallRecords]
    BY <2>3, OthersType DEF Enter
  <2> QED BY <2>1, <2>2, <2>4 DEF RepositoryTypeOK, Breakers, CallRecords
<1>2. CASE breaker.due
  <2>1. Probes' = {c}
    BY <1>2, <1>1 DEF Probes, Enter, OthersSee, RepositoryTypeOK
  <2>2. Cardinality(Probes') = 1
    BY <2>1, FS_Singleton
  <2>3. /\ breaker'.requests = 1 /\ breaker'.successes = 0 /\ breaker'.failures = 0
        /\ ~breaker'.due
    BY <1>2 DEF Enter, Admitted
  <2> QED BY <1>1, <2>2, <2>3 DEF Accounted, TripsWhenAllFail
<1>3. CASE ~breaker.due
  <2>1. Probes' = Probes \cup {c} /\ c \notin Probes
    BY <1>3, <1>1 DEF Probes, Enter, OthersSee, RepositoryTypeOK
  <2>2. Probes \in SUBSET Callers
    BY DEF Probes
  <2>3. Cardinality(Probes') = Cardinality(Probes) + 1 /\ Cardinality(Probes) \in Nat
    BY <2>1, <2>2, ProbesFinite, FS_AddElement
  <2>4. /\ breaker' = [breaker EXCEPT !.requests = @ + 1]
        /\ breaker.state = "halfOpen" => breaker.requests < MaxRequests
    BY <1>3 DEF Enter, Admits, Admitted
  <2>5. /\ breaker'.requests = breaker.requests + 1 /\ breaker'.state = breaker.state
        /\ breaker'.successes = breaker.successes /\ breaker'.failures = breaker.failures
        /\ breaker'.due = breaker.due
    BY <2>4 DEF RepositoryTypeOK
  <2>6. TripsWhenAllFail'
    BY <2>5 DEF Accounted, TripsWhenAllFail, RepositoryTypeOK
  <2> QED BY <1>1, <2>3, <2>4, <2>5, <2>6 DEF Accounted, RepositoryTypeOK
<1> QED BY <1>2, <1>3 DEF RepositoryTypeOK

(* An answer counts once, and ends the generation or only its own call.    *)
LEMMA AnswerCounts ==
  ASSUME BreakerInv, NEW c \in Callers, call[c].at # "none", NEW ok \in BOOLEAN, Answer(c, ok)
  PROVE  BreakerInv'
<1> USE LimitsAssumption DEF BreakerInv
<1>1. RepositoryTypeOK'
  <2>1. Looked(breaker) \in Breakers
    BY LookedType DEF RepositoryTypeOK, Breakers
  <2>2. \A b \in Breakers : AfterSuccess(b) \in Breakers
    BY DEF AfterSuccess, Breakers
  <2>3. \A b \in Breakers : AfterFailure(b) \in Breakers
    BY DEF AfterFailure, Breakers
  <2>4. breaker' \in Breakers
    BY <2>1, <2>2, <2>3 DEF Answer, Counted
  <2>5. NoCall \in CallRecords
    BY DEF CallRecords
  <2>6. call' \in [Callers -> CallRecords]
    BY <2>5, OthersType DEF Answer
  <2> QED BY <2>4, <2>6 DEF RepositoryTypeOK, Breakers, CallRecords
<1>2. CASE breaker.due
  <2>1. breaker' = Fresh(breaker'.state)
    BY <1>2 DEF Answer
  <2>2. Probes' = {}
    BY <1>2, <1>1 DEF Probes, Answer, OthersSee, RepositoryTypeOK
  <2> QED BY <1>1, <2>1, <2>2, FS_EmptySet DEF Accounted, TripsWhenAllFail
<1>3. CASE ~breaker.due /\ ~call[c].current
  <2>1. breaker' = breaker /\ Probes' = Probes
    BY <1>3, <1>1 DEF Probes, Answer, OthersSee, RepositoryTypeOK
  <2> QED BY <1>1, <2>1 DEF Accounted, TripsWhenAllFail
<1>4. CASE ~breaker.due /\ call[c].current
  <2>1. c \in Probes /\ Probes \in SUBSET Callers
    BY <1>4 DEF Probes
  <2>2. breaker' = Counted(breaker, ok)
    BY <1>4 DEF Answer
  <2>3. CASE breaker'.state # breaker.state
    <3>1. breaker' = Fresh(breaker'.state) /\ breaker'.state # "halfOpen"
      BY <2>2, <2>3 DEF Counted, AfterSuccess, AfterFailure, RepositoryTypeOK
    <3>2. Probes' = {}
      BY <1>4, <2>2, <2>3, <1>1 DEF Probes, Answer, OthersSee, RepositoryTypeOK
    <3> QED BY <1>1, <3>1, <3>2, FS_EmptySet DEF Accounted, TripsWhenAllFail
  <2>4. CASE breaker'.state = breaker.state /\ breaker.state = "halfOpen"
    <3>1. /\ breaker' = [breaker EXCEPT !.successes = @ + 1]
          /\ breaker.successes + 1 < MaxRequests
      BY <2>2, <2>4 DEF Counted, AfterSuccess, AfterFailure, RepositoryTypeOK
    <3>2. Probes' = Probes \ {c}
      BY <1>4, <2>2, <2>4, <1>1 DEF Probes, Answer, OthersSee, RepositoryTypeOK
    <3>3. Cardinality(Probes') = Cardinality(Probes) - 1 /\ Cardinality(Probes) \in Nat
      BY <3>2, <2>1, ProbesFinite, FS_RemoveElement
    <3> QED BY <1>1, <2>4, <3>1, <3>3 DEF Accounted, TripsWhenAllFail, RepositoryTypeOK
  <2>5. CASE breaker'.state = breaker.state /\ breaker.state # "halfOpen"
    <3> DEFINE counted == [breaker EXCEPT !.failures = @ + 1]
    <3>1. \/ breaker' = breaker
          \/ breaker.state = "closed" /\ breaker' = counted /\ ~ReadyToTrip(counted)
          \/ breaker.state = "open"
      BY <2>2, <2>5 DEF Counted, AfterSuccess, AfterFailure, RepositoryTypeOK
    <3>2. Probes' = Probes \ {c}
      BY <1>4, <2>2, <2>5, <1>1 DEF Probes, Answer, OthersSee, RepositoryTypeOK
    <3>3. Cardinality(Probes') = Cardinality(Probes) - 1 /\ Cardinality(Probes) \in Nat
      BY <3>2, <2>1, ProbesFinite, FS_RemoveElement
    <3>4. CASE breaker' = breaker \/ breaker.state = "open"
      BY <1>1, <2>5, <3>3, <3>4 DEF Accounted, TripsWhenAllFail, RepositoryTypeOK
    <3>5. CASE breaker.state = "closed" /\ breaker' = counted /\ ~ReadyToTrip(counted)
      <4>1. /\ breaker'.failures = breaker.failures + 1 /\ breaker.failures \in Nat
            /\ breaker'.requests = breaker.requests /\ breaker.requests \in Nat
        BY <3>5 DEF RepositoryTypeOK
      <4>2. ~(breaker'.requests >= MinRequests /\ 10 * breaker'.failures >= 3 * breaker'.requests)
        BY <3>5 DEF ReadyToTrip
      <4>3. breaker'.failures + Cardinality(Probes') <= breaker'.requests
        BY <3>3, <3>5, <4>1 DEF Accounted
      <4>4. Cardinality(Probes') \in Nat
        BY <2>1, <3>2, ProbesFinite
      <4>5. breaker'.failures <= breaker'.requests /\ breaker'.failures \in Nat
        BY <4>1, <4>3, <4>4
      <4>6. TripsWhenAllFail'
        BY <4>1, <4>2, <4>5 DEF TripsWhenAllFail
      <4> QED BY <1>1, <2>5, <3>5, <4>3, <4>6 DEF Accounted
    <3> QED BY <3>1, <3>4, <3>5
  <2> QED BY <2>3, <2>4, <2>5
<1> QED BY <1>2, <1>3, <1>4 DEF RepositoryTypeOK

(* What neither enters nor answers counts nothing.                         *)
LEMMA OthersCount ==
  ASSUME BreakerInv, NEW c \in Callers,
         TurnedAway(c) \/ Connect(c) \/ TryFails(c) \/ Retry(c) \/ Expire \/ UNCHANGED repository
  PROVE  BreakerInv'
<1> USE LimitsAssumption DEF BreakerInv
<1>1. CASE TurnedAway(c)
  <2>1. breaker' = breaker /\ call' = call
    BY <1>1 DEF TurnedAway, Admits, OthersSee, RepositoryTypeOK
  <2> QED BY <2>1 DEF RepositoryTypeOK, Accounted, TripsWhenAllFail, Probes
<1>2. CASE Connect(c) \/ TryFails(c) \/ Retry(c)
  <2>1. RepositoryTypeOK' /\ breaker' = breaker
    BY <1>2 DEF RepositoryTypeOK, Connect, TryFails, Retry
  <2>2. Probes' = Probes
    BY <1>2, <2>1 DEF RepositoryTypeOK, Connect, TryFails, Retry, Trying, Probes
  <2> QED BY <2>1, <2>2 DEF Accounted, TripsWhenAllFail
<1>3. CASE Expire
  <2>1. Probes' = Probes
    BY <1>3 DEF Expire, Probes
  <2> QED BY <1>3, <2>1 DEF Expire, RepositoryTypeOK, Accounted, TripsWhenAllFail
<1>4. CASE UNCHANGED repository
  BY <1>4 DEF repository, RepositoryTypeOK, Accounted, TripsWhenAllFail, Probes
<1> QED BY <1>1, <1>2, <1>3, <1>4

(* Every step of the repository keeps its account.                         *)
LEMMA StepCounts == BreakerInv /\ [RepositoryNext]_repository => BreakerInv'
<1> SUFFICES ASSUME BreakerInv, [RepositoryNext]_repository PROVE BreakerInv'
  OBVIOUS
<1>1. CASE Expire \/ UNCHANGED repository
  <2>1. CASE Callers = {}
    BY <1>1, <2>1, FS_EmptySet DEF BreakerInv, Expire, repository, RepositoryTypeOK, Accounted,
       TripsWhenAllFail, Probes
  <2> QED BY <1>1, <2>1, OthersCount
<1>2. CASE \E c \in Callers : Succeed(c) \/ GiveUp(c)
  BY <1>2, AnswerCounts DEF Succeed, GiveUp, Trying
<1> QED BY <1>1, <1>2, EnterCounts, OthersCount DEF RepositoryNext

(* Every reachable state of the repository is accounted for.               *)
THEOREM BreakerAccounted == RepositorySpec => []BreakerInv
BY InitBreaker, StepCounts, PTL DEF RepositorySpec

(* A half open breaker that is full always waits for somebody's answer, for *)
(* any number of jobs and any limits.                                      *)
THEOREM BreakerNeverStuck == RepositorySpec => []HalfOpenGetsDecided
<1>1. BreakerInv => HalfOpenGetsDecided
  <2> SUFFICES ASSUME BreakerInv, breaker.state = "halfOpen", breaker.requests >= MaxRequests,
                      Probes = {}
               PROVE  FALSE
    BY DEF HalfOpenGetsDecided
  <2>1. Cardinality(Probes) = 0
    BY FS_EmptySet
  <2> QED BY <2>1, LimitsAssumption DEF BreakerInv, Accounted, RepositoryTypeOK
<1> QED BY <1>1, BreakerAccounted, PTL

(* A database that only fails trips the breaker.                           *)
THEOREM BreakerTrips == RepositorySpec => []TripsWhenAllFail
<1>1. BreakerInv => TripsWhenAllFail
  BY DEF BreakerInv, Accounted
<1> QED BY <1>1, BreakerAccounted, PTL

(* It is the answer of the last test, and no answer to a call of before,   *)
(* that closes the breaker.                                                *)
THEOREM BreakerClosesLast == RepositorySpec => ClosesAfterAllTests
<1> DEFINE Closes == \A c \in Callers :
             breaker.state = "halfOpen" /\ breaker'.state = "closed" /\ call[c].at # "none"
               /\ call'[c].at = "none"
             => Probes = {c}
<1>1. BreakerInv /\ [RepositoryNext]_repository => [Closes]_repository
  <2> SUFFICES ASSUME BreakerInv, RepositoryNext, NEW c \in Callers,
                      breaker.state = "halfOpen", breaker'.state = "closed",
                      call[c].at # "none", call'[c].at = "none"
               PROVE  Probes = {c}
    BY DEF Closes
  <2>1. ~breaker.due
    BY DEF BreakerInv, Accounted
  <2>2. PICK d \in Callers : Succeed(d)
    <3>1. ASSUME NEW d \in Callers PROVE ~Enter(d) /\ ~TurnedAway(d)
      BY <2>1 DEF Enter, TurnedAway, Admitted, BreakerInv, RepositoryTypeOK
    <3>2. ASSUME NEW d \in Callers PROVE ~Connect(d) /\ ~TryFails(d) /\ ~Retry(d)
      BY DEF Connect, TryFails, Retry
    <3>3. ASSUME NEW d \in Callers PROVE ~GiveUp(d)
      BY <2>1 DEF GiveUp, Answer, Counted, AfterFailure
    <3>4. ~Expire
      BY DEF Expire
    <3> QED BY <3>1, <3>2, <3>3, <3>4 DEF RepositoryNext
  <2>3. call[d].current /\ call[d].at # "none" /\ breaker.successes + 1 >= MaxRequests
    BY <2>1, <2>2 DEF Succeed, Answer, Counted, AfterSuccess, BreakerInv, RepositoryTypeOK
  <2>4. d \in Probes /\ Probes \in SUBSET Callers
    BY <2>3 DEF Probes
  <2>5. Cardinality(Probes) <= 1 /\ IsFiniteSet(Probes)
    BY <2>3, <2>4, ProbesFinite, LimitsAssumption DEF BreakerInv, Accounted, RepositoryTypeOK
  <2>6. Cardinality(Probes \ {d}) = 0 /\ IsFiniteSet(Probes \ {d})
    BY <2>4, <2>5, ProbesFinite, FS_RemoveElement
  <2>7. Probes = {d}
    BY <2>4, <2>6, FS_EmptySet
  <2>8. call[d].at # "none" /\ call' = [OthersSee(d, TRUE) EXCEPT ![d] = NoCall]
    BY <2>1, <2>2, <2>3 DEF Succeed, Answer, Counted, AfterSuccess, BreakerInv, RepositoryTypeOK
  <2>9. c = d
    BY <2>8 DEF OthersSee, BreakerInv, RepositoryTypeOK
  <2> QED BY <2>7, <2>9
<1> QED BY <1>1, BreakerAccounted, PTL DEF RepositorySpec, ClosesAfterAllTests

-----------------------------------------------------------------------------
(* The stop signal, the channel and the two fields go along with the steps *)
(* of the goroutine, and Close waits for them.                             *)
Stopping == {"stopping", "closing", "clearing"}
StopInv ==
  /\ fields <=> health \notin {"clearing", "gone"}
  /\ stopChannel = "closed" <=> health \in {"closing", "clearing", "gone"}
  /\ stopChannel \in {"open", "closed"}
  /\ health \in Stopping => closing = "waiting"
  /\ closing = "closeDB" \/ store = "closed" => dropped \/ health = "gone"

LEMMA StepStops == StopInv /\ [DatastoreNext]_datastore => StopInv'
<1> SUFFICES ASSUME StopInv, [DatastoreNext]_datastore PROVE StopInv'
  OBVIOUS
<1> USE DEF StopInv, Stopping, goroutine, closer, database
<1>1. CASE InitSchema \/ Outage \/ Repair
  BY <1>1 DEF InitSchema, Outage, Repair
<1>2. CASE HealthStep
  <2>1. CASE Tick \/ PingConnects \/ PingEnds
    BY <2>1 DEF Tick, PingConnects, PingEnds, HealthMoves, HealthFrame
  <2>2. CASE CloseChannel \/ ClearFields \/ HealthDone
    BY <2>2 DEF CloseChannel, ClearFields, HealthDone, HealthMoves, HealthFrame
  <2> QED BY <1>2, <2>1, <2>2 DEF HealthStep
<1>3. CASE CloseStep
  BY <1>3 DEF CloseStep, AwaitHealth, CloseDB, CloseFrame
<1>4. CASE CloseCall
  <2>1. CASE SignalStop
    BY <2>1 DEF SignalStop, MayClose, HealthMoves, CloseFrame
  <2>2. CASE DropSignal
    BY <2>2 DEF DropSignal, MayClose, CloseFrame
  <2>3. CASE CloseAgain
    BY <2>3 DEF CloseAgain, MayClose, CloseFrame
  <2> QED BY <1>4, <2>1, <2>2, <2>3 DEF CloseCall
<1>5. CASE \E c \in Clients : ClientConnects(c) \/ ClientDone(c)
  BY <1>5 DEF ClientConnects, ClientDone
<1>6. CASE UNCHANGED datastore
  BY <1>6 DEF datastore
<1> QED BY <1>1, <1>2, <1>3, <1>4, <1>5, <1>6 DEF DatastoreNext

(* A Close whose signal was taken leaves no goroutine, and no second Close *)
(* sends on the closed channel, however its steps interleave.              *)
THEOREM CloseIsSafe == DatastoreSpec => [](ClosedQuietly /\ NoSendOnClosedChannel)
<1>1. DatastoreInit => StopInv
  BY DEF DatastoreInit, StopInv, Stopping
<1>2. StopInv => ClosedQuietly /\ NoSendOnClosedChannel
  BY DEF StopInv, Stopping, ClosedQuietly, NoSendOnClosedChannel
<1> QED BY <1>1, <1>2, StepStops, PTL DEF DatastoreSpec

-----------------------------------------------------------------------------
(* A step of the storage is one of the repository, of the datastore, or of *)
(* both, and no other: what holds of each alone holds of the two together. *)
THEOREM Composition == Spec => RepositorySpec /\ DatastoreSpec
<1>1. Init => RepositoryInit /\ DatastoreInit
  BY DEF Init
<1>2. [Next]_vars => [RepositoryNext]_repository
  <2> SUFFICES ASSUME Next PROVE RepositoryNext \/ UNCHANGED repository
    BY DEF vars
  <2>1. ASSUME NEW c \in Callers, Work(c) \/ Ask(c) PROVE RepositoryNext
    BY <2>1 DEF Work, Ask, GetConnection, StatementDone, StatementError, CallError, NextTry,
       Request, Rejected, RepositoryNext
  <2> QED BY <2>1 DEF Next, TimePasses, RepositoryNext
<1>3. [Next]_vars => [DatastoreNext]_datastore
  <2> SUFFICES ASSUME Next PROVE DatastoreNext \/ UNCHANGED datastore
    BY DEF vars
  <2>1. ASSUME NEW c \in Callers, Work(c) \/ Ask(c) PROVE DatastoreNext \/ UNCHANGED datastore
    BY <2>1, SameClients DEF Work, Ask, GetConnection, StatementDone, StatementError, CallError,
       NextTry, Request, Rejected, DatastoreNext
  <2> QED BY <2>1 DEF Next, TimePasses, Store, DatastoreNext
<1> QED BY <1>1, <1>2, <1>3, PTL DEF Spec, RepositorySpec, DatastoreSpec

(* So a full breaker waits for an answer and a failing database trips it,  *)
(* while the pool is short, the database comes and goes, and Close comes.  *)
THEOREM StorageSafe ==
  Spec => [](HalfOpenGetsDecided /\ TripsWhenAllFail /\ ClosedQuietly /\ NoSendOnClosedChannel)
BY Composition, BreakerNeverStuck, BreakerTrips, CloseIsSafe, PTL

-----------------------------------------------------------------------------
(* The types of the datastore.                                             *)
LEMMA DatastoreTypes ==
  ASSUME DatastoreTypeOK, [DatastoreNext]_datastore PROVE DatastoreTypeOK'
<1> USE PoolAssumption DEF DatastoreTypeOK, goroutine, closer, database
<1>1. CASE InitSchema \/ Outage \/ Repair
  <2>1. Outage => outages' \in 0 .. MaxOutages
    BY DEF Outage
  <2>2. CASE InitSchema
    BY <2>2 DEF InitSchema, Take
  <2> QED BY <1>1, <2>1, <2>2, Zenon DEF Outage, Repair
<1>2. CASE HealthStep
  BY <1>2 DEF HealthStep, Tick, PingConnects, PingEnds, CloseChannel, ClearFields, HealthDone,
     HealthMoves, HealthFrame, Take, Give
<1>3. CASE CloseStep
  BY <1>3 DEF CloseStep, AwaitHealth, CloseDB, CloseFrame
<1>4. CASE CloseCall
  <2>1. closes' \in 0 .. MaxCloses
    BY <1>4 DEF CloseCall, SignalStop, DropSignal, CloseAgain, MayClose
  <2> QED BY <1>4, <2>1, Zenon DEF CloseCall, SignalStop, DropSignal, CloseAgain, MayClose,
             HealthMoves, CloseFrame
<1>5. CASE \E c \in Clients : ClientConnects(c) \/ ClientDone(c)
  BY <1>5 DEF ClientConnects, ClientDone, Take, Give
<1>6. CASE UNCHANGED datastore
  BY <1>6 DEF datastore
<1> QED BY <1>1, <1>2, <1>3, <1>4, <1>5, <1>6 DEF DatastoreNext

(* A call holds a connection of the pool exactly while its statement runs: *)
(* no end of a statement, not an error either, leaves one behind.          *)
HeldByCalls == \A c \in Callers : c \in held <=> call[c].at = "holding"

LEMMA ConnectionsAreGivenBack ==
  ASSUME RepositoryTypeOK, HeldByCalls, [Next]_vars PROVE HeldByCalls'
<1> USE SameClients, ClientsAssumption DEF HeldByCalls
<1>1. CASE Store /\ UNCHANGED repository
  <2>1. held' \ {"migrate", "ping"} = held \ {"migrate", "ping"}
    <3>1. CASE InitSchema \/ Outage \/ Repair
      BY <3>1 DEF InitSchema, Outage, Repair, Take, database, goroutine, closer
    <3>2. CASE HealthStep
      BY <3>2 DEF HealthStep, Tick, PingConnects, PingEnds, CloseChannel, ClearFields, HealthDone,
         Take, Give
    <3>3. CASE CloseStep \/ CloseCall
      BY <3>3 DEF CloseStep, CloseCall, AwaitHealth, CloseDB, SignalStop, DropSignal, CloseAgain,
         CloseFrame
    <3> QED BY <1>1, <3>1, <3>2, <3>3 DEF Store
  <2> QED BY <1>1, <2>1 DEF repository
<1>2. CASE \E c \in Callers : GetConnection(c)
  BY <1>2 DEF GetConnection, Connect, ClientConnects, Take, RepositoryTypeOK
<1>3. CASE \E c \in Callers : StatementDone(c) \/ CallError(c)
  <2>1. PICK c \in Callers : ClientDone(c) /\ \E ok \in BOOLEAN : Answer(c, ok)
    BY <1>3 DEF StatementDone, CallError, Succeed, GiveUp
  <2>2. \A d \in Callers : call'[d].at = IF d = c THEN "none" ELSE call[d].at
    BY <2>1 DEF Answer, OthersSee, RepositoryTypeOK
  <2> QED BY <2>1, <2>2 DEF ClientDone, Give
<1>4. CASE \E c \in Callers : StatementError(c)
  BY <1>4 DEF StatementError, TryFails, Trying, ClientDone, Give, RepositoryTypeOK
<1>5. CASE \E c \in Callers : NextTry(c)
  BY <1>5 DEF NextTry, Retry, datastore, RepositoryTypeOK
<1>6. CASE \E c \in Callers : Ask(c)
  <2>1. PICK c \in Callers : Enter(c) \/ TurnedAway(c)
    BY <1>6 DEF Ask, Request, Rejected
  <2>2. held' = held
    BY <1>6 DEF Ask, Request, Rejected, datastore
  <2>3. CASE Enter(c)
    BY <2>2, <2>3 DEF Enter, OthersSee, RepositoryTypeOK
  <2>4. CASE TurnedAway(c)
    BY <2>2, <2>4 DEF TurnedAway, OthersSee, RepositoryTypeOK
  <2> QED BY <2>1, <2>3, <2>4
<1>7. CASE TimePasses \/ UNCHANGED vars
  BY <1>7 DEF TimePasses, Expire, vars, repository, datastore
<1> QED BY <1>1, <1>2, <1>3, <1>4, <1>5, <1>6, <1>7 DEF Next, Work

(* The storage's types, and that connections are never lost, for any pool. *)
THEOREM StorageTypes == Spec => []TypeOK
<1>1. DatastoreInit => DatastoreTypeOK
  <2>1. 0 \in 0 .. MaxOutages /\ 0 \in 0 .. MaxCloses
    BY PoolAssumption
  <2> QED BY <2>1, Zenon DEF DatastoreInit, DatastoreTypeOK
<1>2. DatastoreSpec => []DatastoreTypeOK
  BY <1>1, DatastoreTypes, PTL DEF DatastoreSpec
<1>3. Init => HeldByCalls
  BY DEF Init, RepositoryInit, DatastoreInit, HeldByCalls
<1>4. BreakerInv => RepositoryTypeOK
  BY DEF BreakerInv
<1>5. TypeOK <=> RepositoryTypeOK /\ DatastoreTypeOK /\ HeldByCalls
  BY DEF TypeOK, HeldByCalls
<1> QED BY <1>2, <1>3, <1>4, <1>5, Composition, BreakerAccounted, ConnectionsAreGivenBack, PTL
        DEF Spec

-----------------------------------------------------------------------------
(* The health check holds its connection only while it pings.              *)
PingHeld == "ping" \in held => health = "pinging"

LEMMA PingGivesBack ==
  ASSUME DatastoreTypeOK, PingHeld, [DatastoreNext]_datastore PROVE PingHeld'
<1> USE ClientsAssumption DEF PingHeld, goroutine, closer, database
<1>1. CASE InitSchema \/ Outage \/ Repair
  BY <1>1 DEF InitSchema, Outage, Repair, Take
<1>2. CASE HealthStep
  BY <1>2 DEF HealthStep, Tick, PingConnects, PingEnds, CloseChannel, ClearFields, HealthDone,
     HealthMoves, HealthFrame, Take, Give
<1>3. CASE CloseStep \/ CloseCall
  BY <1>3 DEF CloseStep, CloseCall, AwaitHealth, CloseDB, SignalStop, DropSignal, CloseAgain,
     HealthMoves, CloseFrame
<1>4. CASE \E c \in Clients : ClientConnects(c) \/ ClientDone(c)
  BY <1>4 DEF ClientConnects, ClientDone, Take, Give
<1>5. CASE UNCHANGED datastore
  BY <1>5 DEF datastore
<1> QED BY <1>1, <1>2, <1>3, <1>4, <1>5 DEF DatastoreNext

(* A pool that is used up has given more than the one connection that the  *)
(* migrations keep; the others are with those that give them back.         *)
LEMMA SomebodyGivesBack == TypeOK /\ PingHeld => NobodyWaitsInVain
<1> SUFFICES ASSUME TypeOK, PingHeld, MaxConnections # 1, ~HasConnection,
                    ~(health = "pinging"), \A d \in Callers : call[d].at # "holding"
             PROVE  FALSE
  BY DEF NobodyWaitsInVain
<1>1. held \subseteq {"migrate"}
  BY SameClients DEF TypeOK, DatastoreTypeOK, PingHeld
<1>2. IsFiniteSet({"migrate"}) /\ Cardinality({"migrate"}) = 1
  BY FS_Singleton
<1>3. Cardinality(held) <= 1 /\ Cardinality(held) \in Nat
  BY <1>1, <1>2, FS_Subset, FS_CardinalityType
<1>4. MaxConnections >= 2
  BY PoolAssumption DEF HasConnection
<1> QED BY <1>3, <1>4, PoolAssumption DEF HasConnection

(* Nobody waits for a connection that nobody will give back, in any pool of *)
(* more than one, with any number of jobs, in outages, and when it closes.  *)
THEOREM WaitersServed == Spec => []NobodyWaitsInVain
<1>1. DatastoreInit => PingHeld
  BY DEF DatastoreInit, PingHeld
<1>2. TypeOK => DatastoreTypeOK
  BY DEF TypeOK
<1> QED BY <1>1, <1>2, Composition, StorageTypes, PingGivesBack, SomebodyGivesBack, PTL
        DEF DatastoreSpec
=============================================================================

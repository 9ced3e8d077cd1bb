----------------------- MODULE SyncedSecretRepository -----------------------
(***************************************************************************)
(* SyncedSecretRepository (internal/repository/postgres): its operations   *)
(* run inside one circuit breaker that all jobs share, and are retried     *)
(* inside it, so that one request of the breaker is up to MaxTries         *)
(* statements.                                                             *)
(*                                                                         *)
(* The breaker is sony/gobreaker.  It numbers its generations, and ignores *)
(* the answer to a request of an earlier one; here a call knows whether it *)
(* belongs to the present generation.  Time is what ends a generation: the *)
(* Interval of a closed breaker or the Timeout of an open one, which the   *)
(* breaker notices at its next request or answer.                          *)
(*                                                                         *)
(* What a statement does to a row is modelled in SyncJob.                  *)
(***************************************************************************)
EXTENDS Integers, FiniteSets

CONSTANTS
  Callers,        \* the jobs that use the repository at the same time
  MinRequests,    \* ReadyToTrip: requests below which the breaker stays closed
  MaxRequests,    \* requests of a half open breaker
  MaxTries,       \* backoff.WithMaxTries
  Window          \* bound on the requests of one closed generation

ASSUME CallersAssumption == IsFiniteSet(Callers)
ASSUME LimitsAssumption ==
  /\ MinRequests \in Nat \ {0} /\ MaxRequests \in Nat \ {0}
  /\ MaxTries \in Nat \ {0} /\ Window \in Nat \ {0}

VARIABLES
  breaker,   \* its state and counts; due: its expiry has passed
  call       \* what each caller's call does, in which generation it began

repository == <<breaker, call>>

States    == {"closed", "open", "halfOpen"}
\* "waiting" for a connection, "holding" it, "resting" before the next try
CallSteps == {"none", "waiting", "holding", "resting"}
NoCall    == [at |-> "none", current |-> FALSE, tries |-> 0]

RepositoryTypeOK ==
  /\ breaker \in [state : States, requests : Nat, successes : Nat, failures : Nat,
                  due : BOOLEAN]
  /\ call \in [Callers -> [at : CallSteps, current : BOOLEAN, tries : 0 .. MaxTries]]

\* A new generation starts from zero.  successes are ConsecutiveSuccesses, which
\* count while half open only.
Fresh(state) == [state |-> state, requests |-> 0, successes |-> 0, failures |-> 0,
                 due |-> FALSE]

RepositoryInit ==
  /\ breaker = Fresh("closed")
  /\ call = [c \in Callers |-> NoCall]

-----------------------------------------------------------------------------
\* gobreaker.

\* currentState: the first look after the expiry begins a new generation.
Renewed(b) == IF b.state = "open" THEN Fresh("halfOpen") ELSE Fresh(b.state)
Looked(b)  == IF b.due THEN Renewed(b) ELSE b

\* beforeRequest
Admits(b) == \/ b.state = "closed"
             \/ b.state = "halfOpen" /\ b.requests < MaxRequests
Admitted(b) == [b EXCEPT !.requests = @ + 1]

\* Slip: one request too many before the rate counts.
ReadyToTripLate(b) == b.requests > MinRequests /\ 10 * b.failures >= 3 * b.requests

\* "Trip at 30% failure rate".  Requests counts those without an answer, too.
ReadyToTrip(b) == b.requests >= MinRequests /\ 10 * b.failures >= 3 * b.requests

\* Slip: one success more than there are requests.
AfterSuccessLate(b) ==
  IF b.state = "halfOpen" /\ b.successes >= MaxRequests THEN Fresh("closed")
  ELSE IF b.state = "halfOpen" THEN [b EXCEPT !.successes = @ + 1] ELSE b

AfterSuccess(b) ==
  IF b.state = "halfOpen" /\ b.successes + 1 >= MaxRequests THEN Fresh("closed")
  ELSE IF b.state = "halfOpen" THEN [b EXCEPT !.successes = @ + 1] ELSE b

AfterFailure(b) ==
  LET counted == [b EXCEPT !.failures = @ + 1]
  IN IF b.state = "closed" /\ ~ReadyToTrip(counted) THEN counted ELSE Fresh("open")

Counted(b, ok) == IF ok THEN AfterSuccess(b) ELSE AfterFailure(b)

\* The other calls learn that their generation has ended when b is no longer it.
OthersSee(c, ended) ==
  [d \in Callers |-> IF d # c /\ ended THEN [call[d] EXCEPT !.current = FALSE] ELSE call[d]]

-----------------------------------------------------------------------------
\* executeOperationInCircuitBreaker.

\* A request that the breaker lets through.
Enter(c) ==
  LET b == Looked(breaker)
  IN /\ call[c].at = "none" /\ Admits(b)
     /\ b.state = "closed" => b.requests < Window
     /\ breaker' = Admitted(b)
     /\ call' = [OthersSee(c, breaker.due) EXCEPT ![c] =
                   [at |-> "waiting", current |-> TRUE, tries |-> 1]]

\* ErrDatabaseUnavailable, with no statement sent.
TurnedAway(c) ==
  LET b == Looked(breaker)
  IN /\ call[c].at = "none" /\ ~Admits(b)
     /\ breaker' = b
     /\ call' = OthersSee(c, breaker.due)

Connect(c) ==
  /\ call[c].at = "waiting"
  /\ call' = [call EXCEPT ![c].at = "holding"]
  /\ UNCHANGED breaker

\* Slip: the answer counts whatever the call's generation.
AnswerAlways(c, ok) ==
  LET b       == Looked(breaker)
      settled == IF b.state = "open" THEN b ELSE Counted(b, ok)
      ended   == breaker.due \/ settled.state # b.state
  IN /\ breaker' = settled
     /\ call' = [OthersSee(c, ended) EXCEPT ![c] = NoCall]

\* afterRequest: the answer counts if the call's generation is the present one.
Answer(c, ok) ==
  LET b       == Looked(breaker)
      counts  == call[c].current /\ ~breaker.due
      settled == IF counts THEN Counted(b, ok) ELSE b
      ended   == breaker.due \/ settled.state # b.state
  IN /\ breaker' = settled
     /\ call' = [OthersSee(c, ended) EXCEPT ![c] = NoCall]

\* The statement is carried out; a row that is not there is no error.
Succeed(c) == call[c].at = "holding" /\ Answer(c, TRUE)

Trying(c) == call[c].at = "holding" \/ call[c].at = "waiting"

\* An error of the last try, or of one after which no time is left for another.
\* A try may fail before it has a connection.
GiveUp(c) == Trying(c) /\ Answer(c, FALSE)

\* An error after which the call rests before its next try.
TryFails(c) ==
  /\ Trying(c) /\ call[c].tries < MaxTries
  /\ call' = [call EXCEPT ![c].at = "resting"]
  /\ UNCHANGED breaker

Retry(c) ==
  /\ call[c].at = "resting"
  /\ call' = [call EXCEPT ![c].at = "waiting", ![c].tries = @ + 1]
  /\ UNCHANGED breaker

\* Interval or Timeout has passed.
Expire ==
  /\ breaker.state # "halfOpen" /\ ~breaker.due
  /\ breaker' = [breaker EXCEPT !.due = TRUE]
  /\ UNCHANGED call

RepositoryNext ==
  \/ Expire
  \/ \E c \in Callers : \/ Enter(c) \/ TurnedAway(c) \/ Connect(c) \/ Succeed(c)
                        \/ GiveUp(c) \/ TryFails(c) \/ Retry(c)
RepositorySpec == RepositoryInit /\ [][RepositoryNext]_repository

-----------------------------------------------------------------------------
(***************************************************************************)
(* Properties.                                                             *)
(***************************************************************************)

Probes == {c \in Callers : call[c].at # "none" /\ call[c].current}

\* A half open breaker that lets nobody in waits for an answer that will decide
\* it: nothing else would, it has no expiry.  What calls of an earlier
\* generation answer must neither count nor use up its requests.
HalfOpenGetsDecided ==
  breaker.state = "halfOpen" /\ breaker.requests >= MaxRequests => Probes # {}

\* The breaker closes on the answer of the last test, with all others in: not
\* on those of calls that began before it opened.
ClosesAfterAllTests ==
  [][\A c \in Callers :
       breaker.state = "halfOpen" /\ breaker'.state = "closed" /\ call[c].at # "none"
         /\ call'[c].at = "none"
       => Probes = {c}]_repository

\* A database that only fails is not asked MinRequests times without a trip: of the
\* answers of one closed generation, whatever successes and unanswered requests
\* they came between, never are so many failures that the rate is reached.
TripsWhenAllFail ==
  breaker.state = "closed" =>
    breaker.failures < MinRequests \/ 10 * breaker.failures < 3 * breaker.requests
=============================================================================

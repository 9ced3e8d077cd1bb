------------------------------- MODULE Storage -------------------------------
(***************************************************************************)
(* The repository over its datastore: the statements of the callers need   *)
(* connections of a pool that the migrations and the health check share,   *)
(* of a database that fails and comes back, and Close may come at any      *)
(* time.                                                                   *)
(***************************************************************************)
EXTENDS SyncedSecretRepository, PostgresDatastore

ASSUME SameClients == Clients = Callers

vars == <<repository, datastore>>

Init == RepositoryInit /\ DatastoreInit

\* StartSync calls the repository once the datastore is there.
Request(c) == store \in {"open", "closed"} /\ Enter(c) /\ UNCHANGED datastore
Rejected(c) == store \in {"open", "closed"} /\ TurnedAway(c) /\ UNCHANGED datastore

GetConnection(c) == Connect(c) /\ ClientConnects(c)
StatementDone(c) == up /\ Succeed(c) /\ ClientDone(c)
StatementError(c) == StatementFails(c) /\ TryFails(c) /\ ClientDone(c)
CallError(c) == StatementFails(c) /\ GiveUp(c) /\ ClientDone(c)
NextTry(c) == Retry(c) /\ UNCHANGED datastore

Work(c) == \/ GetConnection(c) \/ StatementDone(c) \/ StatementError(c)
           \/ CallError(c) \/ NextTry(c)
Ask(c) == Request(c) \/ Rejected(c)
TimePasses == Expire /\ UNCHANGED datastore
Store == InitSchema \/ Outage \/ Repair \/ HealthStep \/ CloseStep \/ CloseCall

Next ==
  \/ \E c \in Callers : Work(c) \/ Ask(c)
  \/ TimePasses
  \/ Store /\ UNCHANGED repository
Spec == Init /\ [][Next]_vars

\* Time passes, goroutines run, a connection that is given back goes to one of
\* those that wait for it, and jobs go on asking: the behaviour is of a run that
\* is long enough, since the next one begins with a breaker of its own.
FairSpec ==
  /\ Spec
  /\ WF_vars(TimePasses)
  /\ WF_vars(InitSchema /\ UNCHANGED repository)
  /\ WF_vars((PingEnds \/ CloseChannel \/ ClearFields \/ HealthDone) /\ UNCHANGED repository)
  /\ WF_vars(CloseStep /\ UNCHANGED repository)
  /\ \A c \in Callers : WF_vars(Ask(c)) /\ SF_vars(Work(c))

-----------------------------------------------------------------------------
(***************************************************************************)
(* Properties.                                                             *)
(***************************************************************************)

\* Who holds a connection is where its call says.
TypeOK ==
  /\ RepositoryTypeOK /\ DatastoreTypeOK
  /\ \A c \in Callers : c \in held <=> call[c].at = "holding"

\* Whoever waits for a connection waits for somebody who will give one back: a
\* statement that runs or the health check, whose errors count as ends.  It takes
\* one connection more than the one the migrations keep.
NobodyWaitsInVain ==
  MaxConnections # 1 =>
    \A c \in Callers : call[c].at = "waiting" =>
      HasConnection \/ health = "pinging" \/ \E d \in Callers : call[d].at = "holding"

\* Every call comes to its end, in an outage, and when the pool is closed under
\* it: statements have no deadline, so that each connection must come back.
EveryCallReturns == \A c \in Callers : call[c] # NoCall ~> call[c] = NoCall

\* After the last outage the breaker closes for good, whatever calls of before
\* still answer, in a run that has jobs left to ask.
Recovers == <>[](up /\ store = "open") => <>[](breaker.state = "closed")
=============================================================================

-------------------------- MODULE PostgresDatastore --------------------------
(***************************************************************************)
(* PostgresDatastore (pkg/db): the connection pool of database/sql, which  *)
(* the migrations, the health check and the repository's statements share, *)
(* the goroutine of the health check, and Close.                           *)
(*                                                                         *)
(* One goroutine calls Close, perhaps again when it has returned.  In the  *)
(* program nobody does: a run ends with its process.                       *)
(***************************************************************************)
EXTENDS Integers, FiniteSets

CONSTANTS
  Clients,          \* who takes connections, besides the datastore itself
  MaxConnections,   \* max_connections, 0 for no limit
  MaxOutages,       \* how often the database fails
  MaxCloses         \* how often Close is called

ASSUME ClientsAssumption ==
  IsFiniteSet(Clients) /\ Clients \cap {"migrate", "ping"} = {}
ASSUME PoolAssumption ==
  MaxConnections \in Nat /\ MaxOutages \in Nat /\ MaxCloses \in Nat

VARIABLES
  up,          \* the database answers
  outages,     \* how often it has failed
  store,       \* NewPostgresDatastore, then the state of the pool
  held,        \* who has a connection
  health,      \* what the goroutine of the health check does next
  fields,      \* healthCheckInterval and stopHealthCheckCh are not nil
  stopChannel, \* the channel itself
  closing,     \* what Close does next
  closes,      \* how often it was called
  dropped      \* history: a stop signal found nobody to take it

database  == <<up, outages>>
goroutine == <<health, fields, stopChannel>>
closer    == <<closing, closes, dropped>>
datastore == <<database, store, held, goroutine, closer>>

DatastoreTypeOK ==
  /\ up \in BOOLEAN /\ outages \in 0 .. MaxOutages
  /\ store \in {"migrating", "open", "failed", "closed"}
  /\ held \subseteq Clients \cup {"migrate", "ping"}
  /\ health \in {"select", "ping", "pinging", "stopping", "closing", "clearing", "gone"}
  /\ fields \in BOOLEAN /\ stopChannel \in {"open", "closed"}
  /\ closing \in {"none", "waiting", "closeDB"} /\ closes \in 0 .. MaxCloses
  /\ dropped \in BOOLEAN

\* The pool is connected and the health check started.
DatastoreInit ==
  /\ up = TRUE /\ outages = 0
  /\ store = "migrating" /\ held = {}
  /\ health = "select" /\ fields = TRUE /\ stopChannel = "open"
  /\ closing = "none" /\ closes = 0 /\ dropped = FALSE

-----------------------------------------------------------------------------
\* The pool.  A request for a connection waits without a limit when all are
\* taken; only the health check has a deadline.

HasConnection == MaxConnections = 0 \/ Cardinality(held) < MaxConnections
Take(who) == HasConnection /\ held' = held \cup {who}
Give(who) == held' = held \ {who}

\* A statement of a client.  Close lets those that run come to their end.
ClientConnects(c) ==
  /\ store = "open" /\ Take(c)
  /\ UNCHANGED <<database, store, goroutine, closer>>

\* Slip: the rows of a statement are not closed.
ClientLeaks(c) == UNCHANGED datastore

ClientDone(c) == Give(c) /\ UNCHANGED <<database, store, goroutine, closer>>
StatementFails(c) == IF c \in held THEN ~up ELSE store = "closed"

\* initSchema: the driver of golang-migrate keeps its connection for good.
InitSchema ==
  /\ store = "migrating"
  /\ IF up THEN Take("migrate") /\ store' = "open"
     ELSE store' = "failed" /\ UNCHANGED held
  /\ UNCHANGED <<database, goroutine, closer>>

Outage ==
  /\ up /\ outages < MaxOutages
  /\ up' = FALSE /\ outages' = outages + 1
  /\ UNCHANGED <<store, held, goroutine, closer>>
Repair == ~up /\ up' = TRUE /\ UNCHANGED <<outages, store, held, goroutine, closer>>

-----------------------------------------------------------------------------
\* startHealthCheck.

HealthMoves(from, to) == health = from /\ health' = to
HealthFrame == UNCHANGED <<database, store, closer>>

Tick ==
  /\ HealthMoves("select", "ping")
  /\ HealthFrame /\ UNCHANGED <<held, fields, stopChannel>>
PingConnects ==
  /\ HealthMoves("ping", "pinging") /\ store # "closed" /\ Take("ping")
  /\ HealthFrame /\ UNCHANGED <<fields, stopChannel>>
\* An answer, an error or the deadline, with or without a connection.
PingEnds ==
  /\ HealthMoves("ping", "select") \/ HealthMoves("pinging", "select")
  /\ Give("ping")
  /\ HealthFrame /\ UNCHANGED <<fields, stopChannel>>

\* Slip: the group is told before the fields are cleared.
CloseChannelLast ==
  /\ HealthMoves("stopping", "gone")
  /\ stopChannel' = "closed"
  /\ HealthFrame /\ UNCHANGED <<held, fields>>

CloseChannel ==
  /\ HealthMoves("stopping", "closing")
  /\ stopChannel' = "closed"
  /\ HealthFrame /\ UNCHANGED <<held, fields>>
ClearFields ==
  /\ HealthMoves("closing", "clearing")
  /\ fields' = FALSE
  /\ HealthFrame /\ UNCHANGED <<held, stopChannel>>
HealthDone ==
  /\ HealthMoves("clearing", "gone")
  /\ HealthFrame /\ UNCHANGED <<held, fields, stopChannel>>

-----------------------------------------------------------------------------
\* Close.

CloseFrame == UNCHANGED <<database, held, fields, stopChannel>>
MayClose == closing = "none" /\ closes < MaxCloses /\ store \in {"open", "closed"}

\* The signal is taken by a goroutine that waits in its select, ...
SignalStop ==
  /\ MayClose /\ fields /\ HealthMoves("select", "stopping")
  /\ closing' = "waiting" /\ closes' = closes + 1
  /\ CloseFrame /\ UNCHANGED <<store, dropped>>

\* ... and is dropped when the goroutine does something else.
DropSignal ==
  /\ MayClose /\ fields /\ health # "select"
  /\ closing' = "closeDB" /\ closes' = closes + 1 /\ dropped' = TRUE
  /\ CloseFrame /\ UNCHANGED <<store, health>>

CloseAgain ==
  /\ MayClose /\ ~fields
  /\ closing' = "closeDB" /\ closes' = closes + 1
  /\ CloseFrame /\ UNCHANGED <<store, health, dropped>>

\* Slip: Close does not wait for the goroutine.
AwaitNothing ==
  /\ closing = "waiting"
  /\ closing' = "closeDB"
  /\ CloseFrame /\ UNCHANGED <<store, health, closes, dropped>>

AwaitHealth ==
  /\ closing = "waiting" /\ health = "gone"
  /\ closing' = "closeDB"
  /\ CloseFrame /\ UNCHANGED <<store, health, closes, dropped>>

CloseDB ==
  /\ closing = "closeDB"
  /\ closing' = "none" /\ store' = "closed"
  /\ CloseFrame /\ UNCHANGED <<health, closes, dropped>>

-----------------------------------------------------------------------------
HealthStep == Tick \/ PingConnects \/ PingEnds \/ CloseChannel \/ ClearFields \/ HealthDone
CloseStep  == AwaitHealth \/ CloseDB
CloseCall  == SignalStop \/ DropSignal \/ CloseAgain
DatastoreNext ==
  \/ InitSchema \/ Outage \/ Repair \/ HealthStep \/ CloseStep \/ CloseCall
  \/ \E c \in Clients : ClientConnects(c) \/ ClientDone(c)
DatastoreSpec == DatastoreInit /\ [][DatastoreNext]_datastore

-----------------------------------------------------------------------------
(***************************************************************************)
(* Properties.                                                             *)
(***************************************************************************)

\* A Close whose signal was taken leaves nothing behind: the goroutine has ended
\* before the pool is closed, and so never pings a closed one.  A signal that
\* came while it pinged is dropped, and the goroutine lives on: then
\* postgres_test.go:197 "it stops healthcheck when DB is closed" is not so.
ClosedQuietly == store = "closed" /\ ~dropped => health = "gone"

\* A second Close never sends on the channel that the goroutine closed, which
\* would end the process: the goroutine clears what Close looks at first.
NoSendOnClosedChannel == closing = "none" /\ fields => stopChannel = "open"
=============================================================================

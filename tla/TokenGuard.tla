----------------------------- MODULE TokenGuard -----------------------------
(***************************************************************************)
(* The token of one clusterManager (internal/vault): every operation looks *)
(* its token up before its requests and logs in when the token is short of *)
(* five minutes.  The operations of all jobs share the client, and nothing *)
(* orders their look-ups, logins and SetToken calls; the token may run out *)
(* between the check and the requests it was for.                          *)
(*                                                                         *)
(* Time is counted in ticks.  Most operations make one request; the walk   *)
(* through a mount (fetchKeysUnderMount) makes many after one check.       *)
(***************************************************************************)
EXTENDS Integers, FiniteSets

CONSTANTS
  Callers,     \* the operations that go on at the same time
  Threshold,   \* fiveMinutes
  RoleTTL,     \* how long a token of the role lives
  Delay,       \* bound on the time from the answer to a login to its SetToken
  MaxRequests, \* bound on the requests of one operation
  MaxAge       \* bound on the age that is told apart

ASSUME TimesAssumption ==
  /\ Threshold \in Nat \ {0} /\ RoleTTL \in Nat \ {0} /\ Delay \in Nat
  /\ MaxRequests \in Nat \ {0} /\ MaxAge \in Nat
  /\ MaxAge > Threshold /\ MaxAge > Delay

VARIABLES
  token,    \* what the client's token has left to live, 0 when it has expired
  op,       \* where each operation is
  renewed   \* history: who has logged in since the token last became short

vars == <<token, op, renewed>>

\* "renew" and "login": a login is next, for a short token or an unknown one.
OpSteps == {"none", "lookup", "renew", "login", "set", "request"}
Going(at, hand, age, left) == [at |-> at, hand |-> hand, age |-> age, left |-> left]
NoOp == Going("none", 0, 0, 0)

\* hand: the new token; age: the time since the look-up or the login that the
\* requests rely on.
TypeOK ==
  /\ token \in 0 .. RoleTTL
  /\ op \in [Callers -> [at : OpSteps, hand : 0 .. RoleTTL, age : 0 .. MaxAge,
                         left : 0 .. MaxRequests]]
  /\ renewed \subseteq Callers

\* NewMultiClusterVaultClient has logged in, or there is no client.
Init ==
  /\ token = RoleTTL
  /\ op = [c \in Callers |-> NoOp]
  /\ renewed = {}

-----------------------------------------------------------------------------
Moves(c, from, new) == op[c].at = from /\ op' = [op EXCEPT ![c] = new]

Begin(c) ==
  \E n \in 1 .. MaxRequests :
    /\ Moves(c, "none", Going("lookup", 0, 0, n))
    /\ UNCHANGED <<token, renewed>>

\* Slip: only a token that has expired is replaced.
LookUpExpired(c) ==
  /\ Moves(c, "lookup", IF token > 0
                        THEN Going("request", 0, 0, op[c].left)
                        ELSE Going("renew", 0, 0, op[c].left))
  /\ UNCHANGED <<token, renewed>>

\* ensureValidToken.  The look-up with a token that has expired is an error.
LookUp(c) ==
  /\ Moves(c, "lookup", IF token >= Threshold
                        THEN Going("request", 0, 0, op[c].left)
                        ELSE Going("renew", 0, 0, op[c].left))
  /\ UNCHANGED <<token, renewed>>

\* Any other error, or an answer without a ttl: log in, whatever is left.
LookUpFails(c) ==
  /\ Moves(c, "lookup", Going("login", 0, 0, op[c].left))
  /\ UNCHANGED <<token, renewed>>

\* authenticate: the server's answer ...
LogIn(c) ==
  \E from \in {"renew", "login"} :
    /\ Moves(c, from, Going("set", RoleTTL, 0, op[c].left))
    /\ renewed' = IF from = "renew" THEN renewed \cup {c} ELSE renewed
    /\ UNCHANGED token

\* ... or its error, which is the operation's, even if the token was still good.
LogInFails(c) ==
  /\ Moves(c, "renew", NoOp) \/ Moves(c, "login", NoOp)
  /\ UNCHANGED <<token, renewed>>

\* Slip: the new token is not set.
SetNothing(c) ==
  /\ Moves(c, "set", Going("request", 0, op[c].age, op[c].left))
  /\ UNCHANGED <<token, renewed>>

\* The token replaces the client's, also one that another caller got later.
SetToken(c) ==
  /\ Moves(c, "set", Going("request", 0, op[c].age, op[c].left))
  /\ token' = op[c].hand
  /\ UNCHANGED renewed

\* Slip: a walk does not come to its end.
GrantedOn(c) ==
  /\ token > 0
  /\ Moves(c, "request", Going("request", 0, op[c].age, op[c].left - 1))
  /\ UNCHANGED <<token, renewed>>

\* A request with the client's token of the moment.
Granted(c) ==
  /\ token > 0
  /\ Moves(c, "request", IF op[c].left > 1 THEN Going("request", 0, op[c].age, op[c].left - 1) ELSE NoOp)
  /\ UNCHANGED <<token, renewed>>

\* Slip: a request is sent again, without a look at the token.
DeniedAgain(c) == token = 0 /\ op[c].at = "request" /\ UNCHANGED vars

\* "permission denied", or another error: the operation's end, and a walk's.
Denied(c) == token = 0 /\ Moves(c, "request", NoOp) /\ UNCHANGED <<token, renewed>>
RequestFails(c) == token > 0 /\ Moves(c, "request", NoOp) /\ UNCHANGED <<token, renewed>>

Down(n) == IF n > 0 THEN n - 1 ELSE 0
Up(n)   == IF n < MaxAge THEN n + 1 ELSE n
Older(o) == Going(o.at, Down(o.hand), IF o.at \in {"set", "request"} THEN Up(o.age) ELSE o.age,
                  o.left)

\* A new token waits at most Delay to be set.
Tick ==
  /\ \A c \in Callers : op[c].at = "set" => op[c].age < Delay
  /\ token' = Down(token)
  /\ op' = [c \in Callers |-> Older(op[c])]
  /\ renewed' = IF token = Threshold THEN {} ELSE renewed

Step(c) == \/ LookUp(c) \/ LookUpFails(c) \/ LogIn(c) \/ LogInFails(c) \/ SetToken(c)
           \/ Granted(c) \/ Denied(c) \/ RequestFails(c)
Next == Tick \/ \E c \in Callers : Begin(c) \/ Step(c)
Spec == Init /\ [][Next]_vars

\* Each request has an answer, an error or a time-out.
FairSpec == Spec /\ \A c \in Callers : WF_vars(Step(c))

-----------------------------------------------------------------------------
(***************************************************************************)
(* Properties.                                                             *)
(***************************************************************************)

\* What a check vouches for: a request that is denied comes later than the
\* threshold after it (or than a short lived token lives), but for the time by
\* which somebody's older token may replace a newer one.
Vouched == (IF Threshold < RoleTTL THEN Threshold ELSE RoleTTL) - Delay
NeverDeniedInTime ==
  \A c \in Callers : op[c].at = "request" /\ token = 0 => op[c].age >= Vouched

\* However many find the token short at once, nobody logs in a second time for
\* it: who has logged in finds a token that lasts, its own or another's.  That
\* takes a role whose tokens live longer than the threshold; with a shorter one
\* every single operation logs in.
NobodyLogsInTwice ==
  RoleTTL >= Threshold + Delay =>
    \A c \in Callers : op[c].at = "renew" => c \notin renewed

\* Every operation comes to its end, in an error if need be.
OperationsEnd == \A c \in Callers : op[c].at # "none" ~> op[c].at = "none"
=============================================================================

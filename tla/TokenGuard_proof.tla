-------------------------- MODULE TokenGuard_proof --------------------------
(***************************************************************************)
(* Proofs about TokenGuard, for any number of callers and any times.       *)
(***************************************************************************)
EXTENDS TokenGuard, TLAPS

USE DEF OpSteps, NoOp, Going, Down, Up

OpTypes == [at : OpSteps, hand : 0 .. RoleTTL, age : 0 .. MaxAge,
            left : 0 .. MaxRequests]

\* A token that waits to be set has aged no more than its caller, and the
\* client's has at least what each check saw, less the time since.
Ages ==
  \A c \in Callers :
    /\ op[c].at = "set" => op[c].hand >= RoleTTL - op[c].age /\ op[c].age <= Delay
    /\ op[c].at = "request" => token + op[c].age >= Vouched \/ op[c].age = MaxAge

\* Who has logged in sets its token next, or the client's lasts; a token was
\* found short by who is about to log in.
Waves ==
  RoleTTL >= Threshold + Delay =>
    \A c \in renewed :
      /\ op[c].at = "set" \/ token >= Threshold
      /\ op[c].at # "renew"

Inv == TypeOK /\ Ages /\ Waves

(* A caller's step is its own.                                             *)
LEMMA OwnStep ==
  ASSUME TypeOK, NEW c \in Callers, NEW from, NEW new, Moves(c, from, new)
  PROVE  /\ op[c].at = from
         /\ op' = [op EXCEPT ![c] = new]
         /\ op'[c] = new
         /\ \A d \in Callers : d # c => op'[d] = op[d]
BY DEF Moves, TypeOK

(* Who begins, ends or fails holds no token and no request relies on it.   *)
LEMMA EndOrStart ==
  ASSUME TypeOK, NEW c \in Callers,
         Begin(c) \/ LogInFails(c) \/ Denied(c) \/ RequestFails(c) \/ LookUpFails(c)
  PROVE  op'[c].at \in {"none", "lookup", "login"}
<1>1. CASE Begin(c)
  BY <1>1, OwnStep DEF Begin
<1>2. CASE LogInFails(c)
  BY <1>2, OwnStep DEF LogInFails
<1>3. CASE Denied(c) \/ RequestFails(c)
  BY <1>3, OwnStep DEF Denied, RequestFails
<1>4. CASE LookUpFails(c)
  BY <1>4, OwnStep DEF LookUpFails
<1> QED BY <1>1, <1>2, <1>3, <1>4

(* The types, step by step.                                                *)
LEMMA StepTypes == ASSUME TypeOK, [Next]_vars PROVE TypeOK'
<1> USE TimesAssumption
<1>1. CASE Tick
  <2>1. token' \in 0 .. RoleTTL
    BY <1>1 DEF Tick, TypeOK
  <2>2. ASSUME NEW o \in OpTypes PROVE Older(o) \in OpTypes
    BY DEF Older, OpTypes
  <2>3. op' \in [Callers -> OpTypes]
    BY <1>1, <2>2 DEF Tick, TypeOK, OpTypes
  <2> QED BY <1>1, <2>1, <2>3 DEF Tick, TypeOK, OpTypes
<1>2. ASSUME NEW c \in Callers, Begin(c) \/ Step(c) PROVE TypeOK'
  <2>1. token' \in 0 .. RoleTTL
    BY <1>2 DEF TypeOK, Begin, Step, LookUp, LookUpFails, LogIn, LogInFails, SetToken, Granted,
       Denied, RequestFails
  <2>2. renewed' \subseteq Callers
    BY <1>2 DEF TypeOK, Begin, Step, LookUp, LookUpFails, LogIn, LogInFails, SetToken, Granted,
       Denied, RequestFails
  <2>3. op[c] \in OpTypes /\ 0 \in 0 .. RoleTTL /\ 0 \in 0 .. MaxAge /\ 0 \in 0 .. MaxRequests
    BY DEF TypeOK, OpTypes
  <2>4. NoOp \in OpTypes
    BY <2>3 DEF OpTypes
  <2>5. PICK o : o \in OpTypes /\ op' = [op EXCEPT ![c] = o]
    <3>1. CASE Begin(c)
      <4>1. PICK n \in 1 .. MaxRequests : Moves(c, "none", Going("lookup", 0, 0, n))
        BY <3>1 DEF Begin
      <4>2. Going("lookup", 0, 0, n) \in OpTypes
        BY <2>3 DEF OpTypes
      <4> QED BY <4>1, <4>2 DEF Moves
    <3>2. CASE LookUp(c) \/ LookUpFails(c)
      <4>1. /\ Going("request", 0, 0, op[c].left) \in OpTypes
            /\ Going("renew", 0, 0, op[c].left) \in OpTypes
            /\ Going("login", 0, 0, op[c].left) \in OpTypes
        BY <2>3 DEF OpTypes
      <4> QED BY <3>2, <4>1 DEF LookUp, LookUpFails, Moves
    <3>3. CASE LogIn(c) \/ SetToken(c)
      <4>1. /\ Going("set", RoleTTL, 0, op[c].left) \in OpTypes
            /\ Going("request", 0, op[c].age, op[c].left) \in OpTypes
        BY <2>3 DEF OpTypes
      <4> QED BY <3>3, <4>1 DEF LogIn, SetToken, Moves
    <3>4. CASE LogInFails(c) \/ Denied(c) \/ RequestFails(c)
      <4> HIDE DEF NoOp
      <4> QED BY <2>4, <3>4 DEF LogInFails, Denied, RequestFails, Moves
    <3>5. CASE Granted(c)
      <4>1. op[c].left > 1 => Going("request", 0, op[c].age, op[c].left - 1) \in OpTypes
        BY <2>3 DEF OpTypes
      <4> HIDE DEF NoOp
      <4> QED BY <2>4, <3>5, <4>1 DEF Granted, Moves
    <3> QED BY <1>2, <3>1, <3>2, <3>3, <3>4, <3>5 DEF Step
  <2> QED BY <2>1, <2>2, <2>5 DEF TypeOK, OpTypes
<1>3. CASE UNCHANGED vars
  BY <1>3 DEF vars, TypeOK
<1> QED BY <1>1, <1>2, <1>3 DEF Next

(* No token that replaces the client's is so old that it would break what  *)
(* any other operation's check vouched for.                                *)
LEMMA StepAges == ASSUME TypeOK, Ages, [Next]_vars PROVE Ages'
<1> USE TimesAssumption DEF Vouched
<1>1. CASE Tick
  <2> SUFFICES ASSUME NEW c \in Callers
      PROVE /\ op'[c].at = "set" => op'[c].hand >= RoleTTL - op'[c].age /\ op'[c].age <= Delay
            /\ op'[c].at = "request" => token' + op'[c].age >= Vouched \/ op'[c].age = MaxAge
    BY DEF Ages
  <2> DEFINE o == op[c]
  <2>1. o \in OpTypes /\ op'[c] = Older(o) /\ token \in Nat
    BY <1>1 DEF Tick, TypeOK, OpTypes
  <2>2. /\ o.at = "set" => o.hand >= RoleTTL - o.age /\ o.age <= Delay
        /\ o.at = "request" => token + o.age >= Vouched \/ o.age = MaxAge
    BY DEF Ages
  <2>3. /\ o.at = "set" => o.age < Delay
        /\ token' = Down(token)
    BY <1>1 DEF Tick
  <2> HIDE DEF o
  <2>4. CASE o.at = "set"
    BY <2>1, <2>2, <2>3, <2>4 DEF Older, OpTypes
  <2>5. CASE o.at = "request"
    <3>1. o.age \in 0 .. MaxAge
      BY <2>1 DEF OpTypes
    <3>2. /\ op'[c].at = "request"
          /\ op'[c].age = IF o.age < MaxAge THEN o.age + 1 ELSE o.age
      BY <2>1, <2>5 DEF Older, OpTypes
    <3>3. Vouched <= RoleTTL - Delay /\ Vouched \in Int
      OBVIOUS
    <3> HIDE DEF Vouched
    <3>4. token' + op'[c].age >= Vouched \/ op'[c].age = MaxAge
      BY <2>1, <2>2, <2>3, <2>5, <3>1, <3>2, <3>3
    <3> QED BY <3>2, <3>4
  <2> QED BY <2>1, <2>4, <2>5 DEF Older, OpTypes
<1>2. ASSUME NEW c \in Callers, Begin(c) \/ LogInFails(c) \/ Denied(c) \/ RequestFails(c)
                                \/ LookUpFails(c)
      PROVE  Ages'
  <2>1. token' = token
    BY <1>2 DEF Begin, LogInFails, Denied, RequestFails, LookUpFails
  <2>2. \A d \in Callers : d # c => op'[d] = op[d]
    BY <1>2, OwnStep DEF Begin, LogInFails, Denied, RequestFails, LookUpFails
  <2>3. op'[c].at \in {"none", "lookup", "login"}
    BY <1>2, EndOrStart
  <2> QED BY <2>1, <2>2, <2>3 DEF Ages
<1>3. ASSUME NEW c \in Callers, LookUp(c) \/ LogIn(c) \/ Granted(c) PROVE Ages'
  <2>1. token' = token /\ \A d \in Callers : d # c => op'[d] = op[d]
    BY <1>3, OwnStep DEF LookUp, LogIn, Granted
  <2>2. token \in Nat /\ Vouched <= Threshold /\ Vouched \in Int
    BY DEF TypeOK
  <2>3. CASE LookUp(c)
    <3>1. op'[c].at = "request" => token >= Threshold /\ op'[c].age = 0
      BY <2>3, OwnStep DEF LookUp, TypeOK
    <3>2. op'[c].at # "set"
      BY <2>3, OwnStep DEF LookUp, TypeOK
    <3> HIDE DEF Vouched
    <3>3. op'[c].at = "request" => token' + op'[c].age >= Vouched
      BY <2>1, <2>2, <3>1
    <3> QED BY <2>1, <3>2, <3>3 DEF Ages
  <2>4. CASE LogIn(c)
    <3>1. op'[c].at = "set" /\ op'[c].hand = RoleTTL /\ op'[c].age = 0
      BY <2>4, OwnStep DEF LogIn, TypeOK
    <3> QED BY <2>1, <3>1 DEF Ages
  <2>5. CASE Granted(c)
    <3>1. op'[c].at \in {"none", "request"} /\ (op'[c].at = "request" => op'[c].age = op[c].age)
      BY <2>5, OwnStep DEF Granted, TypeOK
    <3>2. op[c].at = "request"
      BY <2>5 DEF Granted, Moves
    <3> HIDE DEF Vouched
    <3> QED BY <2>1, <3>1, <3>2 DEF Ages
  <2> QED BY <1>3, <2>3, <2>4, <2>5
<1>4. ASSUME NEW c \in Callers, SetToken(c) PROVE Ages'
  <2>1. token' >= RoleTTL - op[c].age /\ token' \in Nat /\ op[c].age <= Delay /\ op[c].age \in Nat
    BY <1>4 DEF SetToken, Moves, Ages, TypeOK
  <2>2. token' >= RoleTTL - Delay
    BY <2>1
  <2> QED BY <1>4, <2>1, <2>2 DEF SetToken, Moves, Ages, TypeOK
<1>5. CASE UNCHANGED vars
  BY <1>5 DEF vars, Ages
<1> QED BY <1>1, <1>2, <1>3, <1>4, <1>5 DEF Next, Step

(* After the first new token is set nobody finds it short, until it is so  *)
(* again.                                                                  *)
LEMMA StepWaves == ASSUME TypeOK, Ages, Waves, [Next]_vars PROVE Waves'
<1> USE TimesAssumption
<1>1. CASE Tick
  <2>1. \A c \in Callers : op'[c].at = op[c].at
    BY <1>1 DEF Tick, Older, TypeOK
  <2>2. ASSUME NEW c \in renewed', token >= Threshold PROVE token' >= Threshold
    BY <1>1, <2>2 DEF Tick, TypeOK
  <2>3. renewed' \subseteq renewed /\ renewed \subseteq Callers
    BY <1>1 DEF Tick, TypeOK
  <2> QED BY <2>1, <2>2, <2>3 DEF Waves
<1>2. ASSUME NEW c \in Callers,
             Begin(c) \/ LogInFails(c) \/ Denied(c) \/ RequestFails(c) \/ LookUpFails(c)
               \/ LookUp(c) \/ Granted(c)
      PROVE  Waves'
  <2>1. token' = token /\ renewed' = renewed /\ \A d \in Callers : d # c => op'[d] = op[d]
    BY <1>2, OwnStep DEF Begin, LogInFails, Denied, RequestFails, LookUpFails, LookUp, Granted
  <2>2. op[c].at # "set"
    BY <1>2 DEF Begin, LogInFails, Denied, RequestFails, LookUpFails, LookUp, Granted, Moves
  <2>3. op'[c].at = "renew" => token < Threshold
    <3>1. CASE LookUp(c)
      <4>1. token >= Threshold => op'[c].at = "request"
        BY <3>1, OwnStep DEF LookUp, TypeOK
      <4> QED BY <4>1 DEF TypeOK
    <3>2. CASE ~LookUp(c)
      <4>1. CASE Granted(c)
        BY <4>1, OwnStep DEF Granted
      <4> QED BY <1>2, <3>2, <4>1, EndOrStart
    <3> QED BY <3>1, <3>2
  <2>4. token \in Nat
    BY DEF TypeOK
  <2> QED BY <2>1, <2>2, <2>3, <2>4 DEF Waves, TypeOK
<1>3. ASSUME NEW c \in Callers, LogIn(c) PROVE Waves'
  BY <1>3 DEF LogIn, Moves, Waves, TypeOK
<1>4. ASSUME NEW c \in Callers, SetToken(c) PROVE Waves'
  <2>1. token' >= RoleTTL - op[c].age /\ token' \in Nat /\ op[c].age <= Delay /\ op[c].age \in Nat
    BY <1>4 DEF SetToken, Moves, Ages, TypeOK
  <2>2. RoleTTL >= Threshold + Delay => token' >= Threshold
    BY <2>1
  <2> QED BY <1>4, <2>2 DEF SetToken, Moves, Waves, TypeOK
<1>5. CASE UNCHANGED vars
  BY <1>5 DEF vars, Waves
<1> QED BY <1>1, <1>2, <1>3, <1>4, <1>5 DEF Next, Step

LEMMA InvHolds == Spec => []Inv
<1>1. Init => Inv
  BY TimesAssumption DEF Init, Inv, TypeOK, Ages, Waves
<1>2. Inv /\ [Next]_vars => Inv'
  BY StepTypes, StepAges, StepWaves DEF Inv
<1> QED BY <1>1, <1>2, PTL DEF Spec

(* The types hold for any number of callers.                               *)
THEOREM TokenTypes == Spec => []TypeOK
<1>1. Inv => TypeOK
  BY DEF Inv
<1> QED BY <1>1, InvHolds, PTL

(* A denied request outlived its check, whoever replaced the token.        *)
THEOREM DeniedOnlyLate == Spec => []NeverDeniedInTime
<1>1. Inv => NeverDeniedInTime
  BY TimesAssumption DEF Inv, Ages, TypeOK, NeverDeniedInTime, Vouched
<1> QED BY <1>1, InvHolds, PTL

(* Nobody logs in twice for one short token.                               *)
THEOREM LoginsBounded == Spec => []NobodyLogsInTwice
<1>1. Inv => NobodyLogsInTwice
  BY DEF Inv, Waves, NobodyLogsInTwice
<1> QED BY <1>1, InvHolds, PTL
=============================================================================

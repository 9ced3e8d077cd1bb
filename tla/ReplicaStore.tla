---------------------------- MODULE ReplicaStore ----------------------------
(***************************************************************************)
(* What vault-sync promises of one secret however its runs overlap.  It is *)
(* less than ReplicaMirror: a slow run may put older data back, and a      *)
(* request may be carried out long after its caller gave up.  What is left *)
(* is that a replica holds only what the source once held, that a copy is  *)
(* taken away only from a secret whose metadata was deleted at some time,  *)
(* and that a row claims only what its replica did hold.                   *)
(*                                                                         *)
(* Nothing is promised once astray: an error passed for an answer, or      *)
(* somebody else deleted a copy.                                           *)
(***************************************************************************)
EXTENDS Integers

CONSTANT Replicas

VARIABLES
  latest,    \* the newest data the source has held
  dropped,   \* its metadata was deleted at some time
  copy,      \* what each replica holds, 0 for nothing
  held,      \* all that each replica has held
  recorded,  \* the data the row of each replica claims, 0 for none
  astray

vars == <<latest, dropped, copy, held, recorded, astray>>

Init ==
  /\ latest = 0 /\ dropped = FALSE /\ astray = FALSE
  /\ copy = [r \in Replicas |-> 0] /\ held = [r \in Replicas |-> {}]
  /\ recorded = [r \in Replicas |-> 0]

\* Owners write new data, or delete the metadata of a secret they wrote.
Own ==
  /\ \/ latest' = latest + 1 /\ dropped' = dropped
     \/ latest > 0 /\ latest' = latest /\ dropped' = TRUE
  /\ UNCHANGED <<copy, held, recorded, astray>>

\* A replica receives some data of the source, the newest or not.
Store(r) ==
  \E d \in 1 .. latest :
    /\ copy' = [copy EXCEPT ![r] = d]
    /\ held' = [held EXCEPT ![r] = @ \cup {d}]
    /\ UNCHANGED <<latest, dropped, recorded, astray>>

\* A copy is taken away after the metadata of the secret was.
Remove(r) ==
  /\ dropped
  /\ copy' = [copy EXCEPT ![r] = 0]
  /\ UNCHANGED <<latest, dropped, held, recorded, astray>>

\* A row claims nothing, or data its replica has held.
Record(r) ==
  \E d \in held[r] \cup {0} :
    /\ recorded' = [recorded EXCEPT ![r] = d]
    /\ UNCHANGED <<latest, dropped, copy, held, astray>>

Promised == Own \/ \E r \in Replicas : Store(r) \/ Remove(r) \/ Record(r)
Next == Promised \/ astray'
Spec == Init /\ [][Next]_vars
=============================================================================

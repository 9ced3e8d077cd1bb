---------------------------- MODULE ReplicaMirror ----------------------------
(***************************************************************************)
(* What vault-sync promises of one secret, seen from the replicas and the  *)
(* rows alone: copies only of what the source has held, each replica going *)
(* forward only, a copy taken away only when the source has left it        *)
(* behind, a row that says success only for the newest copy.  Phases,      *)
(* requests, workers and failures do not appear: SyncJob, which has them,  *)
(* is shown to implement this while its runs do not overlap.               *)
(*                                                                         *)
(* Nothing is promised once astray: a request was carried out after its    *)
(* caller gave up, an error passed for an answer, or somebody else deleted *)
(* a copy.                                                                 *)
(***************************************************************************)
EXTENDS Integers

CONSTANT Replicas

VARIABLES
  latest,    \* the newest data the source has held
  live,      \* the source holds it now
  copy,      \* what each replica holds, 0 for nothing
  held,      \* all that each replica has held
  recorded,  \* the data the row of each replica claims, 0 for none
  astray

vars == <<latest, live, copy, held, recorded, astray>>

Init ==
  /\ latest = 0 /\ live = FALSE /\ astray = FALSE
  /\ copy = [r \in Replicas |-> 0] /\ held = [r \in Replicas |-> {}]
  /\ recorded = [r \in Replicas |-> 0]

\* Owners write new data, or take the secret away.
Own ==
  /\ \/ latest' = latest + 1 /\ live' = TRUE
     \/ latest' = latest /\ live' = FALSE
  /\ UNCHANGED <<copy, held, recorded, astray>>

\* A replica receives data at least as new as all it ever held.
Store(r) ==
  \E d \in 1 .. latest :
    /\ \A h \in held[r] : h <= d
    /\ copy' = [copy EXCEPT ![r] = d]
    /\ held' = [held EXCEPT ![r] = @ \cup {d}]
    /\ UNCHANGED <<latest, live, recorded, astray>>

\* A copy is taken away when the source is gone, or has newer data.
Remove(r) ==
  /\ live => copy[r] < latest
  /\ copy' = [copy EXCEPT ![r] = 0]
  /\ UNCHANGED <<latest, live, held, recorded, astray>>

\* A row claims nothing, or the newest data its replica has held.
Record(r) ==
  \E d \in held[r] \cup {0} :
    /\ d # 0 => \A h \in held[r] : h <= d
    /\ recorded' = [recorded EXCEPT ![r] = d]
    /\ UNCHANGED <<latest, live, copy, held, astray>>

Promised == Own \/ \E r \in Replicas : Store(r) \/ Remove(r) \/ Record(r)
Next == Promised \/ astray'
Spec == Init /\ [][Next]_vars
=============================================================================

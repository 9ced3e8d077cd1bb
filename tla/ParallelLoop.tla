---------------------------- MODULE ParallelLoop ----------------------------
(***************************************************************************)
(* What StartSync promises its caller: a loop over the items of a plan, at *)
(* most Limit of them at a time, that an interruption may cut short, and   *)
(* that does not return before the last of them has ended.  Goroutines,    *)
(* channels and the group they wait for do not appear: Orchestrator, which *)
(* has them, is shown to implement this.                                   *)
(***************************************************************************)
EXTENDS Integers, FiniteSets

CONSTANTS Items, Limit

VARIABLES
  stage,        \* "planning", "looping", or how the loop ended
  interrupted,  \* whoever called it asked it to stop
  todo,         \* items that wait
  running,      \* items that are worked on
  worked,       \* items that were or are worked on
  skipped       \* items left out because of the interruption

vars == <<stage, interrupted, todo, running, worked, skipped>>
items == <<todo, running, worked, skipped>>

Ends == {"ok", "interrupted", "refused", "dbError"}

Init ==
  /\ stage = "planning" /\ interrupted \in BOOLEAN
  /\ todo = {} /\ running = {} /\ worked = {} /\ skipped = {}

Interrupt ==
  /\ stage \notin Ends /\ interrupted' = TRUE
  /\ UNCHANGED <<stage, items>>

\* There is nothing to do, or no telling what, or it is not wanted any more.
EndEarly ==
  /\ stage = "planning"
  /\ \/ stage' \in {"ok", "dbError"}
     \/ stage' = "refused" /\ interrupted
  /\ UNCHANGED <<interrupted, items>>

Plan ==
  /\ stage = "planning" /\ stage' = "looping"
  /\ todo' \subseteq Items /\ todo' # {}
  /\ UNCHANGED <<interrupted, running, worked, skipped>>

WorkOn(i) ==
  /\ stage = "looping" /\ i \in todo /\ Cardinality(running) < Limit
  /\ todo' = todo \ {i} /\ running' = running \cup {i}
  /\ UNCHANGED <<stage, interrupted, worked, skipped>>

\* Its effects begin after its start: until then it may have done nothing.
TakeEffect(i) ==
  /\ i \in running /\ worked' = worked \cup {i}
  /\ UNCHANGED <<stage, interrupted, todo, running, skipped>>

EndItem(i) ==
  /\ i \in running \cap worked /\ running' = running \ {i}
  /\ UNCHANGED <<stage, interrupted, todo, worked, skipped>>

Skip(i) ==
  /\ stage = "looping" /\ interrupted /\ i \in todo
  /\ todo' = todo \ {i} /\ skipped' = skipped \cup {i}
  /\ UNCHANGED <<stage, interrupted, running, worked>>

Return ==
  /\ stage = "looping" /\ todo = {} /\ running = {}
  /\ stage' = IF interrupted THEN "interrupted" ELSE "ok"
  /\ UNCHANGED <<interrupted, items>>

Next ==
  \/ Interrupt \/ EndEarly \/ Plan \/ Return
  \/ \E i \in Items : WorkOn(i) \/ TakeEffect(i) \/ EndItem(i) \/ Skip(i)
Spec == Init /\ [][Next]_vars
=============================================================================

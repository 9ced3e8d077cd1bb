------------------------------ MODULE Discovery ------------------------------
(***************************************************************************)
(* DiscoverSecretsForSync: the walk over the mounts of the main cluster    *)
(* that yields the secrets to sync (internal/service/pathmatching, with    *)
(* GetKeysUnderMount and listKeysRecursively of internal/vault).  It is    *)
(* the first half of a run, and all that a dry run does.                   *)
(*                                                                         *)
(* One action is one LIST request with the code up to the next one.  In    *)
(* between owners create and delete secrets.  One behaviour is one call.   *)
(***************************************************************************)
EXTENDS PathMatcher, FiniteSets, Functions

CONSTANTS
  Mounts,       \* the mounts there are, the sequence KvMounts of the rule
  Universe,     \* for each of them the key paths a secret can have
  Trees,        \* the sets of secrets that the mounts can hold at first
  Rules,        \* the sync rules: what to replicate and what to ignore
  Faults,       \* the faults that can strike
  MaxFaults,    \* how many faults strike in a behaviour
  MaxChanges    \* how many secrets owners create or delete during the walk

MountNames == Range(Mounts)
FaultKinds == {"loginFail", "listFail", "confused404", "cancel"}

ASSUME MountsAssumption ==
  /\ Mounts \in Seq(STRING) \ {<<>>}
  /\ \A i, j \in DOMAIN Mounts : Mounts[i] = Mounts[j] => i = j
ASSUME UniverseAssumption ==
  /\ Universe \in [MountNames -> SUBSET (Seq(STRING) \ {<<>>})]
  /\ Trees \subseteq [MountNames -> SUBSET UNION Range(Universe)]
  /\ \A t \in Trees : \A m \in MountNames : t[m] \subseteq Universe[m]
ASSUME RulesAssumption ==
  Rules \subseteq [mounts : {MountNames}, replicate : SUBSET (Seq(STRING) \ {<<>>}),
                   ignore : SUBSET (Seq(STRING) \ {<<>>})]
ASSUME BoundsAssumption ==
  Faults \subseteq FaultKinds /\ MaxFaults \in Nat /\ MaxChanges \in Nat

VARIABLES
  rule,       \* pm.syncRule
  tree,       \* the secrets of each mount
  always,     \* history: those that were there all the time
  ever,       \* history: those that were there at some time
  changes,    \* how many changes owners have made
  faults,     \* how many faults have struck
  cancelled,  \* ctx is done
  at,         \* the position of the loop in Mounts
  phase,      \* what the walk does next
  pending,    \* the directories of the mount yet to be listed
  found,      \* allKeys, the keys of the mount so far
  result,     \* allSecrets
  spoiled     \* history: the mounts a fault has struck

vars == <<rule, tree, always, ever, changes, faults, cancelled, at, phase,
          pending, found, result, spoiled>>
world == <<rule, tree, always, ever, changes>>

Here == Mounts[at]
Located(m, k) == <<m, k>>

TypeOK ==
  /\ rule \in Rules
  /\ tree \in [MountNames -> SUBSET UNION Range(Universe)]
  /\ \A m \in MountNames : always[m] \subseteq tree[m] /\ tree[m] \subseteq ever[m]
                           /\ ever[m] \subseteq Universe[m]
  /\ DOMAIN always = MountNames /\ DOMAIN ever = MountNames
  /\ changes \in 0 .. MaxChanges /\ faults \in 0 .. MaxFaults
  /\ cancelled \in BOOLEAN
  /\ at \in 1 .. Len(Mounts)
  /\ phase \in {"mount", "list", "done"}
  /\ pending \subseteq {<<>>} \cup UNION {Ancestors(k) : k \in ever[Here]}
  /\ found \subseteq ever[Here]
  /\ result \subseteq {Located(m, k) : m \in MountNames, k \in UNION Range(ever)}
  /\ spoiled \subseteq MountNames

Init ==
  /\ rule \in Rules /\ NoOverlap(rule) /\ tree \in Trees
  /\ always = tree /\ ever = tree /\ changes = 0
  /\ faults = 0 /\ cancelled = FALSE
  /\ at = 1 /\ phase = "mount" /\ pending = {} /\ found = {}
  /\ result = {} /\ spoiled = {}

-----------------------------------------------------------------------------
Strikes(f) == f \in Faults /\ faults < MaxFaults /\ faults' = faults + 1

\* A request fails because the cluster fails, or at once when ctx is done.
CallFails(f) == \/ Strikes(f)
                \/ cancelled /\ UNCHANGED faults

\* GetKeysUnderMount: a live token, then the root.
EnterMount ==
  /\ phase = "mount" /\ ~cancelled
  /\ phase' = "list" /\ pending' = {<<>>} /\ found' = {}
  /\ UNCHANGED <<world, faults, cancelled, at, result, spoiled>>

\* The loop over the mounts goes on, or DiscoverSecretsForSync returns.
NextMount ==
  /\ pending' = {} /\ found' = {}
  /\ IF at = Len(Mounts) THEN phase' = "done" /\ at' = at
     ELSE phase' = "mount" /\ at' = at + 1

\* Slip: a mount that fails is tried again.
MountRetried ==
  /\ \/ phase = "mount" /\ CallFails("loginFail")
     \/ phase = "list" /\ pending # {} /\ CallFails("listFail")
  /\ phase' = "mount" /\ pending' = {} /\ found' = {}
  /\ spoiled' = spoiled \cup {Here}
  /\ UNCHANGED <<world, cancelled, at, result>>

\* An error of a mount is logged and its keys are dropped.
MountFails ==
  /\ \/ phase = "mount" /\ CallFails("loginFail")
     \/ phase = "list" /\ pending # {} /\ CallFails("listFail")
  /\ NextMount
  /\ spoiled' = spoiled \cup {Here}
  /\ UNCHANGED <<world, cancelled, result>>

\* What Vault answers when asked for the keys of a directory.  A name can be
\* a secret and a directory at once.
Below(d)   == {k \in tree[Here] : d \in Ancestors(k)}
Secrets(d) == {k \in Below(d) : Len(k) = Len(d) + 1}
Subdirs(d) == {SubSeq(k, 1, Len(d) + 1) : k \in Below(d) \ Secrets(d)}

\* The recursion is depth first: of the directories that wait, those of its
\* innermost call come first.
InnermostFirst(d) == d \in pending /\ \A e \in pending : Len(e) <= Len(d)

\* Slip: a key that is a secret is not looked at as a directory.
ListSecretsFirst(d) ==
  /\ phase = "list" /\ InnermostFirst(d) /\ ~cancelled
  /\ found' = found \cup {k \in Secrets(d) : ShouldSync(rule, Here, k)}
  /\ pending' = (pending \ {d}) \cup
       {e \in Subdirs(d) \ Secrets(d) : ShouldTraverseIntoPath(rule, e)}
  /\ UNCHANGED <<world, faults, cancelled, at, phase, result, spoiled>>

\* Slip: a secret in a directory that is traversed is taken unseen.
ListUnfiltered(d) ==
  /\ phase = "list" /\ InnermostFirst(d) /\ ~cancelled
  /\ found' = found \cup Secrets(d)
  /\ pending' = (pending \ {d}) \cup {e \in Subdirs(d) : ShouldTraverseIntoPath(rule, e)}
  /\ UNCHANGED <<world, faults, cancelled, at, phase, result, spoiled>>

\* listKeysRecursively for one directory, with the filter of
\* discoverSecretsInMount.  A directory that has gone answers with a 404,
\* which is no key.
List(d) ==
  /\ phase = "list" /\ InnermostFirst(d) /\ ~cancelled
  /\ found' = found \cup {k \in Secrets(d) : ShouldSync(rule, Here, k)}
  /\ pending' = (pending \ {d}) \cup {e \in Subdirs(d) : ShouldTraverseIntoPath(rule, e)}
  /\ UNCHANGED <<world, faults, cancelled, at, phase, result, spoiled>>

\* Another error whose text has "404" in it is taken for no key as well.
ListConfused(d) ==
  /\ phase = "list" /\ InnermostFirst(d) /\ Strikes("confused404")
  /\ pending' = pending \ {d}
  /\ spoiled' = spoiled \cup {Here}
  /\ UNCHANGED <<world, cancelled, at, phase, found, result>>

\* Slip: the keys of the mount before are appended again under this name.
LeaveMountWithoutReset ==
  /\ phase = "list" /\ pending = {}
  /\ result' = result \cup {Located(Here, k) : k \in found}
  /\ pending' = {} /\ found' = found
  /\ IF at = Len(Mounts) THEN phase' = "done" /\ at' = at
     ELSE phase' = "list" /\ at' = at + 1
  /\ UNCHANGED <<world, faults, cancelled, spoiled>>

LeaveMount ==
  /\ phase = "list" /\ pending = {}
  /\ result' = result \cup {Located(Here, k) : k \in found}
  /\ NextMount
  /\ UNCHANGED <<world, faults, cancelled, spoiled>>

Cancel ==
  /\ phase # "done" /\ ~cancelled /\ Strikes("cancel")
  /\ cancelled' = TRUE
  /\ UNCHANGED <<world, at, phase, pending, found, result, spoiled>>

\* Owners create and delete secrets of any mount meanwhile.
walk == <<rule, faults, cancelled, at, phase, pending, found, result, spoiled>>
Create(m, k) ==
  /\ phase # "done" /\ changes < MaxChanges /\ k \in Universe[m] \ tree[m]
  /\ tree' = [tree EXCEPT ![m] = @ \cup {k}]
  /\ ever' = [ever EXCEPT ![m] = @ \cup {k}]
  /\ changes' = changes + 1
  /\ UNCHANGED <<always, walk>>
Delete(m, k) ==
  /\ phase # "done" /\ changes < MaxChanges /\ k \in tree[m]
  /\ tree' = [tree EXCEPT ![m] = @ \ {k}]
  /\ always' = [always EXCEPT ![m] = @ \ {k}]
  /\ changes' = changes + 1
  /\ UNCHANGED <<ever, walk>>

-----------------------------------------------------------------------------
Step == EnterMount \/ MountFails \/ LeaveMount \/ \E d \in pending : List(d)
Environment ==
  \/ Cancel \/ \E d \in pending : ListConfused(d)
  \/ \E m \in MountNames : \E k \in Universe[m] : Create(m, k) \/ Delete(m, k)
Terminated == phase = "done" /\ UNCHANGED vars

Next == Step \/ Environment \/ Terminated
Spec == Init /\ [][Next]_vars

\* Every request is answered, or fails at its deadline.
FairSpec == Spec /\ WF_vars(Step)

-----------------------------------------------------------------------------
(***************************************************************************)
(* Properties.                                                             *)
(***************************************************************************)

\* Nothing is synced that the rule excludes or that was never there: each mount
\* contributes only its own keys, and an ignored pattern wins over a replicated
\* one (core_path_matcher.go:24).  Against the guide of the rules, a replicated
\* pattern lets in too much in two cases only (BeyondGuide): secret/** lets in the
\* secret `secret`, which pathmatching/README.md:58 and 308 list under "Doesn't
\* Match", and a single * lets in all of the root, which line 275 says is rejected.
OnlyWhatTheRuleAccepts ==
  \A s \in result :
    /\ s[2] \in ever[s[1]] /\ ShouldSync(rule, s[1], s[2])
    /\ rule.replicate # {} =>
         \E p \in rule.replicate : GuideMatches(p, s[2]) \/ BeyondGuide(p, s[2])

\* The walk misses no accepted secret of a mount that no fault struck, however
\* its directories change meanwhile, if the secret stays and pruning keeps its
\* directories: a failing mount costs the others nothing (path_matcher.go:70).
\* Accepted is what ShouldSync accepts, a/* one level below a; the guide says one
\* level (pathmatching/README.md:48, 257) and any depth (11, 277 to 292) of it.
Complete ==
  phase = "done" =>
    \A m \in MountNames \ spoiled : \A k \in always[m] :
      ShouldSync(rule, m, k) /\ KeepsAncestors(rule, k) => Located(m, k) \in result

\* Pruning hides nothing when "**" stands only where the walk can follow it:
\* the directories of every secret such a rule accepts are looked into.
\* shouldTraverseIntoPath and ShouldSync are two readings of the same patterns.
PruningHidesNothing ==
  phase = "mount" /\ at = 1 /\ PruneSafe(rule) =>
    \A k \in UNION Range(Universe) :
      ShouldSync(rule, Mounts[1], k) => KeepsAncestors(rule, k)

\* The walk ends although owners change the directories under it.
Ends == <>(phase = "done")

-----------------------------------------------------------------------------
(***************************************************************************)
(* What the repository says of discovery and the code does not keep.       *)
(***************************************************************************)

\* cmd/pathmatcher/path_matcher.go:22 "Test your sync rules against a list of
\* paths to see which ones would be synced": the command asks ShouldSync alone,
\* and so does not see what the pruned walk never reaches.
WhatMatchesIsDiscovered ==
  phase = "done" =>
    \A m \in MountNames \ spoiled : \A k \in always[m] :
      ShouldSync(rule, m, k) => Located(m, k) \in result
=============================================================================

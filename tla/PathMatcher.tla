----------------------------- MODULE PathMatcher -----------------------------
(***************************************************************************)
(* The sync rule as pure operators: CorePathMatcher.ShouldSync, which says *)
(* whether a secret is synced, and shouldTraverseIntoPath, by which the    *)
(* walk over a mount decides whether to look into a directory at all       *)
(* (internal/service/pathmatching).                                        *)
(*                                                                         *)
(* A key path is the sequence of its segments; the root of a mount is <<>>.*)
(* A pattern is a sequence of names and wildcards.  Wildcards inside a     *)
(* segment ("db-*") are left out: the code treats a segment as a whole.    *)
(***************************************************************************)
EXTENDS Integers, Sequences

Wildcard   == "*"    \* one segment
AnyDepth   == "**"   \* any number of segments, none included

\* rule.mounts is KvMounts, the sets are PathsToReplicate and PathsToIgnore.
\* The rule's answer does not depend on the order of the patterns.

SegmentMatches(p, name) == p \in {Wildcard, AnyDepth, name}

\* doublestar.Match: k is cut into one piece for each segment of the pattern,
\* any piece for "**" and a single segment for all others.  The pattern a/**
\* matches a itself.
PieceMatches(p, k, cut, i) ==
  IF p[i] = AnyDepth THEN cut[i - 1] <= cut[i]
  ELSE cut[i] = cut[i - 1] + 1 /\ SegmentMatches(p[i], k[cut[i]])
Matches(p, k) ==
  \E cut \in [0 .. Len(p) -> 0 .. Len(k)] :
    /\ cut[0] = 0 /\ cut[Len(p)] = Len(k)
    /\ \A i \in 1 .. Len(p) : PieceMatches(p, k, cut, i)

\* A pattern to ignore wins over a pattern to replicate.
ShouldSync(rule, mount, k) ==
  /\ mount \in rule.mounts
  /\ ~\E p \in rule.ignore : Matches(p, k)
  /\ rule.replicate = {} \/ \E p \in rule.replicate : Matches(p, k)

\* syncRuleValidation: a configuration that names a pattern twice is refused.
NoOverlap(rule) == rule.replicate \cap rule.ignore = {}

-----------------------------------------------------------------------------
\* The pruning of the walk.

FirstAnyDepth(p) ==
  CHOOSE i \in 1 .. Len(p) : p[i] = AnyDepth /\ \A j \in 1 .. i - 1 : p[j] # AnyDepth
HasAnyDepth(p) == \E i \in 1 .. Len(p) : p[i] = AnyDepth

SegmentsMatch(p, k, n) == \A i \in 1 .. n : SegmentMatches(p[i], k[i])

\* Slip: a path as long as the pattern is already too long.
CouldLeadStrictly(p, k) ==
  \/ HasAnyDepth(p) /\ FirstAnyDepth(p) = 1
  \/ Len(k) < Len(p) - 1 /\ SegmentsMatch(p, k, Len(k))

\* couldPathLeadToPattern: "**" in front leads anywhere; elsewhere the segments
\* are compared one by one, "**" counting as one segment.  The comparison of the
\* part before "**" that the code makes first is a part of this one.
CouldPathLeadToPattern(p, k) ==
  \/ HasAnyDepth(p) /\ FirstAnyDepth(p) = 1
  \/ Len(k) <= Len(p) /\ SegmentsMatch(p, k, Len(k))

Prefix(p) == SubSeq(p, 1, Len(p) - 1)

\* isAtIgnorePrefix: the pattern less its last wildcard matches.
IsAtIgnorePrefix(p, k) ==
  Len(p) > 1 /\ p[Len(p)] \in {Wildcard, AnyDepth} /\ Matches(Prefix(p), k)

IsPathBranchCompletelyIgnored(rule, k) ==
  \E p \in rule.ignore :
    \/ Matches(p, k)
    \/ CouldPathLeadToPattern(p, k) /\ IsAtIgnorePrefix(p, k)

ShouldTraverseIntoPath(rule, k) ==
  /\ ~IsPathBranchCompletelyIgnored(rule, k)
  /\ \/ rule.replicate = {}
     \/ \E p \in rule.replicate : Matches(p, k) \/ CouldPathLeadToPattern(p, k)

-----------------------------------------------------------------------------
(***************************************************************************)
(* What the guide of the rules says of a pattern (pathmatching/README.md). *)
(***************************************************************************)

IsRecursive(p) == Len(p) > 1 /\ p[Len(p)] = AnyDepth

\* "Standalone * is rejected" (275), and secret/** means "everything under
\* `secret/` at any depth", not `secret` (58): its "**" is one segment or more.
GuideMatches(p, k) ==
  /\ p # <<Wildcard>>
  /\ Matches(IF IsRecursive(p) THEN Append(p, Wildcard) ELSE p, k)

\* What the code accepts beyond that: nothing rejects "*", and the secret that
\* has the name of the directory is taken in (308 says no, 54 says yes).
BeyondGuide(p, k) ==
  \/ p = <<Wildcard>> /\ Len(k) = 1
  \/ IsRecursive(p) /\ Matches(Prefix(p), k)

-----------------------------------------------------------------------------
(***************************************************************************)
(* When pruning hides nothing.                                             *)
(***************************************************************************)

\* The directories the walk passes on its way to k, the root included.
Ancestors(k) == {SubSeq(k, 1, n) : n \in 0 .. Len(k) - 1}

\* The walk reaches the directory of k.  The root is never asked about.
KeepsAncestors(rule, k) ==
  \A d \in Ancestors(k) : d # <<>> => ShouldTraverseIntoPath(rule, d)

\* "**" only as the first or the last segment of what is replicated, and as the
\* last segment of all that is ignored.
PruneSafe(rule) ==
  /\ \A p \in rule.replicate : \A i \in 2 .. Len(p) - 1 : p[i] # AnyDepth
  /\ \A p \in rule.ignore : p[Len(p)] = AnyDepth
=============================================================================

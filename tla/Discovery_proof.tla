-------------------------- MODULE Discovery_proof --------------------------
(***************************************************************************)
(* Proofs about PathMatcher and Discovery.                                 *)
(***************************************************************************)
EXTENDS Discovery, WellFoundedInduction, TLAPS

-----------------------------------------------------------------------------
(***************************************************************************)
(* Patterns.                                                               *)
(***************************************************************************)

LEMMA LeastElement ==
  ASSUME NEW T \in SUBSET Nat, T # {}
  PROVE  \E x \in T : \A y \in T : x <= y
<1>. DEFINE Less == OpToRel(<, Nat)
<1>1. Less = {ss \in Nat \X Nat : ss[1] < ss[2]}
  BY DEF OpToRel
<1>2. IsWellFoundedOn(Less, Nat)
  BY NatLessThanWellFounded
<1>. HIDE DEF Less
<1>3. PICK x \in T : \A y \in T : <<y, x>> \notin Less
  BY <1>2, WFMin
<1>4. SUFFICES ASSUME NEW y \in T, y < x PROVE FALSE
  OBVIOUS
<1>5. <<y, x>> \in Nat \X Nat
  OBVIOUS
<1>6. <<y, x>> \in Less
  BY <1>1, <1>4, <1>5
<1>. QED  BY <1>3, <1>6

IsCut(p, k, cut) ==
  /\ cut \in [0 .. Len(p) -> 0 .. Len(k)]
  /\ cut[0] = 0
  /\ \A i \in 1 .. Len(p) : PieceMatches(p, k, cut, i)

\* As long as no "**" comes, each segment takes one segment of the path.
LEMMA CutBeforeAnyDepth ==
  ASSUME NEW p \in Seq(STRING), NEW k \in Seq(STRING), NEW cut, IsCut(p, k, cut),
         NEW n \in 0 .. Len(p), \A i \in 1 .. n : p[i] # AnyDepth
  PROVE  \A i \in 0 .. n : cut[i] = i
<1>. DEFINE Bad == {i \in 0 .. n : cut[i] # i}
<1>. SUFFICES ASSUME Bad # {} PROVE FALSE
  OBVIOUS
<1>0. Bad \in SUBSET Nat
  OBVIOUS
<1>1. PICK x \in Bad : \A y \in Bad : x <= y
  <2>. HIDE DEF Bad
  <2>. QED  BY <1>0, LeastElement
<1>2. x # 0
  BY DEF IsCut
<1>3. x - 1 \in 0 .. n /\ x - 1 \notin Bad
  BY <1>1, <1>2
<1>4. cut[x] = cut[x - 1] + 1
  BY <1>1, <1>2 DEF IsCut, PieceMatches
<1>. QED  BY <1>3, <1>4

LEMMA InitialPart ==
  ASSUME NEW s \in Seq(STRING), NEW n \in 0 .. Len(s)
  PROVE  /\ SubSeq(s, 1, n) \in Seq(STRING) /\ Len(SubSeq(s, 1, n)) = n
         /\ \A i \in 1 .. n : SubSeq(s, 1, n)[i] = s[i]
OBVIOUS

LEMMA AncestorFacts ==
  ASSUME NEW k \in Seq(STRING), NEW d \in Ancestors(k)
  PROVE  /\ d \in Seq(STRING) /\ Len(d) < Len(k)
         /\ \A i \in 1 .. Len(d) : d[i] = k[i]
BY DEF Ancestors

LEMMA LeadingAnyDepth ==
  ASSUME NEW p \in Seq(STRING), p # <<>>, p[1] = AnyDepth
  PROVE  HasAnyDepth(p) /\ FirstAnyDepth(p) = 1
<1>. DEFINE First(i) == i \in 1 .. Len(p) /\ p[i] = AnyDepth
                         /\ \A j \in 1 .. i - 1 : p[j] # AnyDepth
<1>1. First(1)
  OBVIOUS
<1>2. \A i : First(i) => i = 1
  OBVIOUS
<1>3. FirstAnyDepth(p) = CHOOSE i : First(i)
  BY DEF FirstAnyDepth
<1>. QED  BY <1>1, <1>2, <1>3 DEF HasAnyDepth

\* A pattern to replicate with "**" at its ends only leads to all it matches.
LEMMA ReplicateLeads ==
  ASSUME NEW p \in Seq(STRING), p # <<>>, \A i \in 2 .. Len(p) - 1 : p[i] # AnyDepth,
         NEW k \in Seq(STRING), Matches(p, k),
         NEW d \in Ancestors(k), d # <<>>
  PROVE  Matches(p, d) \/ CouldPathLeadToPattern(p, d)
<1>1. CASE p[1] = AnyDepth
  BY <1>1, LeadingAnyDepth DEF CouldPathLeadToPattern
<1>2. CASE p[1] # AnyDepth
  <2>. DEFINE n == IF p[Len(p)] = AnyDepth THEN Len(p) - 1 ELSE Len(p)
  <2>1. PICK cut : IsCut(p, k, cut) /\ cut[Len(p)] = Len(k)
    BY DEF Matches, IsCut
  <2>2. n \in 0 .. Len(p) /\ \A i \in 1 .. n : p[i] # AnyDepth
    BY <1>2
  <2>3. \A i \in 0 .. n : cut[i] = i
    <3>. HIDE DEF n
    <3>. QED  BY <2>1, <2>2, CutBeforeAnyDepth
  <2>4. /\ d \in Seq(STRING) /\ Len(d) < Len(k)
        /\ \A i \in 1 .. Len(d) : d[i] = k[i]
    BY AncestorFacts
  <2>5. \A i \in 1 .. n : SegmentMatches(p[i], k[i])
    BY <2>1, <2>2, <2>3 DEF IsCut, PieceMatches
  <2>6. n <= Len(k)
    <3>1. cut[n] = n /\ cut \in [0 .. Len(p) -> 0 .. Len(k)]
      BY <2>1, <2>2, <2>3 DEF IsCut
    <3>2. n \in 0 .. Len(k)
      <4>. HIDE DEF n
      <4>. QED  BY <2>2, <3>1
    <3>. QED  BY <3>2
  <2>7. CASE Len(d) <= n
    BY <2>2, <2>4, <2>5, <2>7 DEF CouldPathLeadToPattern, SegmentsMatch
  <2>8. CASE Len(d) > n
    <3>1. p[Len(p)] = AnyDepth /\ n = Len(p) - 1
      BY <2>1, <2>3, <2>4, <2>8
    <3>. DEFINE short == [i \in 0 .. Len(p) |-> IF i = Len(p) THEN Len(d) ELSE i]
    <3>2. short \in [0 .. Len(p) -> 0 .. Len(d)] /\ short[0] = 0
          /\ short[Len(p)] = Len(d)
      BY <1>2, <2>4, <2>8, <3>1
    <3>3. ASSUME NEW i \in 1 .. Len(p) PROVE PieceMatches(p, d, short, i)
      <4>1. CASE i = Len(p)
        BY <2>4, <2>8, <3>1, <4>1 DEF PieceMatches
      <4>2. CASE i # Len(p)
        <5>1. i \in 1 .. n /\ short[i] = i /\ short[i - 1] = i - 1
          BY <3>1, <4>2
        <5>2. d[i] = k[i] /\ SegmentMatches(p[i], k[i]) /\ p[i] # AnyDepth
          BY <2>2, <2>4, <2>5, <2>8, <5>1
        <5>. QED  BY <5>1, <5>2 DEF PieceMatches
      <4>. QED  BY <4>1, <4>2
    <3>. QED  BY <3>2, <3>3 DEF Matches
  <2>. QED  BY <2>2, <2>4, <2>7, <2>8
<1>. QED  BY <1>1, <1>2

\* A pattern that ends in "**" takes whatever lies below what its prefix takes.
LEMMA TailTakesAll ==
  ASSUME NEW p \in Seq(STRING), p # <<>>, p[Len(p)] = AnyDepth,
         NEW k \in Seq(STRING), NEW d \in Ancestors(k),
         NEW cut \in [0 .. Len(p) - 1 -> 0 .. Len(d)], cut[0] = 0,
         \A i \in 1 .. Len(p) - 1 : PieceMatches(p, d, cut, i)
  PROVE  Matches(p, k)
<1>. DEFINE long == [i \in 0 .. Len(p) |-> IF i = Len(p) THEN Len(k) ELSE cut[i]]
<1>1. /\ d \in Seq(STRING) /\ Len(d) < Len(k)
      /\ \A i \in 1 .. Len(d) : d[i] = k[i]
  BY AncestorFacts
<1>2. long \in [0 .. Len(p) -> 0 .. Len(k)] /\ long[0] = 0 /\ long[Len(p)] = Len(k)
  BY <1>1
<1>3. ASSUME NEW i \in 1 .. Len(p) PROVE PieceMatches(p, k, long, i)
  <2>1. CASE i = Len(p)
    <3>1. long[i] = Len(k) /\ long[i - 1] = cut[i - 1] /\ i - 1 \in 0 .. Len(p) - 1
      BY <2>1
    <3>2. cut[i - 1] \in 0 .. Len(d)
      <4>. HIDE DEF long
      <4>. QED  BY <3>1
    <3>3. cut[i - 1] <= Len(k)
      BY <1>1, <3>2
    <3>. QED  BY <2>1, <3>1, <3>3 DEF PieceMatches
  <2>2. CASE i # Len(p)
    <3>1. long[i] = cut[i] /\ long[i - 1] = cut[i - 1] /\ PieceMatches(p, d, cut, i)
      BY <2>2
    <3>2. cut[i] \in 0 .. Len(d) /\ cut[i - 1] \in 0 .. Len(d)
      <4>. HIDE DEF long
      <4>1. i \in 0 .. Len(p) - 1 /\ i - 1 \in 0 .. Len(p) - 1
        BY <2>2
      <4>. QED  BY <4>1
    <3>3. CASE p[i] = AnyDepth
      BY <3>1, <3>3 DEF PieceMatches
    <3>4. CASE p[i] # AnyDepth
      <4>1. cut[i] = cut[i - 1] + 1 /\ SegmentMatches(p[i], d[cut[i]])
        BY <3>1, <3>4 DEF PieceMatches
      <4>2. d[cut[i]] = k[cut[i]]
        BY <1>1, <3>2, <4>1
      <4>. QED  BY <3>1, <3>4, <4>1, <4>2 DEF PieceMatches
    <3>. QED  BY <3>3, <3>4
  <2>. QED  BY <2>1, <2>2
<1>. QED  BY <1>2, <1>3 DEF Matches

LEMMA IgnoreHidesOnlyIgnored ==
  ASSUME NEW p \in Seq(STRING), p # <<>>, p[Len(p)] = AnyDepth,
         NEW k \in Seq(STRING), NEW d \in Ancestors(k),
         Matches(p, d) \/ IsAtIgnorePrefix(p, d)
  PROVE  Matches(p, k)
<1>. d \in Seq(STRING) /\ Len(p) \in Nat \ {0}
  BY AncestorFacts
<1>1. CASE Matches(p, d)
  <2>1. PICK c \in [0 .. Len(p) -> 0 .. Len(d)] :
          /\ c[0] = 0 /\ \A i \in 1 .. Len(p) : PieceMatches(p, d, c, i)
    BY <1>1 DEF Matches
  <2>. DEFINE cut == [i \in 0 .. Len(p) - 1 |-> c[i]]
  <2>2. cut \in [0 .. Len(p) - 1 -> 0 .. Len(d)] /\ cut[0] = 0
    BY <2>1
  <2>3. \A i \in 1 .. Len(p) - 1 : PieceMatches(p, d, cut, i)
    BY <2>1 DEF PieceMatches
  <2>. HIDE DEF cut
  <2>. QED  BY <2>2, <2>3, TailTakesAll
<1>2. CASE IsAtIgnorePrefix(p, d)
  <2>. DEFINE q == Prefix(p)
  <2>1. q \in Seq(STRING) /\ Len(q) = Len(p) - 1 /\ \A i \in 1 .. Len(q) : q[i] = p[i]
    <3>1. Len(p) - 1 \in 0 .. Len(p) /\ q = SubSeq(p, 1, Len(p) - 1)
      BY DEF Prefix
    <3>. HIDE DEF q
    <3>. QED  BY <3>1, InitialPart
  <2>2. PICK cut \in [0 .. Len(q) -> 0 .. Len(d)] :
          /\ cut[0] = 0 /\ \A i \in 1 .. Len(q) : PieceMatches(q, d, cut, i)
    BY <1>2 DEF IsAtIgnorePrefix, Matches
  <2>3. \A i \in 1 .. Len(p) - 1 : PieceMatches(p, d, cut, i)
    BY <2>1, <2>2 DEF PieceMatches
  <2>. HIDE DEF q
  <2>. QED  BY <2>1, <2>2, <2>3, TailTakesAll
<1>. QED  BY <1>1, <1>2

\* What pruning promises, for every path and every rule that keeps to it.
THEOREM PruningSafe ==
  ASSUME NEW r, r.replicate \subseteq Seq(STRING) \ {<<>>},
         r.ignore \subseteq Seq(STRING) \ {<<>>}, PruneSafe(r),
         NEW mount, NEW k \in Seq(STRING), ShouldSync(r, mount, k)
  PROVE  KeepsAncestors(r, k)
<1>. SUFFICES ASSUME NEW d \in Ancestors(k), d # <<>>
              PROVE  ShouldTraverseIntoPath(r, d)
  BY DEF KeepsAncestors
<1>1. ~IsPathBranchCompletelyIgnored(r, d)
  <2>. SUFFICES ASSUME NEW p \in r.ignore, Matches(p, d) \/ IsAtIgnorePrefix(p, d)
                PROVE  FALSE
    BY DEF IsPathBranchCompletelyIgnored
  <2>1. p \in Seq(STRING) /\ p # <<>> /\ p[Len(p)] = AnyDepth
    BY DEF PruneSafe
  <2>2. Matches(p, k)
    BY <2>1, IgnoreHidesOnlyIgnored
  <2>. QED  BY <2>2 DEF ShouldSync
<1>2. ASSUME r.replicate # {}
      PROVE  \E p \in r.replicate : Matches(p, d) \/ CouldPathLeadToPattern(p, d)
  <2>1. PICK p \in r.replicate : Matches(p, k)
    BY <1>2 DEF ShouldSync
  <2>2. p \in Seq(STRING) /\ p # <<>> /\ \A i \in 2 .. Len(p) - 1 : p[i] # AnyDepth
    BY DEF PruneSafe
  <2>. QED  BY <2>1, <2>2, ReplicateLeads
<1>. QED  BY <1>1, <1>2 DEF ShouldTraverseIntoPath

-----------------------------------------------------------------------------
(***************************************************************************)
(* The walk.  Types first: which mount and directory a key comes from.     *)
(***************************************************************************)

KeyPath == Seq(STRING) \ {<<>>}

\* Where the keys come from.  In contrast to TypeOK it does not bound the
\* counters, which the walk does not depend on.
WalkTypes ==
  /\ rule \in Rules
  /\ tree \in [MountNames -> SUBSET KeyPath]
  /\ always \in [MountNames -> SUBSET KeyPath]
  /\ ever \in [MountNames -> SUBSET KeyPath]
  /\ \A m \in MountNames : always[m] \subseteq tree[m] /\ tree[m] \subseteq ever[m]
  /\ at \in 1 .. Len(Mounts)
  /\ phase \in {"mount", "list", "done"}
  /\ pending \subseteq Seq(STRING)
  /\ spoiled \subseteq MountNames
  /\ phase = "mount" => pending = {} /\ found = {}

\* What is in hand: keys of the present mount, and of the mounts behind it.
Accepted(m, k) == k \in ever[m] /\ ShouldSync(rule, m, k)
HandInv ==
  /\ \A k \in found : Accepted(Here, k)
  /\ \A s \in result : s[1] \in MountNames /\ Accepted(s[1], s[2])

\* What is owed: every secret that should be found and was there all the time is
\* found, or lies below a directory that waits.
Owed(m) == {k \in always[m] : ShouldSync(rule, m, k) /\ KeepsAncestors(rule, k)}
OwedInv ==
  /\ phase = "list" /\ Here \notin spoiled =>
       \A k \in Owed(Here) : k \in found \/ \E d \in pending : d \in Ancestors(k)
  /\ \A i \in 1 .. Len(Mounts) :
       (i < at \/ phase = "done") /\ Mounts[i] \notin spoiled =>
         \A k \in Owed(Mounts[i]) : Located(Mounts[i], k) \in result

WalkInv == WalkTypes /\ HandInv /\ OwedInv

LEMMA HereFacts == ASSUME at \in 1 .. Len(Mounts) PROVE Here \in MountNames
BY MountsAssumption DEF Here, MountNames, Range

LEMMA RootIsAncestor == ASSUME NEW k \in KeyPath PROVE <<>> \in Ancestors(k)
<1>1. SubSeq(k, 1, 0) = <<>> /\ 0 \in 0 .. Len(k) - 1
  BY DEF KeyPath
<1>. QED  BY <1>1 DEF Ancestors

LEMMA InitWalkInv == Init => WalkInv
<1>. SUFFICES ASSUME Init PROVE WalkInv
  OBVIOUS
<1>1. WalkTypes
  <2>1. \A t \in Trees : t \in [MountNames -> SUBSET KeyPath]
    BY UniverseAssumption DEF KeyPath
  <2>2. Len(Mounts) \in Nat \ {0}
    BY MountsAssumption
  <2>. QED  BY <2>1, <2>2 DEF Init, WalkTypes
<1>2. HandInv /\ OwedInv
  BY DEF Init, HandInv, OwedInv
<1>. QED  BY <1>1, <1>2 DEF WalkInv

\* Every secret below a directory is one of its keys or lies below one of its
\* subdirectories.
LEMMA NextDirectory ==
  ASSUME NEW k \in KeyPath, NEW d \in Ancestors(k), Len(k) # Len(d) + 1
  PROVE  LET e == SubSeq(k, 1, Len(d) + 1)
         IN  e \in Ancestors(k) /\ e # <<>> /\ e \in Seq(STRING)
<1>1. Len(d) \in Nat /\ Len(d) < Len(k) /\ Len(k) \in Nat /\ k \in Seq(STRING)
  BY AncestorFacts DEF KeyPath
<1>2. Len(d) + 1 \in 0 .. Len(k) - 1
  BY <1>1
<1>3. SubSeq(k, 1, Len(d) + 1) \in Seq(STRING) /\ Len(SubSeq(k, 1, Len(d) + 1)) = Len(d) + 1
  BY <1>1, <1>2, InitialPart
<1>4. SubSeq(k, 1, Len(d) + 1) # <<>>
  BY <1>1, <1>3
<1>. QED  BY <1>2, <1>3, <1>4 DEF Ancestors

LEMMA ListKeeps ==
  ASSUME WalkInv, NEW d \in pending, List(d)
  PROVE  WalkInv'
<1>. USE DEF WalkInv
<1>1. /\ Here \in MountNames /\ Here' = Here
      /\ UNCHANGED <<rule, tree, always, ever, at, phase, result, spoiled>>
  BY HereFacts DEF List, world, Here, WalkTypes
<1>2. tree[Here] \subseteq KeyPath /\ always[Here] \subseteq tree[Here]
      /\ tree[Here] \subseteq ever[Here]
  BY <1>1 DEF WalkTypes
<1>3. Subdirs(d) \subseteq Seq(STRING)
  BY <1>2, NextDirectory DEF Subdirs, Secrets, Below
<1>4. WalkTypes'
  BY <1>1, <1>3 DEF WalkTypes, List
<1>5. HandInv'
  BY <1>1, <1>2 DEF HandInv, Accepted, List, Secrets, Below
<1>6. ASSUME Here \notin spoiled, NEW k \in Owed(Here)
      PROVE  k \in found' \/ \E e \in pending' : e \in Ancestors(k)
  <2>1. k \in KeyPath /\ k \in tree[Here] /\ ShouldSync(rule, Here, k) /\ KeepsAncestors(rule, k)
    BY <1>2 DEF Owed
  <2>2. CASE k \in found
    BY <2>2 DEF List
  <2>3. CASE \E e \in pending : e # d /\ e \in Ancestors(k)
    BY <2>3 DEF List
  <2>4. CASE d \in Ancestors(k) /\ Len(k) = Len(d) + 1
    BY <2>1, <2>4 DEF List, Secrets, Below
  <2>5. CASE d \in Ancestors(k) /\ Len(k) # Len(d) + 1
    <3>. DEFINE e == SubSeq(k, 1, Len(d) + 1)
    <3>1. e \in Ancestors(k) /\ e # <<>>
      BY <2>1, <2>5, NextDirectory
    <3>2. e \in Subdirs(d)
      BY <2>1, <2>5 DEF Subdirs, Secrets, Below
    <3>3. ShouldTraverseIntoPath(rule, e)
      BY <2>1, <3>1 DEF KeepsAncestors
    <3>4. e \in pending'
      BY <3>2, <3>3 DEF List
    <3>. QED  BY <3>1, <3>4
  <2>6. phase = "list"
    BY DEF List
  <2>. QED  BY <1>6, <2>2, <2>3, <2>4, <2>5, <2>6 DEF OwedInv
<1>7. Owed(Here)' = Owed(Here) /\ \A i \in 1 .. Len(Mounts) : Owed(Mounts[i])' = Owed(Mounts[i])
  BY <1>1 DEF Owed
<1>8. OwedInv'
  BY <1>1, <1>6, <1>7 DEF OwedInv
<1>. QED  BY <1>4, <1>5, <1>8

\* The loop over the mounts, whose Here changes.
LEMMA LoopKeeps ==
  ASSUME WalkInv, EnterMount \/ MountFails \/ LeaveMount
  PROVE  WalkInv'
<1>. USE DEF WalkInv
<1>0. /\ Here \in MountNames /\ Len(Mounts) \in Nat \ {0} /\ at \in 1 .. Len(Mounts)
      /\ UNCHANGED <<rule, tree, always, ever>> /\ always[Here] \subseteq KeyPath
  BY HereFacts, MountsAssumption DEF EnterMount, MountFails, LeaveMount, world, WalkTypes
<1>1. \A m : Owed(m)' = Owed(m)
  BY <1>0 DEF Owed
<1>2. CASE EnterMount
  <2>1. Here' = Here /\ UNCHANGED <<at, result, spoiled>> /\ phase' = "list"
        /\ pending' = {<<>>} /\ found' = {} /\ phase = "mount"
    BY <1>2 DEF EnterMount, Here
  <2>2. WalkTypes' /\ HandInv'
    BY <1>0, <2>1 DEF WalkTypes, HandInv, Accepted
  <2>3. \A k \in Owed(Here) : <<>> \in Ancestors(k)
    BY <1>0, RootIsAncestor DEF Owed
  <2>. QED  BY <1>0, <1>1, <2>1, <2>2, <2>3 DEF OwedInv
<1>3. ASSUME NextMount
      PROVE  /\ at' \in 1 .. Len(Mounts) /\ phase' \in {"mount", "done"}
             /\ pending' = {} /\ found' = {}
             /\ \A i \in 1 .. Len(Mounts) : i < at' \/ phase' = "done" => i < at \/ i = at
  BY <1>0, <1>3 DEF NextMount
<1>4. CASE MountFails
  <2>1. NextMount /\ spoiled' = spoiled \cup {Here} /\ UNCHANGED result
    BY <1>4 DEF MountFails
  <2>2. WalkTypes' /\ HandInv'
    BY <1>0, <1>3, <2>1 DEF WalkTypes, HandInv, Accepted
  <2>3. OwedInv'
    BY <1>0, <1>1, <1>3, <2>1 DEF OwedInv, Here
  <2>. QED  BY <2>2, <2>3
<1>5. CASE LeaveMount
  <2>1. /\ NextMount /\ UNCHANGED spoiled /\ phase = "list" /\ pending = {}
        /\ result' = result \cup {Located(Here, k) : k \in found}
    BY <1>5 DEF LeaveMount
  <2>2. WalkTypes'
    BY <1>0, <1>3, <2>1 DEF WalkTypes
  <2>3. HandInv'
    <3>1. \A k \in found : Located(Here, k)[1] = Here /\ Located(Here, k)[2] = k
      BY DEF Located
    <3>. QED  BY <1>0, <1>3, <2>1, <3>1 DEF HandInv, Accepted
  <2>4. Here \notin spoiled => \A k \in Owed(Here) : Located(Here, k) \in result'
    BY <2>1 DEF OwedInv
  <2>5. OwedInv'
    BY <1>0, <1>1, <1>3, <2>1, <2>4 DEF OwedInv, Here
  <2>. QED  BY <2>2, <2>3, <2>5
<1>. QED  BY <1>2, <1>4, <1>5

LEMMA EnvironmentKeeps ==
  ASSUME WalkInv, Environment
  PROVE  WalkInv'
<1>. USE DEF WalkInv
<1>0. /\ Here \in MountNames /\ at \in 1 .. Len(Mounts)
      /\ \A i \in 1 .. Len(Mounts) : Mounts[i] \in MountNames
  BY HereFacts DEF WalkTypes, MountNames, Range
<1>1. CASE Cancel
  <2>1. UNCHANGED <<rule, tree, always, ever, at, phase, pending, found, result, spoiled>>
    BY <1>1 DEF Cancel, world
  <2>. QED  BY <2>1 DEF WalkTypes, HandInv, Accepted, OwedInv, Owed, Here
<1>2. ASSUME NEW d \in pending, ListConfused(d) PROVE WalkInv'
  <2>1. /\ UNCHANGED <<rule, tree, always, ever, at, phase, found, result>>
        /\ pending' = pending \ {d} /\ spoiled' = spoiled \cup {Here} /\ Here' = Here
        /\ phase = "list"
    BY <1>2 DEF ListConfused, world, Here
  <2>2. WalkTypes' /\ HandInv'
    BY <1>0, <2>1 DEF WalkTypes, HandInv, Accepted
  <2>3. OwedInv'
    BY <1>0, <2>1 DEF OwedInv, Owed
  <2>. QED  BY <2>2, <2>3
<1>3. ASSUME NEW m \in MountNames, NEW k \in Universe[m], Create(m, k) \/ Delete(m, k)
      PROVE  WalkInv'
  <2>1. UNCHANGED <<rule, at, phase, pending, found, result, spoiled>> /\ Here' = Here
    BY <1>3 DEF Create, Delete, walk, Here
  <2>2. k \in KeyPath
    BY <1>3, UniverseAssumption DEF KeyPath
  <2>3. WalkTypes'
    BY <1>3, <2>1, <2>2 DEF WalkTypes, Create, Delete
  <2>4. \A n \in MountNames : ever[n] \subseteq ever'[n] /\ always'[n] \subseteq always[n]
    BY <1>3 DEF WalkTypes, Create, Delete
  <2>5. HandInv'
    BY <1>0, <2>1, <2>4 DEF HandInv, Accepted
  <2>6. \A n \in MountNames : Owed(n)' \subseteq Owed(n)
    BY <2>1, <2>4 DEF Owed
  <2>7. OwedInv'
    BY <1>0, <2>1, <2>6 DEF OwedInv
  <2>. QED  BY <2>3, <2>5, <2>7
<1>. QED  BY <1>1, <1>2, <1>3 DEF Environment

LEMMA NextWalkInv == WalkInv /\ [Next]_vars => WalkInv'
<1>. SUFFICES ASSUME WalkInv, [Next]_vars PROVE WalkInv'
  OBVIOUS
<1>1. CASE UNCHANGED vars
  BY <1>1 DEF vars, WalkInv, WalkTypes, HandInv, Accepted, OwedInv, Owed, Here
<1>2. CASE Next
  BY <1>1, <1>2, ListKeeps, LoopKeeps, EnvironmentKeeps DEF Next, Step, Terminated
<1>. QED  BY <1>1, <1>2

LEMMA WalkInvHolds == Spec => []WalkInv
BY InitWalkInv, NextWalkInv, PTL DEF Spec

-----------------------------------------------------------------------------
(***************************************************************************)
(* Type correctness: what waits is a directory of some key of the mount,   *)
(* what was found is a key of it.                                          *)
(***************************************************************************)
LEMMA InitType == Init => TypeOK
<1> SUFFICES ASSUME Init PROVE TypeOK
  OBVIOUS
<1>1. /\ tree \in [MountNames -> SUBSET UNION Range(Universe)]
      /\ \A m \in MountNames : tree[m] \subseteq Universe[m]
  BY UniverseAssumption DEF Init
<1>2. at \in 1 .. Len(Mounts)
  BY MountsAssumption DEF Init
<1>3. changes \in 0 .. MaxChanges /\ faults \in 0 .. MaxFaults
  BY BoundsAssumption DEF Init
<1>4. DOMAIN always = MountNames /\ DOMAIN ever = MountNames
  BY <1>1 DEF Init
<1>5. \A m \in MountNames : /\ always[m] \subseteq tree[m] /\ tree[m] \subseteq ever[m]
                            /\ ever[m] \subseteq Universe[m]
  BY <1>1 DEF Init
<1>6. /\ pending = {} /\ found = {} /\ result = {} /\ spoiled = {}
      /\ rule \in Rules /\ cancelled = FALSE /\ phase = "mount"
  BY DEF Init
<1>7. /\ pending \subseteq {<<>>} \cup UNION {Ancestors(k) : k \in ever[Here]}
      /\ found \subseteq ever[Here] /\ spoiled \subseteq MountNames
      /\ result \subseteq {Located(m, k) : m \in MountNames, k \in UNION Range(ever)}
  BY <1>6
<1>8. cancelled \in BOOLEAN /\ phase \in {"mount", "list", "done"}
  BY <1>6
<1> QED BY <1>1, <1>2, <1>3, <1>4, <1>5, <1>6, <1>7, <1>8 DEF TypeOK

LEMMA StrikesBounded ==
  ASSUME faults \in 0 .. MaxFaults, UNCHANGED faults \/ (\E f : Strikes(f))
  PROVE  faults' \in 0 .. MaxFaults
BY BoundsAssumption DEF Strikes

LEMMA ListType ==
  ASSUME WalkInv, TypeOK, NEW d \in pending, List(d) PROVE TypeOK'
<1>1. /\ Here' = Here /\ Here \in MountNames
      /\ UNCHANGED <<rule, tree, always, ever, changes, faults, cancelled, at, phase, result,
                     spoiled>>
  BY HereFacts DEF List, world, Here, TypeOK
<1>2. /\ tree[Here] \subseteq ever[Here] /\ ever[Here] \subseteq KeyPath
  BY <1>1 DEF WalkInv, WalkTypes
<1>3. Secrets(d) \subseteq ever[Here]
  BY <1>2 DEF Secrets, Below
<1>4. ASSUME NEW e \in Subdirs(d)
      PROVE  \E k \in ever[Here] : e \in Ancestors(k)
  <2>1. PICK k \in Below(d) \ Secrets(d) : e = SubSeq(k, 1, Len(d) + 1)
    BY DEF Subdirs
  <2>2. k \in KeyPath /\ d \in Ancestors(k) /\ Len(k) # Len(d) + 1 /\ k \in ever[Here]
    BY <1>2, <2>1 DEF Below, Secrets
  <2> QED BY <2>1, <2>2, NextDirectory
<1>5. pending' \subseteq {<<>>} \cup UNION {Ancestors(k) : k \in ever[Here]}
  <2>1. Subdirs(d) \subseteq UNION {Ancestors(k) : k \in ever[Here]}
    BY <1>4
  <2> QED BY <2>1 DEF List, TypeOK
<1>6. found' \subseteq ever[Here]
  BY <1>3 DEF List, TypeOK
<1> QED BY <1>1, <1>5, <1>6 DEF TypeOK

LEMMA LoopType ==
  ASSUME TypeOK, EnterMount \/ MountFails \/ LeaveMount PROVE TypeOK'
<1>1. /\ Here \in MountNames /\ Len(Mounts) \in Nat \ {0}
      /\ UNCHANGED <<rule, tree, always, ever, changes, cancelled>>
  BY HereFacts, MountsAssumption DEF TypeOK, EnterMount, MountFails, LeaveMount, world
<1>2. ASSUME NextMount
      PROVE  /\ at' \in 1 .. Len(Mounts) /\ phase' \in {"mount", "list", "done"}
             /\ pending' = {} /\ found' = {}
  BY <1>1, <1>2 DEF NextMount, TypeOK
<1>3. CASE EnterMount
  <2>1. /\ phase' = "list" /\ pending' = {<<>>} /\ found' = {}
        /\ UNCHANGED <<faults, at, result, spoiled>>
    BY <1>3 DEF EnterMount
  <2> QED BY <1>1, <2>1 DEF TypeOK
<1>4. CASE MountFails
  <2>1. NextMount /\ spoiled' = spoiled \cup {Here} /\ UNCHANGED result
    BY <1>4 DEF MountFails
  <2>2. faults' \in 0 .. MaxFaults
    BY <1>4, StrikesBounded DEF MountFails, CallFails, TypeOK
  <2> QED BY <1>1, <1>2, <2>1, <2>2 DEF TypeOK
<1>5. CASE LeaveMount
  <2>1. /\ NextMount /\ UNCHANGED <<faults, spoiled>>
        /\ result' = result \cup {Located(Here, k) : k \in found}
    BY <1>5 DEF LeaveMount
  <2>2. ASSUME NEW k \in found PROVE k \in UNION Range(ever)
    BY <1>1 DEF TypeOK, Range
  <2>3. result' \subseteq {Located(m, k) : m \in MountNames, k \in UNION Range(ever)}
    BY <1>1, <2>1, <2>2 DEF TypeOK
  <2>4. /\ pending' = {} /\ found' = {} /\ at' \in 1 .. Len(Mounts)
        /\ phase' \in {"mount", "list", "done"} /\ UNCHANGED <<faults, spoiled>>
    BY <1>2, <2>1
  <2>5. result' \subseteq {Located(m, k) : m \in MountNames, k \in UNION Range(ever')}
    BY <1>1, <2>3
  <2> QED BY <1>1, <2>4, <2>5 DEF TypeOK
<1> QED BY <1>3, <1>4, <1>5

LEMMA EnvironmentType ==
  ASSUME TypeOK, Environment PROVE TypeOK'
<1>0. Here \in MountNames
  BY HereFacts DEF TypeOK
<1>1. CASE Cancel
  BY <1>1, StrikesBounded DEF Cancel, world, TypeOK, Here
<1>2. ASSUME NEW d \in pending, ListConfused(d) PROVE TypeOK'
  <2>1. faults' \in 0 .. MaxFaults
    BY <1>2, StrikesBounded DEF ListConfused, TypeOK
  <2> QED BY <1>0, <1>2, <2>1 DEF ListConfused, world, TypeOK, Here
<1>3. ASSUME NEW m \in MountNames, NEW k \in Universe[m], Create(m, k) \/ Delete(m, k)
      PROVE  TypeOK'
  <2>1. /\ UNCHANGED <<rule, faults, cancelled, at, phase, pending, found, result, spoiled>>
        /\ Here' = Here /\ changes' \in 0 .. MaxChanges
    BY <1>3, BoundsAssumption DEF Create, Delete, walk, Here, TypeOK
  <2>2. k \in UNION Range(Universe)
    BY UniverseAssumption DEF Range
  <2>3. tree' \in [MountNames -> SUBSET UNION Range(Universe)]
    BY <1>3, <2>2 DEF Create, Delete, TypeOK
  <2>4. /\ DOMAIN always' = MountNames /\ DOMAIN ever' = MountNames
        /\ \A n \in MountNames : /\ always'[n] \subseteq tree'[n] /\ tree'[n] \subseteq ever'[n]
                                 /\ ever'[n] \subseteq Universe[n] /\ ever[n] \subseteq ever'[n]
    BY <1>3 DEF Create, Delete, TypeOK
  <2>5. /\ pending \subseteq {<<>>} \cup UNION {Ancestors(x) : x \in ever'[Here]}
        /\ found \subseteq ever'[Here]
    BY <1>0, <2>4 DEF TypeOK
  <2>6. \A x \in UNION Range(ever) : x \in UNION Range(ever')
    <3> SUFFICES ASSUME NEW n \in MountNames, NEW x \in ever[n] PROVE x \in UNION Range(ever')
      BY DEF Range, TypeOK
    <3> QED BY <2>4 DEF Range
  <2>7. result \subseteq {Located(n, x) : n \in MountNames, x \in UNION Range(ever')}
    BY <2>6 DEF TypeOK
  <2> QED BY <2>1, <2>3, <2>4, <2>5, <2>7 DEF TypeOK
<1> QED BY <1>1, <1>2, <1>3 DEF Environment

LEMMA NextType == WalkInv /\ TypeOK /\ [Next]_vars => TypeOK'
<1> SUFFICES ASSUME WalkInv, TypeOK, [Next]_vars PROVE TypeOK'
  OBVIOUS
<1>1. CASE UNCHANGED vars
  BY <1>1 DEF vars, TypeOK, Here
<1> QED BY <1>1, ListType, LoopType, EnvironmentType DEF Next, Step, Terminated

-----------------------------------------------------------------------------
(***************************************************************************)
(* The theorems.                                                           *)
(***************************************************************************)

\* Every variable keeps its type: the walk waits only for directories of the
\* mount it is in and holds only keys of it.
THEOREM DiscoveryTypes == Spec => []TypeOK
BY InitType, NextType, WalkInvHolds, PTL DEF Spec

\* A path that a pattern matches is one the guide gives it, or one of the two
\* exceptions: the piece of the last "**" is not empty, or the rest matches.
LEMMA GuideOrBeyond ==
  ASSUME NEW p \in Seq(STRING), p # <<>>, NEW k \in Seq(STRING), Matches(p, k)
  PROVE  GuideMatches(p, k) \/ BeyondGuide(p, k)
<1>. DEFINE n == Len(p)
<1>1. PICK cut \in [0 .. n -> 0 .. Len(k)] :
        /\ cut[0] = 0 /\ cut[n] = Len(k)
        /\ \A i \in 1 .. n : PieceMatches(p, k, cut, i)
  BY DEF Matches
<1>2. CASE p = <<Wildcard>>
  <2>1. n = 1 /\ p[1] # AnyDepth
    BY <1>2 DEF Wildcard, AnyDepth
  <2>2. cut[1] = cut[0] + 1
    BY <1>1, <2>1 DEF PieceMatches
  <2>. QED  BY <1>1, <1>2, <2>1, <2>2 DEF BeyondGuide
<1>3. CASE ~IsRecursive(p) /\ p # <<Wildcard>>
  BY <1>3 DEF GuideMatches
<1>4. CASE IsRecursive(p) /\ cut[n - 1] = Len(k)
  <2>1. /\ n - 1 \in 1 .. n
        /\ Prefix(p) \in Seq(STRING) /\ Len(Prefix(p)) = n - 1
        /\ \A i \in 1 .. n - 1 : Prefix(p)[i] = p[i]
    BY <1>4 DEF IsRecursive, Prefix
  <2>. DEFINE short == [i \in 0 .. n - 1 |-> cut[i]]
  <2>2. short \in [0 .. n - 1 -> 0 .. Len(k)] /\ short[0] = 0 /\ short[n - 1] = Len(k)
    BY <1>1, <1>4, <2>1
  <2>3. ASSUME NEW i \in 1 .. n - 1 PROVE PieceMatches(Prefix(p), k, short, i)
    <3>1. short[i] = cut[i] /\ short[i - 1] = cut[i - 1] /\ Prefix(p)[i] = p[i]
      BY <2>1
    <3>2. PieceMatches(p, k, cut, i)
      BY <1>1
    <3>. QED  BY <3>1, <3>2 DEF PieceMatches
  <2>. HIDE DEF short
  <2>4. Matches(Prefix(p), k)
    BY <2>1, <2>2, <2>3 DEF Matches
  <2>. QED  BY <1>4, <2>4 DEF BeyondGuide
<1>5. CASE IsRecursive(p) /\ cut[n - 1] # Len(k)
  <2>. DEFINE q == Append(p, Wildcard)
              long == [i \in 0 .. n + 1 |-> IF i = n THEN Len(k) - 1
                                            ELSE IF i = n + 1 THEN Len(k) ELSE cut[i]]
  <2>1. /\ n > 1 /\ p[n] = AnyDepth
        /\ q \in Seq(STRING) /\ Len(q) = n + 1 /\ q[n + 1] = Wildcard
        /\ \A i \in 1 .. n : q[i] = p[i]
    <3>1. n \in Nat /\ n > 1 /\ p[n] = AnyDepth
      BY <1>5 DEF IsRecursive
    <3>2. Wildcard \in STRING
      BY DEF Wildcard
    <3>3. /\ q \in Seq(STRING) /\ Len(q) = n + 1 /\ q[n + 1] = Wildcard
          /\ \A i \in 1 .. n : q[i] = p[i]
      BY <3>2
    <3>. QED  BY <3>1, <3>3
  <2>2. cut[n - 1] \in 0 .. Len(k) - 1
    BY <1>1, <1>5, <2>1
  <2>3. /\ long[n] = Len(k) - 1 /\ long[n + 1] = Len(k)
        /\ \A i \in 0 .. n - 1 : long[i] = cut[i]
    BY <2>1
  <2>4. long \in [0 .. n + 1 -> 0 .. Len(k)] /\ long[0] = 0
    BY <1>1, <2>1, <2>2
  <2>. HIDE DEF long, q
  <2>5. ASSUME NEW i \in 1 .. n + 1 PROVE PieceMatches(q, k, long, i)
    <3>1. CASE i = n + 1
      <4>1. q[i] # AnyDepth /\ SegmentMatches(q[i], k[long[i]])
        BY <2>1, <3>1 DEF SegmentMatches, Wildcard, AnyDepth
      <4>. QED  BY <2>3, <3>1, <4>1 DEF PieceMatches
    <3>2. CASE i = n
      BY <2>1, <2>2, <2>3, <3>2 DEF PieceMatches
    <3>3. CASE i \in 1 .. n - 1
      <4>1. long[i] = cut[i] /\ long[i - 1] = cut[i - 1] /\ q[i] = p[i]
        BY <2>1, <2>3, <3>3
      <4>2. PieceMatches(p, k, cut, i)
        BY <1>1, <3>3
      <4>. QED  BY <4>1, <4>2 DEF PieceMatches
    <3>. QED  BY <3>1, <3>2, <3>3
  <2>6. Matches(q, k)
    BY <2>1, <2>3, <2>4, <2>5 DEF Matches
  <2>7. p # <<Wildcard>>
    BY <2>1
  <2>. QED  BY <1>5, <2>6, <2>7 DEF GuideMatches, q
<1>. QED  BY <1>2, <1>3, <1>4, <1>5

\* Whatever the mounts, rules, faults and changes: discovery yields nothing the
\* rule excludes and nothing that was never there, and nothing the guide's reading
\* of the rule leaves out, but for the two cases.
THEOREM OnlyAccepted == Spec => []OnlyWhatTheRuleAccepts
<1>1. ASSUME WalkInv, NEW s \in result PROVE Accepted(s[1], s[2]) /\ s[2] \in KeyPath
  BY <1>1 DEF WalkInv, WalkTypes, HandInv, Accepted
<1>2. ASSUME WalkInv, NEW s \in result, rule.replicate # {}
      PROVE  \E p \in rule.replicate : GuideMatches(p, s[2]) \/ BeyondGuide(p, s[2])
  <2>1. PICK p \in rule.replicate : Matches(p, s[2])
    BY <1>1, <1>2 DEF Accepted, ShouldSync
  <2>2. p \in Seq(STRING) /\ p # <<>>
    BY <1>2, RulesAssumption DEF WalkInv, WalkTypes
  <2>. QED  BY <1>1, <1>2, <2>1, <2>2, GuideOrBeyond DEF KeyPath
<1>3. WalkInv => OnlyWhatTheRuleAccepts
  BY <1>1, <1>2 DEF Accepted, OnlyWhatTheRuleAccepts
<1>. QED  BY <1>3, WalkInvHolds, PTL

\* ... and every accepted secret that stays, if pruning keeps its directories
\* and no fault struck its mount.
THEOREM WalkComplete == Spec => []Complete
<1>1. ASSUME WalkInv PROVE Complete
  <2>. SUFFICES ASSUME phase = "done", NEW m \in MountNames \ spoiled, NEW k \in Owed(m)
                PROVE  Located(m, k) \in result
    BY DEF Complete, Owed
  <2>1. PICK i \in 1 .. Len(Mounts) : Mounts[i] = m
    BY MountsAssumption DEF MountNames, Range
  <2>. QED  BY <1>1, <2>1 DEF WalkInv, OwedInv
<1>. QED  BY <1>1, WalkInvHolds, PTL

LEMMA SafeRuleKeeps ==
  ASSUME NEW r \in Rules, PruneSafe(r), NEW m, NEW k \in KeyPath, ShouldSync(r, m, k)
  PROVE  KeepsAncestors(r, k)
BY RulesAssumption, PruningSafe DEF KeyPath

\* The two readings of the patterns agree for every rule that PruneSafe admits.
THEOREM PruningHarmless == Spec => []PruningHidesNothing
<1>1. \A k \in UNION Range(Universe) : k \in KeyPath
  BY UniverseAssumption DEF Range, KeyPath
<1>2. WalkInv => PruningHidesNothing
  BY <1>1, SafeRuleKeeps DEF PruningHidesNothing, WalkInv, WalkTypes
<1>. QED  BY <1>2, WalkInvHolds, PTL

\* With such rules only, what the path-matcher command says is what a run
\* discovers: the finding needs a rule that PruneSafe excludes.
THEOREM SafeRulesDiscoverAll ==
  ASSUME \A r \in Rules : PruneSafe(r)
  PROVE  Spec => []WhatMatchesIsDiscovered
<1>1. ASSUME WalkInv, Complete PROVE WhatMatchesIsDiscovered
  <2>. SUFFICES ASSUME phase = "done", NEW m \in MountNames \ spoiled, NEW k \in always[m],
                       ShouldSync(rule, m, k)
                PROVE  Located(m, k) \in result
    BY DEF WhatMatchesIsDiscovered
  <2>1. k \in KeyPath /\ rule \in Rules
    BY <1>1 DEF WalkInv, WalkTypes
  <2>. QED  BY <1>1, <2>1, SafeRuleKeeps DEF Complete
<1>. QED  BY <1>1, WalkInvHolds, WalkComplete, PTL

=============================================================================

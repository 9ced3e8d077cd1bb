------------------------- MODULE SyncJobMirror_proof -------------------------
(***************************************************************************)
(* Proofs about runs that do not overlap.                                  *)
(*                                                                         *)
(* They keep a mirror: SyncJob implements ReplicaMirror.  The argument     *)
(* follows the data: a run that writes reads the source after every        *)
(* earlier run has ended, so what it writes is at least as new as all that *)
(* has landed; a run that deletes has seen the source gone, and any source *)
(* that appears later has newer data.                                      *)
(*                                                                         *)
(* Every copy keeps a row, and what a run reports is so: also when it      *)
(* reports that there was nothing to do.                                   *)
(***************************************************************************)
EXTENDS SyncJobSafety_proof

\* The schedule forbids overlapping runs.
OneRun == \A p, q \in Runs : p = q

-----------------------------------------------------------------------------
(***************************************************************************)
(* The inductive invariant.  While no request has landed late, all data    *)
(* has been in the source, a copy is the newest a replica has held, and a  *)
(* write that is under way is as new as all of it.  While nothing has gone *)
(* astray, a source that is there although a run is about to delete has    *)
(* data that no replica has held.                                          *)
(***************************************************************************)
WritesNewest == \A p \in Runs : Writing(p) =>
                  \A r \in Replicas : \A d \in landed[r] : d <= request[p].data
CopiesKnown  == \A r \in Replicas :
                  /\ landed[r] \subseteq 1 .. written
                  /\ HasMetadata(replica[r]) => replica[r].data \in landed[r]
CopiesNewest == \A r \in Replicas : HasMetadata(replica[r]) =>
                  \A d \in landed[r] : d <= replica[r].data

DataInv == late = {} /\ WritesKnown /\ WritesNewest /\ CopiesKnown /\ CopiesNewest

Deleting(p) == \/ pc[p] = "decide" /\ ~seen[p].exists
               \/ pc[p] = "fanout" /\ request[p].op # "write"
Outdated == IsLive(source) =>
              \A r \in Replicas : \A d \in landed[r] : d < source.data
DeletesJustified == \A p \in Runs : Deleting(p) => Outdated

MirrorInv == /\ EarnedInv /\ SourceKnown /\ SourcesThere
             /\ ~Struck({"lateWrite"}) => DataInv
             /\ ~Astray => DeletesJustified

LEMMA InitMirrorInv == Init => MirrorInv
<1> SUFFICES ASSUME Init PROVE MirrorInv
  OBVIOUS
<1>1. EarnedInv
  BY InitEarned
<1>2. SourceKnown /\ SourcesThere /\ DeletesJustified
  BY DEF Init, SourceKnown, HasMetadata, NoSecret, SourcesThere, SourceThere,
         DeletesJustified, Deleting
<1>3. DataInv
  BY DEF Init, DataInv, WritesKnown, WritesNewest, Writing, CopiesKnown, CopiesNewest,
         Everywhere, HasMetadata, NoCopy
<1> QED BY <1>1, <1>2, <1>3 DEF MirrorInv

\* One lemma for each part of the invariant, each from the run's control and the
\* effect of the step on the data.
\* As long as no request has landed late, five effects are left.
LEMMA TimelyEffects ==
  ASSUME MirrorInv, OneRun, [Next]_vars, ~Struck({"lateWrite"})'
  PROVE  /\ DataInv
         /\ \/ Still
            \/ \E p \in Runs, r \in Replicas : Carries(p, r)
            \/ OwnersWrite \/ OwnersRemove
            \/ \E r \in Replicas : LosesCopy(r)
<1>1. TypeOK
  BY DEF MirrorInv, EarnedInv, TypeInv
<1>2. DataInv
  BY <1>1, NextStrikes, StruckStays DEF MirrorInv
<1>3. ~LandsLate
  BY <1>2 DEF LandsLate, DataInv
<1>4. ASSUME NEW p \in Runs, NEW r \in Replicas, Defers(p, r) PROVE FALSE
  BY <1>1, <1>4, StrikesStruck DEF Defers
<1> QED BY <1>1, <1>2, <1>3, <1>4, Effects

\* Data only grows while a run writes: what it carries out is its own.
LEMMA LandedGrows ==
  ASSUME MirrorInv, OneRun, [Next]_vars, ~Struck({"lateWrite"})', NEW p \in Runs
  PROVE  /\ written \in Nat /\ written' \in Nat /\ written' >= written
         /\ \A r \in Replicas : landed'[r] # landed[r] =>
              /\ pc[p] = "fanout" /\ request[p].op = "write" /\ written' = written
              /\ landed'[r] = landed[r] \cup {request[p].data}
<1>1. TypeOK /\ request \in [Runs -> Request] /\ written \in Nat
  BY MaxWritesAssumption DEF MirrorInv, EarnedInv, TypeInv, TypeOK, Data
<1>2. ASSUME NEW q \in Runs, NEW r \in Replicas, Carries(q, r)
      PROVE  /\ UNCHANGED written /\ pc[p] = "fanout"
             /\ \A x \in Replicas : landed'[x] # landed[x] =>
                  request[p].op = "write" /\ landed'[x] = landed[x] \cup {request[p].data}
  <2>1. q = p /\ request[p] \in Request
    BY <1>1 DEF OneRun
  <2>2. CarryOut(r, request[p]) /\ UNCHANGED written /\ pc[p] = "fanout"
    BY <1>2, <2>1 DEF Carries
  <2> QED BY <1>1, <2>1, <2>2, CarryOutEffect
<1>3. CASE \E q \in Runs, r \in Replicas : Carries(q, r)
  BY <1>1, <1>2, <1>3
<1>4. CASE Still \/ OwnersWrite \/ OwnersRemove \/ \E r \in Replicas : LosesCopy(r)
  BY <1>1, <1>4 DEF Still, OwnersWrite, OwnersRemove, LosesCopy
<1> QED BY <1>3, <1>4, TimelyEffects

LEMMA NextWrites ==
  ASSUME MirrorInv, OneRun, [Next]_vars, ~Struck({"lateWrite"})'
  PROVE  WritesKnown' /\ WritesNewest'
<1> SUFFICES ASSUME NEW p \in Runs, Writing(p)'
             PROVE  /\ request'[p].data \in 1 .. written'
                    /\ \A r \in Replicas : \A d \in landed'[r] : d <= request'[p].data
  BY DEF WritesKnown, WritesNewest
<1>1. DataInv /\ SourceKnown /\ Control(p)
  BY TimelyEffects, EveryControl
  DEF MirrorInv, EarnedInv, TypeInv, SourcesThere
<1>2. /\ written \in Nat /\ written' \in Nat /\ written' >= written
      /\ \A r \in Replicas : landed[r] \subseteq 1 .. written
  BY <1>1, LandedGrows DEF DataInv, CopiesKnown
<1>3. CASE Stays(p) \/ ToRecord(p)
  <2>1. Writing(p) /\ request'[p] = request[p]
    BY <1>3 DEF Stays, ToRecord, Writing
  <2>2. /\ request[p].data \in 1 .. written
        /\ \A r \in Replicas : \A d \in landed[r] : d <= request[p].data
    BY <1>1, <2>1 DEF DataInv, WritesKnown, WritesNewest
  <2>3. request'[p].data \in 1 .. written'
    BY <1>2, <2>1, <2>2
  <2>4. ASSUME NEW r \in Replicas, NEW d \in landed'[r] PROVE d <= request[p].data
    <3>1. d \in landed[r] \/ d = request[p].data
      BY <2>4, LandedGrows
    <3> QED BY <2>2, <3>1
  <2> QED BY <2>1, <2>3, <2>4
<1>4. CASE ToWrite(p)
  <2>1. /\ request'[p].data = source.data /\ IsLive(source) /\ pc[p] # "fanout"
    BY <1>4 DEF ToWrite, WriteRequest
  <2>2. request'[p].data = written /\ written >= 1
    BY <1>1, <2>1 DEF SourceKnown, IsLive, HasMetadata
  <2>3. ASSUME NEW r \in Replicas PROVE landed'[r] = landed[r]
    BY <2>1, LandedGrows
  <2> QED BY <1>2, <2>2, <2>3
<1> QED BY <1>1, <1>3, <1>4
        DEF Control, Elsewhere, ToAbsent, ToPresent, ToDelete, Before, Writing, DeleteRequest

LEMMA NextCopies ==
  ASSUME MirrorInv, OneRun, [Next]_vars, ~Struck({"lateWrite"})'
  PROVE  CopiesKnown' /\ CopiesNewest'
<1>1. DataInv /\ TypeOK /\ request \in [Runs -> Request]
  BY TimelyEffects DEF MirrorInv, EarnedInv, TypeInv, TypeOK
<1>2. CASE \E p \in Runs, r \in Replicas : Carries(p, r)
  <2> PICK p \in Runs, r \in Replicas : Carries(p, r)
    BY <1>2
  <2>1. /\ pc[p] = "fanout" /\ CarryOut(r, request[p]) /\ UNCHANGED written
        /\ request[p] \in Request
    BY <1>1 DEF Carries
  <2>2. /\ \A q \in Replicas : q # r => replica'[q] = replica[q] /\ landed'[q] = landed[q]
        /\ request[p].op = "write" => /\ IsLive(replica'[r])
                                      /\ replica'[r].data = request[p].data
                                      /\ landed'[r] = landed[r] \cup {request[p].data}
        /\ request[p].op # "write" => ~HasMetadata(replica'[r]) /\ landed' = landed
    BY <1>1, <2>1, CarryOutEffect
  <2>3. CASE request[p].op = "write"
    <3>1. /\ request[p].data \in 1 .. written
          /\ \A d \in landed[r] : d <= request[p].data
      BY <1>1, <2>1, <2>3 DEF DataInv, WritesKnown, WritesNewest, Writing
    <3>2. written \in Nat
      BY <1>1, MaxWritesAssumption DEF TypeOK, Data
    <3> QED BY <1>1, <2>1, <2>2, <2>3, <3>1, <3>2 DEF DataInv, CopiesKnown, CopiesNewest
  <2>4. CASE request[p].op # "write"
    BY <1>1, <2>1, <2>2, <2>4 DEF DataInv, CopiesKnown, CopiesNewest
  <2> QED BY <2>3, <2>4
<1>3. CASE OwnersWrite \/ OwnersRemove
  <2>1. UNCHANGED <<replica, landed>> /\ written' >= written /\ written \in Nat /\ written' \in Nat
    BY <1>3, <1>1, MaxWritesAssumption DEF OwnersWrite, OwnersRemove, TypeOK, Data
  <2> QED BY <1>1, <2>1 DEF DataInv, CopiesKnown, CopiesNewest
<1>4. CASE \E r \in Replicas : LosesCopy(r)
  BY <1>1, <1>4 DEF LosesCopy, DataInv, CopiesKnown, CopiesNewest
<1>5. CASE Still
  BY <1>1, <1>5 DEF Still, DataInv, CopiesKnown, CopiesNewest
<1> QED BY <1>2, <1>3, <1>4, <1>5, TimelyEffects

LEMMA NextData ==
  ASSUME MirrorInv, OneRun, [Next]_vars, ~Struck({"lateWrite"})' PROVE DataInv'
<1>1. late' = late /\ late = {}
  BY TimelyEffects
  DEF DataInv, Still, Carries, OwnersWrite, OwnersRemove, LosesCopy
<1> QED BY <1>1, NextWrites, NextCopies DEF DataInv

\* While nothing goes astray, the copies change by the runs' own requests only.
LEMMA OwnEffects ==
  ASSUME MirrorInv, OneRun, [Next]_vars, ~Astray'
  PROVE  /\ DataInv /\ DeletesJustified /\ ~Struck({"lateWrite"})'
         /\ ~Astray /\ ~Strikes("confused404")
         /\ \/ Still
            \/ \E p \in Runs, r \in Replicas : Carries(p, r)
            \/ OwnersWrite \/ OwnersRemove
<1>1. TypeOK
  BY DEF MirrorInv, EarnedInv, TypeInv
<1>2. ~Astray
  BY <1>1, NextStrikes, StruckStays DEF Astray
<1>3. ~Struck({"lateWrite"})'
  BY DEF Astray, Struck
<1>4. ~Strikes("confused404") /\ ~Strikes("replicaDelete") /\ ~Strikes("replicaSoftDelete")
  BY <1>1, StrikesStruck DEF Astray
<1>5. \A r \in Replicas : ~LosesCopy(r)
  BY <1>4 DEF LosesCopy
<1> QED BY <1>2, <1>3, <1>4, <1>5, TimelyEffects DEF MirrorInv

LEMMA NextJustified ==
  ASSUME MirrorInv, OneRun, [Next]_vars, ~Astray' PROVE DeletesJustified'
<1> SUFFICES ASSUME NEW p \in Runs, Deleting(p)' PROVE Outdated'
  BY DEF DeletesJustified
<1>1. /\ DataInv /\ DeletesJustified /\ TypeOK /\ ~Struck({"lateWrite"})'
      /\ Control(p) /\ ~Strikes("confused404")
  BY OwnEffects, EveryControl DEF MirrorInv, EarnedInv, TypeInv, SourcesThere
<1>2. Stays(p) \/ ToAbsent(p) \/ ToDelete(p)
  BY <1>1 DEF Control, Elsewhere, ToPresent, ToWrite, ToRecord, Before, Deleting, WriteRequest
<1>3. CASE OwnersWrite
  <2>1. source'.data = written + 1 /\ UNCHANGED landed
    BY <1>3 DEF OwnersWrite
  <2>2. written \in Nat /\ \A r \in Replicas : landed[r] \subseteq 1 .. written
    BY <1>1, LandedGrows DEF DataInv, CopiesKnown
  <2> QED BY <2>1, <2>2 DEF Outdated
<1>4. CASE OwnersRemove
  BY <1>4 DEF OwnersRemove, Outdated, IsLive
<1>5. CASE UNCHANGED source
  <2>1. CASE Stays(p)
    <3>1. Deleting(p)
      BY <2>1 DEF Stays, Deleting
    <3>2. Outdated
      BY <1>1, <3>1 DEF DeletesJustified
    <3>3. \A r \in Replicas : landed'[r] = landed[r]
      BY <3>1, LandedGrows, <1>1 DEF Deleting
    <3> QED BY <1>5, <3>2, <3>3 DEF Outdated
  <2>2. CASE ToAbsent(p)
    BY <1>1, <1>5, <2>2 DEF ToAbsent, Outdated, IsLive, HasMetadata
  <2>3. CASE ToDelete(p)
    <3>1. Deleting(p) /\ pc[p] # "fanout"
      BY <2>3 DEF ToDelete, Deleting
    <3>2. Outdated
      BY <1>1, <3>1 DEF DeletesJustified
    <3>3. \A r \in Replicas : landed'[r] = landed[r]
      BY <3>1, LandedGrows, <1>1
    <3> QED BY <1>5, <3>2, <3>3 DEF Outdated
  <2> QED BY <1>2, <2>1, <2>2, <2>3
<1> QED BY <1>3, <1>4, <1>5, OwnEffects DEF Still, Carries

LEMMA NextMirrorInv == OneRun /\ MirrorInv /\ [Next]_vars => MirrorInv'
<1> SUFFICES ASSUME OneRun, MirrorInv, [Next]_vars PROVE MirrorInv'
  OBVIOUS
<1>1. EarnedInv'
  BY NextEarned DEF MirrorInv
<1>2. SourceKnown' /\ SourcesThere'
  BY NextSourceKnown, NextSources DEF MirrorInv, EarnedInv, TypeInv
<1> QED BY <1>1, <1>2, NextData, NextJustified DEF MirrorInv

-----------------------------------------------------------------------------
(***************************************************************************)
(* What follows for runs that do not overlap.                              *)
(***************************************************************************)

\* A replica never holds older data than its row says was synced, for any
\* number of replicas and of faults, unless a request has landed late.
THEOREM RowsBehindCopies == ASSUME OneRun PROVE Spec => []RowNeverAhead
<1>1. Init => MirrorInv
  BY InitMirrorInv
<1>2. MirrorInv /\ [Next]_vars => MirrorInv'
  BY NextMirrorInv
<1>3. MirrorInv => RowNeverAhead
  BY DEF MirrorInv, EarnedInv, SuccessIsEarned, DataInv, CopiesNewest, RowNeverAhead,
         IsLive, HasMetadata
<1> QED BY <1>1, <1>2, <1>3, PTL DEF Spec

\* No copy is deleted while it holds what the source holds, unless something
\* has gone astray: the run that deletes saw the source gone, and a source
\* that came back since has data that no replica has held.
THEOREM CurrentCopiesKept == ASSUME OneRun PROVE Spec => NeverDeletesCurrentCopy
<1>1. Init => MirrorInv
  BY InitMirrorInv
<1>2. MirrorInv /\ [Next]_vars => MirrorInv'
  BY NextMirrorInv
<1>3. MirrorInv /\ [Next]_vars =>
        [\A r \in Replicas :
           /\ IsLive(replica[r]) /\ ~IsLive(replica'[r])
           /\ ~Astray'
           => ~IsLive(source) \/ source.data > replica[r].data]_vars
  <2> SUFFICES ASSUME MirrorInv, [Next]_vars, NEW r \in Replicas,
                      IsLive(replica[r]), ~IsLive(replica'[r]), ~Astray', IsLive(source)
               PROVE  source.data > replica[r].data
    OBVIOUS
  <2>1. /\ DataInv /\ DeletesJustified /\ TypeOK
        /\ \E p \in Runs, q \in Replicas : Carries(p, q)
    BY OwnEffects DEF Still, OwnersWrite, OwnersRemove, MirrorInv, EarnedInv, TypeInv
  <2> PICK p \in Runs, q \in Replicas : Carries(p, q)
    BY <2>1
  <2>2. pc[p] = "fanout" /\ CarryOut(q, request[p]) /\ request[p] \in Request
    BY <2>1 DEF Carries, TypeOK
  <2>3. Deleting(p)
    BY <2>1, <2>2, CarryOutEffect DEF Deleting
  <2>4. replica[r].data \in landed[r] /\ replica[r].data \in Nat /\ source.data \in Nat
    BY <2>1, MaxWritesAssumption
    DEF DataInv, CopiesKnown, HasMetadata, IsLive, TypeOK, Copy, Secret, Data
  <2> QED BY <2>1, <2>3, <2>4 DEF DeletesJustified, Outdated
<1> QED BY <1>1, <1>2, <1>3, PTL DEF Spec, NeverDeletesCurrentCopy

\* Every step of the job is one the mirror allows, or leaves it alone.
LEMMA MirrorSteps ==
  ASSUME OneRun, MirrorInv, [Next]_vars PROVE [Mirror!Next]_Mirror!vars
<1> DEFINE CopyOf(c) == IF IsLive(c) THEN c.data ELSE 0
           RowOf(d) == IF d.status = "success" THEN d.data ELSE 0
<1> SUFFICES ASSUME ~Astray' PROVE [Mirror!Next]_Mirror!vars
  BY DEF Mirror!Next
<1>1. /\ DataInv /\ DeletesJustified /\ TypeOK /\ SourceKnown
      /\ EarnedInv /\ written \in Nat /\ Astray' = Astray
      /\ request \in [Runs -> Request]
  BY OwnEffects, MaxWritesAssumption
  DEF MirrorInv, EarnedInv, TypeInv, TypeOK, Data, Astray, Struck
<1>2. CASE OwnersWrite
  BY <1>1, <1>2 DEF OwnersWrite, Mirror!Next, Mirror!Promised, Mirror!Own
<1>3. CASE OwnersRemove
  BY <1>1, <1>3 DEF OwnersRemove, Mirror!Next, Mirror!Promised, Mirror!Own
<1>4. ASSUME NEW p \in Runs, NEW r \in Replicas, Carries(p, r)
      PROVE  [Mirror!Next]_Mirror!vars
  <2>1. /\ pc[p] = "fanout" /\ CarryOut(r, request[p]) /\ request[p] \in Request
        /\ UNCHANGED <<source, written, db>>
    BY <1>1, <1>4 DEF Carries
  <2>2. /\ \A q \in Replicas : q # r => replica'[q] = replica[q] /\ landed'[q] = landed[q]
        /\ request[p].op = "write" => /\ IsLive(replica'[r])
                                      /\ replica'[r].data = request[p].data
                                      /\ landed'[r] = landed[r] \cup {request[p].data}
        /\ request[p].op # "write" => ~HasMetadata(replica'[r]) /\ landed' = landed
    BY <1>1, <2>1, CarryOutEffect
  <2>3. landed \in [Replicas -> SUBSET Data] /\ landed' \in [Replicas -> SUBSET Data]
    BY <1>1, NextTypeInv DEF EarnedInv, TypeInv, TypeOK
  <2>4. CASE request[p].op = "write"
    <3>1. request[p].data \in 1 .. written /\ \A h \in landed[r] : h <= request[p].data
      BY <1>1, <2>1, <2>4 DEF DataInv, WritesKnown, WritesNewest, Writing
    <3>2. [q \in Replicas |-> CopyOf(replica[q])]'
            = [[q \in Replicas |-> CopyOf(replica[q])] EXCEPT ![r] = request[p].data]
      BY <2>2, <2>4
    <3>3. landed' = [landed EXCEPT ![r] = @ \cup {request[p].data}]
      BY <2>2, <2>3, <2>4
    <3>4. Mirror!Store(r)
      BY <1>1, <2>1, <3>1, <3>2, <3>3 DEF Mirror!Store
    <3> QED BY <3>4 DEF Mirror!Next, Mirror!Promised
  <2>5. CASE request[p].op # "write"
    <3>1. Outdated
      BY <1>1, <2>1, <2>5 DEF DeletesJustified, Deleting
    <3>2. IsLive(source) => CopyOf(replica[r]) < written
      BY <1>1, <3>1 DEF Outdated, DataInv, CopiesKnown, SourceKnown, IsLive, HasMetadata
    <3>3. [q \in Replicas |-> CopyOf(replica[q])]'
            = [[q \in Replicas |-> CopyOf(replica[q])] EXCEPT ![r] = 0]
      BY <2>2, <2>5 DEF IsLive, HasMetadata
    <3>4. Mirror!Remove(r)
      BY <1>1, <2>1, <2>2, <2>5, <3>2, <3>3 DEF Mirror!Remove
    <3> QED BY <3>4 DEF Mirror!Next, Mirror!Promised
  <2> QED BY <2>4, <2>5
<1>5. CASE Still
  <2>1. CASE UNCHANGED db
    BY <1>1, <1>5, <2>1 DEF Still, Mirror!vars
  <2>2. ASSUME NEW p \in Runs, NEW r \in Replicas, Settles(p, r)
        PROVE  [Mirror!Next]_Mirror!vars
    <3> DEFINE d == RowOf(RowAfter(request[p], worker[p][r] = "ok"))
    <3>1. d # 0 => WriteDone(p, r) /\ Writing(p) /\ d = request[p].data
      BY <2>2 DEF Settles, RowAfter, WriteDone, Writing, NoRecord
    <3>2. d # 0 => d \in landed[r] /\ \A h \in landed[r] : h <= d
      BY <1>1, <3>1 DEF EarnedInv, WorkersEarned, DataInv, WritesNewest
    <3>3. [q \in Replicas |-> RowOf(db[q])]' = [[q \in Replicas |-> RowOf(db[q])] EXCEPT ![r] = d]
      BY <1>1, <2>2 DEF Settles, TypeOK
    <3> HIDE DEF d
    <3>4. Mirror!Record(r)
      BY <1>1, <1>5, <3>2, <3>3 DEF Mirror!Record, Still
    <3> QED BY <3>4 DEF Mirror!Next, Mirror!Promised
  <2> QED BY <2>1, <2>2, RowChanges
<1> QED BY <1>2, <1>3, <1>4, <1>5, OwnEffects

\* Runs that do not overlap implement ReplicaMirror: whatever crashes, fails or
\* is answered late, the replicas go forward only and follow the source.
THEOREM ImplementsMirror == ASSUME OneRun PROVE Spec => IsMirror
<1>1. Init => MirrorInv /\ Mirror!Init
  <2> SUFFICES ASSUME Init PROVE Mirror!Init
    BY InitMirrorInv
  <2>1. ~Astray
    BY DEF Init, Astray, Struck
  <2> QED BY <2>1
      DEF Init, Mirror!Init, Everywhere, IsLive, NoSecret, NoCopy, NoRecord
<1>2. MirrorInv /\ [Next]_vars => MirrorInv'
  BY NextMirrorInv
<1>3. MirrorInv /\ [Next]_vars => [Mirror!Next]_Mirror!vars
  BY MirrorSteps
<1> QED BY <1>1, <1>2, <1>3, PTL DEF Spec, IsMirror, Mirror!Spec

-----------------------------------------------------------------------------
(***************************************************************************)
(* Rows and reports.  The steps of a run as the rows see them: a run       *)
(* clears what an earlier execution left, goes on, sends its request,      *)
(* its workers work, it collects or drops their results, and files them.   *)
(***************************************************************************)
Clears(p) ==
  /\ pc'[p] \in {"idle", "records"} /\ status'[p] = Everywhere("none") /\ ~cancelled'[p]
  /\ AtRest(p) \/ Strikes("crash")
  /\ UNCHANGED <<replica, db>>
Goes(p) ==
  /\ pc[p] \notin {"idle", "fanout", "record", "done"} /\ pc'[p] \notin {"fanout", "record"}
  /\ status'[p] = status[p] \/ status'[p] = Everywhere("unmodified")
  /\ UNCHANGED <<replica, db, cancelled>>
Sends(p) ==
  /\ pc[p] \in {"decide", "read"} /\ pc'[p] = "fanout" /\ worker'[p] = Everywhere("sent")
  /\ UNCHANGED <<replica, db, status, cancelled>>
Works(p, r) ==
  /\ pc[p] = "fanout" /\ \A q \in Replicas : q # r => worker'[p][q] = worker[p][q]
  /\ \/ worker'[p][r] = "applied" /\ CarryOut(r, request[p])
     \/ worker'[p][r] = "ok" /\ UNCHANGED replica
        /\ \/ worker[p][r] = "applied"
           \/ request[p].op = "delete" /\ Strikes("confused404")
     \/ worker'[p][r] = "failed" /\ UNCHANGED replica
        /\ \/ worker[p][r] = "applied" \/ cancelled[p]
           \/ Strikes("writeFail") \/ Strikes("lateWrite")
  /\ UNCHANGED <<pc, request, db, status, cancelled>>
Collects(p) ==
  /\ pc[p] = "fanout" /\ pc'[p] = "record" /\ todo'[p] = Replicas
  /\ \A r \in Replicas : worker[p][r] \in {"ok", "failed"}
  /\ UNCHANGED <<replica, db, request, worker, status, cancelled>>
Drops(p) ==
  /\ pc[p] = "fanout" /\ pc'[p] = "done" /\ cancelled[p]
  /\ UNCHANGED <<replica, db, request, worker, status, cancelled>>
Files(p, r) ==
  /\ pc[p] = "record" /\ r \in todo[p] /\ todo'[p] = todo[p] \ {r}
  /\ pc'[p] = IF todo[p] = {r} THEN "done" ELSE "record"
  /\ \E stored \in BOOLEAN :
       /\ status'[p] = [status[p] EXCEPT ![r] =
                          StatusAfter(request[p], worker[p][r] = "ok", stored)]
       /\ stored => db' = [db EXCEPT ![r] = RowAfter(request[p], worker[p][r] = "ok")]
       /\ ~stored => /\ Strikes("dbFail")
                     /\ \A q \in Replicas : q # r => db'[q] = db[q]
  /\ UNCHANGED <<replica, request, worker, cancelled>>
Idling ==
  /\ \/ late # {} \/ UNCHANGED replica
     \/ /\ Strikes("replicaDelete") \/ Strikes("replicaSoftDelete")
        /\ \A r \in Replicas : HasMetadata(replica'[r]) => HasMetadata(replica[r])
  /\ UNCHANGED <<pc, todo, request, worker, status, db>>
Idles(p) == Idling /\ (cancelled'[p] = cancelled[p] \/ Strikes("cancel"))

RowStep(p) == \/ Clears(p) \/ Goes(p) \/ Sends(p) \/ Collects(p) \/ Drops(p) \/ Idles(p)
              \/ \E r \in Replicas : Works(p, r) \/ Files(p, r)

LEMMA RecordingFiles ==
  ASSUME TypeOK, NEW p \in Runs, NEW r \in Replicas, RecordResult(p, r) \/ RecordFails(p, r)
  PROVE  Files(p, r)
<1> USE DEF TypeOK, copies, sending
<1>1. ASSUME NEW stored \in BOOLEAN, Recording(p, r, stored)
      PROVE  /\ pc[p] = "record" /\ r \in todo[p] /\ todo'[p] = todo[p] \ {r}
             /\ pc'[p] = IF todo[p] = {r} THEN "done" ELSE "record"
             /\ status'[p] = [status[p] EXCEPT ![r] =
                                StatusAfter(request[p], worker[p][r] = "ok", stored)]
             /\ UNCHANGED <<replica, request, worker, cancelled>>
  BY <1>1 DEF Recording, Advance
<1>2. CASE RecordResult(p, r)
  BY <1>1, <1>2 DEF RecordResult, Files
<1>3. CASE RecordFails(p, r)
  <2>1. /\ Recording(p, r, FALSE) /\ Strikes("dbFail")
        /\ \A q \in Replicas : q # r => db'[q] = db[q]
    BY <1>3 DEF RecordFails
  <2> QED BY <1>1, <2>1 DEF Files
<1> QED BY <1>2, <1>3

LEMMA RunRowStep ==
  ASSUME TypeOK, NEW p \in Runs, Step(p) \/ Fault(p) PROVE RowStep(p)
<1> USE DEF TypeOK, RowStep, world, copies, gathered, sending, result
<1>1. CASE Start(p) \/ Crash(p)
  BY <1>1 DEF Start, Crash, Reset, Clears
<1>2. CASE CheckSource(p) \/ CheckSourceConfused(p)
  BY <1>2 DEF CheckSource, CheckSourceConfused, SourceSeen, Goes
<1>3. CASE ReadMetadata(p)
  BY <1>3 DEF ReadMetadata, Goes
<1>4. CASE Decide(p)
  <2>1. CASE pc'[p] = "fanout"
    BY <1>4, <2>1 DEF Decide, Finish, FanOut, Sends
  <2>2. CASE pc'[p] # "fanout"
    BY <1>4, <2>2 DEF Decide, Finish, FanOut, Goes, NoOpStatus
  <2> QED BY <2>1, <2>2
<1>5. CASE ReadSecret(p)
  BY <1>5 DEF ReadSecret, FanOut, Sends
<1>6. CASE CallFails(p)
  BY <1>6 DEF CallFails, SourceGone, Finish, Goes
<1>7. CASE Collect(p)
  BY <1>7 DEF Collect, Collects
<1>8. CASE CollectCancelled(p)
  BY <1>8 DEF CollectCancelled, Finish, Drops
<1>9. CASE Cancel(p)
  BY <1>9 DEF Cancel, Idles, Idling
<1>10. ASSUME NEW r \in Replicas,
              \/ ReplicaStep(p, r) \/ LoseReply(p, r) \/ Refuse(p, r) \/ GiveUp(p, r)
              \/ DeleteConfused(p, r) \/ RecordFails(p, r)
       PROVE  RowStep(p)
  <2>1. CASE ReadRecord(p, r)
    BY <2>1 DEF ReadRecord, Advance, Goes
  <2>2. CASE CheckReplica(p, r)
    BY <2>2 DEF CheckReplica, Advance, Goes
  <2>3. CASE Apply(p, r) \/ Reply(p, r)
    BY <2>3 DEF Apply, Reply, Working, WorkerBecomes, Works
  <2>4. CASE LoseReply(p, r) \/ Refuse(p, r) \/ GiveUp(p, r) \/ DeleteConfused(p, r)
    BY <2>4
    DEF LoseReply, Refuse, GiveUp, DeleteConfused, VaultCallFails, Working, WorkerBecomes, Works
  <2>5. CASE RecordResult(p, r) \/ RecordFails(p, r)
    BY <2>5, RecordingFiles
  <2> QED BY <1>10, <2>1, <2>2, <2>3, <2>4, <2>5 DEF ReplicaStep
<1> QED BY <1>1, <1>2, <1>3, <1>4, <1>5, <1>6, <1>7, <1>8, <1>9, <1>10 DEF Step, Fault

LEMMA EnvironmentIdles ==
  ASSUME TypeOK, Environment \/ UNCHANGED vars PROVE Idling /\ UNCHANGED cancelled
<1>1. CASE LandLate
  BY <1>1 DEF LandLate, runs, world, Idling
<1>2. CASE PutSource \/ RecreateSource \/ SoftDeleteSource \/ DestroySource \/ UNCHANGED vars
  BY <1>2
  DEF PutSource, RecreateSource, SoftDeleteSource, DestroySource, SourceBecomes, runs, copies,
      vars, Idling
<1>3. ASSUME NEW r \in Replicas, DeleteReplicaCopy(r) PROVE Idling /\ UNCHANGED cancelled
  <2>1. UNCHANGED <<pc, todo, request, worker, status, db, cancelled>>
    BY <1>3 DEF DeleteReplicaCopy, runs
  <2>2. \A q \in Replicas : HasMetadata(replica'[q]) => HasMetadata(replica[q])
    BY <1>3 DEF DeleteReplicaCopy, IsLive, HasMetadata, TypeOK
  <2>3. Strikes("replicaDelete") \/ Strikes("replicaSoftDelete")
    BY <1>3 DEF DeleteReplicaCopy
  <2> QED BY <2>1, <2>2, <2>3 DEF Idling
<1> QED BY <1>1, <1>2, <1>3 DEF Environment

LEMMA EveryRowStep ==
  ASSUME TypeOK, OneRun, NEW p \in Runs, [Next]_vars PROVE RowStep(p)
<1>1. ASSUME NEW q \in Runs, Step(q) \/ Fault(q) PROVE RowStep(p)
  <2>1. q = p
    BY DEF OneRun
  <2> QED BY <1>1, <2>1, RunRowStep
<1>2. CASE Environment \/ UNCHANGED vars
  BY <1>2, EnvironmentIdles DEF RowStep, Idles
<1> QED BY <1>1, <1>2 DEF Next

\* What is known of removed copies, of rows and of reports.
Removing(p, r) == /\ pc[p] \in {"fanout", "record"} /\ request[p].op # "write"
                  /\ worker[p][r] \in {"applied", "ok"}
Removed  == \A p \in Runs, r \in Replicas : Removing(p, r) => ~HasMetadata(replica[r])

\* Somebody other than a run, or a request it no longer waits for, changed a copy.
Meddled == Struck({"lateWrite", "replicaDelete", "replicaSoftDelete"})
Holds(p, r) == IsLive(replica[r]) /\ replica[r].data = request[p].data
Held == \A p \in Runs, r \in Replicas :
          Writing(p) /\ worker[p][r] \in {"applied", "ok"} => Holds(p, r)

Unsettled(p, r) == pc[p] = "fanout" \/ (pc[p] = "record" /\ r \in todo[p])
Tracked  == \A r \in Replicas : HasMetadata(replica[r]) =>
              HasRecord(db[r]) \/ \E p \in Runs : Unsettled(p, r)

Filed(p, r) == pc[p] = "done" \/ (pc[p] = "record" /\ r \notin todo[p])
ReportedOf(p, r) ==
  /\ status[p][r] \in {"none", "unmodified"} \/ Filed(p, r)
  /\ status[p][r] = "updated" =>
       db[r].status = "success" /\ db[r].version = request[p].version
  /\ status[p][r] = "updated" /\ ~Meddled => Holds(p, r)
  /\ status[p][r] = "deleted" /\ ~Struck({"confused404", "lateWrite"}) => ~HasMetadata(replica[r])
  /\ status[p][r] = "error_deleting" /\ ~Struck({"dbFail"}) => db[r].version = DeleteFailedVersion
Reported == \A p \in Runs, r \in Replicas : ReportedOf(p, r)

CancelKnown == \A p \in Runs : cancelled[p] => Struck({"cancel"})

RowsInv ==
  /\ MirrorInv /\ CancelKnown /\ Reported
  /\ ~Struck({"confused404", "lateWrite"}) => Removed
  /\ ~Meddled => Held
  /\ ~Struck({"crash", "cancel", "dbFail", "confused404", "lateWrite"}) => Tracked

LEMMA InitRowsInv == Init => RowsInv
<1> SUFFICES ASSUME Init PROVE RowsInv
  OBVIOUS
<1>1. MirrorInv
  BY InitMirrorInv
<1>2. CancelKnown /\ Reported /\ Removed /\ Held /\ Tracked
  BY DEF Init, CancelKnown, Reported, ReportedOf, Removed, Removing, Held, Writing, Tracked,
         Everywhere, NoCopy, HasMetadata
<1> QED BY <1>1, <1>2 DEF RowsInv

LEMMA NextCancelKnown ==
  ASSUME RowsInv, OneRun, [Next]_vars PROVE CancelKnown'
<1> SUFFICES ASSUME NEW p \in Runs, cancelled'[p] PROVE Struck({"cancel"})'
  BY DEF CancelKnown
<1>1. TypeOK /\ CancelKnown
  BY DEF RowsInv, MirrorInv, EarnedInv, TypeInv
<1>2. RowStep(p)
  BY <1>1, EveryRowStep
<1>3. cancelled[p] \/ Strikes("cancel")
  BY <1>2 DEF RowStep, Clears, Goes, Sends, Collects, Drops, Idles, Works, Files
<1>4. CASE Strikes("cancel")
  BY <1>1, <1>4, StrikesStruck
<1>5. CASE cancelled[p]
  BY <1>1, <1>5, NextStrikes, StruckStays DEF CancelKnown
<1> QED BY <1>3, <1>4, <1>5

\* A copy whose delete a worker has seen through stays away.
LEMMA NextRemoved ==
  ASSUME RowsInv, OneRun, [Next]_vars, ~Struck({"confused404", "lateWrite"})' PROVE Removed'
<1> SUFFICES ASSUME NEW p \in Runs, NEW r \in Replicas, Removing(p, r)'
             PROVE  ~HasMetadata(replica'[r])
  BY DEF Removed
<1>1. TypeOK /\ MirrorInv /\ request[p] \in Request
  BY DEF RowsInv, MirrorInv, EarnedInv, TypeInv, TypeOK
<1>2. /\ Removed /\ ~Strikes("confused404") /\ ~Struck({"lateWrite"})'
  <2>1. Removed
    BY <1>1, NextStrikes, StruckStays DEF RowsInv
  <2> QED BY <1>1, <2>1, StrikesStruck DEF Struck
<1>3. late = {}
  BY <1>1, <1>2, TimelyEffects DEF DataInv
<1>4. RowStep(p)
  BY <1>1, EveryRowStep
<1>5. CASE Clears(p) \/ Goes(p) \/ Sends(p) \/ Drops(p)
  BY <1>5 DEF Clears, Goes, Sends, Drops, Removing, Everywhere
<1>6. CASE Collects(p) \/ Idles(p)
  BY <1>2, <1>3, <1>6 DEF Collects, Idles, Idling, Removed, Removing
<1>7. ASSUME NEW q \in Replicas, Files(p, q) PROVE ~HasMetadata(replica'[r])
  BY <1>2, <1>7 DEF Files, Removed, Removing
<1>8. ASSUME NEW q \in Replicas, Works(p, q) PROVE ~HasMetadata(replica'[r])
  <2>1. pc[p] = "fanout" /\ request' = request /\ request[p].op # "write"
    BY <1>8 DEF Works, Removing
  <2>2. CASE CarryOut(q, request[p])
    <3>1. CASE r = q
      BY <1>1, <2>1, <2>2, <3>1, CarryOutEffect
    <3>2. CASE r # q
      <4>1. Removing(p, r)
        BY <1>8, <2>1, <3>2 DEF Works, Removing
      <4>2. replica'[r] = replica[r]
        BY <1>1, <2>2, <3>2, CarryOutEffect
      <4> QED BY <1>2, <4>1, <4>2 DEF Removed
    <3> QED BY <3>1, <3>2
  <2>3. CASE ~CarryOut(q, request[p])
    <3>1. replica' = replica
      BY <1>8, <2>3 DEF Works
    <3>2. CASE r = q
      <4>1. worker[p][r] = "applied"
        BY <1>2, <1>8, <2>3, <3>2 DEF Works, Removing
      <4> QED BY <1>2, <2>1, <3>1, <4>1 DEF Removed, Removing
    <3>3. CASE r # q
      <4>1. Removing(p, r)
        BY <1>8, <2>1, <3>3 DEF Works, Removing
      <4> QED BY <1>2, <3>1, <4>1 DEF Removed
    <3> QED BY <3>2, <3>3
  <2> QED BY <1>8, <2>2, <2>3 DEF Works
<1> QED BY <1>4, <1>5, <1>6, <1>7, <1>8 DEF RowStep

\* A copy that a worker has written keeps what the run asked for.
LEMMA NextHeld ==
  ASSUME RowsInv, OneRun, [Next]_vars, ~Meddled' PROVE Held'
<1> SUFFICES ASSUME NEW p \in Runs, NEW r \in Replicas, Writing(p)',
                    worker'[p][r] \in {"applied", "ok"}
             PROVE  Holds(p, r)'
  BY DEF Held
<1>1. TypeOK /\ MirrorInv /\ request[p] \in Request
  BY DEF RowsInv, MirrorInv, EarnedInv, TypeInv, TypeOK
<1>2. /\ Held /\ late = {} /\ ~Strikes("replicaDelete") /\ ~Strikes("replicaSoftDelete")
  <2>1. ~Meddled /\ ~Strikes("replicaDelete") /\ ~Strikes("replicaSoftDelete")
    BY <1>1, NextStrikes, StruckStays, StrikesStruck DEF Meddled
  <2>2. ~Struck({"lateWrite"})
    BY <2>1 DEF Meddled, Struck
  <2> QED BY <2>1, <2>2 DEF RowsInv, MirrorInv, DataInv
<1>3. RowStep(p)
  BY <1>1, EveryRowStep
<1>4. ~Clears(p) /\ ~Goes(p) /\ ~Sends(p) /\ ~Drops(p)
  BY DEF Clears, Goes, Sends, Drops, Writing, Everywhere
<1>5. CASE Collects(p) \/ Idles(p) \/ \E q \in Replicas : Files(p, q)
  <2>1. UNCHANGED <<replica, request, worker>> /\ Writing(p)
    BY <1>2, <1>5 DEF Collects, Idles, Idling, Files, Writing
  <2> QED BY <1>2, <2>1 DEF Held, Holds
<1>6. ASSUME NEW q \in Replicas, Works(p, q) PROVE Holds(p, r)'
  <2>1. /\ pc[p] = "fanout" /\ request' = request /\ Writing(p) /\ request[p].op = "write"
        /\ r # q => worker'[p][r] = worker[p][r]
    BY <1>6 DEF Works, Writing
  <2>2. CASE CarryOut(q, request[p])
    BY <1>1, <1>2, <2>1, <2>2, CarryOutEffect DEF Held, Holds
  <2>3. CASE ~CarryOut(q, request[p])
    BY <1>2, <1>6, <2>1, <2>3 DEF Works, Held, Holds
  <2> QED BY <2>2, <2>3
<1> QED BY <1>3, <1>4, <1>5, <1>6 DEF RowStep

\* Every copy has a row, or a run that will see to it.
LEMMA NextTracked ==
  ASSUME RowsInv, OneRun, [Next]_vars,
         ~Struck({"crash", "cancel", "dbFail", "confused404", "lateWrite"})'
  PROVE  Tracked'
<1> SUFFICES ASSUME NEW r \in Replicas, HasMetadata(replica'[r]), ~HasRecord(db'[r])
             PROVE  \E p \in Runs : Unsettled(p, r)'
  BY DEF Tracked
<1>1. TypeOK /\ MirrorInv /\ CancelKnown
  BY DEF RowsInv, MirrorInv, EarnedInv, TypeInv
<1>2. /\ Tracked /\ Removed /\ ~Strikes("crash") /\ ~Strikes("dbFail")
      /\ ~Struck({"cancel"}) /\ ~Struck({"lateWrite"})'
  <2>1. ~Struck({"crash", "cancel", "dbFail", "confused404", "lateWrite"})
    BY <1>1, NextStrikes, StruckStays
  <2>2. ~Strikes("crash") /\ ~Strikes("dbFail")
    BY <1>1, StrikesStruck
  <2> QED BY <2>1, <2>2 DEF RowsInv, Struck
<1>3. late = {}
  BY <1>1, <1>2, TimelyEffects DEF DataInv
<1>4. CASE Runs = {}
  <2>1. UNCHANGED db /\ (HasMetadata(replica'[r]) => HasMetadata(replica[r]))
    BY <1>1, <1>3, <1>4, EnvironmentIdles DEF Next, Idling
  <2> QED BY <1>2, <1>4, <2>1 DEF Tracked
<1>5. ASSUME NEW p \in Runs PROVE Unsettled(p, r)'
  <2>1. RowStep(p)
    BY <1>1, EveryRowStep
  <2>2. HasMetadata(replica[r]) /\ ~HasRecord(db[r]) => Unsettled(p, r)
    BY <1>2 DEF Tracked, OneRun
  <2>3. CASE Clears(p) \/ Goes(p)
    BY <1>2, <2>2, <2>3 DEF Clears, Goes, Unsettled, AtRest
  <2>4. CASE Sends(p) \/ Collects(p)
    BY <2>4 DEF Sends, Collects, Unsettled
  <2>5. ~Drops(p)
    BY <1>1, <1>2 DEF Drops, CancelKnown
  <2>6. CASE Idles(p)
    BY <1>3, <2>2, <2>6 DEF Idles, Idling, Unsettled
  <2>7. ASSUME NEW q \in Replicas, Works(p, q) PROVE Unsettled(p, r)'
    BY <2>7 DEF Works, Unsettled
  <2>8. ASSUME NEW q \in Replicas, Files(p, q) PROVE Unsettled(p, r)'
    <3>1. /\ pc[p] = "record" /\ q \in todo[p] /\ replica' = replica
          /\ todo'[p] = todo[p] \ {q}
          /\ pc'[p] = IF todo[p] = {q} THEN "done" ELSE "record"
          /\ db' = [db EXCEPT ![q] = RowAfter(request[p], worker[p][q] = "ok")]
      BY <1>2, <2>8 DEF Files
    <3>2. CASE r = q
      <4>1. db'[r] = RowAfter(request[p], worker[p][r] = "ok")
        BY <1>1, <3>1, <3>2 DEF TypeOK
      <4>2. Removing(p, r)
        BY <3>1, <4>1 DEF RowAfter, HasRecord, Removing
      <4> QED BY <1>2, <3>1, <4>2 DEF Removed
    <3>3. CASE r # q
      <4>1. db'[r] = db[r]
        BY <1>1, <3>1, <3>3 DEF TypeOK
      <4>2. r \in todo[p]
        BY <2>2, <3>1, <4>1 DEF Unsettled
      <4> QED BY <3>1, <3>3, <4>2 DEF Unsettled
    <3> QED BY <3>2, <3>3
  <2> QED BY <2>1, <2>3, <2>4, <2>5, <2>6, <2>7, <2>8 DEF RowStep
<1> QED BY <1>4, <1>5

\* What a run has filed of a replica stays true until the next execution.
LEMMA NextReported ==
  ASSUME RowsInv, OneRun, [Next]_vars PROVE Reported'
<1> SUFFICES ASSUME NEW p \in Runs, NEW r \in Replicas
    PROVE  ReportedOf(p, r)'
  BY DEF Reported
<1>1. /\ TypeOK /\ MirrorInv /\ Reported
      /\ status[p] \in [Replicas -> Statuses] /\ db \in [Replicas -> Record]
      /\ request[p] \in Request
  BY DEF RowsInv, MirrorInv, EarnedInv, TypeInv, TypeOK
<1>2. /\ ~Struck({"confused404", "lateWrite"})' => ~Struck({"confused404", "lateWrite"})
      /\ ~Struck({"dbFail"})' => ~Struck({"dbFail"}) /\ ~Strikes("dbFail")
  BY <1>1, NextStrikes, StruckStays, StrikesStruck
<1>11. ~Meddled' => /\ ~Meddled /\ late = {}
                    /\ ~Strikes("replicaDelete") /\ ~Strikes("replicaSoftDelete")
  <2> SUFFICES ASSUME ~Meddled' PROVE ~Meddled /\ late = {}
                    /\ ~Strikes("replicaDelete") /\ ~Strikes("replicaSoftDelete")
    OBVIOUS
  <2>1. ~Meddled /\ ~Strikes("replicaDelete") /\ ~Strikes("replicaSoftDelete")
    BY <1>1, NextStrikes, StruckStays, StrikesStruck DEF Meddled
  <2>2. ~Struck({"lateWrite"})
    BY <2>1 DEF Meddled, Struck
  <2> QED BY <1>1, <2>1, <2>2 DEF MirrorInv, DataInv
<1>3. RowStep(p)
  BY <1>1, EveryRowStep
<1>4. CASE status'[p][r] \in {"none", "unmodified"}
  BY <1>4 DEF ReportedOf
<1>5. CASE Clears(p)
  BY <1>4, <1>5 DEF Clears, Everywhere
<1>6. CASE pc[p] \notin {"record", "done"} /\ (UNCHANGED status \/ Goes(p))
  <2>1. status[p][r] \in {"none", "unmodified"}
    BY <1>1, <1>6 DEF Reported, ReportedOf, Filed
  <2> QED BY <1>4, <1>6, <2>1 DEF Goes, Everywhere
<1>7. CASE Goes(p) \/ Sends(p) \/ Collects(p) \/ Drops(p)
  BY <1>6, <1>7 DEF Goes, Sends, Collects, Drops
<1>8. ASSUME NEW q \in Replicas, Works(p, q) PROVE ReportedOf(p, r)'
  BY <1>6, <1>8 DEF Works
<1>9. CASE Idles(p)
  <2>1. /\ ReportedOf(p, r) /\ UNCHANGED <<pc, todo, request, status, db>>
        /\ late # {} \/ (HasMetadata(replica'[r]) => HasMetadata(replica[r]))
        /\ ~Meddled' => UNCHANGED replica
    BY <1>1, <1>9, <1>11 DEF Reported, Idles, Idling
  <2>2. ~Struck({"confused404", "lateWrite"})' => late = {}
    <3> SUFFICES ASSUME ~Struck({"lateWrite"})' PROVE late = {}
      BY DEF Struck
    <3> QED BY <1>1, TimelyEffects DEF DataInv
  <2> QED BY <1>2, <1>11, <2>1, <2>2 DEF ReportedOf, Filed, Holds
<1>10. ASSUME NEW q \in Replicas, Files(p, q) PROVE ReportedOf(p, r)'
  <2>1. /\ pc[p] = "record" /\ pc'[p] \in {"record", "done"} /\ q \notin todo'[p]
        /\ UNCHANGED <<replica, request>>
        /\ todo'[p] = todo[p] \ {q}
    BY <1>10 DEF Files
  <2>2. CASE r # q
    <3>1. status'[p][r] = status[p][r] /\ db'[r] = db[r]
      BY <1>1, <1>10, <2>2 DEF Files
    <3>2. ReportedOf(p, r) /\ (Filed(p, r) => Filed(p, r)')
      BY <1>1, <2>1 DEF Reported, Filed
    <3> QED BY <1>2, <1>11, <2>1, <3>1, <3>2 DEF ReportedOf, Holds
  <2>3. CASE r = q
    <3>1. Filed(p, r)'
      BY <2>1, <2>3 DEF Filed
    <3>2. PICK stored \in BOOLEAN :
            /\ status'[p][r] = StatusAfter(request[p], worker[p][r] = "ok", stored)
            /\ stored => db'[r] = RowAfter(request[p], worker[p][r] = "ok")
            /\ ~stored => Strikes("dbFail")
      BY <1>1, <1>10, <2>3 DEF Files
    <3>3. status'[p][r] = "updated" =>
            /\ request[p].op = "write" /\ worker[p][r] = "ok" /\ stored
      BY <3>2 DEF StatusAfter
    <3>4. status'[p][r] = "deleted" => request[p].op # "write" /\ worker[p][r] = "ok"
      BY <3>2 DEF StatusAfter
    <3>5. status'[p][r] = "error_deleting" => request[p].op # "write" /\ worker[p][r] # "ok"
      BY <3>2 DEF StatusAfter
    <3>6. status'[p][r] = "deleted" /\ ~Struck({"confused404", "lateWrite"})' =>
            ~HasMetadata(replica'[r])
      BY <1>2, <2>1, <3>4 DEF RowsInv, Removed, Removing
    <3>7. status'[p][r] = "updated" =>
            db'[r].status = "success" /\ db'[r].version = request'[p].version
      BY <2>1, <3>2, <3>3 DEF RowAfter
    <3>8. status'[p][r] = "error_deleting" /\ ~Struck({"dbFail"})' =>
            db'[r].version = DeleteFailedVersion
      BY <1>2, <3>2, <3>5 DEF RowAfter
    <3>9. status'[p][r] = "updated" /\ ~Meddled' => Holds(p, r)'
      BY <1>11, <2>1, <3>3 DEF RowsInv, Held, Writing, Holds
    <3> QED BY <3>1, <3>6, <3>7, <3>8, <3>9 DEF ReportedOf
  <2> QED BY <2>2, <2>3
<1> QED BY <1>3, <1>5, <1>7, <1>8, <1>9, <1>10 DEF RowStep

LEMMA NextRowsInv == OneRun /\ RowsInv /\ [Next]_vars => RowsInv'
<1> SUFFICES ASSUME OneRun, RowsInv, [Next]_vars PROVE RowsInv'
  OBVIOUS
<1>1. MirrorInv'
  BY NextMirrorInv DEF RowsInv
<1> QED BY <1>1, NextCancelKnown, NextReported, NextRemoved, NextHeld, NextTracked DEF RowsInv

\* Runs that do not overlap leave no copy behind that no row knows of, unless
\* a run was stopped before it could file its results.
THEOREM RowsTracked == ASSUME OneRun PROVE Spec => []CopiesTracked
<1>1. RowsInv => CopiesTracked
  BY DEF RowsInv, CopiesTracked, Tracked, Unsettled, AtRest
<1> QED BY <1>1, InitRowsInv, NextRowsInv, PTL DEF Spec

\* What a run that does not overlap another reports of a replica is so in the
\* database and in the replica.
THEOREM ReportsTrue == ASSUME OneRun PROVE Spec => []ReportTruthful
<1>1. RowsInv => ReportTruthful
  BY DEF RowsInv, Reported, ReportedOf, ReportTruthful, Meddled, Holds
<1> QED BY <1>1, InitRowsInv, NextRowsInv, PTL DEF Spec

\* Runs that do not overlap let go of a row only once the copy has gone, unless
\* an error passed for an answer or a request landed late.
THEOREM RowsGoLast == ASSUME OneRun PROVE Spec => RowGoesLast
<1>1. RowsInv /\ [Next]_vars =>
        [\A r \in Replicas :
           /\ HasRecord(db[r]) /\ ~HasRecord(db'[r])
           /\ ~Struck({"confused404", "lateWrite"})'
           => ~HasMetadata(replica[r])]_vars
  <2> SUFFICES ASSUME RowsInv, [Next]_vars, NEW r \in Replicas,
                      HasRecord(db[r]), ~HasRecord(db'[r]),
                      ~Struck({"confused404", "lateWrite"})'
               PROVE  ~HasMetadata(replica[r])
    OBVIOUS
  <2>1. TypeOK
    BY DEF RowsInv, MirrorInv, EarnedInv, TypeInv
  <2>2. Removed
    BY <2>1, NextStrikes, StruckStays DEF RowsInv
  <2>3. PICK p \in Runs, q \in Replicas : Settles(p, q)
    BY RowChanges
  <2>4. q = r /\ ~HasRecord(RowAfter(request[p], worker[p][r] = "ok"))
    BY <2>1, <2>3 DEF Settles, TypeOK
  <2>5. Removing(p, r)
    BY <2>3, <2>4 DEF Settles, RowAfter, HasRecord, Removing
  <2> QED BY <2>2, <2>5 DEF Removed
<1> QED BY <1>1, InitRowsInv, NextRowsInv, PTL DEF Spec, RowGoesLast

-----------------------------------------------------------------------------
(***************************************************************************)
(* Runs that end without work.  A run trusts versions: a row is worth what *)
(* it says only because every version is the number of its write, every    *)
(* row is about data that has landed, and what was found is still there.   *)
(***************************************************************************)
Hidden == Struck({"writeFail", "cancel", "lateWrite", "recreate", "replicaSoftDelete"})

Numbered == source.version = source.data /\ (~HasMetadata(source) => source = NoSecret)
NoneSoft == \A r \in Replicas : HasMetadata(replica[r]) => IsLive(replica[r])

Backed(rec, r) == rec.version > 0 => rec.version = rec.data /\ rec.data \in landed[r]
RowsBacked == \A r \in Replicas : Backed(db[r], r) /\ \A p \in Runs : Backed(records[p][r], r)

Answered(p, r) == worker[p][r] \in {"applied", "ok", "failed"} \/ pc[p] = "record"
AnswersLanded == \A p \in Runs : Writing(p) =>
  /\ request[p].version = request[p].data
  /\ \A r \in Replicas : Answered(p, r) => request[p].data \in landed[r]

EndsIdle(p) == pc[p] = "done" /\ outcome[p] = "noop"
Knows(p)    == pc[p] \in {"existence", "decide"} \/ EndsIdle(p)
SightsTrue  == \A p \in Runs : Knows(p) /\ seen[p].exists =>
                 seen[p].version = seen[p].data /\ seen[p].version > 0

Gathers(p) == \/ pc[p] \in {"idle", "records", "source", "metadata", "existence", "decide"}
              \/ EndsIdle(p)
FoundThere == \A p \in Runs : Gathers(p) =>
  \A r \in Replicas : r \in found[p] => HasMetadata(replica[r]) \/ Struck({"replicaDelete"})

IdleFits == \A p \in Runs : EndsIdle(p) /\ seen[p].exists =>
  \A r \in Replicas : r \in found[p] /\ records[p][r].version >= seen[p].version

Trustworthy == /\ Numbered /\ NoneSoft /\ RowsBacked /\ AnswersLanded
               /\ SightsTrue /\ FoundThere /\ IdleFits
NoOpInv == RowsInv /\ (~Hidden => Trustworthy)

\* The steps of a run as what it gathers sees them.
RecordsKept(p) == \A r \in Replicas : records'[p][r] \in {records[p][r], db[r], NoRecord}
Empties(p) == pc'[p] \in {"idle", "records"} /\ found'[p] = {}
Keeps(p) == /\ pc'[p] = pc[p] /\ seen'[p] = seen[p] /\ found'[p] = found[p]
            /\ records'[p] = records[p] /\ outcome'[p] = outcome[p]
Looks(p) == /\ pc[p] \in {"records", "source"} /\ found'[p] = found[p]
            /\ \/ pc'[p] \in {"records", "source", "metadata"}
               \/ pc'[p] = "decide" /\ ~seen'[p].exists
Notes(p) == /\ pc[p] = "metadata" /\ pc'[p] = "existence" /\ HasMetadata(source)
            /\ found'[p] = found[p] /\ UNCHANGED replica
            /\ seen'[p].version = source.version /\ seen'[p].data = source.data
Checks(p) == /\ pc[p] = "existence" /\ pc'[p] \in {"existence", "decide"}
             /\ seen'[p] = seen[p]
             /\ \A r \in found'[p] : r \in found[p] \/ HasMetadata(replica[r])
Rests(p) == /\ pc[p] = "decide" /\ pc'[p] = "done" /\ outcome'[p] = "noop"
            /\ MakeDecision(records[p], seen[p], found[p]) = "noop"
            /\ seen'[p] = seen[p] /\ found'[p] = found[p] /\ records'[p] = records[p]
Leaves(p) == pc'[p] \in {"read", "fanout", "record", "done"} /\ ~EndsIdle(p)'

GatherStep(p) ==
  /\ RecordsKept(p)
  /\ \/ Empties(p) \/ Keeps(p) \/ Looks(p) \/ Notes(p) \/ Checks(p) \/ Rests(p) \/ Leaves(p)

LEMMA RunGathers ==
  ASSUME TypeOK, NEW p \in Runs, Step(p) \/ Fault(p) PROVE GatherStep(p)
<1> USE DEF TypeOK, GatherStep, RecordsKept, copies, gathered, sending, result
<1>1. CASE Start(p) \/ Crash(p)
  BY <1>1 DEF Start, Crash, Reset, Everywhere, Empties
<1>2. CASE CheckSource(p) \/ CheckSourceConfused(p)
  BY <1>2 DEF CheckSource, CheckSourceConfused, SourceSeen, Looks, Sighting
<1>3. CASE ReadMetadata(p)
  BY <1>3 DEF ReadMetadata, Notes, Sighting
<1>4. CASE Decide(p)
  BY <1>4 DEF Decide, Finish, FanOut, Rests, Leaves, EndsIdle
<1>5. CASE ReadSecret(p)
  BY <1>5 DEF ReadSecret, FanOut, Leaves, EndsIdle
<1>6. CASE CallFails(p) \/ CollectCancelled(p)
  BY <1>6 DEF CallFails, CollectCancelled, Finish, Leaves, EndsIdle
<1>7. CASE Collect(p)
  BY <1>7 DEF Collect, Leaves, EndsIdle
<1>8. CASE Cancel(p)
  BY <1>8 DEF Cancel, Keeps
<1>9. ASSUME NEW r \in Replicas,
             \/ ReplicaStep(p, r) \/ LoseReply(p, r) \/ Refuse(p, r) \/ GiveUp(p, r)
             \/ DeleteConfused(p, r) \/ RecordFails(p, r)
      PROVE  GatherStep(p)
  <2>1. CASE ReadRecord(p, r)
    BY <2>1 DEF ReadRecord, Advance, Looks
  <2>2. CASE CheckReplica(p, r)
    BY <2>2 DEF CheckReplica, Advance, Checks
  <2>3. CASE Apply(p, r) \/ Reply(p, r) \/ LoseReply(p, r) \/ Refuse(p, r) \/ GiveUp(p, r)
             \/ DeleteConfused(p, r)
    BY <2>3 DEF Apply, Reply, LoseReply, Refuse, GiveUp, DeleteConfused, WorkerBecomes, Keeps
  <2>4. CASE RecordResult(p, r) \/ RecordFails(p, r)
    BY <2>4 DEF RecordResult, RecordFails, Recording, Advance, Leaves, EndsIdle
  <2> QED BY <1>9, <2>1, <2>2, <2>3, <2>4 DEF ReplicaStep
<1> QED BY <1>1, <1>2, <1>3, <1>4, <1>5, <1>6, <1>7, <1>8, <1>9 DEF Step, Fault

LEMMA EveryGather ==
  ASSUME TypeOK, OneRun, NEW p \in Runs, [Next]_vars PROVE GatherStep(p)
<1>1. ASSUME NEW q \in Runs, Step(q) \/ Fault(q) PROVE GatherStep(p)
  <2>1. q = p
    BY DEF OneRun
  <2> QED BY <1>1, <2>1, RunGathers
<1>2. CASE Environment \/ UNCHANGED vars
  BY <1>2
  DEF Environment, PutSource, RecreateSource, SoftDeleteSource, DestroySource, LandLate,
      DeleteReplicaCopy, SourceBecomes, runs, vars, GatherStep, RecordsKept, Keeps
<1> QED BY <1>1, <1>2 DEF Next

LEMMA SourceSteps ==
  [Next]_vars => \/ UNCHANGED source
                 \/ PutSource \/ RecreateSource \/ SoftDeleteSource \/ DestroySource
<1> USE DEF world
<1>1. ASSUME NEW p \in Runs, Step(p) PROVE UNCHANGED source
  BY <1>1
  DEF Step, Start, CheckSource, SourceSeen, ReadMetadata, Decide, ReadSecret, CallFails,
      Collect, CollectCancelled, ReplicaStep, ReadRecord, CheckReplica, Apply, Reply,
      WorkerBecomes, RecordResult, Recording
<1>2. ASSUME NEW p \in Runs, Fault(p) PROVE UNCHANGED source
  BY <1>2
  DEF Fault, CheckSourceConfused, SourceSeen, Crash, Cancel, LoseReply, Refuse, GiveUp,
      DeleteConfused, WorkerBecomes, RecordFails, Recording
<1>3. CASE Environment \/ UNCHANGED vars
  BY <1>3 DEF Environment, LandLate, DeleteReplicaCopy, vars
<1> QED BY <1>1, <1>2, <1>3 DEF Next

\* What every lemma below starts from.
LEMMA Trusted ==
  ASSUME NoOpInv, OneRun, [Next]_vars, ~Hidden'
  PROVE  /\ TypeOK /\ MirrorInv /\ DataInv /\ CancelKnown /\ Trustworthy
         /\ ~Struck({"lateWrite"})' /\ ~Struck({"cancel"})
         /\ ~Strikes("writeFail") /\ ~Strikes("lateWrite")
         /\ ~Strikes("recreate") /\ ~Strikes("replicaSoftDelete")
         /\ \A r \in Replicas : landed[r] \subseteq landed'[r]
<1>1. TypeOK /\ MirrorInv /\ CancelKnown
  BY DEF NoOpInv, RowsInv, MirrorInv, EarnedInv, TypeInv
<1>2. ~Hidden
  BY <1>1, NextStrikes, StruckStays DEF Hidden
<1>3. ~Struck({"lateWrite"})' /\ ~Struck({"cancel"})
  BY <1>2 DEF Hidden, Struck
<1>4. /\ ~Strikes("writeFail") /\ ~Strikes("lateWrite")
      /\ ~Strikes("recreate") /\ ~Strikes("replicaSoftDelete")
  BY <1>1, StrikesStruck DEF Hidden
<1>5. ASSUME NEW r \in Replicas PROVE landed[r] \subseteq landed'[r]
  <2>1. ASSUME NEW p \in Runs, NEW q \in Replicas, Carries(p, q)
        PROVE  landed[r] \subseteq landed'[r]
    BY <1>1, <2>1, CarryOutLands DEF Carries
  <2> QED BY <1>1, <1>3, <2>1, TimelyEffects DEF Still, OwnersWrite, OwnersRemove, LosesCopy
<1> QED BY <1>1, <1>2, <1>3, <1>4, <1>5, TimelyEffects DEF NoOpInv

LEMMA NextNumbered ==
  ASSUME NoOpInv, OneRun, [Next]_vars, ~Hidden' PROVE Numbered'
<1>1. /\ Numbered /\ SourceKnown /\ source \in Secret /\ written \in Nat
      /\ ~Strikes("recreate")
  BY Trusted, MaxWritesAssumption DEF Trustworthy, MirrorInv, TypeOK, Data
<1>2. CASE PutSource
  <2>1. /\ source' = [state |-> "live", version |-> source.version + 1, data |-> written + 1]
        /\ HasMetadata(source) \/ written = 0
    BY <1>2 DEF PutSource, SourceBecomes
  <2> QED BY <1>1, <2>1 DEF Numbered, SourceKnown, NoSecret, HasMetadata
<1>3. CASE SoftDeleteSource
  BY <1>1, <1>3 DEF SoftDeleteSource, SourceBecomes, Numbered, Secret, HasMetadata
<1>4. CASE DestroySource
  BY <1>1, <1>4 DEF DestroySource, SourceBecomes, Numbered, NoSecret
<1>5. CASE UNCHANGED source
  BY <1>1, <1>5 DEF Numbered
<1> QED BY <1>1, <1>2, <1>3, <1>4, <1>5, SourceSteps DEF RecreateSource

LEMMA NextNoneSoft ==
  ASSUME NoOpInv, OneRun, [Next]_vars, ~Hidden' PROVE NoneSoft'
<1>1. /\ TypeOK /\ MirrorInv /\ NoneSoft /\ request \in [Runs -> Request]
      /\ ~Strikes("replicaSoftDelete") /\ ~Struck({"lateWrite"})'
  BY Trusted DEF Trustworthy, TypeOK
<1>2. ASSUME NEW p \in Runs, NEW r \in Replicas, Carries(p, r) PROVE NoneSoft'
  <2>1. CarryOut(r, request[p]) /\ request[p] \in Request
    BY <1>1, <1>2 DEF Carries
  <2> QED BY <1>1, <2>1, CarryOutEffect DEF NoneSoft
<1>3. CASE Still \/ OwnersWrite \/ OwnersRemove
  BY <1>1, <1>3 DEF Still, OwnersWrite, OwnersRemove, NoneSoft
<1>4. ASSUME NEW r \in Replicas, LosesCopy(r) PROVE NoneSoft'
  BY <1>1, <1>4 DEF LosesCopy, NoneSoft
<1> QED BY <1>1, <1>2, <1>3, <1>4, TimelyEffects

LEMMA NextRowsBacked ==
  ASSUME NoOpInv, OneRun, [Next]_vars, ~Hidden' PROVE RowsBacked'
<1>1. /\ TypeOK /\ RowsBacked /\ AnswersLanded
      /\ \A r \in Replicas : landed[r] \subseteq landed'[r]
      /\ db \in [Replicas -> Record] /\ request \in [Runs -> Request]
  BY Trusted DEF Trustworthy, TypeOK
<1>2. ASSUME NEW r \in Replicas PROVE Backed(db[r], r)'
  <2>1. Backed(db[r], r)
    BY <1>1 DEF RowsBacked
  <2>2. CASE db'[r] = db[r]
    BY <1>1, <2>1, <2>2 DEF Backed
  <2>3. ASSUME NEW p \in Runs, Settles(p, r) PROVE Backed(db[r], r)'
    <3>1. pc[p] = "record" /\ db'[r] = RowAfter(request[p], worker[p][r] = "ok")
      BY <1>1, <2>3 DEF Settles
    <3>2. request[p].op = "write" =>
            request[p].version = request[p].data /\ request[p].data \in landed[r]
      BY <1>1, <3>1 DEF AnswersLanded, Writing, Answered
    <3> QED BY <1>1, <3>1, <3>2 DEF Backed, RowAfter, NoRecord, DeleteFailedVersion
  <2>4. ASSUME NEW p \in Runs, NEW q \in Replicas, q # r, Settles(p, q) PROVE db'[r] = db[r]
    BY <1>1, <2>4 DEF Settles
  <2> QED BY <2>2, <2>3, <2>4, RowChanges
<1>3. ASSUME NEW r \in Replicas, NEW p \in Runs PROVE Backed(records[p][r], r)'
  <2>1. records'[p][r] \in {records[p][r], db[r], NoRecord}
    BY <1>1, EveryGather DEF GatherStep, RecordsKept
  <2>2. Backed(records[p][r], r) /\ Backed(db[r], r)
    BY <1>1 DEF RowsBacked
  <2> QED BY <1>1, <2>1, <2>2 DEF Backed, NoRecord
<1> QED BY <1>2, <1>3 DEF RowsBacked

LEMMA NextAnswersLanded ==
  ASSUME NoOpInv, OneRun, [Next]_vars, ~Hidden' PROVE AnswersLanded'
<1> SUFFICES ASSUME NEW p \in Runs, Writing(p)'
             PROVE  /\ request'[p].version = request'[p].data
                    /\ \A r \in Replicas : Answered(p, r)' => request'[p].data \in landed'[r]
  BY DEF AnswersLanded
<1>1. /\ TypeOK /\ MirrorInv /\ Numbered /\ AnswersLanded /\ ~cancelled[p]
      /\ ~Strikes("writeFail") /\ ~Strikes("lateWrite")
      /\ \A r \in Replicas : landed[r] \subseteq landed'[r]
  BY Trusted DEF Trustworthy, CancelKnown
<1>2. RowStep(p) /\ Control(p)
  BY <1>1, EveryRowStep, EveryControl DEF MirrorInv, SourcesThere
<1>3. ~Clears(p) /\ ~Goes(p) /\ ~Drops(p)
  BY DEF Clears, Goes, Drops, Writing
<1>4. CASE Sends(p)
  <2>1. ToWrite(p)
    BY <1>2, <1>4
    DEF Sends, Control, Stays, Elsewhere, ToAbsent, ToPresent, ToDelete, ToRecord, Before,
        Writing, DeleteRequest
  <2>2. \A r \in Replicas : ~Answered(p, r)'
    BY <1>4 DEF Sends, Answered, Everywhere
  <2> QED BY <1>1, <2>1, <2>2 DEF ToWrite, WriteRequest, Numbered
<1>5. CASE ~Sends(p)
  <2>1. Writing(p) /\ request'[p] = request[p]
    BY <1>2, <1>3, <1>5 DEF RowStep, Works, Collects, Files, Idles, Idling, Writing
  <2>2. /\ request[p].version = request[p].data
        /\ \A r \in Replicas : Answered(p, r) => request[p].data \in landed'[r]
    BY <1>1, <2>1 DEF AnswersLanded
  <2>3. ASSUME NEW r \in Replicas, Answered(p, r)' PROVE request[p].data \in landed'[r]
    <3>1. CASE Collects(p) \/ Idles(p) \/ \E q \in Replicas : Files(p, q)
      BY <2>2, <2>3, <3>1 DEF Collects, Idles, Idling, Files, Answered
    <3>2. ASSUME NEW q \in Replicas, Works(p, q) PROVE request[p].data \in landed'[r]
      <4>1. CASE q # r
        BY <2>2, <2>3, <3>2, <4>1 DEF Works, Answered
      <4>2. CASE q = r /\ CarryOut(r, request[p])
        BY <1>1, <2>1, <4>2, CarryOutLands DEF Writing
      <4>3. CASE q = r /\ ~CarryOut(r, request[p])
        BY <1>1, <2>1, <2>2, <3>2, <4>3 DEF Works, Writing, Answered
      <4> QED BY <4>1, <4>2, <4>3
    <3> QED BY <1>2, <1>3, <1>5, <3>1, <3>2 DEF RowStep
  <2> QED BY <2>1, <2>2, <2>3
<1> QED BY <1>4, <1>5

LEMMA NextSightsTrue ==
  ASSUME NoOpInv, OneRun, [Next]_vars, ~Hidden' PROVE SightsTrue'
<1> SUFFICES ASSUME NEW p \in Runs, Knows(p)', seen'[p].exists
             PROVE  seen'[p].version = seen'[p].data /\ seen'[p].version > 0
  BY DEF SightsTrue
<1>1. TypeOK /\ SightsTrue /\ Numbered /\ SourceKnown /\ written \in Nat
  BY Trusted, MaxWritesAssumption DEF Trustworthy, MirrorInv, TypeOK, Data
<1>2. GatherStep(p)
  BY <1>1, EveryGather
<1>3. ~Empties(p) /\ ~Leaves(p) /\ ~Looks(p)
  BY DEF Empties, Leaves, Looks, Knows, EndsIdle
<1>4. CASE Notes(p)
  BY <1>1, <1>4 DEF Notes, Numbered, SourceKnown
<1>5. CASE Keeps(p) \/ Checks(p) \/ Rests(p)
  <2>1. Knows(p) /\ seen'[p] = seen[p]
    BY <1>5 DEF Keeps, Checks, Rests, Knows, EndsIdle
  <2> QED BY <1>1, <2>1 DEF SightsTrue
<1> QED BY <1>2, <1>3, <1>4, <1>5 DEF GatherStep

LEMMA NextFoundThere ==
  ASSUME NoOpInv, OneRun, [Next]_vars, ~Hidden' PROVE FoundThere'
<1> SUFFICES ASSUME NEW p \in Runs, Gathers(p)', NEW r \in Replicas, r \in found'[p],
                    ~Struck({"replicaDelete"})'
             PROVE  HasMetadata(replica'[r])
  BY DEF FoundThere
<1>1. /\ TypeOK /\ MirrorInv /\ FoundThere /\ ~Struck({"lateWrite"})'
      /\ ~Strikes("replicaSoftDelete")
  BY Trusted DEF Trustworthy
<1>2. ~Struck({"replicaDelete"}) /\ ~Strikes("replicaDelete")
  BY <1>1, NextStrikes, StruckStays, StrikesStruck
<1>3. GatherStep(p) /\ ~Empties(p) /\ ~Leaves(p)
  BY <1>1, EveryGather DEF Empties, Leaves, Gathers
<1>4. HasMetadata(replica[r])
  <2>1. Gathers(p) /\ (r \in found[p] \/ HasMetadata(replica[r]))
    BY <1>3
    DEF GatherStep, Keeps, Looks, Notes, Checks, Rests, Gathers, EndsIdle
  <2> QED BY <1>1, <1>2, <2>1 DEF FoundThere
<1>5. ASSUME NEW q \in Runs, NEW s \in Replicas PROVE ~Carries(q, s)
  <2>1. SUFFICES ASSUME Carries(q, s) PROVE FALSE
    OBVIOUS
  <2>2. q = p
    BY DEF OneRun
  <2>3. pc'[p] = "fanout"
    BY <2>1, <2>2 DEF Carries, control
  <2> QED BY <2>3 DEF Gathers, EndsIdle
<1>6. \A s \in Replicas : ~LosesCopy(s)
  BY <1>1, <1>2 DEF LosesCopy
<1> QED BY <1>1, <1>4, <1>5, <1>6, TimelyEffects DEF Still, OwnersWrite, OwnersRemove

LEMMA NextIdleFits ==
  ASSUME NoOpInv, OneRun, [Next]_vars, ~Hidden' PROVE IdleFits'
<1> SUFFICES ASSUME NEW p \in Runs, EndsIdle(p)', seen'[p].exists, NEW r \in Replicas
             PROVE  r \in found'[p] /\ records'[p][r].version >= seen'[p].version
  BY DEF IdleFits
<1>1. TypeOK /\ IdleFits
  BY Trusted DEF Trustworthy
<1>2. GatherStep(p)
  BY <1>1, EveryGather
<1>3. Keeps(p) \/ Rests(p)
  BY <1>2 DEF GatherStep, Empties, Looks, Notes, Checks, Leaves, EndsIdle
<1>4. CASE Keeps(p)
  BY <1>1, <1>4 DEF Keeps, IdleFits, EndsIdle
<1>5. CASE Rests(p)
  <2>1. /\ MakeDecision(records[p], seen[p], found[p]) = "noop"
        /\ seen'[p] = seen[p] /\ found'[p] = found[p] /\ records'[p] = records[p]
    BY <1>5 DEF Rests
  <2>2. r \in found[p] /\ ~(records[p][r].version < seen[p].version)
    BY <2>1 DEF MakeDecision
  <2>3. records[p][r].version \in Int /\ seen[p].version \in Int
    <3>1. records[p][r] \in Record /\ seen[p] \in Sighting
      BY <1>1 DEF TypeOK
    <3> QED BY <3>1, MaxWritesAssumption DEF Record, Sighting, Data, DeleteFailedVersion
  <2> QED BY <2>1, <2>2, <2>3
<1> QED BY <1>3, <1>4, <1>5

LEMMA NextNoOpInv == OneRun /\ NoOpInv /\ [Next]_vars => NoOpInv'
<1> SUFFICES ASSUME OneRun, NoOpInv, [Next]_vars PROVE NoOpInv'
  OBVIOUS
<1>1. RowsInv'
  BY NextRowsInv DEF NoOpInv
<1> QED BY <1>1, NextNumbered, NextNoneSoft, NextRowsBacked, NextAnswersLanded,
           NextSightsTrue, NextFoundThere, NextIdleFits
        DEF NoOpInv, Trustworthy

\* A run that does not overlap another and finds nothing to do has the newest
\* data it saw in every replica, unless a fault it cannot see came before.
THEOREM NoOpsUpToDate == ASSUME OneRun PROVE Spec => []NoOpUpToDate
<1>1. Init => NoOpInv
  <2> SUFFICES ASSUME Init PROVE NoOpInv
    OBVIOUS
  <2>1. RowsInv
    BY InitRowsInv
  <2>2. Trustworthy
    BY DEF Init, Trustworthy, Numbered, NoSecret, HasMetadata, NoneSoft, NoCopy, Everywhere,
           RowsBacked, Backed, NoRecord, AnswersLanded, Writing, SightsTrue, Knows, EndsIdle,
           FoundThere, Gathers, IdleFits
  <2> QED BY <2>1, <2>2 DEF NoOpInv
<1>2. NoOpInv => NoOpUpToDate
  <2> SUFFICES ASSUME NoOpInv, ~Hidden, NEW p \in Runs, EndsIdle(p), seen[p].exists,
                      NEW r \in Replicas
               PROVE  UpToDate(p, r) \/ (Struck({"replicaDelete"}) /\ ~HasMetadata(replica[r]))
    BY DEF NoOpUpToDate, Hidden, EndsIdle
  <2>1. /\ TypeOK /\ DataInv /\ Trustworthy
        /\ records[p][r] \in Record /\ seen[p] \in Sighting /\ replica[r] \in Copy
    <3>1. TypeOK
      BY DEF NoOpInv, RowsInv, MirrorInv, EarnedInv, TypeInv
    <3> QED BY <3>1 DEF NoOpInv, RowsInv, MirrorInv, Hidden, Struck, TypeOK
  <2>2. /\ r \in found[p] /\ records[p][r].version >= seen[p].version
        /\ seen[p].version = seen[p].data /\ seen[p].version > 0
    BY <2>1 DEF Trustworthy, IdleFits, SightsTrue, Knows
  <2>3. records[p][r].data >= seen[p].data /\ records[p][r].data \in landed[r]
    BY <2>1, <2>2, MaxWritesAssumption
    DEF Trustworthy, RowsBacked, Backed, Record, Sighting, Data, DeleteFailedVersion
  <2>4. HasMetadata(replica[r]) \/ Struck({"replicaDelete"})
    BY <2>1, <2>2 DEF Trustworthy, FoundThere, Gathers
  <2>5. HasMetadata(replica[r]) => IsLive(replica[r]) /\ replica[r].data >= records[p][r].data
    BY <2>1, <2>3 DEF Trustworthy, NoneSoft, DataInv, CopiesNewest
  <2>6. HasMetadata(replica[r]) => UpToDate(p, r)
    BY <2>1, <2>3, <2>5, MaxWritesAssumption DEF UpToDate, Record, Sighting, Copy, Data
  <2> QED BY <2>4, <2>6
<1> QED BY <1>1, <1>2, NextNoOpInv, PTL DEF Spec
=============================================================================

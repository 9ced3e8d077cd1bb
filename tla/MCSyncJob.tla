----------------------------- MODULE MCSyncJob -----------------------------
(* Small instances of SyncJob for TLC.                                     *)
EXTENDS SyncJob

CONSTANTS run1, run2

TwoReplicas == {1, 2}
OneReplica  == {1}

\* Runs are interchangeable.  The replicas are not: their order matters.
RunSymmetry == {[p \in Runs |-> p], [p \in Runs |-> CHOOSE q \in Runs : q # p]}
=============================================================================

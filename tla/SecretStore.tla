---------------------------- MODULE SecretStore ----------------------------
(***************************************************************************)
(* The data shared by the parts of vault-sync: what a Vault KV v2 cluster  *)
(* keeps of one secret, the synced_secrets row of one (secret, replica),   *)
(* and a change that is requested of a replica.  One secret only: jobs of  *)
(* different secrets share no row and no key.                              *)
(*                                                                         *)
(* The value of a secret is a write number: the n-th write of the source   *)
(* by its owners carries data n, so data orders the contents a copy can    *)
(* hold.  The version is KV v2's own counter.  It follows data, except     *)
(* that it starts again at 1 once the metadata has been deleted.           *)
(***************************************************************************)
EXTENDS Integers

CONSTANT MaxWrites   \* bound on the writes of the source by its owners
ASSUME MaxWritesAssumption == MaxWrites \in Nat \ {0}

Data == 0 .. MaxWrites

\* "soft": the current version is deleted but the metadata remains
\* (vault kv delete); "absent": no metadata (vault kv metadata delete).
Secret == [state : {"absent", "live", "soft"}, version : Data, data : Data]
Copy   == [state : {"absent", "live", "soft"}, data : Data]

NoSecret == [state |-> "absent", version |-> 0, data |-> 0]
NoCopy   == [state |-> "absent", data |-> 0]

HasMetadata(s) == s.state # "absent"
IsLive(s)      == s.state = "live"

\* The version an executeDelete records when the replica refused the delete.
DeleteFailedVersion == -1000

NoRecord == [version |-> 0, status |-> "none", data |-> 0]
Record   == [version : Data \cup {DeleteFailedVersion},
             status : {"success", "failed", "none"}, data : Data]
HasRecord(rec) == rec.status # "none"

\* What is asked of a replica.  data is also the content a row written for
\* this request stands for: the row itself has no such column.
Request   == [op : {"none", "write", "delete"}, version : Data, data : Data]
NoRequest == [op |-> "none", version |-> 0, data |-> 0]
DeleteRequest == [op |-> "delete", version |-> 0, data |-> 0]
WriteRequest(s) == [op |-> "write", version |-> s.version, data |-> s.data]

\* The copy a replica holds once it has carried out request q.
CarriedOut(q) == IF q.op = "write" THEN [state |-> "live", data |-> q.data]
                 ELSE NoCopy
=============================================================================

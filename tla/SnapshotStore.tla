---------------------------- MODULE SnapshotStore ---------------------------
(***************************************************************************)
(* The code snapshots of one session: the rows in PostgreSQL, the contents *)
(* in object storage, and everybody who writes or deletes them: requests   *)
(* that upload and then insert, the sweep of orphaned contents, the purge  *)
(* of an old session, the backup, and the restore after a disaster.  The   *)
(* store is content-addressed: the same code in the session is one blob.   *)
(* It is a practice session, which takes snapshots at any time; that of an *)
(* exam takes none after its end.                                          *)
(***************************************************************************)
EXTENDS Naturals, FiniteSets, Sequences

CONSTANTS
    Contents,   (* what the code may be; also the object keys, in the      *)
                (* order in which the store lists them                     *)
    Requests,   (* bound: snapshots asked for                              *)
    Batch,      (* SNAPSHOT_ORPHAN_BATCH_SIZE                              *)
    Keep,       (* BACKUP_KEEP                                             *)
    MaxBackups, (* bound: backups begun                                    *)
    MaxBusy,    (* bound: backups begun until the last request has ended   *)
    Backed,     (* bound: contents there are where backups are made        *)
    MaxFaults   (* bound: failed calls, crashes, and the disaster          *)

ASSUME StoreAssumption ==
    /\ Contents # {} /\ Contents \subseteq Nat
    /\ {Batch, Keep} \subseteq Nat \ {0}
    /\ {MaxBackups, MaxBusy, MaxFaults} \subseteq Nat

VARIABLES
    rows,    (* code_snapshots                                             *)
    blobs,   (* the keys in the bucket                                     *)
    aged,    (* those last written before the sweep's grace began          *)
    session, (* active, ended, old (beyond the retention), or purged       *)
    req,     (* req[r]: a request that stores a snapshot                   *)
    sweep,   (* the orphan sweep                                           *)
    purge,   (* the blob deletes of the retention purge                    *)
    backup,  (* the backup under way                                       *)
    sets,    (* the finished backup sets, oldest first                     *)
    saved,   (* a backup has finished: there is something to restore       *)
    service, (* up, lost, or what the restore is at                        *)
    begun,   (* backups begun                                              *)
    faults

vars == <<rows, blobs, aged, session, req, sweep, purge, backup, sets, saved, service, begun, faults>>

\* kept: a run, a submission or the final code references it.  orphan (history): it was
\* uploaded while no row referenced the content but such as were orphans, and the store
\* had it, or the sweep or the purge was about to delete it.
Row == [id : Requests, key : Contents, kept : BOOLEAN, orphan : BOOLEAN]
KeysOf(R) == {x.key : x \in R}
Sound == {x \in rows : ~x.orphan}

NoRequest == [pc |-> "new", key |-> CHOOSE k \in Contents : TRUE, kept |-> FALSE,
              orphan |-> FALSE]
Idle == [pc |-> "idle", keys |-> {}]
NoBackup == [pc |-> "idle", rows |-> {}, session |-> "active", copied |-> {}]

Init ==
    /\ rows = {} /\ blobs = {} /\ aged = {}
    /\ session = "active"
    /\ req = [r \in Requests |-> NoRequest]
    /\ sweep = Idle /\ purge = Idle /\ backup = NoBackup
    /\ sets = <<>> /\ saved = FALSE
    /\ service = "up"
    /\ begun = 0 /\ faults = 0

Fault == faults < MaxFaults /\ faults' = faults + 1

-----------------------------------------------------------------------------
(* A snapshot is stored: upload first                                      *)

\* The request asks the store whether the content is there already.
Ask(r, k, kept) ==
    /\ service = "up"
    /\ begun <= MaxBusy /\ (begun > 0 => k \in Backed)
    /\ req[r].pc = "new"
    /\ req' = [req EXCEPT ![r] =
          [pc |-> IF k \in blobs THEN "found" ELSE "missing", key |-> k, kept |-> kept,
           orphan |-> k \in (blobs \union sweep.keys \union purge.keys) \ KeysOf(Sound)]]
    /\ UNCHANGED <<rows, blobs, aged, session, sweep, purge, backup, sets, saved, service, begun, faults>>

\* A content that was there is read and compared; by now it may be gone.
Compare(r) ==
    /\ req[r].pc = "found"
    /\ req' = [req EXCEPT ![r].pc = IF req[r].key \in blobs THEN "uploaded" ELSE "failed"]
    /\ UNCHANGED <<rows, blobs, aged, session, sweep, purge, backup, sets, saved, service, begun, faults>>

\* A content that was missing is written; writing it again makes it new again.
Put(r) ==
    /\ req[r].pc = "missing"
    /\ blobs' = blobs \union {req[r].key}
    /\ aged' = aged \ {req[r].key}
    /\ req' = [req EXCEPT ![r].pc = "uploaded"]
    /\ UNCHANGED <<rows, session, sweep, purge, backup, sets, saved, service, begun, faults>>

Insert(r) ==
    /\ req[r].pc = "uploaded"
    /\ rows' = rows \union {[id |-> r, key |-> req[r].key, kept |-> req[r].kept,
                             orphan |-> req[r].orphan]}
    /\ req' = [req EXCEPT ![r].pc = "done"]
    /\ UNCHANGED <<blobs, aged, session, sweep, purge, backup, sets, saved, service, begun, faults>>

\* The store does not answer, or the insert fails and leaves the blob behind.
RequestFails(r) ==
    /\ req[r].pc \in {"found", "missing", "uploaded"}
    /\ Fault
    /\ req' = [req EXCEPT ![r].pc = "failed"]
    /\ UNCHANGED <<rows, blobs, aged, session, sweep, purge, backup, sets, saved, service, begun>>

InFlight(r) == req[r].pc \in {"found", "missing", "uploaded"}

\* Hours pass: what is in the store is older than the sweep's grace.  A request is
\* shorter than the grace, so the blob it has written is not old before its row is there.
Age(k) ==
    /\ k \in blobs \ aged
    /\ \A r \in Requests : InFlight(r) /\ req[r].key = k => req[r].orphan
    /\ aged' = aged \union {k}
    /\ UNCHANGED <<rows, blobs, session, req, sweep, purge, backup, sets, saved, service, begun, faults>>

\* The session ends, and much later it is older than the retention.
Ends ==
    /\ session = "active"
    /\ session' = "ended"
    /\ UNCHANGED <<rows, blobs, aged, req, sweep, purge, backup, sets, saved, service, begun, faults>>

GrowsOld ==
    /\ session = "ended"
    /\ session' = "old"
    /\ UNCHANGED <<rows, blobs, aged, req, sweep, purge, backup, sets, saved, service, begun, faults>>

-----------------------------------------------------------------------------
(* The orphan sweep                                                        *)

\* The listing stops at the batch, whether rows reference what it has found or not.
ListOld ==
    /\ service = "up"
    /\ sweep.pc = "idle"
    /\ aged # {}
    /\ sweep' = [pc |-> "listed",
                 keys |-> {k \in aged : Cardinality({j \in aged : j < k}) < Batch}]
    /\ UNCHANGED <<rows, blobs, aged, session, req, purge, backup, sets, saved, service, begun, faults>>

\* Mutant of CheckReferenced: everything old goes.
CheckNothing ==
    /\ sweep.pc = "listed"
    /\ sweep' = [sweep EXCEPT !.pc = "delete"]
    /\ UNCHANGED <<rows, blobs, aged, session, req, purge, backup, sets, saved, service, begun, faults>>

\* One query says which of them rows reference; the others will be deleted.
CheckReferenced ==
    /\ sweep.pc = "listed"
    /\ sweep' = [pc |-> "delete", keys |-> sweep.keys \ KeysOf(rows)]
    /\ UNCHANGED <<rows, blobs, aged, session, req, purge, backup, sets, saved, service, begun, faults>>

\* Mutant of SweepBlob: a blob counts as deleted and stays.
SweepNothing(k) ==
    /\ sweep.pc = "delete"
    /\ k \in sweep.keys
    /\ sweep' = [sweep EXCEPT !.keys = @ \ {k}]
    /\ UNCHANGED <<rows, blobs, aged, session, req, purge, backup, sets, saved, service, begun, faults>>

\* A delete that the store refuses is left for the next sweep.
SweepBlob(k) ==
    /\ sweep.pc = "delete"
    /\ k \in sweep.keys
    /\ sweep' = [sweep EXCEPT !.keys = @ \ {k}]
    /\ \/ /\ blobs' = blobs \ {k}
          /\ aged' = aged \ {k}
          /\ faults' = faults
       \/ Fault /\ UNCHANGED <<blobs, aged>>
    /\ UNCHANGED <<rows, session, req, purge, backup, sets, saved, service, begun>>

SweepDone ==
    /\ sweep.pc = "delete"
    /\ sweep.keys = {}
    /\ sweep' = Idle
    /\ UNCHANGED <<rows, blobs, aged, session, req, purge, backup, sets, saved, service, begun, faults>>

-----------------------------------------------------------------------------
(* The retention purge                                                     *)

\* The rows that no run, submission or final code references.
Purgeable == {x \in rows : ~x.kept}

\* One transaction deletes them and marks the session.  (History: a request under way
\* for their content, which no other row references, relies on an orphan from now on.)
PurgeRows ==
    LET orphaned == KeysOf(Purgeable) \ KeysOf(Sound \ Purgeable)
    IN  /\ service = "up"
        /\ session = "old"
        /\ purge.pc = "idle"
        /\ session' = "purged"
        /\ rows' = rows \ Purgeable
        /\ purge' = [pc |-> "committed", keys |-> KeysOf(Purgeable)]
        /\ req' = [r \in Requests |->
              [req[r] EXCEPT !.orphan = @ \/ (InFlight(r) /\ req[r].key \in orphaned)]]
        /\ UNCHANGED <<blobs, aged, sweep, backup, sets, saved, service, begun, faults>>

\* After the commit: which of their blobs are still used by another row.
CheckStillUsed ==
    /\ purge.pc = "committed"
    /\ purge' = [pc |-> "delete", keys |-> purge.keys \ KeysOf(rows)]
    /\ UNCHANGED <<rows, blobs, aged, session, req, sweep, backup, sets, saved, service, begun, faults>>

PurgeBlob(k) ==
    /\ purge.pc = "delete"
    /\ k \in purge.keys
    /\ purge' = [purge EXCEPT !.keys = @ \ {k}]
    /\ \/ /\ blobs' = blobs \ {k}
          /\ aged' = aged \ {k}
          /\ faults' = faults
       \/ Fault /\ UNCHANGED <<blobs, aged>>
    /\ UNCHANGED <<rows, session, req, sweep, backup, sets, saved, service, begun>>

PurgeDone ==
    /\ purge.pc = "delete"
    /\ purge.keys = {}
    /\ purge' = Idle
    /\ UNCHANGED <<rows, blobs, aged, session, req, sweep, backup, sets, saved, service, begun, faults>>

\* The process that sweeps or purges dies; what it wanted to delete is forgotten.
DaemonDies ==
    /\ Fault
    /\ sweep.pc # "idle" \/ purge.pc # "idle"
    /\ sweep' = Idle /\ purge' = Idle
    /\ UNCHANGED <<rows, blobs, aged, session, req, backup, sets, saved, service, begun>>

-----------------------------------------------------------------------------
(* Backup                                                                  *)

\* One read-only snapshot of the database gives the rows, the keys and the dump.
BeginBackup ==
    /\ service = "up"
    /\ backup.pc = "idle"
    /\ begun < MaxBackups
    /\ begun >= MaxBusy => \A r \in Requests : ~InFlight(r)
    /\ \A r \in Requests : req[r].pc # "new" => req[r].key \in Backed
    /\ begun' = begun + 1
    /\ backup' = [pc |-> "copy", rows |-> rows, session |-> session, copied |-> {}]
    /\ UNCHANGED <<rows, blobs, aged, session, req, sweep, purge, sets, saved, service, faults>>

\* The blobs are copied afterwards, one at a time; a missing one fails the backup.
CopyBlob(k) ==
    /\ backup.pc = "copy"
    /\ k \in KeysOf(backup.rows) \ backup.copied
    /\ backup' = IF k \in blobs THEN [backup EXCEPT !.copied = @ \union {k}] ELSE NoBackup
    /\ UNCHANGED <<rows, blobs, aged, session, req, sweep, purge, sets, saved, service, begun, faults>>

\* verify_set, of the set that is being written.
Verified == backup.copied = KeysOf(backup.rows)

\* The directory gets its final name only when all is there.
Publish ==
    /\ backup.pc = "copy"
    /\ Verified
    /\ sets' = Append(sets, [rows |-> backup.rows, session |-> backup.session, blobs |-> backup.copied])
    /\ saved' = TRUE
    /\ backup' = [NoBackup EXCEPT !.pc = "prune"]
    /\ UNCHANGED <<rows, blobs, aged, session, req, sweep, purge, service, begun, faults>>

\* Mutant of Newest: the new set is not counted.
NewestOffByOne(n) == SubSeq(sets, Len(sets) - n + 2, Len(sets))

Newest(n) == SubSeq(sets, IF Len(sets) > n THEN Len(sets) - n + 1 ELSE 1, Len(sets))

Prune ==
    /\ backup.pc = "prune"
    /\ sets' = Newest(Keep)
    /\ backup' = NoBackup
    /\ UNCHANGED <<rows, blobs, aged, session, req, sweep, purge, saved, service, begun, faults>>

\* The next backup removes what an interrupted one has left.
BackupDies ==
    /\ backup.pc # "idle"
    /\ Fault
    /\ backup' = NoBackup
    /\ UNCHANGED <<rows, blobs, aged, session, req, sweep, purge, sets, saved, service, begun>>

-----------------------------------------------------------------------------
(* Disaster and restore                                                    *)

\* Database and bucket are lost after a backup has finished.
Disaster ==
    /\ service = "up"
    /\ saved
    /\ Fault
    /\ service' = "lost"
    /\ rows' = {} /\ blobs' = {} /\ aged' = {}
    /\ req' = [r \in Requests |-> IF InFlight(r) THEN [req[r] EXCEPT !.pc = "failed"] ELSE req[r]]
    /\ sweep' = Idle /\ purge' = Idle /\ backup' = NoBackup
    /\ UNCHANGED <<session, sets, saved, begun>>

\* The newest set goes into an empty database and an empty bucket only.
BeginRestore ==
    /\ service = "lost"
    /\ rows = {} /\ blobs = {}
    /\ sets # <<>>
    /\ service' = "restoring"
    /\ UNCHANGED <<rows, blobs, aged, session, req, sweep, purge, backup, sets, saved, begun, faults>>

\* Blobs first ...
RestoreBlob(k) ==
    /\ service = "restoring"
    /\ k \in sets[Len(sets)].blobs \ blobs
    /\ blobs' = blobs \union {k}
    /\ UNCHANGED <<rows, aged, session, req, sweep, purge, backup, sets, saved, service, begun, faults>>

\* verify_restored: every key in the database can be read.
RestoredWell(R) == KeysOf(R) \subseteq blobs

\* ... then the rows, in one transaction, and a restore that verifies badly has failed.
RestoreRows ==
    /\ service = "restoring"
    /\ sets[Len(sets)].blobs \subseteq blobs
    /\ rows' = {[x EXCEPT !.orphan = FALSE] : x \in sets[Len(sets)].rows}
    /\ session' = sets[Len(sets)].session
    /\ service' = IF RestoredWell(rows') THEN "up" ELSE "lost"
    /\ UNCHANGED <<blobs, aged, req, sweep, purge, backup, sets, saved, begun, faults>>

RestoreDies ==
    /\ service = "restoring"
    /\ Fault
    /\ service' = "lost"
    /\ UNCHANGED <<rows, blobs, aged, session, req, sweep, purge, backup, sets, saved, begun>>

\* The operator empties the bucket that an interrupted restore has left.
EmptyBucket ==
    /\ service = "lost"
    /\ blobs # {}
    /\ blobs' = {} /\ aged' = {}
    /\ UNCHANGED <<rows, session, req, sweep, purge, backup, sets, saved, service, begun, faults>>

-----------------------------------------------------------------------------

Sweep ==
    \/ ListOld \/ CheckReferenced \/ SweepDone
    \/ \E k \in Contents : SweepBlob(k)
Purge ==
    \/ PurgeRows \/ CheckStillUsed \/ PurgeDone
    \/ \E k \in Contents : PurgeBlob(k)
Restore ==
    \/ BeginRestore \/ RestoreRows \/ EmptyBucket
    \/ \E k \in Contents : RestoreBlob(k)

Next ==
    \/ \E r \in Requests :
         \/ \E k \in Contents, kept \in BOOLEAN : Ask(r, k, kept)
         \/ Compare(r) \/ Put(r) \/ Insert(r) \/ RequestFails(r)
    \/ \E k \in Contents : Age(k) \/ CopyBlob(k)
    \/ Ends \/ GrowsOld
    \/ Sweep \/ Purge \/ DaemonDies
    \/ BeginBackup \/ Publish \/ Prune \/ BackupDies
    \/ Disaster \/ Restore \/ RestoreDies

Spec == Init /\ [][Next]_vars

\* Requests end, time passes, the reconciler's sweep and the operator's restore go on.
Fairness ==
    /\ \A r \in Requests : WF_vars(Compare(r) \/ Put(r) \/ Insert(r))
    /\ \A k \in Contents : WF_vars(Age(k))
    /\ WF_vars(Sweep)
    /\ WF_vars(Restore)

FairSpec == Spec /\ Fairness

-----------------------------------------------------------------------------
(* Properties                                                              *)

\* A row's content can be read, whoever shares it, sweeps, purges or restores it.
\* The exception is a row whose upload relied on an orphan: one that met a blob which no
\* row referenced, or whose rows the purge deleted meanwhile.  The upload does not renew
\* it, and the sweep or the purge may have decided before the row is there.  A later row
\* that relies on that row is lost with it.
RowsHaveBlobs ==
    service = "up" => \A x \in rows : x.key \in blobs \/ x.orphan

\* An orphan stays for good only behind a full batch of old blobs that rows reference
\* and that the listing finds before it, again and again.
Orphan(k) == k \in blobs \ KeysOf(rows)
Crowded(k) == Cardinality({j \in aged \intersect KeysOf(rows) : j < k}) >= Batch
OrphansGo == \A k \in Contents : <>[]Orphan(k) => <>[]Crowded(k)

\* After a disaster the system comes back from its newest set, also when a restore was
\* interrupted and left the bucket half full, and however sets were pruned before.
ComesBack == (service = "lost") ~> (service = "up")
=============================================================================

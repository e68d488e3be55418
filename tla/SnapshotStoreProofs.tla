------------------------ MODULE SnapshotStoreProofs ------------------------
(***************************************************************************)
(* Proofs about SnapshotStore for every set of contents and of requests,   *)
(* and any number of backups, backup sets kept and faults.                 *)
(***************************************************************************)
EXTENDS SnapshotStore, SequenceTheorems, TLAPS

-----------------------------------------------------------------------------
(* The inductive invariant.                                                *)

SessionStatus == {"active", "ended", "old", "purged"}
BackupSet == [rows : SUBSET Row, session : SessionStatus, blobs : SUBSET Contents]
RequestState == [pc : {"new", "found", "missing", "uploaded", "done", "failed"},
                 key : Contents, kept : BOOLEAN, orphan : BOOLEAN]

TypeOK ==
    /\ rows \subseteq Row
    /\ blobs \subseteq Contents /\ aged \subseteq blobs
    /\ session \in SessionStatus
    /\ req \in [Requests -> RequestState]
    /\ sweep \in [pc : {"idle", "listed", "delete"}, keys : SUBSET Contents]
    /\ purge \in [pc : {"idle", "committed", "delete"}, keys : SUBSET Contents]
    /\ backup \in [pc : {"idle", "copy", "prune"}, rows : SUBSET Row, session : SessionStatus,
                   copied : SUBSET Contents]
    /\ sets \in Seq(BackupSet)
    /\ service \in {"up", "lost", "restoring"}

\* Requests, sweep and purge run only while the service is up, the purge only when the
\* session is purged.  The service is lost only when a backup has finished.
WhoRuns ==
    /\ service # "up" => sweep = Idle /\ purge = Idle /\ saved
    /\ purge.pc # "idle" => session = "purged"
    /\ \A r \in Requests : InFlight(r) => service = "up"

\* A request relies on a sound row that has its content, ...
Covered(r) == req[r].key \in KeysOf(Sound)

\* ... or the sweep has not seen the blob as old, nor the purge a row of it.
Renewed(r) == req[r].key \notin aged \union sweep.keys \union purge.keys

RequestsRely ==
    \A r \in Requests : InFlight(r) /\ ~req[r].orphan =>
        /\ req[r].pc \in {"found", "uploaded"} => req[r].key \in blobs
        /\ req[r].pc = "found" => Covered(r)
        /\ Covered(r) \/ Renewed(r)

\* What the sweep and the purge will delete has no sound row.
DeletesAreSafe ==
    /\ sweep.pc = "delete" => sweep.keys \intersect KeysOf(Sound) = {}
    /\ purge.pc = "delete" => purge.keys \intersect KeysOf(Sound) = {}

\* Once a backup has finished there is a set to restore.
SomethingToRestore == saved => sets # <<>>

IInv == /\ TypeOK /\ WhoRuns /\ RequestsRely /\ DeletesAreSafe /\ RowsHaveBlobs
        /\ SomethingToRestore

LEMMA InitIInv == Init => IInv
<1> SUFFICES ASSUME Init PROVE IInv
  OBVIOUS
<1>1. TypeOK
  BY StoreAssumption DEF Init, TypeOK, SessionStatus, RequestState, NoRequest, Idle,
     NoBackup
<1>2. WhoRuns /\ RequestsRely /\ DeletesAreSafe
  BY DEF Init, WhoRuns, InFlight, RequestsRely, DeletesAreSafe, NoRequest, Idle, KeysOf
<1>3. RowsHaveBlobs /\ SomethingToRestore
  BY DEF Init, RowsHaveBlobs, SomethingToRestore
<1> QED BY <1>1, <1>2, <1>3 DEF IInv

\* A finished set joins the sets; pruning keeps some of them, the newest among them.
LEMMA SetsGrow ==
  ASSUME NEW s \in Seq(BackupSet), NEW x \in BackupSet
  PROVE  /\ Append(s, x) \in Seq(BackupSet) /\ Append(s, x) # <<>>
         /\ \A i \in 1 .. Len(Append(s, x)) :
              Append(s, x)[i] = x \/ \E j \in 1 .. Len(s) : Append(s, x)[i] = s[j]
BY AppendProperties

LEMMA NewestFacts ==
  ASSUME sets \in Seq(BackupSet)
  PROVE  /\ Newest(Keep) \in Seq(BackupSet)
         /\ sets # <<>> => Newest(Keep) # <<>> /\ Newest(Keep)[Len(Newest(Keep))] = sets[Len(sets)]
         /\ Len(Newest(Keep)) <= Keep
         /\ \A i \in 1 .. Len(Newest(Keep)) :
              \E j \in 1 .. Len(sets) : Newest(Keep)[i] = sets[j]
<1> DEFINE m == IF Len(sets) > Keep THEN Len(sets) - Keep + 1 ELSE 1
           n == Len(sets)
<1>1. /\ m \in Int /\ n \in Nat /\ 1 <= m /\ m <= n + 1 /\ n - m + 1 <= Keep
      /\ n > 0 => m <= n
  BY StoreAssumption
<1>2. Newest(Keep) = SubSeq(sets, m, n)
  BY DEF Newest
<1>3. \A i \in m .. n : i \in 1 .. n /\ sets[i] \in BackupSet
  BY <1>1
<1> HIDE DEF m
<1>4. /\ Newest(Keep) \in Seq(BackupSet)
      /\ Len(Newest(Keep)) = IF m <= n THEN n - m + 1 ELSE 0
      /\ \A i \in 1 .. n - m + 1 : Newest(Keep)[i] = sets[m + i - 1]
  BY <1>1, <1>2, <1>3, SubSeqProperties
<1>5. sets # <<>> => n > 0
  OBVIOUS
<1> HIDE DEF n
<1>6. Len(Newest(Keep)) \in Nat /\ Len(Newest(Keep)) = n - m + 1
  BY <1>1, <1>4
<1>7. \A i \in 1 .. Len(Newest(Keep)) :
        m + i - 1 \in 1 .. n /\ Newest(Keep)[i] = sets[m + i - 1]
  BY <1>1, <1>4, <1>6
<1>8. sets # <<>> => Newest(Keep) # <<>> /\ Newest(Keep)[Len(Newest(Keep))] = sets[n]
  BY <1>1, <1>4, <1>5, <1>6, <1>7
<1> QED BY <1>1, <1>4, <1>6, <1>7, <1>8 DEF n

-----------------------------------------------------------------------------
(* One lemma per action: its step keeps the invariant.                     *)

LEMMA AskStep ==
  ASSUME IInv, NEW r \in Requests, NEW k \in Contents, NEW kept \in BOOLEAN, Ask(r, k, kept)
  PROVE  IInv'
<1> USE DEF IInv, TypeOK, Ask
<1>1. TypeOK'
  BY DEF SessionStatus, RequestState, Idle, NoBackup, Row
<1>2. WhoRuns'
  BY DEF WhoRuns, InFlight, Idle, RequestState
<1>3. RequestsRely'
  BY DEF WhoRuns, RequestsRely, InFlight, Covered, Renewed, RequestState, Sound, KeysOf,
     DeletesAreSafe, Idle, Row
<1>4. DeletesAreSafe'
  BY DEF WhoRuns, RequestsRely, InFlight, Covered, Renewed, RequestState, Sound, KeysOf,
     DeletesAreSafe, Idle, Row, Purgeable
<1>5. RowsHaveBlobs'
  BY DEF RowsHaveBlobs, WhoRuns, RequestsRely, InFlight, Sound, KeysOf, DeletesAreSafe,
     Idle, Row
<1>6. SomethingToRestore'
  BY DEF SomethingToRestore
<1> QED BY <1>1, <1>2, <1>3, <1>4, <1>5, <1>6

LEMMA CompareStep ==
  ASSUME IInv, NEW r \in Requests, Compare(r)
  PROVE  IInv'
<1> USE DEF IInv, TypeOK, Compare
<1>1. TypeOK'
  BY DEF SessionStatus, RequestState, Idle, NoBackup, Row
<1>2. WhoRuns'
  BY DEF WhoRuns, InFlight, Idle, RequestState
<1>3. RequestsRely'
  BY DEF WhoRuns, RequestsRely, InFlight, Covered, Renewed, RequestState, Sound, KeysOf,
     DeletesAreSafe, Idle, Row
<1>4. DeletesAreSafe'
  BY DEF WhoRuns, RequestsRely, InFlight, Covered, Renewed, RequestState, Sound, KeysOf,
     DeletesAreSafe, Idle, Row, Purgeable
<1>5. RowsHaveBlobs'
  BY DEF RowsHaveBlobs, WhoRuns, RequestsRely, InFlight, Sound, KeysOf, DeletesAreSafe,
     Idle, Row
<1>6. SomethingToRestore'
  BY DEF SomethingToRestore
<1> QED BY <1>1, <1>2, <1>3, <1>4, <1>5, <1>6

LEMMA PutStep ==
  ASSUME IInv, NEW r \in Requests, Put(r)
  PROVE  IInv'
<1> USE DEF IInv, TypeOK, Put
<1>1. TypeOK'
  BY DEF SessionStatus, RequestState, Idle, NoBackup, Row
<1>2. WhoRuns'
  BY DEF WhoRuns, InFlight, Idle, RequestState
<1>3. RequestsRely'
  BY DEF WhoRuns, RequestsRely, InFlight, Covered, Renewed, RequestState, Sound, KeysOf,
     DeletesAreSafe, Idle, Row
<1>4. DeletesAreSafe'
  BY DEF WhoRuns, RequestsRely, InFlight, Covered, Renewed, RequestState, Sound, KeysOf,
     DeletesAreSafe, Idle, Row, Purgeable
<1>5. RowsHaveBlobs'
  BY DEF RowsHaveBlobs, WhoRuns, RequestsRely, InFlight, Sound, KeysOf, DeletesAreSafe,
     Idle, Row
<1>6. SomethingToRestore'
  BY DEF SomethingToRestore
<1> QED BY <1>1, <1>2, <1>3, <1>4, <1>5, <1>6

LEMMA InsertStep ==
  ASSUME IInv, NEW r \in Requests, Insert(r)
  PROVE  IInv'
<1> USE DEF IInv, TypeOK, Insert
<1>1. TypeOK'
  BY DEF SessionStatus, RequestState, Idle, NoBackup, Row
<1>2. WhoRuns'
  BY DEF WhoRuns, InFlight, Idle, RequestState
<1>3. RequestsRely'
  BY DEF WhoRuns, RequestsRely, InFlight, Covered, Renewed, RequestState, Sound, KeysOf,
     DeletesAreSafe, Idle, Row
<1>4. DeletesAreSafe'
  BY DEF WhoRuns, RequestsRely, InFlight, Covered, Renewed, RequestState, Sound, KeysOf,
     DeletesAreSafe, Idle, Row, Purgeable
<1>5. RowsHaveBlobs'
  BY DEF RowsHaveBlobs, WhoRuns, RequestsRely, InFlight, Sound, KeysOf, DeletesAreSafe,
     Idle, Row
<1>6. SomethingToRestore'
  BY DEF SomethingToRestore
<1> QED BY <1>1, <1>2, <1>3, <1>4, <1>5, <1>6

LEMMA RequestFailsStep ==
  ASSUME IInv, NEW r \in Requests, RequestFails(r)
  PROVE  IInv'
<1> USE DEF IInv, TypeOK, RequestFails
<1>1. TypeOK'
  BY DEF SessionStatus, RequestState, Idle, NoBackup, Row
<1>2. WhoRuns'
  BY DEF WhoRuns, InFlight, Idle, RequestState
<1>3. RequestsRely'
  BY DEF WhoRuns, RequestsRely, InFlight, Covered, Renewed, RequestState, Sound, KeysOf,
     DeletesAreSafe, Idle, Row
<1>4. DeletesAreSafe'
  BY DEF WhoRuns, RequestsRely, InFlight, Covered, Renewed, RequestState, Sound, KeysOf,
     DeletesAreSafe, Idle, Row, Purgeable
<1>5. RowsHaveBlobs'
  BY DEF RowsHaveBlobs, WhoRuns, RequestsRely, InFlight, Sound, KeysOf, DeletesAreSafe,
     Idle, Row
<1>6. SomethingToRestore'
  BY DEF SomethingToRestore
<1> QED BY <1>1, <1>2, <1>3, <1>4, <1>5, <1>6

LEMMA AgeStep ==
  ASSUME IInv, NEW k \in Contents, Age(k)
  PROVE  IInv'
<1> USE DEF IInv, TypeOK, Age
<1>1. TypeOK'
  BY DEF SessionStatus, RequestState, Idle, NoBackup, Row
<1>2. WhoRuns'
  BY DEF WhoRuns, InFlight, Idle, RequestState
<1>3. RequestsRely'
  BY DEF WhoRuns, RequestsRely, InFlight, Covered, Renewed, RequestState, Sound, KeysOf,
     DeletesAreSafe, Idle, Row
<1>4. DeletesAreSafe'
  BY DEF WhoRuns, RequestsRely, InFlight, Covered, Renewed, RequestState, Sound, KeysOf,
     DeletesAreSafe, Idle, Row, Purgeable
<1>5. RowsHaveBlobs'
  BY DEF RowsHaveBlobs, WhoRuns, RequestsRely, InFlight, Sound, KeysOf, DeletesAreSafe,
     Idle, Row
<1>6. SomethingToRestore'
  BY DEF SomethingToRestore
<1> QED BY <1>1, <1>2, <1>3, <1>4, <1>5, <1>6

LEMMA CopyBlobStep ==
  ASSUME IInv, NEW k \in Contents, CopyBlob(k)
  PROVE  IInv'
<1> USE DEF IInv, TypeOK, CopyBlob
<1>1. TypeOK'
  BY DEF SessionStatus, RequestState, Idle, NoBackup, Row
<1>2. WhoRuns'
  BY DEF WhoRuns, InFlight, Idle, RequestState
<1>3. RequestsRely'
  BY DEF WhoRuns, RequestsRely, InFlight, Covered, Renewed, RequestState, Sound, KeysOf,
     DeletesAreSafe, Idle, Row
<1>4. DeletesAreSafe'
  BY DEF WhoRuns, RequestsRely, InFlight, Covered, Renewed, RequestState, Sound, KeysOf,
     DeletesAreSafe, Idle, Row, Purgeable
<1>5. RowsHaveBlobs'
  BY DEF RowsHaveBlobs, WhoRuns, RequestsRely, InFlight, Sound, KeysOf, DeletesAreSafe,
     Idle, Row
<1>6. SomethingToRestore'
  BY DEF SomethingToRestore
<1> QED BY <1>1, <1>2, <1>3, <1>4, <1>5, <1>6

LEMMA EndsStep ==
  ASSUME IInv, Ends
  PROVE  IInv'
<1> USE DEF IInv, TypeOK, Ends
<1>1. TypeOK'
  BY DEF SessionStatus, RequestState, Idle, NoBackup, Row
<1>2. WhoRuns'
  BY DEF WhoRuns, InFlight, Idle, RequestState
<1>3. RequestsRely'
  BY DEF WhoRuns, RequestsRely, InFlight, Covered, Renewed, RequestState, Sound, KeysOf,
     DeletesAreSafe, Idle, Row
<1>4. DeletesAreSafe'
  BY DEF WhoRuns, RequestsRely, InFlight, Covered, Renewed, RequestState, Sound, KeysOf,
     DeletesAreSafe, Idle, Row, Purgeable
<1>5. RowsHaveBlobs'
  BY DEF RowsHaveBlobs, WhoRuns, RequestsRely, InFlight, Sound, KeysOf, DeletesAreSafe,
     Idle, Row
<1>6. SomethingToRestore'
  BY DEF SomethingToRestore
<1> QED BY <1>1, <1>2, <1>3, <1>4, <1>5, <1>6

LEMMA GrowsOldStep ==
  ASSUME IInv, GrowsOld
  PROVE  IInv'
<1> USE DEF IInv, TypeOK, GrowsOld
<1>1. TypeOK'
  BY DEF SessionStatus, RequestState, Idle, NoBackup, Row
<1>2. WhoRuns'
  BY DEF WhoRuns, InFlight, Idle, RequestState
<1>3. RequestsRely'
  BY DEF WhoRuns, RequestsRely, InFlight, Covered, Renewed, RequestState, Sound, KeysOf,
     DeletesAreSafe, Idle, Row
<1>4. DeletesAreSafe'
  BY DEF WhoRuns, RequestsRely, InFlight, Covered, Renewed, RequestState, Sound, KeysOf,
     DeletesAreSafe, Idle, Row, Purgeable
<1>5. RowsHaveBlobs'
  BY DEF RowsHaveBlobs, WhoRuns, RequestsRely, InFlight, Sound, KeysOf, DeletesAreSafe,
     Idle, Row
<1>6. SomethingToRestore'
  BY DEF SomethingToRestore
<1> QED BY <1>1, <1>2, <1>3, <1>4, <1>5, <1>6

LEMMA ListOldStep ==
  ASSUME IInv, ListOld
  PROVE  IInv'
<1> USE DEF IInv, TypeOK, ListOld
<1>1. TypeOK'
  BY DEF SessionStatus, RequestState, Idle, NoBackup, Row
<1>2. WhoRuns'
  BY DEF WhoRuns, InFlight, Idle, RequestState
<1>3. RequestsRely'
  BY DEF WhoRuns, RequestsRely, InFlight, Covered, Renewed, RequestState, Sound, KeysOf,
     DeletesAreSafe, Idle, Row
<1>4. DeletesAreSafe'
  BY DEF WhoRuns, RequestsRely, InFlight, Covered, Renewed, RequestState, Sound, KeysOf,
     DeletesAreSafe, Idle, Row, Purgeable
<1>5. RowsHaveBlobs'
  BY DEF RowsHaveBlobs, WhoRuns, RequestsRely, InFlight, Sound, KeysOf, DeletesAreSafe,
     Idle, Row
<1>6. SomethingToRestore'
  BY DEF SomethingToRestore
<1> QED BY <1>1, <1>2, <1>3, <1>4, <1>5, <1>6

LEMMA CheckReferencedStep ==
  ASSUME IInv, CheckReferenced
  PROVE  IInv'
<1> USE DEF IInv, TypeOK, CheckReferenced
<1>1. TypeOK'
  BY DEF SessionStatus, RequestState, Idle, NoBackup, Row
<1>2. WhoRuns'
  BY DEF WhoRuns, InFlight, Idle, RequestState
<1>3. RequestsRely'
  BY DEF WhoRuns, RequestsRely, InFlight, Covered, Renewed, RequestState, Sound, KeysOf,
     DeletesAreSafe, Idle, Row
<1>4. DeletesAreSafe'
  BY DEF WhoRuns, RequestsRely, InFlight, Covered, Renewed, RequestState, Sound, KeysOf,
     DeletesAreSafe, Idle, Row, Purgeable
<1>5. RowsHaveBlobs'
  BY DEF RowsHaveBlobs, WhoRuns, RequestsRely, InFlight, Sound, KeysOf, DeletesAreSafe,
     Idle, Row
<1>6. SomethingToRestore'
  BY DEF SomethingToRestore
<1> QED BY <1>1, <1>2, <1>3, <1>4, <1>5, <1>6

LEMMA SweepBlobStep ==
  ASSUME IInv, NEW k \in Contents, SweepBlob(k)
  PROVE  IInv'
<1> USE DEF IInv, TypeOK, SweepBlob
<1>1. TypeOK'
  BY DEF SessionStatus, RequestState, Idle, NoBackup, Row
<1>2. WhoRuns'
  BY DEF WhoRuns, InFlight, Idle, RequestState
<1>3. RequestsRely'
  BY DEF WhoRuns, RequestsRely, InFlight, Covered, Renewed, RequestState, Sound, KeysOf,
     DeletesAreSafe, Idle, Row
<1>4. DeletesAreSafe'
  BY DEF WhoRuns, RequestsRely, InFlight, Covered, Renewed, RequestState, Sound, KeysOf,
     DeletesAreSafe, Idle, Row, Purgeable
<1>5. RowsHaveBlobs'
  BY DEF RowsHaveBlobs, WhoRuns, RequestsRely, InFlight, Sound, KeysOf, DeletesAreSafe,
     Idle, Row
<1>6. SomethingToRestore'
  BY DEF SomethingToRestore
<1> QED BY <1>1, <1>2, <1>3, <1>4, <1>5, <1>6

LEMMA SweepDoneStep ==
  ASSUME IInv, SweepDone
  PROVE  IInv'
<1> USE DEF IInv, TypeOK, SweepDone
<1>1. TypeOK'
  BY DEF SessionStatus, RequestState, Idle, NoBackup, Row
<1>2. WhoRuns'
  BY DEF WhoRuns, InFlight, Idle, RequestState
<1>3. RequestsRely'
  BY DEF WhoRuns, RequestsRely, InFlight, Covered, Renewed, RequestState, Sound, KeysOf,
     DeletesAreSafe, Idle, Row
<1>4. DeletesAreSafe'
  BY DEF WhoRuns, RequestsRely, InFlight, Covered, Renewed, RequestState, Sound, KeysOf,
     DeletesAreSafe, Idle, Row, Purgeable
<1>5. RowsHaveBlobs'
  BY DEF RowsHaveBlobs, WhoRuns, RequestsRely, InFlight, Sound, KeysOf, DeletesAreSafe,
     Idle, Row
<1>6. SomethingToRestore'
  BY DEF SomethingToRestore
<1> QED BY <1>1, <1>2, <1>3, <1>4, <1>5, <1>6

LEMMA PurgeRowsStep ==
  ASSUME IInv, PurgeRows
  PROVE  IInv'
<1> USE DEF IInv, TypeOK, PurgeRows
<1> DEFINE orphaned == KeysOf(Purgeable) \ KeysOf(Sound \ Purgeable)
<1>1. /\ rows' \subseteq rows /\ Sound' = Sound \ Purgeable
      /\ KeysOf(Purgeable) \subseteq Contents
      /\ purge' = [pc |-> "committed", keys |-> KeysOf(Purgeable)]
      /\ UNCHANGED <<blobs, aged, sweep>>
  BY DEF Sound, Purgeable, KeysOf, Row
<1>2. \A r \in Requests : /\ req'[r].pc = req[r].pc /\ req'[r].key = req[r].key
                          /\ InFlight(r)' = InFlight(r)
                          /\ req'[r] \in RequestState
                          /\ InFlight(r) /\ ~req'[r].orphan =>
                               ~req[r].orphan /\ req[r].key \notin orphaned
  BY DEF InFlight, RequestState
<1>3. TypeOK'
  <2>1. req' = [r \in Requests |-> req'[r]]
    OBVIOUS
  <2>2. req' \in [Requests -> RequestState]
    BY <1>2, <2>1, Zenon
  <2>3. rows' \subseteq Row
    BY <1>1
  <2>4. purge' \in [pc : {"idle", "committed", "delete"}, keys : SUBSET Contents]
    BY <1>1
  <2>5. session' \in SessionStatus
    BY DEF SessionStatus
  <2> QED BY <1>1, <2>2, <2>3, <2>4, <2>5
<1>4. WhoRuns'
  BY <1>2 DEF WhoRuns, InFlight
<1>5. ASSUME NEW r \in Requests, InFlight(r), ~req'[r].orphan
      PROVE  /\ Covered(r) => Covered(r)'
             /\ Renewed(r) => Covered(r)' \/ Renewed(r)'
  <2>1. req[r].key \in KeysOf(Sound \ Purgeable) => Covered(r)'
    BY <1>1, <1>2 DEF Covered
  <2>2. req[r].key \notin KeysOf(Purgeable) \/ req[r].key \in KeysOf(Sound \ Purgeable)
    BY <1>2, <1>5
  <2>3. req[r].key \notin KeysOf(Purgeable) /\ Covered(r) =>
          req[r].key \in KeysOf(Sound \ Purgeable)
    BY DEF Covered, KeysOf
  <2>4. req[r].key \notin KeysOf(Purgeable) /\ Renewed(r) => Renewed(r)'
    <3>1. req'[r].key = req[r].key
      BY <1>2
    <3>2. purge'.keys = KeysOf(Purgeable)
      BY <1>1
    <3> QED BY <1>1, <3>1, <3>2, Zenon DEF Renewed
  <2> QED BY <2>1, <2>2, <2>3, <2>4
<1>6. RequestsRely'
  <2> SUFFICES ASSUME NEW r \in Requests, InFlight(r)', ~req'[r].orphan
               PROVE  /\ req'[r].pc \in {"found", "uploaded"} => req'[r].key \in blobs'
                      /\ req'[r].pc = "found" => Covered(r)'
                      /\ Covered(r)' \/ Renewed(r)'
    BY DEF RequestsRely
  <2>1. InFlight(r) /\ req'[r].pc = req[r].pc /\ req'[r].key = req[r].key /\ ~req[r].orphan
    BY <1>2
  <2>2. /\ req[r].pc \in {"found", "uploaded"} => req[r].key \in blobs
        /\ req[r].pc = "found" => Covered(r)
        /\ Covered(r) \/ Renewed(r)
    BY <2>1, Zenon DEF RequestsRely
  <2> QED BY <1>1, <1>5, <2>1, <2>2, Zenon
<1>7. DeletesAreSafe'
  BY <1>1 DEF DeletesAreSafe, KeysOf
<1>8. RowsHaveBlobs' /\ SomethingToRestore'
  BY <1>1 DEF RowsHaveBlobs, SomethingToRestore
<1> QED BY <1>3, <1>4, <1>6, <1>7, <1>8

LEMMA CheckStillUsedStep ==
  ASSUME IInv, CheckStillUsed
  PROVE  IInv'
<1> USE DEF IInv, TypeOK, CheckStillUsed
<1>1. TypeOK'
  BY DEF SessionStatus, RequestState, Idle, NoBackup, Row
<1>2. WhoRuns'
  BY DEF WhoRuns, InFlight, Idle, RequestState
<1>3. RequestsRely'
  BY DEF WhoRuns, RequestsRely, InFlight, Covered, Renewed, RequestState, Sound, KeysOf,
     DeletesAreSafe, Idle, Row
<1>4. DeletesAreSafe'
  BY DEF WhoRuns, RequestsRely, InFlight, Covered, Renewed, RequestState, Sound, KeysOf,
     DeletesAreSafe, Idle, Row, Purgeable
<1>5. RowsHaveBlobs'
  BY DEF RowsHaveBlobs, WhoRuns, RequestsRely, InFlight, Sound, KeysOf, DeletesAreSafe,
     Idle, Row
<1>6. SomethingToRestore'
  BY DEF SomethingToRestore
<1> QED BY <1>1, <1>2, <1>3, <1>4, <1>5, <1>6

LEMMA PurgeBlobStep ==
  ASSUME IInv, NEW k \in Contents, PurgeBlob(k)
  PROVE  IInv'
<1> USE DEF IInv, TypeOK, PurgeBlob
<1>1. TypeOK'
  BY DEF SessionStatus, RequestState, Idle, NoBackup, Row
<1>2. WhoRuns'
  BY DEF WhoRuns, InFlight, Idle, RequestState
<1>3. RequestsRely'
  BY DEF WhoRuns, RequestsRely, InFlight, Covered, Renewed, RequestState, Sound, KeysOf,
     DeletesAreSafe, Idle, Row
<1>4. DeletesAreSafe'
  BY DEF WhoRuns, RequestsRely, InFlight, Covered, Renewed, RequestState, Sound, KeysOf,
     DeletesAreSafe, Idle, Row, Purgeable
<1>5. RowsHaveBlobs'
  BY DEF RowsHaveBlobs, WhoRuns, RequestsRely, InFlight, Sound, KeysOf, DeletesAreSafe,
     Idle, Row
<1>6. SomethingToRestore'
  BY DEF SomethingToRestore
<1> QED BY <1>1, <1>2, <1>3, <1>4, <1>5, <1>6

LEMMA PurgeDoneStep ==
  ASSUME IInv, PurgeDone
  PROVE  IInv'
<1> USE DEF IInv, TypeOK, PurgeDone
<1>1. TypeOK'
  BY DEF SessionStatus, RequestState, Idle, NoBackup, Row
<1>2. WhoRuns'
  BY DEF WhoRuns, InFlight, Idle, RequestState
<1>3. RequestsRely'
  BY DEF WhoRuns, RequestsRely, InFlight, Covered, Renewed, RequestState, Sound, KeysOf,
     DeletesAreSafe, Idle, Row
<1>4. DeletesAreSafe'
  BY DEF WhoRuns, RequestsRely, InFlight, Covered, Renewed, RequestState, Sound, KeysOf,
     DeletesAreSafe, Idle, Row, Purgeable
<1>5. RowsHaveBlobs'
  BY DEF RowsHaveBlobs, WhoRuns, RequestsRely, InFlight, Sound, KeysOf, DeletesAreSafe,
     Idle, Row
<1>6. SomethingToRestore'
  BY DEF SomethingToRestore
<1> QED BY <1>1, <1>2, <1>3, <1>4, <1>5, <1>6

LEMMA DaemonDiesStep ==
  ASSUME IInv, DaemonDies
  PROVE  IInv'
<1> USE DEF IInv, TypeOK, DaemonDies
<1>1. TypeOK'
  BY DEF SessionStatus, RequestState, Idle, NoBackup, Row
<1>2. WhoRuns'
  BY DEF WhoRuns, InFlight, Idle, RequestState
<1>3. RequestsRely'
  BY DEF WhoRuns, RequestsRely, InFlight, Covered, Renewed, RequestState, Sound, KeysOf,
     DeletesAreSafe, Idle, Row
<1>4. DeletesAreSafe'
  BY DEF WhoRuns, RequestsRely, InFlight, Covered, Renewed, RequestState, Sound, KeysOf,
     DeletesAreSafe, Idle, Row, Purgeable
<1>5. RowsHaveBlobs'
  BY DEF RowsHaveBlobs, WhoRuns, RequestsRely, InFlight, Sound, KeysOf, DeletesAreSafe,
     Idle, Row
<1>6. SomethingToRestore'
  BY DEF SomethingToRestore
<1> QED BY <1>1, <1>2, <1>3, <1>4, <1>5, <1>6

LEMMA BeginBackupStep ==
  ASSUME IInv, BeginBackup
  PROVE  IInv'
<1> USE DEF IInv, TypeOK, BeginBackup
<1>1. TypeOK'
  BY DEF SessionStatus, RequestState, Idle, NoBackup, Row
<1>2. WhoRuns'
  BY DEF WhoRuns, InFlight, Idle, RequestState
<1>3. RequestsRely'
  BY DEF WhoRuns, RequestsRely, InFlight, Covered, Renewed, RequestState, Sound, KeysOf,
     DeletesAreSafe, Idle, Row
<1>4. DeletesAreSafe'
  BY DEF WhoRuns, RequestsRely, InFlight, Covered, Renewed, RequestState, Sound, KeysOf,
     DeletesAreSafe, Idle, Row, Purgeable
<1>5. RowsHaveBlobs'
  BY DEF RowsHaveBlobs, WhoRuns, RequestsRely, InFlight, Sound, KeysOf, DeletesAreSafe,
     Idle, Row
<1>6. SomethingToRestore'
  BY DEF SomethingToRestore
<1> QED BY <1>1, <1>2, <1>3, <1>4, <1>5, <1>6

LEMMA PublishStep ==
  ASSUME IInv, Publish
  PROVE  IInv'
<1> USE DEF IInv, TypeOK, Publish
<1>1. sets' \in Seq(BackupSet) /\ sets' # <<>>
  BY SetsGrow DEF BackupSet
<1>2. TypeOK'
  BY <1>1, SetsGrow DEF NoBackup, SessionStatus
<1>3. WhoRuns' /\ RequestsRely' /\ DeletesAreSafe' /\ RowsHaveBlobs'
  BY DEF WhoRuns, InFlight, RequestsRely, Covered, Renewed, Sound, DeletesAreSafe,
     RowsHaveBlobs
<1>4. SomethingToRestore'
  BY <1>1 DEF SomethingToRestore
<1> QED BY <1>1, <1>2, <1>3, <1>4

LEMMA PruneStep ==
  ASSUME IInv, Prune
  PROVE  IInv'
<1> USE DEF IInv, TypeOK, Prune
<1>1. TypeOK'
  BY NewestFacts DEF NoBackup, SessionStatus
<1>2. WhoRuns' /\ RequestsRely' /\ DeletesAreSafe' /\ RowsHaveBlobs'
  BY DEF WhoRuns, InFlight, RequestsRely, Covered, Renewed, Sound, DeletesAreSafe,
     RowsHaveBlobs
<1>3. SomethingToRestore'
  BY NewestFacts DEF SomethingToRestore
<1> QED BY <1>1, <1>2, <1>3

LEMMA BackupDiesStep ==
  ASSUME IInv, BackupDies
  PROVE  IInv'
<1> USE DEF IInv, TypeOK, BackupDies
<1>1. TypeOK'
  BY DEF SessionStatus, RequestState, Idle, NoBackup, Row
<1>2. WhoRuns'
  BY DEF WhoRuns, InFlight, Idle, RequestState
<1>3. RequestsRely'
  BY DEF WhoRuns, RequestsRely, InFlight, Covered, Renewed, RequestState, Sound, KeysOf,
     DeletesAreSafe, Idle, Row
<1>4. DeletesAreSafe'
  BY DEF WhoRuns, RequestsRely, InFlight, Covered, Renewed, RequestState, Sound, KeysOf,
     DeletesAreSafe, Idle, Row, Purgeable
<1>5. RowsHaveBlobs'
  BY DEF RowsHaveBlobs, WhoRuns, RequestsRely, InFlight, Sound, KeysOf, DeletesAreSafe,
     Idle, Row
<1>6. SomethingToRestore'
  BY DEF SomethingToRestore
<1> QED BY <1>1, <1>2, <1>3, <1>4, <1>5, <1>6

LEMMA DisasterStep ==
  ASSUME IInv, Disaster
  PROVE  IInv'
<1> USE DEF IInv, TypeOK, Disaster
<1>1. TypeOK'
  BY DEF SessionStatus, RequestState, Idle, NoBackup, Row
<1>2. WhoRuns'
  BY DEF WhoRuns, InFlight, Idle, RequestState
<1>3. RequestsRely'
  BY DEF WhoRuns, RequestsRely, InFlight, Covered, Renewed, RequestState, Sound, KeysOf,
     DeletesAreSafe, Idle, Row
<1>4. DeletesAreSafe'
  BY DEF WhoRuns, RequestsRely, InFlight, Covered, Renewed, RequestState, Sound, KeysOf,
     DeletesAreSafe, Idle, Row, Purgeable
<1>5. RowsHaveBlobs'
  BY DEF RowsHaveBlobs, WhoRuns, RequestsRely, InFlight, Sound, KeysOf, DeletesAreSafe,
     Idle, Row
<1>6. SomethingToRestore'
  BY DEF SomethingToRestore
<1> QED BY <1>1, <1>2, <1>3, <1>4, <1>5, <1>6

LEMMA BeginRestoreStep ==
  ASSUME IInv, BeginRestore
  PROVE  IInv'
<1> USE DEF IInv, TypeOK, BeginRestore
<1>1. TypeOK'
  BY DEF SessionStatus, RequestState, Idle, NoBackup, Row
<1>2. WhoRuns'
  BY DEF WhoRuns, InFlight, Idle, RequestState
<1>3. RequestsRely'
  BY DEF WhoRuns, RequestsRely, InFlight, Covered, Renewed, RequestState, Sound, KeysOf,
     DeletesAreSafe, Idle, Row
<1>4. DeletesAreSafe'
  BY DEF WhoRuns, RequestsRely, InFlight, Covered, Renewed, RequestState, Sound, KeysOf,
     DeletesAreSafe, Idle, Row, Purgeable
<1>5. RowsHaveBlobs'
  BY DEF RowsHaveBlobs, WhoRuns, RequestsRely, InFlight, Sound, KeysOf, DeletesAreSafe,
     Idle, Row
<1>6. SomethingToRestore'
  BY DEF SomethingToRestore
<1> QED BY <1>1, <1>2, <1>3, <1>4, <1>5, <1>6

LEMMA RestoreBlobStep ==
  ASSUME IInv, NEW k \in Contents, RestoreBlob(k)
  PROVE  IInv'
<1> USE DEF IInv, TypeOK, RestoreBlob
<1>1. TypeOK'
  BY DEF SessionStatus, RequestState, Idle, NoBackup, Row
<1>2. WhoRuns'
  BY DEF WhoRuns, InFlight, Idle, RequestState
<1>3. RequestsRely'
  BY DEF WhoRuns, RequestsRely, InFlight, Covered, Renewed, RequestState, Sound, KeysOf,
     DeletesAreSafe, Idle, Row
<1>4. DeletesAreSafe'
  BY DEF WhoRuns, RequestsRely, InFlight, Covered, Renewed, RequestState, Sound, KeysOf,
     DeletesAreSafe, Idle, Row, Purgeable
<1>5. RowsHaveBlobs'
  BY DEF RowsHaveBlobs, WhoRuns, RequestsRely, InFlight, Sound, KeysOf, DeletesAreSafe,
     Idle, Row
<1>6. SomethingToRestore'
  BY DEF SomethingToRestore
<1> QED BY <1>1, <1>2, <1>3, <1>4, <1>5, <1>6

LEMMA RestoreRowsStep ==
  ASSUME IInv, RestoreRows
  PROVE  IInv'
<1> USE DEF IInv, TypeOK, RestoreRows
<1>1. /\ Len(sets) \in 1 .. Len(sets) /\ sets[Len(sets)] \in BackupSet
      /\ \A r \in Requests : ~InFlight(r)
  BY DEF WhoRuns, SomethingToRestore
<1>2. rows' \subseteq Row /\ Sound' = rows'
  <2>1. sets[Len(sets)].rows \subseteq Row
    BY <1>1 DEF BackupSet
  <2> DEFINE Clean(x) == [x EXCEPT !.orphan = FALSE]
  <2>2. \A x \in Row : Clean(x) \in Row /\ ~Clean(x).orphan
    BY DEF Row
  <2>3. rows' = {Clean(x) : x \in sets[Len(sets)].rows}
    OBVIOUS
  <2> HIDE DEF Clean
  <2>4. \A y \in rows' : y \in Row /\ ~y.orphan
    BY <2>1, <2>2, <2>3
  <2> QED BY <2>4 DEF Sound
<1>3. TypeOK'
  BY <1>1, <1>2 DEF BackupSet
<1>4. WhoRuns' /\ RequestsRely' /\ DeletesAreSafe'
  BY <1>1 DEF WhoRuns, InFlight, RequestsRely, DeletesAreSafe, Idle
<1>5. RowsHaveBlobs'
  BY DEF RowsHaveBlobs, RestoredWell, KeysOf
<1>6. SomethingToRestore'
  BY DEF SomethingToRestore
<1> QED BY <1>1, <1>2, <1>3, <1>4, <1>5, <1>6

LEMMA RestoreDiesStep ==
  ASSUME IInv, RestoreDies
  PROVE  IInv'
<1> USE DEF IInv, TypeOK, RestoreDies
<1>1. TypeOK'
  BY DEF SessionStatus, RequestState, Idle, NoBackup, Row
<1>2. WhoRuns'
  BY DEF WhoRuns, InFlight, Idle, RequestState
<1>3. RequestsRely'
  BY DEF WhoRuns, RequestsRely, InFlight, Covered, Renewed, RequestState, Sound, KeysOf,
     DeletesAreSafe, Idle, Row
<1>4. DeletesAreSafe'
  BY DEF WhoRuns, RequestsRely, InFlight, Covered, Renewed, RequestState, Sound, KeysOf,
     DeletesAreSafe, Idle, Row, Purgeable
<1>5. RowsHaveBlobs'
  BY DEF RowsHaveBlobs, WhoRuns, RequestsRely, InFlight, Sound, KeysOf, DeletesAreSafe,
     Idle, Row
<1>6. SomethingToRestore'
  BY DEF SomethingToRestore
<1> QED BY <1>1, <1>2, <1>3, <1>4, <1>5, <1>6

LEMMA EmptyBucketStep ==
  ASSUME IInv, EmptyBucket
  PROVE  IInv'
<1> USE DEF IInv, TypeOK, EmptyBucket
<1>1. TypeOK'
  BY DEF SessionStatus, RequestState, Idle, NoBackup, Row
<1>2. WhoRuns'
  BY DEF WhoRuns, InFlight, Idle, RequestState
<1>3. RequestsRely'
  BY DEF WhoRuns, RequestsRely, InFlight, Covered, Renewed, RequestState, Sound, KeysOf,
     DeletesAreSafe, Idle, Row
<1>4. DeletesAreSafe'
  BY DEF WhoRuns, RequestsRely, InFlight, Covered, Renewed, RequestState, Sound, KeysOf,
     DeletesAreSafe, Idle, Row, Purgeable
<1>5. RowsHaveBlobs'
  BY DEF RowsHaveBlobs, WhoRuns, RequestsRely, InFlight, Sound, KeysOf, DeletesAreSafe,
     Idle, Row
<1>6. SomethingToRestore'
  BY DEF SomethingToRestore
<1> QED BY <1>1, <1>2, <1>3, <1>4, <1>5, <1>6

-----------------------------------------------------------------------------
(* The invariant holds in every behaviour, and what follows from it.       *)

LEMMA StepIInv == IInv /\ [Next]_vars => IInv'
<1> SUFFICES ASSUME IInv, [Next]_vars PROVE IInv'
  OBVIOUS
<1>1. ASSUME UNCHANGED vars PROVE IInv'
  BY <1>1 DEF vars, IInv, TypeOK, WhoRuns, InFlight, RequestsRely, Covered, Renewed, Sound,
              DeletesAreSafe, RowsHaveBlobs, SomethingToRestore
<1>2. ASSUME NEW r \in Requests, NEW k \in Contents, NEW kept \in BOOLEAN, Ask(r, k, kept)
      PROVE  IInv'
  BY <1>2, AskStep
<1>3. ASSUME NEW r \in Requests, Compare(r) \/ Put(r) \/ Insert(r) \/ RequestFails(r)
      PROVE  IInv'
  BY <1>3, CompareStep, PutStep, InsertStep, RequestFailsStep
<1>4. ASSUME NEW k \in Contents, Age(k) \/ CopyBlob(k) PROVE IInv'
  BY <1>4, AgeStep, CopyBlobStep
<1>5. CASE Sweep
  BY <1>5, ListOldStep, CheckReferencedStep, SweepBlobStep, SweepDoneStep DEF Sweep
<1>6. CASE Purge
  BY <1>6, PurgeRowsStep, CheckStillUsedStep, PurgeBlobStep, PurgeDoneStep DEF Purge
<1>7. CASE Restore
  BY <1>7, BeginRestoreStep, RestoreRowsStep, EmptyBucketStep, RestoreBlobStep DEF Restore
<1>8. CASE BeginBackup \/ Publish \/ Prune \/ BackupDies
  BY <1>8, BeginBackupStep, PublishStep, PruneStep, BackupDiesStep
<1>9. CASE Ends \/ GrowsOld \/ DaemonDies \/ Disaster \/ RestoreDies
  BY <1>9, EndsStep, GrowsOldStep, DaemonDiesStep, DisasterStep, RestoreDiesStep
<1> QED BY <1>1, <1>2, <1>3, <1>4, <1>5, <1>6, <1>7, <1>8, <1>9 DEF Next

LEMMA Invariance == Spec => []IInv
BY InitIInv, StepIInv, PTL DEF Spec

\* A row's content can be read, whoever shares it, sweeps, purges or restores it; excepted
\* are the rows whose upload relied on an orphan, which another row's purge may make of the
\* content while it is uploaded.  Any other request that is under way holds a content that
\* a sound row references or that neither sweep nor purge can have listed: the grace of the
\* sweep is longer than a request.
THEOREM RowsCanBeRead == Spec => []RowsHaveBlobs
<1>1. IInv => RowsHaveBlobs
  BY DEF IInv
<1> QED BY <1>1, Invariance, PTL

\* Once a backup has finished there always is a set to restore: pruning keeps the newest.
THEOREM BackupIsNeverPrunedAway == Spec => []SomethingToRestore
<1>1. IInv => SomethingToRestore
  BY DEF IInv
<1> QED BY <1>1, Invariance, PTL

=============================================================================

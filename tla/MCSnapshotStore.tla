--------------------------- MODULE MCSnapshotStore --------------------------
(***************************************************************************)
(* Instances of SnapshotStore for TLC: two contents, for the listing of    *)
(* the sweep, where no backup is made, and one where there are two.        *)
(***************************************************************************)
EXTENDS SnapshotStore, TLC

CONSTANTS r1, r2
=============================================================================

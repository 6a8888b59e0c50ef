----------------------------- MODULE MCSnapshot -----------------------------
(* Snapshot with snapshots/ in the data directory, as run() lays it out. *)
EXTENDS Snapshot

=============================================================================

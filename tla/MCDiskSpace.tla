----------------------------- MODULE MCDiskSpace -----------------------------
(***************************************************************************)
(* Model-checking instance of DiskSpace: two mount points, either of which *)
(* may turn out slow, and one excluded one.                                *)
(***************************************************************************)
EXTENDS DiskSpace

CONSTANTS d1, d2, d3

MCMounts == {d1, d2, d3}
MCExcluded == {d3}

=============================================================================

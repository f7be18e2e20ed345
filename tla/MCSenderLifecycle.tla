------------------------- MODULE MCSenderLifecycle --------------------------
(***************************************************************************)
(* Model-checking instance of SenderLifecycle: two collector threads of a  *)
(* host racing through the spawn gate, two parents in the destination      *)
(* setting, and up to three sender threads created over the run.           *)
(***************************************************************************)
EXTENDS SenderLifecycle

CONSTANTS k1, k2, p1, p2

MCCollectors == {k1, k2}
MCDestinations == <<p1, p2>>

=============================================================================

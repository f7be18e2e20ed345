------------------------------ MODULE MCReceiver ----------------------------
(***************************************************************************)
(* Model-checking instance of Receiver: four requests from one child      *)
(* host, one of which fails validation, and one from a child that claims  *)
(* our own machine GUID.                                                   *)
(***************************************************************************)
EXTENDS Receiver, TLC

CONSTANTS r1, r2, r3, r4, r5, child, self

MCRequests == {r1, r2, r3, r4, r5}
MCGuid == (r1 :> child @@ r2 :> child @@ r3 :> child @@ r4 :> self @@ r5 :> child)
MCValid == {r1, r2, r3, r4}

\* Two requests of the same child, both valid.
PairRequests == {r1, r2}
PairGuid == (r1 :> child @@ r2 :> child)
PairValid == {r1, r2}

=============================================================================

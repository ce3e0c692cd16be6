----------------------------- MODULE MCGwpAsan -----------------------------
(* GwpAsan for TLC.                                                           *)
EXTENDS GwpAsan

(* <<size, alignment>>: a size that leaves a byte on one side; and two that     *)
(* are refused, an alignment that is no power of two (for the size 0), and a  *)
(* size and an alignment that do not fit.                                     *)
MCRequests == {<<3, 1>>, <<0, 3>>, <<5, 8>>}
=============================================================================

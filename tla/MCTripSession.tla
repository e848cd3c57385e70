---------------------------- MODULE MCTripSession ----------------------------
(***************************************************************************)
(* TripSession for TLC.                                                    *)
(***************************************************************************)
EXTENDS TripSession

MCChoices == -2..3
=============================================================================

--------------------------- MODULE MCFlightClients ---------------------------
(***************************************************************************)
(* FlightClients for TLC, with the constants of the scripts, and one more  *)
(* version behind the refused one.                                         *)
(***************************************************************************)
EXTENDS FlightClients

MCScripts == {"client", "retry_demo", "version_mismatch_demo"}
MCTried == <<<<1, 0>>, <<1, 7>>, <<2, 0>>, <<1, 0>>>>
MCVersions == {<<1, 0>>, <<1, 7>>, <<2, 0>>}
=============================================================================

--------------------------- MODULE MCHotelClients ---------------------------
(***************************************************************************)
(* HotelClients for TLC: a cap of 3 hotels and a default of 2, so that     *)
(* null, 0, a negative, a plain and an excessive number all differ.  The   *)
(* passing run drops the connection one event later than the script does,  *)
(* so that hotels may have arrived before the drop as well as after it.    *)
(***************************************************************************)
EXTENDS HotelClients

MCCounts == {-1, 0, 1, 4}
MCScripts == {"client", "resubscribe_demo"}
=============================================================================

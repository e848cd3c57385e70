------------------------- MODULE MCItineraryClients -------------------------
(***************************************************************************)
(* ItineraryClients for TLC.                                               *)
(***************************************************************************)
EXTENDS ItineraryClients

MCScripts == {"client", "cancel_demo", "submit_then_detach"}
MCCancelDemo == {"cancel_demo"}
=============================================================================

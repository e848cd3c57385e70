---------------------------- MODULE MCVisaClients ----------------------------
(***************************************************************************)
(* VisaClients for TLC.                                                    *)
(***************************************************************************)
EXTENDS VisaClients

MCScripts == {"client", "webhook_fallback_demo"}
=============================================================================

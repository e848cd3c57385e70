---------------------------- MODULE MCAuthClients ----------------------------
(***************************************************************************)
(* AuthClients for TLC: the keys of client.py.                             *)
(***************************************************************************)
EXTENDS AuthClients

MCValidKeys == [alice_key |-> "alice", bob_key |-> "bob"]
MCKeys == DOMAIN MCValidKeys \union {"wrong_key", NoKey}
=============================================================================

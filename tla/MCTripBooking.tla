--------------------------- MODULE MCTripBooking ---------------------------
(***************************************************************************)
(* TripBooking for TLC.                                                    *)
(***************************************************************************)
EXTENDS TripBooking

\* An answer within the two options and one that raises.
MCTwoChoices == {1, 3}

\* The prompt says "option 1 or 2", the schema says integer: every number
\* around the options.
MCAllChoices == -2..3
=============================================================================

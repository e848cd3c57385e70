------------------------ MODULE MCReservationSession ------------------------
(***************************************************************************)
(* ReservationSession for TLC.                                             *)
(***************************************************************************)
EXTENDS ReservationSession

CONSTANTS m1, m2, m3

MCMessages == {m1, m2, m3}

\* One turn more than the script has, so that a question follows a question
\* that was answered.
MCScript == <<m1, m2, m3>>
=============================================================================

------------------------------ MODULE MCHostInput ------------------------------
(* The values of the constants of HostInput for TLC. *)
EXTENDS HostInput

MCMinus128 == -128
MCPositions == {<<0, 0>>, <<3, -2>>}
MCCodes == {32, 37}

\* $60 and $62 to WR5 (RTS off and on), after a #0 that brings the pointer to a known
\* place.
MCRoutines == {<<0, 5, 96>>, <<0, 5, 98>>}

================================================================================

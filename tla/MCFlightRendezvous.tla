------------------------- MODULE MCFlightRendezvous -------------------------
(***************************************************************************)
(* FlightRendezvous on small instances.                                    *)
(***************************************************************************)
EXTENDS FlightRendezvous

CONSTANTS j1, j2, j3

ThreeJoiners == {j1, j2, j3}

=============================================================================

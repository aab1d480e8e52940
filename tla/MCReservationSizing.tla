------------------------ MODULE MCReservationSizing ------------------------
(* Small instances of ReservationSizing. *)
EXTENDS ReservationSizing

CostsWithCorrections == {-2, 0, 1, 3}
=============================================================================

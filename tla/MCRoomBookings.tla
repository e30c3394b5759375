---------------------------- MODULE MCRoomBookings ----------------------------
(* Small instances of RoomBookings.                                           *)
EXTENDS RoomBookings, TLC

Symmetry == Permutations(Servers) \cup Permutations(Proposed)
=============================================================================

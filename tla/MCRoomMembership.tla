-------------------------- MODULE MCRoomMembership --------------------------
(* Small instances of the room lifecycle. *)
EXTENDS RoomMembership, TLC
CONSTANTS alice, bob, A, r1, r2
Interchangeable == Permutations({alice, bob})
=============================================================================

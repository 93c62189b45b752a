---------------------------- MODULE MCGuestMemory ----------------------------
(* What TLC needs to check GuestMemory on small instances. *)
EXTENDS GuestMemory

=============================================================================

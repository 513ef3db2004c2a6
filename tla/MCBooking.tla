------------------------------- MODULE MCBooking -------------------------------
(* Booking on one card with a schedule of two times and one without. *)
EXTENDS Booking, TLC
CONSTANTS u0, u1, u2, c1, c2, s1, s2, s3, r1, r2, r3

MCOwner == c1 :> u0 @@ c2 :> u1
MCCardOf == [s \in Slots |-> c1]
MCTimeOf == s1 :> 1 @@ s2 :> 2 @@ s3 :> 1
=============================================================================

------------------------------ MODULE MCWishSync ------------------------------
(* WishSync for TLC: two phones, ann's and bob's, and small sets of wishes. *)
EXTENDS WishSync

CONSTANTS ann, bob, trip

Couple  == {ann, bob}
OnlyAnn == {ann}
Nobody  == {}
OneWish == {trip}
InOrder == {"poll"}  \* a poll is finished before the next one is sent
===============================================================================

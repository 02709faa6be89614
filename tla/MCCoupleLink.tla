----------------------------- MODULE MCCoupleLink -----------------------------
(* Instances of CoupleLink for TLC.  The phone with the smaller code names *)
(* the couple.                                                             *)
EXTENDS CoupleLink

Codes    == {1, 2}
Smaller  == {1}
Greater  == {2}
Nobody   == {}
===============================================================================

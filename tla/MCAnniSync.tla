------------------------------ MODULE MCAnniSync ------------------------------
(* AnniSync for TLC: two phones, ann's and bob's, and small sets of        *)
(* anniversaries.                                                          *)
EXTENDS AnniSync

CONSTANTS ann, bob, met

Couple  == {ann, bob}
OnlyAnn == {ann}
OnlyBob == {bob}
Nobody  == {}
MetDay  == {met}
===============================================================================

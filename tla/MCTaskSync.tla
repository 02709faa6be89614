------------------------------ MODULE MCTaskSync ------------------------------
(* TaskSync for TLC: two phones, ann's and bob's, and small sets of tasks. *)
EXTENDS TaskSync

CONSTANTS ann, bob, milk

Couple  == {ann, bob}
OnlyAnn == {ann}
Nobody  == {}
OneTask == {milk}
InOrder == {1}         \* a poll is finished before the next one is sent
===============================================================================

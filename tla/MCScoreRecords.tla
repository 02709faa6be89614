---------------------------- MODULE MCScoreRecords ----------------------------
(* ScoreRecords for TLC: ann, who created the task, and bob.               *)
EXTENDS ScoreRecords

CONSTANTS ann, bob

Couple     == {ann, bob}
Other      == [p \in Couple |-> IF p = ann THEN bob ELSE ann]
TapOnly    == {"tap"}
Everything == {"tap", "edit", "delete"}
Nobody     == {}
All        == {"users", "checks"}
===============================================================================

------------------------------ MODULE MCStage ------------------------------
(* Small instances of the stage caches: a whole stage, and a part of it the  *)
(* whole one answers for; a budget that holds both, or only the part.        *)
EXTENDS StageProps, TLC

CONSTANTS th1, th2

TwoThreads == {th1, th2}
WholeAndPart == {"whole", "part"}
MCSize == [k \in WholeAndPart |-> IF k = "whole" THEN 2 ELSE 1]
MCAnswers == [k \in WholeAndPart |-> IF k = "whole" THEN {"whole"} ELSE WholeAndPart]
=============================================================================

---------------------------- MODULE MCAnswering ----------------------------
EXTENDS Answering

CONSTANTS r1, r2

\* One request is analysed, split in two questions and written up; the other
\* is a direct question.
MCKinds == [r \in Requests |-> IF r = r1 THEN {"other"} ELSE {"direct"}]
MCQuestions == [r \in Requests |-> IF r = r1 THEN 2 ELSE 1]

MCTexts == {{}, {"esquive"}, {"tronque"}, {"hors_lot"}, {"esquive", "degenere"}}
CutTexts == {{}, {"tronque"}}
=============================================================================

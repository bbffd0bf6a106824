------------------------------ MODULE MCConsole -----------------------------
(***************************************************************************)
(* The pages of the administrator: the settings that they write and that   *)
(* the other processes read, the conversation, the opinions and their      *)
(* evaluation.  The two share no state: a behaviour follows one of them.   *)
(***************************************************************************)
EXTENDS Configuration, Feedback

CONSTANTS T, U     \* expected answers of the data set

MCDataset ==
    <<[question |-> "q", truth |-> T], [question |-> NoQuestion, truth |-> U],
      [question |-> "p", truth |-> U]>>
MCOutcomes ==
    {[faithfulness |-> f, answer_relevancy |-> Nil, context_recall |-> r] : f \in {40}, r \in {60, 90}}
        \cup {[faithfulness |-> Nil, answer_relevancy |-> 70, context_recall |-> Nil]}

\* Settings by default; beyond the ceilings and with small fragments.
Setting(rerank, top, fusion, weight, size) ==
    [temperature |-> 10, max_tokens |-> 2048, rerank_top_n |-> rerank, bm25_top_k |-> top,
     dense_top_k |-> top, fusion_top_k |-> fusion, bm25_weight |-> weight, chunk_size |-> size]
MCConfigs == {Setting(15, 40, 30, 50, 800), Setting(40, 100, 60, 70, 60)}

PagesInit == ConfigInit /\ FeedbackInit
PagesNext ==
    \/ runs = 0 /\ asks = 0 /\ ConfigNext /\ UNCHANGED feedbackVars
    \/ ConfigInit /\ reader = "answers" /\ FeedbackNext /\ UNCHANGED configVars
PagesSpec == PagesInit /\ [][PagesNext]_<<configVars, feedbackVars>>
=============================================================================

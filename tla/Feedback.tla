------------------------------ MODULE Feedback ------------------------------
(***************************************************************************)
(* The opinions of the users: the page on which they ask and judge, the    *)
(* table of the feedback server, and the evaluations that the admin server *)
(* makes of the corrections.  The page sends its calls and goes on; the    *)
(* evaluation of several questions is one handler that awaits at each of   *)
(* them, while the table and the scores go on changing.                    *)
(*                                                                         *)
(* An answer is known by the question it was given to and by its number.   *)
(***************************************************************************)
EXTENDS Integers, SequencesExt, Lists

CONSTANTS
    Questions,
    Dataset,        \* the questions of a data set, each with its expected answer
    NoQuestion,     \* the question of a pair that has none
    Outcomes,       \* scores of one answer: per metric, hundredths or Nil
    Configs,        \* settings in force when a report is made
    MaxAsks, MaxCalls, MaxEvals,    \* bounds
    Nil

\* Pairs of a data set have two fields, settings are whole numbers.
ASSUME FeedbackAssumption ==
    /\ {MaxAsks, MaxCalls, MaxEvals} \subseteq Nat /\ Questions \cap {Nil, NoQuestion} = {}
    /\ Dataset \in Seq(Range(Dataset))
    /\ \A k \in DOMAIN Dataset :
          Dataset[k] = [question |-> Dataset[k].question, truth |-> Dataset[k].truth]
    /\ \A c \in Configs :
          {c.temperature, c.max_tokens, c.rerank_top_n, c.bm25_top_k, c.dense_top_k,
           c.fusion_top_k, c.bm25_weight, c.chunk_size} \subseteq Int

VARIABLES
    history,        \* conversationHistory
    shown,          \* the messages on display
    store,          \* feedbackDataStore: the answers that can be judged
    pending,        \* the question under way
    modal, typed,   \* currentFeedbackData, expectedResponse
    calls,          \* POST /api/feedback under way
    rows,           \* table feedbacks
    run,            \* an evaluation
    scores, report, \* table ragas_scores, analysis of the last evaluation
    asks, sent, runs

feedbackVars == <<history, shown, store, pending, modal, typed, calls, rows, run, scores, report, asks, sent, runs>>
conversation == <<history, shown, store, pending, asks>>
judging == <<modal, typed, calls, rows, sent>>
judged == <<run, scores, report, runs>>

FeedbackInit ==
    /\ history = <<>> /\ shown = <<>> /\ store = <<>> /\ pending = Nil /\ asks = 0
    /\ modal = Nil /\ typed = Nil /\ calls = {} /\ rows = <<>> /\ sent = 0
    /\ run = Nil /\ scores = <<>> /\ report = Nil /\ runs = 0

-----------------------------------------------------------------------------
(* The conversation. *)

Message(role, text) == [role |-> role, text |-> text]
Answer(question, n) == [to |-> question, n |-> n]

\* sendMessage, up to the call.
SendMessage(q) ==
    /\ pending = Nil /\ asks < MaxAsks
    /\ asks' = asks + 1
    /\ history' = Append(history, Message("user", q))
    /\ shown' = Append(shown, Message("user", q))
    /\ pending' = q
    /\ UNCHANGED <<store, judging, judged>>

\* The answer goes to the history, to the display and to the store; an error to the
\* display only.
AnswerArrives ==
    /\ pending # Nil
    /\ LET answer == Answer(pending, asks) IN
          /\ history' = Append(history, Message("assistant", answer))
          /\ shown' = Append(shown, Message("assistant", answer))
          /\ store' = Append(store, [query |-> pending, response |-> answer])
    /\ pending' = Nil
    /\ UNCHANGED <<asks, judging, judged>>
Failed ==
    /\ pending # Nil
    /\ shown' = Append(shown, Message("error", pending))
    /\ pending' = Nil
    /\ UNCHANGED <<history, store, asks, judging, judged>>

StartNewChat ==
    /\ modal = Nil
    /\ history' = <<>> /\ shown' = <<>>
    /\ UNCHANGED <<store, pending, asks, judging, judged>>

-----------------------------------------------------------------------------
(* The judgement. *)

\* The buttons of an answer on display.
Judgeable ==
    {k \in DOMAIN store : \E j \in DOMAIN shown : /\ shown[j].role = "assistant"
                                                 /\ shown[j].text = store[k].response}
Call(data, kind, expected) == [data |-> data, kind |-> kind, expected |-> expected, n |-> sent + 1]
Emit(call) == sent < MaxCalls /\ sent' = sent + 1 /\ calls' = calls \cup {call}

\* markFeedbackDone looks for "feedback-msg-3" where the page has "feedback-3": the
\* buttons stay.
ThumbUp(k) ==
    /\ modal = Nil /\ k \in Judgeable
    /\ Emit(Call(store[k], "up", Nil))
    /\ UNCHANGED <<modal, typed, rows, conversation, judged>>
ThumbDown(k) ==
    /\ modal = Nil /\ k \in Judgeable
    /\ modal' = store[k]
    /\ UNCHANGED <<typed, calls, rows, sent, conversation, judged>>

\* The user types, for the answer that the dialog shows.
TypeCorrection ==
    /\ modal # Nil /\ typed = Nil
    /\ typed' = modal
    /\ UNCHANGED <<modal, calls, rows, sent, conversation, judged>>
SubmitDown ==
    /\ modal # Nil /\ typed # Nil
    /\ Emit(Call(modal, "down", typed))
    /\ UNCHANGED <<modal, typed, rows, conversation, judged>>

\* closeModal, by the user or by the call that returns.
\* Mutant: the text stays in the field.
Hidden == modal' = Nil /\ UNCHANGED typed
DialogClosed == modal' = Nil /\ typed' = Nil
CloseModal ==
    /\ modal # Nil
    /\ DialogClosed
    /\ UNCHANGED <<calls, rows, sent, conversation, judged>>

\* submit_feedback, which the page does not distinguish from its failure.
Insert(call) ==
    /\ call \in calls
    /\ rows' = Append(rows, [data |-> call.data, kind |-> call.kind, expected |-> call.expected])
        \/ UNCHANGED rows
    /\ calls' = calls \ {call}
    /\ IF call.kind = "down" /\ modal # Nil THEN DialogClosed ELSE UNCHANGED <<modal, typed>>
    /\ UNCHANGED <<sent, conversation, judged>>

-----------------------------------------------------------------------------
(* The evaluations. *)

Corrected ==
    Selected(rows, [k \in DOMAIN rows |-> rows[k].kind = "down" /\ rows[k].expected # Nil])
Pairs(corrected) ==
    [k \in DOMAIN corrected |-> [question |-> corrected[k].data.query, truth |-> corrected[k].expected]]

\* The rows are read once, at the beginning.
Begins(pairs, source) ==
    /\ run = Nil /\ runs < MaxEvals /\ pairs # <<>>
    /\ run' = [source |-> source, todo |-> pairs, at |-> 0, results |-> <<>>, answer |-> Nil,
               stage |-> "ask"]
    /\ runs' = runs + 1
    /\ UNCHANGED <<scores, report, conversation, judging>>
EvaluateFeedbacks == Begins(Pairs(Corrected), "feedbacks")
BatchEvaluate == Begins(Dataset, "dataset")

Running(stage) == run # Nil /\ run.stage = stage /\ run.at < Len(run.todo)
Current == run.todo[run.at + 1]
Results(status, value) ==
    Append(run.results, [question |-> Current.question, status |-> status, scores |-> value])

\* A pair of a data set without a question is passed over, and has no result.
Counts(source, pair) == source = "dataset" => pair.question # NoQuestion
PassOver ==
    /\ Running("ask") /\ ~Counts(run.source, Current)
    /\ run' = [run EXCEPT !.at = @ + 1]
    /\ UNCHANGED <<scores, report, runs, conversation, judging>>

\* Both evaluations go through their questions the same way.  rag_answer, before
\* the core is asked; a question that gets no answer has a result that says so.
\* Mutant: the answer of the question before stays.
Stale == run.answer
Unanswered == Nil
AskCore(source) ==
    /\ Running("ask") /\ run.source = source /\ Counts(source, Current)
    /\ \E answer \in {Answer(Current.question, 0), Unanswered} :
          run' = IF answer = Nil THEN [run EXCEPT !.at = @ + 1, !.results = Results("skip", Nil)]
                 ELSE [run EXCEPT !.answer = answer, !.stage = "score"]
    /\ UNCHANGED <<scores, report, runs, conversation, judging>>
AskForCorrection == AskCore("feedbacks")
AskForPair == AskCore("dataset")

\* evaluate_single stores the scores and returns them, or raises.
Scored(source, outcome) ==
    /\ Running("score") /\ run.source = source
    /\ scores' = Append(scores, [question |-> Current.question, truth |-> Current.truth, answer |-> run.answer])
    /\ run' = [run EXCEPT !.stage = "ask", !.at = @ + 1, !.results = Results("ok", outcome)]
    /\ UNCHANGED <<report, runs, conversation, judging>>
ScoreCorrection(outcome) == Scored("feedbacks", outcome)
ScorePair(outcome) == Scored("dataset", outcome)
ScoreFails ==
    /\ Running("score")
    /\ run' = [run EXCEPT !.stage = "ask", !.at = @ + 1, !.results = Results("error", Nil)]
    /\ UNCHANGED <<scores, report, runs, conversation, judging>>

ClearScores ==
    /\ scores # <<>>
    /\ scores' = <<>>
    /\ UNCHANGED <<run, report, runs, conversation, judging>>

-----------------------------------------------------------------------------
(* The analysis, in hundredths. *)

Metrics == {"faithfulness", "answer_relevancy", "context_recall"}
Threshold == [faithfulness |-> 80, answer_relevancy |-> 75, context_recall |-> 70]
Lesser(a, b) == IF a < b THEN a ELSE b
Greater(a, b) == IF a < b THEN b ELSE a

\* The mean of what could be measured is below the threshold.
Below(results, m) ==
    LET all == [k \in DOMAIN results |-> results[k].scores[m]]
        values == Selected(all, [k \in DOMAIN all |-> all[k] # Nil])
    IN  values # <<>> /\ FoldLeft(+, 0, values) < Threshold[m] * Len(values)

\* The proposals of a metric.
Size(size) == IF size > 500 THEN Greater(size - 200, 300) ELSE size
Overlap(size) == Greater((size * 15) \div 100, 50)
Weight(w) == Lesser(w + 5, 60)
Suggested(c, m) ==
    CASE m = "faithfulness" ->
            [temperature |-> IF c.temperature > 5 THEN c.temperature - 5 ELSE 0,
             rerank_top_n |-> Lesser(c.rerank_top_n + 5, 25)]
      [] m = "answer_relevancy" -> [max_tokens |-> Greater(c.max_tokens, 4096)]
      [] m = "context_recall" ->
            [bm25_top_k |-> Lesser(c.bm25_top_k + 20, 80), dense_top_k |-> Lesser(c.dense_top_k + 20, 80),
             fusion_top_k |-> Lesser(c.fusion_top_k + 10, 50),
             chunk_size |-> Size(c.chunk_size), chunk_overlap |-> Overlap(Size(c.chunk_size)),
             bm25_weight |-> Weight(c.bm25_weight), dense_weight |-> 100 - Weight(c.bm25_weight)]

\* _build_ragas_analysis, with the settings in force at that time.
Analysis(results, c) ==
    LET ok == Selected(results, [k \in DOMAIN results |-> results[k].status = "ok"])
        low == {m \in Metrics : ok # <<>> /\ Below(ok, m)}
    IN  [config |-> c, diagnosed |-> low, suggested |-> [m \in low |-> Suggested(c, m)],
         well |-> ok # <<>> /\ low = {}]
Ended(source) == run # Nil /\ run.source = source /\ run.at = Len(run.todo)
EndFeedbacks(c) ==
    /\ Ended("feedbacks")
    /\ run' = Nil
    /\ report' = Analysis(run.results, c)
    /\ UNCHANGED <<scores, runs, conversation, judging>>
EndBatch ==
    /\ Ended("dataset")
    /\ run' = Nil
    /\ UNCHANGED <<report, scores, runs, conversation, judging>>

-----------------------------------------------------------------------------

FeedbackNext ==
    \/ \E q \in Questions : SendMessage(q)
    \/ AnswerArrives \/ Failed \/ StartNewChat
    \/ \E k \in DOMAIN store : ThumbUp(k) \/ ThumbDown(k)
    \/ TypeCorrection \/ SubmitDown \/ CloseModal
    \/ \E call \in calls : Insert(call)
    \/ EvaluateFeedbacks \/ BatchEvaluate \/ PassOver \/ AskForCorrection \/ AskForPair
    \/ \E outcome \in Outcomes : ScoreCorrection(outcome) \/ ScorePair(outcome)
    \/ ScoreFails \/ EndBatch \/ ClearScores
    \/ \E c \in Configs : EndFeedbacks(c)

FeedbackSpec == FeedbackInit /\ [][FeedbackNext]_feedbackVars

-----------------------------------------------------------------------------
(* Properties. *)

\* What the model is told of the conversation is what the user sees of it, errors
\* excepted, whatever was answered before, during and after a new chat.
ConversationIsShown ==
    history = Selected(shown, [k \in DOMAIN shown |-> shown[k].role # "error"])

\* A row of the table holds an answer with its own question, and the correction that
\* was typed for it, whatever dialogs and calls came in between.
FeedbackIsAboutItsAnswer ==
    \A k \in DOMAIN rows :
        /\ rows[k].data.response.to = rows[k].data.query
        /\ rows[k].kind = "down" => rows[k].expected = rows[k].data

\* The page tells the model, the user and the table the same story.
PageIsTrue == ConversationIsShown /\ FeedbackIsAboutItsAnswer

\* A score measures the answer to its own question against a correction of that
\* question, although answers fail and the rows change meanwhile; and of the rows gone
\* through, those that hold a question have their results, in their order.
Asked(r) ==
    LET gone == SubSeq(r.todo, 1, r.at)
    IN  Selected(gone, [k \in DOMAIN gone |-> Counts(r.source, gone[k])])
EvaluationsAreTrue ==
    /\ \A k \in DOMAIN scores :
          /\ scores[k].answer.to = scores[k].question
          /\ [question |-> scores[k].question, truth |-> scores[k].truth]
                \in Range(Dataset) \cup Range(Pairs(Corrected))
    /\ run # Nil =>
          LET asked == Asked(run) IN
          /\ Len(run.results) = Len(asked)
          /\ \A k \in DOMAIN asked : run.results[k].question = asked[k].question

\* The settings proposed may be applied: the weights share one whole, what is said to
\* grow does not shrink - but where the settings already exceed the ceiling of a
\* proposal - and an overlap leaves room in its fragment, when the fragments in force
\* have more than 50 characters: 50 is the least overlap that is proposed, even then.
SuggestionsAreSound ==
    report # Nil =>
        LET c == report.config IN
        /\ "context_recall" \in report.diagnosed =>
              LET s == report.suggested["context_recall"] IN
              /\ c.chunk_size > 50 => s.chunk_overlap < s.chunk_size
              /\ s.chunk_size <= c.chunk_size
              /\ s.bm25_weight + s.dense_weight = 100
              /\ c.bm25_weight <= 60 => s.bm25_weight >= c.bm25_weight
              /\ c.bm25_top_k <= 80 => s.bm25_top_k >= c.bm25_top_k
              /\ c.fusion_top_k <= 50 => s.fusion_top_k >= c.fusion_top_k
        /\ "faithfulness" \in report.diagnosed /\ c.rerank_top_n <= 25 =>
              report.suggested["faithfulness"].rerank_top_n >= c.rerank_top_n

\* The report of an evaluation is about what was asked and can be applied.
ReportsAreSound == EvaluationsAreTrue /\ SuggestionsAreSound
=============================================================================

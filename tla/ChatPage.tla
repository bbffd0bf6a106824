------------------------------ MODULE ChatPage ------------------------------
(***************************************************************************)
(* The chat page in one browser tab: the conversation on the screen, the   *)
(* history sent with each question, the standard pass and the deep pass    *)
(* that follows it un-awaited, the sidebar of sources and the settings.    *)
(*                                                                         *)
(* JavaScript runs one callback at a time: a callback up to its next await *)
(* is an action, and requests land in any order.                           *)
(***************************************************************************)
EXTENDS Integers, FiniteSets, SequencesExt

CONSTANTS
    MaxHistory,     \* MAX_HISTORY
    Readings,       \* what grouperParDocument may return: documents, best first
    MaxAsks,        \* bound: questions
    MaxChats        \* bound: conversations started in the tab

ASSUME ChatAssumption ==
    /\ MaxHistory \in Nat /\ MaxHistory >= 2
    /\ <<>> \in Readings
    /\ MaxAsks \in Nat /\ MaxChats \in Nat

VARIABLES
    chat,           \* conversations started so far
    asked,          \* questions asked so far
    inConversation, \* isInConversation: the welcome screen is hidden
    loading,        \* isLoading
    timers,         \* welcome questions waiting for their animation
    history,        \* conversationHistory
    log,            \* every message pushed since the conversation began
    blocks,         \* children of #conversation, from top to bottom
    main,           \* standard passes under way
    deep,           \* deep passes under way
    sidebar,        \* documents listed in the sidebar
    deepOn, saved   \* the deep-search switch, and its copy in localStorage

shown == <<chat, inConversation, timers>>
context == <<history, log>>
settings == <<deepOn, saved>>
chatVars == <<shown, asked, loading, context, blocks, main, deep, sidebar, settings>>

-----------------------------------------------------------------------------
Message == [role: {"user", "assistant"}, n: 1..MaxAsks]
PageBlock == [kind: {"question", "answer", "error"}, n: 1..MaxAsks, docs: Readings,
          extra: {"none", "running", "done", "failed"}]

BlockOf(kind, n, docs, extra) == [kind |-> kind, n |-> n, docs |-> docs, extra |-> extra]

ChatInit ==
    /\ chat = 1 /\ asked = 0
    /\ inConversation = FALSE /\ loading = FALSE /\ timers = 0
    /\ history = <<>> /\ log = <<>>
    /\ blocks = <<>>
    /\ main = {} /\ deep = {}
    /\ sidebar = <<>>
    /\ deepOn = FALSE /\ saved = FALSE

LastN(s, k) == SubSeq(s, IF Len(s) > k THEN Len(s) - k + 1 ELSE 1, Len(s))

\* s.slice(0, -k)
ButLast(s, k) == SubSeq(s, 1, Len(s) - k)

\* addToHistory
Push(h, role, n) == LastN(Append(h, [role |-> role, n |-> n]), MaxHistory)

Remember(role, n) ==
    /\ history' = Push(history, role, n)
    /\ log' = Append(log, [role |-> role, n |-> n])

-----------------------------------------------------------------------------
(* Questions. *)

SendFromWelcome ==
    /\ ~inConversation /\ ~loading
    /\ timers + asked < MaxAsks
    /\ timers' = timers + 1
    /\ UNCHANGED <<chat, inConversation, asked, loading, context, blocks, main, deep,
                   sidebar, settings>>

\* The payload is the history before the question; the settings are those of
\* the moment.
\* Mutant: the payload holds the question too.
PayloadWithQuestion == Push(history, "user", asked + 1)
Payload == ButLast(Push(history, "user", asked + 1), 1)

AskQuestion ==
    /\ asked < MaxAsks
    /\ asked' = asked + 1
    /\ loading' = TRUE
    /\ blocks' = Append(blocks, BlockOf("question", asked + 1, <<>>, "none"))
    /\ Remember("user", asked + 1)
    /\ main' = main \cup {[n |-> asked + 1, deep |-> deepOn, payload |-> Payload, before |-> log]}
    /\ UNCHANGED <<deep, sidebar, settings>>

\* askQuestion returns at once when a question is under way: the second of two
\* quick Enters is lost there.
\* Mutant: askQuestion does not look again.
AskAnyway == AskQuestion
AskUnlessLoading ==
    \/ ~loading /\ AskQuestion
    \/ loading /\ UNCHANGED <<asked, loading, context, blocks, main, deep, sidebar, settings>>

WelcomeTimer ==
    /\ timers > 0
    /\ timers' = timers - 1
    /\ inConversation' = TRUE
    /\ AskUnlessLoading
    /\ UNCHANGED chat

SendFromMain ==
    /\ inConversation /\ ~loading
    /\ timers + asked < MaxAsks
    /\ AskQuestion
    /\ UNCHANGED shown

-----------------------------------------------------------------------------
(* Answers. *)

\* What the proxy answers: the text and passages of the RAG core; on a failure
\* of any kind an error, with a text to show and no passages; or nothing.
Reply(text, error, docs) == [text |-> text, error |-> error, docs |-> docs]
Replies ==
    {Reply(TRUE, FALSE, docs) : docs \in Readings}
        \cup {Reply(TRUE, TRUE, <<>>), Reply(FALSE, FALSE, <<>>)}

\* lancerPistesProfondes, up to its await.
Launch(m) ==
    deep' = IF m.deep
            THEN deep \cup {[n |-> m.n, payload |-> ButLast(history', 2), standard |-> m.payload,
                             complete |-> [role |-> "user", n |-> m.n] \in Range(log)]}
            ELSE deep

\* A text is an answer, whether or not it comes with an error.
MainAnswers(m, docs) ==
    /\ main' = main \ {m}
    /\ Remember("assistant", m.n)
    /\ blocks' = Append(blocks, BlockOf("answer", m.n, docs, IF m.deep THEN "running" ELSE "none"))
    /\ sidebar' = docs
    /\ Launch(m)
    /\ loading' = FALSE
    /\ UNCHANGED <<shown, asked, settings>>

\* No text, an HTTP error, a lost connection, thirty minutes.
\* Mutant: the page stays closed to questions, without a word.
MainFailsSilently(m) ==
    /\ main' = main \ {m}
    /\ UNCHANGED <<shown, asked, loading, blocks, context, deep, sidebar, settings>>
MainFails(m) ==
    /\ main' = main \ {m}
    /\ blocks' = Append(blocks, BlockOf("error", m.n, <<>>, "none"))
    /\ loading' = FALSE
    /\ UNCHANGED <<shown, asked, context, deep, sidebar, settings>>

\* Here an error is an error.
Outcome(r) == IF r.text /\ ~r.error THEN "done" ELSE "failed"

\* Nothing is done when the block has left the page.
DeepLands(d) ==
    /\ deep' = deep \ {d}
    /\ \E r \in Replies :
         blocks' = [i \in DOMAIN blocks |->
                      IF blocks[i].kind = "answer" /\ blocks[i].n = d.n
                      THEN [blocks[i] EXCEPT !.extra = Outcome(r)] ELSE blocks[i]]
    /\ UNCHANGED <<shown, asked, loading, context, main, sidebar, settings>>

-----------------------------------------------------------------------------
(* Conversations and settings. *)

\* startNewChat aborts nothing and leaves isLoading as it is.
\* Mutant: the page is opened to questions at once.
StartNewChatFree ==
    /\ chat < MaxChats /\ chat' = chat + 1
    /\ inConversation' = FALSE /\ loading' = FALSE
    /\ history' = <<>> /\ log' = <<>>
    /\ blocks' = <<>>
    /\ sidebar' = <<>>
    /\ UNCHANGED <<timers, asked, main, deep, settings>>
StartNewChat ==
    /\ chat < MaxChats /\ chat' = chat + 1
    /\ inConversation' = FALSE
    /\ history' = <<>> /\ log' = <<>>
    /\ blocks' = <<>>
    /\ sidebar' = <<>>
    /\ UNCHANGED <<timers, asked, loading, main, deep, settings>>

\* The page is loaded again: loadSettings.
ReloadPage ==
    /\ chat < MaxChats /\ chat' = chat + 1
    /\ inConversation' = FALSE /\ loading' = FALSE /\ timers' = 0
    /\ history' = <<>> /\ log' = <<>>
    /\ blocks' = <<>>
    /\ main' = {} /\ deep' = {}
    /\ sidebar' = <<>>
    /\ deepOn' = saved
    /\ UNCHANGED <<asked, saved>>

Settings ==
    /\ \/ deepOn' = ~deepOn /\ UNCHANGED saved          \* the switch
       \/ saved' = deepOn /\ UNCHANGED deepOn           \* saveSettings
       \/ deepOn' = FALSE /\ saved' = FALSE             \* resetSettings
    /\ UNCHANGED <<shown, asked, loading, context, blocks, main, deep, sidebar>>

MainLands(m) ==
    \/ \E r \in Replies : r.text /\ MainAnswers(m, r.docs)
    \/ MainFails(m)

ChatNext ==
    \/ SendFromWelcome \/ WelcomeTimer \/ SendFromMain
    \/ \E m \in main : MainLands(m)
    \/ \E d \in deep : DeepLands(d)
    \/ StartNewChat \/ ReloadPage \/ Settings

ChatSpec == ChatInit /\ [][ChatNext]_chatVars

\* Timers fire, and queryAgent aborts a request after thirty minutes (there is
\* one standard pass at most: OneQuestionAtATime).
ChatFairness ==
    /\ WF_chatVars(WelcomeTimer)
    /\ WF_chatVars(\E m \in main : MainLands(m))
    /\ \A n \in 1..MaxAsks : WF_chatVars(\E d \in deep : d.n = n /\ DeepLands(d))
ChatFairSpec == ChatSpec /\ ChatFairness

-----------------------------------------------------------------------------
(* Properties. *)

\* Domains; the history never outgrows its cap.
ChatTypeOK ==
    /\ chat \in 1..(MaxChats + 1) /\ asked \in 0..MaxAsks /\ timers \in 0..MaxAsks
    /\ inConversation \in BOOLEAN /\ loading \in BOOLEAN
    /\ history \in Seq(Message) /\ Len(history) <= MaxHistory
    /\ log \in Seq(Message)
    /\ blocks \in Seq(PageBlock)
    /\ sidebar \in Readings
    /\ deepOn \in BOOLEAN /\ saved \in BOOLEAN

\* isLoading is tested by sendFromWelcome 350 ms before askQuestion sets it, and
\* is kept by startNewChat: still, one standard pass at most is under way, and
\* exactly then is the page closed to questions.
OneQuestionAtATime == Cardinality(main) = IF loading THEN 1 ELSE 0

\* The standard pass is sent the messages that came before its question, the
\* latest ones, and never the question itself.  The deep pass takes its context
\* after the answer was pushed, maybe in another conversation: it is sent nothing
\* that the standard pass was not sent, and no hole is in it.  Whether it is sent
\* all of it is another matter: see SameContext.
ContextIsWhatPrecedes ==
    /\ \A m \in main : m.payload = LastN(m.before, MaxHistory - 1)
    /\ \A d \in deep : IsSuffix(d.payload, d.standard)

\* In what the next question will send as context, an answer comes right after
\* its question - save an answer to the previous conversation that lands after
\* "new chat", and then it is the first message.
AnswersFollowTheirQuestion ==
    \A i \in DOMAIN log :
        log[i].role = "assistant" => i = 1 \/ log[i - 1] = [role |-> "user", n |-> log[i].n]

Answers == {i \in DOMAIN blocks : blocks[i].kind = "answer"}

\* The cards of the sidebar are the documents of the lowest answer on the page.
SidebarIsLastAnswer ==
    IF Answers = {} THEN sidebar = <<>>
    ELSE \E i \in Answers : (\A j \in Answers : j <= i) /\ sidebar = blocks[i].docs

\* Answers, and what is shown with them, go where they belong.
AnswersAreInPlace == AnswersFollowTheirQuestion /\ SidebarIsLastAnswer

\* Every question on the page gets an answer or an error below it, unless the
\* conversation is cleared, and "Recherche approfondie en cours" does not stay.
Has(n, kinds) == \E i \in DOMAIN blocks : blocks[i].n = n /\ blocks[i].kind \in kinds
StillSearching(n) == \E i \in DOMAIN blocks : blocks[i].n = n /\ blocks[i].extra = "running"
QuestionsAreSettled ==
    \A n \in 1..MaxAsks :
        /\ Has(n, {"question"}) ~> (Has(n, {"answer", "error"}) \/ blocks = <<>>)
        /\ StillSearching(n) ~> ~StillSearching(n)

\* "Meme contexte que la passe standard : l'historique tel qu'il etait avant la
\* question" (comment of lancerPistesProfondes).  Untrue once the history is full:
\* the cap has dropped a message for the answer, and slice(0, -2) takes it from
\* what is left.
SameContext == \A d \in deep : d.complete => d.payload = d.standard
=============================================================================

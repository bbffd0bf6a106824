---------------------------- MODULE ChatPageProofs ---------------------------
(***************************************************************************)
(* Proofs about the chat page (ChatPage): one question at a time, what is  *)
(* sent as context, and the order of the history.                          *)
(***************************************************************************)
EXTENDS ChatPage, SequenceTheorems, FiniteSetTheorems, TLAPS

-----------------------------------------------------------------------------
(* The ends of sequences. *)

LEMMA LastNProperties ==
    ASSUME NEW S, NEW s \in Seq(S), NEW k \in Nat
    PROVE  /\ LastN(s, k) \in Seq(S)
           /\ Len(LastN(s, k)) = IF Len(s) > k THEN k ELSE Len(s)
           /\ \A i \in 1..Len(LastN(s, k)) : LastN(s, k)[i] = s[Len(s) - Len(LastN(s, k)) + i]
<1> DEFINE m == IF Len(s) > k THEN Len(s) - k + 1 ELSE 1
<1>1. Len(s) \in Nat
    BY LenProperties
<1>2. m \in Int /\ m >= 1
    BY <1>1
<1>3. \A i \in m..Len(s) : s[i] \in S
    BY <1>1, <1>2, ElementOfSeq
<1>4. /\ SubSeq(s, m, Len(s)) \in Seq(S)
      /\ Len(SubSeq(s, m, Len(s))) = IF m <= Len(s) THEN Len(s) - m + 1 ELSE 0
      /\ \A i \in 1..(Len(s) - m + 1) : SubSeq(s, m, Len(s))[i] = s[m + i - 1]
    BY <1>1, <1>2, <1>3, SubSeqProperties
<1>5. LastN(s, k) = SubSeq(s, m, Len(s))
    BY DEF LastN
<1>6. (Len(s) > k => m = Len(s) - k + 1) /\ (~(Len(s) > k) => m = 1)
    OBVIOUS
<1> HIDE DEF m
<1>7. Len(LastN(s, k)) = IF Len(s) > k THEN k ELSE Len(s)
    BY <1>1, <1>4, <1>5, <1>6
<1>8. Len(LastN(s, k)) = Len(s) - m + 1
    BY <1>1, <1>6, <1>7
<1>9. ASSUME NEW i \in 1..Len(LastN(s, k))
      PROVE  LastN(s, k)[i] = s[Len(s) - Len(LastN(s, k)) + i]
    <2>1. i \in 1..(Len(s) - m + 1)
        BY <1>8
    <2>2. LastN(s, k)[i] = s[m + i - 1]
        BY <1>4, <1>5, <2>1
    <2>3. m + i - 1 = Len(s) - (Len(s) - m + 1) + i
        BY <1>1, <1>2, <2>1
    <2>4. QED
        BY <1>8, <2>2, <2>3
<1>10. QED
    BY <1>4, <1>5, <1>7, <1>9

LEMMA EmptyWindow ==
    ASSUME NEW S, NEW k \in Nat PROVE LastN(<<>>, k) = <<>>
<1> DEFINE e == <<>>
<1>1. e \in Seq(S) /\ Len(e) = 0
    BY EmptySeq
<1> HIDE DEF e
<1>2. LastN(e, k) \in Seq(S) /\ Len(LastN(e, k)) = IF Len(e) > k THEN k ELSE Len(e)
    BY <1>1, LastNProperties
<1>3. Len(LastN(e, k)) = 0
    BY <1>1, <1>2
<1>4. LastN(e, k) = <<>>
    BY <1>2, <1>3, EmptySeq
<1>5. QED
    BY <1>4 DEF e

LEMMA ButLastProperties ==
    ASSUME NEW S, NEW s \in Seq(S), NEW k \in Nat
    PROVE  /\ ButLast(s, k) \in Seq(S)
           /\ Len(ButLast(s, k)) = IF Len(s) > k THEN Len(s) - k ELSE 0
           /\ \A i \in 1..Len(ButLast(s, k)) : ButLast(s, k)[i] = s[i]
<1>1. Len(s) \in Nat
    BY LenProperties
<1>2. \A i \in 1..(Len(s) - k) : s[i] \in S
    BY <1>1, ElementOfSeq
<1>3. /\ SubSeq(s, 1, Len(s) - k) \in Seq(S)
      /\ Len(SubSeq(s, 1, Len(s) - k)) = IF 1 <= Len(s) - k THEN Len(s) - k - 1 + 1 ELSE 0
      /\ \A i \in 1..(Len(s) - k - 1 + 1) : SubSeq(s, 1, Len(s) - k)[i] = s[1 + i - 1]
    BY <1>1, <1>2, SubSeqProperties
<1>4. QED
    BY <1>1, <1>3 DEF ButLast

\* Dropping the last element of a window on the last k leaves a window on k - 1.
LEMMA WindowOfAppend ==
    ASSUME NEW S, NEW s \in Seq(S), NEW e \in S, NEW k \in Nat, NEW j \in Nat, k >= 1, j >= 1
    PROVE  ButLast(LastN(Append(s, e), k), j) = ButLast(LastN(s, k - 1), j - 1)
<1> DEFINE a == Append(s, e)
           long == LastN(a, k)
           short == LastN(s, k - 1)
<1>0. k - 1 \in Nat /\ j - 1 \in Nat
    OBVIOUS
<1>1. /\ Len(s) \in Nat /\ a \in Seq(S) /\ Len(a) = Len(s) + 1
      /\ \A i \in 1..Len(s) : a[i] = s[i]
    BY AppendProperties, LenProperties
<1> HIDE DEF a
<1>2. /\ long \in Seq(S)
      /\ Len(long) = IF Len(a) > k THEN k ELSE Len(a)
      /\ \A i \in 1..Len(long) : long[i] = a[Len(a) - Len(long) + i]
    BY <1>1, LastNProperties
<1>3. /\ short \in Seq(S)
      /\ Len(short) = IF Len(s) > k - 1 THEN k - 1 ELSE Len(s)
      /\ \A i \in 1..Len(short) : short[i] = s[Len(s) - Len(short) + i]
    BY <1>0, LastNProperties
<1>4. Len(long) = Len(short) + 1
    BY <1>1, <1>2, <1>3
<1> HIDE DEF long, short
<1>5. ASSUME NEW i \in 1..Len(short) PROVE long[i] = short[i]
    <2> DEFINE p == Len(s) - Len(short) + i
    <2>1. i \in 1..Len(long) /\ p \in 1..Len(s) /\ Len(a) - Len(long) + i = p
        BY <1>1, <1>3, <1>4
    <2>2. long[i] = a[p] /\ short[i] = s[p]
        BY <1>2, <1>3, <2>1
    <2>3. QED
        BY <1>1, <2>1, <2>2
<1>6. /\ ButLast(long, j) \in Seq(S)
      /\ Len(ButLast(long, j)) = IF Len(long) > j THEN Len(long) - j ELSE 0
      /\ \A i \in 1..Len(ButLast(long, j)) : ButLast(long, j)[i] = long[i]
    BY <1>2, ButLastProperties
<1>7. /\ ButLast(short, j - 1) \in Seq(S)
      /\ Len(ButLast(short, j - 1)) = IF Len(short) > j - 1 THEN Len(short) - (j - 1) ELSE 0
      /\ \A i \in 1..Len(ButLast(short, j - 1)) : ButLast(short, j - 1)[i] = short[i]
    BY <1>0, <1>3, ButLastProperties
<1>8. Len(short) \in Nat
    BY <1>3, LenProperties
<1>9. Len(ButLast(long, j)) = Len(ButLast(short, j - 1))
    BY <1>4, <1>6, <1>7, <1>8
<1>10. \A i \in 1..Len(ButLast(long, j)) : ButLast(long, j)[i] = ButLast(short, j - 1)[i]
    BY <1>5, <1>6, <1>7, <1>8, <1>9, SMTT(20)
<1>11. ButLast(long, j) = ButLast(short, j - 1)
    BY <1>6, <1>7, <1>9, <1>10, SeqEqual
<1>12. QED
    BY <1>11 DEF long, short, a

LEMMA ButNone ==
    ASSUME NEW S, NEW s \in Seq(S) PROVE ButLast(s, 0) = s
<1>1. Len(s) \in Nat
    BY LenProperties
<1>2. /\ ButLast(s, 0) \in Seq(S) /\ Len(ButLast(s, 0)) = Len(s)
      /\ \A i \in 1..Len(ButLast(s, 0)) : ButLast(s, 0)[i] = s[i]
    BY <1>1, ButLastProperties
<1>3. QED
    BY <1>2, SeqEqual

\* addToHistory keeps the history a window on the log.
LEMMA PushKeepsWindow ==
    ASSUME NEW S, NEW s \in Seq(S), NEW e \in S, NEW k \in Nat, k >= 1
    PROVE  LastN(Append(LastN(s, k), e), k) = LastN(Append(s, e), k)
<1> DEFINE w == LastN(s, k)
           b == Append(w, e)
           a == Append(s, e)
           left == LastN(b, k)
           right == LastN(a, k)
<1>1. /\ Len(s) \in Nat /\ a \in Seq(S) /\ Len(a) = Len(s) + 1
      /\ \A i \in 1..Len(s) : a[i] = s[i]
      /\ a[Len(s) + 1] = e
    BY AppendProperties, LenProperties
<1> HIDE DEF a
<1>2. /\ w \in Seq(S) /\ Len(w) = IF Len(s) > k THEN k ELSE Len(s)
      /\ \A i \in 1..Len(w) : w[i] = s[Len(s) - Len(w) + i]
    BY LastNProperties
<1> HIDE DEF w
<1>3. /\ Len(w) \in Nat /\ b \in Seq(S) /\ Len(b) = Len(w) + 1
      /\ \A i \in 1..Len(w) : b[i] = w[i]
      /\ b[Len(w) + 1] = e
    BY <1>2, AppendProperties, LenProperties
<1> HIDE DEF b
<1>4. /\ left \in Seq(S) /\ Len(left) = IF Len(b) > k THEN k ELSE Len(b)
      /\ \A i \in 1..Len(left) : left[i] = b[Len(b) - Len(left) + i]
    BY <1>3, LastNProperties
<1>5. /\ right \in Seq(S) /\ Len(right) = IF Len(a) > k THEN k ELSE Len(a)
      /\ \A i \in 1..Len(right) : right[i] = a[Len(a) - Len(right) + i]
    BY <1>1, LastNProperties
<1> HIDE DEF left, right
<1>6. Len(left) = Len(right)
    BY <1>1, <1>2, <1>3, <1>4, <1>5
<1>7. ASSUME NEW i \in 1..Len(left) PROVE left[i] = right[i]
    <2> DEFINE p == Len(b) - Len(left) + i
               q == Len(a) - Len(right) + i
    <2>1. left[i] = b[p] /\ right[i] = a[q]
        BY <1>4, <1>5, <1>6
    <2>2. Len(left) \in Nat /\ i \in 1..Len(left) /\ Len(left) <= Len(w) + 1
        BY <1>3, <1>4, LenProperties
    <2>3. CASE i = Len(left)
        <3>1. p = Len(w) + 1 /\ q = Len(s) + 1
            BY <1>1, <1>3, <1>6, <2>2, <2>3
        <3>2. QED
            BY <1>1, <1>3, <2>1, <3>1
    <2>4. CASE i < Len(left)
        <3>1. /\ Len(s) \in Nat /\ Len(w) \in Nat /\ Len(w) <= Len(s)
              /\ Len(left) = Len(right) /\ i \in Nat /\ 1 <= i /\ i < Len(left)
            BY <1>1, <1>2, <1>3, <1>6, <2>2, <2>4
        <3>2. p \in 1..Len(w) /\ q \in 1..Len(s) /\ q = Len(s) - Len(w) + p
            BY <1>1, <1>3, <2>2, <3>1
        <3>3. left[i] = w[p] /\ right[i] = s[q]
            BY <1>1, <1>3, <2>1, <3>2
        <3>4. QED
            BY <1>2, <3>2, <3>3
    <2>5. QED
        BY <2>2, <2>3, <2>4
<1>8. left = right
    BY <1>4, <1>5, <1>6, <1>7, SeqEqual
<1>9. QED
    BY <1>8 DEF left, right, a, b, w

LEMMA SuffixProperties ==
    ASSUME NEW S, NEW s \in Seq(S), NEW t \in Seq(S), Len(s) <= Len(t),
           \A i \in 1..Len(s) : s[i] = t[Len(t) - Len(s) + i]
    PROVE  IsSuffix(s, t)
<1>1. ASSUME NEW r \in Seq(S)
      PROVE  /\ Reverse(r) \in Seq(S) /\ Len(Reverse(r)) = Len(r)
             /\ \A i \in 1..Len(r) : Reverse(r)[i] = r[Len(r) - i + 1]
    <2>1. Len(r) \in Nat /\ \A i \in 1..Len(r) : r[i] \in S
        BY LenProperties, ElementOfSeq
    <2>2. Reverse(r) \in [1..Len(r) -> S]
        BY <2>1 DEF Reverse
    <2>3. Reverse(r) \in Seq(S)
        BY <2>1, <2>2, SeqDef, SMTT(20)
    <2>4. DOMAIN Reverse(r) = 1..Len(Reverse(r)) /\ Len(Reverse(r)) \in Nat
        BY <2>3, LenProperties
    <2>5. Len(Reverse(r)) = Len(r)
        BY <2>1, <2>2, <2>4
    <2>6. QED
        BY <2>3, <2>5 DEF Reverse
<1>2. Len(s) \in Nat /\ Len(t) \in Nat
    BY LenProperties
<1>3. Reverse(s) \in Seq(S) /\ Len(Reverse(s)) = Len(s)
    BY <1>1
<1>4. Reverse(t) \in Seq(S) /\ Len(Reverse(t)) = Len(t)
    BY <1>1
<1>5. \A i \in 1..Len(s) : Reverse(s)[i] \in S /\ Reverse(t)[i] \in S
    BY <1>2, <1>3, <1>4, ElementOfSeq
<1>6. \A i \in 1..Len(s) : Reverse(s)[i] = Reverse(t)[i]
    <2>1. \A i \in 1..Len(s) : Reverse(s)[i] = s[Len(s) - i + 1]
        BY <1>1
    <2>2. \A i \in 1..Len(t) : Reverse(t)[i] = t[Len(t) - i + 1]
        BY <1>1
    <2>3. QED
        BY <1>2, <2>1, <2>2
<1>7. /\ SubSeq(Reverse(s), 1, Len(s)) \in Seq(S)
      /\ Len(SubSeq(Reverse(s), 1, Len(s))) = Len(s)
      /\ \A i \in 1..Len(s) : SubSeq(Reverse(s), 1, Len(s))[i] = Reverse(s)[i]
    BY <1>2, <1>5, SubSeqProperties
<1>8. /\ SubSeq(Reverse(t), 1, Len(s)) \in Seq(S)
      /\ Len(SubSeq(Reverse(t), 1, Len(s))) = Len(s)
      /\ \A i \in 1..Len(s) : SubSeq(Reverse(t), 1, Len(s))[i] = Reverse(t)[i]
    BY <1>2, <1>5, SubSeqProperties
<1>9. SubSeq(Reverse(s), 1, Len(s)) = SubSeq(Reverse(t), 1, Len(s))
    BY <1>6, <1>7, <1>8, SeqEqual
<1>10. QED
    BY <1>3, <1>4, <1>9 DEF IsSuffix, IsPrefix

\* A shorter window is the end of a longer one, by one message at most.
LEMMA ShorterWindow ==
    ASSUME NEW S, NEW s \in Seq(S), NEW k \in Nat, k >= 1
    PROVE  /\ IsSuffix(LastN(s, k - 1), LastN(s, k))
           /\ Len(LastN(s, k - 1)) >= Len(LastN(s, k)) - 1
<1> DEFINE short == LastN(s, k - 1)
           long == LastN(s, k)
<1>0. k - 1 \in Nat
    OBVIOUS
<1>1. Len(s) \in Nat
    BY LenProperties
<1>2. /\ short \in Seq(S) /\ Len(short) = IF Len(s) > k - 1 THEN k - 1 ELSE Len(s)
      /\ \A i \in 1..Len(short) : short[i] = s[Len(s) - Len(short) + i]
    BY <1>0, LastNProperties
<1>3. /\ long \in Seq(S) /\ Len(long) = IF Len(s) > k THEN k ELSE Len(s)
      /\ \A i \in 1..Len(long) : long[i] = s[Len(s) - Len(long) + i]
    BY LastNProperties
<1> HIDE DEF short, long
<1>4. Len(short) <= Len(long) /\ Len(short) >= Len(long) - 1
    BY <1>1, <1>2, <1>3
<1>5. ASSUME NEW i \in 1..Len(short) PROVE short[i] = long[Len(long) - Len(short) + i]
    <2> DEFINE p == Len(long) - Len(short) + i
    <2>1. Len(short) \in Nat /\ Len(long) \in Nat
        BY <1>2, <1>3, LenProperties
    <2>2. p \in 1..Len(long) /\ Len(s) - Len(long) + p = Len(s) - Len(short) + i
        BY <1>1, <1>4, <2>1
    <2>3. QED
        BY <1>2, <1>3, <2>2
<1>6. QED
    BY <1>2, <1>3, <1>4, <1>5, SuffixProperties DEF short, long
-----------------------------------------------------------------------------
(* The invariant. *)

\* What the welcome screen and the conversations count.
ShownType ==
    chat \in 1..(MaxChats + 1) /\ timers \in 0..MaxAsks /\ inConversation \in BOOLEAN
PageType ==
    /\ asked \in 0..MaxAsks /\ loading \in BOOLEAN
    /\ log \in Seq(Message)
    /\ blocks \in Seq(PageBlock)
    /\ sidebar \in Readings
    /\ deepOn \in BOOLEAN /\ saved \in BOOLEAN

\* The page waits for the one standard pass under way.
Waits == IF loading THEN \E m : main = {m} ELSE main = {}

\* The history is a window on all that was said; the question under way was said
\* last, or the conversation is a new one where nothing was said.
Window == history = LastN(log, MaxHistory)
SaidLast(m) ==
    /\ m.n \in 1..MaxAsks /\ m.before \in Seq(Message)
    /\ m.payload = LastN(m.before, MaxHistory - 1)
    /\ log = <<>> \/ log = Append(m.before, [role |-> "user", n |-> m.n])
QuestionIsLast == \A m \in main : SaidLast(m)
DeepContext(d) == IsSuffix(d.payload, d.standard)

ChatInv ==
    /\ PageType /\ Waits /\ Window /\ QuestionIsLast
    /\ \A d \in deep : DeepContext(d)
    /\ AnswersFollowTheirQuestion /\ SidebarIsLastAnswer

-----------------------------------------------------------------------------
(* The steps. *)

\* Appending a block that is no answer leaves the sidebar true.
LEMMA OtherBlock ==
    ASSUME blocks \in Seq(PageBlock), SidebarIsLastAnswer, NEW b \in PageBlock, b.kind # "answer",
           blocks' = Append(blocks, b), sidebar' = sidebar
    PROVE  blocks' \in Seq(PageBlock) /\ SidebarIsLastAnswer'
<1>1. /\ blocks' \in Seq(PageBlock) /\ Len(blocks') = Len(blocks) + 1 /\ Len(blocks) \in Nat
      /\ \A i \in 1..Len(blocks) : blocks'[i] = blocks[i]
      /\ blocks'[Len(blocks) + 1] = b
    BY AppendProperties, LenProperties
<1>2. DOMAIN blocks = 1..Len(blocks) /\ DOMAIN blocks' = 1..(Len(blocks) + 1)
    BY <1>1, LenProperties
<1>3. Answers' = Answers
    BY <1>1, <1>2 DEF Answers
<1>4. \A i \in Answers : blocks'[i] = blocks[i]
    BY <1>1, <1>2 DEF Answers
<1>5. QED
    BY <1>1, <1>3, <1>4 DEF SidebarIsLastAnswer

\* A message said after the others keeps the history a window.
LEMMA Remembered ==
    ASSUME ChatInv, NEW r \in {"user", "assistant"}, NEW n \in 1..MaxAsks, Remember(r, n)
    PROVE  /\ log' \in Seq(Message) /\ log' = Append(log, [role |-> r, n |-> n])
           /\ Window'
<1>1. [role |-> r, n |-> n] \in Message
    BY DEF Message
<1>2. log' = Append(log, [role |-> r, n |-> n])
    BY DEF Remember
<1>3. log' \in Seq(Message)
    BY <1>1, <1>2, AppendProperties DEF ChatInv, PageType
<1>4. history' = LastN(Append(LastN(log, MaxHistory), [role |-> r, n |-> n]), MaxHistory)
    BY DEF Remember, Push, ChatInv, Window
<1>5. history' = LastN(log', MaxHistory)
    BY <1>1, <1>2, <1>4, PushKeepsWindow, ChatAssumption DEF ChatInv, PageType
<1>6. QED
    BY <1>2, <1>3, <1>5 DEF Window

LEMMA AskKeeps ==
    ASSUME ChatInv, ~loading, AskQuestion PROVE ChatInv'
<1> DEFINE u == [role |-> "user", n |-> asked + 1]
           new == [n |-> asked + 1, deep |-> deepOn, payload |-> Payload, before |-> log]
           b == BlockOf("question", asked + 1, <<>>, "none")
<1>1. asked + 1 \in 1..MaxAsks /\ asked' = asked + 1 /\ loading' = TRUE
    BY ChatAssumption DEF AskQuestion, ChatInv, PageType
<1>2. b \in PageBlock
    BY <1>1, ChatAssumption DEF PageBlock, BlockOf
<1>3. log' \in Seq(Message) /\ log' = Append(log, u) /\ Window'
    BY <1>1, Remembered DEF AskQuestion
<1>4. blocks' \in Seq(PageBlock) /\ SidebarIsLastAnswer'
    BY <1>2, OtherBlock DEF AskQuestion, ChatInv, PageType, BlockOf
<1>5. main' = {new}
    BY DEF AskQuestion, ChatInv, Waits
<1>6. Payload = LastN(log, MaxHistory - 1)
    <2>1. u \in Message /\ log \in Seq(Message)
        BY <1>1 DEF Message, ChatInv, PageType
    <2>2. Payload = ButLast(LastN(Append(LastN(log, MaxHistory), u), MaxHistory), 1)
        BY DEF Payload, Push, ChatInv, Window
    <2>3. Payload = ButLast(LastN(Append(log, u), MaxHistory), 1)
        BY <2>1, <2>2, PushKeepsWindow, ChatAssumption
    <2>4. Payload = ButLast(LastN(log, MaxHistory - 1), 1 - 1)
        BY <2>1, <2>3, WindowOfAppend, ChatAssumption
    <2>5. LastN(log, MaxHistory - 1) \in Seq(Message)
        BY <2>1, LastNProperties, ChatAssumption
    <2>6. QED
        BY <2>4, <2>5, ButNone
<1>7. ASSUME NEW m \in main' PROVE SaidLast(m)'
    <2>1. m.n = asked + 1 /\ m.before = log /\ m.payload = LastN(log, MaxHistory - 1)
        BY <1>5, <1>6
    <2>2. QED
        BY <1>1, <1>3, <2>1 DEF SaidLast, ChatInv, PageType
<1>8. AnswersFollowTheirQuestion'
    <2>1. /\ Len(log) \in Nat /\ Len(log') = Len(log) + 1 /\ DOMAIN log' = 1..(Len(log) + 1)
          /\ \A i \in 1..Len(log) : log'[i] = log[i]
          /\ log'[Len(log) + 1] = u /\ DOMAIN log = 1..Len(log)
        <3>1. u \in Message /\ log \in Seq(Message)
            BY <1>1 DEF Message, ChatInv, PageType
        <3>2. QED
            BY <1>3, <3>1, AppendProperties, LenProperties
    <2>2. QED
        BY <2>1 DEF AnswersFollowTheirQuestion, ChatInv
<1>9. PageType'
    BY <1>1, <1>3, <1>4, ChatAssumption DEF PageType, AskQuestion, ChatInv, settings
<1>10. Waits'
    BY <1>1, <1>5 DEF Waits
<1>11. \A d \in deep' : DeepContext(d)
    BY DEF AskQuestion, ChatInv
<1>12. QED
    BY <1>3, <1>4, <1>7, <1>8, <1>9, <1>10, <1>11 DEF ChatInv, QuestionIsLast, DeepContext
\* What the deep pass is given when the answer lands.
LEMMA LaunchKeeps ==
    ASSUME ChatInv, NEW m \in main, Remember("assistant", m.n), Launch(m), NEW d \in deep'
    PROVE  DeepContext(d)
<1> DEFINE u == [role |-> "user", n |-> m.n]
           a == [role |-> "assistant", n |-> m.n]
<1>1. SaidLast(m) /\ log \in Seq(Message) /\ u \in Message /\ a \in Message
    BY DEF ChatInv, QuestionIsLast, SaidLast, PageType, Message
<1>2. CASE d \in deep
    BY <1>2 DEF ChatInv
<1>3. CASE d \notin deep
    <2>1. /\ d.payload = ButLast(history', 2) /\ d.standard = LastN(m.before, MaxHistory - 1)
        BY <1>1, <1>3 DEF Launch, SaidLast
    <2>2. history' = LastN(Append(log, a), MaxHistory)
        BY <1>1, Remembered DEF Window, SaidLast
    <2>3. d.payload = ButLast(LastN(log, MaxHistory - 1), 1)
        <3>1. d.payload = ButLast(LastN(log, MaxHistory - 1), 2 - 1)
            BY <1>1, <2>1, <2>2, WindowOfAppend, ChatAssumption
        <3>2. QED
            BY <3>1
    <2>4. CASE log = <<>>
        <3>1. LastN(log, MaxHistory - 1) \in Seq(Message) /\ Len(LastN(log, MaxHistory - 1)) = 0
            <4>1. LastN(log, MaxHistory - 1) = <<>>
                BY <2>4, EmptyWindow, ChatAssumption
            <4>2. QED
                BY <4>1, EmptySeq
        <3>2. d.payload \in Seq(Message) /\ Len(d.payload) = 0
            BY <2>3, <3>1, ButLastProperties
        <3>3. d.standard \in Seq(Message) /\ Len(d.standard) \in Nat
            BY <1>1, <2>1, LastNProperties, LenProperties, ChatAssumption DEF SaidLast
        <3>4. IsSuffix(d.payload, d.standard)
            BY <3>2, <3>3, SuffixProperties
        <3>5. QED
            BY <3>4 DEF DeepContext
    <2>5. CASE log = Append(m.before, u)
        <3>1. m.before \in Seq(Message)
            BY <1>1 DEF SaidLast
        <3>2. d.payload = ButLast(LastN(m.before, MaxHistory - 1 - 1), 1 - 1)
            BY <1>1, <2>3, <2>5, <3>1, WindowOfAppend, ChatAssumption
        <3>3. LastN(m.before, MaxHistory - 1 - 1) \in Seq(Message)
            BY <3>1, LastNProperties, ChatAssumption
        <3>4. d.payload = LastN(m.before, MaxHistory - 1 - 1)
            BY <3>2, <3>3, ButNone
        <3>5. QED
            BY <2>1, <3>1, <3>4, ShorterWindow, ChatAssumption DEF DeepContext
    <2>6. QED
        BY <1>1, <2>4, <2>5 DEF SaidLast
<1>4. QED
    BY <1>2, <1>3

LEMMA AnswerKeeps ==
    ASSUME ChatInv, NEW m \in main, NEW docs \in Readings, MainAnswers(m, docs) PROVE ChatInv'
<1> DEFINE a == [role |-> "assistant", n |-> m.n]
           b == BlockOf("answer", m.n, docs, IF m.deep THEN "running" ELSE "none")
<1>1. /\ SaidLast(m) /\ log \in Seq(Message) /\ a \in Message /\ b \in PageBlock
      /\ [role |-> "user", n |-> m.n] \in Message
    BY DEF ChatInv, QuestionIsLast, SaidLast, PageType, Message, PageBlock, BlockOf
<1>2. main' = {} /\ loading' = FALSE /\ sidebar' = docs
    BY DEF MainAnswers, ChatInv, Waits
<1>3. log' \in Seq(Message) /\ log' = Append(log, a) /\ Window'
    BY <1>1, Remembered DEF MainAnswers, SaidLast
<1>4. /\ blocks' \in Seq(PageBlock) /\ Len(blocks) \in Nat /\ Len(blocks') = Len(blocks) + 1
      /\ DOMAIN blocks' = 1..(Len(blocks) + 1) /\ blocks'[Len(blocks) + 1] = b
    BY <1>1, AppendProperties, LenProperties DEF MainAnswers, ChatInv, PageType
<1>5. SidebarIsLastAnswer'
    <2>1. Len(blocks) + 1 \in Answers' /\ \A j \in Answers' : j <= Len(blocks) + 1
        BY <1>4 DEF Answers, BlockOf
    <2>2. sidebar' = blocks'[Len(blocks) + 1].docs
        BY <1>2, <1>4 DEF BlockOf
    <2>3. QED
        BY <2>1, <2>2 DEF SidebarIsLastAnswer
<1>6. AnswersFollowTheirQuestion'
    <2>1. /\ Len(log) \in Nat /\ DOMAIN log' = 1..(Len(log) + 1) /\ DOMAIN log = 1..Len(log)
          /\ \A i \in 1..Len(log) : log'[i] = log[i]
          /\ log'[Len(log) + 1] = a
        BY <1>1, <1>3, AppendProperties, LenProperties
    <2>2. ASSUME log # <<>>
          PROVE  Len(log) >= 1 /\ log[Len(log)] = [role |-> "user", n |-> m.n]
        <3> DEFINE u == [role |-> "user", n |-> m.n]
        <3>1. log = Append(m.before, u)
            BY <1>1, <2>2 DEF SaidLast
        <3>2. m.before \in Seq(Message) /\ u \in Message /\ Len(m.before) \in Nat
            BY <1>1, LenProperties DEF SaidLast
        <3>3. Len(log) = Len(m.before) + 1 /\ log[Len(m.before) + 1] = u
            BY <3>1, <3>2, AppendProperties
        <3>4. QED
            BY <3>2, <3>3
    <2>3. ASSUME NEW i \in DOMAIN log', log'[i].role = "assistant"
          PROVE  i = 1 \/ log'[i - 1] = [role |-> "user", n |-> log'[i].n]
        <3>1. CASE i = Len(log) + 1
            BY <2>1, <2>2, <3>1, EmptySeq
        <3>2. CASE i \in 1..Len(log)
            BY <2>1, <2>3, <3>2 DEF AnswersFollowTheirQuestion, ChatInv
        <3>3. QED
            BY <2>1, <3>1, <3>2
    <2>4. QED
        BY <2>3 DEF AnswersFollowTheirQuestion
<1>7. PageType'
    BY <1>2, <1>3, <1>4 DEF PageType, MainAnswers, ChatInv, settings
<1>8. Waits' /\ QuestionIsLast'
    BY <1>2 DEF Waits, QuestionIsLast
<1>9. \A d \in deep' : DeepContext(d)
    BY LaunchKeeps DEF MainAnswers
<1>10. QED
    BY <1>3, <1>5, <1>6, <1>7, <1>8, <1>9 DEF ChatInv, DeepContext

LEMMA FailureKeeps ==
    ASSUME ChatInv, NEW m \in main, MainFails(m) PROVE ChatInv'
<1> DEFINE b == BlockOf("error", m.n, <<>>, "none")
<1>1. b \in PageBlock
    BY ChatAssumption DEF ChatInv, QuestionIsLast, SaidLast, PageBlock, BlockOf
<1>2. main' = {} /\ loading' = FALSE
    BY DEF MainFails, ChatInv, Waits
<1>3. blocks' \in Seq(PageBlock) /\ SidebarIsLastAnswer'
    BY <1>1, OtherBlock DEF MainFails, ChatInv, PageType, BlockOf
<1>4. PageType'
    BY <1>2, <1>3 DEF PageType, MainFails, ChatInv, settings, context
<1>5. Waits' /\ Window' /\ QuestionIsLast' /\ AnswersFollowTheirQuestion'
    BY <1>2 DEF Waits, QuestionIsLast, Window, AnswersFollowTheirQuestion, MainFails, ChatInv, context
<1>6. QED
    BY <1>3, <1>4, <1>5 DEF ChatInv, DeepContext, MainFails

LEMMA DeepKeeps ==
    ASSUME ChatInv, NEW d \in deep, DeepLands(d) PROVE ChatInv'
<1>1. PICK r \in Replies :
        blocks' = [i \in DOMAIN blocks |->
                     IF blocks[i].kind = "answer" /\ blocks[i].n = d.n
                     THEN [blocks[i] EXCEPT !.extra = Outcome(r)] ELSE blocks[i]]
    BY DEF DeepLands
<1>2. Len(blocks) \in Nat /\ DOMAIN blocks = 1..Len(blocks) /\ \A i \in 1..Len(blocks) : blocks[i] \in PageBlock
    BY LenProperties, ElementOfSeq DEF ChatInv, PageType
<1>3. \A i \in 1..Len(blocks) :
        blocks'[i] \in PageBlock /\ blocks'[i].kind = blocks[i].kind /\ blocks'[i].docs = blocks[i].docs
    BY <1>1, <1>2 DEF PageBlock, Outcome
<1>4. blocks' \in [1..Len(blocks) -> PageBlock]
    BY <1>1, <1>2, <1>3
<1>5. blocks' \in Seq(PageBlock)
    BY <1>2, <1>4, SeqDef
<1>6. Answers' = Answers
    BY <1>2, <1>3, <1>4 DEF Answers
<1>7. SidebarIsLastAnswer'
    BY <1>2, <1>3, <1>6 DEF SidebarIsLastAnswer, Answers, ChatInv, DeepLands
<1>8. UNCHANGED <<asked, loading, history, log, main, sidebar, deepOn, saved>> /\ deep' \subseteq deep
    BY DEF DeepLands, context, settings
<1>9. QED
    BY <1>5, <1>7, <1>8 DEF ChatInv, PageType, Waits, Window, QuestionIsLast, SaidLast,
        AnswersFollowTheirQuestion, DeepContext

\* A conversation that begins is empty.
LEMMA EmptyKeeps ==
    ASSUME ChatInv, log' = <<>>, history' = <<>>, blocks' = <<>>, sidebar' = <<>>,
           asked' = asked, loading' \in BOOLEAN, deepOn' \in BOOLEAN, saved' \in BOOLEAN,
           main' \subseteq main, Waits', deep' \subseteq deep
    PROVE  ChatInv'
<1>1. PageType'
    BY EmptySeq, ChatAssumption DEF PageType, ChatInv
<1>2. Window'
    BY EmptyWindow, ChatAssumption DEF Window
<1>3. QuestionIsLast'
    BY DEF QuestionIsLast, SaidLast, ChatInv
<1>4. AnswersFollowTheirQuestion' /\ SidebarIsLastAnswer'
    BY DEF AnswersFollowTheirQuestion, SidebarIsLastAnswer, Answers
<1>5. QED
    BY <1>1, <1>2, <1>3, <1>4 DEF ChatInv, DeepContext

LEMMA PageFrame ==
    ASSUME ChatInv, UNCHANGED <<asked, loading, history, log, blocks, main, deep, sidebar>>,
           deepOn' \in BOOLEAN, saved' \in BOOLEAN
    PROVE  ChatInv'
    BY DEF ChatInv, PageType, Waits, Window, QuestionIsLast, SaidLast, DeepContext,
        AnswersFollowTheirQuestion, SidebarIsLastAnswer, Answers

LEMMA ChatStep ==
    ASSUME ChatInv, [ChatNext]_chatVars PROVE ChatInv'
<1>1. CASE SendFromWelcome
    BY <1>1, PageFrame DEF SendFromWelcome, context, settings, ChatInv, PageType
<1>2. CASE WelcomeTimer
    <2>1. CASE ~loading /\ AskQuestion
        BY <2>1, AskKeeps
    <2>2. CASE UNCHANGED <<asked, loading, context, blocks, main, deep, sidebar, settings>>
        BY <2>2, PageFrame DEF context, settings, ChatInv, PageType
    <2>3. QED
        BY <1>2, <2>1, <2>2 DEF WelcomeTimer, AskUnlessLoading
<1>3. CASE SendFromMain
    BY <1>3, AskKeeps DEF SendFromMain
<1>4. CASE \E m \in main : MainLands(m)
    <2>1. PICK m \in main : MainLands(m)
        BY <1>4
    <2>2. CASE \E r \in Replies : r.text /\ MainAnswers(m, r.docs)
        <3>1. \A r \in Replies : r.docs \in Readings
            BY ChatAssumption DEF Replies, Reply
        <3>2. QED
            BY <2>2, <3>1, AnswerKeeps
    <2>3. CASE MainFails(m)
        BY <2>3, FailureKeeps
    <2>4. QED
        BY <2>1, <2>2, <2>3 DEF MainLands
<1>5. CASE \E d \in deep : DeepLands(d)
    BY <1>5, DeepKeeps
<1>6. CASE StartNewChat
    <2>1. Waits'
        BY <1>6 DEF StartNewChat, Waits, ChatInv
    <2>2. QED
        BY <1>6, <2>1, EmptyKeeps DEF StartNewChat, settings, ChatInv, PageType
<1>7. CASE ReloadPage
    <2>1. Waits' /\ main' = {} /\ deep' = {}
        BY <1>7 DEF ReloadPage, Waits
    <2>2. QED
        BY <1>7, <2>1, EmptyKeeps DEF ReloadPage, ChatInv, PageType
<1>8. CASE Settings
    BY <1>8, PageFrame DEF Settings, context, ChatInv, PageType
<1>9. CASE UNCHANGED chatVars
    BY <1>9, PageFrame DEF chatVars, shown, context, settings, ChatInv, PageType
<1>10. QED
    BY <1>1, <1>2, <1>3, <1>4, <1>5, <1>6, <1>7, <1>8, <1>9 DEF ChatNext

LEMMA ChatStart == ChatInit => ChatInv
<1> SUFFICES ASSUME ChatInit PROVE ChatInv
    OBVIOUS
<1>1. PageType
    <2>1. log \in Seq(Message) /\ blocks \in Seq(PageBlock)
        BY EmptySeq DEF ChatInit
    <2>2. asked \in 0..MaxAsks
        BY ChatAssumption DEF ChatInit
    <2>3. QED
        BY <2>1, <2>2, ChatAssumption DEF ChatInit, PageType
<1>2. Window
    BY EmptyWindow, ChatAssumption DEF Window, ChatInit
<1>3. Waits /\ QuestionIsLast /\ AnswersFollowTheirQuestion /\ SidebarIsLastAnswer
    BY DEF ChatInit, Waits, QuestionIsLast, AnswersFollowTheirQuestion, SidebarIsLastAnswer, Answers
<1>4. QED
    BY <1>1, <1>2, <1>3 DEF ChatInv, ChatInit

\* The invariant holds always.
LEMMA ChatInvAlways == ChatSpec => []ChatInv
<1>1. ChatInv /\ [ChatNext]_chatVars => ChatInv'
    BY ChatStep
<1>2. QED
    BY <1>1, ChatStart, PTL DEF ChatSpec

-----------------------------------------------------------------------------
(* The theorems. *)

\* Domains; the history never outgrows its cap (chat_ui.py, addToHistory).
THEOREM ChatTypes == ChatSpec => []ChatTypeOK
<1> MaxAsks \in Nat /\ MaxChats \in Nat
    BY ChatAssumption
<1>1. ChatInit => ShownType
    <2>1. 1 \in 1..(MaxChats + 1) /\ 0 \in 0..MaxAsks
        OBVIOUS
    <2>2. QED
        BY <2>1 DEF ChatInit, ShownType
<1>2. ASSUME ChatInv, ShownType, [ChatNext]_chatVars PROVE ShownType'
    <2>1. CASE SendFromWelcome
        BY <1>2, <2>1 DEF SendFromWelcome, ShownType, ChatInv, PageType
    <2>2. CASE WelcomeTimer
        BY <1>2, <2>2 DEF WelcomeTimer, ShownType
    <2>3. CASE StartNewChat \/ ReloadPage
        <3>1. chat' = chat + 1 /\ chat < MaxChats /\ inConversation' = FALSE /\ timers' \in {0, timers}
            BY <2>3 DEF StartNewChat, ReloadPage
        <3>2. chat' \in 1..(MaxChats + 1)
            BY <1>2, <3>1 DEF ShownType
        <3>3. timers' \in 0..MaxAsks
            BY <1>2, <3>1 DEF ShownType
        <3>4. QED
            BY <3>1, <3>2, <3>3 DEF ShownType
    <2>4. CASE UNCHANGED shown
        BY <1>2, <2>4 DEF ShownType, shown
    <2>5. QED
        BY <1>2, <2>1, <2>2, <2>3, <2>4
            DEF ChatNext, SendFromMain, MainLands, MainAnswers, MainFails, DeepLands, Settings, chatVars
<1>3. ChatInv /\ ShownType => ChatTypeOK
    <2>1. ChatInv => history \in Seq(Message) /\ Len(history) <= MaxHistory
        <3>1. ASSUME NEW k \in Nat, NEW s \in Seq(Message)
              PROVE  LastN(s, k) \in Seq(Message) /\ Len(LastN(s, k)) <= k
            BY LastNProperties, LenProperties
        <3>2. QED
            BY <3>1, ChatAssumption DEF ChatInv, PageType, Window
    <2>2. QED
        BY <2>1 DEF ChatInv, PageType, ShownType, ChatTypeOK
<1>4. QED
    BY <1>1, <1>2, <1>3, ChatInvAlways, PTL DEF ChatSpec

\* The page is closed to questions exactly while one standard pass is under way
\* (chat_ui.py, askQuestion, startNewChat).
THEOREM OneQuestion == ChatSpec => []OneQuestionAtATime
<1>1. ChatInv => OneQuestionAtATime
    BY FS_EmptySet, FS_Singleton DEF ChatInv, Waits, OneQuestionAtATime
<1>2. QED
    BY <1>1, ChatInvAlways, PTL

\* The standard pass is sent what precedes its question, the deep pass nothing
\* but an end of it (chat_ui.py, askQuestion, lancerPistesProfondes).
THEOREM ContextPrecedes == ChatSpec => []ContextIsWhatPrecedes
<1>1. ChatInv => ContextIsWhatPrecedes
    BY DEF ChatInv, QuestionIsLast, SaidLast, DeepContext, ContextIsWhatPrecedes
<1>2. QED
    BY <1>1, ChatInvAlways, PTL

\* Answers follow their question in the history, and the sidebar shows the
\* documents of the lowest one (chat_ui.py, handleResponse).
THEOREM AnswersFollow == ChatSpec => []AnswersAreInPlace
<1>1. ChatInv => AnswersAreInPlace
    BY DEF ChatInv, AnswersAreInPlace
<1>2. QED
    BY <1>1, ChatInvAlways, PTL
=============================================================================

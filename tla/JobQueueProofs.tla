--------------------------- MODULE JobQueueProofs ---------------------------
(***************************************************************************)
(* The safety invariants of JobQueue, for any number of jobs, callers,     *)
(* priorities and retry budgets.                                           *)
(*                                                                         *)
(* InProgressIsHeld and the others are not inductive: recover_in_progress  *)
(* needs to know that a row in progress carries no delay, the coalescing   *)
(* of enqueue needs every row that left "pending" to have been tried, and  *)
(* the verdict of fail() needs what its first transaction read to still    *)
(* hold at the second.  The conjuncts below say so.                        *)
(***************************************************************************)
EXTENDS JobQueue, TLAPS

\* The thread holds a job exactly while it processes one, and there is no
\* thread without a process.
HeldShape ==
    /\ ~up => pc = "none"
    /\ held = None <=> pc \in {"none", "idle"}

\* A row that was ever dequeued counts it; the held row was, or is gone.
TakenIsCounted ==
    /\ \A j \in Jobs : row[j].status \in Status \ {"pending"} => row[j].attempts >= 1
    /\ held # None =>
         \/ row[held].status = "deleted"
         \/ row[held].status \in Status /\ row[held].attempts >= 1

InProgressNotDelayed ==
    \A j \in Jobs : Is(j, "in_progress") => row[j].backoff = "none"

\* What fail() read is still true when it writes, unless the row is gone.
VerdictStillHolds ==
    /\ pc = "failing" /\ row[held].status \in Status => row[held].attempts < row[held].budget
    /\ pc = "burying" /\ row[held].status \in Status => row[held].attempts >= row[held].budget

IInv ==
    /\ TypeOK
    /\ HeldShape
    /\ TakenIsCounted
    /\ InProgressNotDelayed
    /\ VerdictStillHolds
    /\ InProgressIsHeld
    /\ OneFreshPendingPerKey
    /\ TriesAreAsked
    /\ BackoffNeverDefers
    /\ VerdictMatchesAttempts

-----------------------------------------------------------------------------
(* Type correctness. *)

LEMMA RowTypes ==
    /\ \A s \in Absent : Blank(s) \in Row
    /\ \A q \in Call : Fresh(q) \in Row
    /\ \A r \in Row : ToPending(r) \in Row /\ Recovered(r) \in Row
    /\ \A r \in Row : Taken(r) \in Row
    /\ \A r \in Row, s \in Status \cup Absent, b \in Backoff : Settled(r, s, b) \in Row
    /\ Idle \in Call
    <1>1. 0 \in 0..MaxClock
        BY QueueAssumption
    <1>2. ASSUME NEW s \in Absent PROVE Blank(s) \in Row
        BY <1>1 DEF Blank, Row, Backoff
    <1>3. ASSUME NEW q \in Call PROVE Fresh(q) \in Row
        BY DEF Fresh, Call, Row, Status, Backoff
    <1>4. ASSUME NEW r \in Row PROVE ToPending(r) \in Row
        BY DEF ToPending, Row, Status, Backoff
    <1>5. ASSUME NEW r \in Row PROVE Recovered(r) \in Row
        BY DEF Recovered, Row, Status
    <1>6. ASSUME NEW r \in Row PROVE Taken(r) \in Row
        <2>1. r.attempts + 1 \in Nat
            BY DEF Row
        <2>2. QED BY <2>1 DEF Taken, Row, Status
    <1>7. ASSUME NEW r \in Row, NEW s \in Status \cup Absent, NEW b \in Backoff
          PROVE  Settled(r, s, b) \in Row
        BY DEF Settled, Row
    <1>8. Idle \in Call
        BY <1>1 DEF Idle, Call
    <1> QED
        BY <1>2, <1>3, <1>4, <1>5, <1>6, <1>7, <1>8

LEMMA TypeInit == Init => TypeOK
    BY RowTypes, QueueAssumption DEF Init, TypeOK, Absent

\* Settling the held job: the table stays a table whatever the verdict.
LEMMA TypeSettle ==
    ASSUME TypeOK, held \in Jobs,
           NEW s \in Status, NEW b \in Backoff, Settle(s, b)
    PROVE  TypeOK'
    BY RowTypes DEF TypeOK, Settle

LEMMA TypeNext == TypeOK /\ HeldShape /\ [Next]_vars => TypeOK'
    <1> SUFFICES ASSUME TypeOK, HeldShape, [Next]_vars PROVE TypeOK'
        OBVIOUS
    <1>1. ASSUME NEW c \in Callers, EnqueueCall(c) PROVE TypeOK'
        BY <1>1 DEF EnqueueCall, TypeOK, Call
    <1>2. ASSUME NEW c \in Callers, EnqueueCommit(c) PROVE TypeOK'
        <2>1. Fresh(call[c]) \in Row /\ Blank("deleted") \in Row /\ Idle \in Call
            BY RowTypes DEF TypeOK, Absent
        <2>2. row' \in [Jobs -> Row]
            BY <1>2, <2>1 DEF EnqueueCommit, TypeOK
        <2>3. QED BY <1>2, <2>1, <2>2 DEF EnqueueCommit, TypeOK
    <1>3. ASSUME NEW c \in Callers, EnqueueAborts(c) PROVE TypeOK'
        BY <1>3, RowTypes DEF EnqueueAborts, TypeOK
    <1>4. ASSUME NEW j \in Jobs, RetryJob(j) PROVE TypeOK'
        BY <1>4, RowTypes DEF RetryJob, TypeOK
    <1>5. CASE RetryAllFailed
        BY <1>5, RowTypes DEF RetryAllFailed, TypeOK
    <1>6. ASSUME NEW j \in Jobs, Dequeue(j) PROVE TypeOK'
        BY <1>6, RowTypes DEF Dequeue, TypeOK
    <1>7. CASE Complete
        <2>1. held \in Jobs /\ row[held].backoff \in Backoff
            BY <1>7 DEF Complete, HeldShape, TypeOK, Row
        <2>2. QED BY <1>7, <2>1, TypeSettle DEF Complete, Status
    <1>8. CASE HandlerRaises
        BY <1>8 DEF HandlerRaises, TypeOK
    <1>9. CASE FailReads
        BY <1>9 DEF FailReads, TypeOK
    <1>10. CASE FailWrites
        <2>1. held \in Jobs
            BY <1>10 DEF FailWrites, HeldShape, TypeOK
        <2>2. QED BY <1>10, <2>1, TypeSettle DEF FailWrites, Status, Backoff
    <1>11. CASE MarkDead
        <2>1. held \in Jobs /\ row[held].backoff \in Backoff
            BY <1>11 DEF MarkDead, HeldShape, TypeOK, Row
        <2>2. QED BY <1>11, <2>1, TypeSettle DEF MarkDead, Status
    <1>12. CASE ThreadDies
        BY <1>12 DEF ThreadDies, TypeOK
    <1>13. CASE ProcessEnds
        BY <1>13, RowTypes DEF ProcessEnds, TypeOK
    <1>14. CASE ProcessStarts
        BY <1>14, RowTypes DEF ProcessStarts, TypeOK
    <1>15. CASE ClockTicks
        BY <1>15, QueueAssumption DEF ClockTicks, TypeOK
    <1>16. ASSUME NEW j \in Jobs, BackoffElapses(j) PROVE TypeOK'
        BY <1>16, RowTypes DEF BackoffElapses, TypeOK, Row, Backoff
    <1>17. CASE UNCHANGED vars
        BY <1>17 DEF vars, TypeOK
    <1> QED
        BY <1>1, <1>2, <1>3, <1>4, <1>5, <1>6, <1>7, <1>8, <1>9, <1>10, <1>11,
           <1>12, <1>13, <1>14, <1>15, <1>16, <1>17 DEF Next, WorkerStep

-----------------------------------------------------------------------------
(* The inductive invariant. *)

LEMMA IInvInit == Init => IInv
    BY TypeInit DEF Init, IInv, HeldShape, TakenIsCounted, InProgressNotDelayed,
       VerdictStillHolds, InProgressIsHeld, OneFreshPendingPerKey, TriesAreAsked,
       BackoffNeverDefers, VerdictMatchesAttempts, Is, Blank, Status, Working

\* Steps that touch neither the table, the thread, nor the history.
LEMMA IInvStutter ==
    ASSUME IInv, TypeOK', UNCHANGED <<row, up, pc, held, relaunch>>
    PROVE  IInv'
    BY DEF IInv, HeldShape, TakenIsCounted, InProgressNotDelayed,
       VerdictStillHolds, InProgressIsHeld, OneFreshPendingPerKey, TriesAreAsked,
       BackoffNeverDefers, VerdictMatchesAttempts, Is, Working

\* A relaunch by an operator: some rows go back to pending, each counted.
LEMMA IInvRelaunch ==
    ASSUME IInv, TypeOK', NEW S \in SUBSET Jobs,
           \A j \in S : row[j].status \in Status,
           row' = [j \in Jobs |-> IF j \in S THEN ToPending(row[j]) ELSE row[j]],
           relaunch' = [j \in Jobs |-> IF j \in S THEN relaunch[j] + 1 ELSE relaunch[j]],
           UNCHANGED <<up, pc, held>>
    PROVE  IInv'
    <1> USE DEF IInv
    <1>1. \A j \in S : /\ row'[j].status = "pending" /\ row'[j].backoff = "none"
                       /\ row'[j].attempts = row[j].attempts
                       /\ row'[j].key = row[j].key /\ row'[j].budget = row[j].budget
        BY DEF ToPending, TypeOK, Row
    <1>2. \A j \in Jobs \ S : row'[j] = row[j]
        OBVIOUS
    <1>3. HeldShape'
        BY DEF HeldShape
    <1>4. TakenIsCounted'
        BY <1>1, <1>2 DEF TakenIsCounted, TypeOK, Status
    <1>5. InProgressNotDelayed'
        BY <1>1, <1>2 DEF InProgressNotDelayed, Is
    <1>6. VerdictStillHolds'
        BY <1>1, <1>2 DEF VerdictStillHolds, HeldShape, TypeOK
    <1>7. InProgressIsHeld'
        BY <1>1, <1>2 DEF InProgressIsHeld, Is, Working
    <1>8. OneFreshPendingPerKey'
        <2>1. ASSUME NEW j \in Jobs, Is(j, "pending")', row'[j].attempts = 0
              PROVE  Is(j, "pending") /\ row[j].attempts = 0 /\ row'[j].key = row[j].key
            <3>1. CASE j \in S
                <4>1. row[j].attempts = 0 /\ row'[j].key = row[j].key
                    BY <1>1, <2>1, <3>1
                <4>2. row[j].status \in Status
                    BY <3>1
                <4>3. ~(row[j].attempts >= 1)
                    BY <4>1
                <4>4. row[j].status = "pending"
                    BY <4>2, <4>3 DEF TakenIsCounted
                <4>5. QED BY <4>1, <4>4 DEF Is
            <3>2. CASE j \notin S
                BY <1>2, <2>1, <3>2 DEF Is
            <3>3. QED BY <3>1, <3>2
        <2>2. QED BY <2>1 DEF OneFreshPendingPerKey
    <1>9. TriesAreAsked'
        <2> SUFFICES ASSUME NEW j \in Jobs
                     PROVE  row'[j].attempts + (IF Is(j, "pending")' THEN 1 ELSE 0) <= 1 + relaunch'[j]
            BY DEF TriesAreAsked
        <2>1. row[j].attempts \in Nat /\ relaunch[j] \in Nat
            BY DEF TypeOK, Row
        <2>2. row[j].attempts + (IF Is(j, "pending") THEN 1 ELSE 0) <= 1 + relaunch[j]
            BY DEF TriesAreAsked
        <2>3. CASE j \in S
            BY <1>1, <2>1, <2>2, <2>3 DEF Is
        <2>4. CASE j \notin S
            BY <1>2, <2>2, <2>4 DEF Is
        <2>5. QED BY <2>3, <2>4
    <1>10. BackoffNeverDefers'
        BY <1>1, <1>2 DEF BackoffNeverDefers, Is
    <1>11. VerdictMatchesAttempts'
        BY <1>1, <1>2 DEF VerdictMatchesAttempts, Is
    <1> QED
        BY <1>3, <1>4, <1>5, <1>6, <1>7, <1>8, <1>9, <1>10, <1>11

\* The held job is settled with a verdict that its count supports.
LEMMA IInvSettle ==
    ASSUME IInv, TypeOK', held \in Jobs, up,
           NEW s \in {"completed", "failed", "dead"}, NEW b \in Backoff, Settle(s, b),
           row[held].status \in Status =>
             /\ s = "dead" => row[held].attempts >= row[held].budget
             /\ s = "failed" => row[held].attempts < row[held].budget
    PROVE  IInv'
    <1> USE DEF IInv
    <1>1. row[held].status \in Status =>
            /\ row'[held].status = s
            /\ row'[held].attempts = row[held].attempts
            /\ row'[held].key = row[held].key /\ row'[held].budget = row[held].budget
        BY DEF Settle, Settled, TypeOK, Row
    <1>2. \A j \in Jobs : j # held \/ row[j].status \notin Status => row'[j] = row[j]
        BY DEF Settle, TypeOK
    <1>3. HeldShape'
        BY DEF HeldShape, Settle
    <1>4. TakenIsCounted'
        BY <1>1, <1>2, <1>3, QueueAssumption DEF TakenIsCounted, HeldShape, Settle, Status, TypeOK
    <1>5. InProgressNotDelayed'
        BY <1>1, <1>2 DEF InProgressNotDelayed, Is, Status
    <1>6. VerdictStillHolds'
        BY DEF VerdictStillHolds, Settle
    <1>7. InProgressIsHeld'
        BY <1>1, <1>2, QueueAssumption DEF InProgressIsHeld, Is, Working, Settle, HeldShape, Status
    <1>8. OneFreshPendingPerKey'
        BY <1>1, <1>2 DEF OneFreshPendingPerKey, Is, Status
    <1>9. TriesAreAsked'
        BY <1>1, <1>2 DEF TriesAreAsked, Is, Settle, Status, TypeOK, Row
    <1>10. BackoffNeverDefers'
        BY <1>1, <1>2 DEF BackoffNeverDefers, Is, Status
    <1>11. VerdictMatchesAttempts'
        BY <1>1, <1>2 DEF VerdictMatchesAttempts, Is, Status
    <1> QED
        BY <1>3, <1>4, <1>5, <1>6, <1>7, <1>8, <1>9, <1>10, <1>11

\* enqueue: the pending rows of the key make room for the new one.
LEMMA IInvEnqueue ==
    ASSUME IInv, TypeOK', NEW c \in Callers, EnqueueCommit(c)
    PROVE  IInv'
    <1> USE DEF IInv
    <1> DEFINE k == call[c].key
    <1>1. PICK n \in Jobs :
            /\ Is(n, "unused")
            /\ row' = [i \in Jobs |-> IF i = n THEN Fresh(call[c])
                                      ELSE IF i \in Superseded(k) THEN Blank("deleted")
                                      ELSE row[i]]
        BY DEF EnqueueCommit
    <1>2. /\ row'[n].status = "pending" /\ row'[n].backoff = "none"
          /\ row'[n].attempts = 0 /\ row'[n].key = k
        BY <1>1 DEF Fresh
    <1>3. ASSUME NEW j \in Jobs, j # n
          PROVE  \/ row'[j] = row[j] /\ j \notin Superseded(k)
                 \/ Is(j, "pending") /\ row'[j].status = "deleted" /\ row'[j].attempts = 0
        BY <1>1, <1>3 DEF Superseded, Blank, Is
    <1>4. HeldShape' /\ UNCHANGED <<up, pc, held, relaunch>>
        BY DEF HeldShape, EnqueueCommit
    <1>5. held # n
        BY <1>1, QueueAssumption DEF TakenIsCounted, TypeOK, Is, Status
    <1>6. TakenIsCounted'
        BY <1>2, <1>3, <1>4, <1>5 DEF TakenIsCounted, TypeOK, Status, Is
    <1>7. InProgressNotDelayed'
        BY <1>2, <1>3 DEF InProgressNotDelayed, Is
    <1>8. VerdictStillHolds'
        BY <1>3, <1>4, <1>5 DEF VerdictStillHolds, HeldShape, TypeOK, Status
    <1>9. InProgressIsHeld'
        BY <1>2, <1>3, <1>4 DEF InProgressIsHeld, Is, Working
    <1>10. OneFreshPendingPerKey'
        <2>1. ASSUME NEW j \in Jobs, j # n, Is(j, "pending")'
              PROVE  row'[j] = row[j] /\ row[j].key # k
            BY <1>3, <2>1 DEF Superseded, Is
        <2>2. QED BY <1>2, <2>1 DEF OneFreshPendingPerKey, Is
    <1>11. TriesAreAsked'
        <2> SUFFICES ASSUME NEW j \in Jobs
                     PROVE  row'[j].attempts + (IF Is(j, "pending")' THEN 1 ELSE 0) <= 1 + relaunch'[j]
            BY DEF TriesAreAsked
        <2>1. relaunch'[j] = relaunch[j] /\ relaunch[j] \in Nat
            BY <1>4 DEF TypeOK
        <2>2. row[j].attempts + (IF Is(j, "pending") THEN 1 ELSE 0) <= 1 + relaunch[j]
            BY DEF TriesAreAsked
        <2>3. CASE j = n
            BY <1>2, <2>1, <2>3 DEF Is
        <2>4. CASE j # n
            BY <1>3, <2>1, <2>2, <2>4 DEF Is
        <2>5. QED BY <2>3, <2>4
    <1>12. BackoffNeverDefers'
        BY <1>2, <1>3 DEF BackoffNeverDefers, Is
    <1>13. VerdictMatchesAttempts'
        BY <1>2, <1>3 DEF VerdictMatchesAttempts, Is
    <1> QED
        BY <1>4, <1>6, <1>7, <1>8, <1>9, <1>10, <1>11, <1>12, <1>13

\* The idle worker takes a pending row: nothing else was in progress.
LEMMA IInvDequeue ==
    ASSUME IInv, TypeOK', NEW n \in Jobs, Dequeue(n)
    PROVE  IInv'
    <1> USE DEF IInv
    <1>1. /\ Is(n, "pending") /\ row[n].backoff = "none" /\ pc = "idle" /\ held = None
          /\ pc' = "busy" /\ held' = n /\ UNCHANGED <<up, relaunch>>
        BY DEF Dequeue, IsNextJob, Due, HeldShape, BackoffNeverDefers
    <1>2. /\ row'[n].status = "in_progress" /\ row'[n].backoff = "none"
          /\ row'[n].attempts = row[n].attempts + 1
        BY <1>1 DEF Dequeue, Taken, TypeOK, Row
    <1>3. \A j \in Jobs \ {n} : row'[j] = row[j]
        BY DEF Dequeue, TypeOK
    <1>4. \A j \in Jobs : ~Is(j, "in_progress")
        BY <1>1, QueueAssumption DEF InProgressIsHeld, Working
    <1>5. row[n].attempts \in Nat
        BY DEF TypeOK, Row
    <1>6. HeldShape'
        BY <1>1, QueueAssumption DEF HeldShape
    <1>7. TakenIsCounted'
        BY <1>1, <1>2, <1>3, <1>5 DEF TakenIsCounted, Status
    <1>8. InProgressNotDelayed'
        BY <1>2, <1>3, <1>4 DEF InProgressNotDelayed, Is
    <1>9. VerdictStillHolds'
        BY <1>1 DEF VerdictStillHolds
    <1>10. InProgressIsHeld'
        BY <1>1, <1>3, <1>4 DEF InProgressIsHeld, Is
    <1>11. OneFreshPendingPerKey'
        BY <1>2, <1>3 DEF OneFreshPendingPerKey, Is
    <1>12. TriesAreAsked'
        <2> SUFFICES ASSUME NEW j \in Jobs
                     PROVE  row'[j].attempts + (IF Is(j, "pending")' THEN 1 ELSE 0) <= 1 + relaunch'[j]
            BY DEF TriesAreAsked
        <2>1. row[j].attempts + (IF Is(j, "pending") THEN 1 ELSE 0) <= 1 + relaunch[j]
            BY DEF TriesAreAsked
        <2>2. CASE j = n
            BY <1>1, <1>2, <1>5, <2>1, <2>2 DEF Is, TypeOK
        <2>3. CASE j # n
            BY <1>1, <1>3, <2>1, <2>3 DEF Is
        <2>4. QED BY <2>2, <2>3
    <1>13. BackoffNeverDefers'
        BY <1>2, <1>3 DEF BackoffNeverDefers, Is
    <1>14. VerdictMatchesAttempts'
        BY <1>2, <1>3 DEF VerdictMatchesAttempts, Is
    <1> QED
        BY <1>6, <1>7, <1>8, <1>9, <1>10, <1>11, <1>12, <1>13, <1>14

\* recover_in_progress: every row in progress goes back, each counted.
LEMMA IInvStart ==
    ASSUME IInv, TypeOK', ProcessStarts
    PROVE  IInv'
    <1> USE DEF IInv
    <1>1. \A j \in Jobs : Is(j, "in_progress") =>
            /\ row'[j].status = "pending" /\ row'[j].backoff = row[j].backoff
            /\ row'[j].attempts = row[j].attempts /\ row'[j].key = row[j].key
            /\ relaunch'[j] = relaunch[j] + 1
        BY DEF ProcessStarts, Recovered, TypeOK, Row
    <1>2. \A j \in Jobs : ~Is(j, "in_progress") => row'[j] = row[j] /\ relaunch'[j] = relaunch[j]
        BY DEF ProcessStarts
    <1>3. held = None /\ held' = None /\ pc' = "idle" /\ up'
        BY DEF ProcessStarts, HeldShape
    <1>4. \A j \in Jobs : ~Is(j, "in_progress")'
        BY <1>1, <1>2 DEF Is
    <1>5. HeldShape'
        BY <1>3 DEF HeldShape
    <1>6. TakenIsCounted'
        BY <1>1, <1>2, <1>3 DEF TakenIsCounted, Is
    <1>7. InProgressNotDelayed' /\ InProgressIsHeld'
        BY <1>4 DEF InProgressNotDelayed, InProgressIsHeld
    <1>8. VerdictStillHolds'
        BY <1>3 DEF VerdictStillHolds
    <1>9. OneFreshPendingPerKey'
        <2>1. ASSUME NEW j \in Jobs, Is(j, "pending")', row'[j].attempts = 0
              PROVE  Is(j, "pending") /\ row[j].attempts = 0 /\ row'[j].key = row[j].key
            BY <1>1, <1>2, <2>1 DEF TakenIsCounted, Is, Status
        <2>2. QED BY <2>1 DEF OneFreshPendingPerKey
    <1>10. TriesAreAsked'
        <2> SUFFICES ASSUME NEW j \in Jobs
                     PROVE  row'[j].attempts + (IF Is(j, "pending")' THEN 1 ELSE 0) <= 1 + relaunch'[j]
            BY DEF TriesAreAsked
        <2>1. row[j].attempts \in Nat /\ relaunch[j] \in Nat
            BY DEF TypeOK, Row
        <2>2. row[j].attempts + (IF Is(j, "pending") THEN 1 ELSE 0) <= 1 + relaunch[j]
            BY DEF TriesAreAsked
        <2>3. CASE Is(j, "in_progress")
            BY <1>1, <2>1, <2>2, <2>3 DEF Is
        <2>4. CASE ~Is(j, "in_progress")
            BY <1>2, <2>2, <2>4 DEF Is
        <2>5. QED BY <2>3, <2>4
    <1>11. BackoffNeverDefers'
        BY <1>1, <1>2 DEF BackoffNeverDefers, InProgressNotDelayed, Is
    <1>12. VerdictMatchesAttempts'
        BY <1>1, <1>2 DEF VerdictMatchesAttempts, Is
    <1> QED
        BY <1>5, <1>6, <1>7, <1>8, <1>9, <1>10, <1>11, <1>12

\* A delay runs out: only a failed or finished row has one.
LEMMA IInvElapse ==
    ASSUME IInv, TypeOK', NEW n \in Jobs, BackoffElapses(n)
    PROVE  IInv'
    <1> USE DEF IInv
    <1>1. /\ row'[n].status = row[n].status /\ row'[n].attempts = row[n].attempts
          /\ row'[n].key = row[n].key /\ row'[n].budget = row[n].budget
          /\ ~Is(n, "pending") /\ ~Is(n, "in_progress")
        BY DEF BackoffElapses, Settled, TypeOK, Row, BackoffNeverDefers, InProgressNotDelayed, Is
    <1>2. \A j \in Jobs \ {n} : row'[j] = row[j]
        BY DEF BackoffElapses, TypeOK
    <1>3. UNCHANGED <<up, pc, held, relaunch>>
        BY DEF BackoffElapses
    <1>4. HeldShape' /\ TakenIsCounted'
        BY <1>1, <1>2, <1>3 DEF HeldShape, TakenIsCounted, TypeOK
    <1>5. InProgressNotDelayed' /\ InProgressIsHeld' /\ BackoffNeverDefers'
        BY <1>1, <1>2, <1>3 DEF InProgressNotDelayed, InProgressIsHeld, BackoffNeverDefers, Is, Working
    <1>6. VerdictStillHolds'
        BY <1>1, <1>2, <1>3 DEF VerdictStillHolds, HeldShape, TypeOK
    <1>7. OneFreshPendingPerKey' /\ VerdictMatchesAttempts'
        BY <1>1, <1>2 DEF OneFreshPendingPerKey, VerdictMatchesAttempts, Is
    <1>8. TriesAreAsked'
        BY <1>1, <1>2, <1>3 DEF TriesAreAsked, Is
    <1> QED
        BY <1>4, <1>5, <1>6, <1>7, <1>8

\* Steps of the thread or of the process that leave the table as it is.
LEMMA IInvThread ==
    ASSUME IInv, TypeOK', HeldShape', UNCHANGED <<row, relaunch>>,
           held' \in {held, None}, pc' \in {"none", "idle"} <=> held' = None,
           \/ pc' = "none"
           \/ /\ Working
              /\ pc' = "idle" => row[held].status \in Absent
              /\ pc' = "failing" => row[held].attempts < row[held].budget
              /\ pc' = "burying" => row[held].attempts >= row[held].budget
    PROVE  IInv'
    <1> USE DEF IInv
    <1>1. TakenIsCounted' /\ InProgressNotDelayed'
        BY DEF TakenIsCounted, InProgressNotDelayed, Is
    <1>2. VerdictStillHolds'
        BY DEF VerdictStillHolds, HeldShape
    <1>3. InProgressIsHeld'
        BY DEF InProgressIsHeld, Working, Is, Absent, TypeOK, HeldShape
    <1>4. OneFreshPendingPerKey' /\ TriesAreAsked' /\ BackoffNeverDefers' /\ VerdictMatchesAttempts'
        BY DEF OneFreshPendingPerKey, TriesAreAsked, BackoffNeverDefers, VerdictMatchesAttempts, Is
    <1> QED
        BY <1>1, <1>2, <1>3, <1>4

LEMMA IInvNext == IInv /\ [Next]_vars => IInv'
    <1> SUFFICES ASSUME IInv, [Next]_vars PROVE IInv'
        OBVIOUS
    <1>0. TypeOK' /\ TypeOK /\ HeldShape
        BY TypeNext DEF IInv
    <1>1. ASSUME NEW c \in Callers, EnqueueCall(c) \/ EnqueueAborts(c) PROVE IInv'
        BY <1>0, <1>1, IInvStutter DEF EnqueueCall, EnqueueAborts
    <1>2. ASSUME NEW c \in Callers, EnqueueCommit(c) PROVE IInv'
        BY <1>0, <1>2, IInvEnqueue
    <1>3. ASSUME NEW n \in Jobs, RetryJob(n) PROVE IInv'
        <2>1. /\ row' = [j \in Jobs |-> IF j \in {n} THEN ToPending(row[j]) ELSE row[j]]
              /\ relaunch' = [j \in Jobs |-> IF j \in {n} THEN relaunch[j] + 1 ELSE relaunch[j]]
              /\ row[n].status \in Status /\ UNCHANGED <<up, pc, held>>
            BY <1>0, <1>3 DEF RetryJob, TypeOK
        <2>2. {n} \in SUBSET Jobs /\ \A j \in {n} : row[j].status \in Status
            BY <2>1
        <2>3. QED BY <1>0, <2>1, <2>2, IInvRelaunch
    <1>4. CASE RetryAllFailed
        <2>1. Retriable \in SUBSET Jobs /\ \A j \in Retriable : row[j].status \in Status
            BY DEF Retriable, Status
        <2>2. /\ row' = [j \in Jobs |-> IF j \in Retriable THEN ToPending(row[j]) ELSE row[j]]
              /\ relaunch' = [j \in Jobs |-> IF j \in Retriable THEN relaunch[j] + 1 ELSE relaunch[j]]
              /\ UNCHANGED <<up, pc, held>>
            BY <1>4 DEF RetryAllFailed
        <2>3. QED BY <1>0, <2>1, <2>2, IInvRelaunch
    <1>5. ASSUME NEW n \in Jobs, Dequeue(n) PROVE IInv'
        BY <1>0, <1>5, IInvDequeue
    <1>6. CASE Complete
        <2>1. held \in Jobs /\ up /\ row[held].backoff \in Backoff
            BY <1>0, <1>6 DEF Complete, HeldShape, TypeOK, Row
        <2>2. Settle("completed", row[held].backoff)
            BY <1>6 DEF Complete
        <2>3. QED BY <1>0, <2>1, <2>2, IInvSettle
    <1>7. CASE HandlerRaises
        <2>1. HeldShape'
            BY <1>0, <1>7 DEF HandlerRaises, HeldShape
        <2>2. QED BY <1>0, <1>7, <2>1, IInvThread DEF HandlerRaises, HeldShape, Working
    <1>8. CASE FailReads
        <2>10. held \in Jobs
            BY <1>0, <1>8 DEF FailReads, HeldShape, TypeOK
        <2>11. row[held] \in Row
            BY <1>0, <2>10 DEF TypeOK
        <2>12. row[held].attempts \in Nat /\ row[held].budget \in Budgets \cup {0}
            BY <2>11 DEF Row
        <2>13. Budgets \cup {0} \subseteq Nat
            BY QueueAssumption
        <2>1. held \in Jobs /\ row[held].attempts \in Nat /\ row[held].budget \in Int
            BY <2>10, <2>12, <2>13
        <2>2. HeldShape'
            BY <1>0, <1>8, <2>1, QueueAssumption DEF FailReads, HeldShape
        <2>3. CASE row[held].status \in Absent
            BY <1>0, <1>8, <2>1, <2>2, <2>3, IInvThread DEF FailReads, HeldShape, Working
        <2>4. CASE row[held].status \notin Absent
            BY <1>0, <1>8, <2>1, <2>2, <2>4, IInvThread DEF FailReads, Exhausted, HeldShape, Working
        <2>5. QED BY <2>3, <2>4
    <1>9. CASE FailWrites
        <2>1. held \in Jobs /\ up
            BY <1>0, <1>9 DEF FailWrites, HeldShape, TypeOK
        <2>2. /\ Settle("failed", "running") /\ "running" \in Backoff
              /\ row[held].status \in Status => row[held].attempts < row[held].budget
            BY <1>9 DEF FailWrites, Backoff, IInv, VerdictStillHolds
        <2>3. QED BY <1>0, <2>1, <2>2, IInvSettle
    <1>10. CASE MarkDead
        <2>1. held \in Jobs /\ up /\ row[held].backoff \in Backoff
            BY <1>0, <1>10 DEF MarkDead, HeldShape, TypeOK, Row
        <2>2. /\ Settle("dead", row[held].backoff)
              /\ row[held].status \in Status => row[held].attempts >= row[held].budget
            BY <1>10 DEF MarkDead, IInv, VerdictStillHolds
        <2>3. QED BY <1>0, <2>1, <2>2, IInvSettle
    <1>11. CASE ThreadDies \/ ProcessEnds
        <2>1. /\ pc' = "none" /\ held' = None /\ HeldShape'
              /\ UNCHANGED <<row, relaunch>>
            BY <1>0, <1>11 DEF ThreadDies, ProcessEnds, HeldShape
        <2>2. QED BY <1>0, <2>1, IInvThread
    <1>12. CASE ProcessStarts
        BY <1>0, <1>12, IInvStart
    <1>13. CASE ClockTicks
        BY <1>0, <1>13, IInvStutter DEF ClockTicks
    <1>14. ASSUME NEW n \in Jobs, BackoffElapses(n) PROVE IInv'
        BY <1>0, <1>14, IInvElapse
    <1>15. CASE UNCHANGED vars
        BY <1>0, <1>15, IInvStutter DEF vars
    <1> QED
        BY <1>1, <1>2, <1>3, <1>4, <1>5, <1>6, <1>7, <1>8, <1>9, <1>10, <1>11,
           <1>12, <1>13, <1>14, <1>15 DEF Next, WorkerStep

LEMMA Inductive == Spec => []IInv
    <1>1. Init => IInv
        BY QueueAssumption, IInvInit
    <1>2. IInv /\ [Next]_vars => IInv'
        BY QueueAssumption, IInvNext
    <1>3. QED
        BY <1>1, <1>2, PTL DEF Spec

-----------------------------------------------------------------------------
(* The theorems. *)

\* Every variable of the queue stays in its domain.
THEOREM TypeCorrect == Spec => []TypeOK
    BY Inductive, PTL DEF IInv

\* A live worker holds the only row in progress, so that recovery after a
\* crash never takes a job from under a worker.
THEOREM SingleServer == Spec => []InProgressIsHeld
    BY Inductive, PTL DEF IInv

\* enqueue leaves at most one untried pending row per (path, action).
THEOREM Coalescing == Spec => []OneFreshPendingPerKey
    BY Inductive, PTL DEF IInv

\* No job is tried more often than operators and restarts asked for: no
\* execution of the code reaches a retry, although queue.py announces them.
THEOREM NoAutomaticRetry == Spec => []TriesAreAsked
    BY Inductive, PTL DEF IInv

\* The next_retry_at clause of dequeue never holds back a pending row.
THEOREM BackoffIsIdle == Spec => []BackoffNeverDefers
    BY Inductive, PTL DEF IInv

\* The two-transaction verdict of fail() agrees with the attempts counted.
THEOREM VerdictSound == Spec => []VerdictMatchesAttempts
    BY Inductive, PTL DEF IInv

\* A settled row is the held one: settling drops no other request.
LEMMA SettleKeepsOthers ==
    ASSUME TypeOK, held \in Jobs, NEW s, NEW b, Settle(s, b), NEW j \in Jobs, j # held
    PROVE  row'[j] = row[j]
    BY DEF Settle, TypeOK

LEMMA StepKeepsRequests ==
    ASSUME IInv, Next, NEW j \in Jobs, Is(j, "pending"), j # held
    PROVE  \/ row'[j].status \in {"pending", "in_progress"}
           \/ /\ row'[j].status = "deleted"
              /\ \E i \in Jobs : /\ Is(i, "unused")
                                 /\ row'[i].status = "pending"
                                 /\ row'[i].key = row[j].key
    <1> DEFINE Kept == row'[j].status \in {"pending", "in_progress"}
    <1> USE DEF Is
    <1>0. TypeOK /\ HeldShape
        BY DEF IInv
    <1>1. ASSUME NEW c \in Callers, EnqueueCommit(c)
          PROVE  \/ Kept
                 \/ /\ row'[j].status = "deleted"
                    /\ \E i \in Jobs : /\ Is(i, "unused")
                                       /\ row'[i].status = "pending"
                                       /\ row'[i].key = row[j].key
        BY <1>0, <1>1 DEF EnqueueCommit, Superseded, Fresh, Blank
    <1>2. ASSUME NEW n \in Jobs, RetryJob(n) \/ Dequeue(n) \/ BackoffElapses(n) PROVE Kept
        <2>1. row \in [Jobs -> Row] /\ row[n] \in Row
            BY <1>0 DEF TypeOK
        <2>2. CASE j # n
            BY <1>2, <2>1, <2>2 DEF RetryJob, Dequeue, BackoffElapses
        <2>3. CASE j = n /\ RetryJob(n)
            BY <2>1, <2>3 DEF RetryJob, ToPending, Row
        <2>4. CASE j = n /\ Dequeue(n)
            BY <2>1, <2>4 DEF Dequeue, Taken, Row
        <2>5. CASE j = n /\ BackoffElapses(n)
            BY <2>1, <2>5 DEF BackoffElapses, Settled, Row
        <2>6. QED BY <1>2, <2>2, <2>3, <2>4, <2>5
    <1>3. CASE RetryAllFailed \/ ProcessStarts
        BY <1>3 DEF RetryAllFailed, Retriable, ProcessStarts
    <1>4. CASE Complete \/ FailWrites \/ MarkDead
        <2>1. held \in Jobs
            BY <1>0, <1>4 DEF Complete, FailWrites, MarkDead, HeldShape, TypeOK
        <2>2. row'[j] = row[j]
            BY <1>0, <1>4, <2>1, SettleKeepsOthers DEF Complete, FailWrites, MarkDead
        <2>3. QED BY <2>2
    <1>5. CASE UNCHANGED row
        BY <1>5
    <1>6. CASE \E c \in Callers : EnqueueCall(c) \/ EnqueueAborts(c)
        BY <1>5, <1>6 DEF EnqueueCall, EnqueueAborts
    <1>7. CASE HandlerRaises \/ FailReads \/ ThreadDies \/ ProcessEnds \/ ClockTicks
        BY <1>5, <1>7 DEF HandlerRaises, FailReads, ThreadDies, ProcessEnds, ClockTicks
    <1> QED
        BY <1>1, <1>2, <1>3, <1>4, <1>6, <1>7 DEF Next, WorkerStep

\* Between enqueue and dequeue no request is dropped: a pending row is taken
\* or makes room for a newer one of its key.
THEOREM RequestsAreKept == Spec => NoRequestDropped
    <1>1. IInv /\ [Next]_vars =>
            [\A j \in Jobs :
               Is(j, "pending") /\ j # held =>
                  \/ row'[j].status \in {"pending", "in_progress"}
                  \/ /\ row'[j].status = "deleted"
                     /\ \E i \in Jobs : /\ Is(i, "unused")
                                        /\ row'[i].status = "pending"
                                        /\ row'[i].key = row[j].key]_vars
        BY QueueAssumption, StepKeepsRequests
    <1>2. QED
        BY <1>1, Inductive, PTL DEF Spec, NoRequestDropped

-----------------------------------------------------------------------------
(* JobQueue implements RequestLedger. *)

\* What is asked, or stored, is about a file.
KeysAreKnown ==
    /\ \A c \in Callers : call[c] = Idle \/ call[c].key \in Keys
    /\ \A j \in Jobs : row[j].status \in Status => row[j].key \in Keys

\* No write changes the key of a row.
LEMMA RowKeys ==
    ASSUME NEW r \in Row
    PROVE  /\ ToPending(r).key = r.key /\ ToPending(r).status = "pending"
           /\ Recovered(r).key = r.key /\ Recovered(r).status = "pending"
           /\ Taken(r).key = r.key /\ Taken(r).status = "in_progress"
           /\ \A s, b : Settled(r, s, b).key = r.key /\ Settled(r, s, b).status = s
    BY DEF Row, ToPending, Recovered, Taken, Settled

LEMMA KeysAreKnownNext ==
    ASSUME TypeOK, HeldShape, KeysAreKnown, [Next]_vars
    PROVE  KeysAreKnown'
    <1> USE DEF KeysAreKnown, Status, Is
    <1>1. ASSUME NEW c \in Callers, EnqueueCall(c) \/ EnqueueAborts(c) PROVE KeysAreKnown'
        BY <1>1 DEF EnqueueCall, EnqueueAborts, TypeOK
    <1>2. ASSUME NEW c \in Callers, EnqueueCommit(c) PROVE KeysAreKnown'
        <2>1. call[c].key \in Keys /\ call' = [call EXCEPT ![c] = Idle]
            BY <1>2 DEF EnqueueCommit
        <2>2. \A j \in Jobs : row'[j].status \in Status => row'[j].key \in Keys
            BY <1>2, <2>1 DEF EnqueueCommit, Fresh, Blank
        <2>3. QED BY <2>1, <2>2 DEF TypeOK
    <1>3. ASSUME NEW n \in Jobs, RetryJob(n) \/ Dequeue(n) \/ BackoffElapses(n) PROVE KeysAreKnown'
        <2>0. row[n] \in Row /\ row \in [Jobs -> Row]
            BY DEF TypeOK
        <2>1. /\ UNCHANGED call
              /\ row[n].status \in Status => row'[n].key = row[n].key
              /\ row'[n].status \in Status => row[n].status \in Status
            <3>1. CASE RetryJob(n)
                BY <2>0, <3>1, RowKeys DEF RetryJob
            <3>2. CASE Dequeue(n)
                BY <2>0, <3>2, RowKeys DEF Dequeue, IsNextJob, Due
            <3>3. CASE BackoffElapses(n)
                BY <2>0, <3>3, RowKeys DEF BackoffElapses
            <3>4. QED BY <1>3, <3>1, <3>2, <3>3
        <2>2. \A j \in Jobs \ {n} : row'[j] = row[j]
            BY <1>3 DEF RetryJob, Dequeue, BackoffElapses, TypeOK
        <2>3. QED BY <2>1, <2>2
    <1>4. CASE RetryAllFailed \/ ProcessStarts
        <2>1. \A j \in Jobs : \/ row'[j] = row[j]
                              \/ row'[j].key = row[j].key /\ row[j].status \in Status
            <3>1. row \in [Jobs -> Row]
                BY DEF TypeOK
            <3>2. CASE RetryAllFailed
                BY <3>1, <3>2, RowKeys DEF RetryAllFailed, Retriable
            <3>3. CASE ProcessStarts
                BY <3>1, <3>3, RowKeys DEF ProcessStarts
            <3>4. QED BY <1>4, <3>2, <3>3
        <2>2. UNCHANGED call
            BY <1>4 DEF RetryAllFailed, ProcessStarts
        <2>3. QED BY <2>1, <2>2
    <1>5. CASE Complete \/ FailWrites \/ MarkDead
        <2>1. PICK s, b : Settle(s, b)
            BY <1>5 DEF Complete, FailWrites, MarkDead
        <2>2. held \in Jobs
            BY <1>5 DEF Complete, FailWrites, MarkDead, HeldShape, TypeOK
        <2>3. \A j \in Jobs : \/ row'[j] = row[j]
                              \/ row'[j].key = row[j].key /\ row[j].status \in Status
            BY <2>1, <2>2 DEF Settle, Settled, TypeOK, Row
        <2>4. QED BY <2>1, <2>3 DEF Settle
    <1>6. CASE ProcessEnds
        BY <1>6 DEF ProcessEnds
    <1>7. CASE HandlerRaises \/ FailReads \/ ThreadDies \/ ClockTicks \/ UNCHANGED vars
        BY <1>7 DEF HandlerRaises, FailReads, ThreadDies, ClockTicks, vars
    <1> QED
        BY <1>1, <1>2, <1>3, <1>4, <1>5, <1>6, <1>7 DEF Next, WorkerStep

\* The key of the row in progress, when there is one.
LEMMA OneHandled ==
    ASSUME IInv, NEW n \in Jobs, Is(n, "in_progress")
    PROVE  Handled = {row[n].key}
    BY DEF IInv, InProgressIsHeld, Handled

\* A relaunch of rows that are not in progress asks for their keys, those of the
\* row in hand apart.
LEMMA RelaunchAsks ==
    ASSUME IInv, KeysAreKnown, NEW S \in SUBSET Jobs,
           \A j \in S : row[j].status \in Status /\ ~Is(j, "in_progress"),
           row' = [j \in Jobs |-> IF j \in S THEN ToPending(row[j]) ELSE row[j]],
           UNCHANGED held
    PROVE  \E K \in SUBSET Keys : Ledger!Ask(K)
    <1> DEFINE K == {row[j].key : j \in S \ {held}}
    <1>0. row \in [Jobs -> Row]
        BY DEF IInv, TypeOK
    <1>1. \A j \in S : row'[j].status = "pending" /\ row'[j].key = row[j].key
        BY <1>0, RowKeys
    <1>2. \A j \in Jobs \ S : row'[j] = row[j]
        OBVIOUS
    <1>3. Handled' = Handled
        BY <1>1, <1>2 DEF Handled, Is
    <1>4. Waiting' = Waiting \cup K
        <2>1. \A j \in Jobs : row'[j].key = row[j].key
            BY <1>1, <1>2
        <2>2. \A j \in Jobs : row'[j].status = "pending" <=> j \in S \/ row[j].status = "pending"
            BY <1>1, <1>2
        <2>3. held' = held
            OBVIOUS
        <2>4. Waiting' = {row[j].key : j \in {i \in Jobs : (i \in S \/ row[i].status = "pending") /\ i # held}}
            BY <2>1, <2>2, <2>3 DEF Waiting, Is
        <2>5. QED BY <2>4 DEF Waiting, Is
    <1>5. K \in SUBSET Keys
        BY DEF KeysAreKnown
    <1>6. QED BY <1>3, <1>4, <1>5 DEF Ledger!Ask

LEMMA RetryMaps ==
    ASSUME IInv, KeysAreKnown, NEW n \in Jobs, RetryJob(n)
    PROVE  Ledger!Next
    <1>1. /\ row[n].status \in Status
          /\ row' = [j \in Jobs |-> IF j \in {n} THEN ToPending(row[j]) ELSE row[j]]
          /\ UNCHANGED held
        BY DEF RetryJob, IInv, TypeOK
    <1>2. row'[n].status = "pending" /\ row'[n].key = row[n].key
        BY <1>1, RowKeys DEF IInv, TypeOK
    <1>3. \A j \in Jobs \ {n} : row'[j] = row[j]
        BY <1>1
    <1>4. CASE ~Is(n, "in_progress")
        <2>1. {n} \in SUBSET Jobs /\ \A j \in {n} : row[j].status \in Status /\ ~Is(j, "in_progress")
            BY <1>1, <1>4
        <2>2. \E K \in SUBSET Keys : Ledger!Ask(K)
            BY <1>1, <2>1, RelaunchAsks
        <2>3. QED BY <2>2 DEF Ledger!Next
    <1>5. CASE Is(n, "in_progress")
        <2>1. Handled = {row[n].key} /\ Handled' = {}
            BY <1>2, <1>3, <1>5, OneHandled DEF Handled, IInv, InProgressIsHeld, Is
        <2>2. CASE n = held
            <3>1. Waiting' = Waiting
                BY <1>1, <1>3, <2>2 DEF Waiting, Is
            <3>2. QED BY <2>1, <3>1 DEF Ledger!Next, Ledger!Settle
        <2>3. CASE n # held
            <3>1. Waiting' = Waiting \cup {row[n].key}
                BY <1>1, <1>2, <1>3, <1>5, <2>3 DEF Waiting, Is
            <3>2. QED BY <2>1, <3>1 DEF Ledger!Next, Ledger!PutBack
        <2>4. QED BY <2>2, <2>3
    <1>6. QED BY <1>4, <1>5

LEMMA EnqueueMaps ==
    ASSUME IInv, KeysAreKnown, NEW c \in Callers, EnqueueCommit(c)
    PROVE  \E K \in SUBSET Keys : Ledger!Ask(K)
    <1> DEFINE k == call[c].key
    <1>1. PICK n \in Jobs :
            /\ Is(n, "unused")
            /\ row' = [i \in Jobs |-> IF i = n THEN Fresh(call[c])
                                      ELSE IF i \in Superseded(k) THEN Blank("deleted")
                                      ELSE row[i]]
        BY DEF EnqueueCommit
    <1>2. k \in Keys /\ held' = held
        BY DEF EnqueueCommit, KeysAreKnown
    <1>3. n # held
        BY <1>1, QueueAssumption DEF IInv, TakenIsCounted, Is, Status
    <1>4. row'[n].status = "pending" /\ row'[n].key = k
        BY <1>1 DEF Fresh
    <1>5. \A j \in Jobs \ {n} : \/ row'[j] = row[j] /\ j \notin Superseded(k)
                                \/ /\ Is(j, "pending") /\ row[j].key = k
                                   /\ row'[j].status = "deleted"
        BY <1>1 DEF Superseded, Blank
    <1>6. Handled' = Handled
        BY <1>1, <1>4, <1>5 DEF Handled, Is
    <1>7. Waiting' = Waiting \cup {k}
        <2>1. Waiting' \subseteq Waiting \cup {k}
            BY <1>2, <1>4, <1>5 DEF Waiting, Is
        <2>2. k \in Waiting'
            BY <1>2, <1>3, <1>4 DEF Waiting, Is
        <2>3. ASSUME NEW j \in Jobs, Is(j, "pending"), j # held, row[j].key # k
              PROVE  row[j].key \in Waiting'
            BY <1>1, <1>2, <1>5, <2>3 DEF Waiting, Is
        <2>4. QED BY <2>1, <2>2, <2>3 DEF Waiting
    <1>8. {k} \in SUBSET Keys
        BY <1>2
    <1>9. QED BY <1>6, <1>7, <1>8 DEF Ledger!Ask

LEMMA DequeueMaps ==
    ASSUME IInv, KeysAreKnown, NEW n \in Jobs, Dequeue(n)
    PROVE  \E k \in Keys : Ledger!Serve(k)
    <1> DEFINE k == row[n].key
    <1>1. /\ Is(n, "pending") /\ pc = "idle" /\ held = None /\ held' = n
          /\ row' = [row EXCEPT ![n] = Taken(row[n])]
        BY DEF Dequeue, IsNextJob, Due, IInv, HeldShape
    <1>2. row'[n].status = "in_progress" /\ row'[n].key = k
        BY <1>1 DEF Taken, IInv, TypeOK, Row
    <1>3. \A j \in Jobs \ {n} : row'[j] = row[j]
        BY <1>1 DEF IInv, TypeOK
    <1>4. \A j \in Jobs : ~Is(j, "in_progress")
        BY <1>1, QueueAssumption DEF IInv, InProgressIsHeld, Working
    <1>5. Handled = {}
        BY <1>4 DEF Handled
    <1>6. Handled' = {k}
        BY <1>2, <1>3, <1>4 DEF Handled, Is
    <1>7. k \in Keys /\ k \in Waiting
        BY <1>1, QueueAssumption DEF KeysAreKnown, Waiting, Is, Status
    <1>8. Waiting' = {row[j].key : j \in {i \in Jobs : Is(i, "pending") /\ i # n}}
        BY <1>1, <1>2, <1>3 DEF Waiting, Is
    <1>9. Waiting = {row[j].key : j \in {i \in Jobs : Is(i, "pending")}}
        BY <1>1, QueueAssumption DEF Waiting
    <1>10. Waiting' \subseteq Waiting /\ Waiting \ {k} \subseteq Waiting'
        BY <1>8, <1>9
    <1>11. Waiting' \in {Waiting, Waiting \ {k}}
        <2>1. CASE k \in Waiting'
            BY <1>10, <2>1
        <2>2. CASE k \notin Waiting'
            BY <1>10, <2>2
        <2>3. QED BY <2>1, <2>2
    <1>12. QED BY <1>5, <1>6, <1>7, <1>11 DEF Ledger!Serve

LEMMA SettleMaps ==
    ASSUME IInv, held \in Jobs, Working, NEW s \in {"completed", "failed", "dead"}, NEW b,
           Settle(s, b)
    PROVE  Ledger!Settle
    <1>1. /\ row[held].status \in Status => row'[held].status = s
          /\ row[held].status \notin Status => row'[held] = row[held]
          /\ held' = None
        BY DEF Settle, Settled, IInv, TypeOK, Row
    <1>2. \A j \in Jobs \ {held} : row'[j] = row[j]
        BY DEF Settle, IInv, TypeOK
    <1>3. \A j \in Jobs \ {held} : ~Is(j, "in_progress")
        BY DEF IInv, InProgressIsHeld
    <1>4. row'[held].status # "pending" /\ row'[held].status # "in_progress"
        <2>1. CASE row[held].status \in Status
            BY <1>1, <2>1
        <2>2. CASE row[held].status \notin Status
            BY <1>1, <2>2 DEF Status
        <2>3. QED BY <2>1, <2>2
    <1>5. Handled' = {}
        BY <1>2, <1>3, <1>4 DEF Handled, Is
    <1>6. Waiting' = Waiting
        BY <1>1, <1>2, <1>4, QueueAssumption DEF Waiting, Is
    <1>7. QED BY <1>5, <1>6 DEF Ledger!Settle

LEMMA StartMaps ==
    ASSUME IInv, ProcessStarts
    PROVE  Ledger!PutBack
    <1>1. held = None /\ held' = None
        BY DEF ProcessStarts, IInv, HeldShape
    <1>2. \A j \in Jobs : Is(j, "in_progress") => row'[j].status = "pending" /\ row'[j].key = row[j].key
        BY DEF ProcessStarts, Recovered, IInv, TypeOK, Row
    <1>3. \A j \in Jobs : ~Is(j, "in_progress") => row'[j] = row[j]
        BY DEF ProcessStarts
    <1>4. Handled' = {}
        BY <1>2, <1>3 DEF Handled, Is
    <1>5. Waiting' = Waiting \cup Handled
        BY <1>1, <1>2, <1>3, QueueAssumption DEF Waiting, Handled, Is
    <1>6. QED BY <1>4, <1>5 DEF Ledger!PutBack

\* The thread lets go of its row: the row may turn out to be pending.
LEMMA LettingGoMaps ==
    ASSUME IInv, KeysAreKnown, UNCHANGED row, held' \in {held, None}
    PROVE  \E K \in SUBSET Keys : Ledger!Ask(K)
    <1> DEFINE K == Waiting' \ Waiting
    <1>1. Handled' = Handled
        BY DEF Handled, Is
    <1>2. Waiting \subseteq Waiting'
        BY QueueAssumption DEF Waiting, Is
    <1>3. Waiting' \in SUBSET Keys
        BY DEF Waiting, Is, KeysAreKnown, Status
    <1>4. Waiting' = Waiting \cup K /\ K \in SUBSET Keys
        BY <1>2, <1>3
    <1>5. QED BY <1>1, <1>4 DEF Ledger!Ask

LEMMA StepMaps ==
    ASSUME IInv, KeysAreKnown, [Next]_vars
    PROVE  [Ledger!Next]_<<Waiting, Handled>>
    <1> USE DEF Ledger!Next
    <1>0. TypeOK /\ HeldShape
        BY DEF IInv
    <1>1. ASSUME NEW c \in Callers, EnqueueCommit(c) PROVE Ledger!Next
        BY <1>1, EnqueueMaps
    <1>2. ASSUME NEW n \in Jobs, RetryJob(n) PROVE Ledger!Next
        BY <1>2, RetryMaps
    <1>3. CASE RetryAllFailed
        <2>1. /\ Retriable \in SUBSET Jobs
              /\ \A j \in Retriable : row[j].status \in Status /\ ~Is(j, "in_progress")
            BY DEF Retriable, Status, Is
        <2>2. /\ row' = [j \in Jobs |-> IF j \in Retriable THEN ToPending(row[j]) ELSE row[j]]
              /\ UNCHANGED held
            BY <1>3 DEF RetryAllFailed
        <2>3. \E K \in SUBSET Keys : Ledger!Ask(K)
            BY <2>1, <2>2, RelaunchAsks
        <2>4. QED BY <2>3
    <1>4. ASSUME NEW n \in Jobs, Dequeue(n) PROVE Ledger!Next
        BY <1>4, DequeueMaps
    <1>5. CASE Complete \/ FailWrites \/ MarkDead
        <2>1. held \in Jobs /\ Working
            BY <1>0, <1>5 DEF Complete, FailWrites, MarkDead, HeldShape, TypeOK, Working
        <2>2. Ledger!Settle
            BY <1>5, <2>1, SettleMaps DEF Complete, FailWrites, MarkDead
        <2>3. QED BY <2>2
    <1>6. CASE ProcessStarts
        BY <1>6, StartMaps
    <1>7. CASE FailReads \/ ThreadDies \/ ProcessEnds
        BY <1>7, LettingGoMaps DEF FailReads, ThreadDies, ProcessEnds
    <1>8. CASE UNCHANGED <<row, held>>
        BY <1>8 DEF Waiting, Handled, Is
    <1>9. ASSUME NEW n \in Jobs, BackoffElapses(n) PROVE UNCHANGED <<Waiting, Handled>>
        <2>1. \A j \in Jobs : row'[j].status = row[j].status /\ row'[j].key = row[j].key
            BY <1>0, <1>9 DEF BackoffElapses, Settled, TypeOK, Row
        <2>2. held' = held
            BY <1>9 DEF BackoffElapses
        <2>3. QED BY <2>1, <2>2 DEF Waiting, Handled, Is
    <1>10. CASE \E c \in Callers : EnqueueCall(c) \/ EnqueueAborts(c)
        BY <1>8, <1>10 DEF EnqueueCall, EnqueueAborts
    <1>11. CASE HandlerRaises \/ ClockTicks \/ UNCHANGED vars
        BY <1>8, <1>11 DEF HandlerRaises, ClockTicks, vars
    <1> QED
        BY <1>1, <1>2, <1>3, <1>4, <1>5, <1>6, <1>7, <1>9, <1>10, <1>11 DEF Next, WorkerStep

\* JobQueue implements RequestLedger, for any number of jobs, keys and callers:
\* what is asked of a file stays asked until the worker has it in hand.
THEOREM QueueKeepsLedger == Spec => KeepsLedger
    <1>1. Init => Ledger!Init
        BY DEF Init, Ledger!Init, Waiting, Handled, Is, Blank
    <1>2. Init => KeysAreKnown
        BY DEF Init, KeysAreKnown, Blank, Status
    <1>3. IInv /\ KeysAreKnown /\ [Next]_vars => KeysAreKnown'
        BY KeysAreKnownNext DEF IInv
    <1>4. IInv /\ KeysAreKnown /\ [Next]_vars => [Ledger!Next]_<<Waiting, Handled>>
        BY StepMaps
    <1>5. QED
        BY <1>1, <1>2, <1>3, <1>4, Inductive, PTL DEF Spec, KeepsLedger, Ledger!Spec

=============================================================================

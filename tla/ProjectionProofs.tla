--------------------------- MODULE ProjectionProofs ---------------------------
(***************************************************************************)
(* Proofs about the projection of a run into the debugger's tables.        *)
(***************************************************************************)
EXTENDS ProjectionProperties, SequenceTheorems, TLAPS

(***************************************************************************)
(* The inductive invariants.                                               *)
(***************************************************************************)

\* The trace knows the newest row, whoever appended it; a projector's target is behind.
Placed ==
    /\ trace.latest = Len(history)
    /\ \A p \in Projectors :
         projector[p].row <= Len(history) /\ projector[p].from <= trace.projected

Base == TypeOK /\ Placed /\ StateTellsTheTruth

\* How a run ends.  The tasks of a run that did not fail are over; a task whose outcome
\* is about to be stored is open; the history's end is the run's.
Settled ==
    /\ outcome # NoRead => run.tasks[outcome.activity] = "open"
    /\ run.status \in Ends \ {"failed"} => OpenTasks = {}
    /\ \A i \in DOMAIN history : history[i][1] = "ended" => history[i][2] = run.status
    /\ HasEnded => \E i \in DOMAIN history : history[i][1] = "ended"
    /\ trace.state \in Reduced \/ deleted > 0 => HasEnded

OutcomesOf(a) == {<<"completed", a>>, <<"failed", a>>}

\* An activity's outcome is recorded once, after the row that schedules it.
JournalShape ==
    \A a \in Activities :
        /\ \A i, j \in DOMAIN history :
             i < j /\ history[i] \in OutcomesOf(a)
             => history[j] \notin OutcomesOf(a) /\ history[j] # <<"scheduled", a>>
        /\ ~HasEnded /\ run.tasks[a] \in {"none", "open"} =>
             \A i \in DOMAIN history : history[i] \notin OutcomesOf(a)

Life == Settled /\ EndIsShown /\ JournalShape

EndIsLast == \A i \in DOMAIN history : history[i][1] = "ended" => i = Len(history)

\* A projector's target is the row after the checkpoint, and rows are deleted together.
DetailFits ==
    EndIsLast =>
        /\ deleted > 0 => trace.state = "journal_expired"
        /\ trace.state # "journal_expired" => trace.since <= trace.projected
        /\ \A p \in Projectors : projector[p] # NoTarget => projector[p].row = trace.projected + 1

Detail == DetailFits /\ DetailFollowsHistory

(***************************************************************************)
(* The fields of the rows.                                                 *)
(***************************************************************************)

LEMMA TraceTypes ==
  ASSUME NEW t \in Trace
  PROVE  /\ t.state \in {"up_to_date", "catching_up"} \cup Reduced
         /\ t.latest \in Nat /\ t.projected \in Nat /\ t.since \in Nat
         /\ t.runStatus \in Statuses /\ t.status \in {"running"} \cup Ends
         /\ t.events \in SUBSET Nat /\ t.spans \in [Activities -> Span]
BY DEF Trace

LEMMA FieldTypes ==
  ASSUME Base
  PROVE  /\ history \in Seq(Rows) /\ Len(history) \in Nat /\ DOMAIN history = 1..Len(history)
         /\ \A i \in DOMAIN history : history[i] \in Rows
         /\ deleted \in Nat /\ deleted <= Len(history)
         /\ run.status \in Statuses /\ run.tasks \in [Activities -> Tasks]
         /\ trace \in Trace /\ trace.projected \in Nat /\ trace.projected <= Len(history)
         /\ trace.latest = Len(history)
         /\ projector \in [Projectors -> Targets]
         /\ \A p \in Projectors : /\ projector[p] \in Targets
                                  /\ projector[p].row \in 0..Len(history)
                                  /\ projector[p].from \in 0..trace.projected
         /\ MaxId \in {0, Len(history)}
         /\ MaxId = 0 <=> deleted = Len(history)
BY LenProperties DEF Base, TypeOK, Placed, Trace, Targets, MaxId

\* The same trace, but for its statuses, its state and the id of its newest row.
SameDetail(u, t) ==
    /\ u \in Trace /\ u.projected = t.projected /\ u.since = t.since
    /\ u.events = t.events /\ u.spans = t.spans

\* What writing some fields of a trace leaves.
LEMMA WriteSummary ==
  ASSUME NEW t \in Trace, NEW status \in Statuses, NEW u, u = SyncSummary(t, status)
  PROVE  /\ SameDetail(u, t) /\ u.latest = t.latest /\ u.state = t.state
         /\ u.runStatus = status /\ u.status = t.status
BY DEF Trace, SameDetail, SyncSummary

LEMMA WriteEnd ==
  ASSUME NEW t \in Trace, NEW end \in Ends, NEW u, u = [t EXCEPT !.status = end]
  PROVE  /\ SameDetail(u, t) /\ u.latest = t.latest /\ u.state = t.state
         /\ u.runStatus = t.runStatus /\ u.status = end
BY DEF Trace, SameDetail

(***************************************************************************)
(* Appending to the history.                                               *)
(***************************************************************************)

Appended(rows) ==
    /\ history' = history \o rows /\ UNCHANGED <<deleted, projector>>
    /\ SameDetail(trace', trace) /\ trace'.latest = Len(history')
    /\ trace'.state = IF rows = <<>> THEN trace.state ELSE "catching_up"

LEMMA Joined ==
  ASSUME Base, NEW rows \in Seq(Rows), history' = history \o rows
  PROVE  /\ history' \in Seq(Rows) /\ Len(rows) \in Nat /\ Len(history') = Len(history) + Len(rows)
         /\ DOMAIN history' = 1..(Len(history) + Len(rows)) /\ DOMAIN rows = 1..Len(rows)
         /\ \A i \in DOMAIN history : i \in DOMAIN history' /\ history'[i] = history[i]
         /\ \A i \in DOMAIN history' \ DOMAIN history :
              i - Len(history) \in DOMAIN rows /\ history'[i] = rows[i - Len(history)]
         /\ \A i \in DOMAIN rows : Len(history) + i \in DOMAIN history'
                                   /\ history'[Len(history) + i] = rows[i]
<1>1. history \in Seq(Rows) /\ Len(history) \in Nat /\ DOMAIN history = 1..Len(history)
  BY FieldTypes
<1>2. Len(rows) \in Nat /\ DOMAIN rows = 1..Len(rows)
  BY LenProperties
<1>3. /\ history' \in Seq(Rows) /\ Len(history') = Len(history) + Len(rows)
      /\ \A i \in 1..(Len(history) + Len(rows)) :
           history'[i] = IF i <= Len(history) THEN history[i] ELSE rows[i - Len(history)]
  BY <1>1, ConcatProperties
<1>4. DOMAIN history' = 1..(Len(history) + Len(rows))
  BY <1>3, LenProperties
<1>5. QED
  BY <1>1, <1>2, <1>3, <1>4

\* A trace that is told of a new row.
LEMMA TellsOfRows ==
  ASSUME Base, NEW t \in Trace, t.projected = trace.projected,
         NEW rows \in Seq(Rows), rows # <<>>, history' = history \o rows,
         NEW u, u = UpdateLatest(t, Len(history'))
  PROVE  /\ SameDetail(u, t) /\ u.latest = Len(history') /\ u.state = "catching_up"
         /\ u.runStatus = t.runStatus /\ u.status = t.status
<1> DEFINE id == Len(history')
           state == IF t.projected >= id THEN "up_to_date" ELSE "catching_up"
<1>1. /\ Len(history') = Len(history) + Len(rows) /\ Len(rows) \in Nat /\ Len(history) \in Nat
      /\ trace.projected <= Len(history) /\ trace.projected \in Nat
  BY Joined, FieldTypes
<1>2. Len(rows) # 0
  BY EmptySeq
<1>3. /\ id \in Nat /\ state = "catching_up"
      /\ state \in {"up_to_date", "catching_up"} \cup Reduced
  BY <1>1, <1>2
<1>4. u = [t EXCEPT !.latest = id, !.state = state]
  BY DEF UpdateLatest
<1> HIDE DEF id, state
<1>5. SameDetail(u, t) /\ u.latest = id /\ u.state = state
      /\ u.runStatus = t.runStatus /\ u.status = t.status
  BY <1>3, <1>4 DEF Trace, SameDetail
<1>6. QED
  BY <1>3, <1>5 DEF id

Commits(rows, status, tasks) ==
    /\ Appended(rows) /\ UNCHANGED outcome
    /\ run' = [status |-> status, tasks |-> tasks]
    /\ trace'.runStatus = status
    /\ trace'.status = IF status \in Ends THEN status ELSE trace.status

LEMMA CommitEffect ==
  ASSUME Base, NEW rows \in Seq(Rows), NEW status \in Statuses, NEW tasks,
         Commit(rows, status, tasks)
  PROVE  Commits(rows, status, tasks)
<1> DEFINE t == SyncSummary(trace, status)
           u == IF rows = <<>> THEN t ELSE UpdateLatest(t, Len(history'))
<1>1. /\ SameDetail(t, trace) /\ t.latest = trace.latest /\ t.state = trace.state
      /\ t.runStatus = status /\ t.status = trace.status /\ t \in Trace
  <2>1. t = SyncSummary(trace, status) /\ trace \in Trace
    BY FieldTypes
  <2> HIDE DEF t
  <2>2. QED
    BY <2>1, WriteSummary DEF SameDetail
<1>2. history' = history \o rows /\ UNCHANGED <<deleted, projector, outcome>>
      /\ run' = [status |-> status, tasks |-> tasks]
      /\ trace' = IF status \in Ends THEN [u EXCEPT !.status = status] ELSE u
  BY DEF Commit
<1> HIDE DEF t
<1>3. /\ SameDetail(u, trace) /\ u.latest = Len(history') /\ u \in Trace
      /\ u.state = IF rows = <<>> THEN trace.state ELSE "catching_up"
      /\ u.runStatus = status /\ u.status = trace.status
  <2>1. CASE rows = <<>>
    <3>1. history' = history
      BY <1>2, <2>1, FieldTypes, ConcatEmptySeq
    <3>2. trace.latest = Len(history)
      BY FieldTypes
    <3>3. QED
      BY <1>1, <2>1, <3>1, <3>2
  <2>2. CASE rows # <<>>
    <3> DEFINE v == UpdateLatest(t, Len(history'))
    <3>1. t.projected = trace.projected
      BY <1>1 DEF SameDetail
    <3>2. /\ SameDetail(v, t) /\ v.latest = Len(history') /\ v.state = "catching_up"
          /\ v.runStatus = t.runStatus /\ v.status = t.status
      BY <1>1, <1>2, <2>2, <3>1, TellsOfRows
    <3>3. u = v
      BY <2>2
    <3> HIDE DEF u, v
    <3>4. QED
      BY <1>1, <2>2, <3>2, <3>3 DEF SameDetail
  <2>3. QED
    BY <2>1, <2>2
<1> HIDE DEF u
<1>4. CASE status \in Ends
  <2> DEFINE v == [u EXCEPT !.status = status]
  <2>1. /\ SameDetail(v, u) /\ v.latest = u.latest /\ v.state = u.state
        /\ v.runStatus = u.runStatus /\ v.status = status
    BY <1>3, <1>4, WriteEnd
  <2>2. trace' = v
    BY <1>2, <1>4
  <2> HIDE DEF v
  <2>3. QED
    BY <1>2, <1>3, <1>4, <2>1, <2>2 DEF Commits, Appended, SameDetail
<1>5. CASE status \notin Ends
  BY <1>2, <1>3, <1>5 DEF Commits, Appended
<1>6. QED
  BY <1>4, <1>5

LEMMA RetryEffect ==
  ASSUME Base, Retry
  PROVE  \E a \in Activities :
           /\ Appended(<<<<"retried", a>>>>) /\ UNCHANGED <<run, outcome>>
           /\ run.tasks[a] = "open" /\ trace'.runStatus = trace.runStatus /\ trace'.status = trace.status
           /\ budget' \in [BudgetKinds -> Nat]
<1>1. PICK a \in OpenTasks : /\ history' = Append(history, <<"retried", a>>)
                             /\ trace' = UpdateLatest(trace, Len(history'))
  BY DEF Retry
<1>2. a \in Activities /\ run.tasks[a] = "open"
  BY <1>1 DEF OpenTasks
<1> DEFINE rows == <<<<"retried", a>>>>
<1>3. rows \in Seq(Rows) /\ rows # <<>>
  BY <1>2 DEF Rows
<1>4. history' = history \o rows
  <2>1. <<"retried", a>> \in Rows /\ history \in Seq(Rows)
    BY <1>2, FieldTypes DEF Rows
  <2>2. QED
    BY <1>1, <2>1, AppendIsConcat
<1>5. UNCHANGED <<run, deleted, projector, outcome>>
  BY DEF Retry
<1>6. budget' \in [BudgetKinds -> Nat]
  BY DEF Retry, Spend, Base, TypeOK, BudgetKinds
<1> HIDE DEF rows
<1>7. trace \in Trace
  BY FieldTypes
<1> DEFINE u == UpdateLatest(trace, Len(history'))
<1>8. /\ SameDetail(u, trace) /\ u.latest = Len(history') /\ u.state = "catching_up"
      /\ u.runStatus = trace.runStatus /\ u.status = trace.status
  BY <1>3, <1>4, <1>7, TellsOfRows
<1>9. trace' = u
  BY <1>1
<1> HIDE DEF u
<1>10. Appended(rows) /\ trace'.runStatus = trace.runStatus /\ trace'.status = trace.status
  BY <1>3, <1>4, <1>5, <1>8, <1>9 DEF Appended
<1>11. QED
  BY <1>2, <1>5, <1>6, <1>10 DEF rows

(***************************************************************************)
(* What the run's writers append.                                          *)
(***************************************************************************)

Fits(rows, status, tasks) ==
    /\ ~HasEnded /\ rows \in Seq(Rows) /\ status \in Statuses /\ tasks \in [Activities -> Tasks]
    /\ \A i \in DOMAIN rows : rows[i][1] = "ended" => i = Len(rows) /\ rows[i][2] = status
    /\ status \in Ends <=> \E i \in DOMAIN rows : rows[i][1] = "ended"
    /\ status \in Ends \ {"failed"} => \A a \in Activities : tasks[a] # "open"
    /\ outcome # NoRead => tasks[outcome.activity] = "open"
    /\ \A a \in Activities :
         /\ tasks[a] \in {"none", "open"} => run.tasks[a] \in {"none", "open"}
         /\ \A i \in DOMAIN rows :
              /\ rows[i] = <<"scheduled", a>> => run.tasks[a] = "none"
              /\ rows[i] \in OutcomesOf(a) =>
                   /\ tasks[a] \notin {"none", "open"}
                   /\ \A j \in DOMAIN history : history[j] \notin OutcomesOf(a)
                   /\ \A j \in DOMAIN rows : i < j =>
                        rows[j] \notin OutcomesOf(a) /\ rows[j] # <<"scheduled", a>>

LEMMA FitsNothing ==
  ASSUME ~HasEnded, NEW status \in Statuses \ Ends, NEW tasks \in [Activities -> Tasks],
         outcome # NoRead => tasks[outcome.activity] = "open",
         \A a \in Activities : tasks[a] \in {"none", "open"} => run.tasks[a] \in {"none", "open"}
  PROVE  Fits(<<>>, status, tasks) /\ <<>> \in Seq(Rows)
<1>1. <<>> \in Seq(Rows) /\ DOMAIN <<>> = {}
  BY EmptySeq
<1>2. QED
  BY <1>1 DEF Fits

\* The row of an outcome that the run's function has just been told.
Tells(b, o, tasks) ==
    /\ b \in Activities /\ o \in OutcomesOf(b)
    /\ run.tasks[b] \in {"succeeded", "failed"} /\ tasks[b] = run.tasks[b]
    /\ \A j \in DOMAIN history : history[j] \notin OutcomesOf(b)

LEMMA FitsRows ==
  ASSUME ~HasEnded, NEW status \in Statuses, NEW tasks \in [Activities -> Tasks],
         NEW x \in Rows, NEW rows,
         rows = <<x>> \/ \E b \in Activities : \E o \in OutcomesOf(b) : rows = <<o, x>> /\ Tells(b, o, tasks),
         \/ status \in Ends /\ x = <<"ended", status>>
         \/ status \notin Ends /\ \E a \in Activities : x = <<"scheduled", a>> /\ run.tasks[a] = "none",
         status \in Ends \ {"failed"} => \A a \in Activities : tasks[a] # "open",
         outcome # NoRead => tasks[outcome.activity] = "open",
         \A a \in Activities : tasks[a] \in {"none", "open"} => run.tasks[a] \in {"none", "open"}
  PROVE  Fits(rows, status, tasks) /\ rows \in Seq(Rows)
<1>1. /\ x[1] = "ended" <=> status \in Ends
      /\ x[1] = "ended" => x[2] = status
      /\ \A a \in Activities : x \notin OutcomesOf(a)
      /\ \A a \in Activities : x = <<"scheduled", a>> => run.tasks[a] = "none"
  BY DEF OutcomesOf
<1>2. CASE rows = <<x>>
  <2>1. rows \in Seq(Rows) /\ DOMAIN rows = {1} /\ Len(rows) = 1 /\ rows[1] = x
    BY <1>2
  <2>2. QED
    BY <1>1, <2>1 DEF Fits
<1>3. ASSUME NEW b \in Activities, NEW o \in OutcomesOf(b), rows = <<o, x>>, Tells(b, o, tasks)
      PROVE  Fits(rows, status, tasks) /\ rows \in Seq(Rows)
  <2>1. /\ o \in Rows /\ o[1] # "ended" /\ \A a \in Activities : o # <<"scheduled", a>>
        /\ \A a \in Activities : o \in OutcomesOf(a) => a = b
    <3>1. o \in {<<"completed", b>>, <<"failed", b>>}
      BY DEF OutcomesOf
    <3>2. PICK kind \in {"completed", "failed"} : o = <<kind, b>>
      BY <3>1
    <3>3. o \in Rows
      BY <3>2 DEF Rows
    <3>4. QED
      BY <3>2, <3>3 DEF OutcomesOf
  <2>2. rows \in Seq(Rows) /\ DOMAIN rows = {1, 2} /\ Len(rows) = 2 /\ rows[1] = o /\ rows[2] = x
    BY <1>3, <2>1
  <2>3. run.tasks[b] # "none"
    BY <1>3 DEF Tells
  <2>4. x # <<"scheduled", b>>
    BY <1>1, <2>3
  <2>5. \A i \in DOMAIN rows : rows[i][1] = "ended" => i = Len(rows) /\ rows[i][2] = status
    BY <1>1, <2>1, <2>2
  <2>6. status \in Ends <=> \E i \in DOMAIN rows : rows[i][1] = "ended"
    BY <1>1, <2>1, <2>2
  <2>7. ASSUME NEW a \in Activities, NEW i \in DOMAIN rows
        PROVE  /\ rows[i] = <<"scheduled", a>> => run.tasks[a] = "none"
               /\ rows[i] \in OutcomesOf(a) =>
                    /\ tasks[a] \notin {"none", "open"}
                    /\ \A j \in DOMAIN history : history[j] \notin OutcomesOf(a)
                    /\ \A j \in DOMAIN rows : i < j =>
                         rows[j] \notin OutcomesOf(a) /\ rows[j] # <<"scheduled", a>>
    <3>1. CASE i = 1
      <4>1. ASSUME rows[1] \in OutcomesOf(a)
            PROVE  /\ tasks[a] \notin {"none", "open"}
                   /\ \A j \in DOMAIN history : history[j] \notin OutcomesOf(a)
        BY <1>3, <2>1, <2>2, <4>1 DEF Tells
      <4>2. ASSUME rows[1] \in OutcomesOf(a)
            PROVE  rows[2] \notin OutcomesOf(a) /\ rows[2] # <<"scheduled", a>>
        BY <1>1, <2>1, <2>2, <2>4, <4>2
      <4>3. QED
        BY <2>1, <2>2, <3>1, <4>1, <4>2
    <3>2. CASE i = 2
      BY <1>1, <2>2, <3>2
    <3>3. QED
      BY <2>2, <3>1, <3>2
  <2>8. QED
    BY <2>2, <2>5, <2>6, <2>7 DEF Fits
<1>4. QED
  BY <1>2, <1>3

LEMMA AppendToOne ==
  ASSUME NEW x, NEW y
  PROVE  Append(<<x>>, y) = <<x, y>>
<1> DEFINE S == {x, y}
           s == <<x>>
           t == Append(s, y)
           u == <<x, y>>
<1>1. /\ s \in Seq(S) /\ Len(s) = 1 /\ s[1] = x /\ y \in S
      /\ u \in Seq(S) /\ Len(u) = 2 /\ u[1] = x /\ u[2] = y
  OBVIOUS
<1> HIDE DEF S, s, u
<1>2. /\ t \in Seq(S) /\ Len(t) = Len(s) + 1 /\ t[Len(s) + 1] = y
      /\ \A i \in 1..Len(s) : t[i] = s[i]
  <2>1. s \in Seq(S) /\ y \in S
    BY <1>1
  <2>2. QED
    BY <2>1, AppendProperties
<1> HIDE DEF t
<1>3. Len(t) = 2 /\ t[1] = x /\ t[2] = y
  BY <1>1, <1>2
<1>4. t = u
  <2>1. t \in Seq(S) /\ u \in Seq(S) /\ Len(t) = Len(u) /\ \A i \in 1..Len(t) : t[i] = u[i]
    BY <1>1, <1>2, <1>3
  <2>2. QED
    BY <2>1, SeqEqual
<1>5. QED
  BY <1>4 DEF t, u, s

LEMMA RecordedRow ==
  ASSUME Base, NEW x \in Rows, NEW tasks,
         \A b \in Activities : run.tasks[b] \in {"succeeded", "failed"} => tasks[b] = run.tasks[b]
  PROVE  \/ Append(Recorded, x) = <<x>>
         \/ \E b \in Activities : \E o \in OutcomesOf(b) :
              Append(Recorded, x) = <<o, x>> /\ Tells(b, o, tasks)
<1> DEFINE done == {a \in Activities : /\ run.tasks[a] \in {"succeeded", "failed"}
                                       /\ \A i \in DOMAIN history :
                                            history[i] \notin {<<"completed", a>>, <<"failed", a>>}}
           b == CHOOSE a \in done : TRUE
           o == <<IF run.tasks[b] = "succeeded" THEN "completed" ELSE "failed", b>>
<1>1. Recorded = IF done = {} THEN <<>> ELSE <<o>>
  BY DEF Recorded
<1>2. CASE done = {}
  <2>1. Recorded = <<>>
    BY <1>1, <1>2
  <2> HIDE DEF done, b, o
  <2>2. QED
    BY <2>1
<1>3. CASE done # {}
  <2>1. b \in done
    BY <1>3
  <2>2. Recorded = <<o>> /\ o \in OutcomesOf(b)
    BY <1>1, <1>3 DEF OutcomesOf
  <2>3. Tells(b, o, tasks)
    BY <2>1, <2>2 DEF Tells, OutcomesOf
  <2> HIDE DEF done, b, o
  <2>4. Append(Recorded, x) = <<o, x>>
    BY <2>2, AppendToOne
  <2>5. QED
    BY <2>2, <2>3, <2>4 DEF Tells
<1>4. QED
  BY <1>2, <1>3

LEMMA Committing ==
  ASSUME Base, Settled, RunStep \/ Signal \/ StoreAndWake
  PROVE  /\ \E rows \in Seq(Rows), status \in Statuses, tasks \in [Activities -> Tasks] :
              Commits(rows, status, tasks) /\ Fits(rows, status, tasks)
         /\ budget' \in [BudgetKinds -> Nat]
<1>1. /\ run.status \in Statuses /\ run.tasks \in [Activities -> Tasks]
      /\ outcome \in [activity : Activities, status : Statuses] \cup {NoRead}
      /\ budget \in [BudgetKinds -> Nat]
  BY DEF Base, TypeOK
<1>2. outcome # NoRead => outcome.activity \in Activities /\ run.tasks[outcome.activity] = "open"
  BY <1>1 DEF Settled
<1>3. budget' \in [BudgetKinds -> Nat]
  BY <1>1 DEF RunStep, ClaimNextRun, Activate, FailUnregistered, Cancel, Signal, StoreAndWake, Spend,
              BudgetKinds
<1> DEFINE Goal == \E rows \in Seq(Rows), status \in Statuses, tasks \in [Activities -> Tasks] :
                     Commits(rows, status, tasks) /\ Fits(rows, status, tasks)
<1>4. ASSUME NEW rows \in Seq(Rows), NEW status \in Statuses, NEW tasks \in [Activities -> Tasks],
             Commit(rows, status, tasks), Fits(rows, status, tasks)
      PROVE  Goal
  BY <1>4, CommitEffect
<1> HIDE DEF Goal
<1>5. ASSUME ~HasEnded, NEW status \in Statuses \ Ends, Commit(<<>>, status, run.tasks)
      PROVE  Goal
  <2>1. Fits(<<>>, status, run.tasks) /\ <<>> \in Seq(Rows)
    BY <1>1, <1>2, <1>5, FitsNothing
  <2>2. QED
    BY <1>1, <1>4, <1>5, <2>1
<1>6. ASSUME ClaimNextRun
      PROVE  Goal
  <2>1. ~HasEnded /\ "running" \in Statuses \ Ends /\ Commit(<<>>, "running", run.tasks)
    BY <1>6 DEF ClaimNextRun, HasEnded, Statuses, Ends
  <2>2. QED
    BY <1>5, <2>1
<1>7. ASSUME Activate
      PROVE  Goal
  <2>1. ~HasEnded /\ "waiting" \in Statuses \ Ends /\ Ends \subseteq Statuses
    BY <1>7 DEF Activate, HasEnded, Statuses, Ends
  <2>2. ASSUME Commit(<<>>, "waiting", run.tasks)
        PROVE  Goal
    BY <1>5, <2>1, <2>2
  <2>3. ASSUME OpenTasks = {}
        PROVE  outcome = NoRead
    BY <1>2, <2>3 DEF OpenTasks
  <2>4. ASSUME OpenTasks = {}, NEW a \in Activities, run.tasks[a] = "none",
               Commit(Append(Recorded, <<"scheduled", a>>), "waiting", [run.tasks EXCEPT ![a] = "open"])
        PROVE  Goal
    <3> DEFINE x == <<"scheduled", a>>
               tasks == [run.tasks EXCEPT ![a] = "open"]
               rows == Append(Recorded, x)
               status == "waiting"
    <3>1. /\ x \in Rows /\ tasks \in [Activities -> Tasks]
          /\ \A b \in Activities : run.tasks[b] \in {"succeeded", "failed"} => tasks[b] = run.tasks[b]
          /\ \A b \in Activities : tasks[b] \in {"none", "open"} => run.tasks[b] \in {"none", "open"}
          /\ status \in Statuses /\ status \notin Ends
          /\ Commit(rows, status, tasks) /\ x = <<"scheduled", a>>
      BY <1>1, <2>1, <2>4 DEF Rows, Tasks
    <3> HIDE DEF x, tasks, status
    <3>2. rows = <<x>> \/ \E b \in Activities : \E o \in OutcomesOf(b) : rows = <<o, x>> /\ Tells(b, o, tasks)
      BY <3>1, RecordedRow
    <3> HIDE DEF rows
    <3>3. \E c \in Activities : x = <<"scheduled", c>> /\ run.tasks[c] = "none"
      BY <2>4, <3>1
    <3>4. Fits(rows, status, tasks) /\ rows \in Seq(Rows)
      BY <2>1, <2>3, <2>4, <3>1, <3>2, <3>3, FitsRows, ZenonT(180)
    <3>5. QED
      BY <1>4, <3>1, <3>4
  <2>5. ASSUME OpenTasks = {}, NEW status \in {"completed", "failed"},
               Commit(Append(Recorded, <<"ended", status>>), status, run.tasks)
        PROVE  Goal
    <3> DEFINE x == <<"ended", status>>
               tasks == run.tasks
               rows == Append(Recorded, x)
    <3>1. /\ x \in Rows /\ tasks \in [Activities -> Tasks]
          /\ \A b \in Activities : run.tasks[b] \in {"succeeded", "failed"} => tasks[b] = run.tasks[b]
          /\ \A b \in Activities : tasks[b] \in {"none", "open"} => run.tasks[b] \in {"none", "open"}
          /\ \A b \in Activities : tasks[b] # "open"
          /\ status \in Statuses /\ status \in Ends
          /\ Commit(rows, status, tasks) /\ x = <<"ended", status>>
      BY <1>1, <2>5 DEF Rows, Ends, Statuses, OpenTasks
    <3> HIDE DEF x, tasks
    <3>2. rows = <<x>> \/ \E b \in Activities : \E o \in OutcomesOf(b) : rows = <<o, x>> /\ Tells(b, o, tasks)
      BY <3>1, RecordedRow
    <3> HIDE DEF rows
    <3>3. Fits(rows, status, tasks) /\ rows \in Seq(Rows)
      BY <2>1, <2>3, <2>5, <3>1, <3>2, FitsRows
    <3>4. QED
      BY <1>4, <3>1, <3>3
  <2>6. QED
    BY <1>7, <2>2, <2>4, <2>5 DEF Activate
<1>8. ASSUME ~HasEnded, NEW status \in Ends, NEW tasks \in [Activities -> Tasks],
             Commit(<<<<"ended", status>>>>, status, tasks),
             outcome # NoRead => tasks[outcome.activity] = "open",
             status \in Ends \ {"failed"} => \A a \in Activities : tasks[a] # "open",
             \A a \in Activities : tasks[a] \in {"none", "open"} => run.tasks[a] \in {"none", "open"}
      PROVE  Goal
  <2> DEFINE x == <<"ended", status>>
             rows == <<x>>
  <2>1. x \in Rows /\ rows = <<x>> /\ status \in Statuses /\ x = <<"ended", status>>
        /\ Commit(rows, status, tasks)
    BY <1>8 DEF Rows, Ends, Statuses
  <2> HIDE DEF x, rows
  <2>2. Fits(rows, status, tasks) /\ rows \in Seq(Rows)
    BY <1>8, <2>1, FitsRows
  <2>3. QED
    BY <1>4, <1>8, <2>1, <2>2
<1>9. ASSUME FailUnregistered
      PROVE  Goal
  <2> DEFINE status == "failed"
  <2>1. ~HasEnded /\ status \in Ends /\ status = "failed" /\ Commit(<<<<"ended", status>>>>, status, run.tasks)
    BY <1>9 DEF FailUnregistered, HasEnded, Ends
  <2> HIDE DEF status
  <2>2. QED
    BY <1>1, <1>2, <1>8, <2>1
<1>10. ASSUME Cancel
      PROVE  Goal
  <2> DEFINE status == IF run.status = "running" THEN "cancelled" ELSE "terminated"
             tasks == Cancelled(run.tasks)
  <2>1. ~HasEnded /\ status \in Ends /\ Commit(<<<<"ended", status>>>>, status, tasks)
    BY <1>10 DEF Cancel, HasEnded, Ends
  <2>2. outcome = NoRead
    BY <1>2, <1>10 DEF Cancel, TasksUnlocked, OpenTasks
  <2>3. /\ tasks \in [Activities -> Tasks] /\ \A a \in Activities : tasks[a] # "open"
        /\ \A a \in Activities : tasks[a] \in {"none", "open"} => run.tasks[a] \in {"none", "open"}
    BY <1>1 DEF Cancelled, Tasks
  <2> HIDE DEF status, tasks
  <2>4. QED
    BY <1>8, <2>1, <2>2, <2>3
<1>11. ASSUME Signal
      PROVE  Goal
  <2> DEFINE status == IF run.status = "waiting" THEN "queued" ELSE run.status
  <2>1. ~HasEnded /\ status \in Statuses \ Ends /\ Commit(<<>>, status, run.tasks)
    BY <1>1, <1>11 DEF Signal, HasEnded, Statuses, Ends
  <2> HIDE DEF status
  <2>2. QED
    BY <1>5, <2>1
<1>12. ASSUME StoreAndWake
      PROVE  Goal
  <2>1. PICK a \in OpenTasks, result \in Outcomes :
          Commit(<<>>, "queued", [run.tasks EXCEPT ![a] = result])
    BY <1>12 DEF StoreAndWake
  <2> DEFINE tasks == [run.tasks EXCEPT ![a] = result]
  <2>2. ~HasEnded /\ outcome = NoRead /\ "queued" \in Statuses \ Ends
    BY <1>12 DEF StoreAndWake, HasEnded, Statuses, Ends
  <2>3. /\ tasks \in [Activities -> Tasks] /\ Commit(<<>>, "queued", tasks)
        /\ \A b \in Activities : tasks[b] \in {"none", "open"} => run.tasks[b] \in {"none", "open"}
    BY <1>1, <2>1 DEF Outcomes, OpenTasks, Tasks
  <2> HIDE DEF tasks
  <2>4. Fits(<<>>, "queued", tasks) /\ <<>> \in Seq(Rows)
    BY <2>2, <2>3, FitsNothing
  <2>5. QED
    BY <1>4, <2>2, <2>3, <2>4
<1>13. Goal
  BY <1>6, <1>7, <1>9, <1>10, <1>11, <1>12 DEF RunStep
<1>14. QED
  BY <1>3, <1>13 DEF Goal

(***************************************************************************)
(* What projectors, outcome transactions and the reducers write.           *)
(***************************************************************************)

SpansAfter(id) ==
    IF history[id][1] \in {"scheduled", "completed", "failed"}
    THEN UpsertSpan(trace.spans, history[id][1], history[id][2])
    ELSE IF history[id][1] = "ended" /\ history[id][2] \in Cleanups
    THEN CloseSpans(trace.spans)
    ELSE trace.spans

LEMMA RowKinds ==
  ASSUME Base, NEW id \in DOMAIN history
  PROVE  /\ history[id][1] \in {"started", "ended", "scheduled", "completed", "failed", "retried"}
         /\ history[id][1] = "ended" => history[id][2] \in Ends /\ history[id] = <<"ended", history[id][2]>>
         /\ history[id][1] \in {"scheduled", "completed", "failed"} =>
              history[id][2] \in Activities /\ history[id] = <<history[id][1], history[id][2]>>
<1>1. history[id] \in Rows
  BY FieldTypes
<1>2. CASE history[id] = <<"started", "">>
  <2> DEFINE nothing == ""
  <2>1. history[id] = <<"started", nothing>>
    BY <1>2
  <2> HIDE DEF nothing
  <2>2. history[id][1] = "started"
    BY <2>1
  <2>3. QED
    BY <2>2
<1>3. CASE \E end \in Ends : history[id] = <<"ended", end>>
  BY <1>3
<1>4. CASE history[id] \in {"scheduled", "completed", "failed", "retried"} \X Activities
  BY <1>4
<1>5. QED
  BY <1>1, <1>2, <1>3, <1>4 DEF Rows

LEMMA SpanTypes ==
  ASSUME NEW spans \in [Activities -> Span]
  PROVE  /\ \A kind \in {"scheduled", "completed", "failed"}, a \in Activities :
              UpsertSpan(spans, kind, a) \in [Activities -> Span]
         /\ CloseSpans(spans) \in [Activities -> Span]
         /\ NoSpans \in [Activities -> Span]
<1>1. \A a \in Activities : spans[a] \in Span
  OBVIOUS
<1>2. ASSUME NEW kind \in {"scheduled", "completed", "failed"}, NEW a \in Activities
      PROVE  UpsertSpan(spans, kind, a) \in [Activities -> Span]
  <2> DEFINE status == IF kind = "scheduled" THEN "running" ELSE kind
             ended == spans[a].ended \/ kind # "scheduled"
  <2>1. [status |-> status, ended |-> ended] \in Span
    BY DEF Span
  <2> HIDE DEF status, ended
  <2>2. QED
    BY <2>1 DEF UpsertSpan, status, ended
<1>3. \A a \in Activities : CloseTerminalActivitySpan(spans[a]) \in Span
  BY <1>1 DEF CloseTerminalActivitySpan, Span
<1>4. CloseSpans(spans) \in [Activities -> Span]
  BY <1>1, <1>3 DEF CloseSpans
<1>5. NoSpans \in [Activities -> Span]
  BY DEF NoSpans, NoSpan, Span
<1>6. QED
  BY <1>2, <1>4, <1>5

LEMMA RowProjected ==
  ASSUME Base, NEW id \in DOMAIN history, NEW u, u = ProjectRow(trace, id)
  PROVE  /\ u \in Trace /\ u.latest = trace.latest /\ u.state = trace.state
         /\ u.projected = trace.projected /\ u.since = trace.since
         /\ u.events = trace.events \cup {id} /\ u.spans = SpansAfter(id)
         /\ u.runStatus = trace.runStatus
         /\ u.status = IF history[id][1] = "ended" THEN history[id][2] ELSE trace.status
<1> DEFINE t == [trace EXCEPT !.events = @ \cup {id}]
           events == trace.events \cup {id}
           spans == SpansAfter(id)
           status == IF history[id][1] = "ended" THEN history[id][2] ELSE trace.status
<1>1. /\ trace \in Trace /\ trace.spans \in [Activities -> Span] /\ trace.events \in SUBSET Nat
      /\ trace.status \in {"running"} \cup Ends
  BY FieldTypes, TraceTypes
<1>2. id \in Nat /\ events \in SUBSET Nat
  BY <1>1, FieldTypes
<1>3. spans \in [Activities -> Span] /\ status \in {"running"} \cup Ends
  BY <1>1, RowKinds, SpanTypes DEF SpansAfter
<1>4. u = [trace EXCEPT !.events = events, !.spans = spans, !.status = status]
  <2>1. CASE history[id][1] \in {"scheduled", "completed", "failed"}
    <3>1. u = [t EXCEPT !.spans = UpsertSpan(t.spans, history[id][1], history[id][2])]
      BY <2>1 DEF ProjectRow, ProjectActivity
    <3>2. spans = UpsertSpan(trace.spans, history[id][1], history[id][2]) /\ status = trace.status
      BY <2>1 DEF SpansAfter
    <3>3. t.spans = trace.spans
      BY <1>1 DEF Trace
    <3> HIDE DEF spans, status, events
    <3>4. u = [t EXCEPT !.spans = spans] /\ t = [trace EXCEPT !.events = events]
      BY <3>1, <3>2, <3>3 DEF events
    <3> HIDE DEF t
    <3>5. QED
      BY <1>1, <3>2, <3>4 DEF Trace
  <2>2. CASE history[id][1] = "ended"
    <3>1. u = [[t EXCEPT !.status = history[id][2]] EXCEPT
                 !.spans = IF history[id][2] \in Cleanups THEN CloseSpans(@) ELSE @]
      BY <2>2 DEF ProjectRow, WriteTerminalProjection
    <3>2. spans = (IF history[id][2] \in Cleanups THEN CloseSpans(trace.spans) ELSE trace.spans)
          /\ status = history[id][2]
      BY <2>2 DEF SpansAfter
    <3>3. t = [trace EXCEPT !.events = events]
      BY DEF events
    <3>4. [t EXCEPT !.status = history[id][2]].spans = trace.spans
      BY <1>1 DEF Trace
    <3> HIDE DEF spans, status, events
    <3>5. u = [[t EXCEPT !.status = status] EXCEPT !.spans = spans]
      BY <3>1, <3>2, <3>4
    <3> HIDE DEF t
    <3>6. QED
      BY <1>1, <3>3, <3>5 DEF Trace
  <2>3. CASE history[id][1] \in {"started", "retried"}
    <3>1. u = t
      BY <2>3 DEF ProjectRow
    <3>2. spans = trace.spans /\ status = trace.status
      BY <2>3 DEF SpansAfter
    <3> HIDE DEF spans, status
    <3>3. QED
      BY <1>1, <3>1, <3>2 DEF Trace
  <2>4. QED
    BY <2>1, <2>2, <2>3, RowKinds
<1> HIDE DEF events, spans, status
<1>5. /\ u \in Trace /\ u.latest = trace.latest /\ u.state = trace.state
      /\ u.projected = trace.projected /\ u.since = trace.since
      /\ u.events = events /\ u.spans = spans /\ u.runStatus = trace.runStatus /\ u.status = status
  BY <1>1, <1>2, <1>3, <1>4 DEF Trace
<1>6. QED
  BY <1>5 DEF events, spans, status

\* The label that a projector writes is computed from the rows that exist.
Label(projected) == IF MaxId <= projected THEN "up_to_date" ELSE "catching_up"

LEMMA CheckpointEffect ==
  ASSUME Base, NEW t \in Trace, t.latest = Len(history), NEW id \in 0..Len(history),
         NEW u, u = AdvanceCheckpoint(t, id)
  PROVE  /\ u \in Trace /\ u.latest = t.latest /\ u.since = t.since /\ u.events = t.events
         /\ u.spans = t.spans /\ u.runStatus = t.runStatus /\ u.status = t.status
         /\ u.projected = (IF t.projected < id THEN id ELSE t.projected)
         /\ u.state = Label(u.projected)
<1> DEFINE latest == IF t.latest < MaxId THEN MaxId ELSE t.latest
           projected == IF t.projected < id THEN id ELSE t.projected
           state == Label(projected)
<1>1. /\ latest = t.latest /\ latest \in Nat /\ projected \in Nat
      /\ state \in {"up_to_date", "catching_up"} \cup Reduced
  BY FieldTypes, TraceTypes DEF Label
<1>2. u = [t EXCEPT !.latest = latest, !.projected = projected, !.state = state]
  BY DEF AdvanceCheckpoint, Label
<1> HIDE DEF latest, projected, state
<1>3. /\ u \in Trace /\ u.latest = latest /\ u.since = t.since /\ u.events = t.events
      /\ u.spans = t.spans /\ u.runStatus = t.runStatus /\ u.status = t.status
      /\ u.projected = projected /\ u.state = state
  BY <1>1, <1>2 DEF Trace
<1>4. QED
  BY <1>1, <1>3 DEF projected, state

Projects(p) ==
    LET id == projector[p].row
    IN /\ UNCHANGED <<run, history, deleted, outcome, budget>>
       /\ projector' = [projector EXCEPT ![p] = NoTarget] /\ projector[p] # NoTarget
       /\ trace' \in Trace /\ trace'.latest = trace.latest /\ trace'.since = trace.since
       /\ \/ trace.state \in Reduced /\ trace' = trace
          \/ /\ trace.state \notin Reduced /\ id = 0
             /\ SameDetail(trace', trace) /\ trace'.state = Label(trace'.projected)
             /\ trace'.runStatus = trace.runStatus /\ trace'.status = trace.status
          \/ /\ trace.state \notin Reduced /\ id \in DOMAIN history
             /\ trace'.projected = (IF trace.projected < id THEN id ELSE trace.projected)
             /\ trace'.state = Label(trace'.projected)
             /\ trace'.events = trace.events \cup {id} /\ trace'.spans = SpansAfter(id)
             /\ trace'.runStatus = run.status
             /\ trace'.status = IF history[id][1] = "ended" THEN history[id][2] ELSE trace.status

LEMMA Projecting ==
  ASSUME Base, NEW p \in Projectors, Project(p)
  PROVE  Projects(p)
<1> DEFINE id == projector[p].row
           from == projector[p].from
<1>1. /\ trace \in Trace /\ trace.latest = Len(history) /\ run.status \in Statuses
      /\ id \in 0..Len(history) /\ from \in 0..trace.projected /\ from \in 0..Len(history)
      /\ DOMAIN history = 1..Len(history) /\ Len(history) \in Nat
      /\ trace.projected \in Nat
  BY FieldTypes
<1>2. /\ UNCHANGED <<run, history, deleted, outcome, budget>> /\ projector[p] # NoTarget
      /\ projector' = [projector EXCEPT ![p] = NoTarget]
      /\ trace' = IF ~Writable(trace) THEN trace
                  ELSE IF id = 0 THEN AdvanceCheckpoint(trace, from)
                  ELSE SyncSummary(AdvanceCheckpoint(ProjectRow(trace, id), id), run.status)
  BY DEF Project
<1> HIDE DEF id, from
<1>3. CASE ~Writable(trace)
  BY <1>1, <1>2, <1>3 DEF Projects, Writable
<1>4. CASE Writable(trace) /\ id = 0
  <2>1. trace' = AdvanceCheckpoint(trace, from)
    BY <1>2, <1>4
  <2>2. /\ trace' \in Trace /\ trace'.latest = trace.latest /\ trace'.since = trace.since
        /\ trace'.events = trace.events /\ trace'.spans = trace.spans
        /\ trace'.runStatus = trace.runStatus /\ trace'.status = trace.status
        /\ trace'.projected = (IF trace.projected < from THEN from ELSE trace.projected)
        /\ trace'.state = Label(trace'.projected)
    BY <1>1, <2>1, CheckpointEffect
  <2>3. trace'.projected = trace.projected
    BY <1>1, <2>2
  <2>4. SameDetail(trace', trace)
    BY <2>2, <2>3 DEF SameDetail
  <2>5. QED
    BY <1>2, <1>4, <2>2, <2>4 DEF Projects, Writable, id
<1>5. CASE Writable(trace) /\ id # 0
  <2> DEFINE u == ProjectRow(trace, id)
             v == AdvanceCheckpoint(u, id)
  <2>1. trace' = SyncSummary(v, run.status) /\ id \in DOMAIN history /\ u = ProjectRow(trace, id)
    BY <1>1, <1>2, <1>5
  <2> HIDE DEF u
  <2>2. /\ u \in Trace /\ u.latest = trace.latest /\ u.state = trace.state
        /\ u.projected = trace.projected /\ u.since = trace.since
        /\ u.events = trace.events \cup {id} /\ u.spans = SpansAfter(id)
        /\ u.runStatus = trace.runStatus
        /\ u.status = IF history[id][1] = "ended" THEN history[id][2] ELSE trace.status
    BY <2>1, RowProjected
  <2>3. v = AdvanceCheckpoint(u, id) /\ u.latest = Len(history)
    BY <1>1, <2>2
  <2> HIDE DEF v
  <2>4. /\ v \in Trace /\ v.latest = u.latest /\ v.since = u.since /\ v.events = u.events
        /\ v.spans = u.spans /\ v.runStatus = u.runStatus /\ v.status = u.status
        /\ v.projected = (IF u.projected < id THEN id ELSE u.projected)
        /\ v.state = Label(v.projected)
    BY <1>1, <2>2, <2>3, CheckpointEffect
  <2>5. /\ SameDetail(trace', v) /\ trace'.latest = v.latest /\ trace'.state = v.state
        /\ trace'.runStatus = run.status /\ trace'.status = v.status
    BY <1>1, <2>1, <2>4, WriteSummary
  <2>6. /\ trace' \in Trace /\ trace'.projected = v.projected /\ trace'.since = v.since
        /\ trace'.events = v.events /\ trace'.spans = v.spans
    BY <2>5 DEF SameDetail
  <2>7. QED
    BY <1>2, <1>5, <2>1, <2>2, <2>4, <2>5, <2>6 DEF Projects, Writable, id
<1>6. QED
  BY <1>3, <1>4, <1>5

\* What is read before a lock is held.
Reads ==
    /\ UNCHANGED <<run, history, deleted, trace>>
    /\ \/ outcome' = outcome
       \/ outcome' \in [activity : Activities, status : Statuses] /\ run.tasks[outcome'.activity] = "open"
    /\ projector' \in [Projectors -> Targets]
    /\ \A p \in Projectors :
         \/ projector'[p] = projector[p]
         \/ projector'[p] = NoTarget
         \/ /\ trace.state \notin Reduced
            /\ projector'[p].from = trace.projected /\ projector'[p].row \in 0..Len(history)
            /\ deleted = 0 => projector'[p].row = trace.projected + 1

LEMMA Reading ==
  ASSUME Base, ReadForSummary \/ \E p \in Projectors : Select(p) \/ Crash(p)
  PROVE  Reads /\ budget' \in [BudgetKinds -> Nat]
<1>1. /\ trace \in Trace /\ trace.latest = Len(history) /\ Len(history) \in Nat
      /\ trace.projected \in Nat /\ trace.projected <= Len(history)
      /\ deleted \in Nat /\ deleted <= Len(history)
      /\ projector \in [Projectors -> Targets] /\ NoTarget \in Targets
      /\ MaxId \in {0, Len(history)} /\ (MaxId = 0 <=> deleted = Len(history))
  BY FieldTypes DEF NoTarget, Targets
<1>2. run.status \in Statuses /\ budget \in [BudgetKinds -> Nat]
  BY DEF Base, TypeOK
<1>3. CASE ReadForSummary
  <2>1. PICK a \in OpenTasks : outcome' = [activity |-> a, status |-> run.status]
    BY <1>3 DEF ReadForSummary
  <2>2. a \in Activities /\ run.tasks[a] = "open"
    BY DEF OpenTasks
  <2>3. UNCHANGED <<run, history, deleted, trace, projector, budget>>
    BY <1>3 DEF ReadForSummary
  <2>4. QED
    BY <1>1, <1>2, <2>1, <2>2, <2>3 DEF Reads
<1>4. ASSUME NEW p \in Projectors, Select(p)
      PROVE  Reads /\ budget' \in [BudgetKinds -> Nat]
  <2> DEFINE next == IF trace.projected >= deleted THEN trace.projected + 1 ELSE deleted + 1
             row == IF next <= Len(history) THEN next ELSE 0
             target == [from |-> trace.projected, row |-> row]
  <2>1. /\ projector' = [projector EXCEPT ![p] = target] /\ trace.state \notin Reduced
        /\ trace.projected < (IF MaxId > 0 THEN MaxId ELSE trace.latest)
        /\ UNCHANGED <<run, history, deleted, trace, outcome, budget>>
    BY <1>4 DEF Select
  <2>2. row \in 0..Len(history) /\ row \in Nat
    BY <1>1
  <2>3. deleted = 0 => row = trace.projected + 1
    BY <1>1, <2>1
  <2> HIDE DEF row
  <2>4. target \in Targets /\ target.from = trace.projected /\ target.row = row
    BY <1>1, <2>2 DEF Targets
  <2> HIDE DEF target
  <2>5. projector' \in [Projectors -> Targets] /\ projector'[p] = target
        /\ \A r \in Projectors : r # p => projector'[r] = projector[r]
    BY <1>1, <2>1, <2>4
  <2>6. QED
    BY <1>2, <2>1, <2>2, <2>3, <2>4, <2>5 DEF Reads
<1>5. ASSUME NEW p \in Projectors, Crash(p)
      PROVE  Reads /\ budget' \in [BudgetKinds -> Nat]
  <2>1. budget' \in [BudgetKinds -> Nat]
    BY <1>2, <1>5 DEF Crash, Spend, BudgetKinds
  <2>2. UNCHANGED <<run, history, deleted, trace, outcome>> /\ projector' = [projector EXCEPT ![p] = NoTarget]
    BY <1>5 DEF Crash
  <2>3. projector' \in [Projectors -> Targets] /\ projector'[p] = NoTarget
        /\ \A r \in Projectors : r # p => projector'[r] = projector[r]
    BY <1>1, <2>2
  <2>4. QED
    BY <2>1, <2>2, <2>3 DEF Reads
<1>6. QED
  BY <1>3, <1>4, <1>5

StoresAndSyncs ==
    /\ outcome # NoRead /\ outcome' = NoRead /\ UNCHANGED <<history, deleted, projector, budget>>
    /\ \E result \in Outcomes : run' = [run EXCEPT !.tasks[outcome.activity] = result]
    /\ SameDetail(trace', trace) /\ trace'.latest = trace.latest /\ trace'.state = trace.state
    /\ trace'.runStatus = outcome.status /\ trace'.status = trace.status

LEMMA Storing ==
  ASSUME Base, StoreAndSync
  PROVE  StoresAndSyncs
<1>1. trace \in Trace /\ outcome \in [activity : Activities, status : Statuses]
  BY FieldTypes DEF StoreAndSync, Base, TypeOK
<1>2. trace' = SyncSummary(trace, outcome.status) /\ outcome.status \in Statuses
  BY <1>1 DEF StoreAndSync
<1>3. /\ SameDetail(trace', trace) /\ trace'.latest = trace.latest /\ trace'.state = trace.state
      /\ trace'.runStatus = outcome.status /\ trace'.status = trace.status
  BY <1>1, <1>2, WriteSummary
<1>4. QED
  BY <1>3 DEF StoreAndSync, StoresAndSyncs

\* The writers that reduce the trace of a run that has ended, or ask for a rebuild.
Reduces ==
    /\ UNCHANGED <<history, projector>>
    /\ trace' \in Trace /\ trace'.latest = trace.latest /\ trace'.projected = trace.projected
    /\ \/ /\ HasEnded /\ UNCHANGED <<run, outcome>>
          /\ trace'.runStatus = run.status /\ trace'.status = run.status
          /\ \/ /\ SameDetail(trace', trace) /\ trace'.state = trace.state /\ deleted' = deleted
             \/ /\ trace'.events = {} /\ trace'.spans = NoSpans
                /\ \/ /\ trace.state \notin Reduced /\ trace'.state = "summary_only"
                      /\ trace'.since = trace.projected /\ deleted' = deleted
                   \/ /\ trace.state # "journal_expired" /\ trace'.state = "journal_expired"
                      /\ trace'.since = Len(history) /\ deleted' = Len(history)
       \/ /\ trace.state = "summary_only" /\ trace'.state = "catching_up"
          /\ trace.projected < MaxId /\ SameDetail(trace', trace)
          /\ trace'.runStatus = trace.runStatus /\ trace'.status = trace.status
          /\ UNCHANGED <<run, deleted, outcome>>
       \/ /\ HasEnded /\ outcome = NoRead /\ outcome' = NoRead
          /\ run' = [run EXCEPT !.tasks = [a \in Activities |-> "none"]]
          /\ trace.state # "journal_expired" /\ trace'.state = "journal_expired"
          /\ SameDetail(trace', trace) /\ deleted' = Len(history)
          /\ trace'.runStatus = trace.runStatus /\ trace'.status = trace.status

LEMMA Reducing ==
  ASSUME Base, Reap \/ RepairRun \/ \E mode \in {"projection_only", "full"} : PurgeRun(mode)
  PROVE  Reduces /\ budget' \in [BudgetKinds -> Nat]
<1>1. /\ trace \in Trace /\ trace.projected \in Nat /\ Len(history) \in Nat
      /\ budget \in [BudgetKinds -> Nat]
  BY FieldTypes DEF Base, TypeOK
<1>2. budget' \in [BudgetKinds -> Nat]
  BY <1>1 DEF Reap, RepairRun, PurgeRun, Spend, BudgetKinds
<1>3. CASE Reap
  <2>1. trace' = [trace EXCEPT !.state = "journal_expired"]
    BY <1>3 DEF Reap
  <2>2. /\ SameDetail(trace', trace) /\ trace'.state = "journal_expired"
        /\ trace'.latest = trace.latest /\ trace'.projected = trace.projected /\ trace' \in Trace
        /\ trace'.runStatus = trace.runStatus /\ trace'.status = trace.status
    BY <1>1, <2>1 DEF SameDetail, Trace, Reduced
  <2>3. QED
    BY <1>2, <1>3, <2>2 DEF Reap, Retainable, Reduces
<1>4. CASE RepairRun
  <2>1. trace' = [trace EXCEPT !.state = "catching_up"]
    BY <1>4 DEF RepairRun
  <2>2. /\ SameDetail(trace', trace) /\ trace'.state = "catching_up"
        /\ trace'.latest = trace.latest /\ trace'.projected = trace.projected /\ trace' \in Trace
        /\ trace'.runStatus = trace.runStatus /\ trace'.status = trace.status
    BY <1>1, <2>1 DEF SameDetail, Trace
  <2>3. QED
    BY <1>2, <1>4, <2>2 DEF RepairRun, Reduces
<1>5. ASSUME NEW mode \in {"projection_only", "full"}, PurgeRun(mode)
      PROVE  Reduces
  <2> DEFINE t == TerminalShell(trace)
  <2>1. HasEnded /\ run.status \in Statuses /\ run.status \in Ends
        /\ UNCHANGED <<run, history, projector, outcome>>
    BY <1>5 DEF PurgeRun, HasEnded, Base, TypeOK
  <2>2. t = [trace EXCEPT !.runStatus = run.status, !.status = run.status]
    BY DEF TerminalShell
  <2>3. PICK state \in {"summary_only", "journal_expired"} :
          \/ trace' = t /\ UNCHANGED deleted
          \/ /\ trace' = Purged(t, state) /\ trace.state # "journal_expired"
             /\ state = "summary_only" => trace.state \notin Reduced /\ deleted' = deleted
             /\ state = "journal_expired" => deleted' = Len(history)
    BY <1>5 DEF PurgeRun, Reduced
  <2> HIDE DEF t
  <2>4. /\ SameDetail(t, trace) /\ t.latest = trace.latest /\ t.state = trace.state
        /\ t.runStatus = run.status /\ t.status = run.status /\ t \in Trace
    BY <1>1, <2>1, <2>2 DEF Trace, SameDetail
  <2>5. CASE trace' = t /\ UNCHANGED deleted
    <3>1. trace'.projected = trace.projected /\ trace' \in Trace
      BY <2>4, <2>5 DEF SameDetail
    <3>2. QED
      BY <2>1, <2>4, <2>5, <3>1 DEF Reduces
  <2>6. CASE trace' = Purged(t, state)
    <3> DEFINE since == IF state = "journal_expired" THEN Len(history) ELSE t.projected
    <3>1. t.projected = trace.projected /\ since \in Nat /\ NoSpans \in [Activities -> Span]
      BY <1>1, <2>4, SpanTypes, TraceTypes DEF SameDetail
    <3>2. trace' = [t EXCEPT !.events = {}, !.spans = NoSpans, !.state = state, !.since = since]
      BY <2>6 DEF Purged
    <3> HIDE DEF since
    <3>3. /\ trace' \in Trace /\ trace'.latest = t.latest /\ trace'.projected = t.projected
          /\ trace'.events = {} /\ trace'.spans = NoSpans /\ trace'.state = state
          /\ trace'.since = since /\ trace'.runStatus = t.runStatus /\ trace'.status = t.status
      BY <2>4, <3>1, <3>2 DEF Trace, Reduced
    <3>4. CASE state = "summary_only"
      <4>1. since = trace.projected
        BY <3>1, <3>4 DEF since
      <4>2. trace'.state = "summary_only" /\ ((trace.state \notin Reduced /\ deleted' = deleted) \/ trace' = t)
        BY <2>3, <3>3, <3>4
      <4>3. CASE trace' = t /\ UNCHANGED deleted
        BY <2>5, <4>3
      <4>4. QED
        BY <2>1, <2>3, <2>4, <3>1, <3>3, <3>4, <4>1, <4>3 DEF Reduces
    <3>5. CASE state = "journal_expired"
      <4>1. since = Len(history)
        BY <3>5 DEF since
      <4>2. QED
        BY <2>1, <2>3, <2>4, <2>5, <3>1, <3>3, <3>5, <4>1 DEF Reduces
    <3>6. QED
      BY <3>4, <3>5
  <2>7. QED
    BY <2>3, <2>5, <2>6
<1>6. QED
  BY <1>2, <1>3, <1>4, <1>5

Retries ==
    \E a \in Activities :
        /\ Appended(<<<<"retried", a>>>>) /\ UNCHANGED <<run, outcome>>
        /\ run.tasks[a] = "open" /\ trace'.runStatus = trace.runStatus /\ trace'.status = trace.status

LEMMA Steps ==
  ASSUME Base, Settled, [Next]_vars
  PROVE  /\ budget' \in [BudgetKinds -> Nat]
         /\ \/ UNCHANGED vars
            \/ \E rows \in Seq(Rows), status \in Statuses, tasks \in [Activities -> Tasks] :
                 Commits(rows, status, tasks) /\ Fits(rows, status, tasks)
            \/ Retries
            \/ Reads
            \/ StoresAndSyncs
            \/ Reduces
            \/ \E p \in Projectors : Projects(p)
<1>1. budget \in [BudgetKinds -> Nat]
  BY DEF Base, TypeOK
<1>2. CASE UNCHANGED vars
  BY <1>1, <1>2 DEF vars
<1>3. CASE RunStep \/ Signal \/ StoreAndWake
  BY <1>3, Committing
<1>4. CASE Retry
  BY <1>4, RetryEffect DEF Retries
<1>5. CASE ReadForSummary \/ \E p \in Projectors : Select(p) \/ Crash(p)
  BY <1>5, Reading
<1>6. CASE StoreAndSync
  BY <1>1, <1>6, Storing DEF StoresAndSyncs
<1>7. CASE Reap \/ RepairRun \/ \E mode \in {"projection_only", "full"} : PurgeRun(mode)
  BY <1>7, Reducing
<1>8. CASE \E p \in Projectors : Project(p)
  BY <1>1, <1>8, Projecting DEF Projects
<1>9. QED
  BY <1>2, <1>3, <1>4, <1>5, <1>6, <1>7, <1>8 DEF Next, OutcomeStep, ControlStep

(***************************************************************************)
(* Types, the newest row and the state label.                              *)
(***************************************************************************)

\* Appending keeps the rows' types, and leaves a row to project.
LEMMA AppendedFits ==
  ASSUME Base, NEW rows \in Seq(Rows), Appended(rows)
  PROVE  /\ history' \in Seq(Rows) /\ deleted' \in 0..Len(history')
         /\ trace' \in Trace /\ trace'.projected <= trace'.latest /\ trace'.latest <= Len(history')
         /\ projector' \in [Projectors -> Targets] /\ Placed' /\ StateTellsTheTruth'
<1>1. /\ history' = history \o rows /\ deleted' = deleted /\ projector' = projector
      /\ trace' \in Trace /\ trace'.projected = trace.projected /\ trace'.latest = Len(history')
      /\ trace'.state = IF rows = <<>> THEN trace.state ELSE "catching_up"
  BY DEF Appended, SameDetail
<1>2. /\ history' \in Seq(Rows) /\ Len(rows) \in Nat /\ Len(history') = Len(history) + Len(rows)
  BY <1>1, Joined
<1>3. /\ Len(history) \in Nat /\ deleted \in Nat /\ deleted <= Len(history)
      /\ trace.projected \in Nat /\ trace.projected <= Len(history)
      /\ projector \in [Projectors -> Targets]
      /\ \A p \in Projectors : /\ projector[p].row \in 0..Len(history)
                               /\ projector[p].from \in 0..trace.projected
  BY FieldTypes
<1>4. Placed'
  <2>1. \A p \in Projectors : projector[p].row <= Len(history') /\ projector[p].from <= trace'.projected
    BY <1>1, <1>2, <1>3
  <2>2. QED
    BY <1>1, <2>1 DEF Placed
<1>5. StateTellsTheTruth'
  <2>1. CASE rows = <<>>
    <3>1. history' = history
      BY <1>1, <2>1, FieldTypes, ConcatEmptySeq
    <3>2. MaxId' = MaxId
      BY <1>1, <3>1 DEF MaxId
    <3>3. QED
      BY <1>1, <2>1, <3>2 DEF Base, StateTellsTheTruth
  <2>2. CASE rows # <<>>
    <3>1. Len(rows) # 0
      BY <2>2, EmptySeq
    <3>2. MaxId' = Len(history') /\ trace'.projected < Len(history')
      BY <1>1, <1>2, <1>3, <3>1 DEF MaxId
    <3>3. QED
      BY <1>1, <2>2, <3>2 DEF StateTellsTheTruth
  <2>3. QED
    BY <2>1, <2>2
<1>6. QED
  BY <1>1, <1>2, <1>3, <1>4, <1>5

\* The same, with inequalities.
LEMMA Bounded ==
  ASSUME Base
  PROVE  /\ Len(history) \in Nat /\ deleted \in Nat /\ deleted <= Len(history)
         /\ trace.projected \in Nat /\ trace.projected <= Len(history)
         /\ trace.latest <= Len(history) /\ MaxId \in Nat
         /\ \A p \in Projectors : projector[p].row <= Len(history) /\ projector[p].from <= trace.projected
         /\ NoTarget.row = 0 /\ NoTarget.from = 0
         /\ NoTarget.row <= Len(history) /\ NoTarget.from <= trace.projected
<1>1. /\ Len(history) \in Nat /\ deleted \in Nat /\ deleted <= Len(history)
      /\ trace.projected \in Nat /\ trace.projected <= Len(history) /\ trace.latest = Len(history)
      /\ MaxId \in {0, Len(history)}
  BY FieldTypes
<1>2. \A p \in Projectors : projector[p].row <= Len(history) /\ projector[p].from <= trace.projected
  BY DEF Base, Placed
<1>3. NoTarget.row = 0 /\ NoTarget.from = 0
  BY DEF NoTarget
<1>4. MaxId \in Nat /\ trace.latest <= Len(history) /\ 0 <= Len(history) /\ 0 <= trace.projected
  BY <1>1
<1>5. QED
  BY <1>1, <1>2, <1>3, <1>4

LEMMA BasePreserved ==
  ASSUME Base, Settled, [Next]_vars
  PROVE  Base'
<1>1. /\ budget' \in [BudgetKinds -> Nat]
      /\ run \in [status : Statuses, tasks : [Activities -> Tasks]]
      /\ history \in Seq(Rows) /\ deleted \in 0..Len(history)
      /\ trace \in Trace /\ trace.projected <= trace.latest /\ trace.latest = Len(history)
      /\ projector \in [Projectors -> Targets] /\ NoTarget \in Targets /\ NoTarget.row = 0 /\ NoTarget.from = 0
      /\ outcome \in [activity : Activities, status : Statuses] \cup {NoRead}
  BY Steps, FieldTypes DEF Base, TypeOK, NoTarget, Targets
<1>2. /\ Len(history) \in Nat /\ deleted \in Nat /\ deleted <= Len(history)
      /\ trace.projected \in Nat /\ trace.projected <= Len(history)
      /\ DOMAIN history = 1..Len(history)
      /\ \A p \in Projectors : /\ projector[p].row \in 0..Len(history)
                               /\ projector[p].from \in 0..trace.projected
      /\ MaxId \in {0, Len(history)}
  BY FieldTypes
<1> DEFINE RunTyped == run' \in [status : Statuses, tasks : [Activities -> Tasks]]
           OutcomeTyped == outcome' \in [activity : Activities, status : Statuses] \cup {NoRead}
           Rest == /\ history' \in Seq(Rows) /\ deleted' \in 0..Len(history')
                   /\ trace' \in Trace /\ trace'.projected <= trace'.latest
                   /\ trace'.latest <= Len(history')
                   /\ projector' \in [Projectors -> Targets] /\ Placed' /\ StateTellsTheTruth'
           Good == RunTyped /\ OutcomeTyped /\ Rest
<1>3. /\ run' = run => RunTyped
      /\ outcome' = outcome \/ outcome' = NoRead => OutcomeTyped
  BY <1>1
<1>4. ASSUME history' = history, deleted' \in {deleted, Len(history)}, trace' \in Trace,
              trace'.latest = trace.latest, trace'.projected \in Nat, trace'.projected <= Len(history),
              projector' \in [Projectors -> Targets], Placed', StateTellsTheTruth'
      PROVE  Rest
  <2>1. deleted' \in 0..Len(history) /\ trace'.projected <= trace.latest /\ trace.latest <= Len(history)
    BY <1>1, <1>4, Bounded
  <2>2. QED
    BY <1>1, <1>4, <2>1
<1> HIDE DEF Rest, RunTyped, OutcomeTyped
<1>5. ASSUME UNCHANGED vars
      PROVE  Good
  <2>1. UNCHANGED <<run, history, deleted, trace, projector, outcome, budget>>
    BY <1>5 DEF vars
  <2>2. Placed' /\ StateTellsTheTruth'
    BY <2>1 DEF Base, Placed, StateTellsTheTruth, MaxId
  <2>3. Rest
    BY <1>1, <1>2, <1>4, <2>1, <2>2, ZenonT(60)
  <2>4. QED
    BY <1>3, <2>1, <2>3
<1>6. ASSUME NEW rows \in Seq(Rows), NEW status \in Statuses, NEW tasks \in [Activities -> Tasks],
             Commits(rows, status, tasks)
      PROVE  Good
  <2>1. Rest
    BY <1>6, AppendedFits DEF Commits, Rest
  <2>2. RunTyped /\ OutcomeTyped
    BY <1>3, <1>6 DEF Commits, RunTyped
  <2>3. QED
    BY <2>1, <2>2
<1>7. ASSUME Retries
      PROVE  Good
  <2>1. PICK a \in Activities : Appended(<<<<"retried", a>>>>) /\ UNCHANGED <<run, outcome>>
    BY <1>7 DEF Retries
  <2> DEFINE rows == <<<<"retried", a>>>>
  <2>2. rows \in Seq(Rows) /\ Appended(rows)
    BY <2>1 DEF Rows
  <2> HIDE DEF rows
  <2>3. Rest
    BY <2>2, AppendedFits DEF Rest
  <2>4. QED
    BY <1>3, <2>1, <2>3
<1>8. ASSUME Reads
      PROVE  Good
  <2>1. UNCHANGED <<run, history, deleted, trace>> /\ OutcomeTyped /\ projector' \in [Projectors -> Targets]
    BY <1>1, <1>8 DEF Reads, OutcomeTyped
  <2>2. \A p \in Projectors : projector'[p].row <= Len(history) /\ projector'[p].from <= trace.projected
    <3>1. \A p \in Projectors :
            \/ projector'[p] = projector[p]
            \/ projector'[p] = NoTarget
            \/ projector'[p].from = trace.projected /\ projector'[p].row \in 0..Len(history)
      BY <1>8 DEF Reads
    <3>2. /\ \A n \in 0..Len(history) : n <= Len(history)
          /\ trace.projected <= trace.projected
      BY Bounded
    <3>3. QED
      BY <3>1, <3>2, Bounded
  <2>3. Placed' /\ StateTellsTheTruth'
    BY <1>1, <2>1, <2>2 DEF Base, Placed, StateTellsTheTruth, MaxId
  <2>4. Rest
    BY <1>1, <1>2, <1>4, <2>1, <2>3, ZenonT(60)
  <2>5. QED
    BY <1>3, <2>1, <2>4
<1>9. ASSUME StoresAndSyncs
      PROVE  Good
  <2>1. /\ outcome # NoRead /\ outcome' = NoRead /\ UNCHANGED <<history, deleted, projector>>
        /\ trace' \in Trace /\ trace'.projected = trace.projected /\ trace'.latest = trace.latest
        /\ trace'.state = trace.state
    BY <1>9 DEF StoresAndSyncs, SameDetail
  <2>2. RunTyped
    <3>1. PICK result \in Outcomes : run' = [run EXCEPT !.tasks[outcome.activity] = result]
      BY <1>9 DEF StoresAndSyncs
    <3>2. outcome.activity \in Activities /\ result \in Tasks
      BY <1>1, <2>1 DEF Outcomes, Tasks
    <3>3. QED
      BY <1>1, <3>1, <3>2 DEF RunTyped
  <2>3. Placed' /\ StateTellsTheTruth'
    BY <2>1 DEF Base, Placed, StateTellsTheTruth, MaxId
  <2>4. Rest
    BY <1>1, <1>2, <1>4, <2>1, <2>3, ZenonT(60)
  <2>5. QED
    BY <1>3, <2>1, <2>2, <2>4
<1>10. ASSUME Reduces
      PROVE  Good
  <2>1. /\ UNCHANGED <<history, projector>>
        /\ trace' \in Trace /\ trace'.latest = trace.latest /\ trace'.projected = trace.projected
        /\ deleted' \in {deleted, Len(history)} /\ outcome' = outcome
        /\ run' = run \/ run' = [run EXCEPT !.tasks = [a \in Activities |-> "none"]]
    BY <1>10 DEF Reduces
  <2>2. RunTyped
    <3>1. [a \in Activities |-> "none"] \in [Activities -> Tasks]
      BY DEF Tasks
    <3>2. QED
      BY <1>1, <2>1, <3>1 DEF RunTyped
  <2>3. Placed'
    BY <2>1 DEF Base, Placed
  <2>4. StateTellsTheTruth'
    <3>1. \/ trace'.state = trace.state /\ deleted' = deleted
          \/ trace'.state \in Reduced
          \/ trace'.state = "catching_up" /\ trace.projected < MaxId /\ deleted' = deleted
      BY <1>10 DEF Reduces, Reduced
    <3>2. deleted' = deleted => MaxId' = MaxId
      BY <2>1 DEF MaxId
    <3>3. QED
      BY <2>1, <3>1, <3>2 DEF Base, StateTellsTheTruth, Reduced
  <2>5. Rest
    BY <1>1, <1>2, <1>4, <2>1, <2>3, <2>4
  <2>6. QED
    BY <1>3, <2>1, <2>2, <2>5
<1>11. ASSUME NEW p \in Projectors, Projects(p)
      PROVE  Good
  <2>1. /\ UNCHANGED <<run, history, deleted, outcome>>
        /\ projector' = [projector EXCEPT ![p] = NoTarget]
        /\ trace' \in Trace /\ trace'.latest = trace.latest
    BY <1>11 DEF Projects
  <2>2. /\ \/ trace' = trace
           \/ trace'.projected = trace.projected /\ trace'.state = Label(trace'.projected)
           \/ /\ projector[p].row \in DOMAIN history /\ trace'.state = Label(trace'.projected)
              /\ trace'.projected = IF trace.projected < projector[p].row THEN projector[p].row
                                    ELSE trace.projected
    BY <1>11 DEF Projects, SameDetail
  <2>3. /\ trace'.projected \in Nat /\ trace'.projected <= Len(history)
        /\ trace.projected <= trace'.projected
    <3>1. projector[p].row \in 0..Len(history) /\ trace.projected \in Nat
          /\ trace.projected <= Len(history) /\ Len(history) \in Nat
      BY <1>2, ZenonT(60)
    <3>2. trace'.projected \in {trace.projected,
             IF trace.projected < projector[p].row THEN projector[p].row ELSE trace.projected}
      BY <2>2
    <3>3. QED
      BY <3>1, <3>2
  <2>4. Placed'
    <3>1. \A q \in Projectors : projector'[q].row <= Len(history) /\ projector'[q].from <= trace'.projected
      <4>1. ASSUME NEW q \in Projectors
            PROVE  projector'[q] = projector[q] \/ projector'[q] = NoTarget
        BY <1>1, <2>1
      <4>2. ASSUME NEW q \in Projectors
            PROVE  /\ projector[q].row <= Len(history) /\ projector[q].from <= trace'.projected
                   /\ NoTarget.row <= Len(history) /\ NoTarget.from <= trace'.projected
        <5>1. projector[q].row \in 0..Len(history) /\ projector[q].from \in 0..trace.projected
              /\ trace.projected \in Nat /\ Len(history) \in Nat /\ NoTarget.row = 0 /\ NoTarget.from = 0
          BY <1>1, <1>2, ZenonT(60)
        <5>2. QED
          BY <2>3, <5>1
      <4>3. QED
        BY <4>1, <4>2
    <3>2. QED
      BY <1>1, <2>1, <3>1 DEF Placed
  <2>5. StateTellsTheTruth'
    <3>1. MaxId' = MaxId /\ trace'.projected \in Nat /\ MaxId \in Nat
      BY <1>2, <2>1, <2>3 DEF MaxId
    <3>2. trace' = trace \/ trace'.state = Label(trace'.projected)
      BY <2>2
    <3>3. QED
      BY <3>1, <3>2 DEF Base, StateTellsTheTruth, Label
  <2>6. projector' \in [Projectors -> Targets]
    BY <1>1, <2>1
  <2>7. Rest
    BY <1>1, <1>2, <1>4, <2>1, <2>3, <2>4, <2>5, <2>6, ZenonT(60)
  <2>8. QED
    BY <1>3, <2>1, <2>7
<1> HIDE DEF Good
<1>12. Good
  BY <1>5, <1>6, <1>7, <1>8, <1>9, <1>10, <1>11, Steps
<1>13. QED
  BY <1>1, <1>12 DEF Base, TypeOK, Good, RunTyped, OutcomeTyped, Rest

(***************************************************************************)
(* How a run ends and what is recorded of its activities.                  *)
(***************************************************************************)

LEMMA CommitKeepsLife ==
  ASSUME Base, Life, Base', NEW rows \in Seq(Rows), NEW status \in Statuses,
         NEW tasks \in [Activities -> Tasks],
         Commits(rows, status, tasks), Fits(rows, status, tasks)
  PROVE  Life'
<1>1. /\ history' = history \o rows /\ deleted' = deleted /\ outcome' = outcome
      /\ run'.status = status /\ run'.tasks = tasks
      /\ trace'.state \in {trace.state, "catching_up"}
      /\ trace'.runStatus = status
      /\ trace'.status = IF status \in Ends THEN status ELSE trace.status
  BY DEF Commits, Appended
<1>2. /\ \A i \in DOMAIN history : i \in DOMAIN history' /\ history'[i] = history[i]
      /\ \A i \in DOMAIN history' \ DOMAIN history :
           i - Len(history) \in DOMAIN rows /\ history'[i] = rows[i - Len(history)]
      /\ \A i \in DOMAIN rows : Len(history) + i \in DOMAIN history'
                                /\ history'[Len(history) + i] = rows[i]
      /\ Len(history) \in Nat /\ DOMAIN history = 1..Len(history)
      /\ DOMAIN history' = 1..(Len(history) + Len(rows)) /\ Len(rows) \in Nat
  BY <1>1, Joined, FieldTypes
<1>3. ~HasEnded /\ \A i \in DOMAIN history : history[i][1] # "ended"
  <2>1. ~HasEnded
    BY DEF Fits
  <2>2. ASSUME NEW i \in DOMAIN history, history[i][1] = "ended"
        PROVE  FALSE
    <3>1. history[i][2] \in Ends /\ history[i][2] = run.status
      BY <2>2, RowKinds DEF Life, Settled
    <3>2. QED
      BY <2>1, <3>1 DEF HasEnded
  <2>3. QED
    BY <2>1, <2>2
<1>4. HasEnded' <=> status \in Ends
  BY <1>1 DEF HasEnded
<1>5. Settled'
  <2>1. outcome' # NoRead => run'.tasks[outcome'.activity] = "open"
    BY <1>1 DEF Fits
  <2>2. run'.status \in Ends \ {"failed"} => OpenTasks' = {}
    BY <1>1 DEF Fits, OpenTasks
  <2>3. ASSUME NEW i \in DOMAIN history', history'[i][1] = "ended"
        PROVE  history'[i][2] = run'.status
    <3>1. i \notin DOMAIN history
      BY <1>2, <1>3, <2>3
    <3>2. i - Len(history) \in DOMAIN rows /\ history'[i] = rows[i - Len(history)]
      BY <1>2, <3>1
    <3>3. QED
      BY <1>1, <2>3, <3>2 DEF Fits
  <2>4. HasEnded' => \E i \in DOMAIN history' : history'[i][1] = "ended"
    <3>1. ASSUME status \in Ends
          PROVE  \E i \in DOMAIN history' : history'[i][1] = "ended"
      <4>1. PICK k \in DOMAIN rows : rows[k][1] = "ended"
        BY <3>1 DEF Fits
      <4>2. QED
        BY <1>2, <4>1
    <3>2. QED
      BY <1>4, <3>1
  <2>5. ~(trace'.state \in Reduced \/ deleted' > 0)
    BY <1>1, <1>3 DEF Life, Settled, Reduced
  <2>6. QED
    BY <2>1, <2>2, <2>3, <2>4, <2>5 DEF Settled
<1>6. EndIsShown'
  BY <1>1 DEF EndIsShown
<1>7. JournalShape'
  <2>1. ASSUME NEW a \in Activities, NEW i \in DOMAIN history', NEW j \in DOMAIN history',
               i < j, history'[i] \in OutcomesOf(a)
        PROVE  history'[j] \notin OutcomesOf(a) /\ history'[j] # <<"scheduled", a>>
    <3>1. CASE i \in DOMAIN history /\ j \in DOMAIN history
      BY <1>2, <2>1, <3>1 DEF Life, JournalShape
    <3>2. CASE i \in DOMAIN history /\ j \notin DOMAIN history
      <4>1. j - Len(history) \in DOMAIN rows /\ history'[j] = rows[j - Len(history)]
            /\ history[i] \in OutcomesOf(a)
        BY <1>2, <2>1, <3>2
      <4>2. rows[j - Len(history)] \notin OutcomesOf(a)
        BY <3>2, <4>1 DEF Fits
      <4>3. run.tasks[a] # "none"
        BY <1>3, <3>2, <4>1 DEF Life, JournalShape
      <4>4. rows[j - Len(history)] # <<"scheduled", a>>
        BY <4>1, <4>3 DEF Fits
      <4>5. QED
        BY <4>1, <4>2, <4>4
    <3>3. CASE i \notin DOMAIN history
      <4>1. j \notin DOMAIN history
        BY <1>2, <2>1, <3>3
      <4>2. /\ i - Len(history) \in DOMAIN rows /\ history'[i] = rows[i - Len(history)]
            /\ j - Len(history) \in DOMAIN rows /\ history'[j] = rows[j - Len(history)]
        BY <1>2, <3>3, <4>1
      <4>3. i - Len(history) < j - Len(history)
        BY <1>2, <2>1
      <4>4. QED
        BY <2>1, <4>2, <4>3 DEF Fits
    <3>4. QED
      BY <3>1, <3>2, <3>3
  <2>2. ASSUME NEW a \in Activities, tasks[a] \in {"none", "open"}, NEW i \in DOMAIN history'
        PROVE  history'[i] \notin OutcomesOf(a)
    <3>1. CASE i \in DOMAIN history
      <4>1. run.tasks[a] \in {"none", "open"}
        BY <2>2 DEF Fits
      <4>2. QED
        BY <1>2, <1>3, <3>1, <4>1 DEF Life, JournalShape
    <3>2. CASE i \notin DOMAIN history
      <4>1. i - Len(history) \in DOMAIN rows /\ history'[i] = rows[i - Len(history)]
        BY <1>2, <3>2
      <4>2. QED
        BY <2>2, <4>1 DEF Fits
    <3>3. QED
      BY <3>1, <3>2
  <2>3. QED
    BY <1>1, <2>1, <2>2 DEF JournalShape
<1>8. QED
  BY <1>5, <1>6, <1>7 DEF Life

LEMMA RetryKeepsLife ==
  ASSUME Base, Life, Retries
  PROVE  Life'
<1>1. PICK a \in Activities :
        /\ Appended(<<<<"retried", a>>>>) /\ UNCHANGED <<run, outcome>>
        /\ run.tasks[a] = "open" /\ trace'.runStatus = trace.runStatus /\ trace'.status = trace.status
  BY DEF Retries
<1> DEFINE x == <<"retried", a>>
           rows == <<x>>
<1>2. /\ rows \in Seq(Rows) /\ rows # <<>> /\ Appended(rows) /\ DOMAIN rows = {1} /\ rows[1] = x
      /\ x[1] = "retried" /\ \A b \in Activities : x \notin OutcomesOf(b) /\ x # <<"scheduled", b>>
  BY <1>1 DEF Rows, OutcomesOf
<1> HIDE DEF x, rows
<1>3. /\ history' = history \o rows /\ deleted' = deleted
      /\ trace'.state = "catching_up"
  BY <1>2 DEF Appended
<1>4. /\ \A i \in DOMAIN history : i \in DOMAIN history' /\ history'[i] = history[i]
      /\ \A i \in DOMAIN history' \ DOMAIN history : history'[i] = x
      /\ DOMAIN history = 1..Len(history) /\ Len(history) \in Nat
      /\ DOMAIN history' = 1..(Len(history) + Len(rows)) /\ Len(rows) \in Nat
  <2>1. /\ \A i \in DOMAIN history : i \in DOMAIN history' /\ history'[i] = history[i]
        /\ \A i \in DOMAIN history' \ DOMAIN history :
             i - Len(history) \in DOMAIN rows /\ history'[i] = rows[i - Len(history)]
        /\ DOMAIN history' = 1..(Len(history) + Len(rows)) /\ Len(rows) \in Nat
    BY <1>2, <1>3, Joined
  <2>2. \A i \in DOMAIN rows : rows[i] = x
    BY <1>2
  <2>3. QED
    BY <2>1, <2>2, FieldTypes
<1>5. Settled'
  <2>1. \A i \in DOMAIN history' : history'[i][1] = "ended" => history'[i][2] = run.status
    BY <1>2, <1>4 DEF Life, Settled
  <2>2. HasEnded => \E i \in DOMAIN history' : history'[i][1] = "ended"
    BY <1>4 DEF Life, Settled
  <2>3. trace'.state \in Reduced \/ deleted' > 0 => HasEnded
    BY <1>3 DEF Life, Settled, Reduced
  <2>4. QED
    BY <1>1, <2>1, <2>2, <2>3 DEF Life, Settled, HasEnded, OpenTasks
<1>6. EndIsShown'
  BY <1>1 DEF Life, EndIsShown
<1>7. JournalShape'
  <2>1. ASSUME NEW b \in Activities, NEW i \in DOMAIN history', NEW j \in DOMAIN history',
               i < j, history'[i] \in OutcomesOf(b)
        PROVE  history'[j] \notin OutcomesOf(b) /\ history'[j] # <<"scheduled", b>>
    BY <1>2, <1>4, <2>1 DEF Life, JournalShape
  <2>2. ASSUME NEW b \in Activities, ~HasEnded, run.tasks[b] \in {"none", "open"}, NEW i \in DOMAIN history'
        PROVE  history'[i] \notin OutcomesOf(b)
    BY <1>2, <1>4, <2>2 DEF Life, JournalShape
  <2>3. QED
    BY <1>1, <2>1, <2>2 DEF JournalShape, HasEnded
<1>8. QED
  BY <1>5, <1>6, <1>7 DEF Life

\* The other writers append nothing.
LEMMA OthersKeepLife ==
  ASSUME Base, Life, history' = history, run'.status = run.status,
         outcome' # NoRead => run'.tasks[outcome'.activity] = "open",
         \A a \in Activities : run'.tasks[a] = "open" => run.tasks[a] = "open",
         HasEnded \/ \A a \in Activities :
                       run'.tasks[a] \in {"none", "open"} => run.tasks[a] \in {"none", "open"},
         trace'.state \in Reduced => trace.state \in Reduced \/ HasEnded,
         deleted' = deleted \/ HasEnded,
         EndIsShown'
  PROVE  Life'
<1>1. HasEnded' <=> HasEnded
  BY DEF HasEnded
<1>2. Settled'
  BY <1>1 DEF Life, Settled, OpenTasks
<1>3. JournalShape'
  BY <1>1 DEF Life, JournalShape
<1>4. QED
  BY <1>2, <1>3 DEF Life

LEMMA LifePreserved ==
  ASSUME Base, Life, [Next]_vars
  PROVE  Life'
<1>1. Settled /\ EndIsShown /\ Base'
  BY BasePreserved DEF Life
<1>2. /\ run \in [status : Statuses, tasks : [Activities -> Tasks]]
      /\ outcome \in [activity : Activities, status : Statuses] \cup {NoRead}
  BY DEF Base, TypeOK
<1>3. outcome # NoRead => run.tasks[outcome.activity] = "open"
  BY <1>1 DEF Settled
<1>4. CASE UNCHANGED vars
  <2>1. UNCHANGED <<run, history, deleted, trace, projector, outcome>>
    BY <1>4 DEF vars
  <2>2. EndIsShown'
    BY <1>1, <2>1 DEF EndIsShown
  <2>3. QED
    BY <1>3, <2>1, <2>2, OthersKeepLife
<1>5. ASSUME NEW rows \in Seq(Rows), NEW status \in Statuses, NEW tasks \in [Activities -> Tasks],
             Commits(rows, status, tasks), Fits(rows, status, tasks)
      PROVE  Life'
  BY <1>1, <1>5, CommitKeepsLife
<1>6. CASE Retries
  BY <1>6, RetryKeepsLife
<1>7. CASE Reads
  <2>1. UNCHANGED <<run, history, deleted, trace>>
    BY <1>7 DEF Reads
  <2>2. outcome' # NoRead => run.tasks[outcome'.activity] = "open"
    BY <1>3, <1>7 DEF Reads
  <2>3. EndIsShown'
    BY <1>1, <2>1 DEF EndIsShown
  <2>4. QED
    BY <2>1, <2>2, <2>3, OthersKeepLife
<1>8. CASE StoresAndSyncs
  <2>1. /\ outcome # NoRead /\ outcome' = NoRead /\ UNCHANGED <<history, deleted>>
        /\ trace'.state = trace.state
    BY <1>8 DEF StoresAndSyncs
  <2>2. PICK result \in Outcomes : run' = [run EXCEPT !.tasks[outcome.activity] = result]
    BY <1>8 DEF StoresAndSyncs
  <2>3. /\ run'.status = run.status
        /\ \A a \in Activities : run'.tasks[a] \in {"none", "open"} => run'.tasks[a] = run.tasks[a]
    BY <1>2, <2>2 DEF Outcomes
  <2>4. run.status \notin Ends \ {"failed"}
    BY <1>1, <1>2, <1>3, <2>1 DEF Settled, OpenTasks
  <2>5. EndIsShown'
    BY <2>3, <2>4 DEF EndIsShown
  <2>6. QED
    BY <2>1, <2>3, <2>5, OthersKeepLife
<1>9. CASE Reduces
  <2>1. history' = history /\ run'.status = run.status
    BY <1>2, <1>9 DEF Reduces
  <2>2. \/ run' = run /\ outcome' = outcome
        \/ /\ outcome' = NoRead /\ HasEnded /\ \A a \in Activities : run'.tasks[a] = "none"
    BY <1>2, <1>9 DEF Reduces
  <2>3. /\ trace'.state \in Reduced => trace.state \in Reduced \/ HasEnded
        /\ deleted' = deleted \/ HasEnded
    BY <1>9 DEF Reduces, Reduced
  <2>4. EndIsShown'
    <3>1. \/ trace'.runStatus = run.status /\ trace'.status = run.status
          \/ trace'.runStatus = trace.runStatus /\ trace'.status = trace.status
      BY <1>9 DEF Reduces
    <3>2. QED
      BY <1>1, <2>1, <3>1 DEF EndIsShown
  <2>5. /\ outcome' # NoRead => run'.tasks[outcome'.activity] = "open"
        /\ \A a \in Activities : run'.tasks[a] = "open" => run.tasks[a] = "open"
        /\ HasEnded \/ \A a \in Activities :
                         run'.tasks[a] \in {"none", "open"} => run.tasks[a] \in {"none", "open"}
    BY <1>3, <2>2
  <2>6. QED
    BY <2>1, <2>3, <2>4, <2>5, OthersKeepLife
<1>10. ASSUME NEW p \in Projectors, Projects(p)
       PROVE  Life'
  <2>1. UNCHANGED <<run, history, deleted, outcome>>
    BY <1>10 DEF Projects
  <2>2. trace'.state \in Reduced => trace.state \in Reduced
    BY <1>10 DEF Projects, Label, Reduced
  <2>3. EndIsShown'
    <3>1. CASE trace'.runStatus = trace.runStatus /\ trace'.status = trace.status
      BY <1>1, <2>1, <3>1 DEF EndIsShown
    <3>2. ASSUME NEW id \in DOMAIN history, trace'.runStatus = run.status,
                 trace'.status = IF history[id][1] = "ended" THEN history[id][2] ELSE trace.status
          PROVE  EndIsShown'
      <4>1. history[id][1] = "ended" => history[id][2] = run.status
        BY <1>1 DEF Settled
      <4>2. QED
        BY <1>1, <2>1, <3>2, <4>1 DEF EndIsShown
    <3>3. QED
      BY <1>10, <3>1, <3>2 DEF Projects
  <2>4. QED
    BY <1>3, <2>1, <2>2, <2>3, OthersKeepLife
<1>11. QED
  BY <1>1, <1>4, <1>5, <1>6, <1>7, <1>8, <1>9, <1>10, Steps

LEMMA InvariantHoldsFirst ==
  ASSUME Init
  PROVE  Base /\ Life /\ Detail
<1> DEFINE first == <<"started", "">>
<1>1. /\ history = <<first>> /\ first \in Rows /\ first[1] = "started"
      /\ \A a \in Activities : first \notin OutcomesOf(a)
  BY DEF Init, Rows, OutcomesOf
<1> HIDE DEF first
<1>2. history \in Seq(Rows) /\ Len(history) = 1 /\ DOMAIN history = {1} /\ history[1] = first
  BY <1>1
<1>3. /\ run = [status |-> "queued", tasks |-> [a \in Activities |-> "none"]]
      /\ deleted = 0 /\ trace = TraceShell /\ outcome = NoRead /\ budget = Allowed
      /\ projector = [p \in Projectors |-> NoTarget]
  BY DEF Init
<1>4. /\ run \in [status : Statuses, tasks : [Activities -> Tasks]] /\ run.status = "queued"
      /\ ~HasEnded
  BY <1>3 DEF Statuses, Tasks, HasEnded, Ends
<1>5. /\ trace \in Trace /\ trace.latest = 1 /\ trace.projected = 1 /\ trace.since = 1
      /\ trace.state = "up_to_date" /\ trace.events = {} /\ trace.spans = NoSpans
  BY <1>3 DEF TraceShell, Trace, NoSpans, NoSpan, Span, Statuses
<1>6. NoTarget \in Targets /\ NoTarget.row = 0 /\ NoTarget.from = 0
  BY DEF NoTarget, Targets
<1>7. TypeOK
  BY <1>2, <1>3, <1>4, <1>5, <1>6, AllowedBudget DEF TypeOK
<1>8. Placed /\ StateTellsTheTruth
  BY <1>2, <1>3, <1>5, <1>6 DEF Placed, StateTellsTheTruth, MaxId
<1>9. Life
  BY <1>1, <1>2, <1>3, <1>4, <1>5 DEF Life, Settled, EndIsShown, JournalShape, HasEnded, Reduced
<1>10. DetailFits
  BY <1>3, <1>5 DEF DetailFits
<1>11. DetailFollowsHistory
  <2>1. (trace.since + 1) .. trace.projected = {}
    BY <1>5
  <2>2. ASSUME NEW a \in Activities
        PROVE  SpanUpTo(a, trace.projected) = NoSpan
    BY <2>1 DEF SpanUpTo
  <2>3. QED
    BY <1>5, <2>1, <2>2 DEF DetailFollowsHistory, NoSpans
<1>12. QED
  BY <1>7, <1>8, <1>9, <1>10, <1>11 DEF Base, Detail

(***************************************************************************)
(* The detail, while one projector follows the history.                    *)
(***************************************************************************)

\* Some projected row is this one.
IsProjected(row, last) == \E i \in (trace.since + 1) .. last : history[i] = row

LEMMA SpanCases ==
  ASSUME NEW a, NEW last
  PROVE  SpanUpTo(a, last) =
           IF IsProjected(<<"completed", a>>, last) THEN [status |-> "completed", ended |-> TRUE]
           ELSE IF IsProjected(<<"failed", a>>, last) THEN [status |-> "failed", ended |-> TRUE]
           ELSE IF ~IsProjected(<<"scheduled", a>>, last) THEN NoSpan
           ELSE IF run.tasks[a] = "cancelled" /\ \E end \in Cleanups : IsProjected(<<"ended", end>>, last)
           THEN [status |-> "failed", ended |-> TRUE]
           ELSE [status |-> "running", ended |-> FALSE]
<1> DEFINE rows == {history[i] : i \in (trace.since + 1) .. last}
<1>1. \A row : row \in rows <=> IsProjected(row, last)
  BY DEF IsProjected
<1>2. SpanUpTo(a, last) =
        IF <<"completed", a>> \in rows THEN [status |-> "completed", ended |-> TRUE]
        ELSE IF <<"failed", a>> \in rows THEN [status |-> "failed", ended |-> TRUE]
        ELSE IF <<"scheduled", a>> \notin rows THEN NoSpan
        ELSE IF run.tasks[a] = "cancelled" /\ \E end \in Cleanups : <<"ended", end>> \in rows
        THEN [status |-> "failed", ended |-> TRUE]
        ELSE [status |-> "running", ended |-> FALSE]
  BY DEF SpanUpTo
<1> HIDE DEF rows
<1>3. QED
  BY <1>1, <1>2

\* The rows up to a projected one are those before it, and it.
LEMMA ProjectedNext ==
  ASSUME Base, NEW id \in DOMAIN history, id = trace.projected + 1, trace.since <= trace.projected, NEW row
  PROVE  IsProjected(row, id) <=> IsProjected(row, trace.projected) \/ history[id] = row
<1>1. trace.since \in Nat /\ trace.projected \in Nat
  BY FieldTypes, TraceTypes
<1>2. (trace.since + 1) .. id = (trace.since + 1) .. trace.projected \cup {id}
  BY <1>1
<1>3. QED
  BY <1>2 DEF IsProjected

\* Before the last row no end is projected, ...
LEMMA NoEndBefore ==
  ASSUME Base, EndIsLast, NEW id \in DOMAIN history, id = trace.projected + 1, NEW end \in Ends
  PROVE  ~IsProjected(<<"ended", end>>, trace.projected)
<1>1. trace.since \in Nat /\ trace.projected \in Nat /\ DOMAIN history = 1..Len(history)
      /\ Len(history) \in Nat
  BY FieldTypes, TraceTypes
<1>2. ASSUME NEW i \in (trace.since + 1) .. trace.projected, history[i] = <<"ended", end>>
      PROVE  FALSE
  <2>1. i \in DOMAIN history /\ i < id
    BY <1>1
  <2>2. history[i][1] = "ended"
    BY <1>2
  <2>3. i = Len(history)
    BY <2>1, <2>2 DEF EndIsLast
  <2>4. QED
    BY <1>1, <2>1, <2>3
<1>3. QED
  BY <1>2 DEF IsProjected

\* ... and before an activity's outcome or the row that schedules it no outcome of it.
LEMMA NoOutcomeBefore ==
  ASSUME Base, Life, NEW id \in DOMAIN history, id = trace.projected + 1, NEW a \in Activities,
         history[id] \in OutcomesOf(a) \cup {<<"scheduled", a>>}, NEW row \in OutcomesOf(a)
  PROVE  ~IsProjected(row, trace.projected)
<1>1. trace.since \in Nat /\ trace.projected \in Nat /\ DOMAIN history = 1..Len(history)
      /\ Len(history) \in Nat
  BY FieldTypes, TraceTypes
<1>2. ASSUME NEW i \in (trace.since + 1) .. trace.projected, history[i] = row
      PROVE  FALSE
  <2>1. i \in DOMAIN history /\ i < id /\ history[i] \in OutcomesOf(a)
    BY <1>1, <1>2
  <2>2. QED
    BY <2>1 DEF Life, JournalShape
<1>3. QED
  BY <1>2 DEF IsProjected

\* Projecting a row gives every span what the rows up to it say.
LEMMA SpanStep ==
  ASSUME Base, Life, EndIsLast, NEW id \in DOMAIN history, id = trace.projected + 1,
         trace.since <= trace.projected, NEW a \in Activities,
         trace.spans[a] = SpanUpTo(a, trace.projected)
  PROVE  SpansAfter(id)[a] = SpanUpTo(a, id)
<1> DEFINE c == IsProjected(<<"completed", a>>, trace.projected)
           f == IsProjected(<<"failed", a>>, trace.projected)
           s == IsProjected(<<"scheduled", a>>, trace.projected)
           cn == IsProjected(<<"completed", a>>, id)
           fn == IsProjected(<<"failed", a>>, id)
           sn == IsProjected(<<"scheduled", a>>, id)
           e == \E end \in Cleanups : IsProjected(<<"ended", end>>, trace.projected)
           en == \E end \in Cleanups : IsProjected(<<"ended", end>>, id)
           Shown(x, y, z, clean) ==
             IF x THEN [status |-> "completed", ended |-> TRUE]
             ELSE IF y THEN [status |-> "failed", ended |-> TRUE]
             ELSE IF ~z THEN NoSpan
             ELSE IF run.tasks[a] = "cancelled" /\ clean
             THEN [status |-> "failed", ended |-> TRUE]
             ELSE [status |-> "running", ended |-> FALSE]
<1>1. SpanUpTo(a, trace.projected) = Shown(c, f, s, e) /\ SpanUpTo(a, id) = Shown(cn, fn, sn, en)
  BY SpanCases
<1>2. /\ cn <=> c \/ history[id] = <<"completed", a>>
      /\ fn <=> f \/ history[id] = <<"failed", a>>
      /\ sn <=> s \/ history[id] = <<"scheduled", a>>
  BY ProjectedNext
<1>3. ~e
  BY NoEndBefore DEF Cleanups, Ends
<1>4. en <=> \E end \in Cleanups : history[id] = <<"ended", end>>
  <2>1. \A end \in Cleanups : IsProjected(<<"ended", end>>, id) <=>
          IsProjected(<<"ended", end>>, trace.projected) \/ history[id] = <<"ended", end>>
    BY ProjectedNext
  <2>2. QED
    BY <1>3, <2>1
<1>5. trace.spans \in [Activities -> Span] /\ trace.spans[a] = Shown(c, f, s, FALSE)
  BY <1>1, <1>3, FieldTypes, TraceTypes
<1>6. history[id] \in OutcomesOf(a) \cup {<<"scheduled", a>>} => ~c /\ ~f
  BY NoOutcomeBefore DEF OutcomesOf
<1> HIDE DEF c, f, s, cn, fn, sn, e, en
<1>7. CASE history[id][1] \in {"scheduled", "completed", "failed"}
  <2>1. PICK kind \in {"scheduled", "completed", "failed"}, b \in Activities :
          /\ history[id] = <<kind, b>> /\ history[id][1] = kind /\ history[id][2] = b
    BY <1>7, RowKinds
  <2>2. ~en
    BY <1>4, <2>1
  <2>3. SpansAfter(id) = UpsertSpan(trace.spans, kind, b)
    BY <2>1 DEF SpansAfter
  <2>4. CASE b # a
    <3>1. SpansAfter(id)[a] = trace.spans[a]
      BY <1>5, <2>3, <2>4 DEF UpsertSpan
    <3>2. cn = c /\ fn = f /\ sn = s
      BY <1>2, <2>1, <2>4 DEF c, f, s, cn, fn, sn, IsProjected
    <3>3. QED
      BY <1>1, <1>5, <2>2, <3>1, <3>2
  <2>5. CASE b = a
    <3>1. SpansAfter(id)[a] = [status |-> IF kind = "scheduled" THEN "running" ELSE kind,
                               ended |-> trace.spans[a].ended \/ kind # "scheduled"]
      BY <1>5, <2>3, <2>5 DEF UpsertSpan
    <3>2. ~c /\ ~f
      BY <1>6, <2>1, <2>5 DEF OutcomesOf
    <3>3. CASE kind = "completed"
      BY <1>1, <1>2, <2>1, <2>5, <3>1, <3>3
    <3>4. CASE kind = "failed"
      <4>1. ~cn /\ fn
        BY <1>2, <2>1, <2>5, <3>2, <3>4
      <4>2. QED
        BY <1>1, <3>1, <3>4, <4>1
    <3>5. CASE kind = "scheduled"
      <4>1. ~cn /\ ~fn /\ sn
        BY <1>2, <2>1, <2>5, <3>2, <3>5
      <4>2. trace.spans[a].ended = FALSE
        BY <1>5, <3>2 DEF NoSpan
      <4>3. QED
        BY <1>1, <2>2, <3>1, <3>5, <4>1, <4>2
    <3>6. QED
      BY <2>1, <3>3, <3>4, <3>5
  <2>6. QED
    BY <2>4, <2>5
<1>8. CASE history[id][1] \notin {"scheduled", "completed", "failed"}
  <2>1. (cn <=> c) /\ (fn <=> f) /\ (sn <=> s)
    BY <1>2, <1>8
  <2>2. CASE history[id][1] = "ended" /\ history[id][2] \in Cleanups
    <3>1. en
      BY <1>4, <2>2, RowKinds
    <3>2. SpansAfter(id)[a] = IF run.tasks[a] = "cancelled" THEN CloseTerminalActivitySpan(trace.spans[a])
                              ELSE trace.spans[a]
      BY <2>2 DEF SpansAfter, CloseSpans
    <3>3. CloseTerminalActivitySpan(trace.spans[a]) =
            IF ~c /\ ~f /\ s THEN [status |-> "failed", ended |-> TRUE] ELSE trace.spans[a]
      BY <1>5 DEF CloseTerminalActivitySpan, NoSpan
    <3>4. QED
      BY <1>1, <1>5, <2>1, <3>1, <3>2, <3>3
  <2>3. CASE ~(history[id][1] = "ended" /\ history[id][2] \in Cleanups)
    <3>1. ~en
      BY <1>4, <2>3
    <3>2. SpansAfter(id)[a] = trace.spans[a]
      BY <1>8, <2>3 DEF SpansAfter
    <3>3. QED
      BY <1>1, <1>5, <2>1, <3>1, <3>2
  <2>4. QED
    BY <2>2, <2>3
<1>9. QED
  BY <1>7, <1>8

LEMMA SpanCasesNext ==
  ASSUME NEW a
  PROVE  SpanUpTo(a, trace.projected)' =
           IF IsProjected(<<"completed", a>>, trace.projected)' THEN [status |-> "completed", ended |-> TRUE]
           ELSE IF IsProjected(<<"failed", a>>, trace.projected)' THEN [status |-> "failed", ended |-> TRUE]
           ELSE IF ~IsProjected(<<"scheduled", a>>, trace.projected)' THEN NoSpan
           ELSE IF run'.tasks[a] = "cancelled"
                   /\ \E end \in Cleanups : IsProjected(<<"ended", end>>, trace.projected)'
           THEN [status |-> "failed", ended |-> TRUE]
           ELSE [status |-> "running", ended |-> FALSE]
<1> DEFINE rows == {history'[i] : i \in (trace'.since + 1) .. trace'.projected}
<1>1. \A row : row \in rows <=> IsProjected(row, trace.projected)'
  BY DEF IsProjected
<1>2. SpanUpTo(a, trace.projected)' =
        IF <<"completed", a>> \in rows THEN [status |-> "completed", ended |-> TRUE]
        ELSE IF <<"failed", a>> \in rows THEN [status |-> "failed", ended |-> TRUE]
        ELSE IF <<"scheduled", a>> \notin rows THEN NoSpan
        ELSE IF run'.tasks[a] = "cancelled" /\ \E end \in Cleanups : <<"ended", end>> \in rows
        THEN [status |-> "failed", ended |-> TRUE]
        ELSE [status |-> "running", ended |-> FALSE]
  BY DEF SpanUpTo
<1> HIDE DEF rows
<1>3. QED
  BY <1>1, <1>2

\* Appending to a run that has not ended.
LEMMA AppendKeepsDetail ==
  ASSUME Base, Life, Detail, ~HasEnded, NEW rows \in Seq(Rows), Appended(rows), EndIsLast'
  PROVE  Detail'
<1>1. /\ history' = history \o rows /\ deleted' = deleted /\ projector' = projector
      /\ trace'.projected = trace.projected /\ trace'.since = trace.since
      /\ trace'.events = trace.events /\ trace'.spans = trace.spans
      /\ trace'.state \in {trace.state, "catching_up"}
  BY DEF Appended, SameDetail
<1>2. /\ \A i \in DOMAIN history : i \in DOMAIN history' /\ history'[i] = history[i]
      /\ DOMAIN history = 1..Len(history) /\ Len(history) \in Nat
      /\ trace.projected \in Nat /\ trace.projected <= Len(history) /\ trace.since \in Nat
      /\ deleted \in Nat
  BY <1>1, Joined, FieldTypes, TraceTypes
<1>3. \A i \in DOMAIN history : history[i][1] # "ended"
  <2>1. ASSUME NEW i \in DOMAIN history, history[i][1] = "ended"
        PROVE  FALSE
    <3>1. history[i][2] \in Ends /\ history[i][2] = run.status
      BY <2>1, RowKinds DEF Life, Settled
    <3>2. QED
      BY <3>1 DEF HasEnded
  <2>2. QED
    BY <2>1
<1>4. EndIsLast /\ deleted = 0 /\ trace.state \notin Reduced
  BY <1>2, <1>3 DEF EndIsLast, Life, Settled
<1>5. DetailFits'
  BY <1>1, <1>4 DEF Detail, DetailFits, Reduced
<1>6. \A row : IsProjected(row, trace.projected)' <=> IsProjected(row, trace.projected)
  <2>1. \A i \in (trace.since + 1) .. trace.projected : i \in DOMAIN history
    BY <1>2
  <2>2. \A i \in (trace.since + 1) .. trace.projected : history'[i] = history[i]
    BY <1>2, <2>1
  <2>3. QED
    BY <1>1, <2>2 DEF IsProjected
<1>7. \A end \in Cleanups : ~IsProjected(<<"ended", end>>, trace.projected)
  <2>1. \A i \in (trace.since + 1) .. trace.projected : i \in DOMAIN history
    BY <1>2
  <2>2. QED
    BY <1>3, <2>1 DEF IsProjected
<1>8. ASSUME NEW a \in Activities
      PROVE  SpanUpTo(a, trace.projected)' = SpanUpTo(a, trace.projected)
  <2> DEFINE c == IsProjected(<<"completed", a>>, trace.projected)
             f == IsProjected(<<"failed", a>>, trace.projected)
             s == IsProjected(<<"scheduled", a>>, trace.projected)
             cn == IsProjected(<<"completed", a>>, trace.projected)'
             fn == IsProjected(<<"failed", a>>, trace.projected)'
             sn == IsProjected(<<"scheduled", a>>, trace.projected)'
             en == \E end \in Cleanups : IsProjected(<<"ended", end>>, trace.projected)'
             Shown(x, y, z, clean) ==
               IF x THEN [status |-> "completed", ended |-> TRUE]
               ELSE IF y THEN [status |-> "failed", ended |-> TRUE]
               ELSE IF ~z THEN NoSpan
               ELSE IF clean THEN [status |-> "failed", ended |-> TRUE]
               ELSE [status |-> "running", ended |-> FALSE]
  <2>1. SpanUpTo(a, trace.projected) = Shown(c, f, s, FALSE)
    BY <1>7, SpanCases
  <2>2. SpanUpTo(a, trace.projected)' = Shown(cn, fn, sn, run'.tasks[a] = "cancelled" /\ en)
    BY SpanCasesNext
  <2>3. (cn <=> c) /\ (fn <=> f) /\ (sn <=> s) /\ ~en
    BY <1>6, <1>7
  <2> HIDE DEF c, f, s, cn, fn, sn, en
  <2>4. QED
    BY <2>1, <2>2, <2>3
<1>9. DetailFollowsHistory'
  BY <1>1, <1>4, <1>8 DEF Detail, DetailFollowsHistory, EndIsLast
<1>10. QED
  BY <1>5, <1>9 DEF Detail

\* Spans show the same as long as the rows that they are of stay, and what was cancelled.
LEMMA SpansStay ==
  ASSUME history' = history, trace'.since = trace.since, trace'.projected = trace.projected,
         NEW a, run'.tasks[a] = "cancelled" <=> run.tasks[a] = "cancelled"
  PROVE  SpanUpTo(a, trace.projected)' = SpanUpTo(a, trace.projected)
BY DEF SpanUpTo

\* The writers that leave the detail.
LEMMA OthersKeepDetail ==
  ASSUME Base, Detail, EndIsLast', history' = history, SameDetail(trace', trace),
         \A a \in Activities : run'.tasks[a] = "cancelled" <=> run.tasks[a] = "cancelled",
         deleted' = deleted,
         trace'.state = trace.state \/ trace.state = "summary_only",
         \A p \in Projectors : \/ projector'[p] \in {projector[p], NoTarget}
                               \/ projector'[p].row = trace.projected + 1
                               \/ trace.state \notin Reduced /\ deleted > 0
  PROVE  Detail'
<1>1. EndIsLast
  BY DEF EndIsLast
<1>2. /\ trace'.projected = trace.projected /\ trace'.since = trace.since
      /\ trace'.events = trace.events /\ trace'.spans = trace.spans
  BY DEF SameDetail
<1>3. deleted > 0 => trace.state = "journal_expired"
  BY <1>1 DEF Detail, DetailFits
<1>4. DetailFits'
  <2>1. deleted' > 0 => trace'.state = "journal_expired"
    BY <1>3
  <2>2. trace'.state # "journal_expired" => trace'.since <= trace'.projected
    BY <1>1, <1>2 DEF Detail, DetailFits
  <2>3. \A p \in Projectors : projector'[p] # NoTarget => projector'[p].row = trace'.projected + 1
    BY <1>1, <1>2, <1>3 DEF Detail, DetailFits, Reduced
  <2>4. QED
    BY <2>1, <2>2, <2>3 DEF DetailFits
<1>5. \A a \in Activities : SpanUpTo(a, trace.projected)' = SpanUpTo(a, trace.projected)
  BY <1>2, SpansStay
<1>6. DetailFollowsHistory'
  BY <1>1, <1>2, <1>5 DEF Detail, DetailFollowsHistory, EndIsLast
<1>7. QED
  BY <1>4, <1>6 DEF Detail

\* Reducing the trace leaves no detail, and retention leaves the detail without history.
LEMMA ReduceKeepsDetail ==
  ASSUME Base, Life, Detail, Reduces, EndIsLast'
  PROVE  Detail'
<1>1. /\ history' = history /\ projector' = projector /\ trace'.projected = trace.projected
      /\ trace' \in Trace
  BY DEF Reduces
<1>2. EndIsLast
  BY <1>1 DEF EndIsLast
<1>3. /\ Len(history) \in Nat /\ deleted \in Nat /\ trace.projected \in Nat
      /\ trace.projected <= Len(history) /\ DOMAIN history = 1..Len(history)
      /\ run \in [status : Statuses, tasks : [Activities -> Tasks]]
  BY FieldTypes DEF Base, TypeOK
<1>4. /\ deleted > 0 => trace.state = "journal_expired"
      /\ trace.state # "journal_expired" => trace.since <= trace.projected
      /\ \A p \in Projectors : projector[p] # NoTarget => projector[p].row = trace.projected + 1
      /\ trace.events = (trace.since + 1) .. trace.projected
  BY <1>2 DEF Detail, DetailFits, DetailFollowsHistory, EndIsLast
<1>5. CASE run' = run /\ deleted' = deleted /\ SameDetail(trace', trace)
           /\ (trace'.state = trace.state \/ trace.state = "summary_only")
  BY <1>1, <1>5, OthersKeepDetail
<1>6. CASE /\ trace'.events = {} /\ trace'.spans = NoSpans
           /\ \/ /\ trace.state \notin Reduced /\ trace'.state = "summary_only"
                 /\ trace'.since = trace.projected /\ deleted' = deleted
              \/ /\ trace.state # "journal_expired" /\ trace'.state = "journal_expired"
                 /\ trace'.since = Len(history) /\ deleted' = Len(history)
  <2>1. (trace'.since + 1) .. trace'.projected = {}
    BY <1>1, <1>3, <1>6
  <2>2. ASSUME NEW a \in Activities
        PROVE  SpanUpTo(a, trace.projected)' = NoSpan
    <3>1. \A row : ~IsProjected(row, trace.projected)'
      BY <2>1 DEF IsProjected
    <3>2. QED
      BY <3>1, SpanCasesNext
  <2>3. DetailFollowsHistory'
    BY <1>6, <2>1, <2>2 DEF DetailFollowsHistory, NoSpans
  <2>4. DetailFits'
    BY <1>1, <1>3, <1>4, <1>6 DEF DetailFits, Reduced
  <2>5. QED
    BY <2>3, <2>4 DEF Detail
<1>7. CASE /\ HasEnded /\ SameDetail(trace', trace) /\ deleted' = Len(history)
           /\ trace'.state = "journal_expired"
  <2>1. Len(history) > 0
    BY <1>3, <1>7 DEF Life, Settled
  <2>2. trace'.events = trace.events /\ trace'.since = trace.since
    BY <1>7 DEF SameDetail
  <2>3. DetailFollowsHistory'
    BY <1>1, <1>3, <1>4, <1>7, <2>1, <2>2 DEF DetailFollowsHistory
  <2>4. DetailFits'
    BY <1>1, <1>4, <1>7 DEF DetailFits
  <2>5. QED
    BY <2>3, <2>4 DEF Detail
<1>8. QED
  BY <1>5, <1>6, <1>7 DEF Reduces

\* One projector projects one row after the other.
LEMMA ProjectKeepsDetail ==
  ASSUME Base, Life, Detail, NEW p \in Projectors, Projects(p), EndIsLast',
         \A q \in Projectors : q = p
  PROVE  Detail'
<1> DEFINE id == projector[p].row
<1>1. /\ UNCHANGED <<run, history, deleted, outcome>> /\ trace'.since = trace.since
      /\ projector' = [projector EXCEPT ![p] = NoTarget] /\ projector[p] # NoTarget
      /\ projector \in [Projectors -> Targets]
  BY FieldTypes DEF Projects
<1>2. EndIsLast
  BY <1>1 DEF EndIsLast
<1>3. /\ Len(history) \in Nat /\ deleted \in Nat /\ trace.projected \in Nat
      /\ DOMAIN history = 1..Len(history) /\ trace.since \in Nat
  BY FieldTypes, TraceTypes
<1>4. /\ deleted > 0 => trace.state = "journal_expired"
      /\ trace.state # "journal_expired" => trace.since <= trace.projected
      /\ id = trace.projected + 1
      /\ trace.events = (trace.since + 1) .. trace.projected
      /\ deleted = 0 => \A a \in Activities : trace.spans[a] = SpanUpTo(a, trace.projected)
  BY <1>1, <1>2 DEF Detail, DetailFits, DetailFollowsHistory, EndIsLast
<1>5. \A q \in Projectors : projector'[q] = NoTarget
  BY <1>1
<1>6. CASE trace' = trace
  <2>1. SameDetail(trace', trace)
    BY <1>6, FieldTypes DEF SameDetail
  <2>2. QED
    BY <1>1, <1>5, <1>6, <2>1, OthersKeepDetail
<1>7. CASE trace.state \notin Reduced /\ id = 0
  BY <1>3, <1>4, <1>7
<1>8. CASE /\ trace.state \notin Reduced /\ id \in DOMAIN history
           /\ trace'.projected = (IF trace.projected < id THEN id ELSE trace.projected)
           /\ trace'.state = Label(trace'.projected)
           /\ trace'.events = trace.events \cup {id} /\ trace'.spans = SpansAfter(id)
  <2>1. deleted = 0 /\ trace.since <= trace.projected /\ trace'.projected = id
    BY <1>3, <1>4, <1>8 DEF Reduced
  <2>2. trace'.events = (trace'.since + 1) .. trace'.projected
    BY <1>1, <1>3, <1>4, <1>8, <2>1
  <2>3. ASSUME NEW a \in Activities
        PROVE  trace'.spans[a] = SpanUpTo(a, trace.projected)'
    <3>1. trace'.spans[a] = SpanUpTo(a, id)
      BY <1>2, <1>4, <1>8, <2>1, SpanStep
    <3>2. SpanUpTo(a, trace.projected)' = SpanUpTo(a, id)
      BY <1>1, <2>1 DEF SpanUpTo
    <3>3. QED
      BY <3>1, <3>2
  <2>4. DetailFollowsHistory'
    BY <2>2, <2>3 DEF DetailFollowsHistory
  <2>5. DetailFits'
    <3>1. deleted' = 0 /\ trace'.since <= trace'.projected
      BY <1>1, <1>3, <1>4, <2>1
    <3>2. QED
      BY <1>5, <3>1 DEF DetailFits
  <2>6. QED
    BY <2>4, <2>5 DEF Detail
<1>9. QED
  BY <1>6, <1>7, <1>8 DEF Projects

LEMMA DetailPreserved ==
  ASSUME Base, Life, Detail, [Next]_vars, \A p, q \in Projectors : p = q
  PROVE  Detail'
<1> SUFFICES ASSUME EndIsLast'
             PROVE  Detail'
  BY DEF Detail, DetailFits, DetailFollowsHistory, EndIsLast
<1>1. /\ run \in [status : Statuses, tasks : [Activities -> Tasks]] /\ trace \in Trace
      /\ outcome \in [activity : Activities, status : Statuses] \cup {NoRead}
      /\ Settled
  BY FieldTypes DEF Base, TypeOK, Life
<1>2. CASE UNCHANGED vars
  <2>1. UNCHANGED <<run, history, deleted, trace, projector, outcome>>
    BY <1>2 DEF vars
  <2>2. SameDetail(trace', trace)
    BY <1>1, <2>1 DEF SameDetail
  <2>3. QED
    BY <2>1, <2>2, OthersKeepDetail
<1>3. ASSUME NEW rows \in Seq(Rows), NEW status \in Statuses, NEW tasks \in [Activities -> Tasks],
             Commits(rows, status, tasks), Fits(rows, status, tasks)
      PROVE  Detail'
  <2>1. ~HasEnded /\ Appended(rows)
    BY <1>3 DEF Commits, Fits
  <2>2. QED
    BY <2>1, AppendKeepsDetail
<1>4. CASE Retries
  <2>1. PICK a \in Activities : Appended(<<<<"retried", a>>>>)
    BY <1>4 DEF Retries
  <2> DEFINE rows == <<<<"retried", a>>>>
  <2>2. rows \in Seq(Rows) /\ Appended(rows) /\ Len(rows) = 1
    BY <2>1 DEF Rows
  <2> HIDE DEF rows
  <2>3. ~HasEnded
    <3>1. ASSUME HasEnded
          PROVE  FALSE
      <4>1. PICK i \in DOMAIN history : history[i][1] = "ended"
        BY <1>1, <3>1 DEF Settled
      <4>2. /\ i \in DOMAIN history' /\ history'[i] = history[i]
            /\ Len(history') = Len(history) + Len(rows)
        BY <2>2, Joined DEF Appended
      <4>3. i = Len(history) + 1
        BY <2>2, <4>1, <4>2 DEF EndIsLast
      <4>4. QED
        BY <4>1, <4>3, FieldTypes
    <3>2. QED
      BY <3>1
  <2>4. QED
    BY <2>2, <2>3, AppendKeepsDetail
<1>5. CASE Reads
  <2>1. UNCHANGED <<run, history, deleted, trace>>
    BY <1>5 DEF Reads
  <2>2. SameDetail(trace', trace)
    BY <1>1, <2>1 DEF SameDetail
  <2>3. \A p \in Projectors : \/ projector'[p] \in {projector[p], NoTarget}
                              \/ projector'[p].row = trace.projected + 1
                              \/ trace.state \notin Reduced /\ deleted > 0
    BY <1>5, FieldTypes DEF Reads
  <2>4. QED
    BY <2>1, <2>2, <2>3, OthersKeepDetail
<1>6. CASE StoresAndSyncs
  <2>1. /\ outcome # NoRead /\ UNCHANGED <<history, deleted, projector>>
        /\ SameDetail(trace', trace) /\ trace'.state = trace.state
    BY <1>6 DEF StoresAndSyncs
  <2>2. PICK result \in Outcomes : run' = [run EXCEPT !.tasks[outcome.activity] = result]
    BY <1>6 DEF StoresAndSyncs
  <2>3. run.tasks[outcome.activity] = "open" /\ outcome.activity \in Activities
    BY <1>1, <2>1 DEF Settled
  <2>4. \A a \in Activities : run'.tasks[a] = "cancelled" <=> run.tasks[a] = "cancelled"
    BY <1>1, <2>2, <2>3 DEF Outcomes
  <2>5. QED
    BY <2>1, <2>4, OthersKeepDetail
<1>7. CASE Reduces
  BY <1>7, ReduceKeepsDetail
<1>8. ASSUME NEW p \in Projectors, Projects(p)
      PROVE  Detail'
  BY <1>8, ProjectKeepsDetail
<1>9. QED
  BY <1>1, <1>2, <1>3, <1>4, <1>5, <1>6, <1>7, <1>8, Steps

(***************************************************************************)
(* The theorems.                                                           *)
(***************************************************************************)

LEMMA InvariantIsInductive ==
  ASSUME Base, Life, [Next]_vars
  PROVE  Base' /\ Life'
BY BasePreserved, LifePreserved DEF Life

\* The run, its history, its trace and the projectors' targets keep their types, and a
\* trace's checkpoint never passes the newest row that it has been told of.
THEOREM TypesAreCorrect == Spec => []TypeOK
<1>1. Init => Base /\ Life
  BY InvariantHoldsFirst
<1>2. Base /\ Life /\ [Next]_vars => Base' /\ Life'
  BY InvariantIsInductive
<1>3. Base => TypeOK
  BY DEF Base
<1>4. QED
  BY <1>1, <1>2, <1>3, PTL DEF Spec

\* For every number of projectors, the label that a trace carries is the truth about its
\* checkpoint, whoever wrote it last (UpdateLatestHistory, AdvanceCheckpoint, RepairRun).
THEOREM LabelIsTheTruth == Spec => []StateTellsTheTruth
<1>1. Init => Base /\ Life
  BY InvariantHoldsFirst
<1>2. Base /\ Life /\ [Next]_vars => Base' /\ Life'
  BY InvariantIsInductive
<1>3. Base => StateTellsTheTruth
  BY DEF Base
<1>4. QED
  BY <1>1, <1>2, <1>3, PTL DEF Spec

\* For every number of projectors, no late writer of the trace hides how a run ended,
\* unless it failed for want of its version and left open tasks: whoever ends a run
\* otherwise leaves none (completeRun needs every activity's outcome, a cancellation and
\* a terminate wait for the task rows), so nobody is left who read an earlier status.
THEOREM EndsAreShown == Spec => []EndIsShown
<1>1. Init => Base /\ Life
  BY InvariantHoldsFirst
<1>2. Base /\ Life /\ [Next]_vars => Base' /\ Life'
  BY InvariantIsInductive
<1>3. Life => EndIsShown
  BY DEF Life
<1>4. QED
  BY <1>1, <1>2, <1>3, PTL DEF Spec

\* While one projector follows the run, the events and spans are exactly what the rows up
\* to the checkpoint say, across purges, repairs, retention and crashes (projectHistoryRow
\* under WithProjectionBarrier).  With a second projector it is false: a row may be
\* written twice, the second time after later ones.
THEOREM DetailIsTheHistorys ==
  ASSUME \A p, q \in Projectors : p = q
  PROVE  Spec => []DetailFollowsHistory
<1>1. Init => Base /\ Life /\ Detail
  BY InvariantHoldsFirst
<1>2. Base /\ Life /\ [Next]_vars => Base' /\ Life'
  BY InvariantIsInductive
<1>3. Base /\ Life /\ Detail /\ [Next]_vars => Detail'
  BY DetailPreserved
<1>4. Detail => DetailFollowsHistory
  BY DEF Detail
<1>5. QED
  BY <1>1, <1>2, <1>3, <1>4, PTL DEF Spec

=============================================================================

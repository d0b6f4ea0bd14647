-------------------------- MODULE ParentChildProofs --------------------------
(***************************************************************************)
(* Theorems about families of runs, for every set of instances, every      *)
(* number of workers and clients, every depth and every limit.             *)
(***************************************************************************)
EXTENDS ParentChildProperties, SequenceTheorems, FiniteSetTheorems, WellFoundedInduction, TLAPS

(***************************************************************************)
(* Types.                                                                  *)
(***************************************************************************)

LEMMA NewRunType ==
  ASSUME NEW p \in Runs \cup {None}, NEW d \in Nat
  PROVE  /\ NewRun(p, d) \in Run
         /\ NewRun(p, d).status = "queued" /\ NewRun(p, d).call = None
         /\ NewRun(p, d).parent = p /\ NewRun(p, d).depth = d
         /\ NewRun(p, d).cancelSent = FALSE
<1>1. <<>> \in Seq(Items)
  BY EmptySeq
<1>2. QED
  BY <1>1 DEF NewRun, Run, Open, Calls

LEMMA RowTypes ==
  /\ NoRun \in Run /\ NoRun.status = "none" /\ NoRun.call = None
  /\ NoChild \in Child /\ Idle \in Worker /\ NoRequest \in Client
<1>1. NewRun(None, 0) \in Run /\ NewRun(None, 0).call = None
  BY NewRunType
<1>2. NoRun \in Run /\ NoRun.status = "none" /\ NoRun.call = None
  BY <1>1 DEF NoRun, Run
<1>3. NoChild \in Child /\ NoRequest \in Client
  BY Limits DEF NoChild, Child, NoRequest, Client
<1>4. Idle \in Worker
  BY <1>2 DEF Idle, Worker
<1>5. QED
  BY <1>2, <1>3, <1>4

LEMMA RunNames ==
  /\ \A r \in Runs : r[1] \in Instances /\ r[2] \in 1..MaxNumber /\ r = <<r[1], r[2]>> /\ r # None
  /\ \A i \in Instances, n \in 1..MaxNumber : <<i, n>> \in Runs
  /\ \A i \in Instances : First(i) \in Runs /\ i # None /\ i # "signal"
  /\ None # "signal"
<1>1. \A r \in Runs : r # None
  BY NoneIsNothing
<1>2. \A r \in Runs : r[1] \in Instances /\ r[2] \in 1..MaxNumber /\ r = <<r[1], r[2]>>
  BY DEF Runs
<1>3. \A i \in Instances, n \in 1..MaxNumber : <<i, n>> \in Runs
  BY DEF Runs
<1>4. \A i \in Instances : First(i) \in Runs
  BY <1>3, Limits DEF First
<1>5. None # "signal" /\ \A i \in Instances : i # None /\ i # "signal"
  BY NoneIsNothing, SignalIsNoInstance
<1>6. \A r \in Runs : r[1] \in Instances /\ r[2] \in 1..MaxNumber /\ r = <<r[1], r[2]>> /\ r # None
  BY <1>1, <1>2, Zenon
<1>7. QED
  BY <1>3, <1>4, <1>5, <1>6, Zenon

\* Taking cancels leaves everything but the inbox.
LEMMA AdvancedType ==
  ASSUME NEW row \in Run
  PROVE  /\ Advanced(row) \in Run
         /\ Advanced(row).status = row.status /\ Advanced(row).call = row.call
         /\ Advanced(row).parent = row.parent /\ Advanced(row).depth = row.depth
         /\ Advanced(row).cancelSent = row.cancelSent
<1>1. row.inbox \in Seq(Items)
  BY DEF Run
<1>2. row.inbox # <<>> => Tail(row.inbox) \in Seq(Items)
  BY <1>1, HeadTailProperties
<1>3. QED
  BY <1>1, <1>2 DEF Advanced, Run

LEMMA ReturnedType ==
  ASSUME NEW row \in Run
  PROVE  /\ Returned(row) \in Run
         /\ Returned(row).status = row.status /\ Returned(row).call = None
         /\ Returned(row).parent = row.parent /\ Returned(row).depth = row.depth
         /\ Returned(row).cancelSent = row.cancelSent
<1> DEFINE done == [row EXCEPT !.call = None, !.diverged = row.unrecorded]
<1>1. done \in Run
  BY DEF Run, Calls
<1>2. done.status = row.status /\ done.call = None /\ done.parent = row.parent
      /\ done.depth = row.depth /\ done.cancelSent = row.cancelSent
  BY DEF Run
<1>3. Returned(row) = Advanced(done)
  BY DEF Returned
<1>4. QED
  BY <1>1, <1>2, <1>3, AdvancedType, ZenonT(60)

\* The well-founded order is that of the initial segments.
LEMMA Minimum ==
  ASSUME NEW n \in Nat, NEW S, S \subseteq 1..n, S # {}
  PROVE  Min(S) \in S
<1> DEFINE segments == {1..x : x \in S}
<1>1. IsFiniteSet(1..n)
  BY FS_Interval
<1>2. segments \subseteq FiniteSubsetsOf(1..n) /\ segments # {}
  <2>1. \A x \in S : 1..x \subseteq 1..n
    OBVIOUS
  <2>2. \A x \in S : 1..x \in FiniteSubsetsOf(1..n)
    BY <1>1, <2>1, FS_Subset DEF FiniteSubsetsOf
  <2>3. QED
    BY <2>2
<1>3. \E m \in segments : \A t \in segments : ~ (<<t, m>> \in StrictSubsetOrdering(1..n))
  BY <1>2, FS_StrictSubsetOrderingWellFounded, WFMin
<1>4. PICK x \in S : \A t \in segments : ~ (<<t, 1..x>> \in StrictSubsetOrdering(1..n))
  BY <1>3
<1>5. ASSUME NEW y \in S
      PROVE  x <= y
  <2>1. SUFFICES ASSUME y < x
                 PROVE  FALSE
    OBVIOUS
  <2>2. 1..y \subseteq 1..x /\ x \in 1..x /\ x \notin 1..y /\ 1..x \subseteq 1..n
    BY <2>1
  <2>3. <<1..y, 1..x>> \in StrictSubsetOrdering(1..n)
    BY <2>2 DEF StrictSubsetOrdering
  <2>4. QED
    BY <1>4, <2>3
<1>6. QED
  BY <1>5 DEF Min

LEMMA RemoveFirstType ==
  ASSUME NEW s \in Seq(Items), NEW e
  PROVE  RemoveFirst(s, e) \in Seq(Items)
<1>1. CASE \E i \in 1..Len(s) : s[i] = e
  <2> DEFINE places == {i \in 1..Len(s) : s[i] = e}
             i == SelectInSeq(s, LAMBDA v : v = e)
  <2>1. places # {} /\ places \subseteq 1..Len(s) /\ Len(s) \in Nat
    BY <1>1, LenProperties
  <2>2. i = Min(places)
    BY <2>1 DEF SelectInSeq
  <2>4. RemoveFirst(s, e) = SubSeq(s, 1, i - 1) \o SubSeq(s, i + 1, Len(s))
    BY <1>1 DEF RemoveFirst, RemoveAt
  <2> HIDE DEF places, i
  <2>3. i \in 1..Len(s)
    BY <2>1, <2>2, Minimum
  <2>5. \A j \in 1..Len(s) : s[j] \in Items
    BY ElementOfSeq
  <2>6. SubSeq(s, 1, i - 1) \in Seq(Items)
    BY <2>3, <2>5, SubSeqProperties
  <2>7. SubSeq(s, i + 1, Len(s)) \in Seq(Items)
    BY <2>3, <2>5, SubSeqProperties
  <2>8. QED
    BY <2>4, <2>6, <2>7, ConcatProperties
<1>2. CASE ~\E i \in 1..Len(s) : s[i] = e
  BY <1>2 DEF RemoveFirst
<1>3. QED
  BY <1>1, <1>2

(***************************************************************************)
(* The inductive invariant.                                                *)
(***************************************************************************)

Exists(r) == runs[r].status # "none"

\* A run's parent and depth agree with its instance's relationship; runs of clients
\* have none.
RunsHaveParents ==
    \A r \in Runs : Exists(r) =>
        /\ (runs[r].parent = None) <=> (r[1] \in Roots)
        /\ runs[r].parent # None =>
             /\ runs[r].parent = children[r[1]].parent
             /\ Exists(runs[r].parent)
             /\ runs[r].depth = runs[runs[r].parent].depth + 1

\* Only a run that has continued as new is followed by another of its instance.
RunsContinue ==
    \A r \in Runs : r[2] < MaxNumber /\ Exists(Successor(r)) => runs[r].status = "continued_as_new"

RelationshipsHaveRuns ==
    \A c \in Instances :
        /\ children[c].status = "none" => children[c] = NoChild
        /\ children[c].status # "none" =>
             /\ c \notin Roots
             /\ children[c].current \in 1..MaxNumber
             /\ children[c].parent \in Runs

\* A run calls its own children only.
CallsAreChildren ==
    \A r \in Runs : runs[r].call \in Instances => children[runs[r].call].parent = r

Family ==
    /\ RunsHaveParents
    /\ RunsContinue
    /\ RelationshipsHaveRuns
    /\ RelationshipFollowsChild
    /\ CallsAreChildren

\* One worker at most has claimed a run, and the run does not wait meanwhile.
ClaimsAreFenced ==
    \A w \in Workers : worker[w].pc # "idle" =>
        /\ worker[w].run \in Runs
        /\ runs[worker[w].run].status \in {"running"} \cup Terminal
        /\ \A v \in Workers : worker[v].pc # "idle" /\ worker[v].run = worker[w].run => v = w

\* What an activation has read is still so.
ViewIsCurrent(w) ==
    /\ runs[Mine(w)].status = "running" /\ View(w).status = "running"
    /\ View(w).parent = runs[Mine(w)].parent
    /\ View(w).depth = runs[Mine(w)].depth
    /\ View(w).cancelSent = runs[Mine(w)].cancelSent
    /\ worker[w].answer = AnswerTo(runs[Mine(w)].call)
    /\ \/ View(w).call = runs[Mine(w)].call
       \/ /\ View(w).call = None
          /\ runs[Mine(w)].call \in Instances => worker[w].answer # "none"

ViewsAreCurrent == \A w \in Workers : worker[w].pc = "locked" => ViewIsCurrent(w)

\* No row is locked twice.
Exclusion ==
    /\ \A v, w \in Workers : v # w => WorkerLocks(v) \cap WorkerLocks(w) = {}
    /\ \A w \in Workers, k \in Clients : WorkerLocks(w) \cap client[k].locked = {}
    /\ \A j, k \in Clients : j # k => client[j].locked \cap client[k].locked = {}

RequestBegins(k) ==
    /\ client[k].pc = "idle" => client[k] = NoRequest
    /\ client[k].pc # "idle" => client[k].target \in Runs /\ Exists(client[k].target)
    /\ client[k].pc \in {"begun", "parentLocked"} =>
         client[k].listed = {} /\ client[k].unlisted = {} /\ client[k].subtree = {}
    /\ client[k].pc = "begun" => client[k].locked = {}
    /\ client[k].pc = "parentLocked" => client[k].locked = {runs[client[k].target].parent} \ {None}

\* A terminate on its way down: it holds the parents of what it will terminate, and
\* every active child of a listed row is locked, or on the list.
RequestDescends(k) ==
    client[k].pc = "descending" =>
        /\ client[k].target \in client[k].subtree
        /\ client[k].unlisted \subseteq client[k].subtree
        /\ client[k].subtree \subseteq client[k].locked
        /\ \A q \in client[k].locked : Exists(q)
        /\ \A q \in client[k].subtree \ {client[k].target} : runs[q].parent \in client[k].subtree
        /\ \A q \in client[k].subtree :
             IsOpen(q) /\ (runs[q].parent = None \/ runs[q].parent \in client[k].locked)
        /\ \A q \in client[k].listed : Exists(q) /\ runs[q].parent \in client[k].subtree
        /\ \A r \in client[k].subtree \ client[k].unlisted, c \in Instances :
             children[c].parent = r /\ children[c].status = "active"
               => Current(c) \in client[k].listed \cup client[k].subtree

\* It takes one level after the other.
RequestTakesLevels(k) ==
    client[k].pc = "descending" =>
        /\ \A p, q \in client[k].listed \cup client[k].unlisted : runs[p].depth = runs[q].depth
        /\ \A p \in client[k].locked, q \in client[k].listed \cup client[k].unlisted :
             runs[p].depth <= runs[q].depth
        /\ \A p \in client[k].locked, q \in client[k].listed : Before(p, q)

Requests == \A k \in Clients : RequestBegins(k) /\ RequestDescends(k) /\ RequestTakesLevels(k)

IInv == TypeOK /\ Family /\ ClaimsAreFenced /\ ViewsAreCurrent /\ Exclusion /\ Requests

(***************************************************************************)
(* The steps keep the types.                                               *)
(***************************************************************************)

LEMMA FieldTypes ==
  ASSUME TypeOK
  PROVE  /\ \A r \in Runs : runs[r] \in Run
         /\ \A c \in Instances : children[c] \in Child
         /\ \A w \in Workers : worker[w] \in Worker /\ View(w) \in Run
         /\ \A k \in Clients : client[k] \in Client
BY DEF TypeOK, Worker, View

LEMMA AnswerType ==
  ASSUME TypeOK, NEW call \in Calls
  PROVE  AnswerTo(call) \in {"none", "wait_failed"} \cup Outcomes
BY DEF AnswerTo, Answer

\* An activation that has locked its run.
LEMMA LockedRun ==
  ASSUME IInv, NEW w \in Workers, worker[w].pc = "locked"
  PROVE  /\ Mine(w) \in Runs /\ Mine(w) # None /\ runs[Mine(w)] \in Run /\ View(w) \in Run
         /\ runs[Mine(w)].status = "running" /\ Exists(Mine(w)) /\ IsOpen(Mine(w))
         /\ worker[w].run = Mine(w)
<1>1. Mine(w) \in Runs /\ runs[Mine(w)].status = "running"
  BY DEF IInv, ClaimsAreFenced, ViewsAreCurrent, ViewIsCurrent, Mine
<1>2. QED
  BY <1>1, FieldTypes, RunNames DEF IInv, Mine, Exists, IsOpen, Open

\* What a commit writes of the outcome that it has heard.
LEMMA HeardEffect ==
  ASSUME IInv, NEW w \in Workers, worker[w].pc = "locked"
  PROVE  /\ Heard(w) \in [Instances -> Child]
         /\ \A c \in Instances :
              /\ Heard(w)[c].status = children[c].status
              /\ Heard(w)[c].parent = children[c].parent
              /\ Heard(w)[c].current = children[c].current
              /\ Heard(w)[c].continuations = children[c].continuations
              /\ Heard(w)[c] = children[c]
                   \/ (c = runs[Mine(w)].call /\ View(w).call = None)
              /\ c = runs[Mine(w)].call /\ View(w).call = None =>
                   /\ Heard(w)[c].heard = worker[w].answer
                   /\ Heard(w)[c].waitFailed =
                        (children[c].waitFailed \/ worker[w].answer = "wait_failed")
<1> DEFINE c == runs[Mine(w)].call
           told == [children[c] EXCEPT !.heard = worker[w].answer]
           row == IF worker[w].answer = "wait_failed"
                  THEN MarkChildWorkflowParentWaitFailed(told) ELSE told
<1>1. TypeOK /\ worker[w] \in Worker
  BY FieldTypes DEF IInv
<1>2. CASE c \in Instances /\ View(w).call = None
  <2>1. children[c] \in Child
    BY <1>1, <1>2, FieldTypes
  <2>2. /\ row \in Child
        /\ row.status = children[c].status /\ row.parent = children[c].parent
        /\ row.current = children[c].current /\ row.continuations = children[c].continuations
        /\ row.heard = worker[w].answer
        /\ row.waitFailed = (children[c].waitFailed \/ worker[w].answer = "wait_failed")
    BY <1>1, <2>1 DEF Child, Worker, MarkChildWorkflowParentWaitFailed
  <2>3. Heard(w) = [children EXCEPT ![c] = row]
    BY <1>2 DEF Heard
  <2> HIDE DEF row
  <2>4. QED
    BY <1>1, <1>2, <2>2, <2>3 DEF TypeOK
<1>3. CASE ~(c \in Instances /\ View(w).call = None)
  <2>1. Heard(w) = children
    BY <1>3 DEF Heard
  <2>2. QED
    BY <1>1, <1>3, <2>1 DEF TypeOK
<1>4. QED
  BY <1>2, <1>3

LEMMA SpentType ==
  ASSUME TypeOK, NEW kind \in BudgetKinds, budget[kind] > 0,
         budget' = [budget EXCEPT ![kind] = @ - 1]
  PROVE  budget' \in [BudgetKinds -> Nat]
BY DEF TypeOK

LEMMA WorkerSteps ==
  ASSUME IInv, NEW w \in Workers,
         \/ LockParent(w) \/ LockRun(w) \/ Crash(w) \/ \E r \in Runs : Claim(w, r)
         \/ HearChild(w) \/ ReceiveSignal(w) \/ RefuseChild(w)
  PROVE  TypeOK'
<1>1. TypeOK /\ worker[w] \in Worker /\ worker \in [Workers -> Worker] /\ Idle \in Worker
  BY FieldTypes, RowTypes DEF IInv, TypeOK
<1>2. CASE LockParent(w)
  BY <1>1, <1>2 DEF LockParent, TypeOK, Worker
<1>3. CASE LockRun(w)
  <2> DEFINE r == worker[w].run
  <2>1. r \in Runs
    BY <1>3 DEF LockRun, IInv, ClaimsAreFenced
  <2>2. runs[r] \in Run /\ runs[r].call \in Calls
    BY <1>1, <2>1, FieldTypes DEF Run
  <2>3. Advanced(runs[r]) \in Run /\ AnswerTo(runs[r].call) \in {"none", "wait_failed"} \cup Outcomes
    BY <1>1, <2>2, AdvancedType, AnswerType
  <2>4. worker' \in [Workers -> Worker]
    BY <1>1, <1>3, <2>3 DEF LockRun, Worker
  <2>5. QED
    BY <1>1, <1>3, <2>4 DEF LockRun, TypeOK
<1>4. CASE Crash(w)
  <2>1. budget' \in [BudgetKinds -> Nat]
    BY <1>1, <1>4, SpentType DEF Crash, BudgetKinds
  <2>2. QED
    BY <1>1, <1>4, <2>1 DEF Crash, TypeOK
<1>5. ASSUME NEW r \in Runs, Claim(w, r)
      PROVE  TypeOK'
  <2>1. runs' \in [Runs -> Run]
    BY <1>1, <1>5, ZenonT(180) DEF Claim, TypeOK, Run, Open
  <2>2. worker' \in [Workers -> Worker]
    BY <1>1, <1>5 DEF Claim, Worker
  <2>3. QED
    BY <1>1, <1>5, <2>1, <2>2 DEF Claim, TypeOK
<1>6. ASSUME NEW view \in Run, worker' = [worker EXCEPT ![w].view = view],
             UNCHANGED <<runs, children, client, budget>>
      PROVE  TypeOK'
  BY <1>1, <1>6 DEF TypeOK, Worker
<1>7. View(w) \in Run
  BY <1>1, FieldTypes
<1>8. CASE HearChild(w)
  <2>1. worker' = [worker EXCEPT ![w].view = Returned(View(w))]
    BY <1>8 DEF HearChild, View
  <2>2. QED
    BY <1>6, <1>7, <1>8, <2>1, ReturnedType DEF HearChild
<1>9. CASE ReceiveSignal(w)
  <2>1. worker' = [worker EXCEPT ![w].view = Returned(WithoutSignal(View(w)))]
    BY <1>9 DEF ReceiveSignal, View
  <2>2. View(w).inbox \in Seq(Items)
    BY <1>7 DEF Run
  <2>3. RemoveFirst(View(w).inbox, "signal") \in Seq(Items)
    BY <2>2, RemoveFirstType
  <2>4. WithoutSignal(View(w)) \in Run
    BY <1>7, <2>3 DEF Run, WithoutSignal
  <2>5. QED
    BY <1>6, <1>9, <2>1, <2>4, ReturnedType DEF ReceiveSignal
<1>10. CASE RefuseChild(w)
  BY <1>1, <1>7, <1>10, ZenonT(60) DEF RefuseChild, TypeOK, Worker, Run, View
<1>11. QED
  BY <1>2, <1>3, <1>4, <1>5, <1>8, <1>9, <1>10

LEMMA RequestSteps ==
  ASSUME TypeOK, NEW k \in Clients, Request(k) \/ \E r \in Runs : BeginTerminate(k, r),
         ~CommitTerminate(k), IInv
  PROVE  TypeOK'
<1>1. client[k] \in Client /\ client \in [Clients -> Client] /\ NoRequest \in Client
  BY RowTypes DEF TypeOK
<1>2. CASE \E r \in Runs : BeginTerminate(k, r)
  <2>1. PICK r \in Runs : BeginTerminate(k, r)
    BY <1>2
  <2>2. budget' \in [BudgetKinds -> Nat]
    BY <2>1, SpentType DEF BeginTerminate, Spend, BudgetKinds
  <2>3. client' \in [Clients -> Client]
    BY <1>1, <2>1 DEF BeginTerminate, Client
  <2>4. QED
    BY <2>1, <2>2, <2>3 DEF BeginTerminate, TypeOK
<1>3. CASE TerminateLocksParent(k)
  <2>1. client[k].target \in Runs /\ runs[client[k].target] \in Run
    BY <1>3, FieldTypes DEF TerminateLocksParent, IInv, Requests, RequestBegins
  <2>2. {runs[client[k].target].parent} \ {None} \subseteq Runs
    BY <2>1 DEF Run
  <2>3. QED
    BY <1>1, <1>3, <2>2, ZenonT(60) DEF TerminateLocksParent, TypeOK, Client
<1>4. CASE TerminateLocksTarget(k)
  <2>1. client[k].target \in Runs
    BY <1>4 DEF TerminateLocksTarget, IInv, Requests, RequestBegins
  <2>2. client' \in [Clients -> Client]
    BY <1>1, <1>4, <2>1, ZenonT(180) DEF TerminateLocksTarget, Client
  <2>3. QED
    BY <1>4, <2>2 DEF TerminateLocksTarget, TypeOK
<1>5. CASE ListChildren(k)
  <2> DEFINE active == UNION {ActiveChildren(r) : r \in client[k].unlisted}
  <2>1. \A c \in active : c \in Instances /\ children[c].status # "none"
    BY DEF ActiveChildren
  <2>2. \A c \in active : Current(c) \in Runs
    BY <2>1, RunNames DEF IInv, Family, RelationshipsHaveRuns, Current
  <2>3. {Current(c) : c \in active} \subseteq Runs
    BY <2>2
  <2> HIDE DEF active
  <2>4. client' \in [Clients -> Client]
    BY <1>1, <1>5, <2>3, ZenonT(60) DEF ListChildren, Client, active
  <2>5. QED
    BY <1>5, <2>4 DEF ListChildren, TypeOK
<1>6. CASE \E r \in Runs : LockDescendant(k, r)
  <2>1. PICK r \in Runs : LockDescendant(k, r)
    BY <1>6
  <2>2. CASE IsOpen(r)
    BY <1>1, <2>1, <2>2, ZenonT(180) DEF LockDescendant, Client, TypeOK
  <2>3. CASE ~IsOpen(r)
    BY <1>1, <2>1, <2>3, ZenonT(60) DEF LockDescendant, Client, TypeOK
  <2>4. QED
    BY <2>2, <2>3
<1>7. QED
  BY <1>2, <1>3, <1>4, <1>5, <1>6 DEF Request

(***************************************************************************)
(* What a step may do to the rows of others.                               *)
(***************************************************************************)

\* A step under the locks L leaves the rows outside L their status and their calls;
\* no row that is running or has ended waits afterwards, but those in `own'.  A cancel
\* may be sent to the children of a locked row.
Within(L, own) ==
    /\ L \subseteq Runs
    /\ \A q \in Runs : Exists(q) =>
         /\ Exists(q)'
         /\ runs'[q].parent = runs[q].parent
         /\ runs'[q].depth = runs[q].depth
         /\ q \notin L => runs'[q].status = runs[q].status /\ runs'[q].call = runs[q].call
         /\ q \in L \/ runs'[q].cancelSent = runs[q].cancelSent \/ runs[q].parent \in L
         /\ runs[q].status \in {"running"} \cup Terminal /\ q \notin own =>
              runs'[q].status \in {"running"} \cup Terminal
    /\ \A c \in Instances :
         \/ children'[c] = children[c]
         \/ children'[c].parent \in L /\ children[c].parent \in L \cup {None}

LEMMA LocksAreRuns ==
  ASSUME IInv, NEW w \in Workers, worker[w].pc \in {"parentLocked", "locked"}
  PROVE  /\ Mine(w) \in Runs /\ runs[Mine(w)] \in Run /\ Exists(Mine(w))
         /\ WorkerLocks(w) = IF worker[w].pc = "locked"
                             THEN {Mine(w), runs[Mine(w)].parent} \ {None}
                             ELSE {runs[Mine(w)].parent} \ {None}
         /\ WorkerLocks(w) \subseteq Runs
<1>1. Mine(w) \in Runs /\ runs[Mine(w)].status \in {"running"} \cup Terminal
  BY DEF IInv, ClaimsAreFenced, Mine
<1>2. runs[Mine(w)] \in Run /\ Exists(Mine(w))
  BY <1>1, FieldTypes DEF IInv, Exists, Terminal
<1>3. WorkerLocks(w) = IF worker[w].pc = "locked"
                       THEN {Mine(w), runs[Mine(w)].parent} \ {None}
                       ELSE {runs[Mine(w)].parent} \ {None}
  BY DEF WorkerLocks, Mine
<1>4. runs[Mine(w)].parent \in Runs \cup {None}
  BY <1>2 DEF Run
<1>5. QED
  BY <1>1, <1>2, <1>3, <1>4

LEMMA NoLocks ==
  ASSUME NEW w \in Workers, worker[w].pc \notin {"parentLocked", "locked"}
  PROVE  WorkerLocks(w) = {}
BY DEF WorkerLocks

\* A worker that the step does not touch.
LEMMA OtherWorker ==
  ASSUME IInv, TypeOK', NEW L, NEW own, Within(L, own),
         NEW v \in Workers, worker'[v] = worker[v], WorkerLocks(v) \cap L = {},
         worker[v].pc # "idle" => worker[v].run \notin own
  PROVE  /\ WorkerLocks(v)' = WorkerLocks(v)
         /\ worker[v].pc # "idle" =>
              runs'[worker[v].run].status \in {"running"} \cup Terminal
         /\ worker[v].pc = "locked" =>
              /\ runs'[Mine(v)].status = "running"
              /\ runs'[Mine(v)].parent = runs[Mine(v)].parent
              /\ runs'[Mine(v)].depth = runs[Mine(v)].depth
              /\ runs'[Mine(v)].cancelSent = runs[Mine(v)].cancelSent
              /\ runs'[Mine(v)].call = runs[Mine(v)].call
              /\ AnswerTo(runs[Mine(v)].call)' = AnswerTo(runs[Mine(v)].call)
<1>1. CASE worker[v].pc = "idle"
  BY <1>1 DEF WorkerLocks
<1>2. CASE worker[v].pc # "idle"
  <2> DEFINE r == worker[v].run
  <2>1. r \in Runs /\ runs[r].status \in {"running"} \cup Terminal /\ r \notin own
    BY <1>2 DEF IInv, ClaimsAreFenced
  <2>2. Exists(r) /\ runs[r] \in Run
    BY <2>1, FieldTypes DEF Exists, Terminal, IInv
  <2>3. runs'[r].status \in {"running"} \cup Terminal /\ runs'[r].parent = runs[r].parent
        /\ runs'[r].depth = runs[r].depth
    BY <2>1, <2>2 DEF Within
  <2>4. WorkerLocks(v)' = WorkerLocks(v)
    BY <2>3 DEF WorkerLocks
  <2>5. ASSUME worker[v].pc = "locked"
        PROVE  /\ runs'[r].status = "running"
               /\ runs'[r].cancelSent = runs[r].cancelSent
               /\ runs'[r].call = runs[r].call
               /\ AnswerTo(runs[r].call)' = AnswerTo(runs[r].call)
    <3>1. WorkerLocks(v) = {r, runs[r].parent} \ {None} /\ Mine(v) = r
      BY <2>5, LocksAreRuns DEF Mine
    <3>2. r \notin L /\ (runs[r].parent \in L => runs[r].parent = None)
      BY <2>1, <3>1, RunNames
    <3>3. runs[r].status = "running"
      BY <2>5 DEF IInv, ViewsAreCurrent, ViewIsCurrent, Mine
    <3>4. runs'[r].status = "running" /\ runs'[r].call = runs[r].call
      BY <2>1, <2>2, <3>2, <3>3 DEF Within
    <3>5. runs'[r].cancelSent = runs[r].cancelSent
      <4>1. runs[r].parent \notin L
        BY <3>2, RunNames DEF Within
      <4>2. QED
        BY <2>1, <2>2, <3>2, <4>1 DEF Within
    <3>6. AnswerTo(runs[r].call)' = AnswerTo(runs[r].call)
      <4>1. CASE runs[r].call \in Instances
        <5> DEFINE c == runs[r].call
        <5>1. children[c].parent = r /\ runs'[r].call = c
          BY <2>1, <3>4, <4>1 DEF IInv, Family, CallsAreChildren
        <5>2. children'[c] = children[c] \/ children[c].parent \in L \cup {None}
          BY <4>1 DEF Within
        <5>3. children'[c] = children[c]
          BY <2>1, <3>2, <5>1, <5>2, RunNames
        <5>4. QED
          BY <5>1, <5>3 DEF AnswerTo, Answer, WaitFailed
      <4>2. CASE runs[r].call \notin Instances
        BY <3>4, <4>2 DEF AnswerTo
      <4>3. QED
        BY <4>1, <4>2
    <3>7. QED
      BY <3>4, <3>5, <3>6
  <2>6. QED
    BY <2>3, <2>4, <2>5 DEF Mine
<1>3. QED
  BY <1>1, <1>2

\* A terminate request that the step does not touch.
LEMMA OtherRequest ==
  ASSUME IInv, TypeOK', NEW L, NEW own, Within(L, own),
         NEW k \in Clients, client'[k] = client[k], client[k].locked \cap L = {}
  PROVE  RequestBegins(k)' /\ RequestDescends(k)' /\ RequestTakesLevels(k)'
<1>1. RequestBegins(k) /\ RequestDescends(k) /\ RequestTakesLevels(k) /\ client[k] \in Client
  BY FieldTypes DEF IInv, Requests
<1>2. RequestBegins(k)'
  BY <1>1 DEF RequestBegins, Within, Exists
<1>3. SUFFICES ASSUME client[k].pc = "descending"
               PROVE  RequestDescends(k)' /\ RequestTakesLevels(k)'
  BY <1>2 DEF RequestDescends, RequestTakesLevels
<1>4. /\ client[k].target \in client[k].subtree
      /\ client[k].unlisted \subseteq client[k].subtree
      /\ client[k].subtree \subseteq client[k].locked
      /\ client[k].locked \subseteq Runs /\ client[k].listed \subseteq Runs
      /\ \A q \in client[k].locked : Exists(q)
      /\ \A q \in client[k].subtree \ {client[k].target} : runs[q].parent \in client[k].subtree
      /\ \A q \in client[k].subtree :
           IsOpen(q) /\ (runs[q].parent = None \/ runs[q].parent \in client[k].locked)
      /\ \A q \in client[k].listed : Exists(q) /\ runs[q].parent \in client[k].subtree
  BY <1>1, <1>3 DEF RequestDescends, Client
<1>5. \A q \in client[k].locked \cup client[k].listed : runs'[q].parent = runs[q].parent
         /\ runs'[q].depth = runs[q].depth /\ Exists(q)'
  BY <1>4 DEF Within
<1>6. \A q \in client[k].locked : runs'[q].status = runs[q].status
  BY <1>4 DEF Within
<1>7. \A q \in client[k].subtree : IsOpen(q)'
  BY <1>4, <1>6 DEF IsOpen
<1>8. ASSUME NEW r \in client[k].subtree \ client[k].unlisted, NEW c \in Instances,
             children'[c].parent = r, children'[c].status = "active"
      PROVE  Current(c)' \in client[k].listed \cup client[k].subtree
  <2>1. r \notin L
    BY <1>4
  <2>2. children'[c] = children[c]
    BY <1>8, <2>1 DEF Within
  <2>3. QED
    BY <1>1, <1>3, <1>8, <2>2 DEF RequestDescends, Current
<1>9. RequestDescends(k)'
  BY <1>3, <1>4, <1>5, <1>7, <1>8 DEF RequestDescends
<1>10. RequestTakesLevels(k)'
  <2>1. client[k].unlisted \subseteq client[k].locked
    BY <1>4
  <2>2. \A q \in client[k].listed \cup client[k].unlisted : runs'[q].depth = runs[q].depth
    BY <1>5, <2>1
  <2>3. \A p \in client[k].locked, q \in client[k].listed : Before(p, q)' <=> Before(p, q)
    BY <1>5 DEF Before
  <2>4. QED
    BY <1>1, <1>3, <1>5, <2>2, <2>3 DEF RequestTakesLevels
<1>11. QED
  BY <1>9, <1>10, <1>2

\* A step after which every process is idle or was left alone.
LEMMA OthersKeep ==
  ASSUME IInv, TypeOK', NEW L, NEW own, Within(L, own),
         \A v \in Workers :
           \/ worker'[v] = Idle
           \/ /\ worker'[v] = worker[v]
              /\ WorkerLocks(v) \cap L = {}
              /\ worker[v].pc # "idle" => worker[v].run \notin own,
         \A k \in Clients :
           \/ client'[k] = NoRequest
           \/ client'[k] = client[k] /\ client[k].locked \cap L = {}
  PROVE  ClaimsAreFenced' /\ ViewsAreCurrent' /\ Exclusion' /\ Requests'
<1>1. \A v \in Workers : worker'[v].pc # "idle" =>
        /\ worker'[v] = worker[v] /\ worker[v].pc # "idle"
        /\ WorkerLocks(v) \cap L = {} /\ worker[v].run \notin own
  BY DEF Idle
<1>2. ClaimsAreFenced'
  <2>1. ASSUME NEW v \in Workers, worker'[v].pc # "idle"
        PROVE  /\ worker'[v].run \in Runs
               /\ runs'[worker'[v].run].status \in {"running"} \cup Terminal
    BY <1>1, <2>1, OtherWorker DEF IInv, ClaimsAreFenced
  <2>2. ASSUME NEW v \in Workers, worker'[v].pc # "idle",
               NEW u \in Workers, worker'[u].pc # "idle", worker'[u].run = worker'[v].run
        PROVE  u = v
    BY <1>1, <2>2 DEF IInv, ClaimsAreFenced
  <2>3. QED
    BY <2>1, <2>2 DEF ClaimsAreFenced
<1>3. ASSUME NEW v \in Workers, worker'[v].pc = "locked"
      PROVE  /\ runs'[Mine(v)'].status = "running" /\ View(v)'.status = "running"
             /\ View(v)'.parent = runs'[Mine(v)'].parent
             /\ View(v)'.depth = runs'[Mine(v)'].depth
             /\ View(v)'.cancelSent = runs'[Mine(v)'].cancelSent
             /\ worker'[v].answer = AnswerTo(runs[Mine(v)].call)'
             /\ \/ View(v)'.call = runs'[Mine(v)'].call
                \/ /\ View(v)'.call = None
                   /\ runs'[Mine(v)'].call \in Instances => worker'[v].answer # "none"
  <2>1. /\ worker'[v] = worker[v] /\ worker[v].pc = "locked"
        /\ WorkerLocks(v) \cap L = {} /\ (worker[v].pc # "idle" => worker[v].run \notin own)
    BY <1>1, <1>3
  <2>2. Mine(v)' = Mine(v) /\ View(v)' = View(v)
    BY <2>1 DEF Mine, View
  <2>3. /\ runs'[Mine(v)].status = "running"
        /\ runs'[Mine(v)].parent = runs[Mine(v)].parent
        /\ runs'[Mine(v)].depth = runs[Mine(v)].depth
        /\ runs'[Mine(v)].cancelSent = runs[Mine(v)].cancelSent
        /\ runs'[Mine(v)].call = runs[Mine(v)].call
        /\ AnswerTo(runs[Mine(v)].call)' = AnswerTo(runs[Mine(v)].call)
    BY <2>1, OtherWorker
  <2>4. QED
    BY <2>1, <2>2, <2>3 DEF IInv, ViewsAreCurrent, ViewIsCurrent
<1>4. ViewsAreCurrent'
  BY <1>3 DEF ViewsAreCurrent, ViewIsCurrent
<1>5. Exclusion'
  <2>1. \A v \in Workers : WorkerLocks(v)' = {} \/ WorkerLocks(v)' = WorkerLocks(v)
    <3>1. ASSUME NEW v \in Workers
          PROVE  WorkerLocks(v)' = {} \/ WorkerLocks(v)' = WorkerLocks(v)
      <4>1. CASE worker'[v] = Idle
        BY <4>1 DEF WorkerLocks, Idle
      <4>2. CASE worker'[v] # Idle
        BY <4>2, OtherWorker
      <4>3. QED
        BY <4>1, <4>2
    <3>2. QED
      BY <3>1
  <2>2. \A k \in Clients : client'[k].locked = {} \/ client'[k].locked = client[k].locked
    BY DEF NoRequest
  <2>3. QED
    BY <2>1, <2>2 DEF IInv, Exclusion
<1>6. Requests'
  <2>1. ASSUME NEW k \in Clients
        PROVE  RequestBegins(k)' /\ RequestDescends(k)' /\ RequestTakesLevels(k)'
    <3>1. CASE client'[k] = NoRequest
      BY <3>1 DEF NoRequest, RequestBegins, RequestDescends, RequestTakesLevels
    <3>2. CASE client'[k] # NoRequest
      BY <3>2, OtherRequest
    <3>3. QED
      BY <3>1, <3>2
  <2>2. QED
    BY <2>1 DEF Requests
<1>7. QED
  BY <1>2, <1>4, <1>5, <1>6

LEMMA AfterCommit ==
  ASSUME IInv, TypeOK', NEW w \in Workers, worker[w].pc = "locked",
         Within(WorkerLocks(w), {Mine(w)}),
         worker' = [worker EXCEPT ![w] = Idle], UNCHANGED client
  PROVE  ClaimsAreFenced' /\ ViewsAreCurrent' /\ Exclusion' /\ Requests'
<1>1. worker'[w] = Idle /\ \A v \in Workers \ {w} : worker'[v] = worker[v]
  BY DEF IInv, TypeOK
<1>2. \A v \in Workers \ {w} :
        /\ WorkerLocks(v) \cap WorkerLocks(w) = {}
        /\ worker[v].pc # "idle" => worker[v].run \notin {Mine(w)}
  BY DEF IInv, Exclusion, ClaimsAreFenced, Mine
<1>3. \A k \in Clients : client'[k] = client[k] /\ client[k].locked \cap WorkerLocks(w) = {}
  BY DEF IInv, Exclusion
<1>4. QED
  BY <1>1, <1>2, <1>3, OthersKeep

LEMMA AfterRequest ==
  ASSUME IInv, TypeOK', NEW r \in Runs, Unlocked(r), Within({r}, {}), UNCHANGED <<worker, client>>
  PROVE  ClaimsAreFenced' /\ ViewsAreCurrent' /\ Exclusion' /\ Requests'
<1>1. \A v \in Workers : worker'[v] = worker[v] /\ WorkerLocks(v) \cap {r} = {}
  BY DEF Unlocked
<1>2. \A k \in Clients : client'[k] = client[k] /\ client[k].locked \cap {r} = {}
  BY DEF Unlocked
<1>3. QED
  BY <1>1, <1>2, OthersKeep

LEMMA AfterTerminate ==
  ASSUME IInv, TypeOK', NEW k \in Clients, Within(client[k].locked, {}),
         client' = [client EXCEPT ![k] = NoRequest], UNCHANGED worker
  PROVE  ClaimsAreFenced' /\ ViewsAreCurrent' /\ Exclusion' /\ Requests'
<1>1. \A v \in Workers : worker'[v] = worker[v] /\ WorkerLocks(v) \cap client[k].locked = {}
  BY DEF IInv, Exclusion
<1>2. client'[k] = NoRequest
      /\ \A j \in Clients \ {k} : client'[j] = client[j] /\ client[j].locked \cap client[k].locked = {}
  BY DEF IInv, Exclusion, TypeOK
<1>3. QED
  BY <1>1, <1>2, OthersKeep

(***************************************************************************)
(* The steps keep the family in order.                                     *)
(***************************************************************************)

LEMMA FamilyFacts ==
  ASSUME IInv
  PROVE  /\ \A r \in Runs : r[2] < MaxNumber => Successor(r) \in Runs
         /\ \A c \in Instances : children[c].status # "none" =>
              /\ c \notin Roots /\ Current(c) \in Runs
              /\ children[c].parent \in Runs /\ children[c].parent # None
         /\ \A c \in Instances : children[c].parent # None => children[c].status # "none"
         /\ \A c \in Instances : children[c].status = "active" => Exists(Current(c)) /\ IsOpen(Current(c))
<1>1. \A r \in Runs : r[2] < MaxNumber => Successor(r) \in Runs
  BY Limits, RunNames DEF Successor
<1>2. \A c \in Instances : children[c].status # "none" =>
              /\ c \notin Roots /\ Current(c) \in Runs
              /\ children[c].parent \in Runs /\ children[c].parent # None
  BY RunNames DEF IInv, Family, RelationshipsHaveRuns, Current
<1>3. \A c \in Instances : children[c].parent # None => children[c].status # "none"
  BY DEF IInv, Family, RelationshipsHaveRuns, NoChild
<1>4. \A c \in Instances : children[c].status = "active" => IsOpen(Current(c))
  BY <1>2 DEF IInv, Family, RelationshipFollowsChild
<1>5. \A r : IsOpen(r) => Exists(r)
  BY DEF IsOpen, Exists, Open
<1>6. QED
  BY <1>1, <1>2, <1>3, <1>4, <1>5

\* The open run of a child's instance is the one that its relationship names.
LEMMA OpenIsCurrent ==
  ASSUME IInv, NEW r \in Runs, IsOpen(r), r[1] \notin Roots
  PROVE  /\ r = Current(r[1]) /\ children[r[1]].status = "active"
         /\ runs[r].parent = children[r[1]].parent /\ runs[r].parent \in Runs
<1> DEFINE c == r[1]
           n == r[2]
<1>1. c \in Instances /\ n \in 1..MaxNumber /\ r = <<c, n>>
  BY RunNames
<1>2. Exists(r) /\ runs[r].status # "continued_as_new" /\ runs[r].status \notin Outcomes
  BY DEF IsOpen, Exists, Open, Outcomes
<1>3. /\ n < children[c].current => runs[<<c, n>>].status = "continued_as_new"
      /\ n > children[c].current => runs[<<c, n>>].status = "none"
  BY <1>1 DEF IInv, Family, RelationshipFollowsChild
<1>4. children[c] \in Child
  BY <1>1, FieldTypes DEF IInv
<1>5. n = children[c].current
  BY <1>1, <1>2, <1>3, <1>4 DEF Child, Exists
<1>6. children[c].status # "none"
  BY <1>1, <1>5 DEF IInv, Family, RelationshipsHaveRuns, NoChild
<1>7. children[c].status \notin Outcomes
  BY <1>1, <1>2, <1>5 DEF IInv, Family, RelationshipFollowsChild, Current
<1>8. children[c].status = "active"
  BY <1>4, <1>6, <1>7 DEF Child
<1>9. runs[r].parent # None
  BY <1>1, <1>2 DEF IInv, Family, RunsHaveParents
<1>10. runs[r].parent = children[c].parent
  BY <1>2, <1>9 DEF IInv, Family, RunsHaveParents
<1>11. QED
  BY <1>1, <1>5, <1>6, <1>8, <1>10, FamilyFacts DEF Current

\* A step that creates no run and ends those of E, if any, with an outcome.
LEMMA FamilyStep ==
  ASSUME IInv, TypeOK', NEW E \in SUBSET Runs, NEW outcome \in Outcomes,
         \A q \in E : IsOpen(q) /\ runs'[q].status = outcome,
         \A q \in Runs :
           /\ Exists(q)' <=> Exists(q)
           /\ runs'[q].parent = runs[q].parent /\ runs'[q].depth = runs[q].depth
           /\ q \notin E => runs'[q].status = runs[q].status \/ (IsOpen(q) /\ IsOpen(q)')
           /\ runs'[q].call \in Instances => children[runs'[q].call].parent = q,
         \A c \in Instances :
           /\ children'[c].parent = children[c].parent
           /\ children'[c].current = children[c].current
           /\ children[c].status = "none" => children'[c] = children[c]
           /\ children'[c].status = IF children[c].status = "active" /\ Current(c) \in E
                                    THEN outcome ELSE children[c].status
  PROVE  Family'
<1>1. \A q \in Runs : runs[q].status \in Terminal => runs'[q].status = runs[q].status
  BY DEF IsOpen, Open, Terminal
<1>2. RunsHaveParents'
  <2>1. ASSUME NEW r \in Runs, Exists(r)'
        PROVE  /\ (runs'[r].parent = None) <=> (r[1] \in Roots)
               /\ runs'[r].parent # None =>
                    /\ runs'[r].parent = children'[r[1]].parent
                    /\ Exists(runs[r].parent)'
                    /\ runs'[r].depth = runs'[runs'[r].parent].depth + 1
    <3>1. Exists(r) /\ runs'[r].parent = runs[r].parent /\ r[1] \in Instances
      BY <2>1, RunNames
    <3>2. runs[r].parent # None => runs[r].parent \in Runs
      BY FieldTypes DEF IInv, Run
    <3>3. QED
      BY <3>1, <3>2 DEF IInv, Family, RunsHaveParents
  <2>2. QED
    BY <2>1 DEF RunsHaveParents
<1>3. RunsContinue'
  <2>1. ASSUME NEW r \in Runs, r[2] < MaxNumber, Exists(Successor(r))'
        PROVE  runs'[r].status = "continued_as_new"
    <3>1. runs[r].status = "continued_as_new"
      BY <2>1, FamilyFacts DEF IInv, Family, RunsContinue
    <3>2. QED
      BY <1>1, <3>1 DEF Terminal
  <2>2. QED
    BY <2>1 DEF RunsContinue, Successor
<1>4. RelationshipsHaveRuns'
  BY DEF IInv, Family, RelationshipsHaveRuns, Outcomes
<1>5. RelationshipFollowsChild'
  <2>1. ASSUME NEW c \in Instances \ Roots
        PROVE  /\ (children'[c].status = "none") <=> (runs'[First(c)].status = "none")
               /\ \A n \in 1..MaxNumber :
                    /\ n < children'[c].current => runs'[<<c, n>>].status = "continued_as_new"
                    /\ n > children'[c].current => runs'[<<c, n>>].status = "none"
               /\ children'[c].status = "active" => IsOpen(Current(c))'
               /\ children'[c].status \in Outcomes => runs'[Current(c)'].status = children'[c].status
    <3>1. /\ (children[c].status = "none") <=> (runs[First(c)].status = "none")
          /\ \A n \in 1..MaxNumber :
               /\ n < children[c].current => runs[<<c, n>>].status = "continued_as_new"
               /\ n > children[c].current => runs[<<c, n>>].status = "none"
          /\ children[c].status = "active" => IsOpen(Current(c))
          /\ children[c].status \in Outcomes => runs[Current(c)].status = children[c].status
      BY DEF IInv, Family, RelationshipFollowsChild
    <3>2. (children'[c].status = "none") <=> (runs'[First(c)].status = "none")
      BY <3>1, RunNames DEF Exists, Outcomes
    <3>3. ASSUME NEW n \in 1..MaxNumber
          PROVE  /\ n < children'[c].current => runs'[<<c, n>>].status = "continued_as_new"
                 /\ n > children'[c].current => runs'[<<c, n>>].status = "none"
      BY <1>1, <3>1, RunNames DEF Exists, Terminal
    <3>4. Current(c)' = Current(c)
      BY DEF Current
    <3>5. children'[c].status = "active" => IsOpen(Current(c))'
      <4>1. SUFFICES ASSUME children'[c].status = "active"
                     PROVE  IsOpen(Current(c))'
        OBVIOUS
      <4>2. children[c].status = "active" /\ Current(c) \notin E
        BY <4>1 DEF Outcomes
      <4>3. QED
        BY <3>1, <3>4, <4>2, FamilyFacts DEF IsOpen
    <3>6. children'[c].status \in Outcomes => runs'[Current(c)'].status = children'[c].status
      <4>1. CASE children[c].status = "active"
        BY <3>4, <4>1 DEF Outcomes
      <4>2. CASE children[c].status # "active"
        BY <1>1, <3>1, <3>4, <4>2, FamilyFacts DEF Outcomes, Terminal
      <4>3. QED
        BY <4>1, <4>2
    <3>7. QED
      BY <3>2, <3>3, <3>5, <3>6
  <2>2. QED
    BY <2>1 DEF RelationshipFollowsChild, Current, First
<1>6. CallsAreChildren'
  BY DEF CallsAreChildren
<1>7. QED
  BY <1>2, <1>3, <1>4, <1>5, <1>6 DEF Family

(***************************************************************************)
(* What the operators of a commit do to the rows.                          *)
(***************************************************************************)

\* A wake makes a waiting parent queued, and it does when the parent waits for the
\* child and has not given it up.
LEMMA WokenEffect ==
  ASSUME NEW rows \in [Runs -> Run], NEW relation \in Child, relation.parent \in Runs, NEW c
  PROVE  /\ Woken(rows, relation, c) \in [Runs -> Run]
         /\ \A q \in Runs :
              /\ Woken(rows, relation, c)[q].parent = rows[q].parent
              /\ Woken(rows, relation, c)[q].depth = rows[q].depth
              /\ Woken(rows, relation, c)[q].call = rows[q].call
              /\ Woken(rows, relation, c)[q].cancelSent = rows[q].cancelSent
              /\ \/ Woken(rows, relation, c)[q].status = rows[q].status
                 \/ /\ q = relation.parent
                    /\ rows[q].status = "waiting"
                    /\ Woken(rows, relation, c)[q].status = "queued"
         /\ relation.waitFailed \/ rows[relation.parent].call # c
              \/ Woken(rows, relation, c)[relation.parent].status # "waiting"
<1> DEFINE p == relation.parent
           asleep == relation.waitFailed \/ rows[p].status # "waiting" \/ rows[p].call # c
<1>1. CASE asleep
  <2>1. Woken(rows, relation, c) = rows
    BY <1>1 DEF Woken
  <2>2. QED
    BY <1>1, <2>1
<1>2. CASE ~asleep
  <2>1. Woken(rows, relation, c) = [rows EXCEPT ![p] = [rows[p] EXCEPT !.status = "queued"]]
    BY <1>2 DEF Woken
  <2>2. rows[p] \in Run
    OBVIOUS
  <2>3. /\ [rows[p] EXCEPT !.status = "queued"] \in Run
        /\ [rows[p] EXCEPT !.status = "queued"].status = "queued"
        /\ [rows[p] EXCEPT !.status = "queued"].parent = rows[p].parent
        /\ [rows[p] EXCEPT !.status = "queued"].depth = rows[p].depth
        /\ [rows[p] EXCEPT !.status = "queued"].call = rows[p].call
        /\ [rows[p] EXCEPT !.status = "queued"].cancelSent = rows[p].cancelSent
    BY <2>2 DEF Run, Open
  <2>4. QED
    BY <1>2, <2>1, <2>3
<1>3. QED
  BY <1>1, <1>2

LEMMA CancelSentType ==
  ASSUME NEW row \in Run
  PROVE  /\ CancelSent(row) \in Run
         /\ CancelSent(row).status = row.status /\ CancelSent(row).call = row.call
         /\ CancelSent(row).parent = row.parent /\ CancelSent(row).depth = row.depth
         /\ CancelSent(row).cancelSent = TRUE
<1>1. row.inbox \in Seq(Items) /\ "cancel" \in Items
  BY DEF Run, Items
<1>2. Append(row.inbox, "cancel") \in Seq(Items)
  BY <1>1, AppendProperties
<1>3. row.cancelSent \in BOOLEAN
  BY DEF Run
<1>4. CASE row.cancelSent = TRUE
  BY <1>4 DEF CancelSent
<1>5. CASE row.cancelSent = FALSE
  BY <1>2, <1>5 DEF CancelSent, Run
<1>6. QED
  BY <1>3, <1>4, <1>5

LEMMA CascadeEffect ==
  ASSUME NEW rows \in [Runs -> Run], NEW r
  PROVE  /\ Cascade(rows, r) \in [Runs -> Run]
         /\ \A q \in Runs :
              /\ Cascade(rows, r)[q].parent = rows[q].parent
              /\ Cascade(rows, r)[q].depth = rows[q].depth
              /\ Cascade(rows, r)[q].call = rows[q].call
              /\ Cascade(rows, r)[q].status = rows[q].status
              /\ Cascade(rows, r)[q].cancelSent = rows[q].cancelSent
                   \/ \E c \in ActiveChildren(r) : q = Current(c)
              /\ (\E c \in ActiveChildren(r) : q = Current(c)) => Cascade(rows, r)[q].cancelSent = TRUE
<1>1. \A q \in Runs : rows[q] \in Run
  OBVIOUS
<1>2. \A q \in Runs : Cascade(rows, r)[q] =
        IF \E c \in ActiveChildren(r) : q = Current(c) THEN CancelSent(rows[q]) ELSE rows[q]
  BY DEF Cascade
<1>3. ASSUME NEW q \in Runs
      PROVE  /\ Cascade(rows, r)[q] \in Run
             /\ Cascade(rows, r)[q].parent = rows[q].parent
             /\ Cascade(rows, r)[q].depth = rows[q].depth
             /\ Cascade(rows, r)[q].call = rows[q].call
             /\ Cascade(rows, r)[q].status = rows[q].status
             /\ Cascade(rows, r)[q].cancelSent = rows[q].cancelSent
                  \/ \E c \in ActiveChildren(r) : q = Current(c)
             /\ (\E c \in ActiveChildren(r) : q = Current(c)) => Cascade(rows, r)[q].cancelSent = TRUE
  <2>1. CASE \E c \in ActiveChildren(r) : q = Current(c)
    <3>1. Cascade(rows, r)[q] = CancelSent(rows[q])
      BY <1>2, <2>1
    <3>2. QED
      BY <1>1, <2>1, <3>1, CancelSentType, ZenonT(60)
  <2>2. CASE ~\E c \in ActiveChildren(r) : q = Current(c)
    BY <1>1, <1>2, <2>2
  <2>3. QED
    BY <2>1, <2>2
<1>4. Cascade(rows, r) = [q \in Runs |-> Cascade(rows, r)[q]]
  BY DEF Cascade
<1>5. QED
  BY <1>3, <1>4

LEMMA ClosedType ==
  ASSUME NEW row \in Run, NEW status \in Terminal
  PROVE  /\ Closed(row, status) \in Run
         /\ Closed(row, status).status = status /\ Closed(row, status).call = row.call
         /\ Closed(row, status).parent = row.parent /\ Closed(row, status).depth = row.depth
         /\ Closed(row, status).cancelSent = row.cancelSent
<1>1. <<>> \in Seq(Items)
  BY EmptySeq
<1>2. QED
  BY <1>1 DEF Closed, Run

LEMMA EndedChildrenEffect ==
  ASSUME NEW relations \in [Instances -> Child], NEW ended, NEW outcome \in Outcomes
  PROVE  /\ EndedChildren(relations, ended, outcome) \in [Instances -> Child]
         /\ \A c \in Instances :
              /\ EndedChildren(relations, ended, outcome)[c].parent = relations[c].parent
              /\ EndedChildren(relations, ended, outcome)[c].current = relations[c].current
              /\ EndedChildren(relations, ended, outcome)[c].heard = relations[c].heard
              /\ EndedChildren(relations, ended, outcome)[c].waitFailed = relations[c].waitFailed
              /\ EndedChildren(relations, ended, outcome)[c].continuations = relations[c].continuations
              /\ EndedChildren(relations, ended, outcome)[c].status =
                   IF relations[c].status = "active" /\ <<c, relations[c].current>> \in ended
                   THEN outcome ELSE relations[c].status
              /\ relations[c].status # "active" \/ <<c, relations[c].current>> \notin ended
                   => EndedChildren(relations, ended, outcome)[c] = relations[c]
<1>1. ASSUME NEW c \in Instances
      PROVE  /\ relations[c] \in Child
             /\ [relations[c] EXCEPT !.status = outcome] \in Child
             /\ [relations[c] EXCEPT !.status = outcome].status = outcome
             /\ [relations[c] EXCEPT !.status = outcome].parent = relations[c].parent
             /\ [relations[c] EXCEPT !.status = outcome].current = relations[c].current
             /\ [relations[c] EXCEPT !.status = outcome].heard = relations[c].heard
             /\ [relations[c] EXCEPT !.status = outcome].waitFailed = relations[c].waitFailed
             /\ [relations[c] EXCEPT !.status = outcome].continuations = relations[c].continuations
  BY <1>1 DEF Child
<1>2. QED
  BY <1>1 DEF EndedChildren

(***************************************************************************)
(* The commits of an activation.                                           *)
(***************************************************************************)

LEMMA CommitFacts ==
  ASSUME IInv, NEW w \in Workers, worker[w].pc = "locked"
  PROVE  /\ Mine(w) \in WorkerLocks(w) /\ WorkerLocks(w) \subseteq Runs
         /\ runs[Mine(w)].parent \in WorkerLocks(w) \cup {None}
         /\ View(w).parent = runs[Mine(w)].parent /\ View(w).depth = runs[Mine(w)].depth
         /\ View(w).status = "running" /\ View(w).cancelSent = runs[Mine(w)].cancelSent
         /\ View(w).call \in Instances => children[View(w).call].parent = Mine(w)
         /\ runs[Mine(w)].call \in Instances => children[runs[Mine(w)].call].parent = Mine(w)
         /\ \A c \in Instances : Heard(w)[c] = children[c] \/ children[c].parent = Mine(w)
         /\ \A c \in Instances : children[c].status = "none" => Heard(w)[c] = children[c]
<1>1. /\ Mine(w) \in Runs /\ Mine(w) # None /\ runs[Mine(w)] \in Run
      /\ WorkerLocks(w) = {Mine(w), runs[Mine(w)].parent} \ {None} /\ WorkerLocks(w) \subseteq Runs
  BY LockedRun, LocksAreRuns
<1>2. runs[Mine(w)].call \in Instances => children[runs[Mine(w)].call].parent = Mine(w)
  BY <1>1 DEF IInv, Family, CallsAreChildren
<1>3. View(w).call = runs[Mine(w)].call \/ View(w).call = None
  BY DEF IInv, ViewsAreCurrent, ViewIsCurrent
<1>4. View(w).call \in Instances => children[View(w).call].parent = Mine(w)
  BY <1>2, <1>3, RunNames
<1>5. \A c \in Instances : Heard(w)[c] = children[c] \/ children[c].parent = Mine(w)
  BY <1>2, HeardEffect
<1>6. \A c \in Instances : children[c].status = "none" => Heard(w)[c] = children[c]
  BY <1>1, <1>5 DEF IInv, Family, RelationshipsHaveRuns, NoChild
<1>7. QED
  BY <1>1, <1>2, <1>4, <1>5, <1>6 DEF IInv, ViewsAreCurrent, ViewIsCurrent

LEMMA CommitWithin ==
  ASSUME IInv, NEW w \in Workers, worker[w].pc = "locked",
         \A q \in Runs : Exists(q) =>
           /\ Exists(q)' /\ runs'[q].parent = runs[q].parent /\ runs'[q].depth = runs[q].depth
           /\ q # Mine(w) =>
                /\ runs'[q].call = runs[q].call
                /\ \/ runs'[q].status = runs[q].status
                   \/ /\ q = runs[Mine(w)].parent
                      /\ runs[q].status = "waiting" /\ runs'[q].status = "queued"
                /\ runs'[q].cancelSent = runs[q].cancelSent \/ runs[q].parent = Mine(w),
         \A c \in Instances :
           \/ children'[c] = children[c]
           \/ /\ children'[c].parent \in {Mine(w), runs[Mine(w)].parent} \ {None}
              /\ children[c].parent \in {Mine(w), runs[Mine(w)].parent, None}
  PROVE  Within(WorkerLocks(w), {Mine(w)})
<1>1. /\ Mine(w) \in WorkerLocks(w) /\ WorkerLocks(w) \subseteq Runs
      /\ runs[Mine(w)].parent \in WorkerLocks(w) \cup {None}
  BY CommitFacts
<1>2. ASSUME NEW q \in Runs, Exists(q)
      PROVE  /\ Exists(q)'
             /\ runs'[q].parent = runs[q].parent
             /\ runs'[q].depth = runs[q].depth
             /\ q \notin WorkerLocks(w) => runs'[q].status = runs[q].status /\ runs'[q].call = runs[q].call
             /\ q \in WorkerLocks(w) \/ runs'[q].cancelSent = runs[q].cancelSent
                  \/ runs[q].parent \in WorkerLocks(w)
             /\ runs[q].status \in {"running"} \cup Terminal /\ q \notin {Mine(w)} =>
                  runs'[q].status \in {"running"} \cup Terminal
  BY <1>1, <1>2, RunNames DEF Terminal
<1>3. \A c \in Instances :
         \/ children'[c] = children[c]
         \/ children'[c].parent \in WorkerLocks(w) /\ children[c].parent \in WorkerLocks(w) \cup {None}
  BY <1>1
<1>4. QED
  BY <1>1, <1>2, <1>3 DEF Within

\* A commit after which the run is still open.
LEMMA StaysOpen ==
  ASSUME IInv, NEW w \in Workers, worker[w].pc = "locked", NEW row \in Run,
         row.parent = runs[Mine(w)].parent, row.depth = runs[Mine(w)].depth, row.status \in Open,
         row.call \in Instances => children[row.call].parent = Mine(w),
         runs' = [runs EXCEPT ![Mine(w)] = row],
         children' = children \/ children' = Heard(w),
         worker' = [worker EXCEPT ![w] = Idle], UNCHANGED <<client, budget>>
  PROVE  TypeOK' /\ Within(WorkerLocks(w), {Mine(w)}) /\ Family'
<1>1. /\ Mine(w) \in Runs /\ Mine(w) # None /\ IsOpen(Mine(w)) /\ Exists(Mine(w))
      /\ runs \in [Runs -> Run] /\ children \in [Instances -> Child]
  BY LockedRun DEF IInv, TypeOK
<1>2. TypeOK'
  BY <1>1, HeardEffect, RowTypes DEF IInv, TypeOK
<1>3. runs'[Mine(w)] = row /\ \A q \in Runs \ {Mine(w)} : runs'[q] = runs[q]
  BY <1>1
<1>4. \A c \in Instances : children'[c] = children[c] \/
        /\ children'[c] = Heard(w)[c] /\ children[c].parent = Mine(w)
        /\ children'[c].parent = children[c].parent
  BY CommitFacts, HeardEffect
<1>5. row.status # "none"
  BY DEF Open
<1>6. Within(WorkerLocks(w), {Mine(w)})
  BY <1>1, <1>3, <1>4, <1>5, CommitWithin DEF Exists
<1>7. \A c \in Instances :
        /\ children'[c].parent = children[c].parent /\ children'[c].current = children[c].current
        /\ children[c].status = "none" => children'[c] = children[c]
        /\ children'[c].status = children[c].status
  BY CommitFacts, HeardEffect
<1>8. ASSUME NEW q \in Runs
      PROVE  /\ Exists(q)' <=> Exists(q)
             /\ runs'[q].parent = runs[q].parent /\ runs'[q].depth = runs[q].depth
             /\ runs'[q].status = runs[q].status \/ (IsOpen(q) /\ IsOpen(q)')
             /\ runs'[q].call \in Instances => children[runs'[q].call].parent = q
  BY <1>1, <1>3, <1>5 DEF Exists, IsOpen, IInv, Family, CallsAreChildren
<1>9. Family'
  <2>1. "failed" \in Outcomes
    BY DEF Outcomes
  <2> DEFINE E == {}
  <2>2. E \in SUBSET Runs /\ \A q \in E : IsOpen(q) /\ runs'[q].status = "failed"
    OBVIOUS
  <2>3. \A c \in Instances :
           /\ children'[c].parent = children[c].parent
           /\ children'[c].current = children[c].current
           /\ children[c].status = "none" => children'[c] = children[c]
           /\ children'[c].status = IF children[c].status = "active" /\ Current(c) \in E
                                    THEN "failed" ELSE children[c].status
    BY <1>7
  <2>4. \A q \in Runs :
           /\ Exists(q)' <=> Exists(q)
           /\ runs'[q].parent = runs[q].parent /\ runs'[q].depth = runs[q].depth
           /\ q \notin E => runs'[q].status = runs[q].status \/ (IsOpen(q) /\ IsOpen(q)')
           /\ runs'[q].call \in Instances => children[runs'[q].call].parent = q
    BY <1>8
  <2> HIDE DEF E
  <2>5. QED
    BY <1>2, <2>1, <2>2, <2>3, <2>4, FamilyStep, SMTT(30)
<1>10. QED
  BY <1>2, <1>6, <1>9

LEMMA WaitingCommits ==
  ASSUME IInv, NEW w \in Workers,
         \/ WaitAgain(w) \/ AwaitSignal(w) \/ Quarantine(w)
         \/ \E c \in Instances : AttachChild(w, c)
  PROVE  /\ IInv' /\ worker[w].pc = "locked"
         /\ children' = children \/ children' = Heard(w)
         /\ \A q \in Runs \ {Mine(w)} : runs'[q] = runs[q]
         /\ runs'[Mine(w)].status \in Open
         /\ runs'[Mine(w)].cancelSent = runs[Mine(w)].cancelSent
         /\ runs'[Mine(w)].status = "waiting" /\ runs'[Mine(w)].call \in Instances =>
              \/ \E c \in Instances : AttachChild(w, c)
              \/ /\ children' = children /\ worker[w].answer = "none"
                 /\ runs'[Mine(w)].call = runs[Mine(w)].call
<1>1. worker[w].pc = "locked"
  BY DEF WaitAgain, AwaitSignal, Quarantine, AttachChild, Activating, Free
<1>2. /\ Mine(w) \in Runs /\ runs[Mine(w)] \in Run /\ View(w) \in Run
      /\ View(w).parent = runs[Mine(w)].parent /\ View(w).depth = runs[Mine(w)].depth
      /\ View(w).call \in Instances => children[View(w).call].parent = Mine(w)
      /\ runs[Mine(w)].call \in Instances => children[runs[Mine(w)].call].parent = Mine(w)
      /\ View(w).cancelSent = runs[Mine(w)].cancelSent /\ runs \in [Runs -> Run]
      /\ View(w).call = runs[Mine(w)].call \/ View(w).call = None
  BY <1>1, LockedRun, CommitFacts DEF IInv, TypeOK, ViewsAreCurrent, ViewIsCurrent
<1>3. CASE WaitAgain(w)
  <2> DEFINE row == [View(w) EXCEPT !.status = "waiting"]
  <2>1. /\ row \in Run /\ row.parent = View(w).parent /\ row.depth = View(w).depth
        /\ row.status = "waiting" /\ row.call = View(w).call /\ row.cancelSent = View(w).cancelSent
    BY <1>2 DEF Run, Open
  <2>2. runs' = [runs EXCEPT ![Mine(w)] = row] /\ children' = children
        /\ worker' = [worker EXCEPT ![w] = Idle] /\ UNCHANGED <<client, budget>>
    BY <1>3 DEF WaitAgain
  <2> HIDE DEF row
  <2>3. TypeOK' /\ Within(WorkerLocks(w), {Mine(w)}) /\ Family'
    BY <1>1, <1>2, <2>1, <2>2, StaysOpen DEF Open
  <2>4. IInv'
    BY <1>1, <2>2, <2>3, AfterCommit DEF IInv
  <2>5. runs'[Mine(w)] = row /\ \A q \in Runs \ {Mine(w)} : runs'[q] = runs[q]
    BY <1>2, <2>2
  <2>6. View(w).call \in Instances => worker[w].answer = "none" /\ View(w).call # None
    BY <1>3, RunNames, SignalIsNoInstance DEF WaitAgain
  <2>7. QED
    BY <1>1, <1>2, <2>1, <2>2, <2>4, <2>5, <2>6 DEF Open
<1>4. CASE AwaitSignal(w)
  <2> DEFINE row == [View(w) EXCEPT !.status = "waiting", !.call = "signal"]
  <2>1. /\ row \in Run /\ row.parent = View(w).parent /\ row.depth = View(w).depth
        /\ row.status = "waiting" /\ row.call \notin Instances /\ row.cancelSent = View(w).cancelSent
    BY <1>2, SignalIsNoInstance DEF Run, Open, Calls
  <2>2. runs' = [runs EXCEPT ![Mine(w)] = row] /\ children' = Heard(w)
        /\ worker' = [worker EXCEPT ![w] = Idle] /\ UNCHANGED <<client, budget>>
    BY <1>4 DEF AwaitSignal
  <2> HIDE DEF row
  <2>3. TypeOK' /\ Within(WorkerLocks(w), {Mine(w)}) /\ Family'
    BY <1>1, <1>2, <2>1, <2>2, StaysOpen DEF Open
  <2>4. IInv'
    BY <1>1, <2>2, <2>3, AfterCommit DEF IInv
  <2>5. runs'[Mine(w)] = row /\ \A q \in Runs \ {Mine(w)} : runs'[q] = runs[q]
    BY <1>2, <2>2
  <2>6. QED
    BY <1>1, <1>2, <2>1, <2>2, <2>4, <2>5 DEF Open
<1>5. CASE Quarantine(w)
  <2> DEFINE row == [runs[Mine(w)] EXCEPT !.status = "quarantined"]
  <2>1. /\ row \in Run /\ row.parent = runs[Mine(w)].parent /\ row.depth = runs[Mine(w)].depth
        /\ row.status = "quarantined" /\ row.call = runs[Mine(w)].call
        /\ row.cancelSent = runs[Mine(w)].cancelSent
    BY <1>2 DEF Run, Open
  <2>2. runs' = [runs EXCEPT ![Mine(w)] = row] /\ children' = children
        /\ worker' = [worker EXCEPT ![w] = Idle] /\ UNCHANGED <<client, budget>>
    BY <1>5 DEF Quarantine
  <2> HIDE DEF row
  <2>3. TypeOK' /\ Within(WorkerLocks(w), {Mine(w)}) /\ Family'
    BY <1>1, <1>2, <2>1, <2>2, StaysOpen DEF Open
  <2>4. IInv'
    BY <1>1, <2>2, <2>3, AfterCommit DEF IInv
  <2>5. runs'[Mine(w)] = row /\ \A q \in Runs \ {Mine(w)} : runs'[q] = runs[q]
    BY <1>2, <2>2
  <2>6. QED
    BY <1>1, <1>2, <2>1, <2>2, <2>4, <2>5 DEF Open
<1>6. CASE \E c \in Instances : AttachChild(w, c)
  <2>1. PICK c \in Instances : AttachChild(w, c)
    BY <1>6
  <2> DEFINE row == WaitsFor(w, c)
  <2>2. /\ row \in Run /\ row.parent = View(w).parent /\ row.depth = View(w).depth
        /\ row.status = "waiting" /\ row.call = c /\ row.cancelSent = View(w).cancelSent
    BY <1>2 DEF Run, Open, Calls, WaitsFor
  <2>3. runs' = [runs EXCEPT ![Mine(w)] = row] /\ children' = Heard(w)
        /\ worker' = [worker EXCEPT ![w] = Idle] /\ UNCHANGED <<client, budget>>
        /\ children[c].parent = Mine(w)
    BY <2>1 DEF AttachChild
  <2> HIDE DEF row
  <2>4. TypeOK' /\ Within(WorkerLocks(w), {Mine(w)}) /\ Family'
    BY <1>1, <1>2, <2>2, <2>3, StaysOpen DEF Open
  <2>5. IInv'
    BY <1>1, <2>3, <2>4, AfterCommit DEF IInv
  <2>6. runs'[Mine(w)] = row /\ \A q \in Runs \ {Mine(w)} : runs'[q] = runs[q]
    BY <1>2, <2>3
  <2>7. QED
    BY <1>1, <1>2, <1>6, <2>2, <2>3, <2>5, <2>6 DEF Open
<1>7. QED
  BY <1>3, <1>4, <1>5, <1>6

\* A commit that ends the run: `rows' is what it makes of the run rows before the
\* parent is woken.
EndsRun(w, outcome, rows) ==
    /\ rows \in [Runs -> Run]
    /\ \A q \in Runs :
         /\ rows[q].parent = runs[q].parent /\ rows[q].depth = runs[q].depth
         /\ \/ rows[q].cancelSent = runs[q].cancelSent
            \/ rows[q].cancelSent = TRUE /\ \E c \in ActiveChildren(Mine(w)) : q = Current(c)
         /\ q # Mine(w) => rows[q].status = runs[q].status /\ rows[q].call = runs[q].call
    /\ rows[Mine(w)].status = outcome /\ rows[Mine(w)].call = None
    /\ outcome = "cancelled" => \A c \in ActiveChildren(Mine(w)) : rows[Current(c)].cancelSent = TRUE
    /\ EndChild(w, rows)
    /\ children' = EndedChildren(Heard(w), {Mine(w)}, outcome)
    /\ worker' = [worker EXCEPT ![w] = Idle] /\ UNCHANGED <<client, budget>>

LEMMA EndsRunEffect ==
  ASSUME IInv, NEW w \in Workers, worker[w].pc = "locked", NEW outcome \in {"completed", "failed", "cancelled"},
         NEW rows, EndsRun(w, outcome, rows)
  PROVE  /\ runs' \in [Runs -> Run]
         /\ \A q \in Runs :
              /\ runs'[q].parent = runs[q].parent /\ runs'[q].depth = runs[q].depth
              /\ runs'[q].cancelSent = rows[q].cancelSent
              /\ q # Mine(w) =>
                   /\ runs'[q].call = runs[q].call
                   /\ \/ runs'[q].status = runs[q].status
                      \/ /\ q = runs[Mine(w)].parent
                         /\ runs[q].status = "waiting" /\ runs'[q].status = "queued"
         /\ runs'[Mine(w)].status = outcome /\ runs'[Mine(w)].call = None
         /\ runs[Mine(w)].parent # None =>
              /\ Mine(w) = Current(Mine(w)[1]) /\ runs[Mine(w)].parent = children[Mine(w)[1]].parent
              /\ \/ children[Mine(w)[1]].waitFailed
                 \/ runs[runs[Mine(w)].parent].call # Mine(w)[1]
                 \/ runs'[runs[Mine(w)].parent].status # "waiting"
         /\ children' \in [Instances -> Child]
         /\ \A c \in Instances :
              /\ children'[c].parent = children[c].parent /\ children'[c].current = children[c].current
              /\ children'[c].status = IF children[c].status = "active" /\ Current(c) = Mine(w)
                                       THEN outcome ELSE children[c].status
              /\ children'[c].heard = Heard(w)[c].heard /\ children'[c].waitFailed = Heard(w)[c].waitFailed
              /\ Current(c) # Mine(w) \/ children[c].status # "active" => children'[c] = Heard(w)[c]
<1> DEFINE r == Mine(w)
           p == runs[r].parent
<1>1. /\ r \in Runs /\ r # None /\ IsOpen(r) /\ Exists(r) /\ runs[r] \in Run
      /\ r[1] \in Instances /\ runs \in [Runs -> Run] /\ children \in [Instances -> Child]
  BY LockedRun, RunNames DEF IInv, TypeOK
<1>2. outcome \in Outcomes /\ outcome \in Terminal
  BY DEF Outcomes, Terminal
<1>3. /\ p # None <=> r[1] \notin Roots
      /\ p # None => r = Current(r[1]) /\ p = children[r[1]].parent /\ p \in Runs
  BY <1>1, OpenIsCurrent DEF IInv, Family, RunsHaveParents
<1>4. p # r
  BY <1>1 DEF IInv, Family, RunsHaveParents, Run
<1>5. /\ rows \in [Runs -> Run] /\ EndChild(w, rows)
      /\ rows[r].status = outcome /\ rows[r].call = None
      /\ \A q \in Runs :
           /\ rows[q].parent = runs[q].parent /\ rows[q].depth = runs[q].depth
           /\ q # r => rows[q].status = runs[q].status /\ rows[q].call = runs[q].call
  BY DEF EndsRun
<1>6. /\ runs' \in [Runs -> Run]
      /\ \A q \in Runs :
           /\ runs'[q].parent = rows[q].parent /\ runs'[q].depth = rows[q].depth
           /\ runs'[q].call = rows[q].call /\ runs'[q].cancelSent = rows[q].cancelSent
           /\ \/ runs'[q].status = rows[q].status
              \/ q = p /\ rows[q].status = "waiting" /\ runs'[q].status = "queued"
      /\ p # None => \/ children[r[1]].waitFailed \/ rows[p].call # r[1]
                     \/ runs'[p].status # "waiting"
  <2>1. CASE p = None
    BY <1>5, <2>1 DEF EndChild
  <2>2. CASE p # None
    <3>1. runs' = Woken(rows, children[r[1]], r[1])
      BY <1>5, <2>2 DEF EndChild
    <3>2. children[r[1]] \in Child /\ children[r[1]].parent = p /\ p \in Runs
      BY <1>1, <1>3, <2>2
    <3>3. QED
      BY <1>5, <3>1, <3>2, WokenEffect, SMTT(30)
  <2>3. QED
    BY <2>1, <2>2
<1>7. Heard(w) \in [Instances -> Child]
  BY HeardEffect
<1>8. /\ children' \in [Instances -> Child]
      /\ \A c \in Instances :
           /\ children'[c].parent = children[c].parent /\ children'[c].current = children[c].current
           /\ children'[c].status = IF children[c].status = "active" /\ Current(c) = r
                                    THEN outcome ELSE children[c].status
           /\ children'[c].heard = Heard(w)[c].heard /\ children'[c].waitFailed = Heard(w)[c].waitFailed
           /\ Current(c) # r \/ children[c].status # "active" => children'[c] = Heard(w)[c]
  <2>1. \A c \in Instances :
          /\ Heard(w)[c].parent = children[c].parent /\ Heard(w)[c].current = children[c].current
          /\ Heard(w)[c].status = children[c].status
    BY HeardEffect
  <2> DEFINE told == Heard(w)
             ended == {r}
             relations == EndedChildren(told, ended, outcome)
  <2>2. /\ relations \in [Instances -> Child]
        /\ \A c \in Instances :
             /\ relations[c].parent = told[c].parent /\ relations[c].current = told[c].current
             /\ relations[c].status =
                  IF told[c].status = "active" /\ <<c, told[c].current>> \in ended
                  THEN outcome ELSE told[c].status
             /\ relations[c].heard = told[c].heard /\ relations[c].waitFailed = told[c].waitFailed
             /\ told[c].status # "active" \/ <<c, told[c].current>> \notin ended
                  => relations[c] = told[c]
    <3> HIDE DEF told, ended
    <3>1. told \in [Instances -> Child]
      BY <1>7 DEF told
    <3>2. QED
      BY <1>2, <3>1, EndedChildrenEffect
  <2>3. children' = relations /\ \A c \in Instances : <<c, told[c].current>> = Current(c)
    BY <2>1 DEF Current, EndsRun
  <2>4. \A x : x \in ended <=> x = r
    OBVIOUS
  <2>5. \A c \in Instances :
          /\ told[c].parent = children[c].parent /\ told[c].current = children[c].current
          /\ told[c].status = children[c].status
    BY <2>1
  <2> HIDE DEF r, ended, relations
  <2>6. children' \in [Instances -> Child]
    BY <2>2, <2>3
  <2>7. ASSUME NEW c \in Instances
        PROVE  /\ children'[c].parent = children[c].parent /\ children'[c].current = children[c].current
               /\ children'[c].status = IF children[c].status = "active" /\ Current(c) = r
                                        THEN outcome ELSE children[c].status
               /\ children'[c].heard = told[c].heard /\ children'[c].waitFailed = told[c].waitFailed
               /\ Current(c) # r \/ children[c].status # "active" => children'[c] = told[c]
    <3> HIDE DEF told
    <3>1. QED
      BY <2>2, <2>3, <2>4, <2>5
  <2>8. QED
    BY <2>6, <2>7
<1>9. ASSUME NEW q \in Runs
      PROVE  /\ runs'[q].parent = runs[q].parent /\ runs'[q].depth = runs[q].depth
             /\ runs'[q].cancelSent = rows[q].cancelSent
             /\ q # r =>
                  /\ runs'[q].call = runs[q].call
                  /\ \/ runs'[q].status = runs[q].status
                     \/ q = p /\ runs[q].status = "waiting" /\ runs'[q].status = "queued"
  BY <1>5, <1>6
<1>10. runs'[r].status = outcome /\ runs'[r].call = None
  BY <1>1, <1>4, <1>5, <1>6
<1>11. p # None =>
         /\ r = Current(r[1]) /\ p = children[r[1]].parent
         /\ children[r[1]].waitFailed \/ runs[p].call # r[1] \/ runs'[p].status # "waiting"
  BY <1>3, <1>4, <1>5, <1>6
<1>12. QED
  BY <1>6, <1>8, <1>9, <1>10, <1>11

LEMMA RunEnds ==
  ASSUME IInv, NEW w \in Workers, worker[w].pc = "locked", NEW outcome \in {"completed", "failed", "cancelled"},
         NEW rows, EndsRun(w, outcome, rows)
  PROVE  IInv'
<1> DEFINE r == Mine(w)
           p == runs[r].parent
<1>1. /\ r \in Runs /\ r # None /\ IsOpen(r) /\ Exists(r) /\ runs[r] \in Run
      /\ r[1] \in Instances /\ runs \in [Runs -> Run] /\ children \in [Instances -> Child]
  BY LockedRun, RunNames DEF IInv, TypeOK
<1>2. outcome \in Outcomes /\ outcome \in Terminal
  BY DEF Outcomes, Terminal
<1>3. /\ p # None <=> r[1] \notin Roots
      /\ p # None => r = Current(r[1]) /\ p = children[r[1]].parent /\ p \in Runs
  BY <1>1, OpenIsCurrent DEF IInv, Family, RunsHaveParents
<1>4. p # r
  BY <1>1 DEF IInv, Family, RunsHaveParents, Run
<1>5. TypeOK'
  BY RowTypes, EndsRunEffect, ZenonT(60) DEF IInv, TypeOK, EndsRun
<1>6. \A q \in Runs : rows[q].cancelSent = runs[q].cancelSent
             \/ \E c \in ActiveChildren(r) : q = Current(c)
  BY DEF EndsRun
<1>7. \A q \in Runs \ {r} : (\E c \in ActiveChildren(r) : q = Current(c)) => runs[q].parent = r
  <2>1. ASSUME NEW q \in Runs, NEW c \in ActiveChildren(r), q = Current(c)
        PROVE  runs[q].parent = r
    <3>1. c \in Instances /\ children[c].parent = r /\ children[c].status = "active"
      BY DEF ActiveChildren
    <3>2. c \notin Roots /\ IsOpen(q)
      BY <2>1, <3>1, FamilyFacts
    <3>3. q[1] = c
      BY <2>1 DEF Current
    <3>4. QED
      BY <3>1, <3>2, <3>3, OpenIsCurrent
  <2>2. QED
    BY <2>1
<1>8. Within(WorkerLocks(w), {r})
  <2>1. ASSUME NEW q \in Runs, Exists(q)
        PROVE  /\ Exists(q)' /\ runs'[q].parent = runs[q].parent /\ runs'[q].depth = runs[q].depth
               /\ q # r =>
                    /\ runs'[q].call = runs[q].call
                    /\ \/ runs'[q].status = runs[q].status
                       \/ q = p /\ runs[q].status = "waiting" /\ runs'[q].status = "queued"
                    /\ runs'[q].cancelSent = runs[q].cancelSent \/ runs[q].parent = r
    BY <1>1, <1>2, <1>6, <1>7, <2>1, EndsRunEffect DEF Exists, Outcomes
  <2>2. ASSUME NEW c \in Instances
        PROVE  \/ children'[c] = children[c]
               \/ /\ children'[c].parent \in {r, p} \ {None}
                  /\ children[c].parent \in {r, p, None}
    <3>1. CASE Current(c) = r /\ children[c].status = "active"
      <4>1. c = r[1] /\ c \notin Roots
        BY <3>1, FamilyFacts DEF Current
      <4>2. QED
        BY <1>3, <4>1, EndsRunEffect
    <3>2. CASE ~(Current(c) = r /\ children[c].status = "active")
      BY <1>1, <3>2, CommitFacts, EndsRunEffect
    <3>3. QED
      BY <3>1, <3>2
  <2>3. QED
    BY <2>1, <2>2, CommitWithin
<1>9. Family'
  <2> DEFINE E == {r}
  <2>1. E \in SUBSET Runs /\ \A q \in E : IsOpen(q) /\ runs'[q].status = outcome
    BY <1>1, EndsRunEffect
  <2>2. ASSUME NEW q \in Runs
        PROVE  /\ Exists(q)' <=> Exists(q)
               /\ runs'[q].parent = runs[q].parent /\ runs'[q].depth = runs[q].depth
               /\ q \notin E => runs'[q].status = runs[q].status \/ (IsOpen(q) /\ IsOpen(q)')
               /\ runs'[q].call \in Instances => children[runs'[q].call].parent = q
    <3>1. CASE q = r
      BY <1>1, <1>2, <2>1, <3>1, RunNames, EndsRunEffect DEF Exists, Outcomes
    <3>2. CASE q # r
      BY <3>2, EndsRunEffect DEF Exists, IsOpen, Open, IInv, Family, CallsAreChildren
    <3>3. QED
      BY <3>1, <3>2
  <2>3. \A c \in Instances :
           /\ children'[c].parent = children[c].parent
           /\ children'[c].current = children[c].current
           /\ children[c].status = "none" => children'[c] = children[c]
           /\ children'[c].status = IF children[c].status = "active" /\ Current(c) \in E
                                    THEN outcome ELSE children[c].status
    BY CommitFacts, EndsRunEffect
  <2> HIDE DEF E
  <2>4. QED
    BY <1>2, <1>5, <2>1, <2>2, <2>3, FamilyStep, ZenonT(60)
<1>10. QED
  BY <1>5, <1>8, <1>9, AfterCommit DEF IInv, EndsRun

LEMMA EndingCommits ==
  ASSUME IInv, NEW w \in Workers,
         CancelledRun(w) \/ \E outcome \in {"completed", "failed"} : EndRun(w, outcome)
  PROVE  /\ worker[w].pc = "locked" /\ View(w).call = None
         /\ \E outcome \in {"completed", "failed", "cancelled"}, rows \in [Runs -> Run] :
              EndsRun(w, outcome, rows)
<1>1. worker[w].pc = "locked" /\ View(w).call = None
  BY DEF EndRun, CancelledRun, Activating, Free
<1>2. /\ Mine(w) \in Runs /\ runs[Mine(w)] \in Run /\ View(w) \in Run
      /\ View(w).parent = runs[Mine(w)].parent /\ View(w).depth = runs[Mine(w)].depth
      /\ View(w).cancelSent = runs[Mine(w)].cancelSent
      /\ runs \in [Runs -> Run]
  BY <1>1, LockedRun, CommitFacts DEF IInv, TypeOK
<1>3. ASSUME NEW row \in Run, NEW outcome, row.status = outcome, row.call = None,
             row.parent = View(w).parent, row.depth = View(w).depth, row.cancelSent = View(w).cancelSent
      PROVE  /\ [runs EXCEPT ![Mine(w)] = row] \in [Runs -> Run]
             /\ \A q \in Runs :
                  /\ [runs EXCEPT ![Mine(w)] = row][q].parent = runs[q].parent
                  /\ [runs EXCEPT ![Mine(w)] = row][q].depth = runs[q].depth
                  /\ [runs EXCEPT ![Mine(w)] = row][q].cancelSent = runs[q].cancelSent
                  /\ q # Mine(w) => [runs EXCEPT ![Mine(w)] = row][q] = runs[q]
             /\ [runs EXCEPT ![Mine(w)] = row][Mine(w)].status = outcome
             /\ [runs EXCEPT ![Mine(w)] = row][Mine(w)].call = None
  BY <1>2, <1>3
<1>4. ASSUME NEW outcome \in {"completed", "failed"}, EndRun(w, outcome)
      PROVE  \E rows \in [Runs -> Run] : EndsRun(w, outcome, rows)
  <2> DEFINE row == [View(w) EXCEPT !.status = outcome]
             rows == [runs EXCEPT ![Mine(w)] = row]
  <2>1. /\ row \in Run /\ row.status = outcome /\ row.call = None
        /\ row.parent = View(w).parent /\ row.depth = View(w).depth
        /\ row.cancelSent = View(w).cancelSent
    BY <1>1, <1>2 DEF Run, Terminal
  <2>2. /\ EndChild(w, rows) /\ children' = EndedChildren(Heard(w), {Mine(w)}, outcome)
        /\ worker' = [worker EXCEPT ![w] = Idle] /\ UNCHANGED <<client, budget>>
    BY <1>4 DEF EndRun
  <2> HIDE DEF row
  <2>3. /\ rows \in [Runs -> Run]
        /\ \A q \in Runs :
             /\ rows[q].parent = runs[q].parent /\ rows[q].depth = runs[q].depth
             /\ rows[q].cancelSent = runs[q].cancelSent
             /\ q # Mine(w) => rows[q] = runs[q]
        /\ rows[Mine(w)].status = outcome /\ rows[Mine(w)].call = None
    BY <1>3, <2>1
  <2> HIDE DEF rows
  <2>4. QED
    BY <2>2, <2>3 DEF EndsRun
<1>5. CASE CancelledRun(w)
  <2> DEFINE row == Closed(View(w), "cancelled")
             ended == [runs EXCEPT ![Mine(w)] = row]
             rows == Cascade(ended, Mine(w))
  <2>1. /\ row \in Run /\ row.status = "cancelled" /\ row.call = None
        /\ row.parent = View(w).parent /\ row.depth = View(w).depth
        /\ row.cancelSent = View(w).cancelSent
    BY <1>1, <1>2, ClosedType DEF Terminal
  <2>2. /\ EndChild(w, rows) /\ children' = EndedChildren(Heard(w), {Mine(w)}, "cancelled")
        /\ worker' = [worker EXCEPT ![w] = Idle] /\ UNCHANGED <<client, budget>>
    BY <1>5 DEF CancelledRun
  <2> HIDE DEF row
  <2>3. /\ ended \in [Runs -> Run]
        /\ \A q \in Runs :
             /\ ended[q].parent = runs[q].parent /\ ended[q].depth = runs[q].depth
             /\ ended[q].cancelSent = runs[q].cancelSent
             /\ q # Mine(w) => ended[q] = runs[q]
        /\ ended[Mine(w)].status = "cancelled" /\ ended[Mine(w)].call = None
    BY <1>3, <2>1
  <2> HIDE DEF ended
  <2>4. /\ rows \in [Runs -> Run]
        /\ \A q \in Runs :
             /\ rows[q].parent = ended[q].parent /\ rows[q].depth = ended[q].depth
             /\ rows[q].call = ended[q].call /\ rows[q].status = ended[q].status
             /\ rows[q].cancelSent = ended[q].cancelSent
                  \/ \E c \in ActiveChildren(Mine(w)) : q = Current(c)
             /\ (\E c \in ActiveChildren(Mine(w)) : q = Current(c)) => rows[q].cancelSent = TRUE
    <3> DEFINE r == Mine(w)
    <3>1. ended \in [Runs -> Run]
      BY <2>3
    <3> HIDE DEF r
    <3>2. QED
      BY <3>1, CascadeEffect, ZenonT(180) DEF r
  <2> HIDE DEF rows
  <2>5. \A q \in Runs :
           /\ rows[q].parent = runs[q].parent /\ rows[q].depth = runs[q].depth
           /\ \/ rows[q].cancelSent = runs[q].cancelSent
              \/ rows[q].cancelSent = TRUE /\ \E c \in ActiveChildren(Mine(w)) : q = Current(c)
           /\ q # Mine(w) => rows[q].status = runs[q].status /\ rows[q].call = runs[q].call
    BY <2>3, <2>4
  <2>6. rows[Mine(w)].status = "cancelled" /\ rows[Mine(w)].call = None
    BY <1>2, <2>3, <2>4
  <2>7. \A c \in ActiveChildren(Mine(w)) : rows[Current(c)].cancelSent = TRUE
    BY <2>4, FamilyFacts DEF ActiveChildren
  <2>8. EndsRun(w, "cancelled", rows)
    BY <2>2, <2>4, <2>5, <2>6, <2>7 DEF EndsRun
  <2>9. QED
    BY <1>1, <2>4, <2>8
<1>6. QED
  BY <1>1, <1>4, <1>5

LEMMA NewChildType ==
  ASSUME NEW p \in Runs
  PROVE  /\ [NoChild EXCEPT !.status = "active", !.parent = p, !.current = 1] \in Child
         /\ [NoChild EXCEPT !.status = "active", !.parent = p, !.current = 1].status = "active"
         /\ [NoChild EXCEPT !.status = "active", !.parent = p, !.current = 1].parent = p
         /\ [NoChild EXCEPT !.status = "active", !.parent = p, !.current = 1].current = 1
         /\ [NoChild EXCEPT !.status = "active", !.parent = p, !.current = 1].continuations = 0
         /\ [NoChild EXCEPT !.status = "active", !.parent = p, !.current = 1].waitFailed = FALSE
         /\ [NoChild EXCEPT !.status = "active", !.parent = p, !.current = 1].heard = "none"
<1>1. /\ NoChild \in Child /\ 1 \in 0..MaxNumber
      /\ NoChild.continuations = 0 /\ NoChild.waitFailed = FALSE /\ NoChild.heard = "none"
  BY Limits, RowTypes DEF NoChild
<1>2. QED
  BY <1>1 DEF Child

\* A new child: its first run did not exist, nor did a relationship.
\* What the start of a child writes.
Starts(w, c) ==
    /\ worker[w].pc = "locked" /\ children[c].status = "none"
    /\ First(c) \in Runs /\ ~Exists(First(c)) /\ First(c) # Mine(w)
    /\ runs'[Mine(w)].status = "waiting" /\ runs'[Mine(w)].call = c
    /\ runs'[Mine(w)].cancelSent = runs[Mine(w)].cancelSent
    /\ runs'[First(c)].status = "queued" /\ runs'[First(c)].call = None
    /\ \A q \in Runs : q # Mine(w) /\ q # First(c) => runs'[q] = runs[q]
    /\ children'[c].status = "active" /\ children'[c].parent = Mine(w)
    /\ children'[c].continuations = 0 /\ children'[c].waitFailed = FALSE
    /\ children'[c].heard = "none"
    /\ \A d \in Instances : d # c => children'[d] = Heard(w)[d]

LEMMA ChildStarts ==
  ASSUME IInv, NEW w \in Workers, NEW c \in Instances, StartChild(w, c)
  PROVE  IInv' /\ Starts(w, c)
<1>1. worker[w].pc = "locked" /\ children[c].status = "none" /\ c \notin Roots
  BY DEF StartChild, CallsChild, Free, Activating, Refused, BoundElsewhere
<1>2. PICK r \in Runs : r = Mine(w)
  BY <1>1, LockedRun
<1> DEFINE f == First(c)
           mine == WaitsFor(w, c)
           depth == runs[r].depth + 1
           new == NewRun(r, depth)
           relation == [NoChild EXCEPT !.status = "active", !.parent = r, !.current = 1]
<1>3. /\ r # None /\ runs[r] \in Run /\ View(w) \in Run /\ IsOpen(r) /\ Exists(r)
      /\ View(w).parent = runs[r].parent /\ View(w).depth = runs[r].depth
      /\ View(w).cancelSent = runs[r].cancelSent
      /\ runs \in [Runs -> Run] /\ children \in [Instances -> Child] /\ runs[r].depth \in Nat
  BY <1>1, <1>2, LockedRun, CommitFacts DEF IInv, TypeOK, Run
<1>4. f \in Runs /\ f = <<c, 1>> /\ f[1] = c /\ ~Exists(f) /\ f # r
  BY <1>1, <1>3, RunNames DEF First, IInv, Family, RelationshipFollowsChild, Exists
<1>5. /\ mine \in Run /\ mine.parent = View(w).parent /\ mine.depth = View(w).depth
      /\ mine.status = "waiting" /\ mine.call = c /\ mine.cancelSent = View(w).cancelSent
  BY <1>3 DEF Run, Open, Calls, WaitsFor
<1>6. /\ new \in Run /\ new.status = "queued" /\ new.parent = r /\ new.depth = runs[r].depth + 1
      /\ new.call = None
  <2>1. depth \in Nat /\ r \in Runs \cup {None}
    BY <1>3
  <2> HIDE DEF depth
  <2>2. new \in Run /\ new.status = "queued" /\ new.parent = r /\ new.depth = depth /\ new.call = None
    BY <2>1, NewRunType, ZenonT(180)
  <2>3. QED
    BY <2>2 DEF depth
<1>7. /\ relation \in Child /\ relation.status = "active" /\ relation.parent = r
      /\ relation.current = 1 /\ relation.continuations = 0 /\ relation.waitFailed = FALSE
      /\ relation.heard = "none"
  BY NewChildType
<1>8. /\ runs' = [runs EXCEPT ![r] = mine, ![f] = new]
      /\ children' = [Heard(w) EXCEPT ![c] = relation]
      /\ worker' = [worker EXCEPT ![w] = Idle] /\ UNCHANGED <<client, budget>>
  BY <1>2 DEF StartChild
<1> HIDE DEF mine, new, relation
<1>9. /\ runs' \in [Runs -> Run] /\ runs'[r] = mine /\ runs'[f] = new
      /\ \A q \in Runs : q # r /\ q # f => runs'[q] = runs[q]
  BY <1>3, <1>4, <1>5, <1>6, <1>8
<1> HIDE DEF f
<1>10. /\ children' \in [Instances -> Child] /\ children'[c] = relation
      /\ \A d \in Instances : d # c =>
           /\ children'[d] = Heard(w)[d]
           /\ children'[d].parent = children[d].parent /\ children'[d].current = children[d].current
           /\ children'[d].status = children[d].status
           /\ children'[d] = children[d] \/ children[d].parent = r
           /\ children[d].status = "none" => children'[d] = children[d]
  BY <1>1, <1>7, <1>8, <1>2, HeardEffect, CommitFacts
<1>11. TypeOK'
  BY <1>8, <1>9, <1>10, RowTypes DEF IInv, TypeOK
<1>12. children[c] = NoChild /\ children[c].parent = None /\ children[c].current = 0
  <2>1. children[c] = NoChild
    BY <1>1 DEF IInv, Family, RelationshipsHaveRuns
  <2>2. QED
    BY <2>1 DEF NoChild
<1>13. Within(WorkerLocks(w), {Mine(w)})
  <2>1. ASSUME NEW q \in Runs, Exists(q)
        PROVE  /\ Exists(q)' /\ runs'[q].parent = runs[q].parent /\ runs'[q].depth = runs[q].depth
               /\ q # r => runs'[q] = runs[q]
    BY <1>3, <1>4, <1>5, <1>9, <2>1 DEF Exists
  <2>2. ASSUME NEW d \in Instances
        PROVE  \/ children'[d] = children[d]
               \/ /\ children'[d].parent \in {r, runs[r].parent} \ {None}
                  /\ children[d].parent \in {r, runs[r].parent, None}
    BY <1>3, <1>7, <1>10, <1>12
  <2>3. QED
    BY <1>1, <1>2, <2>1, <2>2, CommitWithin
<1>14. \A q \in Runs : q # f => (Exists(q)' <=> Exists(q)) /\ runs'[q].parent = runs[q].parent
           /\ runs'[q].depth = runs[q].depth
  BY <1>3, <1>5, <1>9 DEF Exists, IsOpen, Open
<1>15. \A q \in Runs : q[1] = c => ~Exists(q)
  <2>1. ASSUME NEW q \in Runs, q[1] = c
        PROVE  ~Exists(q)
    <3>1. q[2] \in 1..MaxNumber /\ q = <<c, q[2]>> /\ 0 < q[2]
      BY <2>1, RunNames
    <3>2. QED
      BY <1>1, <1>12, <3>1 DEF IInv, Family, RelationshipFollowsChild, Exists
  <2>2. QED
    BY <2>1
<1>16. RunsHaveParents'
  <2>1. ASSUME NEW q \in Runs, Exists(q)'
        PROVE  /\ (runs'[q].parent = None) <=> (q[1] \in Roots)
               /\ runs'[q].parent # None =>
                    /\ runs'[q].parent = children'[q[1]].parent
                    /\ Exists(runs[q].parent)'
                    /\ runs'[q].depth = runs'[runs'[q].parent].depth + 1
    <3>1. CASE q = f
      <4>1. runs'[q].parent = r /\ Exists(r)'
        BY <1>3, <1>4, <1>6, <1>9, <1>14, <3>1
      <4>2. runs'[q].depth = runs'[r].depth + 1
        BY <1>3, <1>5, <1>6, <1>9, <3>1
      <4>3. children'[q[1]].parent = r
        BY <1>4, <1>7, <1>10, <3>1
      <4>4. QED
        BY <1>1, <1>3, <1>4, <3>1, <4>1, <4>2, <4>3
    <3>2. CASE q # f
      <4>1. Exists(q) /\ runs'[q].parent = runs[q].parent /\ runs'[q].depth = runs[q].depth
        BY <1>14, <2>1, <3>2
      <4>2. q[1] # c /\ q[1] \in Instances
        BY <1>15, <4>1, RunNames
      <4>3. runs[q].parent # None => runs[q].parent \in Runs /\ Exists(runs[q].parent)
        BY <4>1, FieldTypes DEF IInv, Family, RunsHaveParents, Run
      <4>4. runs[q].parent # None => runs[q].parent # f
        BY <1>4, <4>3
      <4>5. runs[q].parent # None => Exists(runs[q].parent)'
              /\ runs'[runs[q].parent].depth = runs[runs[q].parent].depth
        BY <1>14, <4>1, <4>3, <4>4
      <4>6. children'[q[1]].parent = children[q[1]].parent
        BY <1>10, <4>2
      <4>7. QED
        BY <4>1, <4>5, <4>6 DEF IInv, Family, RunsHaveParents
    <3>3. QED
      BY <3>1, <3>2
  <2>2. QED
    BY <2>1 DEF RunsHaveParents
<1>17. RunsContinue'
  <2>1. ASSUME NEW q \in Runs, q[2] < MaxNumber, Exists(Successor(q))'
        PROVE  runs'[q].status = "continued_as_new"
    <3>1. Successor(q) \in Runs /\ q[2] \in 1..MaxNumber /\ Successor(q)[2] = q[2] + 1
      BY <2>1, FamilyFacts, RunNames DEF Successor
    <3>2. Successor(q) # f
      BY <1>4, <3>1
    <3>3. Exists(Successor(q)) /\ runs[q].status = "continued_as_new"
      BY <1>14, <2>1, <3>1, <3>2 DEF IInv, Family, RunsContinue
    <3>4. q # r /\ q # f
      BY <1>3, <1>4, <3>3 DEF IsOpen, Open, Exists
    <3>5. QED
      BY <1>9, <3>3, <3>4
  <2>2. QED
    BY <2>1 DEF RunsContinue, Successor
<1>18. RelationshipsHaveRuns'
  <2>1. ASSUME NEW d \in Instances
        PROVE  /\ children'[d].status = "none" => children'[d] = NoChild
               /\ children'[d].status # "none" =>
                    d \notin Roots /\ children'[d].current \in 1..MaxNumber /\ children'[d].parent \in Runs
    <3>1. CASE d = c
      BY <1>1, <1>3, <1>7, <1>10, <3>1, Limits
    <3>2. CASE d # c
      BY <1>10, <3>2 DEF IInv, Family, RelationshipsHaveRuns
    <3>3. QED
      BY <3>1, <3>2
  <2>2. QED
    BY <2>1 DEF RelationshipsHaveRuns
<1>19. RelationshipFollowsChild'
  <2>1. ASSUME NEW d \in Instances \ Roots
        PROVE  /\ (children'[d].status = "none") <=> (runs'[First(d)].status = "none")
               /\ \A n \in 1..MaxNumber :
                    /\ n < children'[d].current => runs'[<<d, n>>].status = "continued_as_new"
                    /\ n > children'[d].current => runs'[<<d, n>>].status = "none"
               /\ children'[d].status = "active" => IsOpen(Current(d))'
               /\ children'[d].status \in Outcomes => runs'[Current(d)'].status = children'[d].status
    <3>1. CASE d = c
      <4>1. children'[d].status = "active" /\ children'[d].current = 1 /\ Current(d)' = f
        BY <1>4, <1>7, <1>10, <3>1 DEF Current
      <4>2. runs'[f].status = "queued" /\ First(d) = f
        BY <1>6, <1>9, <3>1 DEF f
      <4>3. ASSUME NEW n \in 1..MaxNumber, n > 1
            PROVE  runs'[<<d, n>>].status = "none"
        <5>1. <<d, n>> \in Runs /\ <<d, n>>[1] = c /\ <<d, n>> # f
          BY <1>4, <3>1, <4>3, RunNames
        <5>2. <<d, n>> # r /\ runs[<<d, n>>].status = "none"
          BY <1>3, <1>15, <5>1 DEF Exists
        <5>3. QED
          BY <1>9, <5>1, <5>2
      <4>4. QED
        BY <4>1, <4>2, <4>3 DEF IsOpen, Open, Outcomes
    <3>2. CASE d # c
      <4>1. \A n \in 1..MaxNumber : <<d, n>> \in Runs /\ <<d, n>> # f
        BY <1>4, <3>2, RunNames
      <4>2. First(d) \in Runs /\ First(d) # f
        BY <4>1, Limits DEF First
      <4>3. \A q \in Runs : q # f => runs'[q].status = runs[q].status \/ (IsOpen(q) /\ IsOpen(q)')
        BY <1>3, <1>5, <1>9 DEF IsOpen, Open
      <4>4. Current(d)' = Current(d) /\ children'[d].status = children[d].status
            /\ children'[d].current = children[d].current
        BY <1>10, <3>2 DEF Current
      <4>5. children[d].status # "none" => Current(d) \in Runs /\ Current(d) # f
        BY <1>4, <3>2, FamilyFacts DEF Current
      <4>6. /\ (children[d].status = "none") <=> (runs[First(d)].status = "none")
            /\ \A n \in 1..MaxNumber :
                 /\ n < children[d].current => runs[<<d, n>>].status = "continued_as_new"
                 /\ n > children[d].current => runs[<<d, n>>].status = "none"
            /\ children[d].status = "active" => IsOpen(Current(d))
            /\ children[d].status \in Outcomes => runs[Current(d)].status = children[d].status
        BY DEF IInv, Family, RelationshipFollowsChild
      <4>7. (children'[d].status = "none") <=> (runs'[First(d)].status = "none")
        BY <4>2, <4>3, <4>4, <4>6 DEF IsOpen, Open
      <4>8. \A n \in 1..MaxNumber :
              /\ n < children'[d].current => runs'[<<d, n>>].status = "continued_as_new"
              /\ n > children'[d].current => runs'[<<d, n>>].status = "none"
        BY <4>1, <4>3, <4>4, <4>6 DEF IsOpen, Open
      <4>9. children'[d].status = "active" => IsOpen(Current(d))'
        BY <4>3, <4>4, <4>5, <4>6 DEF IsOpen, Open
      <4>10. children'[d].status \in Outcomes => runs'[Current(d)'].status = children'[d].status
        BY <4>3, <4>4, <4>5, <4>6 DEF IsOpen, Open, Outcomes
      <4>11. QED
        BY <4>7, <4>8, <4>9, <4>10
    <3>3. QED
      BY <3>1, <3>2
  <2>2. QED
    BY <2>1 DEF RelationshipFollowsChild, Current, First
<1>20. CallsAreChildren'
  <2>1. ASSUME NEW q \in Runs, runs'[q].call \in Instances
        PROVE  children'[runs'[q].call].parent = q
    <3>1. CASE q = r
      BY <1>5, <1>7, <1>9, <1>10, <3>1
    <3>2. CASE q = f
      BY <1>6, <1>9, <2>1, <3>2, RunNames
    <3>3. CASE q # r /\ q # f
      <4>1. runs[q].call = runs'[q].call /\ children[runs[q].call].parent = q
        BY <1>9, <2>1, <3>3 DEF IInv, Family, CallsAreChildren
      <4>2. runs[q].call # c
        BY <1>12, <4>1, RunNames
      <4>3. QED
        BY <1>10, <2>1, <4>1, <4>2
    <3>4. QED
      BY <3>1, <3>2, <3>3
  <2>2. QED
    BY <2>1 DEF CallsAreChildren
<1>21. Family'
  BY <1>16, <1>17, <1>18, <1>19, <1>20 DEF Family
<1>22. IInv'
  BY <1>1, <1>8, <1>11, <1>13, <1>21, AfterCommit DEF IInv
<1>23. QED
  BY <1>1, <1>2, <1>3, <1>4, <1>5, <1>6, <1>7, <1>9, <1>10, <1>22 DEF f, Starts

LEMMA FollowedType ==
  ASSUME NEW relation \in Child, relation.current < MaxNumber
  PROVE  /\ Followed(relation) \in Child
         /\ Followed(relation).status = relation.status /\ Followed(relation).parent = relation.parent
         /\ Followed(relation).current = relation.current + 1
         /\ Followed(relation).continuations = relation.continuations + 1
         /\ Followed(relation).waitFailed = relation.waitFailed
         /\ Followed(relation).heard = relation.heard
<1>1. relation.current + 1 \in 0..MaxNumber /\ relation.continuations + 1 \in Nat
  BY Limits DEF Child
<1> DEFINE n == relation.current + 1
           m == relation.continuations + 1
<1>2. Followed(relation) = [relation EXCEPT !.current = n, !.continuations = m]
  BY DEF Followed
<1> HIDE DEF n, m
<1>3. n \in 0..MaxNumber /\ m \in Nat
  BY <1>1 DEF n, m
<1>4. /\ Followed(relation) \in Child
      /\ Followed(relation).status = relation.status /\ Followed(relation).parent = relation.parent
      /\ Followed(relation).current = n /\ Followed(relation).continuations = m
      /\ Followed(relation).waitFailed = relation.waitFailed
      /\ Followed(relation).heard = relation.heard
  BY <1>2, <1>3 DEF Child
<1>5. QED
  BY <1>4 DEF n, m

\* A continuation: the instance's next run did not exist, and the relationship, if
\* there is one, moves on to it.
LEMMA RunContinues ==
  ASSUME IInv, NEW w \in Workers, ContinueAsNew(w)
  PROVE  /\ IInv'
         /\ worker[w].pc = "locked" /\ Successor(Mine(w)) \in Runs
         /\ ~Exists(Successor(Mine(w))) /\ Successor(Mine(w)) # Mine(w)
         /\ runs'[Mine(w)].status = "continued_as_new" /\ runs'[Successor(Mine(w))].status = "queued"
         /\ runs'[Mine(w)].cancelSent = runs[Mine(w)].cancelSent
         /\ \A q \in Runs : q # Mine(w) /\ q # Successor(Mine(w)) =>
              /\ runs'[q].call = runs[q].call /\ runs'[q].cancelSent = runs[q].cancelSent
              /\ \/ runs'[q].status = runs[q].status
                 \/ runs[q].status = "waiting" /\ runs'[q].status = "queued"
         /\ \A d \in Instances : d # Mine(w)[1] \/ runs[Mine(w)].parent = None
                                  => children'[d] = Heard(w)[d]
         /\ runs[Mine(w)].parent # None =>
              /\ children[Mine(w)[1]].status = "active"
              /\ children[Mine(w)[1]].parent = runs[Mine(w)].parent
              /\ children'[Mine(w)[1]] = Followed(children[Mine(w)[1]])
              /\ \/ children'[Mine(w)[1]].continuations < MaxContinuationFollowDepth
                 \/ children[Mine(w)[1]].waitFailed
                 \/ runs[runs[Mine(w)].parent].call # Mine(w)[1]
                 \/ runs'[runs[Mine(w)].parent].status # "waiting"
<1>1. worker[w].pc = "locked" /\ View(w).call = None
  BY DEF ContinueAsNew, Free, Activating
<1>2. PICK r \in Runs : r = Mine(w)
  BY <1>1, LockedRun
<1>3. PICK p \in Runs \cup {None} : p = runs[r].parent
  BY <1>1, <1>2, LockedRun DEF Run
<1> DEFINE s == Successor(r)
           c == r[1]
           mine == TransitionRunToContinuedAsNew(View(w))
           new == NewRun(p, runs[r].depth)
           followed == Followed(children[c])
           rows == [runs EXCEPT ![r] = mine, ![s] = new]
<1>4. /\ r # None /\ runs[r] \in Run /\ View(w) \in Run /\ IsOpen(r) /\ Exists(r)
      /\ runs[r].status = "running"
      /\ View(w).parent = p /\ View(w).depth = runs[r].depth
      /\ View(w).cancelSent = runs[r].cancelSent /\ p # r
      /\ runs \in [Runs -> Run] /\ children \in [Instances -> Child] /\ runs[r].depth \in Nat
  <2>1. /\ r # None /\ runs[r] \in Run /\ View(w) \in Run /\ IsOpen(r) /\ Exists(r)
        /\ runs[r].status = "running"
        /\ View(w).parent = p /\ View(w).depth = runs[r].depth
        /\ View(w).cancelSent = runs[r].cancelSent
        /\ runs \in [Runs -> Run] /\ children \in [Instances -> Child] /\ runs[r].depth \in Nat
    BY <1>1, <1>2, <1>3, LockedRun, CommitFacts DEF IInv, TypeOK, Run
  <2>2. p # r
    BY <1>3, <2>1 DEF IInv, Family, RunsHaveParents
  <2>3. QED
    BY <2>1, <2>2
<1>5. /\ r[2] < MaxNumber /\ r[2] \in 1..MaxNumber /\ s \in Runs /\ s = <<c, r[2] + 1>>
      /\ r = <<c, r[2]>> /\ c \in Instances
  BY <1>2, FamilyFacts, RunNames DEF ContinueAsNew, Successor
<1>6. ~Exists(s) /\ s # r
  BY <1>4, <1>5 DEF IInv, Family, RunsContinue
<1>7. /\ mine \in Run /\ mine.status = "continued_as_new" /\ mine.call = None
      /\ mine.parent = p /\ mine.depth = runs[r].depth /\ mine.cancelSent = runs[r].cancelSent
  BY <1>1, <1>4, ClosedType DEF TransitionRunToContinuedAsNew, Terminal
<1>8. /\ new \in Run /\ new.status = "queued" /\ new.parent = p /\ new.depth = runs[r].depth
      /\ new.call = None
  BY <1>4, NewRunType, ZenonT(180)
<1>9. p # None => /\ r = Current(c) /\ children[c].status = "active" /\ children[c].parent = p
                  /\ c \notin Roots /\ children[c].current = r[2]
  BY <1>3, <1>4, OpenIsCurrent DEF IInv, Family, RunsHaveParents, Current
<1>10. p # None => /\ followed \in Child /\ followed.status = "active" /\ followed.parent = p
                   /\ followed.current = r[2] + 1 /\ followed.waitFailed = children[c].waitFailed
                   /\ followed.continuations \in Nat
  BY <1>4, <1>5, <1>9, FollowedType DEF Child
<1>11. /\ runs' = IF p # None /\ followed.continuations >= MaxContinuationFollowDepth
                  THEN Woken(rows, followed, c) ELSE rows
       /\ children' = IF p # None THEN [Heard(w) EXCEPT ![c] = followed] ELSE Heard(w)
       /\ worker' = [worker EXCEPT ![w] = Idle] /\ UNCHANGED <<client, budget>>
  BY <1>2, <1>3 DEF ContinueAsNew
<1> HIDE DEF mine, new, followed, s
<1>12. /\ rows \in [Runs -> Run] /\ rows[r] = mine /\ rows[s] = new
       /\ \A q \in Runs : q # r /\ q # s => rows[q] = runs[q]
  BY <1>4, <1>5, <1>6, <1>7, <1>8
<1> HIDE DEF rows
<1>13. /\ runs' \in [Runs -> Run]
       /\ \A q \in Runs :
            /\ runs'[q].parent = rows[q].parent /\ runs'[q].depth = rows[q].depth
            /\ runs'[q].call = rows[q].call /\ runs'[q].cancelSent = rows[q].cancelSent
            /\ \/ runs'[q].status = rows[q].status
               \/ q = p /\ rows[q].status = "waiting" /\ runs'[q].status = "queued"
       /\ p # None /\ followed.continuations >= MaxContinuationFollowDepth =>
            followed.waitFailed \/ rows[p].call # c \/ runs'[p].status # "waiting"
  <2>1. CASE p # None /\ followed.continuations >= MaxContinuationFollowDepth
    <3>1. runs' = Woken(rows, followed, c) /\ followed \in Child /\ followed.parent = p /\ p \in Runs
      BY <1>10, <1>11, <2>1
    <3>2. QED
      BY <1>12, <3>1, WokenEffect
  <2>2. CASE ~(p # None /\ followed.continuations >= MaxContinuationFollowDepth)
    BY <1>11, <1>12, <2>2
  <2>3. QED
    BY <2>1, <2>2
<1>14. /\ runs'[r].status = "continued_as_new" /\ runs'[r].call = None
       /\ runs'[r].parent = p /\ runs'[r].depth = runs[r].depth
       /\ runs'[r].cancelSent = runs[r].cancelSent
       /\ runs'[s].status = "queued" /\ runs'[s].call = None
       /\ runs'[s].parent = p /\ runs'[s].depth = runs[r].depth
  BY <1>5, <1>7, <1>8, <1>12, <1>13
<1>15. \A q \in Runs : q # r /\ q # s =>
         /\ runs'[q].parent = runs[q].parent /\ runs'[q].depth = runs[q].depth
         /\ runs'[q].call = runs[q].call /\ runs'[q].cancelSent = runs[q].cancelSent
         /\ \/ runs'[q].status = runs[q].status
            \/ q = p /\ runs[q].status = "waiting" /\ runs'[q].status = "queued"
  BY <1>12, <1>13
<1>16. /\ children' \in [Instances -> Child]
       /\ \A d \in Instances :
            /\ children'[d].parent = children[d].parent
            /\ children'[d].status = children[d].status
            /\ d # c \/ p = None =>
                 /\ children'[d] = Heard(w)[d]
                 /\ children'[d].current = children[d].current
                 /\ children'[d] = children[d] \/ children[d].parent = r
                 /\ children[d].status = "none" => children'[d] = children[d]
       /\ p # None => children'[c] = followed
  <2>1. CASE p # None
    BY <1>1, <1>2, <1>5, <1>9, <1>10, <1>11, <2>1, HeardEffect, CommitFacts
  <2>2. CASE p = None
    BY <1>1, <1>2, <1>11, <2>2, HeardEffect, CommitFacts
  <2>3. QED
    BY <2>1, <2>2
<1>17. TypeOK'
  BY <1>11, <1>13, <1>16, RowTypes DEF IInv, TypeOK
<1>18. \A q \in Runs : q # s =>
         /\ (Exists(q)' <=> Exists(q)) /\ runs'[q].parent = runs[q].parent
         /\ runs'[q].depth = runs[q].depth
         /\ runs[q].status \in Terminal => runs'[q].status = runs[q].status
         /\ q # r => runs'[q].status = runs[q].status \/ (IsOpen(q) /\ IsOpen(q)')
  BY <1>3, <1>4, <1>14, <1>15 DEF Exists, IsOpen, Open, Terminal
<1>19. Within(WorkerLocks(w), {Mine(w)})
  <2>1. ASSUME NEW q \in Runs, Exists(q)
        PROVE  /\ Exists(q)' /\ runs'[q].parent = runs[q].parent /\ runs'[q].depth = runs[q].depth
               /\ q # r =>
                    /\ runs'[q].call = runs[q].call
                    /\ \/ runs'[q].status = runs[q].status
                       \/ /\ q = runs[r].parent
                          /\ runs[q].status = "waiting" /\ runs'[q].status = "queued"
                    /\ runs'[q].cancelSent = runs[q].cancelSent
    BY <1>3, <1>6, <1>15, <1>18, <2>1
  <2>2. ASSUME NEW d \in Instances
        PROVE  \/ children'[d] = children[d]
               \/ /\ children'[d].parent \in {r, runs[r].parent} \ {None}
                  /\ children[d].parent \in {r, runs[r].parent, None}
    BY <1>3, <1>4, <1>9, <1>16
  <2>3. QED
    BY <1>1, <1>2, <2>1, <2>2, CommitWithin
<1>20. RunsHaveParents'
  <2>1. ASSUME NEW q \in Runs, Exists(q)'
        PROVE  /\ (runs'[q].parent = None) <=> (q[1] \in Roots)
               /\ runs'[q].parent # None =>
                    /\ runs'[q].parent = children'[q[1]].parent
                    /\ Exists(runs[q].parent)'
                    /\ runs'[q].depth = runs'[runs'[q].parent].depth + 1
    <3>1. \E o \in Runs : Exists(o) /\ o[1] = q[1] /\ runs'[q].parent = runs[o].parent
                          /\ runs'[q].depth = runs[o].depth
      <4>1. CASE q = s
        BY <1>3, <1>4, <1>5, <1>14, <4>1
      <4>2. CASE q # s
        BY <1>18, <2>1, <4>2
      <4>3. QED
        BY <4>1, <4>2
    <3>2. PICK o \in Runs : Exists(o) /\ o[1] = q[1] /\ runs'[q].parent = runs[o].parent
                          /\ runs'[q].depth = runs[o].depth
      BY <3>1
    <3>3. q[1] \in Instances /\ runs[o].parent \in Runs \cup {None}
      BY RunNames, FieldTypes DEF IInv, Run
    <3>4. /\ (runs[o].parent = None) <=> (q[1] \in Roots)
          /\ runs[o].parent # None =>
               /\ runs[o].parent = children[q[1]].parent
               /\ Exists(runs[o].parent) /\ runs[o].parent # s
               /\ runs[o].depth = runs[runs[o].parent].depth + 1
      BY <1>6, <3>2, <3>3 DEF IInv, Family, RunsHaveParents
    <3>5. runs[o].parent # None =>
               /\ runs'[runs[o].parent].status # "none"
               /\ runs'[runs[o].parent].depth = runs[runs[o].parent].depth
      BY <1>18, <3>3, <3>4 DEF Exists
    <3>6. QED
      BY <1>16, <3>2, <3>3, <3>4, <3>5 DEF Exists
  <2>2. QED
    BY <2>1 DEF RunsHaveParents
<1>21. RunsContinue'
  <2>1. ASSUME NEW q \in Runs, q[2] < MaxNumber, Exists(Successor(q))'
        PROVE  runs'[q].status = "continued_as_new"
    <3>1. Successor(q) \in Runs /\ q[2] \in 1..MaxNumber /\ Successor(q) = <<q[1], q[2] + 1>>
          /\ q = <<q[1], q[2]>>
      BY <2>1, FamilyFacts, RunNames DEF Successor
    <3>2. CASE Successor(q) = s
      <4>1. q = r
        BY <1>5, <3>1, <3>2
      <4>2. QED
        BY <1>14, <4>1
    <3>3. CASE Successor(q) # s
      <4>1. Exists(Successor(q)) /\ runs[q].status = "continued_as_new"
        BY <1>18, <2>1, <3>1, <3>3 DEF IInv, Family, RunsContinue
      <4>2. q # s
        BY <1>6, <4>1 DEF Exists
      <4>3. QED
        BY <1>18, <4>1, <4>2 DEF Terminal
    <3>4. QED
      BY <3>2, <3>3
  <2>2. QED
    BY <2>1 DEF RunsContinue, Successor
<1>22. RelationshipsHaveRuns'
  <2>1. ASSUME NEW d \in Instances
        PROVE  /\ children'[d].status = "none" => children'[d] = NoChild
               /\ children'[d].status # "none" =>
                    d \notin Roots /\ children'[d].current \in 1..MaxNumber /\ children'[d].parent \in Runs
    <3>1. CASE d = c /\ p # None
      <4>1. children'[d].status = "active" /\ children'[d].parent = p /\ p \in Runs /\ d \notin Roots
        BY <1>9, <1>10, <1>16, <3>1
      <4>2. children'[d].current = r[2] + 1 /\ r[2] + 1 \in 1..MaxNumber
        BY <1>5, <1>10, <1>16, <3>1, Limits
      <4>3. QED
        BY <4>1, <4>2
    <3>2. CASE ~(d = c /\ p # None)
      BY <1>16, <3>2 DEF IInv, Family, RelationshipsHaveRuns
    <3>3. QED
      BY <3>1, <3>2
  <2>2. QED
    BY <2>1 DEF RelationshipsHaveRuns
<1>23. RelationshipFollowsChild'
  <2>1. ASSUME NEW d \in Instances \ Roots
        PROVE  /\ (children'[d].status = "none") <=> (runs'[First(d)].status = "none")
               /\ \A n \in 1..MaxNumber :
                    /\ n < children'[d].current => runs'[<<d, n>>].status = "continued_as_new"
                    /\ n > children'[d].current => runs'[<<d, n>>].status = "none"
               /\ children'[d].status = "active" => IsOpen(Current(d))'
               /\ children'[d].status \in Outcomes => runs'[Current(d)'].status = children'[d].status
    <3>1. /\ (children[d].status = "none") <=> (runs[First(d)].status = "none")
          /\ \A n \in 1..MaxNumber :
               /\ n < children[d].current => runs[<<d, n>>].status = "continued_as_new"
               /\ n > children[d].current => runs[<<d, n>>].status = "none"
          /\ children[d].status = "active" => IsOpen(Current(d))
          /\ children[d].status \in Outcomes => runs[Current(d)].status = children[d].status
      BY DEF IInv, Family, RelationshipFollowsChild
    <3>2. First(d) \in Runs /\ First(d) # s /\ \A n \in 1..MaxNumber : <<d, n>> \in Runs
      BY <1>5, RunNames DEF First
    <3>3. (children'[d].status = "none") <=> (runs'[First(d)].status = "none")
      BY <1>16, <1>18, <3>1, <3>2 DEF Exists
    <3>4. CASE d = c
      <4>1. p # None
        BY <1>3, <1>4, <3>4 DEF IInv, Family, RunsHaveParents
      <4>2. children'[d].current = r[2] + 1 /\ children'[d].status = "active" /\ Current(d)' = s
        BY <1>5, <1>10, <1>16, <3>4, <4>1 DEF Current
      <4>3. ASSUME NEW n \in 1..MaxNumber
            PROVE  /\ n < children'[d].current => runs'[<<d, n>>].status = "continued_as_new"
                   /\ n > children'[d].current => runs'[<<d, n>>].status = "none"
        <5>1. CASE n = r[2]
          BY <1>5, <1>14, <3>4, <4>2, <5>1
        <5>2. CASE n < r[2]
          <6>1. <<d, n>> # s /\ <<d, n>> \in Runs /\ runs[<<d, n>>].status = "continued_as_new"
            BY <1>5, <1>9, <3>1, <3>2, <3>4, <4>1, <5>2
          <6>2. QED
            BY <1>5, <1>18, <4>2, <5>2, <6>1 DEF Terminal
        <5>3. CASE n = r[2] + 1
          BY <1>5, <4>2, <5>3
        <5>4. CASE n > r[2] + 1
          <6>1. <<d, n>> # s /\ <<d, n>> \in Runs /\ runs[<<d, n>>].status = "none"
            BY <1>5, <1>9, <3>1, <3>2, <3>4, <4>1, <5>4
          <6>2. QED
            BY <1>5, <1>18, <4>2, <5>4, <6>1 DEF Exists
        <5>5. QED
          BY <1>5, <5>1, <5>2, <5>3, <5>4
      <4>4. QED
        BY <1>14, <3>3, <4>2, <4>3 DEF IsOpen, Open, Outcomes
    <3>5. CASE d # c
      <4>1. Current(d)' = Current(d) /\ children'[d].status = children[d].status
            /\ children'[d].current = children[d].current
        BY <1>16, <3>5 DEF Current
      <4>2. \A n \in 1..MaxNumber : <<d, n>> # s /\ <<d, n>> # r
        BY <1>5, <3>5
      <4>3. children[d].status # "none" => Current(d) \in Runs /\ Current(d) # s /\ Current(d) # r
        BY <1>5, <3>5, FamilyFacts DEF Current
      <4>4. ASSUME NEW n \in 1..MaxNumber
            PROVE  /\ n < children'[d].current => runs'[<<d, n>>].status = "continued_as_new"
                   /\ n > children'[d].current => runs'[<<d, n>>].status = "none"
        BY <1>18, <3>1, <3>2, <4>1, <4>2 DEF Exists, Terminal
      <4>5. children'[d].status = "active" => IsOpen(Current(d))'
        BY <1>18, <3>1, <4>1, <4>3 DEF IsOpen
      <4>6. children'[d].status \in Outcomes => runs'[Current(d)'].status = children'[d].status
        BY <1>18, <3>1, <4>1, <4>3 DEF Outcomes, Terminal
      <4>7. QED
        BY <3>3, <4>4, <4>5, <4>6
    <3>6. QED
      BY <3>4, <3>5
  <2>2. QED
    BY <2>1 DEF RelationshipFollowsChild, Current, First
<1>24. CallsAreChildren'
  <2>1. ASSUME NEW q \in Runs, runs'[q].call \in Instances
        PROVE  children'[runs'[q].call].parent = q
    <3>1. q # r /\ q # s
      BY <1>14, <2>1, RunNames
    <3>2. runs[q].call = runs'[q].call /\ children[runs[q].call].parent = q
      BY <1>15, <2>1, <3>1 DEF IInv, Family, CallsAreChildren
    <3>3. QED
      BY <1>16, <2>1, <3>2
  <2>2. QED
    BY <2>1 DEF CallsAreChildren
<1>25. IInv'
  BY <1>1, <1>11, <1>17, <1>19, <1>20, <1>21, <1>22, <1>23, <1>24, AfterCommit DEF IInv, Family
<1>26. p # None => /\ children'[c] = Followed(children[c])
                   /\ \/ children'[c].continuations < MaxContinuationFollowDepth
                      \/ children[c].waitFailed \/ runs[p].call # c \/ runs'[p].status # "waiting"
  <2>1. ASSUME p # None
        PROVE  rows[p].call = runs[p].call
    <3>1. Exists(p)
      BY <1>3, <1>4, <2>1 DEF IInv, Family, RunsHaveParents
    <3>2. p # s
      BY <1>6, <3>1
    <3>3. QED
      BY <1>3, <1>4, <1>12, <2>1, <3>2
  <2>2. MaxContinuationFollowDepth \in Nat
    BY Limits
  <2>3. QED
    BY <1>10, <1>13, <1>16, <2>1, <2>2 DEF followed
<1>27. QED
  BY <1>1, <1>2, <1>3, <1>5, <1>6, <1>9, <1>14, <1>15, <1>16, <1>25, <1>26 DEF s

(***************************************************************************)
(* The other steps of workers.                                             *)
(***************************************************************************)

\* A step of one worker that writes unlocked rows or none.
LEMMA WorkerMoves ==
  ASSUME IInv, TypeOK', NEW L, Within(L, {}), NEW w \in Workers, UNCHANGED client,
         \A v \in Workers \ {w} : worker'[v] = worker[v] /\ WorkerLocks(v) \cap L = {},
         \A k \in Clients : client[k].locked \cap L = {},
         worker'[w].pc # "idle" =>
           /\ worker'[w].run \in Runs
           /\ runs'[worker'[w].run].status \in {"running"} \cup Terminal
           /\ \A v \in Workers \ {w} : worker[v].pc # "idle" => worker[v].run # worker'[w].run,
         worker'[w].pc = "locked" => ViewIsCurrent(w)',
         \A q \in WorkerLocks(w)' : q \in WorkerLocks(w) \/ Unlocked(q)
  PROVE  ClaimsAreFenced' /\ ViewsAreCurrent' /\ Exclusion' /\ Requests'
<1>1. ASSUME NEW v \in Workers \ {w}
      PROVE  /\ WorkerLocks(v)' = WorkerLocks(v)
             /\ worker[v].pc # "idle" =>
                  runs'[worker[v].run].status \in {"running"} \cup Terminal
             /\ worker[v].pc = "locked" =>
                  /\ runs'[Mine(v)].status = "running"
                  /\ runs'[Mine(v)].parent = runs[Mine(v)].parent
                  /\ runs'[Mine(v)].depth = runs[Mine(v)].depth
                  /\ runs'[Mine(v)].cancelSent = runs[Mine(v)].cancelSent
                  /\ runs'[Mine(v)].call = runs[Mine(v)].call
                  /\ AnswerTo(runs[Mine(v)].call)' = AnswerTo(runs[Mine(v)].call)
  <2>1. worker'[v] = worker[v] /\ WorkerLocks(v) \cap L = {} /\ v \in Workers
    OBVIOUS
  <2> DEFINE own == {}
  <2>2. Within(L, own) /\ (worker[v].pc # "idle" => worker[v].run \notin own)
    OBVIOUS
  <2> HIDE DEF own
  <2>3. QED
    BY <2>1, <2>2, OtherWorker
<1>2. ClaimsAreFenced'
  <2>1. ASSUME NEW v \in Workers, worker'[v].pc # "idle"
        PROVE  /\ worker'[v].run \in Runs
               /\ runs'[worker'[v].run].status \in {"running"} \cup Terminal
               /\ \A u \in Workers : worker'[u].pc # "idle" /\ worker'[u].run = worker'[v].run => u = v
    <3>1. CASE v = w
      BY <2>1, <3>1
    <3>2. CASE v # w
      BY <1>1, <2>1, <3>2 DEF IInv, ClaimsAreFenced
    <3>3. QED
      BY <3>1, <3>2
  <2>2. QED
    BY <2>1 DEF ClaimsAreFenced
<1>3. ViewsAreCurrent'
  <2>1. ASSUME NEW v \in Workers, worker'[v].pc = "locked"
        PROVE  ViewIsCurrent(v)'
    <3>1. CASE v = w
      BY <2>1, <3>1
    <3>2. CASE v # w
      <4>1. worker'[v] = worker[v] /\ worker[v].pc = "locked"
        BY <2>1, <3>2
      <4>2. Mine(v)' = Mine(v) /\ View(v)' = View(v)
        BY <4>1 DEF Mine, View
      <4>3. ViewIsCurrent(v)
        BY <4>1 DEF IInv, ViewsAreCurrent, ViewIsCurrent
      <4>4. QED
        BY <1>1, <3>2, <4>1, <4>2, <4>3 DEF ViewIsCurrent
    <3>3. QED
      BY <3>1, <3>2
  <2>2. QED
    BY <2>1 DEF ViewsAreCurrent, ViewIsCurrent
<1>4. Exclusion'
  <2>1. \A v \in Workers \ {w} : WorkerLocks(v)' = WorkerLocks(v)
    BY <1>1
  <2>2. \A v \in Workers \ {w} : WorkerLocks(v) \cap WorkerLocks(w)' = {}
    BY DEF IInv, Exclusion, Unlocked
  <2>3. \A k \in Clients : client'[k].locked \cap WorkerLocks(w)' = {}
    BY DEF IInv, Exclusion, Unlocked
  <2>4. QED
    BY <2>1, <2>2, <2>3 DEF IInv, Exclusion
<1>5. Requests'
  <2>1. \A k \in Clients : client'[k] = client[k] /\ client[k].locked \cap L = {}
    OBVIOUS
  <2> DEFINE own == {}
  <2>2. Within(L, own)
    OBVIOUS
  <2> HIDE DEF own
  <2>3. \A k \in Clients : RequestBegins(k)' /\ RequestDescends(k)' /\ RequestTakesLevels(k)'
    BY <2>1, <2>2, OtherRequest
  <2>4. QED
    BY <2>3 DEF Requests
<1>6. QED
  BY <1>2, <1>3, <1>4, <1>5

LEMMA NothingWritten ==
  ASSUME IInv, UNCHANGED <<runs, children>>
  PROVE  Within({}, {}) /\ Family'
<1>1. Within({}, {})
  BY DEF Within, Exists
<1>2. Family'
  BY DEF IInv, Family, RunsHaveParents, RunsContinue, RelationshipsHaveRuns,
         RelationshipFollowsChild, CallsAreChildren, Exists, IsOpen, Current, Successor, First
<1>3. QED
  BY <1>1, <1>2

\* A step of a worker that stays in its activation.
LEMMA ViewChanges ==
  ASSUME IInv, TypeOK', NEW w \in Workers, NEW view \in Run, worker[w].pc = "locked",
         worker' = [worker EXCEPT ![w].view = view],
         UNCHANGED <<runs, children, client, budget>>,
         view.status = View(w).status, view.parent = View(w).parent, view.depth = View(w).depth,
         view.cancelSent = View(w).cancelSent,
         \/ view.call = View(w).call
         \/ /\ view.call = None
            /\ runs[Mine(w)].call \in Instances => worker[w].answer # "none"
  PROVE  IInv'
<1>1. /\ worker'[w].pc = "locked" /\ worker'[w].run = worker[w].run
      /\ worker'[w].view = view /\ worker'[w].answer = worker[w].answer
      /\ \A v \in Workers \ {w} : worker'[v] = worker[v]
  BY DEF IInv, TypeOK, Worker
<1>2. /\ worker[w].run \in Runs /\ runs[worker[w].run].status = "running"
      /\ \A v \in Workers \ {w} : worker[v].pc # "idle" => worker[v].run # worker[w].run
  BY LockedRun DEF IInv, ClaimsAreFenced
<1>3. WorkerLocks(w)' = WorkerLocks(w)
  BY <1>1 DEF WorkerLocks
<1>4. ViewIsCurrent(w)'
  <2>1. Mine(w)' = Mine(w) /\ View(w)' = view /\ AnswerTo(runs[Mine(w)].call)' = AnswerTo(runs[Mine(w)].call)
    BY <1>1 DEF Mine, View, AnswerTo, Answer, WaitFailed
  <2>2. ViewIsCurrent(w)
    BY DEF IInv, ViewsAreCurrent, ViewIsCurrent
  <2>3. QED
    BY <1>1, <2>1, <2>2 DEF ViewIsCurrent
<1> DEFINE L == {}
<1>5. Within(L, {}) /\ Family'
  BY NothingWritten
<1>6. /\ \A v \in Workers \ {w} : worker'[v] = worker[v] /\ WorkerLocks(v) \cap L = {}
      /\ \A k \in Clients : client[k].locked \cap L = {}
  BY <1>1
<1> HIDE DEF L
<1>7. ClaimsAreFenced' /\ ViewsAreCurrent' /\ Exclusion' /\ Requests'
  BY <1>1, <1>2, <1>3, <1>4, <1>5, <1>6, WorkerMoves
<1>8. QED
  BY <1>5, <1>7 DEF IInv

LEMMA ViewSteps ==
  ASSUME IInv, NEW w \in Workers, HearChild(w) \/ ReceiveSignal(w) \/ RefuseChild(w)
  PROVE  IInv'
<1>1. /\ worker[w].pc = "locked" /\ TypeOK' /\ UNCHANGED <<runs, children, client, budget>>
      /\ View(w) \in Run
  BY WorkerSteps, FieldTypes DEF IInv, HearChild, ReceiveSignal, RefuseChild, Activating, Free
<1>2. View(w).call = runs[Mine(w)].call
        \/ (View(w).call = None /\ (runs[Mine(w)].call \in Instances => worker[w].answer # "none"))
  BY <1>1 DEF IInv, ViewsAreCurrent, ViewIsCurrent
<1>3. CASE HearChild(w)
  <2> DEFINE view == Returned(View(w))
  <2>1. worker' = [worker EXCEPT ![w].view = view]
    BY <1>3 DEF HearChild, View
  <2>2. /\ view \in Run /\ view.status = View(w).status /\ view.parent = View(w).parent
        /\ view.depth = View(w).depth /\ view.cancelSent = View(w).cancelSent /\ view.call = None
    BY <1>1, ReturnedType
  <2>3. worker[w].answer # "none"
    BY <1>3 DEF HearChild
  <2> HIDE DEF view
  <2>4. QED
    BY <1>1, <2>1, <2>2, <2>3, ViewChanges
<1>4. CASE ReceiveSignal(w)
  <2> DEFINE taken == WithoutSignal(View(w))
             view == Returned(taken)
  <2>1. worker' = [worker EXCEPT ![w].view = view]
    BY <1>4 DEF ReceiveSignal, View
  <2>2. View(w).inbox \in Seq(Items)
    BY <1>1 DEF Run
  <2>3. RemoveFirst(View(w).inbox, "signal") \in Seq(Items)
    BY <2>2, RemoveFirstType
  <2>4. /\ taken \in Run /\ taken.status = View(w).status /\ taken.parent = View(w).parent
        /\ taken.depth = View(w).depth /\ taken.cancelSent = View(w).cancelSent
    BY <1>1, <2>3 DEF Run, WithoutSignal
  <2> HIDE DEF taken
  <2>5. /\ view \in Run /\ view.status = View(w).status /\ view.parent = View(w).parent
        /\ view.depth = View(w).depth /\ view.cancelSent = View(w).cancelSent /\ view.call = None
    BY <2>4, ReturnedType
  <2>6. View(w).call = "signal" \/ View(w).call = None
    BY <1>4 DEF ReceiveSignal
  <2>7. \/ view.call = View(w).call
        \/ /\ view.call = None
           /\ runs[Mine(w)].call \in Instances => worker[w].answer # "none"
    BY <1>2, <2>5, <2>6, SignalIsNoInstance
  <2> HIDE DEF view
  <2>8. QED
    BY <1>1, <2>1, <2>5, <2>7, ViewChanges
<1>5. CASE RefuseChild(w)
  <2> DEFINE view == [View(w) EXCEPT !.unrecorded = TRUE]
  <2>1. worker' = [worker EXCEPT ![w].view = view]
    BY <1>5 DEF RefuseChild, View
  <2>2. /\ view \in Run /\ view.status = View(w).status /\ view.parent = View(w).parent
        /\ view.depth = View(w).depth /\ view.cancelSent = View(w).cancelSent
        /\ view.call = View(w).call
    BY <1>1 DEF Run
  <2> HIDE DEF view
  <2>3. QED
    BY <1>1, <2>1, <2>2, ViewChanges
<1>6. QED
  BY <1>3, <1>4, <1>5

LEMMA LockSteps ==
  ASSUME IInv, NEW w \in Workers, LockParent(w) \/ LockRun(w) \/ Crash(w)
  PROVE  IInv'
<1>1. TypeOK' /\ UNCHANGED <<runs, children, client>> /\ worker \in [Workers -> Worker]
  BY WorkerSteps, ZenonT(60) DEF IInv, TypeOK, LockParent, LockRun, Crash
<1> DEFINE L == {}
<1>2. Within(L, {}) /\ Family'
  BY <1>1, NothingWritten
<1>3. \A v \in Workers \ {w} : worker'[v] = worker[v] /\ WorkerLocks(v) \cap L = {}
  BY <1>1 DEF LockParent, LockRun, Crash
<1>4. \A k \in Clients : client[k].locked \cap L = {}
  OBVIOUS
<1>5. worker[w].pc # "idle" =>
        /\ worker[w].run \in Runs
        /\ runs[worker[w].run].status \in {"running"} \cup Terminal
        /\ \A v \in Workers \ {w} : worker[v].pc # "idle" => worker[v].run # worker[w].run
  BY DEF IInv, ClaimsAreFenced
<1> HIDE DEF L
<1>6. CASE worker'[w] = Idle
  <2>1. worker'[w].pc = "idle" /\ WorkerLocks(w)' = {}
    BY <1>6 DEF Idle, WorkerLocks
  <2>2. ClaimsAreFenced' /\ ViewsAreCurrent' /\ Exclusion' /\ Requests'
    BY <1>1, <1>2, <1>3, <1>4, <2>1, WorkerMoves
  <2>3. QED
    BY <1>1, <1>2, <2>2 DEF IInv
<1>7. CASE LockParent(w)
  <2>1. worker[w].pc = "claimed" /\ worker'[w].pc = "parentLocked" /\ worker'[w].run = worker[w].run
    BY <1>1, <1>7 DEF LockParent, Worker
  <2>2. \A q \in WorkerLocks(w)' : Unlocked(q)
    BY <1>1, <1>7, <2>1 DEF LockParent, WorkerLocks
  <2>3. ClaimsAreFenced' /\ ViewsAreCurrent' /\ Exclusion' /\ Requests'
    BY <1>1, <1>2, <1>3, <1>4, <1>5, <2>1, <2>2, WorkerMoves
  <2>4. QED
    BY <1>1, <1>2, <2>3 DEF IInv
<1>8. CASE LockRun(w) /\ worker'[w] # Idle
  <2> DEFINE r == worker[w].run
             view == Advanced(runs[r])
  <2>1. /\ worker[w].pc = "parentLocked" /\ Unlocked(r) /\ runs[r].status = "running"
        /\ worker'[w].pc = "locked" /\ worker'[w].run = r
        /\ worker'[w].view = view /\ worker'[w].answer = AnswerTo(runs[r].call)
    BY <1>1, <1>8 DEF LockRun, Worker
  <2>2. r \in Runs /\ runs[r] \in Run
    BY <1>5, <2>1, FieldTypes DEF IInv
  <2>3. /\ view.status = runs[r].status /\ view.call = runs[r].call /\ view.parent = runs[r].parent
        /\ view.depth = runs[r].depth /\ view.cancelSent = runs[r].cancelSent
    BY <2>2, AdvancedType
  <2>4. ViewIsCurrent(w)'
    <3>1. Mine(w)' = r /\ View(w)' = view /\ runs' = runs
      BY <1>1, <2>1 DEF Mine, View
    <3>2. AnswerTo(runs[Mine(w)].call)' = AnswerTo(runs[r].call)
      BY <1>1, <3>1 DEF AnswerTo, Answer, WaitFailed
    <3> HIDE DEF r, view
    <3>3. QED
      BY <2>1, <2>3, <3>1, <3>2 DEF ViewIsCurrent
  <2>5. \A q \in WorkerLocks(w)' : q \in WorkerLocks(w) \/ Unlocked(q)
    <3>1. WorkerLocks(w) = {runs[r].parent} \ {None}
      BY <2>1 DEF WorkerLocks
    <3>2. WorkerLocks(w)' = {r, runs[r].parent} \ {None}
      BY <1>1, <2>1 DEF WorkerLocks
    <3>3. QED
      BY <2>1, <3>1, <3>2
  <2>6. ClaimsAreFenced' /\ ViewsAreCurrent' /\ Exclusion' /\ Requests'
    BY <1>1, <1>2, <1>3, <1>4, <1>5, <2>1, <2>4, <2>5, WorkerMoves
  <2>7. QED
    BY <1>1, <1>2, <2>6 DEF IInv
<1>9. CASE Crash(w)
  BY <1>1, <1>6, <1>9 DEF Crash
<1>10. QED
  BY <1>6, <1>7, <1>8, <1>9

\* A step that leaves every relationship, parent, depth and call as it is, and every
\* run that is open open.
LEMMA OpenStaysOpen ==
  ASSUME IInv, TypeOK', NEW r \in Runs, IsOpen(r), IsOpen(r)', UNCHANGED children,
         runs'[r].parent = runs[r].parent, runs'[r].depth = runs[r].depth,
         runs'[r].call = runs[r].call, \A q \in Runs \ {r} : runs'[q] = runs[q],
         runs[r].status = "running" => runs'[r].status = "running"
  PROVE  Within({r}, {}) /\ Family'
<1>1. Exists(r) /\ Exists(r)' /\ runs[r].status \notin Terminal
  BY DEF Exists, IsOpen, Open, Terminal
<1> DEFINE L == {r}
           E == {}
<1>2. ASSUME NEW q \in Runs
      PROVE  /\ Exists(q)' <=> Exists(q)
             /\ runs'[q].parent = runs[q].parent /\ runs'[q].depth = runs[q].depth
             /\ runs'[q].call = runs[q].call
             /\ runs'[q].status = runs[q].status \/ (IsOpen(q) /\ IsOpen(q)')
             /\ q \notin L => runs'[q] = runs[q]
             /\ runs[q].status \in {"running"} \cup Terminal =>
                  runs'[q].status \in {"running"} \cup Terminal
  BY <1>1 DEF Exists
<1>3. Within(L, E)
  BY <1>2 DEF Within
<1>4. "failed" \in Outcomes /\ E \in SUBSET Runs
      /\ \A q \in E : IsOpen(q) /\ runs'[q].status = "failed"
  BY DEF Outcomes
<1>5. \A q \in Runs :
           /\ Exists(q)' <=> Exists(q)
           /\ runs'[q].parent = runs[q].parent /\ runs'[q].depth = runs[q].depth
           /\ q \notin E => runs'[q].status = runs[q].status \/ (IsOpen(q) /\ IsOpen(q)')
           /\ runs'[q].call \in Instances => children[runs'[q].call].parent = q
  BY <1>2 DEF IInv, Family, CallsAreChildren
<1>6. \A c \in Instances :
           /\ children'[c].parent = children[c].parent
           /\ children'[c].current = children[c].current
           /\ children[c].status = "none" => children'[c] = children[c]
           /\ children'[c].status = IF children[c].status = "active" /\ Current(c) \in E
                                    THEN "failed" ELSE children[c].status
  OBVIOUS
<1>7. Family'
  <2> HIDE DEF E
  <2>1. QED
    BY <1>4, <1>5, <1>6, FamilyStep, SMTT(30)
<1>8. QED
  BY <1>3, <1>7

LEMMA ClaimSteps ==
  ASSUME IInv, NEW w \in Workers, NEW r \in Runs, Claim(w, r)
  PROVE  /\ IInv' /\ UNCHANGED children
         /\ runs'[r].status = "running" /\ runs'[r].cancelSent = runs[r].cancelSent
         /\ \A q \in Runs \ {r} : runs'[q] = runs[q]
<1>1. /\ TypeOK' /\ runs[r] \in Run /\ runs \in [Runs -> Run] /\ worker \in [Workers -> Worker]
      /\ UNCHANGED <<children, client, budget>> /\ Unlocked(r) /\ worker[w].pc = "idle"
  BY WorkerSteps, FieldTypes DEF IInv, TypeOK, Claim
<1>2. /\ runs[r].status \in {"queued", "running"}
      /\ runs'[r].status = "running" /\ runs'[r].parent = runs[r].parent
      /\ runs'[r].depth = runs[r].depth /\ runs'[r].call = runs[r].call
      /\ runs'[r].cancelSent = runs[r].cancelSent
      /\ \A q \in Runs \ {r} : runs'[q] = runs[q]
  BY <1>1 DEF Claim, Run
<1>3. IsOpen(r) /\ IsOpen(r)'
  BY <1>2 DEF IsOpen, Open
<1>4. Within({r}, {}) /\ Family'
  BY <1>1, <1>2, <1>3, OpenStaysOpen
<1>5. worker'[w].pc = "claimed" /\ worker'[w].run = r /\ WorkerLocks(w)' = {}
  BY <1>1 DEF Claim, Idle, WorkerLocks
<1>6. \A v \in Workers \ {w} : worker[v].pc # "idle" => worker[v].run # r
  BY <1>2 DEF Claim, IInv, ClaimsAreFenced, Terminal
<1>7. \A v \in Workers \ {w} : worker'[v] = worker[v] /\ WorkerLocks(v) \cap {r} = {}
  BY <1>1 DEF Claim, Unlocked
<1>8. \A k \in Clients : client[k].locked \cap {r} = {}
  BY <1>1 DEF Unlocked
<1>9. ClaimsAreFenced' /\ ViewsAreCurrent' /\ Exclusion' /\ Requests'
  BY <1>1, <1>2, <1>4, <1>5, <1>6, <1>7, <1>8, WorkerMoves
<1>10. QED
  BY <1>1, <1>2, <1>4, <1>9 DEF IInv

(***************************************************************************)
(* The steps of clients.                                                   *)
(***************************************************************************)

LEMMA InboxRequests ==
  ASSUME IInv, NEW r \in Runs, SignalRun(r) \/ CancelRun(r)
  PROVE  /\ IInv' /\ UNCHANGED children
         /\ runs'[r].status \in Open \ {"waiting"}
         /\ runs'[r].cancelSent = TRUE \/ runs'[r].cancelSent = runs[r].cancelSent
         /\ \A q \in Runs \ {r} : runs'[q] = runs[q]
<1>1. /\ runs[r] \in Run /\ runs \in [Runs -> Run] /\ Unlocked(r) /\ IsOpen(r)
      /\ UNCHANGED <<children, worker, client>> /\ TypeOK
  BY FieldTypes DEF IInv, TypeOK, SignalRun, CancelRun
<1>2. SignalSent(runs[r]) \in Run /\ SignalSent(runs[r]).status = runs[r].status
      /\ SignalSent(runs[r]).parent = runs[r].parent /\ SignalSent(runs[r]).depth = runs[r].depth
      /\ SignalSent(runs[r]).call = runs[r].call /\ SignalSent(runs[r]).cancelSent = runs[r].cancelSent
  <2>1. runs[r].inbox \in Seq(Items) /\ "signal" \in Items
    BY <1>1 DEF Run, Items
  <2>2. Append(runs[r].inbox, "signal") \in Seq(Items)
    BY <2>1, AppendProperties
  <2>3. QED
    BY <1>1, <2>2 DEF SignalSent, Run
<1>3. PICK sent \in Run :
        /\ sent.status = runs[r].status /\ sent.parent = runs[r].parent
        /\ sent.depth = runs[r].depth /\ sent.call = runs[r].call
        /\ sent.cancelSent = TRUE \/ sent.cancelSent = runs[r].cancelSent
        /\ runs' = [runs EXCEPT ![r] = WokenByClient(sent)]
  BY <1>1, <1>2, CancelSentType DEF SignalRun, CancelRun
<1> DEFINE row == WokenByClient(sent)
<1>4. /\ row \in Run /\ row.parent = runs[r].parent /\ row.depth = runs[r].depth
      /\ row.call = runs[r].call /\ row.status \in Open \ {"waiting"}
      /\ row.cancelSent = TRUE \/ row.cancelSent = runs[r].cancelSent
      /\ runs[r].status = "running" => row.status = "running"
  BY <1>1, <1>3 DEF WokenByClient, Run, IsOpen, Open
<1> HIDE DEF row
<1>5. runs' \in [Runs -> Run] /\ runs'[r] = row /\ \A q \in Runs \ {r} : runs'[q] = runs[q]
  BY <1>1, <1>3, <1>4 DEF row
<1>6. budget' \in [BudgetKinds -> Nat]
  BY <1>1, SpentType DEF SignalRun, CancelRun, Spend, BudgetKinds
<1>7. TypeOK'
  BY <1>1, <1>5, <1>6 DEF TypeOK
<1>8. IsOpen(r)'
  BY <1>4, <1>5 DEF IsOpen
<1>9. Within({r}, {}) /\ Family'
  BY <1>1, <1>4, <1>5, <1>7, <1>8, OpenStaysOpen
<1>10. QED
  BY <1>1, <1>4, <1>5, <1>7, <1>9, AfterRequest DEF IInv

\* The rows that a terminate ends.
LEMMA TerminateEffect ==
  ASSUME IInv, NEW k \in Clients, CommitTerminate(k)
  PROVE  /\ runs' \in [Runs -> Run] /\ children' \in [Instances -> Child]
         /\ client[k].subtree \subseteq Runs
         /\ \A q \in Runs :
              /\ runs'[q].parent = runs[q].parent /\ runs'[q].depth = runs[q].depth
              /\ runs'[q].call = runs[q].call /\ runs'[q].cancelSent = runs[q].cancelSent
              /\ q \in client[k].subtree => runs'[q].status = "terminated"
              /\ q \notin client[k].subtree =>
                   \/ runs'[q].status = runs[q].status
                   \/ /\ q \in client[k].locked
                      /\ runs[q].status = "waiting" /\ runs'[q].status = "queued"
         /\ \A c \in Instances :
              /\ children'[c].parent = children[c].parent
              /\ children'[c].current = children[c].current
              /\ children'[c].status = IF children[c].status = "active" /\ Current(c) \in client[k].subtree
                                       THEN "terminated" ELSE children[c].status
              /\ children'[c].heard = children[c].heard /\ children'[c].waitFailed = children[c].waitFailed
              /\ children'[c].continuations = children[c].continuations
              /\ children[c].status # "active" \/ Current(c) \notin client[k].subtree
                   => children'[c] = children[c]
         /\ LET t == client[k].target
            IN runs[t].parent # None =>
                 /\ t = Current(t[1]) /\ t[1] \in Instances
                 /\ \/ children[t[1]].waitFailed
                    \/ runs[runs[t].parent].call # t[1]
                    \/ runs'[runs[t].parent].status # "waiting"
<1>1. /\ client[k] \in Client /\ runs \in [Runs -> Run] /\ children \in [Instances -> Child]
      /\ RequestDescends(k) /\ client[k].pc = "descending" /\ "terminated" \in Outcomes
      /\ "terminated" \in Terminal
  BY FieldTypes DEF IInv, TypeOK, Requests, CommitTerminate, Outcomes, Terminal
<1> DEFINE target == client[k].target
           ended == client[k].subtree
           rows == [r \in Runs |-> IF r \in ended THEN Closed(runs[r], "terminated") ELSE runs[r]]
           p == runs[target].parent
<1>2. /\ target \in ended /\ ended \subseteq Runs /\ target \in Runs /\ IsOpen(target)
      /\ p = None \/ p \in client[k].locked
  BY <1>1 DEF RequestDescends, Client
<1>3. /\ rows \in [Runs -> Run]
      /\ \A q \in Runs :
           /\ rows[q].parent = runs[q].parent /\ rows[q].depth = runs[q].depth
           /\ rows[q].call = runs[q].call /\ rows[q].cancelSent = runs[q].cancelSent
           /\ rows[q].status = IF q \in ended THEN "terminated" ELSE runs[q].status
  <2>1. \A q \in Runs : /\ runs[q] \in Run
                        /\ Closed(runs[q], "terminated") \in Run
                        /\ Closed(runs[q], "terminated").status = "terminated"
                        /\ Closed(runs[q], "terminated").parent = runs[q].parent
                        /\ Closed(runs[q], "terminated").depth = runs[q].depth
                        /\ Closed(runs[q], "terminated").call = runs[q].call
                        /\ Closed(runs[q], "terminated").cancelSent = runs[q].cancelSent
    BY <1>1, ClosedType
  <2>2. QED
    BY <2>1
<1>4. /\ runs' = IF p = None THEN rows ELSE Woken(rows, children[target[1]], target[1])
      /\ children' = EndedChildren(children, ended, "terminated")
  BY DEF CommitTerminate, RelationsTerminated
<1> HIDE DEF rows
<1>5. /\ runs' \in [Runs -> Run]
      /\ \A q \in Runs :
           /\ runs'[q].parent = rows[q].parent /\ runs'[q].depth = rows[q].depth
           /\ runs'[q].call = rows[q].call /\ runs'[q].cancelSent = rows[q].cancelSent
           /\ \/ runs'[q].status = rows[q].status
              \/ q = p /\ rows[q].status = "waiting" /\ runs'[q].status = "queued"
  <2>1. CASE p = None
    BY <1>3, <1>4, <2>1
  <2>2. CASE p # None
    <3>1. target[1] \in Instances /\ target[1] \notin Roots
      BY <1>2, <2>2, RunNames DEF IInv, Family, RunsHaveParents, IsOpen, Open, Exists
    <3>2. children[target[1]] \in Child /\ children[target[1]].parent = p /\ p \in Runs
      BY <1>1, <1>2, <3>1, OpenIsCurrent
    <3>3. runs' = Woken(rows, children[target[1]], target[1])
      BY <1>4, <2>2
    <3>4. QED
      <4>1. rows \in [Runs -> Run] /\ children[target[1]] \in Child /\ children[target[1]].parent = p /\ p \in Runs
        BY <1>3, <3>2
      <4> DEFINE relation == children[target[1]]
                 woken == Woken(rows, relation, target[1])
      <4>2. relation \in Child /\ relation.parent = p /\ runs' = woken
        BY <3>3, <4>1
      <4> HIDE DEF relation, target, p, ended
      <4>3. /\ woken \in [Runs -> Run]
            /\ \A q \in Runs :
                 /\ woken[q].parent = rows[q].parent /\ woken[q].depth = rows[q].depth
                 /\ woken[q].call = rows[q].call /\ woken[q].cancelSent = rows[q].cancelSent
                 /\ \/ woken[q].status = rows[q].status
                    \/ q = relation.parent /\ rows[q].status = "waiting" /\ woken[q].status = "queued"
        BY <4>1, <4>2, WokenEffect
      <4> HIDE DEF woken
      <4>4. QED
        BY <4>2, <4>3
  <2>3. QED
    BY <2>1, <2>2
<1>9. p # None => /\ target = Current(target[1]) /\ target[1] \in Instances
                  /\ \/ children[target[1]].waitFailed
                     \/ runs[p].call # target[1]
                     \/ runs'[p].status # "waiting"
  <2>1. SUFFICES ASSUME p # None
                 PROVE  /\ target = Current(target[1]) /\ target[1] \in Instances
                        /\ \/ children[target[1]].waitFailed
                           \/ runs[p].call # target[1]
                           \/ runs'[p].status # "waiting"
    OBVIOUS
  <2>2. target[1] \in Instances /\ target[1] \notin Roots
    BY <1>2, <2>1, RunNames DEF IInv, Family, RunsHaveParents, IsOpen, Open, Exists
  <2>3. /\ children[target[1]] \in Child /\ children[target[1]].parent = p /\ p \in Runs
        /\ target = Current(target[1])
    BY <1>1, <1>2, <2>2, OpenIsCurrent
  <2>4. runs' = Woken(rows, children[target[1]], target[1])
    BY <1>4, <2>1
  <2>5. \/ children[target[1]].waitFailed \/ rows[p].call # target[1] \/ runs'[p].status # "waiting"
    <3> DEFINE relation == children[target[1]]
               woken == Woken(rows, relation, target[1])
    <3>1. rows \in [Runs -> Run] /\ relation \in Child /\ relation.parent = p /\ p \in Runs
      BY <1>3, <2>3
    <3>2. runs' = woken
      BY <2>4
    <3> HIDE DEF relation, target, p, ended
    <3>3. \/ relation.waitFailed \/ rows[relation.parent].call # target[1]
          \/ woken[relation.parent].status # "waiting"
      BY <3>1, WokenEffect
    <3> HIDE DEF woken
    <3>4. \/ relation.waitFailed \/ rows[p].call # target[1] \/ runs'[p].status # "waiting"
      BY <3>1, <3>2, <3>3
    <3>5. QED
      BY <3>4 DEF relation
  <2>6. QED
    BY <1>3, <2>2, <2>3, <2>5
<1>6. /\ children' \in [Instances -> Child]
      /\ \A c \in Instances :
              /\ children'[c].parent = children[c].parent
              /\ children'[c].current = children[c].current
              /\ children'[c].status = IF children[c].status = "active" /\ Current(c) \in ended
                                       THEN "terminated" ELSE children[c].status
              /\ children'[c].heard = children[c].heard /\ children'[c].waitFailed = children[c].waitFailed
              /\ children'[c].continuations = children[c].continuations
              /\ children[c].status # "active" \/ Current(c) \notin ended => children'[c] = children[c]
  <2> HIDE DEF ended
  <2>1. QED
    BY <1>1, <1>4, EndedChildrenEffect DEF Current
<1>7. ASSUME NEW q \in Runs
      PROVE  /\ runs'[q].parent = runs[q].parent /\ runs'[q].depth = runs[q].depth
             /\ runs'[q].call = runs[q].call /\ runs'[q].cancelSent = runs[q].cancelSent
             /\ q \in ended => runs'[q].status = "terminated"
             /\ q \notin ended =>
                  \/ runs'[q].status = runs[q].status
                  \/ /\ q \in client[k].locked
                     /\ runs[q].status = "waiting" /\ runs'[q].status = "queued"
  BY <1>2, <1>3, <1>5, RunNames
<1>8. QED
  BY <1>2, <1>5, <1>6, <1>7, <1>9

LEMMA TerminateCommits ==
  ASSUME IInv, NEW k \in Clients, CommitTerminate(k)
  PROVE  IInv'
<1> DEFINE L == client[k].locked
           E == client[k].subtree
<1>1. /\ client[k] \in Client /\ RequestDescends(k) /\ client[k].pc = "descending"
      /\ client' = [client EXCEPT ![k] = NoRequest] /\ UNCHANGED <<worker, budget>>
  BY FieldTypes DEF IInv, Requests, CommitTerminate
<1>2. /\ E \subseteq L /\ L \subseteq Runs /\ E \in SUBSET Runs
      /\ \A q \in E : IsOpen(q) /\ (runs[q].parent = None \/ runs[q].parent \in L)
  BY <1>1 DEF RequestDescends, Client
<1>3. TypeOK'
  BY <1>1, RowTypes, TerminateEffect DEF IInv, TypeOK
<1>4. \A q \in Runs :
        /\ Exists(q)' <=> Exists(q)
        /\ q \in E => IsOpen(q) /\ runs'[q].status = "terminated"
        /\ q \notin E => runs'[q].status = runs[q].status \/ (IsOpen(q) /\ IsOpen(q)')
        /\ runs[q].status \in {"running"} \cup Terminal => runs'[q].status \in {"running"} \cup Terminal
        /\ q \notin L => runs'[q].status = runs[q].status
  BY <1>2, TerminateEffect DEF Exists, IsOpen, Open, Terminal
<1>5. ASSUME NEW c \in Instances
      PROVE  \/ children'[c] = children[c]
             \/ children'[c].parent \in L /\ children[c].parent \in L \cup {None}
  <2>1. CASE children[c].status = "active" /\ Current(c) \in E
    <3>1. /\ c \notin Roots /\ Current(c) \in Runs /\ IsOpen(Current(c)) /\ Current(c)[1] = c
          /\ children[c].parent # None
      BY <2>1, FamilyFacts DEF Current
    <3>2. runs[Current(c)].parent = children[c].parent
      BY <3>1, OpenIsCurrent
    <3>3. children[c].parent \in L
      BY <1>2, <2>1, <3>1, <3>2
    <3>4. QED
      BY <3>3, TerminateEffect
  <2>2. CASE ~(children[c].status = "active" /\ Current(c) \in E)
    BY <2>2, TerminateEffect
  <2>3. QED
    BY <2>1, <2>2
<1> DEFINE own == {}
<1>6. Within(L, own)
  <2>1. ASSUME NEW q \in Runs, Exists(q)
        PROVE  /\ Exists(q)'
               /\ runs'[q].parent = runs[q].parent
               /\ runs'[q].depth = runs[q].depth
               /\ q \notin L => runs'[q].status = runs[q].status /\ runs'[q].call = runs[q].call
               /\ q \in L \/ runs'[q].cancelSent = runs[q].cancelSent \/ runs[q].parent \in L
               /\ runs[q].status \in {"running"} \cup Terminal /\ q \notin own =>
                    runs'[q].status \in {"running"} \cup Terminal
    BY <1>4, <2>1, TerminateEffect
  <2>2. QED
    BY <1>2, <1>5, <2>1 DEF Within
<1>7. Family'
  <2>1. \A q \in Runs :
           /\ Exists(q)' <=> Exists(q)
           /\ runs'[q].parent = runs[q].parent /\ runs'[q].depth = runs[q].depth
           /\ q \notin E => runs'[q].status = runs[q].status \/ (IsOpen(q) /\ IsOpen(q)')
           /\ runs'[q].call \in Instances => children[runs'[q].call].parent = q
    BY <1>4, TerminateEffect DEF IInv, Family, CallsAreChildren
  <2>2. \A c \in Instances :
           /\ children'[c].parent = children[c].parent
           /\ children'[c].current = children[c].current
           /\ children[c].status = "none" => children'[c] = children[c]
           /\ children'[c].status = IF children[c].status = "active" /\ Current(c) \in E
                                    THEN "terminated" ELSE children[c].status
    BY TerminateEffect
  <2>3. \A q \in E : IsOpen(q) /\ runs'[q].status = "terminated"
    BY <1>2, <1>4
  <2>4. "terminated" \in Outcomes
    BY DEF Outcomes
  <2> HIDE DEF E
  <2>5. QED
    BY <1>2, <1>3, <2>1, <2>2, <2>3, <2>4, FamilyStep, ZenonT(60)
<1>8. QED
  BY <1>1, <1>3, <1>6, <1>7, AfterTerminate DEF IInv

\* A step of one request that writes no rows.
LEMMA RequestMoves ==
  ASSUME IInv, TypeOK', NEW k \in Clients, UNCHANGED <<runs, children, worker>>,
         \A j \in Clients \ {k} : client'[j] = client[j],
         \A q \in client'[k].locked : q \in client[k].locked \/ Unlocked(q),
         RequestBegins(k)', RequestDescends(k)', RequestTakesLevels(k)'
  PROVE  IInv'
<1>1. Within({}, {}) /\ Family'
  BY NothingWritten
<1>2. ClaimsAreFenced' /\ ViewsAreCurrent'
  BY DEF IInv, ClaimsAreFenced, ViewsAreCurrent, ViewIsCurrent, Mine, View, AnswerTo, Answer, WaitFailed
<1>3. \A v \in Workers : WorkerLocks(v)' = WorkerLocks(v)
  BY DEF WorkerLocks
<1>4. Exclusion'
  <2>1. \A v \in Workers : WorkerLocks(v) \cap client'[k].locked = {}
    BY DEF IInv, Exclusion, Unlocked
  <2>2. \A j \in Clients \ {k} : client[j].locked \cap client'[k].locked = {}
    BY DEF IInv, Exclusion, Unlocked
  <2>3. QED
    BY <1>3, <2>1, <2>2 DEF IInv, Exclusion
<1>5. Requests'
  <2> DEFINE L == {}
             own == {}
  <2>1. Within(L, own)
    BY <1>1
  <2>2. \A j \in Clients \ {k} : client'[j] = client[j] /\ client[j].locked \cap L = {} /\ j \in Clients
    OBVIOUS
  <2> HIDE DEF L, own
  <2>3. \A j \in Clients \ {k} : RequestBegins(j)' /\ RequestDescends(j)' /\ RequestTakesLevels(j)'
    BY <2>1, <2>2, OtherRequest
  <2>4. QED
    BY <2>3 DEF Requests
<1>6. QED
  BY <1>1, <1>2, <1>4, <1>5 DEF IInv

LEMMA RequestStarts ==
  ASSUME IInv, NEW k \in Clients,
         (\E r \in Runs : BeginTerminate(k, r)) \/ TerminateLocksParent(k) \/ TerminateLocksTarget(k)
  PROVE  IInv'
<1>1. /\ client[k] \in Client /\ client \in [Clients -> Client] /\ TypeOK
      /\ RequestBegins(k) /\ UNCHANGED <<runs, children, worker>>
  BY FieldTypes DEF IInv, TypeOK, Requests, BeginTerminate, TerminateLocksParent, TerminateLocksTarget
<1>2. TypeOK'
  BY <1>1, RequestSteps, ZenonT(60)
     DEF Request, CommitTerminate, TerminateLocksParent, TerminateLocksTarget, BeginTerminate
<1>3. ASSUME client'[k] = NoRequest
      PROVE  RequestBegins(k)' /\ RequestDescends(k)' /\ RequestTakesLevels(k)' /\ client'[k].locked = {}
  BY <1>3 DEF NoRequest, RequestBegins, RequestDescends, RequestTakesLevels
<1>4. \A j \in Clients \ {k} : client'[j] = client[j]
  BY <1>1 DEF BeginTerminate, TerminateLocksParent, TerminateLocksTarget
<1>5. ASSUME NEW r \in Runs, BeginTerminate(k, r)
      PROVE  IInv'
  <2>1. client'[k] = [NoRequest EXCEPT !.pc = "begun", !.target = r]
    BY <1>1, <1>5 DEF BeginTerminate
  <2>2. /\ client'[k].pc = "begun" /\ client'[k].target = r /\ client'[k].locked = {}
        /\ client'[k].listed = {} /\ client'[k].unlisted = {} /\ client'[k].subtree = {}
    BY <2>1 DEF NoRequest
  <2>3. Exists(r)'
    BY <1>1, <1>5 DEF BeginTerminate, Exists
  <2>4. RequestBegins(k)' /\ RequestDescends(k)' /\ RequestTakesLevels(k)'
    BY <2>2, <2>3 DEF RequestBegins, RequestDescends, RequestTakesLevels
  <2>5. QED
    BY <1>1, <1>2, <1>4, <2>2, <2>4, RequestMoves
<1>6. CASE TerminateLocksParent(k)
  <2> DEFINE t == client[k].target
             held == {runs[t].parent} \ {None}
  <2>1. client[k].pc = "begun" /\ t \in Runs /\ Exists(t)
    BY <1>1, <1>6 DEF TerminateLocksParent, RequestBegins
  <2>2. /\ client'[k].pc = "parentLocked" /\ client'[k].target = t /\ client'[k].locked = held
        /\ client'[k].listed = {} /\ client'[k].unlisted = {} /\ client'[k].subtree = {}
    BY <1>1, <1>6, <2>1 DEF TerminateLocksParent, Client, RequestBegins
  <2>3. Exists(t)' /\ runs' = runs
    BY <1>1, <2>1, <2>2 DEF Exists
  <2>4. \A q \in client'[k].locked : Unlocked(q)
    BY <1>6, <2>2 DEF TerminateLocksParent
  <2>5. RequestBegins(k)' /\ RequestDescends(k)' /\ RequestTakesLevels(k)'
    BY <2>1, <2>2, <2>3 DEF RequestBegins, RequestDescends, RequestTakesLevels, Exists
  <2>6. QED
    BY <1>1, <1>2, <1>4, <2>4, <2>5, RequestMoves
<1>7. CASE TerminateLocksTarget(k)
  <2> DEFINE t == client[k].target
             p == runs[t].parent
  <2>1. client[k].pc = "parentLocked" /\ t \in Runs /\ Exists(t) /\ client[k].locked = {p} \ {None}
    BY <1>1, <1>7 DEF TerminateLocksTarget, RequestBegins
  <2>2. CASE IsOpen(t)
    <3>1. /\ client'[k].pc = "descending" /\ client'[k].target = t
          /\ client'[k].locked = ({p} \ {None}) \cup {t}
          /\ client'[k].listed = {} /\ client'[k].unlisted = {t} /\ client'[k].subtree = {t}
      BY <1>1, <1>7, <2>1, <2>2 DEF TerminateLocksTarget, Client, RequestBegins
    <3>2. p # None => p \in Runs /\ Exists(p) /\ runs[t].depth = runs[p].depth + 1
      BY <1>1, <2>1, FieldTypes DEF IInv, Family, RunsHaveParents, Run
    <3>3. \A q \in client'[k].locked : q \in client[k].locked \/ Unlocked(q)
      BY <1>7, <2>1, <3>1, ZenonT(60) DEF TerminateLocksTarget
    <3>4. RequestBegins(k)'
      BY <1>1, <2>1, <3>1 DEF RequestBegins, Exists
    <3>5. RequestDescends(k)'
      BY <1>1, <2>1, <2>2, <3>1, <3>2 DEF RequestDescends, Exists, IsOpen
    <3>6. runs[t].depth \in Nat /\ (p # None => runs[p].depth \in Nat)
      BY <1>1, <2>1, <3>2, FieldTypes DEF Run
    <3>7. RequestTakesLevels(k)'
      BY <1>1, <3>1, <3>2, <3>6 DEF RequestTakesLevels
    <3>8. QED
      BY <1>1, <1>2, <1>4, <3>3, <3>4, <3>5, <3>7, RequestMoves
  <2>3. CASE ~IsOpen(t)
    <3>1. client'[k] = NoRequest
      BY <1>1, <1>7, <2>3 DEF TerminateLocksTarget
    <3>2. RequestBegins(k)' /\ RequestDescends(k)' /\ RequestTakesLevels(k)' /\ client'[k].locked = {}
      BY <1>3, <3>1
    <3>3. QED
      BY <1>1, <1>2, <1>4, <3>2, RequestMoves
  <2>4. QED
    BY <2>2, <2>3
<1>8. QED
  BY <1>5, <1>6, <1>7

\* The next level is one below the rows whose children are listed.
LEMMA LevelListed ==
  ASSUME IInv, NEW k \in Clients, ListChildren(k)
  PROVE  IInv'
<1>1. /\ client[k] \in Client /\ client \in [Clients -> Client] /\ TypeOK
      /\ RequestBegins(k) /\ RequestDescends(k) /\ RequestTakesLevels(k)
      /\ UNCHANGED <<runs, children, worker>> /\ client[k].pc = "descending"
      /\ client[k].listed = {}
  BY FieldTypes DEF IInv, TypeOK, Requests, ListChildren
<1>2. TypeOK'
  BY <1>1, RequestSteps, ZenonT(60) DEF Request, CommitTerminate, ListChildren
<1> DEFINE level == {Current(c) : c \in UNION {ActiveChildren(r) : r \in client[k].unlisted}}
<1>3. /\ client'[k].pc = "descending" /\ client'[k].target = client[k].target
      /\ client'[k].locked = client[k].locked /\ client'[k].subtree = client[k].subtree
      /\ client'[k].listed = level /\ client'[k].unlisted = {}
      /\ \A j \in Clients \ {k} : client'[j] = client[j]
  BY <1>1 DEF ListChildren, Client
<1>4. /\ client[k].target \in client[k].subtree
      /\ client[k].unlisted \subseteq client[k].subtree
      /\ client[k].subtree \subseteq client[k].locked
      /\ client[k].locked \subseteq Runs
      /\ \A q \in client[k].locked : Exists(q)
      /\ \A q \in client[k].subtree \ {client[k].target} : runs[q].parent \in client[k].subtree
      /\ \A q \in client[k].subtree :
           IsOpen(q) /\ (runs[q].parent = None \/ runs[q].parent \in client[k].locked)
  BY <1>1 DEF RequestDescends, Client
<1>5. ASSUME NEW q \in level
      PROVE  /\ q \in Runs /\ Exists(q) /\ runs[q].parent \in client[k].unlisted
             /\ runs[q].depth = runs[runs[q].parent].depth + 1
  <2>1. PICK r \in client[k].unlisted : \E c \in ActiveChildren(r) : q = Current(c)
    BY <1>5
  <2>2. PICK c \in ActiveChildren(r) : q = Current(c)
    BY <2>1
  <2>3. c \in Instances /\ children[c].parent = r /\ children[c].status = "active"
    BY <2>2 DEF ActiveChildren
  <2>4. q \in Runs /\ q[1] = c /\ c \notin Roots /\ IsOpen(q) /\ Exists(q)
    BY <2>2, <2>3, FamilyFacts DEF Current
  <2>5. runs[q].parent = r /\ runs[q].parent # None
    BY <2>3, <2>4, OpenIsCurrent, RunNames
  <2>6. runs[q].depth = runs[r].depth + 1
    BY <2>4, <2>5 DEF IInv, Family, RunsHaveParents
  <2>7. QED
    BY <2>4, <2>5, <2>6
<1>6. ASSUME NEW r \in client[k].subtree, NEW c \in Instances,
             children[c].parent = r, children[c].status = "active"
      PROVE  Current(c) \in level \cup client[k].subtree
  <2>1. CASE r \in client[k].unlisted
    BY <1>6, <2>1 DEF ActiveChildren
  <2>2. CASE r \notin client[k].unlisted
    <3>1. Current(c) \in client[k].listed \cup client[k].subtree
      BY <1>1, <1>6, <2>2 DEF RequestDescends
    <3>2. QED
      BY <1>1, <3>1
  <2>3. QED
    BY <2>1, <2>2
<1> HIDE DEF level
<1>7. RequestBegins(k)'
  BY <1>1, <1>3 DEF RequestBegins, Exists
<1>8. RequestDescends(k)'
  BY <1>1, <1>3, <1>4, <1>5, <1>6 DEF RequestDescends, Exists, IsOpen, Current
<1>9. RequestTakesLevels(k)'
  <2>1. \A q \in client[k].locked \cup level : runs[q].depth \in Nat
    BY <1>1, <1>4, <1>5, FieldTypes DEF Run
  <2>2. ASSUME NEW q \in level, NEW p \in client[k].locked
        PROVE  runs[p].depth < runs[q].depth
    <3>1. runs[p].depth <= runs[runs[q].parent].depth /\ runs[q].parent \in client[k].locked
      BY <1>1, <1>4, <1>5 DEF RequestTakesLevels
    <3>2. QED
      BY <1>5, <2>1, <3>1
  <2>3. ASSUME NEW q \in level, NEW p \in level
        PROVE  runs[p].depth = runs[q].depth
    <3>1. runs[runs[p].parent].depth = runs[runs[q].parent].depth
      BY <1>1, <1>5 DEF RequestTakesLevels
    <3>2. QED
      BY <1>5, <3>1
  <2>4. QED
    BY <1>1, <1>3, <2>1, <2>2, <2>3 DEF RequestTakesLevels, Before
<1>10. QED
  BY <1>1, <1>2, <1>3, <1>7, <1>8, <1>9, RequestMoves

LEMMA DescendantLocked ==
  ASSUME IInv, NEW k \in Clients, NEW r \in Runs, LockDescendant(k, r)
  PROVE  IInv'
<1>1. /\ client[k] \in Client /\ client \in [Clients -> Client] /\ TypeOK
      /\ RequestBegins(k) /\ RequestDescends(k) /\ RequestTakesLevels(k)
      /\ UNCHANGED <<runs, children, worker>>
      /\ r \in client[k].listed /\ (\A q \in client[k].listed : Rank[r] <= Rank[q])
      /\ Unlocked(r)
  BY FieldTypes DEF IInv, TypeOK, Requests, LockDescendant, NextOfLevel
<1>2. TypeOK'
  BY <1>1, RequestSteps DEF Request, CommitTerminate, LockDescendant, NextOfLevel
<1>3. client[k].pc = "descending"
  BY <1>1 DEF RequestBegins, NoRequest, Client
<1>4. /\ client[k].target \in client[k].subtree
      /\ client[k].unlisted \subseteq client[k].subtree
      /\ client[k].subtree \subseteq client[k].locked
      /\ client[k].locked \subseteq Runs /\ client[k].listed \subseteq Runs
      /\ \A q \in client[k].locked : Exists(q)
      /\ \A q \in client[k].subtree \ {client[k].target} : runs[q].parent \in client[k].subtree
      /\ \A q \in client[k].subtree :
           IsOpen(q) /\ (runs[q].parent = None \/ runs[q].parent \in client[k].locked)
      /\ \A q \in client[k].listed : Exists(q) /\ runs[q].parent \in client[k].subtree
      /\ \A o \in client[k].subtree \ client[k].unlisted, c \in Instances :
             children[c].parent = o /\ children[c].status = "active"
               => Current(c) \in client[k].listed \cup client[k].subtree
  BY <1>1, <1>3 DEF RequestDescends, Client
<1>5. /\ client'[k].pc = "descending" /\ client'[k].target = client[k].target
      /\ client'[k].locked = client[k].locked \cup {r}
      /\ client'[k].listed = client[k].listed \ {r}
      /\ client'[k].subtree = IF IsOpen(r) THEN client[k].subtree \cup {r} ELSE client[k].subtree
      /\ client'[k].unlisted = IF IsOpen(r) THEN client[k].unlisted \cup {r} ELSE client[k].unlisted
      /\ \A j \in Clients \ {k} : client'[j] = client[j]
  <2>1. CASE IsOpen(r)
    BY <1>1, <1>3, <2>1 DEF LockDescendant, Client
  <2>2. CASE ~IsOpen(r)
    BY <1>1, <1>3, <2>2 DEF LockDescendant, Client
  <2>3. QED
    BY <2>1, <2>2
<1>6. RequestBegins(k)'
  BY <1>1, <1>3, <1>5 DEF RequestBegins, Exists
<1>7. RequestDescends(k)'
  <2>1. ASSUME NEW o \in client'[k].subtree \ client'[k].unlisted, NEW c \in Instances,
               children[c].parent = o, children[c].status = "active"
        PROVE  Current(c) \in client'[k].listed \cup client'[k].subtree
    <3>1. o \in client[k].subtree \ client[k].unlisted
      BY <1>5, <2>1
    <3>2. Current(c) \in client[k].listed \cup client[k].subtree /\ IsOpen(Current(c))
      BY <1>4, <2>1, <3>1, FamilyFacts
    <3>3. QED
      BY <1>5, <3>2
  <2>2. /\ client'[k].unlisted \subseteq client'[k].subtree
        /\ client'[k].subtree \subseteq client'[k].locked
        /\ client'[k].target \in client'[k].subtree
        /\ \A q \in client'[k].locked : Exists(q)
        /\ \A q \in client'[k].subtree \ {client'[k].target} : runs[q].parent \in client'[k].subtree
        /\ \A q \in client'[k].subtree :
             IsOpen(q) /\ (runs[q].parent = None \/ runs[q].parent \in client'[k].locked)
        /\ \A q \in client'[k].listed : Exists(q) /\ runs[q].parent \in client'[k].subtree
    BY <1>1, <1>4, <1>5
  <2>3. QED
    BY <1>1, <2>1, <2>2 DEF RequestDescends, Exists, IsOpen, Current
<1>8. RequestTakesLevels(k)'
  <2>1. \A q \in client[k].locked \cup client[k].listed : runs[q].depth \in Nat /\ q \in Runs
    BY <1>1, <1>4, FieldTypes DEF Run
  <2>2. /\ \A p, q \in client[k].listed \cup client[k].unlisted : runs[p].depth = runs[q].depth
        /\ \A p \in client[k].locked, q \in client[k].listed \cup client[k].unlisted :
             runs[p].depth <= runs[q].depth
        /\ \A p \in client[k].locked, q \in client[k].listed : Before(p, q)
    BY <1>1, <1>3 DEF RequestTakesLevels
  <2>3. client'[k].listed \cup client'[k].unlisted \subseteq client[k].listed \cup client[k].unlisted
    BY <1>1, <1>5
  <2>4. ASSUME NEW q \in client'[k].listed
        PROVE  Before(r, q)
    <3>1. q \in client[k].listed /\ q # r /\ Rank[r] <= Rank[q] /\ q \in Runs
      BY <1>1, <1>4, <1>5
    <3>2. Rank[r] < Rank[q]
      BY <3>1, RankOrders
    <3>3. runs[r].depth = runs[q].depth
      BY <1>1, <2>2, <3>1
    <3>4. QED
      BY <3>2, <3>3 DEF Before
  <2>5. \A p \in client'[k].locked, q \in client'[k].listed : Before(p, q)
    BY <1>5, <2>2, <2>4
  <2>6. ASSUME NEW p \in client'[k].locked, NEW q \in client'[k].listed \cup client'[k].unlisted
        PROVE  runs[p].depth <= runs[q].depth
    <3>1. q \in client[k].listed \cup client[k].unlisted /\ q \in client[k].locked \cup client[k].listed
      BY <1>4, <2>3
    <3>2. CASE p = r
      BY <1>1, <2>1, <2>2, <3>1, <3>2
    <3>3. CASE p # r
      BY <1>5, <2>2, <3>1, <3>3
    <3>4. QED
      BY <3>2, <3>3
  <2>7. \A p, q \in client'[k].listed \cup client'[k].unlisted : runs[p].depth = runs[q].depth
    BY <2>2, <2>3
  <2>8. QED
    BY <1>1, <2>5, <2>6, <2>7 DEF RequestTakesLevels, Before
<1>9. QED
  BY <1>1, <1>2, <1>5, <1>6, <1>7, <1>8, RequestMoves

(***************************************************************************)
(* The invariant is inductive.                                             *)
(***************************************************************************)

LEMMA InitialStates ==
  Init => IInv
<1> SUFFICES ASSUME Init
             PROVE  IInv
  OBVIOUS
<1>1. NewRun(None, 0) \in Run /\ NewRun(None, 0).status = "queued" /\ NewRun(None, 0).call = None
      /\ NewRun(None, 0).parent = None
  <2>1. None \in Runs \cup {None} /\ 0 \in Nat
    OBVIOUS
  <2>2. QED
    BY <2>1, NewRunType, Zenon
<1>2. /\ runs \in [Runs -> Run] /\ children \in [Instances -> Child]
      /\ worker \in [Workers -> Worker] /\ client \in [Clients -> Client]
      /\ \A r \in Runs :
           /\ Exists(r) => r[1] \in Roots /\ r[2] = 1 /\ runs[r].parent = None
           /\ r[1] \in Roots /\ r[2] = 1 => Exists(r)
           /\ runs[r].call = None /\ runs[r].status \in {"queued", "none"}
      /\ \A c \in Instances : children[c] = NoChild
      /\ \A w \in Workers : worker[w].pc = "idle"
      /\ \A k \in Clients : client[k] = NoRequest
  BY <1>1, RowTypes DEF Init, Exists, Idle
<1>3. TypeOK
  BY <1>2, AllowedBudget DEF TypeOK, Init
<1>4. \A c \in Instances : children[c].status = "none" /\ children[c].current = 0
  BY <1>2 DEF NoChild
<1>5. RunsHaveParents /\ RelationshipsHaveRuns /\ CallsAreChildren
  BY <1>2, <1>4, RunNames DEF RunsHaveParents, RelationshipsHaveRuns, CallsAreChildren
<1>6. RunsContinue
  <2>1. ASSUME NEW r \in Runs, r[2] < MaxNumber
        PROVE  ~Exists(Successor(r))
    <3>1. r[2] \in 1..MaxNumber /\ r[1] \in Instances /\ r[2] + 1 \in 1..MaxNumber
      BY <2>1, RunNames, Limits
    <3>2. Successor(r) \in Runs /\ Successor(r)[2] = r[2] + 1
      BY <3>1, RunNames DEF Successor
    <3>3. QED
      BY <1>2, <3>1, <3>2
  <2>2. QED
    BY <2>1 DEF RunsContinue
<1>7. RelationshipFollowsChild
  <2>1. ASSUME NEW c \in Instances \ Roots, NEW n \in 1..MaxNumber
        PROVE  runs[<<c, n>>].status = "none"
    BY <1>2, RunNames DEF Exists
  <2>2. \A c \in Instances : First(c) = <<c, 1>> /\ 1 \in 1..MaxNumber
    BY Limits DEF First
  <2>3. QED
    BY <1>4, <2>1, <2>2 DEF RelationshipFollowsChild, Outcomes
<1>8. ClaimsAreFenced /\ ViewsAreCurrent
  BY <1>2 DEF ClaimsAreFenced, ViewsAreCurrent
<1>9. Exclusion
  BY <1>2 DEF Exclusion, WorkerLocks, NoRequest
<1>10. Requests
  BY <1>2 DEF Requests, RequestBegins, RequestDescends, RequestTakesLevels, NoRequest
<1>11. QED
  BY <1>3, <1>5, <1>6, <1>7, <1>8, <1>9, <1>10 DEF IInv, Family

LEMMA Inductive ==
  IInv /\ [Next]_vars => IInv'
<1> SUFFICES ASSUME IInv, [Next]_vars
             PROVE  IInv'
  OBVIOUS
<1>1. ASSUME NEW w \in Workers, Progress(w)
      PROVE  IInv'
  <2>1. CASE LockParent(w) \/ LockRun(w)
    BY <2>1, LockSteps
  <2>2. CASE HearChild(w) \/ ReceiveSignal(w) \/ RefuseChild(w)
    BY <2>2, ViewSteps
  <2>3. CASE WaitAgain(w) \/ AwaitSignal(w) \/ Quarantine(w) \/ \E c \in Instances : AttachChild(w, c)
    BY <2>3, WaitingCommits
  <2>4. CASE CancelledRun(w) \/ \E outcome \in {"completed", "failed"} : EndRun(w, outcome)
    BY <2>4, EndingCommits, RunEnds
  <2>5. CASE \E c \in Instances : StartChild(w, c)
    BY <2>5, ChildStarts
  <2>6. CASE ContinueAsNew(w)
    BY <2>6, RunContinues
  <2>7. QED
    BY <1>1, <2>1, <2>2, <2>3, <2>4, <2>5, <2>6 DEF Progress, Commit
<1>2. ASSUME NEW w \in Workers, Crash(w) \/ \E r \in Runs : Claim(w, r)
      PROVE  IInv'
  BY <1>2, LockSteps, ClaimSteps
<1>3. ASSUME NEW r \in Runs, SignalRun(r) \/ CancelRun(r)
      PROVE  IInv'
  BY <1>3, InboxRequests
<1>4. ASSUME NEW k \in Clients, Request(k) \/ \E r \in Runs : BeginTerminate(k, r)
      PROVE  IInv'
  BY <1>4, RequestStarts, LevelListed, DescendantLocked, TerminateCommits DEF Request
<1>5. CASE UNCHANGED vars
  <2>1. Within({}, {}) /\ Family'
    BY <1>5, NothingWritten DEF vars
  <2>2. TypeOK'
    BY <1>5 DEF IInv, TypeOK, vars
  <2>3. ClaimsAreFenced' /\ ViewsAreCurrent'
    BY <1>5, SMTT(30) DEF IInv, vars, ClaimsAreFenced, ViewsAreCurrent, ViewIsCurrent, Mine, View,
                AnswerTo, Answer, WaitFailed
  <2>4. Exclusion'
    BY <1>5 DEF IInv, vars, Exclusion, WorkerLocks
  <2>5. Requests'
    BY <1>5 DEF IInv, vars, Requests, RequestBegins, RequestDescends, RequestTakesLevels,
                Exists, IsOpen, Current, Before
  <2>6. QED
    BY <2>1, <2>2, <2>3, <2>4, <2>5 DEF IInv
<1>6. QED
  BY <1>1, <1>2, <1>3, <1>4, <1>5 DEF Next

LEMMA Invariance ==
  Spec => []IInv
BY InitialStates, Inductive, PTL DEF Spec

\* Every run row, relationship, activation and request has the shape that the tables
\* and the worker give it.
THEOREM TypesAreCorrect ==
  Spec => []TypeOK
<1>1. IInv => TypeOK
  BY DEF IInv
<1>2. QED
  BY <1>1, Invariance, PTL

\* An instance has one open run at most, its newest, and the relationship follows it
\* through every continuation, end and terminate: for families of every size.
THEOREM RelationshipsFollowTheirChildren ==
  Spec => []RelationshipFollowsChild
<1>1. IInv => RelationshipFollowsChild
  BY DEF IInv, Family
<1>2. QED
  BY <1>1, Invariance, PTL

LEMMA LocksInOrder ==
  IInv => LocksAreOrdered
<1> SUFFICES ASSUME IInv
             PROVE  LocksAreOrdered
  OBVIOUS
<1>1. ASSUME NEW r \in Runs, Exists(r), runs[r].parent # None
      PROVE  Before(runs[r].parent, r)
  <2>1. runs[r].parent \in Runs /\ runs[r].depth = runs[runs[r].parent].depth + 1
    BY <1>1, FieldTypes DEF IInv, Family, RunsHaveParents, Run
  <2>2. runs[runs[r].parent].depth \in Nat
    BY <2>1, FieldTypes DEF IInv, Run
  <2>3. QED
    BY <2>1, <2>2 DEF Before
<1>2. ASSUME NEW w \in Workers, NEW p \in WorkerLocks(w), NEW q \in WantedByWorker(w)
      PROVE  Before(p, q)
  <2>1. worker[w].pc = "parentLocked" /\ q = worker[w].run
    BY <1>2 DEF WorkerLocks, WantedByWorker
  <2>2. Mine(w) \in Runs /\ Exists(Mine(w)) /\ WorkerLocks(w) = {runs[Mine(w)].parent} \ {None}
    BY <2>1, LocksAreRuns
  <2>3. QED
    BY <1>1, <1>2, <2>1, <2>2 DEF Mine
<1>3. ASSUME NEW k \in Clients, NEW p \in client[k].locked, NEW q \in WantedByClient(k)
      PROVE  Before(p, q)
  <2>1. /\ RequestBegins(k) /\ RequestTakesLevels(k)
        /\ client[k].pc \in {"idle", "begun", "parentLocked", "descending"}
    BY FieldTypes DEF IInv, Requests, Client
  <2>2. client[k].pc \notin {"idle", "begun"}
    BY <1>3, <2>1 DEF RequestBegins, NoRequest
  <2>3. CASE client[k].pc = "parentLocked"
    <3>1. q = client[k].target /\ q \in Runs /\ Exists(q) /\ p \in {runs[q].parent} \ {None}
      BY <1>3, <2>1, <2>3 DEF RequestBegins, WantedByClient
    <3>2. QED
      BY <1>1, <3>1
  <2>4. CASE client[k].pc = "descending"
    BY <1>3, <2>1, <2>4 DEF RequestTakesLevels, WantedByClient
  <2>5. QED
    BY <2>1, <2>2, <2>3, <2>4
<1>4. QED
  BY <1>2, <1>3 DEF LocksAreOrdered

\* Activations and terminates take the run rows of families of every depth in one
\* global order, so that no cycle of them can wait for each other's rows.
THEOREM LocksAreTakenInOrder ==
  Spec => []LocksAreOrdered
BY LocksInOrder, Invariance, PTL

(***************************************************************************)
(* What parents and children, and the clients who end them, can count on.  *)
(***************************************************************************)

Promises == TerminateReachesSubtree /\ CancelIsPassedOn /\ HeardIsTheChildsEnd

\* What a step may do to a relationship that exists: it keeps its parent, follows on,
\* ends once, and is heard of as it is.
Moves(c) ==
    /\ children'[c].parent = children[c].parent
    /\ children'[c].current >= children[c].current
    /\ children'[c].status # children[c].status => children[c].status = "active"
    /\ \/ children'[c].heard = children[c].heard /\ children'[c].waitFailed = children[c].waitFailed
       \/ children'[c].heard = "wait_failed" /\ children'[c].waitFailed = TRUE
       \/ /\ children'[c].heard \in Outcomes /\ children'[c].waitFailed = FALSE
          /\ children'[c].status = children'[c].heard

LEMMA HeardMoves ==
  ASSUME IInv, NEW w \in Workers, worker[w].pc = "locked", NEW c \in Instances
  PROVE  /\ Heard(w)[c].parent = children[c].parent
         /\ Heard(w)[c].current = children[c].current
         /\ Heard(w)[c].continuations = children[c].continuations
         /\ Heard(w)[c].status = children[c].status
         /\ \/ Heard(w)[c].heard = children[c].heard /\ Heard(w)[c].waitFailed = children[c].waitFailed
            \/ Heard(w)[c].heard = "wait_failed" /\ Heard(w)[c].waitFailed = TRUE
            \/ /\ Heard(w)[c].heard \in Outcomes /\ Heard(w)[c].waitFailed = FALSE
               /\ children[c].status = Heard(w)[c].heard
<1>1. /\ children[c] \in Child /\ ViewIsCurrent(w)
      /\ Heard(w)[c] = children[c] \/ (c = runs[Mine(w)].call /\ View(w).call = None)
  BY FieldTypes, HeardEffect DEF IInv, ViewsAreCurrent
<1>2. CASE Heard(w)[c] = children[c]
  BY <1>2
<1>3. CASE c = runs[Mine(w)].call /\ View(w).call = None
  <2>1. worker[w].answer = Answer(c) /\ worker[w].answer # "none"
    BY <1>1, <1>3, RunNames DEF ViewIsCurrent, AnswerTo
  <2>2. Heard(w)[c].heard = worker[w].answer
        /\ Heard(w)[c].waitFailed = (children[c].waitFailed \/ worker[w].answer = "wait_failed")
    BY <1>3, HeardEffect
  <2>3. children[c].waitFailed \in BOOLEAN
    BY <1>1 DEF Child
  <2>4. CASE WaitFailed(c)
    <3>1. worker[w].answer = "wait_failed"
      BY <2>1, <2>4 DEF Answer
    <3>2. Heard(w)[c].waitFailed = TRUE
      BY <2>2, <3>1
    <3>3. QED
      BY <2>2, <3>1, <3>2, HeardEffect
  <2>5. CASE ~WaitFailed(c)
    <3>1. worker[w].answer \in Outcomes /\ children[c].status = worker[w].answer
      BY <2>1, <2>5 DEF Answer
    <3>2. worker[w].answer # "wait_failed" /\ children[c].waitFailed = FALSE
      BY <2>3, <2>5, <3>1 DEF WaitFailed, Outcomes
    <3>3. Heard(w)[c].waitFailed = FALSE
      BY <2>2, <3>2
    <3>4. QED
      BY <2>2, <3>1, <3>3, HeardEffect
  <2>6. QED
    BY <2>4, <2>5
<1>4. QED
  BY <1>1, <1>2, <1>3

LEMMA PromisesKept ==
  ASSUME IInv, IInv', Promises,
         \A c \in Instances :
           \/ children[c].status # "none" /\ Moves(c)
           \/ children[c].status = "none" /\ children'[c] = children[c]
           \/ /\ children[c].status = "none"
              /\ children'[c].heard = "none" /\ children'[c].waitFailed = FALSE
              /\ runs'[children'[c].parent].status = "waiting",
         \A q \in Runs :
           /\ Exists(q) /\ runs[q].cancelSent = TRUE => runs'[q].cancelSent = TRUE
           /\ runs'[q].status = "terminated" =>
                \/ runs[q].status = "terminated"
                \/ \A c \in ActiveChildren(q) : children'[c].status # "active"
           /\ runs'[q].status = "cancelled" =>
                \/ runs[q].status = "cancelled"
                \/ \A c \in ActiveChildren(q) : runs'[Current(c)].cancelSent = TRUE
  PROVE  Promises'
<1>1. \A c \in Instances : children[c] \in Child /\ children'[c] \in Child
  BY DEF IInv, TypeOK
<1>2. \A q \in Runs : runs[q].cancelSent \in BOOLEAN /\ runs'[q].cancelSent \in BOOLEAN
  BY DEF IInv, TypeOK, Run
<1>3. ASSUME NEW r \in Runs, NEW c \in Instances, children'[c].parent = r,
             children'[c].status = "active", runs'[r].status # "waiting"
      PROVE  /\ children[c].status = "active" /\ children[c].parent = r /\ Moves(c)
             /\ c \in ActiveChildren(r)
  BY <1>3 DEF Moves, ActiveChildren
<1>4. TerminateReachesSubtree'
  <2>1. ASSUME NEW r \in Runs, runs'[r].status = "terminated", NEW c \in Instances,
               children'[c].parent = r, children'[c].status = "active"
        PROVE  FALSE
    <3>1. c \in ActiveChildren(r)
      BY <1>3, <2>1
    <3>2. CASE runs[r].status = "terminated"
      BY <3>1, <3>2 DEF Promises, TerminateReachesSubtree
    <3>3. CASE runs[r].status # "terminated"
      BY <2>1, <3>1, <3>3
    <3>4. QED
      BY <3>2, <3>3
  <2>2. QED
    BY <2>1 DEF TerminateReachesSubtree, ActiveChildren
<1>5. CancelIsPassedOn'
  <2>1. ASSUME NEW r \in Runs, runs'[r].status = "cancelled", NEW c \in Instances,
               children'[c].parent = r, children'[c].status = "active"
        PROVE  \E n \in 1..children'[c].current : runs'[<<c, n>>].cancelSent
    <3>1. c \in ActiveChildren(r) /\ children[c].status = "active" /\ Moves(c)
      BY <1>3, <2>1
    <3>2. /\ c \notin Roots /\ Current(c) \in Runs /\ Exists(Current(c))
          /\ children[c].current \in 1..MaxNumber
      BY <3>1, FamilyFacts DEF IInv, Family, RelationshipsHaveRuns
    <3>3. CASE runs[r].status = "cancelled"
      <4>1. PICK n \in 1..children[c].current : runs[<<c, n>>].cancelSent
        BY <3>1, <3>3 DEF Promises, CancelIsPassedOn
      <4>2. n \in 1..MaxNumber /\ <<c, n>> \in Runs /\ n <= children[c].current
        BY <3>2, <4>1, RunNames, Limits
      <4>3. Exists(<<c, n>>)
        <5>1. CASE n = children[c].current
          BY <3>2, <5>1 DEF Current
        <5>2. CASE n < children[c].current
          BY <3>2, <4>2, <5>2 DEF IInv, Family, RelationshipFollowsChild, Exists
        <5>3. QED
          BY <3>2, <4>2, <5>1, <5>2
      <4>4. runs[<<c, n>>].cancelSent = TRUE
        BY <1>2, <4>1, <4>2
      <4>5. runs'[<<c, n>>].cancelSent = TRUE
        BY <4>2, <4>3, <4>4
      <4>6. n \in 1..children'[c].current
        BY <1>1, <3>1, <4>1 DEF Moves, Child
      <4>7. QED
        BY <4>5, <4>6
    <3>4. CASE runs[r].status # "cancelled"
      <4>1. runs'[Current(c)].cancelSent = TRUE
        BY <2>1, <3>1, <3>4
      <4>2. children[c].current \in 1..children'[c].current
        BY <1>1, <3>1, <3>2 DEF Moves, Child
      <4>3. QED
        BY <4>1, <4>2 DEF Current
    <3>5. QED
      BY <3>3, <3>4
  <2>2. QED
    BY <2>1 DEF CancelIsPassedOn, ActiveChildren
<1>6. ASSUME NEW c \in Instances
      PROVE  /\ children'[c].heard \in Outcomes =>
                  /\ ~children'[c].waitFailed
                  /\ children'[c].status = children'[c].heard
             /\ children'[c].heard = "wait_failed" <=> children'[c].waitFailed
  <2>1. /\ children[c].heard \in Outcomes => ~children[c].waitFailed /\ children[c].status = children[c].heard
        /\ children[c].heard = "wait_failed" <=> children[c].waitFailed
    BY DEF Promises, HeardIsTheChildsEnd
  <2>2. children[c].waitFailed \in BOOLEAN /\ children'[c].waitFailed \in BOOLEAN
    BY <1>1 DEF Child
  <2>3. CASE children[c].status # "none" /\ Moves(c)
    <3>1. CASE children'[c].heard = children[c].heard /\ children'[c].waitFailed = children[c].waitFailed
      BY <2>1, <2>3, <3>1 DEF Moves, Outcomes
    <3>2. CASE children'[c].heard = "wait_failed" /\ children'[c].waitFailed = TRUE
      BY <3>2 DEF Outcomes
    <3>3. CASE /\ children'[c].heard \in Outcomes /\ children'[c].waitFailed = FALSE
               /\ children'[c].status = children'[c].heard
      BY <3>3 DEF Outcomes
    <3>4. QED
      BY <2>3, <3>1, <3>2, <3>3 DEF Moves
  <2>4. CASE children'[c] = children[c]
    BY <2>1, <2>4
  <2>5. CASE children'[c].heard = "none" /\ children'[c].waitFailed = FALSE
    BY <2>5 DEF Outcomes
  <2>6. QED
    BY <2>3, <2>4, <2>5
<1>7. ASSUME NEW c \in Instances, children'[c].heard \in Outcomes
      PROVE  runs'[Current(c)'].status = children'[c].heard
  <2>1. children'[c].status \in Outcomes /\ children'[c].status = children'[c].heard
    BY <1>6, <1>7
  <2>2. c \notin Roots
    BY <2>1 DEF IInv, Family, RelationshipsHaveRuns, Outcomes
  <2>3. QED
    BY <2>1, <2>2 DEF IInv, Family, RelationshipFollowsChild
<1>8. HeardIsTheChildsEnd'
  BY <1>6, <1>7 DEF HeardIsTheChildsEnd
<1>9. QED
  BY <1>4, <1>5, <1>8 DEF Promises

\* What may become of a relationship in a step that keeps the promises.
Moved(c) ==
    \/ children[c].status # "none" /\ Moves(c)
    \/ children[c].status = "none" /\ children'[c] = children[c]

LEMMA SameMoves ==
  ASSUME IInv, NEW c \in Instances, children'[c] = children[c]
  PROVE  Moved(c)
<1>1. children[c] \in Child
  BY FieldTypes DEF IInv
<1>2. QED
  BY <1>1 DEF Moved, Moves, Child

LEMMA HeardIsMoved ==
  ASSUME IInv, NEW w \in Workers, worker[w].pc = "locked", NEW c \in Instances,
         children'[c] = Heard(w)[c]
  PROVE  Moved(c)
<1>1. children[c] \in Child
  BY FieldTypes DEF IInv
<1>2. children[c].status = "none" => Heard(w)[c] = children[c]
  BY CommitFacts
<1> DEFINE h == Heard(w)[c]
<1>3. /\ h.parent = children[c].parent /\ h.current = children[c].current
      /\ h.status = children[c].status
      /\ \/ h.heard = children[c].heard /\ h.waitFailed = children[c].waitFailed
         \/ h.heard = "wait_failed" /\ h.waitFailed = TRUE
         \/ h.heard \in Outcomes /\ h.waitFailed = FALSE /\ h.status = h.heard
  BY HeardMoves
<1>4. children'[c] = h
  OBVIOUS
<1> HIDE DEF h
<1>5. Moves(c)
  BY <1>1, <1>3, <1>4 DEF Moves, Child
<1>6. QED
  BY <1>2, <1>4, <1>5 DEF Moved, h

\* A step that terminates and cancels no run.
LEMMA QuietStep ==
  ASSUME IInv, IInv', Promises,
         \A c \in Instances :
           \/ Moved(c)
           \/ /\ children[c].status = "none"
              /\ children'[c].heard = "none" /\ children'[c].waitFailed = FALSE
              /\ runs'[children'[c].parent].status = "waiting",
         \A q \in Runs :
           /\ Exists(q) /\ runs[q].cancelSent = TRUE => runs'[q].cancelSent = TRUE
           /\ runs'[q].status = runs[q].status \/ runs'[q].status \notin {"terminated", "cancelled"}
  PROVE  Promises'
<1>1. \A q \in Runs :
           /\ Exists(q) /\ runs[q].cancelSent = TRUE => runs'[q].cancelSent = TRUE
           /\ runs'[q].status = "terminated" =>
                \/ runs[q].status = "terminated"
                \/ \A c \in ActiveChildren(q) : children'[c].status # "active"
           /\ runs'[q].status = "cancelled" =>
                \/ runs[q].status = "cancelled"
                \/ \A c \in ActiveChildren(q) : runs'[Current(c)].cancelSent = TRUE
  OBVIOUS
<1>2. \A c \in Instances :
           \/ children[c].status # "none" /\ Moves(c)
           \/ children[c].status = "none" /\ children'[c] = children[c]
           \/ /\ children[c].status = "none"
              /\ children'[c].heard = "none" /\ children'[c].waitFailed = FALSE
              /\ runs'[children'[c].parent].status = "waiting"
  BY DEF Moved
<1>3. QED
  BY <1>1, <1>2, PromisesKept

LEMMA WaitingKeepsPromises ==
  ASSUME IInv, IInv', Promises, NEW w \in Workers,
         \/ WaitAgain(w) \/ AwaitSignal(w) \/ Quarantine(w)
         \/ \E c \in Instances : AttachChild(w, c)
  PROVE  Promises'
<1>1. /\ worker[w].pc = "locked" /\ (children' = children \/ children' = Heard(w))
      /\ \A q \in Runs \ {Mine(w)} : runs'[q] = runs[q]
      /\ runs'[Mine(w)].status \in Open
      /\ runs'[Mine(w)].cancelSent = runs[Mine(w)].cancelSent
  BY WaitingCommits
<1>2. \A c \in Instances : Moved(c)
  BY <1>1, SameMoves, HeardIsMoved
<1>3. \A q \in Runs :
        /\ Exists(q) /\ runs[q].cancelSent = TRUE => runs'[q].cancelSent = TRUE
        /\ runs'[q].status = runs[q].status \/ runs'[q].status \notin {"terminated", "cancelled"}
  BY <1>1 DEF Open
<1>4. QED
  BY <1>2, <1>3, QuietStep

LEMMA EndingKeepsPromises ==
  ASSUME IInv, IInv', Promises, NEW w \in Workers,
         CancelledRun(w) \/ \E outcome \in {"completed", "failed"} : EndRun(w, outcome)
  PROVE  Promises'
<1>1. worker[w].pc = "locked" /\ View(w).call = None
  BY EndingCommits
<1>2. PICK outcome \in {"completed", "failed", "cancelled"} :
        \E rows \in [Runs -> Run] : EndsRun(w, outcome, rows)
  BY EndingCommits
<1>3. PICK rows \in [Runs -> Run] : EndsRun(w, outcome, rows)
  BY <1>2
<1>4. /\ \A q \in Runs :
           /\ \/ rows[q].cancelSent = runs[q].cancelSent
              \/ rows[q].cancelSent = TRUE /\ \E c \in ActiveChildren(Mine(w)) : q = Current(c)
           /\ runs'[q].cancelSent = rows[q].cancelSent
           /\ q # Mine(w) => runs'[q].status = runs[q].status \/ runs'[q].status = "queued"
      /\ runs'[Mine(w)].status = outcome
      /\ outcome = "cancelled" => \A c \in ActiveChildren(Mine(w)) : rows[Current(c)].cancelSent = TRUE
  <2>1. /\ \A q \in Runs :
             \/ rows[q].cancelSent = runs[q].cancelSent
             \/ rows[q].cancelSent = TRUE /\ \E c \in ActiveChildren(Mine(w)) : q = Current(c)
        /\ outcome = "cancelled" => \A c \in ActiveChildren(Mine(w)) : rows[Current(c)].cancelSent = TRUE
    <3>1. EndsRun(w, outcome, rows)
      BY <1>3
    <3> HIDE <1>1, <1>3
    <3>2. QED
      BY <3>1 DEF EndsRun
  <2>2. /\ \A q \in Runs :
             /\ runs'[q].cancelSent = rows[q].cancelSent
             /\ q # Mine(w) => runs'[q].status = runs[q].status \/ runs'[q].status = "queued"
        /\ runs'[Mine(w)].status = outcome
    BY <1>1, <1>3, EndsRunEffect
  <2>3. QED
    BY <2>1, <2>2
<1>5. ASSUME NEW c \in Instances
      PROVE  Moved(c)
  <2>1. CASE Current(c) # Mine(w) \/ children[c].status # "active"
    <3>1. children'[c] = Heard(w)[c]
      BY <1>1, <1>3, <2>1, EndsRunEffect
    <3>2. QED
      BY <1>1, <3>1, HeardIsMoved
  <2>2. CASE Current(c) = Mine(w) /\ children[c].status = "active"
    <3>1. /\ children'[c].parent = children[c].parent /\ children'[c].current = children[c].current
          /\ children'[c].heard = Heard(w)[c].heard /\ children'[c].waitFailed = Heard(w)[c].waitFailed
      BY <1>1, <1>3, EndsRunEffect
    <3>2. Heard(w)[c].heard \in Outcomes => children[c].status \in Outcomes
      BY <1>1, HeardMoves DEF Promises, HeardIsTheChildsEnd, Outcomes
    <3>3. children[c] \in Child
      BY FieldTypes DEF IInv
    <3>4. \/ children'[c].heard = children[c].heard /\ children'[c].waitFailed = children[c].waitFailed
          \/ children'[c].heard = "wait_failed" /\ children'[c].waitFailed = TRUE
      BY <1>1, <2>2, <3>1, HeardMoves DEF Outcomes
    <3>5. QED
      BY <2>2, <3>1, <3>3, <3>4 DEF Moved, Moves, Child
  <2>3. QED
    BY <2>1, <2>2
<1>6. \A c \in Instances :
        \/ children[c].status # "none" /\ Moves(c)
        \/ children[c].status = "none" /\ children'[c] = children[c]
        \/ /\ children[c].status = "none"
           /\ children'[c].heard = "none" /\ children'[c].waitFailed = FALSE
           /\ runs'[children'[c].parent].status = "waiting"
  BY <1>5 DEF Moved
<1>7. ASSUME NEW q \in Runs
      PROVE  /\ Exists(q) /\ runs[q].cancelSent = TRUE => runs'[q].cancelSent = TRUE
             /\ runs'[q].status = "terminated" =>
                  \/ runs[q].status = "terminated"
                  \/ \A c \in ActiveChildren(q) : children'[c].status # "active"
             /\ runs'[q].status = "cancelled" =>
                  \/ runs[q].status = "cancelled"
                  \/ \A c \in ActiveChildren(q) : runs'[Current(c)].cancelSent = TRUE
  <2>1. \A c \in ActiveChildren(q) : Current(c) \in Runs
    BY FamilyFacts DEF ActiveChildren
  <2>2. Exists(q) /\ runs[q].cancelSent = TRUE => runs'[q].cancelSent = TRUE
    BY <1>4
  <2>3. CASE q = Mine(w)
    BY <1>4, <2>1, <2>2, <2>3
  <2>4. CASE q # Mine(w)
    BY <1>4, <2>2, <2>4
  <2>5. QED
    BY <2>3, <2>4
<1>8. QED
  BY <1>6, <1>7, PromisesKept

LEMMA StartingKeepsPromises ==
  ASSUME IInv, IInv', Promises, NEW w \in Workers, NEW c \in Instances, StartChild(w, c)
  PROVE  Promises'
<1>1. /\ worker[w].pc = "locked" /\ children[c].status = "none" /\ ~Exists(First(c))
      /\ runs'[Mine(w)].status = "waiting" /\ runs'[Mine(w)].cancelSent = runs[Mine(w)].cancelSent
      /\ runs'[First(c)].status = "queued"
      /\ \A q \in Runs : q # Mine(w) /\ q # First(c) => runs'[q] = runs[q]
      /\ children'[c].parent = Mine(w)
      /\ children'[c].waitFailed = FALSE /\ children'[c].heard = "none"
      /\ \A d \in Instances : d # c => children'[d] = Heard(w)[d]
  <2>1. Starts(w, c)
    BY ChildStarts
  <2>2. QED
    BY <2>1 DEF Starts
<1>2. \A d \in Instances :
        \/ Moved(d)
        \/ /\ children[d].status = "none"
           /\ children'[d].heard = "none" /\ children'[d].waitFailed = FALSE
           /\ runs'[children'[d].parent].status = "waiting"
  BY <1>1, HeardIsMoved
<1>3. \A q \in Runs :
        /\ Exists(q) /\ runs[q].cancelSent = TRUE => runs'[q].cancelSent = TRUE
        /\ runs'[q].status = runs[q].status \/ runs'[q].status \notin {"terminated", "cancelled"}
  BY <1>1
<1>4. QED
  BY <1>2, <1>3, QuietStep

LEMMA ContinuingKeepsPromises ==
  ASSUME IInv, IInv', Promises, NEW w \in Workers, ContinueAsNew(w)
  PROVE  Promises'
<1> DEFINE r == Mine(w)
           s == Successor(r)
           c == r[1]
<1>1. /\ worker[w].pc = "locked" /\ ~Exists(s)
      /\ runs'[r].status = "continued_as_new" /\ runs'[s].status = "queued"
      /\ runs'[r].cancelSent = runs[r].cancelSent
      /\ \A q \in Runs : q # r /\ q # s =>
              /\ runs'[q].cancelSent = runs[q].cancelSent
              /\ \/ runs'[q].status = runs[q].status
                 \/ runs[q].status = "waiting" /\ runs'[q].status = "queued"
      /\ \A d \in Instances : d # c \/ runs[r].parent = None => children'[d] = Heard(w)[d]
      /\ runs[r].parent # None => /\ children[c].status = "active"
                                  /\ children'[c] = Followed(children[c])
  BY RunContinues
<1>2. r \in Runs /\ r[2] < MaxNumber /\ c \in Instances /\ IsOpen(r)
  BY <1>1, LockedRun, RunNames DEF ContinueAsNew
<1>3. runs[r].parent # None => Moved(c)
  <2>1. SUFFICES ASSUME runs[r].parent # None
                 PROVE  Moved(c)
    OBVIOUS
  <2>2. c \notin Roots /\ r = Current(c) /\ children[c] \in Child
    BY <1>2, <2>1, OpenIsCurrent, FieldTypes DEF IInv, Family, RunsHaveParents, Exists, IsOpen, Open
  <2>3. children[c].current = r[2]
    BY <2>2 DEF Current
  <2>4. /\ children'[c].status = children[c].status /\ children'[c].parent = children[c].parent
        /\ children'[c].current = children[c].current + 1
        /\ children'[c].waitFailed = children[c].waitFailed
        /\ children'[c].heard = children[c].heard
    BY <1>1, <1>2, <2>1, <2>2, <2>3, FollowedType
  <2>5. QED
    BY <1>1, <2>1, <2>2, <2>4 DEF Moved, Moves, Child
<1>4. \A d \in Instances : Moved(d)
  BY <1>1, <1>2, <1>3, HeardIsMoved
<1>5. \A q \in Runs :
        /\ Exists(q) /\ runs[q].cancelSent = TRUE => runs'[q].cancelSent = TRUE
        /\ runs'[q].status = runs[q].status \/ runs'[q].status \notin {"terminated", "cancelled"}
  BY <1>1
<1>6. QED
  BY <1>4, <1>5, QuietStep

\* The rows below a target are all in the subtree when a terminate commits.
LEMMA TerminatingKeepsPromises ==
  ASSUME IInv, IInv', Promises, NEW k \in Clients, CommitTerminate(k)
  PROVE  Promises'
<1> DEFINE ended == client[k].subtree
<1>1. /\ RequestDescends(k) /\ client[k].pc = "descending"
      /\ client[k].listed = {} /\ client[k].unlisted = {}
  BY DEF IInv, Requests, CommitTerminate
<1>2. /\ \A q \in Runs :
           /\ runs'[q].cancelSent = runs[q].cancelSent
           /\ q \in ended => runs'[q].status = "terminated"
           /\ q \notin ended => runs'[q].status = runs[q].status \/ runs'[q].status = "queued"
      /\ \A c \in Instances :
           /\ children'[c].parent = children[c].parent
           /\ children'[c].current = children[c].current
           /\ children'[c].status = IF children[c].status = "active" /\ Current(c) \in ended
                                    THEN "terminated" ELSE children[c].status
           /\ children[c].status # "active" \/ Current(c) \notin ended => children'[c] = children[c]
           /\ children'[c].heard = children[c].heard /\ children'[c].waitFailed = children[c].waitFailed
  BY TerminateEffect
<1>3. ASSUME NEW c \in Instances
      PROVE  Moved(c)
  <2>1. CASE children[c].status # "active" \/ Current(c) \notin ended
    BY <1>2, <2>1, SameMoves
  <2>2. CASE children[c].status = "active" /\ Current(c) \in ended
    <3>1. children[c] \in Child
      BY FieldTypes DEF IInv
    <3>2. QED
      BY <1>2, <2>2, <3>1 DEF Moved, Moves, Child
  <2>3. QED
    BY <2>1, <2>2
<1>4. \A c \in Instances :
        \/ children[c].status # "none" /\ Moves(c)
        \/ children[c].status = "none" /\ children'[c] = children[c]
        \/ /\ children[c].status = "none"
           /\ children'[c].heard = "none" /\ children'[c].waitFailed = FALSE
           /\ runs'[children'[c].parent].status = "waiting"
  BY <1>3 DEF Moved
<1>5. ASSUME NEW q \in Runs, q \in ended, NEW c \in ActiveChildren(q)
      PROVE  children'[c].status # "active"
  <2>1. c \in Instances /\ children[c].parent = q /\ children[c].status = "active"
    BY DEF ActiveChildren
  <2>2. Current(c) \in ended
    BY <1>1, <1>5, <2>1 DEF RequestDescends
  <2>3. QED
    BY <1>2, <2>1, <2>2
<1>6. ASSUME NEW q \in Runs
      PROVE  /\ Exists(q) /\ runs[q].cancelSent = TRUE => runs'[q].cancelSent = TRUE
             /\ runs'[q].status = "terminated" =>
                  \/ runs[q].status = "terminated"
                  \/ \A c \in ActiveChildren(q) : children'[c].status # "active"
             /\ runs'[q].status = "cancelled" =>
                  \/ runs[q].status = "cancelled"
                  \/ \A c \in ActiveChildren(q) : runs'[Current(c)].cancelSent = TRUE
  <2>1. CASE q \in ended
    BY <1>2, <1>5, <2>1
  <2>2. CASE q \notin ended
    BY <1>2, <2>2
  <2>3. QED
    BY <2>1, <2>2
<1>7. QED
  BY <1>4, <1>6, PromisesKept

\* A step that leaves the relationships alone, and ends no run.
LEMMA OtherStepsKeepPromises ==
  ASSUME IInv, IInv', Promises, UNCHANGED children,
         \A q \in Runs :
           \/ runs'[q] = runs[q]
           \/ /\ runs'[q].status \in Open
              /\ runs[q].cancelSent = TRUE => runs'[q].cancelSent = TRUE
  PROVE  Promises'
<1>1. \A c \in Instances : Moved(c)
  BY SameMoves
<1>2. \A q \in Runs :
        /\ Exists(q) /\ runs[q].cancelSent = TRUE => runs'[q].cancelSent = TRUE
        /\ runs'[q].status = runs[q].status \/ runs'[q].status \notin {"terminated", "cancelled"}
  BY DEF Open
<1>3. QED
  BY <1>1, <1>2, QuietStep

LEMMA PromisesInductive ==
  IInv /\ IInv' /\ Promises /\ [Next]_vars => Promises'
<1> SUFFICES ASSUME IInv, IInv', Promises, [Next]_vars
             PROVE  Promises'
  OBVIOUS
<1>1. ASSUME NEW w \in Workers, Progress(w)
      PROVE  Promises'
  <2>1. CASE LockParent(w) \/ LockRun(w) \/ HearChild(w) \/ ReceiveSignal(w) \/ RefuseChild(w)
    BY <2>1, OtherStepsKeepPromises DEF LockParent, LockRun, HearChild, ReceiveSignal, RefuseChild
  <2>2. CASE WaitAgain(w) \/ AwaitSignal(w) \/ Quarantine(w) \/ \E c \in Instances : AttachChild(w, c)
    BY <2>2, WaitingKeepsPromises
  <2>3. CASE CancelledRun(w) \/ \E outcome \in {"completed", "failed"} : EndRun(w, outcome)
    BY <2>3, EndingKeepsPromises
  <2>4. CASE \E c \in Instances : StartChild(w, c)
    BY <2>4, StartingKeepsPromises
  <2>5. CASE ContinueAsNew(w)
    BY <2>5, ContinuingKeepsPromises
  <2>6. QED
    BY <1>1, <2>1, <2>2, <2>3, <2>4, <2>5 DEF Progress, Commit
<1>2. ASSUME NEW w \in Workers, Crash(w)
      PROVE  Promises'
  BY <1>2, OtherStepsKeepPromises DEF Crash
<1>3. ASSUME NEW w \in Workers, NEW r \in Runs, Claim(w, r)
      PROVE  Promises'
  BY <1>3, ClaimSteps, OtherStepsKeepPromises DEF Open
<1>4. ASSUME NEW r \in Runs, SignalRun(r) \/ CancelRun(r)
      PROVE  Promises'
  BY <1>4, InboxRequests, OtherStepsKeepPromises
<1>5. ASSUME NEW k \in Clients, Request(k) \/ \E r \in Runs : BeginTerminate(k, r)
      PROVE  Promises'
  <2>1. CASE CommitTerminate(k)
    BY <2>1, TerminatingKeepsPromises
  <2>2. CASE ~CommitTerminate(k)
    <3>1. UNCHANGED <<runs, children>>
      BY <1>5, <2>2, ZenonT(60) DEF Request, BeginTerminate, TerminateLocksParent, TerminateLocksTarget,
                        ListChildren, LockDescendant
    <3>2. QED
      BY <3>1, OtherStepsKeepPromises
  <2>3. QED
    BY <2>1, <2>2
<1>6. CASE UNCHANGED vars
  BY <1>6, OtherStepsKeepPromises DEF vars
<1>7. QED
  BY <1>1, <1>2, <1>3, <1>4, <1>5, <1>6 DEF Next

LEMMA PromisesBegin ==
  Init => Promises
<1> SUFFICES ASSUME Init
             PROVE  Promises
  OBVIOUS
<1>1. /\ \A r \in Runs : runs[r].status \in {"queued", "none"}
      /\ \A c \in Instances : children[c].heard = "none" /\ children[c].waitFailed = FALSE
  BY DEF Init, NewRun, NoRun, NoChild
<1>2. QED
  BY <1>1 DEF Promises, TerminateReachesSubtree, CancelIsPassedOn, HeardIsTheChildsEnd, Outcomes

LEMMA PromisesHold ==
  Spec => []Promises
BY PromisesBegin, PromisesInductive, Invariance, PTL DEF Spec

\* A terminate leaves no active child below a run that it has ended, however many
\* runs are started and continued while it waits for its locks.
THEOREM TerminateTakesTheSubtree ==
  Spec => []TerminateReachesSubtree
<1>1. Promises => TerminateReachesSubtree
  BY DEF Promises
<1>2. QED
  BY <1>1, PromisesHold, PTL

\* A run that ends as cancelled has sent its cancel to every child still active,
\* whatever the child does with it and however often it continues as new.
THEOREM CancelReachesChildren ==
  Spec => []CancelIsPassedOn
<1>1. Promises => CancelIsPassedOn
  BY DEF Promises
<1>2. QED
  BY <1>1, PromisesHold, PTL

\* A parent's history never says of a child what did not become of it, and nothing
\* more of a child that it has given up.
THEOREM HistoryTellsTheChildsEnd ==
  Spec => []HeardIsTheChildsEnd
<1>1. Promises => HeardIsTheChildsEnd
  BY DEF Promises
<1>2. QED
  BY <1>1, PromisesHold, PTL

(***************************************************************************)
(* A parent that waits, waits for an open child, if no function calls one  *)
(* key twice.                                                              *)
(***************************************************************************)

\* The wait of a run for a child.
Awaits(r, c) == runs[r].status = "waiting" /\ runs[r].call = c

\* What a wait keeps to in a step: the child is open as before, or it is a wait for
\* a child that the step has left open.
LEMMA WaitsKept ==
  ASSUME IInv, IInv', WaitsForOpenChild,
         \A r \in Runs, c \in Instances : Awaits(r, c)' =>
           \/ /\ children'[c].status = "active"
              /\ children'[c].waitFailed = FALSE
              /\ children'[c].continuations < MaxContinuationFollowDepth
           \/ Awaits(r, c) /\ children'[c] = children[c]
  PROVE  WaitsForOpenChild'
<1>1. ASSUME NEW r \in Runs, NEW c \in Instances, Awaits(r, c)'
      PROVE  /\ children'[c].parent = r
             /\ children'[c].status = "active"
             /\ ~children'[c].waitFailed
             /\ children'[c].continuations < MaxContinuationFollowDepth
             /\ IsOpen(Current(c))'
  <2>1. children'[c].parent = r
    BY <1>1 DEF IInv, Family, CallsAreChildren, Awaits
  <2>2. /\ children'[c].status = "active"
        /\ ~children'[c].waitFailed
        /\ children'[c].continuations < MaxContinuationFollowDepth
    BY <1>1 DEF WaitsForOpenChild, Awaits
  <2>3. c \notin Roots
    BY <2>2 DEF IInv, Family, RelationshipsHaveRuns
  <2>4. IsOpen(Current(c))'
    BY <2>2, <2>3 DEF IInv, Family, RelationshipFollowsChild
  <2>5. QED
    BY <2>1, <2>2, <2>4
<1>2. QED
  BY <1>1 DEF WaitsForOpenChild, IsOpen, Current, Awaits

\* A wait that was there before the step.
LEMMA WaitFacts ==
  ASSUME IInv, WaitsForOpenChild, NEW r \in Runs, NEW c \in Instances, Awaits(r, c)
  PROVE  /\ children[c].parent = r /\ children[c].status = "active" /\ children[c] \in Child
         /\ children[c].waitFailed = FALSE /\ children[c].continuations < MaxContinuationFollowDepth
         /\ Current(c) \in Runs /\ Current(c)[1] = c /\ IsOpen(Current(c))
         /\ runs[Current(c)].parent = r /\ r # None /\ c \notin Roots
<1>1. children[c] \in Child
  BY FieldTypes DEF IInv
<1>2. children[c].waitFailed \in BOOLEAN
  BY <1>1 DEF Child
<1>3. /\ children[c].parent = r /\ children[c].status = "active" /\ ~children[c].waitFailed
      /\ children[c].continuations < MaxContinuationFollowDepth /\ IsOpen(Current(c))
  BY DEF WaitsForOpenChild, Awaits
<1>4. Current(c) \in Runs /\ Current(c)[1] = c /\ c \notin Roots /\ r # None
  BY <1>3, FamilyFacts DEF Current
<1>5. runs[Current(c)].parent = r
  BY <1>3, <1>4, OpenIsCurrent
<1>6. QED
  BY <1>1, <1>2, <1>3, <1>4, <1>5

LEMMA WaitingKeepsWaits ==
  ASSUME "repeatsKey" \notin Habits, IInv, IInv', WaitsForOpenChild, NEW w \in Workers,
         WaitAgain(w) \/ AwaitSignal(w) \/ Quarantine(w)
  PROVE  WaitsForOpenChild'
<1>1. /\ worker[w].pc = "locked" /\ (children' = children \/ children' = Heard(w))
      /\ \A q \in Runs \ {Mine(w)} : runs'[q] = runs[q]
  BY WaitingCommits
<1>2. runs'[Mine(w)].status = "waiting" /\ runs'[Mine(w)].call \in Instances =>
        children' = children /\ worker[w].answer = "none" /\ runs'[Mine(w)].call = runs[Mine(w)].call
  <2>1. ~\E c \in Instances : AttachChild(w, c)
    BY DEF AttachChild
  <2>2. QED
    BY <2>1, WaitingCommits
<1>3. ASSUME NEW r \in Runs, NEW c \in Instances, Awaits(r, c)'
      PROVE  \/ /\ children'[c].status = "active"
                /\ children'[c].waitFailed = FALSE
                /\ children'[c].continuations < MaxContinuationFollowDepth
             \/ Awaits(r, c) /\ children'[c] = children[c]
  <2>1. CASE r # Mine(w)
    <3>1. Awaits(r, c)
      BY <1>1, <1>3, <2>1 DEF Awaits
    <3>2. children[c].parent = r
      BY <3>1, WaitFacts
    <3>3. children'[c] = children[c]
      BY <1>1, <2>1, <3>2, CommitFacts
    <3>4. QED
      BY <3>1, <3>3
  <2>2. CASE r = Mine(w)
    <3>1. children' = children /\ worker[w].answer = "none" /\ runs[r].call = c
      BY <1>2, <1>3, <2>2 DEF Awaits
    <3>2. children[c] \in Child /\ children[c].parent = r /\ r # None
      BY <1>1, <2>2, <3>1, FieldTypes, RunNames DEF IInv, Family, CallsAreChildren
    <3>3. children[c].status # "none"
      BY <3>2 DEF IInv, Family, RelationshipsHaveRuns, NoChild
    <3>4. Answer(c) = "none"
      BY <1>1, <2>2, <3>1 DEF IInv, ViewsAreCurrent, ViewIsCurrent, AnswerTo
    <3>5. ~WaitFailed(c) /\ children[c].status \notin Outcomes
      BY <3>4 DEF Answer, Outcomes
    <3>6. children[c].status = "active"
      BY <3>2, <3>3, <3>5 DEF Child
    <3>7. children[c].waitFailed = FALSE /\ children[c].continuations < MaxContinuationFollowDepth
      BY <3>2, <3>5, Limits DEF WaitFailed, Child
    <3>8. QED
      BY <3>1, <3>6, <3>7
  <2>3. QED
    BY <2>1, <2>2
<1>4. QED
  BY <1>3, WaitsKept

LEMMA EndingKeepsWaits ==
  ASSUME IInv, IInv', WaitsForOpenChild, NEW w \in Workers,
         CancelledRun(w) \/ \E outcome \in {"completed", "failed"} : EndRun(w, outcome)
  PROVE  WaitsForOpenChild'
<1>1. worker[w].pc = "locked"
  BY EndingCommits
<1>2. PICK outcome \in {"completed", "failed", "cancelled"} :
        \E rows \in [Runs -> Run] : EndsRun(w, outcome, rows)
  BY EndingCommits
<1>3. PICK rows \in [Runs -> Run] : EndsRun(w, outcome, rows)
  BY <1>2
<1>4. ASSUME NEW r \in Runs, NEW c \in Instances, Awaits(r, c)'
      PROVE  Awaits(r, c) /\ children'[c] = children[c]
  <2>1. r # Mine(w)
    BY <1>1, <1>3, <1>4, EndsRunEffect DEF Awaits
  <2>2. Awaits(r, c)
    BY <1>1, <1>3, <1>4, <2>1, EndsRunEffect DEF Awaits
  <2>3. /\ children[c].parent = r /\ children[c].waitFailed = FALSE /\ Current(c)[1] = c
        /\ runs[Current(c)].parent = r /\ r # None
    BY <2>2, WaitFacts, ZenonT(180)
  <2>4. Heard(w)[c] = children[c]
    BY <1>1, <2>1, <2>3, CommitFacts
  <2>5. Current(c) # Mine(w)
    <3>1. SUFFICES ASSUME Current(c) = Mine(w)
                   PROVE  FALSE
      OBVIOUS
    <3>2. runs[Mine(w)].parent = r /\ Mine(w)[1] = c /\ runs[Mine(w)].parent # None
      BY <2>3, <3>1
    <3>3. children[c].waitFailed \/ runs[r].call # c \/ runs'[r].status # "waiting"
      BY <1>1, <1>3, <3>2, EndsRunEffect
    <3>4. QED
      BY <1>4, <2>2, <2>3, <3>3 DEF Awaits
  <2>6. QED
    BY <1>1, <1>3, <2>2, <2>4, <2>5, EndsRunEffect
<1>5. QED
  BY <1>4, WaitsKept

LEMMA StartingKeepsWaits ==
  ASSUME IInv, IInv', WaitsForOpenChild, NEW w \in Workers, NEW c \in Instances, StartChild(w, c)
  PROVE  WaitsForOpenChild'
<1>1. Starts(w, c)
  BY ChildStarts
<1>2. /\ worker[w].pc = "locked" /\ children[c].status = "none"
      /\ runs'[Mine(w)].call = c /\ runs'[First(c)].status = "queued"
      /\ \A q \in Runs : q # Mine(w) /\ q # First(c) => runs'[q] = runs[q]
      /\ children'[c].status = "active"
      /\ children'[c].continuations = 0 /\ children'[c].waitFailed = FALSE
      /\ \A d \in Instances : d # c => children'[d] = Heard(w)[d]
  BY <1>1 DEF Starts
<1>3. ASSUME NEW r \in Runs, NEW d \in Instances, Awaits(r, d)'
      PROVE  \/ /\ children'[d].status = "active"
                /\ children'[d].waitFailed = FALSE
                /\ children'[d].continuations < MaxContinuationFollowDepth
             \/ Awaits(r, d) /\ children'[d] = children[d]
  <2>1. CASE r = Mine(w)
    BY <1>2, <1>3, <2>1, Limits DEF Awaits
  <2>2. CASE r # Mine(w)
    <3>1. Awaits(r, d)
      BY <1>2, <1>3, <2>2 DEF Awaits
    <3>2. children[d].parent = r /\ children[d].status = "active"
      BY <3>1, WaitFacts
    <3>3. Heard(w)[d] = children[d]
      BY <1>2, <2>2, <3>2, CommitFacts
    <3>4. QED
      BY <1>2, <3>1, <3>2, <3>3
  <2>3. QED
    BY <2>1, <2>2
<1>4. QED
  BY <1>3, WaitsKept

LEMMA ContinuingKeepsWaits ==
  ASSUME IInv, IInv', WaitsForOpenChild, NEW w \in Workers, ContinueAsNew(w)
  PROVE  WaitsForOpenChild'
<1> DEFINE m == Mine(w)
           s == Successor(m)
<1>1. /\ worker[w].pc = "locked"
      /\ runs'[m].status = "continued_as_new" /\ runs'[s].status = "queued"
      /\ \A q \in Runs : q # m /\ q # s =>
              /\ runs'[q].call = runs[q].call
              /\ \/ runs'[q].status = runs[q].status
                 \/ runs[q].status = "waiting" /\ runs'[q].status = "queued"
      /\ \A d \in Instances : d # m[1] \/ runs[m].parent = None => children'[d] = Heard(w)[d]
      /\ runs[m].parent # None =>
              /\ children[m[1]].status = "active"
              /\ children[m[1]].parent = runs[m].parent
              /\ children'[m[1]] = Followed(children[m[1]])
              /\ \/ children'[m[1]].continuations < MaxContinuationFollowDepth
                 \/ children[m[1]].waitFailed
                 \/ runs[runs[m].parent].call # m[1]
                 \/ runs'[runs[m].parent].status # "waiting"
  BY RunContinues
<1>2. ASSUME NEW r \in Runs, NEW d \in Instances, Awaits(r, d)'
      PROVE  \/ /\ children'[d].status = "active"
                /\ children'[d].waitFailed = FALSE
                /\ children'[d].continuations < MaxContinuationFollowDepth
             \/ Awaits(r, d) /\ children'[d] = children[d]
  <2>1. r # m /\ r # s /\ Awaits(r, d)
    BY <1>1, <1>2 DEF Awaits
  <2>2. /\ children[d].parent = r /\ children[d].waitFailed = FALSE /\ children[d].status = "active"
        /\ children[d] \in Child
    BY <2>1, WaitFacts, ZenonT(180)
  <2>3. Heard(w)[d] = children[d]
    BY <1>1, <2>1, <2>2, CommitFacts
  <2>4. CASE d # m[1] \/ runs[m].parent = None
    BY <1>1, <2>1, <2>3, <2>4
  <2>5. CASE d = m[1] /\ runs[m].parent # None
    <3>1. children'[d] = Followed(children[d]) /\ runs[m].parent = r
      BY <1>1, <2>2, <2>5
    <3>2. children'[d].continuations < MaxContinuationFollowDepth
      BY <1>1, <1>2, <2>1, <2>2, <2>5, <3>1 DEF Awaits
    <3>3. children[d].current < MaxNumber
      <4>1. m \in Runs /\ IsOpen(m) /\ m[2] < MaxNumber
        BY <1>1, LockedRun DEF ContinueAsNew
      <4>2. m = Current(d)
        BY <2>1, <4>1, <2>5, OpenIsCurrent, WaitFacts
      <4>3. QED
        BY <4>1, <4>2 DEF Current
    <3>4. children'[d].status = "active" /\ children'[d].waitFailed = FALSE
      BY <2>2, <3>1, <3>3, FollowedType
    <3>5. QED
      BY <3>2, <3>4
  <2>6. QED
    BY <2>4, <2>5
<1>3. QED
  BY <1>2, WaitsKept

LEMMA TerminatingKeepsWaits ==
  ASSUME IInv, IInv', WaitsForOpenChild, NEW k \in Clients, CommitTerminate(k)
  PROVE  WaitsForOpenChild'
<1> DEFINE ended == client[k].subtree
           t == client[k].target
<1>1. RequestDescends(k) /\ client[k].pc = "descending"
  BY DEF IInv, Requests, CommitTerminate
<1>2. /\ \A q \in Runs :
           /\ runs'[q].call = runs[q].call
           /\ q \in ended => runs'[q].status = "terminated"
           /\ q \notin ended => runs'[q].status = runs[q].status \/ runs'[q].status = "queued"
      /\ \A c \in Instances : Current(c) \notin ended => children'[c] = children[c]
      /\ runs[t].parent # None =>
           \/ children[t[1]].waitFailed
           \/ runs[runs[t].parent].call # t[1]
           \/ runs'[runs[t].parent].status # "waiting"
  BY TerminateEffect
<1>3. ASSUME NEW r \in Runs, NEW c \in Instances, Awaits(r, c)'
      PROVE  Awaits(r, c) /\ children'[c] = children[c]
  <2>1. r \notin ended /\ Awaits(r, c)
    BY <1>2, <1>3 DEF Awaits
  <2>2. /\ children[c].waitFailed = FALSE /\ Current(c)[1] = c
        /\ runs[Current(c)].parent = r /\ r # None
    BY <2>1, WaitFacts, ZenonT(180)
  <2>3. Current(c) # t
    BY <1>2, <1>3, <2>1, <2>2 DEF Awaits
  <2>4. Current(c) \notin ended
    BY <1>1, <2>1, <2>2, <2>3 DEF RequestDescends
  <2>5. QED
    BY <1>2, <2>1, <2>4
<1>4. QED
  BY <1>3, WaitsKept

LEMMA OtherStepsKeepWaits ==
  ASSUME IInv, IInv', WaitsForOpenChild, UNCHANGED children,
         \A q \in Runs : runs'[q] = runs[q] \/ runs'[q].status # "waiting"
  PROVE  WaitsForOpenChild'
<1>1. \A r \in Runs, c \in Instances :
        Awaits(r, c)' => Awaits(r, c) /\ children'[c] = children[c]
  BY DEF Awaits
<1>2. QED
  BY <1>1, WaitsKept

LEMMA WaitsInductive ==
  ASSUME "repeatsKey" \notin Habits
  PROVE  IInv /\ IInv' /\ WaitsForOpenChild /\ [Next]_vars => WaitsForOpenChild'
<1> SUFFICES ASSUME IInv, IInv', WaitsForOpenChild, [Next]_vars
             PROVE  WaitsForOpenChild'
  OBVIOUS
<1>1. ASSUME NEW w \in Workers, Progress(w)
      PROVE  WaitsForOpenChild'
  <2>1. CASE LockParent(w) \/ LockRun(w) \/ HearChild(w) \/ ReceiveSignal(w) \/ RefuseChild(w)
    BY <2>1, OtherStepsKeepWaits DEF LockParent, LockRun, HearChild, ReceiveSignal, RefuseChild
  <2>2. CASE WaitAgain(w) \/ AwaitSignal(w) \/ Quarantine(w)
    BY <2>2, WaitingKeepsWaits
  <2>3. CASE CancelledRun(w) \/ \E outcome \in {"completed", "failed"} : EndRun(w, outcome)
    BY <2>3, EndingKeepsWaits
  <2>4. CASE \E c \in Instances : StartChild(w, c)
    BY <2>4, StartingKeepsWaits
  <2>5. CASE ContinueAsNew(w)
    BY <2>5, ContinuingKeepsWaits
  <2>6. ~\E c \in Instances : AttachChild(w, c)
    BY DEF AttachChild
  <2>7. QED
    BY <1>1, <2>1, <2>2, <2>3, <2>4, <2>5, <2>6 DEF Progress, Commit
<1>2. ASSUME NEW w \in Workers, Crash(w)
      PROVE  WaitsForOpenChild'
  BY <1>2, OtherStepsKeepWaits DEF Crash
<1>3. ASSUME NEW w \in Workers, NEW r \in Runs, Claim(w, r)
      PROVE  WaitsForOpenChild'
  BY <1>3, ClaimSteps, OtherStepsKeepWaits
<1>4. ASSUME NEW r \in Runs, SignalRun(r) \/ CancelRun(r)
      PROVE  WaitsForOpenChild'
  BY <1>4, InboxRequests, OtherStepsKeepWaits
<1>5. ASSUME NEW k \in Clients, Request(k) \/ \E r \in Runs : BeginTerminate(k, r)
      PROVE  WaitsForOpenChild'
  <2>1. CASE CommitTerminate(k)
    BY <2>1, TerminatingKeepsWaits
  <2>2. CASE ~CommitTerminate(k)
    <3>1. UNCHANGED <<runs, children>>
      BY <1>5, <2>2, ZenonT(60) DEF Request, BeginTerminate, TerminateLocksParent, TerminateLocksTarget,
                        ListChildren, LockDescendant
    <3>2. QED
      BY <3>1, OtherStepsKeepWaits
  <2>3. QED
    BY <2>1, <2>2
<1>6. CASE UNCHANGED vars
  BY <1>6, OtherStepsKeepWaits DEF vars
<1>7. QED
  BY <1>1, <1>2, <1>3, <1>4, <1>5, <1>6 DEF Next

\* A parent never sleeps through its child's end, its last continuation or its
\* termination, in whatever order parent and child commit, as long as no function
\* calls one child key a second time in one run.
THEOREM NoWakeIsLost ==
  ASSUME "repeatsKey" \notin Habits
  PROVE  Spec => []WaitsForOpenChild
<1>1. Init => WaitsForOpenChild
  BY DEF Init, NewRun, NoRun, WaitsForOpenChild
<1>2. IInv /\ IInv' /\ WaitsForOpenChild /\ [Next]_vars => WaitsForOpenChild'
  BY WaitsInductive
<1>3. QED
  BY <1>1, <1>2, Invariance, PTL DEF Spec

=============================================================================

------------------------ MODULE IngestBatchesProofs -------------------------
(***************************************************************************)
(* Theorems about IngestBatches, for any batches, traces, requests, limits *)
(* and bounds on the environment.                                          *)
(***************************************************************************)
EXTENDS IngestBatchesProperties, TLAPS

Writes(p) == tx[p].stage \in {"locking", "committing"}
Working == {"loading", "locking", "committing", "requeueing", "failing"}

\* A request that writes has claimed its batch key alone, and the batch is not there yet.
ClientsAgree ==
    /\ \A c \in Clients :
          /\ tx[c].stage \in {"idle", "claiming", "locking", "committing"}
          /\ tx[c].stage # "idle" => tx[c].key \in Keys
          /\ Writes(c) => batch[tx[c].key].status = "none"
    /\ \A c, d \in Clients : Writes(c) /\ Writes(d) /\ tx[c].key = tx[d].key => c = d

\* A job works on a batch that is being processed, and returns when it has ended.
JobAgrees(k) ==
    /\ tx[k].stage # "claiming"
    /\ tx[k].stage # "idle" => tx[k].key = k /\ job[k] = "running"
    /\ tx[k].stage \in Working => batch[k].status = "processing"
    /\ tx[k].stage = "unsure" => batch[k].status \in {"processing", "completed"}
    /\ tx[k].stage = "returning" => batch[k].status \in Finished
    /\ batch[k].status = "none" => job[k] = "none"
JobsAgree == \A k \in Keys : JobAgrees(k)

\* The traces that a transaction has locked are the lowest of those it refers to.
LocksAgree ==
    \A p \in Processes :
        /\ ~Writes(p) => tx[p].locked = {}
        /\ tx[p].locked \subseteq Refers[tx[p].key]
        /\ \A s \in tx[p].locked, t \in Refers[tx[p].key] \ tx[p].locked : Rank[s] < Rank[t]
        /\ \A t \in tx[p].locked : t \in Defines[tx[p].key] \/ trace[t].exists

TracesAgree ==
    \A t \in Traces :
        /\ trace[t].spans # {} => trace[t].exists
        /\ trace[t].exists => \E k \in trace[t].spans : t \in Defines[k]

RollupsAgree ==
    \A t \in Traces : rollup[t].stage \in {"read", "computed", "updated"} => rollup[t].loops < MaxRollupLoops

\* The inductive invariant.
Inv ==
    /\ TypeOK /\ ClientsAgree /\ JobsAgree /\ LocksAgree /\ TracesAgree /\ RollupsAgree
    /\ WrittenWithItsCompletion /\ AcceptedIsRunnable

---------------------------------------------------------------------------
LEMMA IdleType == Idle \in Transaction /\ Idle.stage = "idle" /\ Idle.locked = {}
BY Limits DEF Idle, Transaction, Stages

LEMMA InitInv == Init => Inv
<1> SUFFICES ASSUME Init
             PROVE  Inv
  OBVIOUS
<1>1. NoRollup \in Rollup
  BY Limits DEF NoRollup, Rollup, JobStates
<1>2. TypeOK
  BY <1>1, IdleType, AllowedBudget DEF Init, TypeOK, Batch, BatchStatuses, Trace, JobStates
<1>3. ClientsAgree /\ JobsAgree /\ LocksAgree
  BY IdleType DEF Init, ClientsAgree, JobsAgree, JobAgrees, LocksAgree, Writes, Working, Finished, Processes
<1>4. TracesAgree /\ RollupsAgree
  BY DEF Init, TracesAgree, RollupsAgree, NoRollup
<1>5. WrittenWithItsCompletion /\ AcceptedIsRunnable
  BY DEF Init, WrittenWithItsCompletion, AcceptedIsRunnable
<1>6. QED
  BY <1>2, <1>3, <1>4, <1>5 DEF Inv

LEMMA SpendType ==
  ASSUME TypeOK, NEW kind \in BudgetKinds, Spend(kind)
  PROVE  budget' \in [BudgetKinds -> Nat]
BY DEF Spend, TypeOK

\* A step that changes what one process does.
LEMMA ProcessUpdate ==
  ASSUME TypeOK, NEW p \in Processes, NEW r \in Transaction, tx' = [tx EXCEPT ![p] = r]
  PROVE  /\ tx' \in [Processes -> Transaction]
         /\ tx'[p] = r
         /\ \A q \in Processes : q # p => tx'[q] = tx[q]
BY DEF TypeOK

LEMMA IdleUpdate ==
  ASSUME TypeOK, NEW p \in Processes, tx' = [tx EXCEPT ![p] = Idle]
  PROVE  /\ tx' \in [Processes -> Transaction]
         /\ tx'[p].stage = "idle" /\ tx'[p].locked = {}
         /\ \A q \in Processes : q # p => tx'[q] = tx[q]
BY IdleType, ProcessUpdate

LEMMA MoveUpdate ==
  ASSUME TypeOK, NEW p \in Processes, NEW stage \in Stages, Move(p, stage)
  PROVE  /\ tx' \in [Processes -> Transaction]
         /\ tx'[p].stage = stage /\ tx'[p].key = tx[p].key /\ tx'[p].locked = tx[p].locked
         /\ \A q \in Processes : q # p => tx'[q] = tx[q]
<1> DEFINE r == [tx[p] EXCEPT !.stage = stage]
<1>1. tx[p] \in Transaction
  BY DEF TypeOK
<1>2. r \in Transaction /\ r.stage = stage /\ r.key = tx[p].key /\ r.locked = tx[p].locked
  BY <1>1 DEF Transaction
<1>3. tx' = [tx EXCEPT ![p] = r]
  BY DEF Move
<1>4. QED
  BY <1>2, <1>3, ProcessUpdate

LEMMA RollBackUpdate ==
  ASSUME TypeOK, NEW p \in Processes, NEW stage \in Stages, RollBack(p, stage)
  PROVE  /\ tx' \in [Processes -> Transaction]
         /\ tx'[p].stage = stage /\ tx'[p].key = tx[p].key /\ tx'[p].locked = {}
         /\ \A q \in Processes : q # p => tx'[q] = tx[q]
<1> DEFINE r == [tx[p] EXCEPT !.stage = stage, !.locked = {}, !.enqueued = {}]
<1>1. tx[p] \in Transaction
  BY DEF TypeOK
<1>2. r \in Transaction /\ r.stage = stage /\ r.key = tx[p].key /\ r.locked = {}
  BY <1>1 DEF Transaction
<1>3. tx' = [tx EXCEPT ![p] = r]
  BY DEF RollBack
<1>4. QED
  BY <1>2, <1>3, ProcessUpdate

\* A process whose step locks nothing new keeps the order of the locks.
LEMMA LocksFrame ==
  ASSUME Inv, NEW p \in Processes,
         \A q \in Processes : q # p => tx'[q] = tx[q],
         \/ tx'[p].locked = {}
         \/ Writes(p)' /\ tx'[p].locked = tx[p].locked /\ tx'[p].key = tx[p].key,
         \A t \in Traces : trace[t].exists => trace'[t].exists
  PROVE  LocksAgree'
<1>1. \A q \in Processes : tx[q].locked \subseteq Traces
  BY DEF Inv, TypeOK, Transaction
<1>2. QED
  BY <1>1 DEF Inv, LocksAgree, Writes

\* A request's step that stores nothing: it claims a key only alone.
LEMMA ClientFrame ==
  ASSUME Inv, NEW c \in Clients,
         tx' \in [Processes -> Transaction],
         \A q \in Processes : q # c => tx'[q] = tx[q],
         tx'[c].stage \in {"idle", "claiming", "locking", "committing"},
         tx'[c].stage # "idle" => tx'[c].key \in Keys,
         Writes(c)' =>
            \/ Writes(c) /\ tx'[c].key = tx[c].key
            \/ Inserted(tx'[c].key) /\ ~ClaimPending(tx'[c].key),
         UNCHANGED <<batch, payload, job, trace, rollup>>,
         budget' \in [BudgetKinds -> Nat],
         LocksAgree'
  PROVE  Inv'
<1>1. TypeOK'
  BY DEF Inv, TypeOK
<1>2. ClientsAgree'
  <2>1. Clients \subseteq Processes
    BY DEF Processes
  <2>2. QED
    BY <2>1 DEF Inv, ClientsAgree, Writes, Inserted, ClaimPending
<1>3. JobsAgree'
  <2>1. \A k \in Keys : tx'[k] = tx[k]
    BY NamesAreDistinct DEF Processes
  <2>2. QED
    BY <2>1 DEF Inv, JobsAgree, JobAgrees
<1>4. TracesAgree' /\ RollupsAgree' /\ WrittenWithItsCompletion' /\ AcceptedIsRunnable'
  BY DEF Inv, TracesAgree, RollupsAgree, WrittenWithItsCompletion, AcceptedIsRunnable
<1>5. QED
  BY <1>1, <1>2, <1>3, <1>4 DEF Inv

\* A job's step that does not commit its batch: it goes on, queues or fails it.
LEMMA JobFrame ==
  ASSUME Inv, NEW k \in Keys,
         tx' \in [Processes -> Transaction],
         \A q \in Processes : q # k => tx'[q] = tx[q],
         job' \in [Keys -> JobStates],
         \A j \in Keys : j # k => job'[j] = job[j],
         batch' \in [Keys -> Batch],
         \A j \in Keys : j # k => batch'[j] = batch[j],
         batch'[k].written = batch[k].written,
         batch[k].status # "none", batch'[k].status # "none",
         batch'[k].status = "completed" <=> batch[k].status = "completed",
         batch'[k].status \in {"queued", "processing"} =>
            batch[k].status \in {"queued", "processing"} /\ job'[k] # "none",
         JobAgrees(k)',
         UNCHANGED <<payload, trace, rollup>>,
         budget' \in [BudgetKinds -> Nat],
         LocksAgree'
  PROVE  Inv'
<1>1. TypeOK'
  BY DEF Inv, TypeOK
<1>2. ClientsAgree'
  <2>1. \A c \in Clients : tx'[c] = tx[c]
    BY NamesAreDistinct DEF Processes
  <2>2. QED
    BY <2>1 DEF Inv, ClientsAgree, Writes
<1>3. JobsAgree'
  <2>1. Keys \subseteq Processes
    BY DEF Processes
  <2>2. QED
    BY <2>1 DEF Inv, JobsAgree, JobAgrees
<1>4. TracesAgree' /\ RollupsAgree'
  BY DEF Inv, TracesAgree, RollupsAgree
<1>5. WrittenWithItsCompletion'
  BY DEF Inv, WrittenWithItsCompletion
<1>6. AcceptedIsRunnable'
  BY DEF Inv, AcceptedIsRunnable
<1>7. QED
  BY <1>1, <1>2, <1>3, <1>4, <1>5, <1>6 DEF Inv

\* Where a job's transaction is, its batch is being processed.
LEMMA JobFacts ==
  ASSUME Inv, NEW k \in Keys, tx[k].stage # "idle"
  PROVE  /\ k \in Processes /\ k \notin Clients /\ tx[k].key = k /\ job[k] = "running"
         /\ batch[k] \in Batch /\ batch[k].status # "none"
         /\ tx[k].stage \in Working => batch[k].status = "processing"
BY NamesAreDistinct DEF Inv, JobsAgree, JobAgrees, Processes, TypeOK

LEMMA BatchUpdate ==
  ASSUME Inv, NEW k \in Keys, NEW status \in BatchStatuses, MarkBatch(k, status)
  PROVE  /\ batch' \in [Keys -> Batch]
         /\ batch'[k].status = status /\ batch'[k].written = batch[k].written
         /\ \A j \in Keys : j # k => batch'[j] = batch[j]
<1> DEFINE b == [batch[k] EXCEPT !.status = status]
<1>1. batch[k] \in Batch
  BY DEF Inv, TypeOK
<1>2. b \in Batch /\ b.status = status /\ b.written = batch[k].written
  BY <1>1 DEF Batch
<1>3. batch' = [batch EXCEPT ![k] = b]
  BY DEF MarkBatch
<1>4. QED
  BY <1>2, <1>3 DEF Inv, TypeOK

\* A rollback, or a step into another stage.
LEMMA JobMoves ==
  ASSUME Inv, NEW k \in Keys, tx[k].stage \in Working,
         NEW stage \in Stages \ {"idle", "claiming", "unsure", "returning"},
         \/ RollBack(k, stage)
         \/ Move(k, stage) /\ (tx[k].locked = {} \/ stage \in {"locking", "committing"}),
         UNCHANGED <<batch, payload, job, trace, rollup>>,
         budget' \in [BudgetKinds -> Nat]
  PROVE  Inv'
<1>1. tx[k].stage # "idle"
  BY DEF Working
<1>2. TypeOK /\ k \in Processes /\ tx[k].key = k /\ job[k] = "running" /\ batch[k].status = "processing"
  BY <1>1, JobFacts DEF Inv
<1>3. /\ tx' \in [Processes -> Transaction]
      /\ tx'[k].stage = stage /\ tx'[k].key = k
      /\ \/ tx'[k].locked = {}
         \/ tx'[k].locked = tx[k].locked /\ Writes(k)'
      /\ \A q \in Processes : q # k => tx'[q] = tx[q]
  <2>1. CASE RollBack(k, stage)
    BY <1>2, <2>1, RollBackUpdate
  <2>2. CASE Move(k, stage) /\ (tx[k].locked = {} \/ stage \in {"locking", "committing"})
    BY <1>2, <2>2, MoveUpdate DEF Writes
  <2>3. QED
    BY <2>1, <2>2
<1>4. LocksAgree'
  BY <1>2, <1>3, LocksFrame
<1>5. JobAgrees(k)'
  BY <1>2, <1>3 DEF JobAgrees, Stages, Working
<1>6. batch \in [Keys -> Batch] /\ job \in [Keys -> JobStates]
  BY DEF Inv, TypeOK
<1>7. QED
  BY <1>2, <1>3, <1>4, <1>5, <1>6, JobFrame

---------------------------------------------------------------------------
LEMMA RequestSteps ==
  ASSUME Inv, NEW c \in Clients, (\E k \in Keys : Ingest(c, k)) \/ IngestAgain(c)
  PROVE  Inv'
<1>1. TypeOK /\ c \in Processes
  BY DEF Inv, Processes
<1>2. CASE \E k \in Keys : Ingest(c, k)
  <2>1. PICK k \in Keys : Ingest(c, k)
    BY <1>2
  <2> DEFINE r == [Idle EXCEPT !.stage = "locking", !.key = k, !.attempt = 1]
  <2>2. r \in Transaction /\ r.stage = "locking" /\ r.key = k /\ r.locked = {}
    <3>1. 1 \in 0..ConflictAttempts
      BY Limits
    <3>2. QED
      BY <3>1, IdleType DEF Transaction, Stages
  <2>3. tx' = [tx EXCEPT ![c] = r]
    BY <2>1 DEF Ingest
  <2> HIDE DEF r
  <2>4. /\ tx' \in [Processes -> Transaction] /\ tx'[c] = r
        /\ \A q \in Processes : q # c => tx'[q] = tx[q]
    BY <1>1, <2>2, <2>3, ProcessUpdate
  <2>5. LocksAgree'
    BY <1>1, <2>1, <2>2, <2>4, LocksFrame DEF Ingest
  <2>6. QED
    BY <1>1, <2>1, <2>2, <2>4, <2>5, ClientFrame DEF Ingest, TypeOK
<1>3. CASE IngestAgain(c)
  <2>1. tx[c].key \in Keys /\ tx[c].locked = {}
    BY <1>1, <1>3 DEF IngestAgain, Inv, ClientsAgree, LocksAgree, Writes
  <2>2. /\ tx' \in [Processes -> Transaction]
        /\ tx'[c].locked = {}
        /\ \/ tx'[c].stage = "idle"
           \/ tx'[c].stage = "locking" /\ tx'[c].key = tx[c].key /\ Inserted(tx[c].key)
        /\ \A q \in Processes : q # c => tx'[q] = tx[q]
    <3>1. CASE Inserted(tx[c].key)
      <4>1. Move(c, "locking") /\ "locking" \in Stages
        BY <1>3, <3>1 DEF IngestAgain, Stages
      <4>2. QED
        BY <1>1, <2>1, <3>1, <4>1, MoveUpdate
    <3>2. CASE ~Inserted(tx[c].key)
      BY <1>1, <1>3, <3>2, IdleUpdate DEF IngestAgain
    <3>3. QED
      BY <3>1, <3>2
  <2>3. LocksAgree'
    BY <1>1, <1>3, <2>2, LocksFrame DEF IngestAgain
  <2>4. QED
    BY <1>1, <1>3, <2>1, <2>2, <2>3, ClientFrame DEF IngestAgain, Writes, TypeOK
<1>4. QED
  BY <1>2, <1>3

LEMMA AcceptStep ==
  ASSUME Inv, NEW c \in Clients, NEW k \in Keys, AcceptAsync(c, k)
  PROVE  Inv'
<1>1. /\ batch' \in [Keys -> Batch]
      /\ batch'[k].status = "queued" /\ batch'[k].written = batch[k].written
      /\ \A j \in Keys : j # k => batch'[j] = batch[j]
  BY BatchUpdate DEF AcceptAsync, BatchStatuses
<1>2. /\ job' \in [Keys -> JobStates] /\ job'[k] = "available"
      /\ \A j \in Keys : j # k => job'[j] = job[j]
  BY DEF AcceptAsync, Inv, TypeOK, JobStates
<1>3. batch[k].status = "none" /\ ~ClaimPending(k)
  BY DEF AcceptAsync, Inserted
<1>4. TypeOK'
  BY <1>1, <1>2 DEF AcceptAsync, Inv, TypeOK
<1>5. ClientsAgree'
  BY <1>1, <1>3 DEF AcceptAsync, Inv, ClientsAgree, Writes, ClaimPending
<1>6. JobsAgree'
  BY <1>1, <1>2, <1>3 DEF AcceptAsync, Inv, JobsAgree, JobAgrees, Working, Finished
<1>7. LocksAgree' /\ TracesAgree' /\ RollupsAgree'
  BY DEF AcceptAsync, Inv, LocksAgree, TracesAgree, RollupsAgree, Writes
<1>8. WrittenWithItsCompletion'
  BY <1>1, <1>3 DEF Inv, WrittenWithItsCompletion
<1>9. AcceptedIsRunnable'
  BY <1>1, <1>2 DEF AcceptAsync, Inv, AcceptedIsRunnable
<1>10. QED
  BY <1>4, <1>5, <1>6, <1>7, <1>8, <1>9 DEF Inv

---------------------------------------------------------------------------
(* The write path *)

\* A process that keeps its part of the invariant while it only changes its own
\* transaction, within the stages of the write path.
LEMMA WriterFrame ==
  ASSUME Inv, NEW p \in Processes, Writes(p),
         tx' \in [Processes -> Transaction],
         \A q \in Processes : q # p => tx'[q] = tx[q],
         tx'[p].stage \in {"locking", "committing"}, tx'[p].key = tx[p].key,
         UNCHANGED <<batch, payload, job, trace, rollup, budget>>,
         LocksAgree'
  PROVE  Inv'
<1>1. budget' \in [BudgetKinds -> Nat] /\ batch \in [Keys -> Batch] /\ job \in [Keys -> JobStates]
  BY DEF Inv, TypeOK
<1>2. CASE p \in Clients
  <2>1. tx[p].key \in Keys
    BY <1>2 DEF Inv, ClientsAgree, Writes
  <2>2. QED
    BY <1>1, <1>2, <2>1, ClientFrame
<1>3. CASE p \in Keys
  <2>1. tx[p].stage # "idle" /\ tx[p].stage \in Working
    BY DEF Writes, Working
  <2>2. tx[p].key = p /\ job[p] = "running" /\ batch[p].status = "processing"
    BY <1>3, <2>1, JobFacts
  <2>3. JobAgrees(p)'
    BY <2>2 DEF JobAgrees, Working
  <2>4. QED
    BY <1>1, <1>3, <2>2, <2>3, JobFrame
<1>4. QED
  BY <1>2, <1>3 DEF Processes

LEMMA LockStep ==
  ASSUME Inv, NEW p \in Processes, NEW t \in Traces, LockTrace(p, t)
  PROVE  Inv'
<1> DEFINE r == [tx[p] EXCEPT !.locked = @ \cup {t}]
<1>1. TypeOK /\ tx[p] \in Transaction /\ Writes(p)
  BY DEF Inv, TypeOK, LockTrace, Writes
<1>2. /\ r \in Transaction /\ r.stage = "locking" /\ r.key = tx[p].key
      /\ r.locked = tx[p].locked \cup {t}
  BY <1>1 DEF Transaction, LockTrace
<1>3. tx' = [tx EXCEPT ![p] = r]
  BY DEF LockTrace
<1> HIDE DEF r
<1>4. /\ tx' \in [Processes -> Transaction] /\ tx'[p] = r
      /\ \A q \in Processes : q # p => tx'[q] = tx[q]
  BY <1>1, <1>2, <1>3, ProcessUpdate
<1>5. LocksAgree'
  <2>1. tx[p].key \in Keys
    BY <1>1, JobFacts DEF Inv, ClientsAgree, Writes, Processes
  <2>2. Refers[tx[p].key] \subseteq Traces
    BY <2>1, BatchesAreTraces
  <2>3. \A s \in tx[p].locked, u \in Refers[tx[p].key] \ tx[p].locked : Rank[s] < Rank[u]
    BY DEF Inv, LocksAgree
  <2>4. \A u \in (Refers[tx[p].key] \ tx[p].locked) \ {t} : Rank[t] < Rank[u]
    BY <2>2, RankOrders DEF LockTrace, NextTrace
  <2>5. t \in Refers[tx[p].key] /\ (t \in Defines[tx[p].key] \/ trace[t].exists)
    BY DEF LockTrace, NextTrace, Missing
  <2>6. /\ tx[p].locked \subseteq Refers[tx[p].key]
        /\ \A u \in tx[p].locked : u \in Defines[tx[p].key] \/ trace[u].exists
    BY DEF Inv, LocksAgree
  <2>7. UNCHANGED trace
    BY DEF LockTrace
  <2>8. /\ Writes(p)' 
        /\ tx'[p].locked \subseteq Refers[tx'[p].key]
        /\ \A s \in tx'[p].locked, u \in Refers[tx'[p].key] \ tx'[p].locked : Rank[s] < Rank[u]
        /\ \A u \in tx'[p].locked : u \in Defines[tx'[p].key] \/ trace'[u].exists
    BY <1>2, <1>4, <2>3, <2>4, <2>5, <2>6, <2>7 DEF Writes
  <2>9. QED
    BY <1>4, <2>7, <2>8 DEF Inv, LocksAgree, Writes
<1>6. QED
  BY <1>1, <1>2, <1>4, <1>5, WriterFrame DEF LockTrace

LEMMA WriteStep ==
  ASSUME Inv, NEW p \in Processes, Write(p)
  PROVE  Inv'
<1> DEFINE r == [tx[p] EXCEPT !.stage = "committing",
                              !.enqueued = {t \in tx[p].locked : rollup[t].job = "none"}]
<1>1. TypeOK /\ tx[p] \in Transaction /\ Writes(p)
  BY DEF Inv, TypeOK, Write, Writes
<1>2. /\ r \in Transaction /\ r.stage = "committing" /\ r.key = tx[p].key
      /\ r.locked = tx[p].locked
  BY <1>1 DEF Transaction, Stages
<1>3. tx' = [tx EXCEPT ![p] = r]
  BY DEF Write
<1> HIDE DEF r
<1>4. /\ tx' \in [Processes -> Transaction] /\ tx'[p] = r
      /\ \A q \in Processes : q # p => tx'[q] = tx[q]
  BY <1>1, <1>2, <1>3, ProcessUpdate
<1>5. LocksAgree'
  BY <1>2, <1>4, LocksFrame DEF Write, Writes
<1>6. QED
  BY <1>1, <1>2, <1>4, <1>5, WriterFrame DEF Write

\* A request that gives up, and a job that goes back to the queue or fails.
LEMMA DependencyStep ==
  ASSUME Inv, NEW p \in Processes, NEW t \in Traces, DependencyNotReady(p, t)
  PROVE  Inv'
<1>1. TypeOK /\ budget' \in [BudgetKinds -> Nat]
  BY DEF Inv, TypeOK, DependencyNotReady
<1>2. CASE p \in Clients
  <2>1. tx' = [tx EXCEPT ![p] = Idle]
    BY <1>2 DEF DependencyNotReady
  <2>2. /\ tx' \in [Processes -> Transaction]
        /\ tx'[p].stage = "idle" /\ tx'[p].locked = {}
        /\ \A q \in Processes : q # p => tx'[q] = tx[q]
    BY <1>1, <2>1, IdleUpdate
  <2>3. LocksAgree'
    BY <2>2, LocksFrame DEF DependencyNotReady
  <2>4. QED
    BY <1>1, <1>2, <2>2, <2>3, ClientFrame DEF DependencyNotReady, Writes
<1>3. CASE p \in Keys
  <2>1. p \notin Clients
    BY <1>3, NamesAreDistinct
  <2>2. RollBack(p, IF batch[p].late THEN "failing" ELSE "requeueing")
    BY <2>1 DEF DependencyNotReady
  <2>3. tx[p].stage \in Working /\ {"failing", "requeueing"} \subseteq Stages
    BY DEF DependencyNotReady, Working, Stages
  <2>4. CASE batch[p].late
    BY <1>1, <1>3, <2>2, <2>3, <2>4, JobMoves DEF DependencyNotReady
  <2>5. CASE ~batch[p].late
    BY <1>1, <1>3, <2>2, <2>3, <2>5, JobMoves DEF DependencyNotReady
  <2>6. QED
    BY <2>4, <2>5
<1>4. QED
  BY <1>2, <1>3 DEF Processes

LEMMA ConflictStep ==
  ASSUME Inv, NEW p \in Processes, Conflict(p)
  PROVE  Inv'
<1>1. TypeOK /\ budget' \in [BudgetKinds -> Nat]
  BY SpendType DEF Inv, Conflict, BudgetKinds
<1>2. CASE p \in Clients
  <2>1. p \notin Keys /\ tx[p] \in Transaction /\ tx[p].key \in Keys
    BY <1>1, <1>2, NamesAreDistinct DEF Conflict, Inv, ClientsAgree, TypeOK
  <2> DEFINE again == [Idle EXCEPT !.stage = "claiming", !.key = tx[p].key,
                                   !.attempt = tx[p].attempt + 1]
             r == IF LastAttempt(p) THEN Idle ELSE again
  <2>2. tx' = [tx EXCEPT ![p] = r]
    BY <2>1 DEF Conflict
  <2>3. ~LastAttempt(p) => /\ again \in Transaction /\ again.stage = "claiming"
                           /\ again.key = tx[p].key /\ again.locked = {}
    <3>1. ~LastAttempt(p) => tx[p].attempt + 1 \in 0..ConflictAttempts
      BY <2>1, Limits DEF LastAttempt, Transaction
    <3>2. QED
      BY <2>1, <3>1, IdleType DEF Transaction, Stages
  <2>4. /\ r \in Transaction /\ r.stage \in {"idle", "claiming"} /\ r.locked = {}
        /\ r.stage # "idle" => r.key \in Keys
    <3> HIDE DEF again
    <3>1. QED
      BY <2>1, <2>3, IdleType
  <2> HIDE DEF r
  <2>5. /\ tx' \in [Processes -> Transaction] /\ tx'[p] = r
        /\ \A q \in Processes : q # p => tx'[q] = tx[q]
    BY <1>1, <2>2, <2>4, ProcessUpdate
  <2>6. LocksAgree'
    BY <2>4, <2>5, LocksFrame DEF Conflict
  <2>7. QED
    BY <1>1, <1>2, <2>4, <2>5, <2>6, ClientFrame DEF Conflict, Writes
<1>3. CASE p \in Keys
  <2>1. RollBack(p, "requeueing") /\ tx[p].stage \in Working /\ "requeueing" \in Stages
    BY <1>3 DEF Conflict, Working, Stages
  <2>2. QED
    BY <1>1, <1>3, <2>1, JobMoves DEF Conflict
<1>4. QED
  BY <1>2, <1>3 DEF Processes

---------------------------------------------------------------------------
(* The job of a batch *)

LEMMA ClaimBatchStep ==
  ASSUME Inv, NEW k \in Keys, ClaimBatch(k)
  PROVE  Inv'
<1> DEFINE stage == IF Processable(k) THEN "loading" ELSE "returning"
           r == [Idle EXCEPT !.key = k, !.stage = stage]
<1>1. TypeOK /\ k \in Processes /\ batch[k] \in Batch
  BY DEF Inv, TypeOK, Processes
<1>2. stage \in Stages
  BY DEF Stages
<1> HIDE DEF stage
<1>3. r \in Transaction /\ r.stage = stage /\ r.key = k /\ r.locked = {}
  BY <1>2, IdleType DEF Transaction
<1>4. tx' = [tx EXCEPT ![k] = r]
  BY DEF ClaimBatch, stage
<1> HIDE DEF r
<1>5. /\ tx' \in [Processes -> Transaction] /\ tx'[k] = r
      /\ \A q \in Processes : q # k => tx'[q] = tx[q]
  BY <1>1, <1>3, <1>4, ProcessUpdate
<1>6. /\ job' \in [Keys -> JobStates] /\ job'[k] = "running" /\ job[k] = "available"
      /\ \A j \in Keys : j # k => job'[j] = job[j]
  BY DEF ClaimBatch, Inv, TypeOK, JobStates
<1>7. batch[k].status # "none"
  BY <1>6 DEF Inv, JobsAgree, JobAgrees
<1>8. /\ batch' \in [Keys -> Batch]
      /\ batch'[k].written = batch[k].written
      /\ \A j \in Keys : j # k => batch'[j] = batch[j]
      /\ batch'[k].status = IF batch[k].status = "queued" THEN "processing" ELSE batch[k].status
  <2>1. CASE batch[k].status = "queued"
    <3>1. MarkBatch(k, "processing") /\ "processing" \in BatchStatuses
      BY <2>1 DEF ClaimBatch, BatchStatuses
    <3>2. QED
      BY <2>1, <3>1, BatchUpdate
  <2>2. CASE batch[k].status # "queued"
    BY <2>2 DEF ClaimBatch, Inv, TypeOK
  <2>3. QED
    BY <2>1, <2>2
<1>9. LocksAgree'
  BY <1>1, <1>3, <1>5, LocksFrame, ZenonT(60) DEF ClaimBatch
<1>10. JobAgrees(k)'
  <2>1. batch[k].status \in BatchStatuses
    BY <1>1 DEF Batch
  <2>2. Processable(k) => batch'[k].status = "processing" /\ stage = "loading"
    BY <1>7, <1>8, <2>1 DEF Processable, Finished, BatchStatuses, stage
  <2>3. ~Processable(k) => batch'[k].status \in Finished /\ stage = "returning"
    BY <1>8 DEF Processable, Finished, stage
  <2>4. QED
    BY <1>3, <1>5, <1>6, <2>2, <2>3 DEF JobAgrees, Working, Finished
<1>11. budget' \in [BudgetKinds -> Nat]
  BY DEF ClaimBatch, Inv, TypeOK
<1>12. QED
  BY <1>1, <1>5, <1>6, <1>7, <1>8, <1>9, <1>10, <1>11, JobFrame DEF ClaimBatch

LEMMA LoadSteps ==
  ASSUME Inv, NEW k \in Keys, LoadRequest(k) \/ LoadFails(k)
  PROVE  Inv'
<1>1. TypeOK /\ tx[k].stage \in Working /\ k \in Processes
  BY DEF LoadRequest, LoadFails, Inv, Working, Processes
<1>2. tx[k].locked = {}
  BY <1>1 DEF LoadRequest, LoadFails, Inv, LocksAgree, Writes
<1>3. {"locking", "failing"} \subseteq Stages
  BY DEF Stages
<1>4. budget' \in [BudgetKinds -> Nat]
  BY <1>1, SpendType DEF LoadRequest, LoadFails, TypeOK, BudgetKinds
<1>5. CASE LoadRequest(k)
  <2>1. Move(k, "locking") \/ Move(k, "failing")
    BY <1>5 DEF LoadRequest
  <2>2. QED
    BY <1>1, <1>2, <1>3, <1>4, <1>5, <2>1, JobMoves DEF LoadRequest
<1>6. CASE LoadFails(k)
  BY <1>1, <1>2, <1>3, <1>4, <1>6, JobMoves DEF LoadFails
<1>7. QED
  BY <1>5, <1>6

\* A job that is given back to the queue while its batch has not ended, and one that is
\* run again after it has.
LEMMA JobReturns ==
  ASSUME Inv, NEW k \in Keys, tx[k].stage # "idle",
         tx' = [tx EXCEPT ![k] = Idle],
         \/ job' = [job EXCEPT ![k] = "available"]
         \/ job' = [job EXCEPT ![k] = "none"] /\ batch[k].status \in Finished,
         \/ UNCHANGED batch
         \/ MarkBatch(k, "queued") /\ batch[k].status = "processing"
              /\ job' = [job EXCEPT ![k] = "available"],
         UNCHANGED <<payload, trace, rollup>>,
         budget' \in [BudgetKinds -> Nat]
  PROVE  Inv'
<1>1. TypeOK /\ k \in Processes /\ batch[k].status # "none"
  BY JobFacts DEF Inv
<1>2. /\ tx' \in [Processes -> Transaction]
      /\ tx'[k].stage = "idle" /\ tx'[k].locked = {}
      /\ \A q \in Processes : q # k => tx'[q] = tx[q]
  BY <1>1, IdleUpdate
<1>3. /\ job' \in [Keys -> JobStates]
      /\ \A j \in Keys : j # k => job'[j] = job[j]
      /\ job'[k] = "available" \/ (job'[k] = "none" /\ UNCHANGED batch /\ batch[k].status \in Finished)
  <2>1. job \in [Keys -> JobStates] /\ {"available", "none"} \subseteq JobStates
    BY <1>1 DEF TypeOK, JobStates
  <2>2. CASE job' = [job EXCEPT ![k] = "available"]
    BY <2>1, <2>2
  <2>3. CASE job' = [job EXCEPT ![k] = "none"] /\ batch[k].status \in Finished
    BY <2>1, <2>3 DEF Finished
  <2>4. QED
    BY <2>2, <2>3
<1>4. /\ batch' \in [Keys -> Batch]
      /\ batch'[k].written = batch[k].written
      /\ \A j \in Keys : j # k => batch'[j] = batch[j]
      /\ \/ batch'[k] = batch[k]
         \/ batch'[k].status = "queued" /\ batch[k].status = "processing" /\ job'[k] = "available"
  <2>1. CASE UNCHANGED batch
    BY <1>1, <2>1 DEF TypeOK
  <2>2. CASE MarkBatch(k, "queued") /\ batch[k].status = "processing"
              /\ job' = [job EXCEPT ![k] = "available"]
    <3>1. "queued" \in BatchStatuses /\ job'[k] = "available"
      BY <1>1, <2>2 DEF BatchStatuses, TypeOK
    <3>2. QED
      BY <2>2, <3>1, BatchUpdate
  <2>3. QED
    BY <2>1, <2>2
<1>5. LocksAgree'
  BY <1>1, <1>2, LocksFrame
<1>6. JobAgrees(k)'
  BY <1>1, <1>2, <1>4 DEF JobAgrees, Working
<1>7. batch'[k].status \in {"queued", "processing"} =>
            batch[k].status \in {"queued", "processing"} /\ job'[k] # "none"
  BY <1>3, <1>4 DEF Finished
<1>8. batch'[k].status = "completed" <=> batch[k].status = "completed"
  BY <1>4
<1>9. batch'[k].status # "none"
  BY <1>1, <1>4
<1>10. QED
  BY <1>1, <1>2, <1>3, <1>4, <1>5, <1>6, <1>7, <1>8, <1>9, JobFrame

LEMMA FailStep ==
  ASSUME Inv, NEW k \in Keys, FinishTerminalFailure(k)
  PROVE  Inv'
<1>1. TypeOK /\ tx[k].stage = "failing" /\ tx[k].stage \in Working
  BY DEF Inv, FinishTerminalFailure, Working
<1>2. k \in Processes /\ tx[k].key = k /\ job[k] = "running" /\ batch[k].status = "processing"
  BY <1>1, JobFacts
<1>3. /\ tx' \in [Processes -> Transaction]
      /\ tx'[k].stage = "returning" /\ tx'[k].key = k /\ tx'[k].locked = tx[k].locked
      /\ \A q \in Processes : q # k => tx'[q] = tx[q]
  BY <1>1, <1>2, MoveUpdate DEF FinishTerminalFailure, Stages
<1>4. tx[k].locked = {}
  BY <1>1, <1>2 DEF Inv, LocksAgree, Writes
<1>5. /\ batch' \in [Keys -> Batch]
      /\ batch'[k].status = "failed" /\ batch'[k].written = batch[k].written
      /\ \A j \in Keys : j # k => batch'[j] = batch[j]
  BY BatchUpdate DEF FinishTerminalFailure, BatchStatuses
<1>6. LocksAgree'
  BY <1>2, <1>3, <1>4, LocksFrame DEF FinishTerminalFailure
<1>7. JobAgrees(k)'
  BY <1>2, <1>3, <1>5 DEF JobAgrees, FinishTerminalFailure, Working, Finished
<1>8. job' = job /\ budget' = budget /\ job \in [Keys -> JobStates] /\ budget \in [BudgetKinds -> Nat]
  BY DEF FinishTerminalFailure, Inv, TypeOK
<1>9. QED
  BY <1>2, <1>3, <1>5, <1>6, <1>7, <1>8, JobFrame DEF FinishTerminalFailure

\* A job's connection breaks during a COMMIT that has not taken effect.
LEMMA UnsureStep ==
  ASSUME Inv, NEW k \in Keys, tx[k].stage = "committing", RollBack(k, "unsure"),
         UNCHANGED <<batch, payload, job, trace, rollup>>,
         budget' \in [BudgetKinds -> Nat]
  PROVE  Inv'
<1>1. TypeOK /\ k \in Processes /\ tx[k].key = k /\ job[k] = "running" /\ batch[k].status = "processing"
  BY JobFacts DEF Inv, Working
<1>2. /\ tx' \in [Processes -> Transaction]
      /\ tx'[k].stage = "unsure" /\ tx'[k].key = k /\ tx'[k].locked = {}
      /\ \A q \in Processes : q # k => tx'[q] = tx[q]
  BY <1>1, RollBackUpdate DEF Stages
<1>3. LocksAgree'
  BY <1>1, <1>2, LocksFrame
<1>4. JobAgrees(k)'
  BY <1>1, <1>2 DEF JobAgrees, Working
<1>5. job \in [Keys -> JobStates] /\ batch \in [Keys -> Batch]
  BY <1>1 DEF TypeOK
<1>6. QED
  BY <1>1, <1>2, <1>3, <1>4, <1>5, JobFrame

LEMMA ReturnSteps ==
  ASSUME Inv, NEW k \in Keys,
         ResolveCommitOutcome(k) \/ RetryBatch(k) \/ JobCompleted(k)
  PROVE  Inv'
<1>1. TypeOK /\ budget' \in [BudgetKinds -> Nat]
  BY DEF Inv, TypeOK, ResolveCommitOutcome, RetryBatch, JobCompleted
<1>2. CASE ResolveCommitOutcome(k)
  <2>1. CASE Resolved(k) = "idle"
    BY <1>1, <1>2, <2>1, JobReturns DEF ResolveCommitOutcome, Return
  <2>2. CASE Resolved(k) = "returning"
    <3>1. batch[k].status \in Finished
      BY <2>2 DEF Resolved, Finished
    <3>2. Move(k, "returning") /\ job' = job /\ tx[k].stage = "unsure"
      BY <1>2, <2>2 DEF ResolveCommitOutcome, Return
    <3>3. k \in Processes /\ tx[k].key = k /\ job[k] = "running" /\ tx[k].locked = {}
      BY <3>2, JobFacts DEF Inv, LocksAgree, Writes
    <3>4. /\ tx' \in [Processes -> Transaction]
          /\ tx'[k].stage = "returning" /\ tx'[k].key = k /\ tx'[k].locked = {}
          /\ \A q \in Processes : q # k => tx'[q] = tx[q]
      BY <1>1, <3>2, <3>3, MoveUpdate DEF Stages
    <3>5. UNCHANGED <<batch, payload, trace, rollup>>
      BY <1>2 DEF ResolveCommitOutcome
    <3>6. LocksAgree'
      BY <3>3, <3>4, <3>5, LocksFrame
    <3>7. JobAgrees(k)'
      BY <3>1, <3>2, <3>3, <3>4, <3>5 DEF JobAgrees, Working, Finished
    <3>8. job \in [Keys -> JobStates] /\ batch \in [Keys -> Batch]
      BY <1>1 DEF TypeOK
    <3>9. QED
      BY <1>1, <3>1, <3>2, <3>3, <3>4, <3>5, <3>6, <3>7, <3>8, JobFrame DEF Finished
  <2>3. QED
    BY <2>1, <2>2 DEF Resolved
<1>3. CASE RetryBatch(k)
  <2>1. tx[k].stage # "idle" /\ batch[k].status = "processing"
    BY <1>3, JobFacts DEF RetryBatch, Working
  <2>2. QED
    BY <1>1, <1>3, <2>1, JobReturns DEF RetryBatch, Return
<1>4. CASE JobCompleted(k)
  <2>1. tx[k].stage # "idle" /\ batch[k].status \in Finished
    BY <1>4 DEF JobCompleted, Inv, JobsAgree, JobAgrees
  <2>2. QED
    BY <1>1, <1>4, <2>1, JobReturns DEF JobCompleted
<1>5. QED
  BY <1>2, <1>3, <1>4

LEMMA CrashStep ==
  ASSUME Inv, NEW p \in Processes, Crash(p)
  PROVE  Inv'
<1>1. TypeOK /\ budget' \in [BudgetKinds -> Nat]
  BY SpendType DEF Inv, Crash, BudgetKinds
<1>2. CASE p \in Clients
  <2>1. p \notin Keys /\ tx' = [tx EXCEPT ![p] = Idle]
    BY <1>2, NamesAreDistinct DEF Crash
  <2>2. /\ tx' \in [Processes -> Transaction]
        /\ tx'[p].stage = "idle" /\ tx'[p].locked = {}
        /\ \A q \in Processes : q # p => tx'[q] = tx[q]
    BY <1>1, <2>1, IdleUpdate
  <2>3. LocksAgree'
    BY <2>2, LocksFrame DEF Crash
  <2>4. QED
    BY <1>1, <1>2, <2>1, <2>2, <2>3, ClientFrame DEF Crash, Writes
<1>3. CASE p \in Keys
  BY <1>1, <1>3, JobReturns DEF Crash
<1>4. QED
  BY <1>2, <1>3 DEF Processes

---------------------------------------------------------------------------
(* Commits, the clock, and rollups *)

\* What a commit changes.
LEMMA ApplyUpdate ==
  ASSUME Inv, NEW p \in Processes, tx[p].stage = "committing", Apply(p), NEW k, k = tx[p].key
  PROVE  /\ k \in Keys /\ batch[k].status \in {"none", "processing"} /\ batch[k].written = 0
         /\ batch' \in [Keys -> Batch]
         /\ batch'[k].status = "completed" /\ batch'[k].written = 1
         /\ \A j \in Keys : j # k => batch'[j] = batch[j]
         /\ trace' \in [Traces -> Trace]
         /\ \A t \in tx[p].locked : t \in Traces /\ trace'[t].exists /\ trace'[t].spans = trace[t].spans \cup {k}
         /\ \A t \in Traces \ tx[p].locked : trace'[t] = trace[t]
         /\ rollup' \in [Traces -> Rollup]
         /\ \A t \in Traces : rollup'[t].stage = rollup[t].stage /\ rollup'[t].loops = rollup[t].loops
         /\ payload' = payload \ {k}
<1>1. TypeOK
  BY DEF Inv
<1>2. k \in Keys /\ batch[k].status \in {"none", "processing"}
  <2>1. CASE p \in Clients
    BY <2>1 DEF Inv, ClientsAgree, Writes
  <2>2. CASE p \in Keys
    BY <2>2, JobFacts DEF Working
  <2>3. QED
    BY <2>1, <2>2 DEF Processes
<1>3. batch[k].written = 0
  BY <1>2 DEF Inv, WrittenWithItsCompletion
<1>4. /\ batch' \in [Keys -> Batch]
      /\ batch'[k].status = "completed" /\ batch'[k].written = 1
      /\ \A j \in Keys : j # k => batch'[j] = batch[j]
  <2> DEFINE b == [batch[k] EXCEPT !.status = "completed", !.written = @ + 1]
  <2>1. batch[k] \in Batch
    BY <1>1, <1>2 DEF TypeOK
  <2>2. b \in Batch /\ b.status = "completed" /\ b.written = 1
    <3> DEFINE n == batch[k].written + 1
    <3>1. n = 1 /\ b = [batch[k] EXCEPT !.status = "completed", !.written = n]
      BY <1>3
    <3> HIDE DEF n, b
    <3>2. QED
      BY <2>1, <3>1 DEF Batch, BatchStatuses
  <2>3. batch' = [batch EXCEPT ![k] = b]
    BY DEF Apply
  <2>4. QED
    BY <1>1, <1>2, <2>2, <2>3 DEF TypeOK
<1>5. tx[p].locked \subseteq Traces
  BY <1>1 DEF TypeOK, Transaction
<1>6. /\ trace' \in [Traces -> Trace]
      /\ \A t \in tx[p].locked : trace'[t].exists /\ trace'[t].spans = trace[t].spans \cup {k}
      /\ \A t \in Traces \ tx[p].locked : trace'[t] = trace[t]
  <2> DEFINE r(t) == [trace[t] EXCEPT !.exists = TRUE, !.version = @ + 1, !.spans = @ \cup {k}]
  <2>1. ASSUME NEW t \in Traces
        PROVE  r(t) \in Trace /\ r(t).exists /\ r(t).spans = trace[t].spans \cup {k}
    <3>1. trace[t] \in Trace
      BY <1>1 DEF TypeOK
    <3> DEFINE n == trace[t].version + 1
               spans == trace[t].spans \cup {k}
    <3>2. n \in Nat /\ spans \in SUBSET Keys
      BY <1>2, <3>1 DEF Trace
    <3>3. r(t) = [trace[t] EXCEPT !.exists = TRUE, !.version = n, !.spans = spans]
      OBVIOUS
    <3> HIDE DEF n, r
    <3>4. QED
      BY <3>1, <3>2, <3>3 DEF Trace
  <2>2. trace' = [t \in Traces |-> IF t \in tx[p].locked THEN r(t) ELSE trace[t]]
    BY DEF Apply
  <2>3. \A t \in Traces : trace[t] \in Trace
    BY <1>1 DEF TypeOK
  <2> HIDE DEF r
  <2>4. QED
    BY <1>5, <2>1, <2>2, <2>3
<1>7. /\ rollup' \in [Traces -> Rollup]
      /\ \A t \in Traces : rollup'[t].stage = rollup[t].stage /\ rollup'[t].loops = rollup[t].loops
  <2> DEFINE r(t) == [rollup[t] EXCEPT !.job = "available"]
  <2>1. ASSUME NEW t \in Traces
        PROVE  r(t) \in Rollup /\ r(t).stage = rollup[t].stage /\ r(t).loops = rollup[t].loops
    <3>1. rollup[t] \in Rollup
      BY <1>1 DEF TypeOK
    <3>2. QED
      BY <3>1 DEF Rollup, JobStates
  <2>2. rollup' = [t \in Traces |-> IF t \in tx[p].enqueued THEN r(t) ELSE rollup[t]]
    BY DEF Apply
  <2>3. \A t \in Traces : rollup[t] \in Rollup
    BY <1>1 DEF TypeOK
  <2> HIDE DEF r
  <2>4. QED
    BY <2>1, <2>2, <2>3
<1>8. payload' = payload \ {k}
  BY DEF Apply
<1>9. QED
  BY <1>2, <1>3, <1>4, <1>5, <1>6, <1>7, <1>8

LEMMA AppliedInv ==
  ASSUME Inv, NEW p \in Processes, tx[p].stage = "committing", Apply(p),
         tx' \in [Processes -> Transaction], tx'[p].locked = {},
         \A q \in Processes : q # p => tx'[q] = tx[q],
         p \in Clients => tx'[p].stage = "idle",
         p \in Keys => tx'[p].stage \in {"returning", "unsure"} /\ tx'[p].key = tx[p].key,
         UNCHANGED job, budget' \in [BudgetKinds -> Nat]
  PROVE  Inv'
<1> DEFINE k == tx[p].key
<1>1. /\ k \in Keys /\ batch[k].status \in {"none", "processing"} /\ batch[k].written = 0
      /\ batch' \in [Keys -> Batch]
      /\ batch'[k].status = "completed" /\ batch'[k].written = 1
      /\ \A j \in Keys : j # k => batch'[j] = batch[j]
      /\ trace' \in [Traces -> Trace]
      /\ \A t \in tx[p].locked : t \in Traces /\ trace'[t].exists /\ trace'[t].spans = trace[t].spans \cup {k}
      /\ \A t \in Traces \ tx[p].locked : trace'[t] = trace[t]
      /\ rollup' \in [Traces -> Rollup]
      /\ \A t \in Traces : rollup'[t].stage = rollup[t].stage /\ rollup'[t].loops = rollup[t].loops
      /\ payload' = payload \ {k}
  BY ApplyUpdate
<1>2. p \in Keys => k = p /\ job[p] = "running" /\ batch[k].status = "processing" /\ p \notin Clients
  BY JobFacts DEF Working
<1>3. p \in Clients => p \notin Keys /\ batch[k].status = "none" /\ job[k] = "none" /\ tx[k].stage = "idle"
  BY <1>1, NamesAreDistinct DEF Inv, ClientsAgree, JobsAgree, JobAgrees, Writes
<1>4. TypeOK'
  BY <1>1 DEF Inv, TypeOK
<1>5. ClientsAgree'
  <2>1. ASSUME NEW c \in Clients, Writes(c)'
        PROVE  c # p /\ tx[c].key # k /\ Writes(c) /\ tx'[c] = tx[c]
    <3>1. c # p /\ tx'[c] = tx[c] /\ Writes(c)
      BY <2>1 DEF Writes, Processes
    <3>2. CASE p \in Clients
      BY <3>1, <3>2 DEF Inv, ClientsAgree, Writes
    <3>3. CASE p \in Keys
      BY <1>2, <3>1, <3>3 DEF Inv, ClientsAgree
    <3>4. QED
      BY <3>1, <3>2, <3>3 DEF Processes
  <2>2. \A c \in Clients : tx'[c] = tx[c] \/ tx'[c].stage = "idle"
    BY DEF Processes
  <2>3. \A c \in Clients :
          /\ tx[c].stage \in {"idle", "claiming", "locking", "committing"}
          /\ tx[c].stage # "idle" => tx[c].key \in Keys
          /\ Writes(c) => batch[tx[c].key].status = "none"
    BY DEF Inv, ClientsAgree
  <2>4. \A c \in Clients : Writes(c)' => batch'[tx'[c].key].status = "none"
    BY <1>1, <2>1, <2>3 DEF Writes
  <2>5. \A c, d \in Clients : Writes(c)' /\ Writes(d)' /\ tx'[c].key = tx'[d].key => c = d
    BY <2>1 DEF Inv, ClientsAgree
  <2> HIDE DEF k
  <2>6. QED
    BY <2>2, <2>3, <2>4, <2>5 DEF ClientsAgree
<1>6. JobsAgree'
  <2> SUFFICES ASSUME NEW j \in Keys
               PROVE  JobAgrees(j)'
    BY DEF JobsAgree
  <2>1. JobAgrees(j)
    BY DEF Inv, JobsAgree
  <2>2. CASE j = p
    BY <1>1, <1>2, <2>2 DEF JobAgrees, Working, Finished
  <2>3. CASE j # p /\ j # k
    BY <1>1, <2>1, <2>3 DEF JobAgrees, Working, Finished, Processes
  <2>4. CASE j # p /\ j = k
    <3>1. p \in Clients
      BY <1>2, <2>4 DEF Processes
    <3>2. tx'[j].stage = "idle"
      BY <1>3, <2>4, <3>1 DEF Processes
    <3>3. QED
      BY <1>1, <2>4, <3>2 DEF JobAgrees, Working
  <2>5. QED
    BY <2>2, <2>3, <2>4
<1>7. LocksAgree'
  <2>1. \A t \in Traces : trace[t].exists => trace'[t].exists
    BY <1>1
  <2>2. QED
    BY <2>1, LocksFrame
<1>8. TracesAgree'
  <2> SUFFICES ASSUME NEW t \in Traces
               PROVE  /\ trace'[t].spans # {} => trace'[t].exists
                      /\ trace'[t].exists => \E j \in trace'[t].spans : t \in Defines[j]
    BY DEF TracesAgree
  <2>1. /\ trace[t].spans # {} => trace[t].exists
        /\ trace[t].exists => \E j \in trace[t].spans : t \in Defines[j]
    BY DEF Inv, TracesAgree
  <2>2. CASE t \in tx[p].locked
    <3>1. t \in Defines[k] \/ trace[t].exists
      BY <2>2 DEF Inv, LocksAgree
    <3>2. QED
      BY <1>1, <2>1, <2>2, <3>1
  <2>3. CASE t \notin tx[p].locked
    BY <1>1, <2>1, <2>3
  <2>4. QED
    BY <2>2, <2>3
<1>9. RollupsAgree'
  BY <1>1 DEF Inv, RollupsAgree
<1>10. WrittenWithItsCompletion' /\ AcceptedIsRunnable'
  BY <1>1 DEF Inv, WrittenWithItsCompletion, AcceptedIsRunnable
<1>11. QED
  BY <1>4, <1>5, <1>6, <1>7, <1>8, <1>9, <1>10 DEF Inv

LEMMA CommitSteps ==
  ASSUME Inv, NEW p \in Processes, Commit(p) \/ CommitLost(p)
  PROVE  Inv'
<1>1. TypeOK /\ tx[p].stage = "committing" /\ UNCHANGED job
  BY DEF Inv, Commit, CommitLost
<1>2. budget' \in [BudgetKinds -> Nat]
  BY <1>1, SpendType DEF Commit, CommitLost, BudgetKinds, TypeOK
<1>3. p \in Clients => tx' = [tx EXCEPT ![p] = Idle]
  BY DEF Commit, CommitLost
<1>4. p \in Keys => p \notin Clients /\ (RollBack(p, "returning") \/ RollBack(p, "unsure"))
  BY NamesAreDistinct DEF Commit, CommitLost
<1>5. /\ tx' \in [Processes -> Transaction] /\ tx'[p].locked = {}
      /\ \A q \in Processes : q # p => tx'[q] = tx[q]
      /\ p \in Clients => tx'[p].stage = "idle"
      /\ p \in Keys => tx'[p].stage \in {"returning", "unsure"} /\ tx'[p].key = tx[p].key
  <2>1. CASE p \in Clients
    BY <1>1, <1>3, <2>1, IdleUpdate, NamesAreDistinct
  <2>2. CASE p \in Keys
    BY <1>1, <1>4, <2>2, RollBackUpdate DEF Stages
  <2>3. QED
    BY <2>1, <2>2 DEF Processes
<1>6. CASE Apply(p)
  BY <1>1, <1>2, <1>5, <1>6, AppliedInv
<1>7. CASE ~Apply(p)
  <2>1. CommitLost(p) /\ UNCHANGED <<batch, payload, trace, rollup>>
    BY <1>7 DEF Commit, CommitLost
  <2>2. CASE p \in Clients
    <3>1. LocksAgree'
      BY <1>5, <2>1, LocksFrame
    <3>2. QED
      BY <1>1, <1>2, <1>5, <2>1, <2>2, <3>1, ClientFrame DEF Writes
  <2>3. CASE p \in Keys
    <3>1. RollBack(p, "unsure")
      BY <1>4, <2>1, <2>3 DEF CommitLost
    <3>2. QED
      BY <1>1, <1>2, <2>1, <2>3, <3>1, UnsureStep
  <2>4. QED
    BY <2>2, <2>3 DEF Processes
<1>8. QED
  BY <1>6, <1>7

LEMMA TimeSteps ==
  ASSUME Inv, NEW k \in Keys, ReferenceTimeout(k) \/ Cleanup(k)
  PROVE  Inv'
<1>1. CASE ReferenceTimeout(k)
  <2> DEFINE b == [batch[k] EXCEPT !.late = TRUE]
  <2>1. b \in Batch /\ b.status = batch[k].status /\ b.written = batch[k].written
    <3>1. batch[k] \in Batch
      BY DEF Inv, TypeOK
    <3>2. QED
      BY <3>1 DEF Batch
  <2>2. batch' = [batch EXCEPT ![k] = b]
    BY <1>1 DEF ReferenceTimeout
  <2> HIDE DEF b
  <2>3. /\ batch' \in [Keys -> Batch]
        /\ \A j \in Keys : batch'[j].status = batch[j].status /\ batch'[j].written = batch[j].written
    BY <2>1, <2>2 DEF Inv, TypeOK
  <2>4. TypeOK' /\ ClientsAgree' /\ JobsAgree'
    BY <1>1, <2>3 DEF ReferenceTimeout, Inv, TypeOK, ClientsAgree, JobsAgree, JobAgrees, Writes
  <2>5. LocksAgree' /\ TracesAgree' /\ RollupsAgree'
    BY <1>1 DEF ReferenceTimeout, Inv, LocksAgree, TracesAgree, RollupsAgree, Writes
  <2>6. WrittenWithItsCompletion' /\ AcceptedIsRunnable'
    BY <1>1, <2>3 DEF ReferenceTimeout, Inv, WrittenWithItsCompletion, AcceptedIsRunnable
  <2>7. QED
    BY <2>4, <2>5, <2>6 DEF Inv
<1>2. CASE Cleanup(k)
  <2>1. TypeOK' /\ ClientsAgree' /\ JobsAgree'
    BY <1>2 DEF Cleanup, Inv, TypeOK, ClientsAgree, JobsAgree, JobAgrees, Writes
  <2>2. LocksAgree' /\ TracesAgree' /\ RollupsAgree'
    BY <1>2 DEF Cleanup, Inv, LocksAgree, TracesAgree, RollupsAgree, Writes
  <2>3. WrittenWithItsCompletion' /\ AcceptedIsRunnable'
    BY <1>2 DEF Cleanup, Expired, Inv, WrittenWithItsCompletion, AcceptedIsRunnable
  <2>4. QED
    BY <2>1, <2>2, <2>3 DEF Inv
<1>3. QED
  BY <1>1, <1>2

\* A rollup changes its job and the aggregate of its trace.
LEMMA RollupFrame ==
  ASSUME Inv, NEW t \in Traces, NEW r \in Rollup, rollup' = [rollup EXCEPT ![t] = r],
         r.stage \in {"read", "computed", "updated"} => r.loops < MaxRollupLoops,
         trace' \in [Traces -> Trace],
         \A s \in Traces : trace'[s].exists = trace[s].exists /\ trace'[s].spans = trace[s].spans,
         UNCHANGED <<batch, payload, job, tx>>,
         budget' \in [BudgetKinds -> Nat]
  PROVE  Inv'
<1>1. TypeOK'
  BY DEF Inv, TypeOK
<1>2. ClientsAgree' /\ JobsAgree' /\ WrittenWithItsCompletion' /\ AcceptedIsRunnable'
  BY DEF Inv, ClientsAgree, JobsAgree, JobAgrees, WrittenWithItsCompletion, AcceptedIsRunnable, Writes
<1>3. LocksAgree'
  <2>1. \A q \in Processes : tx[q].locked \subseteq Traces
    BY DEF Inv, TypeOK, Transaction
  <2>2. QED
    BY <2>1 DEF Inv, LocksAgree, Writes
<1>4. TracesAgree' /\ RollupsAgree'
  BY DEF Inv, TypeOK, TracesAgree, RollupsAgree
<1>5. QED
  BY <1>1, <1>2, <1>3, <1>4 DEF Inv

LEMMA RollupSteps ==
  ASSUME Inv, NEW t \in Traces, RollupStep(t) \/ RollupFails(t)
  PROVE  Inv'
<1>1. /\ TypeOK /\ rollup[t] \in Rollup /\ trace[t] \in Trace /\ trace \in [Traces -> Trace]
      /\ NoRollup \in Rollup
  BY Limits DEF Inv, TypeOK, NoRollup, Rollup, JobStates
<1>2. \A loops \in Nat : loops < MaxRollupLoops =>
         Pass(t, loops) \in Rollup /\ Pass(t, loops).loops = loops
  <2> SUFFICES ASSUME NEW loops \in Nat, loops < MaxRollupLoops
               PROVE  Pass(t, loops) \in Rollup /\ Pass(t, loops).loops = loops
    OBVIOUS
  <2> DEFINE n == trace[t].version
  <2>1. n \in Nat /\ loops \in 0..MaxRollupLoops
    BY <1>1, Limits DEF Trace
  <2>2. Pass(t, loops) = [NoRollup EXCEPT !.job = "running", !.stage = "read", !.before = n, !.loops = loops]
    BY DEF Pass
  <2> HIDE DEF n
  <2>3. QED
    BY <2>1, <2>2 DEF NoRollup, Rollup, JobStates
<1>3. ASSUME UNCHANGED trace
      PROVE  /\ trace' \in [Traces -> Trace]
             /\ \A s \in Traces : trace'[s].exists = trace[s].exists /\ trace'[s].spans = trace[s].spans
  BY <1>1, <1>3
<1>4. budget' \in [BudgetKinds -> Nat]
  BY <1>1, SpendType DEF RollupStep, RollupFails, StartRollup, ComputeTraceRollups, UpdateTraceRollups,
     CheckVersion, RollupCompleted, BudgetKinds, TypeOK
<1>5. CASE StartRollup(t)
  <2>1. 0 \in Nat /\ 0 < MaxRollupLoops
    BY Limits
  <2>2. Pass(t, 0) \in Rollup /\ Pass(t, 0).loops = 0
    BY <1>2, <2>1
  <2>3. rollup' = [rollup EXCEPT ![t] = Pass(t, 0)] /\ UNCHANGED <<batch, payload, job, trace, tx>>
    BY <1>5 DEF StartRollup
  <2>4. QED
    BY <1>3, <1>4, <2>1, <2>2, <2>3, RollupFrame
<1>6. CASE ComputeTraceRollups(t)
  <2> DEFINE r == [rollup[t] EXCEPT !.stage = "computed", !.sum = trace[t].spans]
  <2>1. r \in Rollup /\ r.loops = rollup[t].loops
    BY <1>1 DEF Rollup, Trace
  <2>2. rollup[t].loops < MaxRollupLoops
    BY <1>6 DEF ComputeTraceRollups, Inv, RollupsAgree
  <2>3. rollup' = [rollup EXCEPT ![t] = r] /\ UNCHANGED <<batch, payload, job, trace, tx>>
    BY <1>6 DEF ComputeTraceRollups
  <2> HIDE DEF r
  <2>4. QED
    BY <1>3, <1>4, <2>1, <2>2, <2>3, RollupFrame
<1>7. CASE UpdateTraceRollups(t)
  <2> DEFINE r == [rollup[t] EXCEPT !.stage = "updated"]
             row == [trace[t] EXCEPT !.total = rollup[t].sum]
  <2>1. r \in Rollup /\ r.loops = rollup[t].loops
    BY <1>1 DEF Rollup
  <2>2. row \in Trace /\ row.exists = trace[t].exists /\ row.spans = trace[t].spans
    BY <1>1 DEF Trace, Rollup
  <2>3. rollup[t].loops < MaxRollupLoops
    BY <1>7 DEF UpdateTraceRollups, Inv, RollupsAgree
  <2>4. /\ rollup' = [rollup EXCEPT ![t] = r] /\ trace' = [trace EXCEPT ![t] = row]
        /\ UNCHANGED <<batch, payload, job, tx>>
    BY <1>7 DEF UpdateTraceRollups, RollupMoves
  <2> HIDE DEF r, row
  <2>5. /\ trace' \in [Traces -> Trace]
        /\ \A s \in Traces : trace'[s].exists = trace[s].exists /\ trace'[s].spans = trace[s].spans
    BY <1>1, <2>2, <2>4
  <2>6. QED
    BY <1>4, <2>1, <2>3, <2>4, <2>5, RollupFrame
<1>8. CASE CheckVersion(t)
  <2> DEFINE loops == rollup[t].loops + 1
             stops == [rollup[t] EXCEPT !.stage = "returning", !.loops = loops]
             r == IF Changed(t) /\ loops < MaxRollupLoops THEN Pass(t, loops) ELSE stops
  <2>1. rollup[t].loops < MaxRollupLoops /\ rollup[t].loops \in Nat
    BY <1>1, <1>8 DEF CheckVersion, Inv, RollupsAgree, Rollup
  <2>2. loops \in Nat /\ loops \in 0..MaxRollupLoops
    BY <2>1, Limits
  <2>3. stops \in Rollup /\ stops.stage = "returning"
    BY <1>1, <2>2 DEF Rollup
  <2>4. rollup' = [rollup EXCEPT ![t] = r] /\ UNCHANGED <<batch, payload, job, trace, tx>>
    BY <1>8 DEF CheckVersion
  <2> HIDE DEF stops, loops
  <2>5. r \in Rollup /\ (r.stage \in {"read", "computed", "updated"} => r.loops < MaxRollupLoops)
    BY <1>2, <2>2, <2>3
  <2> HIDE DEF r
  <2>6. QED
    BY <1>3, <1>4, <2>4, <2>5, RollupFrame
<1>9. CASE RollupCompleted(t)
  <2>1. rollup' = [rollup EXCEPT ![t] = NoRollup] /\ UNCHANGED <<batch, payload, job, trace, tx>>
    BY <1>9 DEF RollupCompleted
  <2>2. NoRollup.stage = "idle"
    BY DEF NoRollup
  <2>3. QED
    BY <1>1, <1>3, <1>4, <2>1, <2>2, RollupFrame
<1>10. CASE RollupFails(t)
  <2> DEFINE r == [NoRollup EXCEPT !.job = "available"]
  <2>1. r \in Rollup /\ r.stage = "idle"
    BY <1>1 DEF Rollup, NoRollup, JobStates
  <2>2. rollup' = [rollup EXCEPT ![t] = r] /\ UNCHANGED <<batch, payload, job, trace, tx>>
    BY <1>10 DEF RollupFails
  <2> HIDE DEF r
  <2>3. QED
    BY <1>3, <1>4, <2>1, <2>2, RollupFrame
<1>11. QED
  BY <1>5, <1>6, <1>7, <1>8, <1>9, <1>10 DEF RollupStep

---------------------------------------------------------------------------
LEMMA StutterInv ==
  ASSUME Inv, UNCHANGED vars
  PROVE  Inv'
<1>1. TypeOK' /\ ClientsAgree' /\ JobsAgree'
  BY DEF vars, Inv, TypeOK, ClientsAgree, JobsAgree, JobAgrees, Writes
<1>2. LocksAgree' /\ TracesAgree' /\ RollupsAgree'
  BY DEF vars, Inv, LocksAgree, TracesAgree, RollupsAgree, Writes
<1>3. WrittenWithItsCompletion' /\ AcceptedIsRunnable'
  BY DEF vars, Inv, WrittenWithItsCompletion, AcceptedIsRunnable
<1>4. QED
  BY <1>1, <1>2, <1>3 DEF Inv

LEMMA WritePathInv ==
  ASSUME Inv, NEW p \in Processes, WritePath(p)
  PROVE  Inv'
BY LockStep, DependencyStep, WriteStep, CommitSteps DEF WritePath

LEMMA NextInv ==
  ASSUME Inv, [Next]_vars
  PROVE  Inv'
<1>1. Clients \subseteq Processes /\ Keys \subseteq Processes
  BY DEF Processes
<1>2. ASSUME NEW c \in Clients, NEW k \in Keys, Ingest(c, k) \/ AcceptAsync(c, k)
      PROVE  Inv'
  BY <1>2, RequestSteps, AcceptStep
<1>3. ASSUME NEW c \in Clients, IngestAgain(c) \/ WritePath(c)
      PROVE  Inv'
  BY <1>1, <1>3, RequestSteps, WritePathInv
<1>4. ASSUME NEW k \in Keys, JobStep(k) \/ LoadFails(k) \/ ReferenceTimeout(k) \/ Cleanup(k)
      PROVE  Inv'
  BY <1>1, <1>4, ClaimBatchStep, LoadSteps, WritePathInv, ReturnSteps, FailStep, TimeSteps DEF JobStep
<1>5. ASSUME NEW p \in Processes, Conflict(p) \/ CommitLost(p) \/ Crash(p)
      PROVE  Inv'
  BY <1>5, ConflictStep, CommitSteps, CrashStep
<1>6. ASSUME NEW t \in Traces, RollupStep(t) \/ RollupFails(t)
      PROVE  Inv'
  BY <1>6, RollupSteps
<1>7. QED
  BY <1>2, <1>3, <1>4, <1>5, <1>6, StutterInv DEF Next

LEMMA SpecInv == Spec => []Inv
<1>1. QED
  BY InitInv, NextInv, PTL DEF Spec

\* Every variable keeps its type, whatever is committed, rolled back or run again.
THEOREM TypesAreCorrect == Spec => []TypeOK
<1>1. Inv => TypeOK
  BY DEF Inv
<1>2. QED
  BY <1>1, SpecInv, PTL

\* A batch's content is committed exactly once, by the transaction that completes it
\* (ProcessBatch, ClaimBatchOrGetExisting, resolveCommitOutcome).
THEOREM BatchesAreWrittenOnce == Spec => []WrittenWithItsCompletion
<1>1. Inv => WrittenWithItsCompletion
  BY DEF Inv
<1>2. QED
  BY <1>1, SpecInv, PTL

\* A batch that was accepted has its payload and a job until it has ended (AcceptAsync,
\* retryBatch, CleanupExpiredPayloads).
THEOREM AcceptedStaysRunnable == Spec => []AcceptedIsRunnable
<1>1. Inv => AcceptedIsRunnable
  BY DEF Inv
<1>2. QED
  BY <1>1, SpecInv, PTL

\* However many batches are written at a time, none waits for a trace below one that it
\* has locked (lockTraces).
THEOREM LocksFollowTheOrder == Spec => []BatchesLockInOrder
<1>1. Inv => BatchesLockInOrder
  BY DEF Inv, LocksAgree, BatchesLockInOrder, NextTrace
<1>2. QED
  BY <1>1, SpecInv, PTL

\* A trace that has spans was defined by one of the batches that brought them, also
\* where most batches only refer to it (lockTraces, DependencyNotReadyError).
THEOREM SpansBelongToATrace == Spec => []SpansHaveTheirTrace
<1>1. Inv => SpansHaveTheirTrace
  BY DEF Inv, TracesAgree, SpansHaveTheirTrace
<1>2. QED
  BY <1>1, SpecInv, PTL

\* A batch that has ended is left as it is by the jobs and requests that come across it
\* again: only a batch that is not there, queued or being processed changes its status.
LEMMA FinishedStep ==
  ASSUME Inv, [Next]_vars, NEW k \in Keys, batch[k].status \in Finished
  PROVE  batch'[k].status = batch[k].status
<1> SUFFICES ASSUME batch' # batch
             PROVE  batch'[k].status = batch[k].status
  OBVIOUS
<1>1. TypeOK /\ batch[k].status \notin {"none", "queued", "processing"}
  BY DEF Inv, Finished
<1>2. ASSUME NEW j \in Keys, NEW status, MarkBatch(j, status), batch[j].status \notin Finished
      PROVE  batch'[k].status = batch[k].status
  BY <1>1, <1>2 DEF MarkBatch, TypeOK
<1>3. ASSUME NEW p \in Processes, Commit(p) \/ CommitLost(p)
      PROVE  batch'[k].status = batch[k].status
  <2>1. tx[p].stage = "committing" /\ Apply(p)
    BY <1>3 DEF Commit, CommitLost
  <2>2. batch[tx[p].key].status \in {"none", "processing"} /\ \A j \in Keys : j # tx[p].key => batch'[j] = batch[j]
    BY <2>1, ApplyUpdate
  <2>3. QED
    BY <1>1, <2>2
<1>4. ASSUME NEW j \in Keys, ReferenceTimeout(j)
      PROVE  batch'[k].status = batch[k].status
  BY <1>1, <1>4 DEF ReferenceTimeout, TypeOK
<1>5. ASSUME NEW c \in Clients, NEW j \in Keys, AcceptAsync(c, j)
      PROVE  batch'[k].status = batch[k].status
  BY <1>2, <1>5 DEF AcceptAsync, Inserted, Finished
<1>6. ASSUME NEW j \in Keys, ClaimBatch(j) \/ RetryBatch(j) \/ FinishTerminalFailure(j)
      PROVE  batch'[k].status = batch[k].status
  <2>1. CASE ClaimBatch(j)
    BY <1>2, <2>1 DEF ClaimBatch, Finished
  <2>2. CASE RetryBatch(j)
    BY <1>2, <2>2, JobFacts DEF RetryBatch, Working, Finished
  <2>3. CASE FinishTerminalFailure(j)
    BY <1>2, <2>3, JobFacts DEF FinishTerminalFailure, Working, Finished
  <2>4. QED
    BY <1>6, <2>1, <2>2, <2>3
<1>7. Clients \subseteq Processes /\ Keys \subseteq Processes
  BY DEF Processes
<1>8. CASE Next
  <2>1. ASSUME NEW p \in Processes, WritePath(p)
        PROVE  Commit(p)
    BY <2>1 DEF WritePath, LockTrace, DependencyNotReady, Write
  <2>2. ASSUME NEW c \in Clients, NEW j \in Keys, Ingest(c, j)
        PROVE  FALSE
    BY <2>2 DEF Ingest
  <2>3. ASSUME NEW c \in Clients, IngestAgain(c)
        PROVE  FALSE
    BY <2>3 DEF IngestAgain
  <2>4. ASSUME NEW j \in Keys, LoadRequest(j) \/ ResolveCommitOutcome(j) \/ JobCompleted(j) \/ LoadFails(j) \/ Cleanup(j)
        PROVE  FALSE
    BY <2>4 DEF LoadRequest, ResolveCommitOutcome, JobCompleted, LoadFails, Cleanup
  <2>5. ASSUME NEW p \in Processes, Conflict(p) \/ Crash(p)
        PROVE  FALSE
    BY <2>5 DEF Conflict, Crash
  <2>6. ASSUME NEW t \in Traces, RollupStep(t) \/ RollupFails(t)
        PROVE  FALSE
    BY <2>6 DEF RollupStep, RollupFails, StartRollup, ComputeTraceRollups, UpdateTraceRollups,
       CheckVersion, RollupCompleted
  <2>7. QED
    BY <1>3, <1>4, <1>5, <1>6, <1>7, <1>8, <2>1, <2>2, <2>3, <2>4, <2>5, <2>6 DEF Next, JobStep
<1>9. QED
  BY <1>8 DEF vars

\* The end of a batch is final, although its job may still be run (claimBatch,
\* resolveCommitOutcome).
THEOREM EndedBatchesStayEnded == Spec => FinishedIsFinal
<1>1. Inv /\ [Next]_vars => [\A k \in Keys : batch[k].status \in Finished => batch'[k].status = batch[k].status]_vars
  BY FinishedStep
<1>2. QED
  BY <1>1, SpecInv, PTL DEF Spec, FinishedIsFinal

---------------------------------------------------------------------------
(* What a rollup has counted *)

\* A pass that no commit has overtaken has counted all spans.
ReadingHolds(t) ==
    /\ rollup[t].stage \in {"read", "computed", "updated"} => rollup[t].before <= trace[t].version
    /\ rollup[t].stage = "computed" /\ rollup[t].before = trace[t].version => rollup[t].sum = trace[t].spans
    /\ rollup[t].stage = "updated" /\ rollup[t].before = trace[t].version => trace[t].total = trace[t].spans
ReadingsHold == \A t \in Traces : ReadingHolds(t)

\* The rollup of a trace is as it was; its spans are, or its version has risen.
ReadingKept(t) ==
    /\ rollup'[t].stage = rollup[t].stage
    /\ rollup'[t].before = rollup[t].before /\ rollup'[t].sum = rollup[t].sum
    /\ trace'[t].total = trace[t].total
    /\ \/ trace'[t].version = trace[t].version /\ trace'[t].spans = trace[t].spans
       \/ trace'[t].version = trace[t].version + 1

LEMMA ApplyKeepsReadings ==
  ASSUME Inv, NEW p \in Processes, Apply(p), NEW t \in Traces
  PROVE  ReadingKept(t)
<1>1. rollup[t] \in Rollup /\ trace[t] \in Trace
  BY DEF Inv, TypeOK
<1>2. rollup'[t].stage = rollup[t].stage /\ rollup'[t].before = rollup[t].before /\ rollup'[t].sum = rollup[t].sum
  BY <1>1 DEF Apply, Rollup
<1>3. CASE t \in tx[p].locked
  <2> DEFINE n == trace[t].version + 1
             spans == trace[t].spans \cup {tx[p].key}
  <2>1. trace'[t] = [trace[t] EXCEPT !.exists = TRUE, !.version = n, !.spans = spans]
    BY <1>3 DEF Apply
  <2>2. trace'[t].version = n /\ trace'[t].total = trace[t].total
    <3> HIDE DEF n, spans
    <3>1. QED
      BY <1>1, <2>1 DEF Trace
  <2>3. QED
    BY <1>2, <2>2 DEF ReadingKept
<1>4. CASE t \notin tx[p].locked
  <2>1. trace'[t] = trace[t]
    BY <1>4 DEF Apply
  <2>2. QED
    BY <1>2, <2>1 DEF ReadingKept
<1>5. QED
  BY <1>3, <1>4

LEMMA OtherRollupsKeepReadings ==
  ASSUME Inv, NEW s \in Traces, RollupStep(s) \/ RollupFails(s), NEW t \in Traces, t # s
  PROVE  ReadingKept(t)
<1>1. rollup \in [Traces -> Rollup] /\ trace \in [Traces -> Trace]
  BY DEF Inv, TypeOK
<1>2. rollup'[t] = rollup[t] /\ trace'[t] = trace[t]
  BY <1>1 DEF RollupStep, RollupFails, StartRollup, ComputeTraceRollups, UpdateTraceRollups,
     CheckVersion, RollupCompleted, RollupMoves
<1>3. QED
  BY <1>2 DEF ReadingKept

LEMMA StepsKeepReadings ==
  ASSUME Inv, [Next]_vars, NEW t \in Traces, ~RollupStep(t), ~RollupFails(t)
  PROVE  ReadingKept(t)
<1>1. ASSUME UNCHANGED <<trace, rollup>>
      PROVE  ReadingKept(t)
  BY <1>1 DEF ReadingKept
<1>2. ASSUME NEW p \in Processes, WritePath(p) \/ Conflict(p) \/ CommitLost(p) \/ Crash(p)
      PROVE  ReadingKept(t)
  <2>1. UNCHANGED <<trace, rollup>> \/ Apply(p)
    BY <1>2 DEF WritePath, LockTrace, DependencyNotReady, Write, Commit, Conflict, CommitLost, Crash
  <2>2. QED
    BY <1>1, <2>1, ApplyKeepsReadings
<1>3. ASSUME NEW c \in Clients, NEW k \in Keys, Ingest(c, k) \/ AcceptAsync(c, k) \/ IngestAgain(c)
      PROVE  ReadingKept(t)
  BY <1>1, <1>3 DEF Ingest, AcceptAsync, IngestAgain
<1>4. ASSUME NEW k \in Keys, JobStep(k) \/ LoadFails(k) \/ ReferenceTimeout(k) \/ Cleanup(k)
      PROVE  ReadingKept(t)
  <2>1. k \in Processes
    BY DEF Processes
  <2>2. WritePath(k) \/ UNCHANGED <<trace, rollup>>
    BY <1>4 DEF JobStep, ClaimBatch, LoadRequest, ResolveCommitOutcome, RetryBatch, FinishTerminalFailure,
       JobCompleted, LoadFails, ReferenceTimeout, Cleanup
  <2>3. QED
    BY <1>1, <1>2, <2>1, <2>2
<1>5. ASSUME NEW s \in Traces, RollupStep(s) \/ RollupFails(s)
      PROVE  ReadingKept(t)
  BY <1>5, OtherRollupsKeepReadings
<1>6. ASSUME NEW c \in Clients, IngestAgain(c)
      PROVE  ReadingKept(t)
  BY <1>1, <1>6 DEF IngestAgain
<1>7. Clients \subseteq Processes
  BY DEF Processes
<1>8. CASE Next
  BY <1>2, <1>3, <1>4, <1>5, <1>6, <1>7, <1>8 DEF Next
<1>9. CASE UNCHANGED vars
  BY <1>1, <1>9 DEF vars
<1>10. QED
  BY <1>8, <1>9

LEMMA RollupReads ==
  ASSUME Inv, NEW t \in Traces, ReadingHolds(t), RollupStep(t) \/ RollupFails(t)
  PROVE  ReadingHolds(t)'
<1>1. /\ rollup \in [Traces -> Rollup] /\ trace \in [Traces -> Trace]
      /\ rollup[t] \in Rollup /\ trace[t] \in Trace /\ trace[t].version \in Nat
  BY DEF Inv, TypeOK, Trace
<1>2. ASSUME NEW n, rollup'[t] = Pass(t, n), UNCHANGED trace
      PROVE  ReadingHolds(t)'
  BY <1>1, <1>2 DEF ReadingHolds, Pass, NoRollup
<1>3. ASSUME rollup'[t].stage \in {"idle", "returning"}
      PROVE  ReadingHolds(t)'
  BY <1>3 DEF ReadingHolds
<1>4. CASE StartRollup(t)
  BY <1>1, <1>2, <1>4 DEF StartRollup
<1>5. CASE ComputeTraceRollups(t)
  <2>1. /\ rollup'[t] = [rollup[t] EXCEPT !.stage = "computed", !.sum = trace[t].spans]
        /\ UNCHANGED trace /\ rollup[t].stage = "read"
    BY <1>1, <1>5 DEF ComputeTraceRollups
  <2>2. rollup'[t].stage = "computed" /\ rollup'[t].before = rollup[t].before /\ rollup'[t].sum = trace[t].spans
    BY <1>1, <2>1 DEF Rollup
  <2>3. QED
    BY <2>1, <2>2 DEF ReadingHolds
<1>6. CASE UpdateTraceRollups(t)
  <2>1. /\ rollup'[t] = [rollup[t] EXCEPT !.stage = "updated"] /\ rollup[t].stage = "computed"
        /\ trace'[t] = [trace[t] EXCEPT !.total = rollup[t].sum]
    BY <1>1, <1>6 DEF UpdateTraceRollups, RollupMoves
  <2>2. rollup'[t].stage = "updated" /\ rollup'[t].before = rollup[t].before
    BY <1>1, <2>1 DEF Rollup
  <2>3. trace'[t].total = rollup[t].sum /\ trace'[t].spans = trace[t].spans /\ trace'[t].version = trace[t].version
    BY <1>1, <2>1 DEF Trace
  <2>4. QED
    BY <2>1, <2>2, <2>3 DEF ReadingHolds
<1>7. CASE CheckVersion(t)
  <2> DEFINE n == rollup[t].loops + 1
             stops == [rollup[t] EXCEPT !.stage = "returning", !.loops = n]
  <2>1. UNCHANGED trace /\ (rollup'[t] = Pass(t, n) \/ rollup'[t] = stops)
    BY <1>1, <1>7 DEF CheckVersion
  <2>2. stops.stage = "returning"
    <3> HIDE DEF n
    <3>1. QED
      BY <1>1 DEF Rollup
  <2> HIDE DEF n, stops
  <2>3. QED
    BY <1>2, <1>3, <2>1, <2>2
<1>8. CASE RollupCompleted(t) \/ RollupFails(t)
  BY <1>1, <1>3, <1>8 DEF RollupCompleted, RollupFails, NoRollup
<1>9. QED
  BY <1>4, <1>5, <1>6, <1>7, <1>8 DEF RollupStep

LEMMA ReadingsInductive ==
  ASSUME Inv, ReadingsHold, [Next]_vars
  PROVE  ReadingsHold'
<1> SUFFICES ASSUME NEW t \in Traces
             PROVE  ReadingHolds(t)'
  BY DEF ReadingsHold
<1>1. ReadingHolds(t)
  BY DEF ReadingsHold
<1>2. rollup[t].before \in Nat /\ trace[t].version \in Nat
  BY DEF Inv, TypeOK, Rollup, Trace
<1>3. CASE RollupStep(t) \/ RollupFails(t)
  BY <1>1, <1>3, RollupReads
<1>4. CASE ~RollupStep(t) /\ ~RollupFails(t)
  <2>1. ReadingKept(t)
    BY <1>4, StepsKeepReadings
  <2> DEFINE before == rollup[t].before
             now == trace[t].version
             next == trace'[t].version
  <2>2. /\ next = now \/ next = now + 1
        /\ rollup[t].stage \in {"read", "computed", "updated"} => before <= now
    BY <1>1, <2>1 DEF ReadingKept, ReadingHolds
  <2>3. /\ rollup[t].stage \in {"read", "computed", "updated"} => before <= next
        /\ rollup[t].stage \in {"computed", "updated"} /\ before = next => next = now
    BY <1>2, <2>2
  <2>4. next = now => trace'[t].spans = trace[t].spans
    BY <1>2, <2>1 DEF ReadingKept
  <2>5. /\ rollup'[t].stage = rollup[t].stage /\ rollup'[t].before = before
        /\ rollup'[t].sum = rollup[t].sum /\ trace'[t].total = trace[t].total
    BY <2>1 DEF ReadingKept
  <2>6. QED
    BY <1>1, <2>3, <2>4, <2>5 DEF ReadingHolds
<1>5. QED
  BY <1>3, <1>4

LEMMA RollupSettles ==
  ASSUME Inv, ReadingsHold, [Next]_vars, NEW t \in Traces,
         rollup[t].stage = "updated", rollup'[t].stage = "returning", rollup'[t].loops < MaxRollupLoops
  PROVE  trace[t].total = trace[t].spans
<1>1. /\ rollup \in [Traces -> Rollup] /\ rollup[t] \in Rollup
      /\ rollup[t].before \in Nat /\ trace[t].version \in Nat
  BY DEF Inv, TypeOK, Rollup, Trace
<1>2. CheckVersion(t)
  <2>1. ~ReadingKept(t)
    BY DEF ReadingKept
  <2>2. RollupStep(t) \/ RollupFails(t)
    BY <2>1, StepsKeepReadings
  <2>3. ~RollupFails(t)
    BY <1>1 DEF RollupFails, NoRollup
  <2>4. ~StartRollup(t)
    BY <1>1 DEF StartRollup, Pass, NoRollup
  <2>5. ~RollupCompleted(t)
    BY <1>1 DEF RollupCompleted, NoRollup
  <2>6. QED
    BY <2>2, <2>3, <2>4, <2>5 DEF RollupStep, ComputeTraceRollups, UpdateTraceRollups
<1>3. ~Changed(t)
  <2> DEFINE n == rollup[t].loops + 1
             stops == [rollup[t] EXCEPT !.stage = "returning", !.loops = n]
  <2>1. rollup'[t] = IF Changed(t) /\ n < MaxRollupLoops THEN Pass(t, n) ELSE stops
    BY <1>1, <1>2 DEF CheckVersion
  <2>2. Pass(t, n).stage = "read"
    BY DEF Pass, NoRollup
  <2>3. stops.loops = n
    <3> HIDE DEF n
    <3>1. QED
      BY <1>1 DEF Rollup
  <2> HIDE DEF n, stops
  <2>4. QED
    BY <2>1, <2>2, <2>3
<1>4. rollup[t].before = trace[t].version
  BY <1>1, <1>3 DEF Changed, ReadingsHold, ReadingHolds
<1>5. QED
  BY <1>4 DEF ReadingsHold, ReadingHolds

\* Whatever batches are committed between its statements, a rollup that stops because the
\* version stands still has counted all spans (TraceRollupWorker.Work: the version is read
\* before the spans are).
THEOREM SettledRollupsAreExact == Spec => SettledRollupIsExact
<1>1. Init => ReadingsHold
  BY DEF Init, NoRollup, ReadingsHold, ReadingHolds
<1>2. Inv /\ ReadingsHold /\ [Next]_vars => ReadingsHold'
  BY ReadingsInductive
<1>3. Inv /\ ReadingsHold /\ [Next]_vars =>
        [\A t \in Traces : /\ rollup[t].stage = "updated" /\ rollup'[t].stage = "returning"
                           /\ rollup'[t].loops < MaxRollupLoops
                           => trace[t].total = trace[t].spans]_vars
  BY RollupSettles
<1>4. QED
  BY <1>1, <1>2, <1>3, SpecInv, PTL DEF Spec, SettledRollupIsExact

=============================================================================

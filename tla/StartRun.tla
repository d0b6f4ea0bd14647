------------------------------ MODULE StartRun -------------------------------
(***************************************************************************)
(* How a run is started: a request key is claimed, the definition looked   *)
(* up in the catalog that the engine's runtimes publish, the instance      *)
(* created, and the outcome stored under the key, all in one transaction;  *)
(* a request that is repeated is given the stored outcome.                 *)
(*                                                                         *)
(* Sources: internal/api/engine_control.go (StartRun), engine_control_     *)
(* helpers.go, engine/db/queries/{request_dedupe,instances,                *)
(* definition_catalog}.sql, engine/internal/catalog/publisher.go,          *)
(* engine/internal/store/retention.go.                                     *)
(***************************************************************************)
EXTENDS Integers, FiniteSets

CONSTANTS
    Keys,         \* request keys
    Instances,    \* instance keys
    Definitions,  \* definition versions
    Runtimes,     \* engine processes
    Clients,      \* requests in flight at a time
    Instance, Definition,  \* what a request key asks for
    Serves,       \* the definitions that a runtime's build registers
    None,         \* no key
    Allowed       \* bounds: requests, failures (of processes and connections),
                  \* deployments (starts of runtimes), reaps

ASSUME RequestsAskForSomething ==
    \A k \in Keys : Instance[k] \in Instances /\ Definition[k] \in Definitions
ASSUME BuildsRegister == \A r \in Runtimes : Serves[r] \subseteq Definitions
ASSUME NoneIsNoKey == None \notin Keys

BudgetKinds == {"requests", "failures", "deployments", "reaps"}
ASSUME AllowedBudget == Allowed \in [BudgetKinds -> Nat]

VARIABLES
    dedupe,    \* engine.request_dedupe: a key's outcome, or "none"
    instance,  \* engine.instances, each by the key whose request started its run
    catalog,   \* engine.definition_catalog, by the age of runtime_published_at
    up,        \* the runtimes that are up
    tx,        \* the start requests
    heard,     \* the outcomes that clients were told, by key, since its row exists
    reaped,    \* keys whose row retention has deleted
    budget

vars == <<dedupe, instance, catalog, up, tx, heard, reaped, budget>>

\* Outcomes that are stored: the run, or one of the two errors that are kept.
Outcomes == {"completed", "definition_not_registered", "instance_conflict"}
Rows == Outcomes \cup {"none"}
Entries == {"absent", "live", "stale"}

\* `tries' counts the rounds of claimStartRequestDedupe that found neither an insert
\* nor a row; `outcome' is what the transaction will store.
Stages == {"idle", "inserting", "locking", "checking", "creating", "committing"}
Request == [stage : Stages, key : Keys \cup {None}, tries : 0..1, outcome : Outcomes \cup {"none"}]
Idle == [stage |-> "idle", key |-> None, tries |-> 0, outcome |-> "none"]

TypeOK ==
    /\ dedupe \in [Keys -> Rows]
    /\ instance \in [Instances -> Keys \cup {None}]
    /\ catalog \in [Definitions -> Entries]
    /\ up \subseteq Runtimes
    /\ tx \in [Clients -> Request]
    /\ heard \in [Keys -> SUBSET Outcomes]
    /\ reaped \subseteq Keys
    /\ budget \in [BudgetKinds -> Nat]

Init ==
    /\ dedupe = [k \in Keys |-> "none"]
    /\ instance = [i \in Instances |-> None]
    /\ catalog = [d \in Definitions |-> "absent"]
    /\ up = {}
    /\ tx = [c \in Clients |-> Idle]
    /\ heard = [k \in Keys |-> {}]
    /\ reaped = {}
    /\ budget = Allowed

Spend(kind) == budget[kind] > 0 /\ budget' = [budget EXCEPT ![kind] = @ - 1]
Move(c, stage) == tx' = [tx EXCEPT ![c].stage = stage]
Finish(c) == tx' = [tx EXCEPT ![c] = Idle]
Tell(k, outcome) == heard' = [heard EXCEPT ![k] = @ \cup {outcome}]

---------------------------------------------------------------------------
(* The request key: claimStartRequestDedupe *)

Send(c, k) ==
    /\ tx[c].stage = "idle" /\ Spend("requests")
    /\ tx' = [tx EXCEPT ![c] = [Idle EXCEPT !.stage = "inserting", !.key = k]]
    /\ UNCHANGED <<dedupe, instance, catalog, up, heard, reaped>>

\* A request that has claimed the key, and so holds its row, and has not committed.
Claimed(k) == \E c \in Clients : tx[c].key = k /\ tx[c].stage \in {"checking", "creating", "committing"}

\* CreateStartRequestDedupeClaim, in the API's claim as in the store's, which the command
\* line uses: an insert waits for another that has not committed, and does nothing when
\* there is a row.
InsertClaim(c) ==
    /\ tx[c].stage = "inserting" /\ ~Claimed(tx[c].key)
    /\ Move(c, IF dedupe[tx[c].key] = "none" THEN "checking" ELSE "locking")
    /\ UNCHANGED <<dedupe, instance, catalog, up, heard, reaped, budget>>

\* Mutated: a request that failed is executed again.
OnlyCompleted(k) == dedupe[k] = "completed"
\* The stored outcome is the answer, an error like a run.
Finalized(k) == dedupe[k] \in Outcomes

\* The row was deleted between the insert and the read: there is a second round.
SecondRound(c) == tx[c].tries < 1

\* GetRequestDedupeByScopeAndKeyForUpdate waits for a request that holds the row.  A row
\* without an outcome would be renewed; StartRun never commits one.
LockRow(c) ==
    LET k == tx[c].key
    IN /\ tx[c].stage = "locking"
       /\ dedupe[k] # "none" => ~Claimed(k)
       /\ \/ /\ dedupe[k] = "none" /\ UNCHANGED heard
             /\ IF SecondRound(c)
                THEN tx' = [tx EXCEPT ![c].stage = "inserting", ![c].tries = @ + 1]
                ELSE Finish(c)
          \/ /\ dedupe[k] # "none"
             /\ IF Finalized(k) THEN Tell(k, dedupe[k]) /\ Finish(c)
                ELSE Move(c, "checking") /\ UNCHANGED heard
       /\ UNCHANGED <<dedupe, instance, catalog, up, reaped, budget>>

---------------------------------------------------------------------------
(* The run: StartRun *)

\* Only a definition that a runtime has published within the liveness window is
\* started.
CheckDefinition(c) ==
    /\ tx[c].stage = "checking"
    /\ tx' = [tx EXCEPT ![c] =
          IF catalog[Definition[tx[c].key]] = "live" THEN [@ EXCEPT !.stage = "creating"]
          ELSE [@ EXCEPT !.stage = "committing", !.outcome = "definition_not_registered"]]
    /\ UNCHANGED <<dedupe, instance, catalog, up, heard, reaped, budget>>

\* Another request that has inserted the instance and not committed.
Creating(i) == \E c \in Clients : tx[c].outcome = "completed" /\ Instance[tx[c].key] = i

\* Mutated: an instance of another request is taken over.
NeverTaken(i) == FALSE
\* The unique violation of CreateInstance.
Taken(i) == instance[i] # None

\* CreateInstance, with the run, its first history row, its session and its trace.
CreateInstance(c) ==
    LET i == Instance[tx[c].key]
    IN /\ tx[c].stage = "creating" /\ ~Creating(i)
       /\ tx' = [tx EXCEPT ![c].stage = "committing",
                           ![c].outcome = IF Taken(i) THEN "instance_conflict" ELSE "completed"]
       /\ UNCHANGED <<dedupe, instance, catalog, up, heard, reaped, budget>>

\* finalizeStartSuccess and finalizeStartFailure store the outcome with the rest.
Apply(c) ==
    LET k == tx[c].key
    IN /\ dedupe' = [dedupe EXCEPT ![k] = tx[c].outcome]
       /\ instance' = IF tx[c].outcome = "completed" THEN [instance EXCEPT ![Instance[k]] = k]
                      ELSE instance

Commit(c) ==
    /\ tx[c].stage = "committing"
    /\ Apply(c) /\ Tell(tx[c].key, tx[c].outcome) /\ Finish(c)
    /\ UNCHANGED <<catalog, up, reaped, budget>>

\* The connection breaks during COMMIT: it has taken effect, but the client is told of
\* an internal error.
CommitLost(c) ==
    /\ tx[c].stage = "committing" /\ Spend("failures")
    /\ Apply(c) /\ Finish(c)
    /\ UNCHANGED <<catalog, up, heard, reaped>>

\* The transaction is rolled back: an error, a dead process or a client that has gone.
Abort(c) ==
    /\ tx[c].stage # "idle" /\ Spend("failures")
    /\ Finish(c)
    /\ UNCHANGED <<dedupe, instance, catalog, up, heard, reaped>>

\* ReapRequestDedupe, long after expires_at; a row that a request holds is waited for,
\* but no request holds one that has an outcome.
Reap(k) ==
    /\ dedupe[k] \in Outcomes /\ Spend("reaps")
    /\ dedupe' = [dedupe EXCEPT ![k] = "none"]
    /\ heard' = [heard EXCEPT ![k] = {}]
    /\ reaped' = reaped \cup {k}
    /\ UNCHANGED <<instance, catalog, up, tx>>

---------------------------------------------------------------------------
(* The definition catalog *)

\* Mutated: only entries that exist are touched.
TouchOnly(r) ==
    [d \in Definitions |-> IF d \in Serves[r] /\ catalog[d] # "absent" THEN "live" ELSE catalog[d]]
\* HeartbeatDefinitions: entries that another runtime has deleted are inserted again.
Touched(r) == [d \in Definitions |-> IF d \in Serves[r] THEN "live" ELSE catalog[d]]

\* PublishDefinitions: a runtime that starts rewrites the catalog.
StartRuntime(r) ==
    /\ r \notin up /\ Spend("deployments")
    /\ up' = up \cup {r}
    /\ catalog' = [d \in Definitions |-> IF d \in Serves[r] THEN "live" ELSE "absent"]
    /\ UNCHANGED <<dedupe, instance, tx, heard, reaped>>

StopRuntime(r) ==
    /\ r \in up
    /\ up' = up \ {r}
    /\ UNCHANGED <<dedupe, instance, catalog, tx, heard, reaped, budget>>

HeartbeatDefinitions(r) ==
    /\ r \in up
    /\ catalog' = Touched(r)
    /\ UNCHANGED <<dedupe, instance, up, tx, heard, reaped, budget>>

\* The liveness window passes since the last heartbeat.
WindowPasses(d) ==
    /\ catalog[d] = "live" /\ \A r \in up : d \notin Serves[r]
    /\ catalog' = [catalog EXCEPT ![d] = "stale"]
    /\ UNCHANGED <<dedupe, instance, up, tx, heard, reaped, budget>>

---------------------------------------------------------------------------
RequestStep(c) ==
    InsertClaim(c) \/ LockRow(c) \/ CheckDefinition(c) \/ CreateInstance(c) \/ Commit(c)

Next ==
    \/ \E c \in Clients, k \in Keys : Send(c, k)
    \/ \E c \in Clients : RequestStep(c) \/ CommitLost(c) \/ Abort(c)
    \/ \E k \in Keys : Reap(k)
    \/ \E r \in Runtimes : StartRuntime(r) \/ StopRuntime(r) \/ HeartbeatDefinitions(r)
    \/ \E d \in Definitions : WindowPasses(d)

\* Requests go on, a runtime beats as long as it is up, and time passes.
Fairness ==
    /\ \A c \in Clients : WF_vars(RequestStep(c))
    /\ \A r \in Runtimes : WF_vars(HeartbeatDefinitions(r))
    /\ \A d \in Definitions : WF_vars(WindowPasses(d))

Spec == Init /\ [][Next]_vars /\ Fairness
=============================================================================

--------------------------- MODULE StartRunProofs ---------------------------
(***************************************************************************)
(* Theorems about StartRun, for any keys, instances, definitions, builds,  *)
(* numbers of requests and bounds on the environment.                      *)
(***************************************************************************)
EXTENDS StartRunProperties, TLAPS

HoldsClaim == {"checking", "creating", "committing"}

\* A key is claimed by one request at a time, and only while its row stores no outcome.
ClaimsAreExclusive ==
    /\ \A c \in Clients : tx[c].stage # "idle" => tx[c].key \in Keys
    /\ \A c \in Clients : tx[c].stage \in HoldsClaim => dedupe[tx[c].key] = "none"
    /\ \A c, d \in Clients :
          tx[c].stage \in HoldsClaim /\ tx[d].stage \in HoldsClaim /\ tx[c].key = tx[d].key
          => c = d

\* An instance that is being created is free, and one request creates it.
CreationsAreExclusive ==
    /\ \A c \in Clients : tx[c].outcome # "none" <=> tx[c].stage = "committing"
    /\ \A c \in Clients : tx[c].outcome = "completed" => instance[Instance[tx[c].key]] = None
    /\ \A c, d \in Clients :
          /\ tx[c].outcome = "completed" /\ tx[d].outcome = "completed"
          /\ Instance[tx[c].key] = Instance[tx[d].key]
          => c = d

\* The inductive invariant.
Inv == TypeOK /\ ClaimsAreExclusive /\ CreationsAreExclusive /\ AnswersAgree /\ RunIsAnswered

---------------------------------------------------------------------------
LEMMA InitInv == Init => Inv
<1> SUFFICES ASSUME Init
             PROVE  Inv
  OBVIOUS
<1>1. Idle \in Request
  BY DEF Idle, Request, Stages
<1>2. TypeOK
  BY <1>1, AllowedBudget DEF Init, TypeOK, Rows, Entries
<1>3. ClaimsAreExclusive /\ CreationsAreExclusive
  BY DEF Init, ClaimsAreExclusive, CreationsAreExclusive, HoldsClaim, Idle
<1>4. AnswersAgree /\ RunIsAnswered
  BY DEF Init, AnswersAgree, RunIsAnswered
<1>5. QED
  BY <1>2, <1>3, <1>4 DEF Inv

\* Budgets are spent down to zero.
LEMMA SpendType ==
  ASSUME budget \in [BudgetKinds -> Nat], NEW kind \in BudgetKinds, Spend(kind)
  PROVE  budget' \in [BudgetKinds -> Nat]
BY DEF Spend

\* A step that changes one request: what its client's row becomes, and all others keep.
LEMMA RequestUpdate ==
  ASSUME TypeOK, NEW c \in Clients, NEW r \in Request, tx' = [tx EXCEPT ![c] = r]
  PROVE  /\ tx' \in [Clients -> Request]
         /\ tx'[c] = r
         /\ \A d \in Clients : d # c => tx'[d] = tx[d]
BY DEF TypeOK

LEMMA MoveUpdate ==
  ASSUME TypeOK, NEW c \in Clients, NEW stage \in Stages, Move(c, stage)
  PROVE  /\ tx' \in [Clients -> Request]
         /\ tx'[c].stage = stage /\ tx'[c].key = tx[c].key /\ tx'[c].outcome = tx[c].outcome
         /\ \A d \in Clients : d # c => tx'[d] = tx[d]
<1>1. tx[c] \in Request
  BY DEF TypeOK
<1>2. [tx[c] EXCEPT !.stage = stage] \in Request
  BY <1>1 DEF Request
<1>3. tx' = [tx EXCEPT ![c] = [tx[c] EXCEPT !.stage = stage]]
  BY DEF Move
<1>4. QED
  BY <1>1, <1>2, <1>3, RequestUpdate DEF Request

LEMMA FinishUpdate ==
  ASSUME TypeOK, NEW c \in Clients, Finish(c)
  PROVE  /\ tx' \in [Clients -> Request]
         /\ tx'[c].stage = "idle" /\ tx'[c].outcome = "none"
         /\ \A d \in Clients : d # c => tx'[d] = tx[d]
<1>1. Idle \in Request
  BY DEF Idle, Request, Stages
<1>2. QED
  BY <1>1, RequestUpdate DEF Finish, Idle

\* A request that begins, goes on without having stored anything, or is rolled back,
\* disturbs nothing: it holds a key only if nobody else does and nothing is stored, and
\* creates an instance only if it is free and nobody else does.
LEMMA RequestFrame ==
  ASSUME Inv, NEW c \in Clients,
         tx' \in [Clients -> Request],
         \A d \in Clients : d # c => tx'[d] = tx[d],
         tx'[c].stage # "idle" => tx'[c].key \in Keys,
         tx'[c].stage \in HoldsClaim =>
            /\ dedupe[tx'[c].key] = "none"
            /\ \/ tx[c].stage \in HoldsClaim /\ tx'[c].key = tx[c].key
               \/ ~Claimed(tx'[c].key),
         tx'[c].outcome # "none" <=> tx'[c].stage = "committing",
         tx'[c].outcome = "completed" =>
            /\ instance[Instance[tx'[c].key]] = None
            /\ ~Creating(Instance[tx'[c].key]),
         UNCHANGED <<dedupe, instance>>
  PROVE  ClaimsAreExclusive' /\ CreationsAreExclusive'
<1>1. ClaimsAreExclusive'
  BY DEF Inv, ClaimsAreExclusive, HoldsClaim, Claimed
<1>2. CreationsAreExclusive'
  BY DEF Inv, CreationsAreExclusive, Creating
<1>3. QED
  BY <1>1, <1>2

LEMMA StoreFrame ==
  ASSUME Inv, UNCHANGED <<dedupe, instance, heard, reaped>>
  PROVE  AnswersAgree' /\ RunIsAnswered'
BY DEF Inv, AnswersAgree, RunIsAnswered

LEMMA ClaimSteps ==
  ASSUME Inv, NEW c \in Clients,
         (\E k \in Keys : Send(c, k)) \/ InsertClaim(c) \/ LockRow(c)
  PROVE  Inv'
<1> USE DEF Inv
<1>1. CASE \E k \in Keys : Send(c, k)
  <2>1. PICK k \in Keys : Send(c, k)
    BY <1>1
  <2> DEFINE r == [Idle EXCEPT !.stage = "inserting", !.key = k]
  <2>2. r \in Request /\ r.stage = "inserting" /\ r.key = k /\ r.outcome = "none"
    <3>1. Idle \in Request /\ Idle.outcome = "none"
      BY DEF Idle, Request, Stages
    <3>2. QED
      BY <3>1 DEF Request, Stages
  <2>3. tx' = [tx EXCEPT ![c] = r]
    BY <2>1 DEF Send
  <2>4. /\ tx' \in [Clients -> Request] /\ tx'[c] = r
        /\ \A d \in Clients : d # c => tx'[d] = tx[d]
    BY <2>2, <2>3, RequestUpdate
  <2>5. budget' \in [BudgetKinds -> Nat]
    BY <2>1, SpendType DEF Send, BudgetKinds, TypeOK
  <2>6. TypeOK'
    BY <2>1, <2>4, <2>5 DEF Send, TypeOK
  <2>7. ClaimsAreExclusive' /\ CreationsAreExclusive'
    BY <2>1, <2>2, <2>4, RequestFrame, ZenonT(180) DEF Send, HoldsClaim
  <2>8. QED
    BY <2>1, <2>6, <2>7, StoreFrame DEF Send
<1>2. CASE InsertClaim(c)
  <2> DEFINE k == tx[c].key
             stage == IF dedupe[k] = "none" THEN "checking" ELSE "locking"
  <2>1. stage \in Stages /\ k \in Keys
    BY <1>2 DEF InsertClaim, Stages, ClaimsAreExclusive
  <2>2. Move(c, stage)
    BY <1>2 DEF InsertClaim
  <2>3. /\ tx' \in [Clients -> Request]
        /\ tx'[c].stage = stage /\ tx'[c].key = k /\ tx'[c].outcome = tx[c].outcome
        /\ \A d \in Clients : d # c => tx'[d] = tx[d]
    BY <2>1, <2>2, MoveUpdate
  <2>4. tx[c].outcome = "none"
    BY <1>2 DEF InsertClaim, CreationsAreExclusive
  <2>5. TypeOK'
    BY <1>2, <2>3 DEF InsertClaim, TypeOK
  <2>6. ClaimsAreExclusive' /\ CreationsAreExclusive'
    BY <1>2, <2>1, <2>3, <2>4, RequestFrame DEF InsertClaim, HoldsClaim
  <2>7. QED
    BY <1>2, <2>5, <2>6, StoreFrame DEF InsertClaim
<1>3. CASE LockRow(c)
  <2> DEFINE k == tx[c].key
  <2>1. k \in Keys /\ tx[c] \in Request /\ tx[c].stage = "locking" /\ tx[c].outcome = "none"
    BY <1>3 DEF LockRow, ClaimsAreExclusive, CreationsAreExclusive, TypeOK
  <2>2. dedupe[k] # "none" => Finalized(k)
    BY <2>1 DEF Finalized, TypeOK, Rows
  <2>3. \/ /\ tx' = [tx EXCEPT ![c].stage = "inserting", ![c].tries = @ + 1]
           /\ SecondRound(c) /\ UNCHANGED heard
        \/ Finish(c) /\ UNCHANGED heard
        \/ Finish(c) /\ Tell(k, dedupe[k]) /\ dedupe[k] \in Outcomes
    BY <1>3, <2>2 DEF LockRow, Finalized
  <2>4. /\ tx' \in [Clients -> Request]
        /\ tx'[c].stage \in {"inserting", "idle"} /\ tx'[c].outcome = "none"
        /\ tx'[c].stage # "idle" => tx'[c].key = k
        /\ \A d \in Clients : d # c => tx'[d] = tx[d]
    <3>1. CASE Finish(c)
      BY <3>1, FinishUpdate
    <3>2. CASE SecondRound(c) /\ tx' = [tx EXCEPT ![c].stage = "inserting", ![c].tries = @ + 1]
      <4> DEFINE r == [tx[c] EXCEPT !.stage = "inserting", !.tries = tx[c].tries + 1]
      <4>1. tx[c].tries + 1 \in 0..1
        BY <2>1, <3>2 DEF SecondRound, Request
      <4>2. r \in Request /\ r.stage = "inserting" /\ r.key = k /\ r.outcome = "none"
        BY <2>1, <4>1 DEF Request, Stages
      <4>3. tx' = [tx EXCEPT ![c] = r]
        BY <3>2
      <4>4. QED
        BY <4>2, <4>3, RequestUpdate
    <3>3. QED
      BY <2>3, <3>1, <3>2
  <2>5. heard' \in [Keys -> SUBSET Outcomes] /\ AnswersAgree'
    <3>1. CASE UNCHANGED heard
      BY <1>3, <3>1 DEF LockRow, AnswersAgree, TypeOK
    <3>2. CASE Tell(k, dedupe[k]) /\ dedupe[k] \in Outcomes
      <4>1. heard'[k] = heard[k] \cup {dedupe[k]} /\ \A j \in Keys : j # k => heard'[j] = heard[j]
        BY <2>1, <3>2 DEF Tell, TypeOK
      <4>2. heard' \in [Keys -> SUBSET Outcomes]
        BY <2>1, <3>2 DEF Tell, TypeOK
      <4>3. QED
        BY <1>3, <4>1, <4>2 DEF LockRow, AnswersAgree
    <3>3. QED
      BY <2>3, <3>1, <3>2
  <2>6. TypeOK'
    BY <1>3, <2>4, <2>5 DEF LockRow, TypeOK
  <2>7. ClaimsAreExclusive' /\ CreationsAreExclusive'
    BY <1>3, <2>1, <2>4, RequestFrame DEF LockRow, HoldsClaim
  <2>8. RunIsAnswered'
    BY <1>3 DEF LockRow, RunIsAnswered
  <2>9. QED
    BY <2>5, <2>6, <2>7, <2>8
<1>4. QED
  BY <1>1, <1>2, <1>3

LEMMA RunSteps ==
  ASSUME Inv, NEW c \in Clients, CheckDefinition(c) \/ CreateInstance(c)
  PROVE  Inv'
<1> USE DEF Inv
<1> DEFINE k == tx[c].key
<1>1. /\ k \in Keys /\ tx[c] \in Request /\ tx[c].outcome = "none" /\ dedupe[k] = "none"
      /\ tx[c].stage \in HoldsClaim
      /\ Instance[k] \in Instances
  BY RequestsAskForSomething
     DEF CheckDefinition, CreateInstance, ClaimsAreExclusive, CreationsAreExclusive, HoldsClaim, TypeOK
<1>2. \E r \in Request :
        /\ tx' = [tx EXCEPT ![c] = r]
        /\ r.key = k
        /\ \/ r.stage = "creating" /\ r.outcome = "none"
           \/ r.stage = "committing" /\ r.outcome \in Outcomes
        /\ r.outcome = "completed" => instance[Instance[k]] = None /\ ~Creating(Instance[k])
  <2>1. CASE CheckDefinition(c)
    <3>1. CASE catalog[Definition[k]] = "live"
      <4> DEFINE r == [tx[c] EXCEPT !.stage = "creating"]
      <4>1. r \in Request /\ r.stage = "creating" /\ r.key = k /\ r.outcome = "none"
        BY <1>1 DEF Request, Stages
      <4>2. tx' = [tx EXCEPT ![c] = r]
        BY <2>1, <3>1 DEF CheckDefinition
      <4>3. QED
        BY <4>1, <4>2
    <3>2. CASE catalog[Definition[k]] # "live"
      <4> DEFINE r == [tx[c] EXCEPT !.stage = "committing", !.outcome = "definition_not_registered"]
      <4>1. /\ r \in Request /\ r.stage = "committing" /\ r.key = k
            /\ r.outcome = "definition_not_registered"
        BY <1>1 DEF Request, Stages, Outcomes
      <4>2. tx' = [tx EXCEPT ![c] = r]
        BY <2>1, <3>2 DEF CheckDefinition
      <4>3. QED
        BY <4>1, <4>2 DEF Outcomes
    <3>3. QED
      BY <3>1, <3>2
  <2>2. CASE CreateInstance(c)
    <3> DEFINE outcome == IF Taken(Instance[k]) THEN "instance_conflict" ELSE "completed"
               r == [tx[c] EXCEPT !.stage = "committing", !.outcome = outcome]
    <3>1. r \in Request /\ r.stage = "committing" /\ r.key = k /\ r.outcome = outcome
      BY <1>1 DEF Request, Stages, Outcomes
    <3>2. tx' = [tx EXCEPT ![c] = r]
      BY <2>2 DEF CreateInstance
    <3>3. r.outcome = "completed" => instance[Instance[k]] = None /\ ~Creating(Instance[k])
      BY <2>2, <3>1 DEF CreateInstance, Taken
    <3>4. QED
      BY <3>1, <3>2, <3>3 DEF Outcomes
  <2>3. QED
    BY <2>1, <2>2
<1>3. PICK r \in Request :
        /\ tx' = [tx EXCEPT ![c] = r]
        /\ r.key = k
        /\ \/ r.stage = "creating" /\ r.outcome = "none"
           \/ r.stage = "committing" /\ r.outcome \in Outcomes
        /\ r.outcome = "completed" => instance[Instance[k]] = None /\ ~Creating(Instance[k])
  BY <1>2
<1>4. /\ tx' \in [Clients -> Request] /\ tx'[c] = r
      /\ \A d \in Clients : d # c => tx'[d] = tx[d]
  BY <1>3, RequestUpdate
<1>5. UNCHANGED <<dedupe, instance, catalog, up, heard, reaped, budget>>
  BY DEF CheckDefinition, CreateInstance
<1>6. TypeOK'
  BY <1>4, <1>5 DEF TypeOK
<1>7. r.stage \in HoldsClaim /\ (r.outcome # "none" <=> r.stage = "committing")
  BY <1>3 DEF HoldsClaim, Outcomes
<1>8. ClaimsAreExclusive' /\ CreationsAreExclusive'
  BY <1>1, <1>3, <1>4, <1>5, <1>7, RequestFrame
<1>9. QED
  BY <1>5, <1>6, <1>8, StoreFrame

\* The outcome is stored: a run only if the instance is free.
LEMMA ApplyStep ==
  ASSUME Inv, NEW c \in Clients, tx[c].stage = "committing", Apply(c), Finish(c)
  PROVE  /\ dedupe' \in [Keys -> Rows] /\ instance' \in [Instances -> Keys \cup {None}]
         /\ ClaimsAreExclusive' /\ CreationsAreExclusive'
         /\ reaped' = reaped => RunIsAnswered'
         /\ \A i \in Instances : instance[i] # None => instance'[i] = instance[i]
<1> DEFINE k == tx[c].key
           o == tx[c].outcome
<1>1. /\ k \in Keys /\ dedupe[k] = "none" /\ Instance[k] \in Instances
      /\ o = "completed" => instance[Instance[k]] = None
      /\ o \in Outcomes
  <2>1. tx[c] \in Request /\ tx[c].stage \in HoldsClaim /\ o # "none"
    BY DEF Inv, TypeOK, CreationsAreExclusive, HoldsClaim
  <2>2. o \in Outcomes
    BY <2>1 DEF Request
  <2>3. QED
    BY <2>1, <2>2, RequestsAskForSomething DEF Inv, ClaimsAreExclusive, CreationsAreExclusive
<1>2. /\ dedupe' \in [Keys -> Rows]
      /\ dedupe'[k] = o /\ \A j \in Keys : j # k => dedupe'[j] = dedupe[j]
  BY <1>1 DEF Apply, Inv, TypeOK, Rows
<1>3. /\ instance' \in [Instances -> Keys \cup {None}]
      /\ o = "completed" => instance'[Instance[k]] = k
      /\ \A i \in Instances : o # "completed" \/ i # Instance[k] => instance'[i] = instance[i]
  BY <1>1 DEF Apply, Inv, TypeOK
<1>4. /\ tx'[c].stage = "idle" /\ tx'[c].outcome = "none"
      /\ \A d \in Clients : d # c => tx'[d] = tx[d]
  BY FinishUpdate DEF Inv
<1>5. ClaimsAreExclusive'
  <2>1. \A d \in Clients : d # c /\ tx[d].stage \in HoldsClaim => tx[d].key # k
    BY DEF Inv, ClaimsAreExclusive, HoldsClaim
  <2>2. \A d \in Clients : tx[d].stage \in HoldsClaim => tx[d].stage # "idle"
    BY DEF HoldsClaim
  <2>3. \A d \in Clients : tx'[d].stage \in HoldsClaim => dedupe'[tx'[d].key] = "none"
    BY <1>2, <1>4, <2>1, <2>2 DEF Inv, ClaimsAreExclusive, HoldsClaim
  <2>4. QED
    BY <1>4, <2>2, <2>3 DEF Inv, ClaimsAreExclusive, HoldsClaim
<1>6. CreationsAreExclusive'
  <2>1. \A d \in Clients : d # c /\ tx[d].outcome = "completed" =>
           /\ tx[d].key \in Keys /\ Instance[tx[d].key] \in Instances
           /\ o = "completed" => Instance[tx[d].key] # Instance[k]
    BY RequestsAskForSomething DEF Inv, ClaimsAreExclusive, CreationsAreExclusive
  <2>2. \A d \in Clients : tx'[d].outcome = "completed" => instance'[Instance[tx'[d].key]] = None
    BY <1>3, <1>4, <2>1 DEF Inv, CreationsAreExclusive
  <2>3. QED
    BY <1>4, <2>2 DEF Inv, CreationsAreExclusive
<1>7. ASSUME reaped' = reaped
      PROVE  RunIsAnswered'
  <2>1. ASSUME NEW j \in Keys, dedupe'[j] = "completed"
        PROVE  instance'[Instance[j]] = j
    <3>1. CASE j = k
      BY <1>2, <1>3, <2>1, <3>1
    <3>2. CASE j # k
      <4>1. instance[Instance[j]] = j /\ Instance[j] \in Instances /\ j # None
        BY <1>2, <2>1, <3>2, RequestsAskForSomething, NoneIsNoKey DEF Inv, RunIsAnswered
      <4>2. QED
        BY <1>1, <1>3, <4>1
    <3>3. QED
      BY <3>1, <3>2
  <2>2. ASSUME NEW i \in Instances, instance'[i] # None
        PROVE  /\ Instance[instance'[i]] = i
               /\ dedupe'[instance'[i]] = "completed" \/ instance'[i] \in reaped'
    <3>1. CASE o = "completed" /\ i = Instance[k]
      BY <1>2, <1>3, <3>1
    <3>2. CASE ~(o = "completed" /\ i = Instance[k])
      <4>1. instance'[i] = instance[i] /\ instance[i] \in Keys
        BY <1>3, <2>2, <3>2 DEF Inv, TypeOK
      <4>2. dedupe[instance[i]] = "completed" \/ instance[i] \in reaped
        BY <2>2, <4>1 DEF Inv, RunIsAnswered
      <4>3. Instance[instance[i]] = i
        BY <2>2, <4>1 DEF Inv, RunIsAnswered
      <4>4. QED
        BY <1>1, <1>2, <1>7, <4>1, <4>2, <4>3
    <3>3. QED
      BY <3>1, <3>2
  <2>3. QED
    BY <2>1, <2>2 DEF RunIsAnswered
<1>8. \A i \in Instances : instance[i] # None => instance'[i] = instance[i]
  BY <1>1, <1>3
<1>9. QED
  BY <1>2, <1>3, <1>5, <1>6, <1>7, <1>8

LEMMA EndSteps ==
  ASSUME Inv, NEW c \in Clients, Commit(c) \/ CommitLost(c) \/ Abort(c)
  PROVE  Inv'
<1> DEFINE k == tx[c].key
<1>1. /\ tx' \in [Clients -> Request] /\ tx'[c].stage = "idle" /\ tx'[c].outcome = "none"
      /\ \A d \in Clients : d # c => tx'[d] = tx[d]
  BY FinishUpdate DEF Inv, Commit, CommitLost, Abort
<1>2. CASE Commit(c)
  <2>1. /\ dedupe' \in [Keys -> Rows] /\ instance' \in [Instances -> Keys \cup {None}]
        /\ ClaimsAreExclusive' /\ CreationsAreExclusive' /\ RunIsAnswered'
    BY <1>2, ApplyStep DEF Commit
  <2>2. /\ k \in Keys /\ dedupe[k] = "none" /\ tx[c].outcome \in Outcomes
    <3>1. tx[c] \in Request /\ tx[c].outcome # "none" /\ tx[c].stage \in HoldsClaim
      BY <1>2 DEF Commit, Inv, TypeOK, CreationsAreExclusive, HoldsClaim
    <3>2. tx[c].outcome \in Outcomes
      BY <3>1 DEF Request
    <3>3. QED
      BY <1>2, <3>1, <3>2 DEF Commit, Inv, ClaimsAreExclusive
  <2>3. heard[k] = {}
    BY <2>2 DEF Inv, TypeOK, AnswersAgree, Outcomes
  <2>4. /\ heard' \in [Keys -> SUBSET Outcomes]
        /\ heard'[k] = {tx[c].outcome} /\ \A j \in Keys : j # k => heard'[j] = heard[j]
    BY <1>2, <2>2, <2>3 DEF Commit, Tell, Inv, TypeOK
  <2>5. dedupe'[k] = tx[c].outcome /\ \A j \in Keys : j # k => dedupe'[j] = dedupe[j]
    BY <1>2, <2>2 DEF Commit, Apply, Inv, TypeOK
  <2>6. AnswersAgree'
    BY <2>4, <2>5 DEF Inv, AnswersAgree
  <2>7. TypeOK'
    BY <1>1, <1>2, <2>1, <2>4 DEF Commit, Inv, TypeOK
  <2>8. QED
    BY <2>1, <2>6, <2>7 DEF Inv
<1>3. CASE CommitLost(c)
  <2>1. /\ dedupe' \in [Keys -> Rows] /\ instance' \in [Instances -> Keys \cup {None}]
        /\ ClaimsAreExclusive' /\ CreationsAreExclusive' /\ RunIsAnswered'
    BY <1>3, ApplyStep DEF CommitLost
  <2>2. k \in Keys /\ dedupe[k] = "none"
    BY <1>3 DEF CommitLost, Inv, ClaimsAreExclusive, HoldsClaim
  <2>3. heard[k] = {}
    BY <2>2 DEF Inv, TypeOK, AnswersAgree, Outcomes
  <2>4. \A j \in Keys : j # k => dedupe'[j] = dedupe[j]
    BY <1>3, <2>2 DEF CommitLost, Apply, Inv, TypeOK
  <2>5. AnswersAgree'
    BY <1>3, <2>3, <2>4 DEF CommitLost, Inv, AnswersAgree
  <2>6. budget' \in [BudgetKinds -> Nat]
    BY <1>3, SpendType DEF CommitLost, BudgetKinds, Inv, TypeOK
  <2>7. TypeOK'
    BY <1>1, <1>3, <2>1, <2>6 DEF CommitLost, Inv, TypeOK
  <2>8. QED
    BY <2>1, <2>5, <2>7 DEF Inv
<1>4. CASE Abort(c)
  <2>1. budget' \in [BudgetKinds -> Nat]
    BY <1>4, SpendType DEF Abort, BudgetKinds, Inv, TypeOK
  <2>2. TypeOK'
    BY <1>1, <1>4, <2>1 DEF Abort, Inv, TypeOK
  <2>3. ClaimsAreExclusive' /\ CreationsAreExclusive'
    BY <1>1, <1>4, RequestFrame DEF Abort, HoldsClaim
  <2>4. AnswersAgree' /\ RunIsAnswered'
    BY <1>4, StoreFrame DEF Abort
  <2>5. QED
    BY <2>2, <2>3, <2>4 DEF Inv
<1>5. QED
  BY <1>2, <1>3, <1>4

LEMMA ReapStep ==
  ASSUME Inv, NEW k \in Keys, Reap(k)
  PROVE  Inv'
<1>1. /\ dedupe' \in [Keys -> Rows] /\ dedupe'[k] = "none"
      /\ \A j \in Keys : j # k => dedupe'[j] = dedupe[j]
  BY DEF Reap, Inv, TypeOK, Rows
<1>2. /\ heard' \in [Keys -> SUBSET Outcomes] /\ heard'[k] = {}
      /\ \A j \in Keys : j # k => heard'[j] = heard[j]
  BY DEF Reap, Inv, TypeOK
<1>3. budget' \in [BudgetKinds -> Nat]
  BY SpendType DEF Reap, BudgetKinds, Inv, TypeOK
<1>4. TypeOK'
  BY <1>1, <1>2, <1>3 DEF Reap, Inv, TypeOK
<1>5. ClaimsAreExclusive'
  BY <1>1 DEF Reap, Inv, ClaimsAreExclusive, HoldsClaim
<1>6. CreationsAreExclusive'
  BY DEF Reap, Inv, CreationsAreExclusive
<1>7. AnswersAgree'
  BY <1>1, <1>2 DEF Inv, AnswersAgree
<1>8. RunIsAnswered'
  <2>1. \A j \in Keys : dedupe'[j] = "completed" => instance'[Instance[j]] = j
    BY <1>1 DEF Reap, Inv, RunIsAnswered
  <2>2. ASSUME NEW i \in Instances, instance'[i] # None
        PROVE  /\ Instance[instance'[i]] = i
               /\ dedupe'[instance'[i]] = "completed" \/ instance'[i] \in reaped'
    <3>1. instance'[i] = instance[i] /\ instance[i] \in Keys /\ reaped' = reaped \cup {k}
      BY <2>2 DEF Reap, Inv, TypeOK
    <3>2. /\ Instance[instance[i]] = i
          /\ dedupe[instance[i]] = "completed" \/ instance[i] \in reaped
      BY <2>2, <3>1 DEF Inv, RunIsAnswered
    <3>3. QED
      BY <1>1, <3>1, <3>2
  <2>3. QED
    BY <2>1, <2>2 DEF RunIsAnswered
<1>9. QED
  BY <1>4, <1>5, <1>6, <1>7, <1>8 DEF Inv

LEMMA CatalogSteps ==
  ASSUME Inv,
         \/ \E r \in Runtimes : StartRuntime(r) \/ StopRuntime(r) \/ HeartbeatDefinitions(r)
         \/ \E d \in Definitions : WindowPasses(d)
  PROVE  Inv'
<1>1. UNCHANGED <<dedupe, instance, tx, heard, reaped>>
  BY DEF StartRuntime, StopRuntime, HeartbeatDefinitions, WindowPasses
<1>2. catalog' \in [Definitions -> Entries] /\ up' \subseteq Runtimes
  BY DEF StartRuntime, StopRuntime, HeartbeatDefinitions, Touched, WindowPasses, Inv, TypeOK, Entries
<1>3. budget' \in [BudgetKinds -> Nat]
  BY SpendType DEF StartRuntime, StopRuntime, HeartbeatDefinitions, WindowPasses, BudgetKinds, Inv, TypeOK
<1>4. TypeOK'
  BY <1>1, <1>2, <1>3 DEF Inv, TypeOK
<1>5. ClaimsAreExclusive' /\ CreationsAreExclusive'
  BY <1>1 DEF Inv, ClaimsAreExclusive, CreationsAreExclusive
<1>6. QED
  BY <1>1, <1>4, <1>5, StoreFrame DEF Inv

LEMMA StutterStep == Inv /\ UNCHANGED vars => Inv'
BY DEF Inv, vars, TypeOK, ClaimsAreExclusive, CreationsAreExclusive, AnswersAgree, RunIsAnswered

LEMMA NextInv == Inv /\ [Next]_vars => Inv'
<1> SUFFICES ASSUME Inv, [Next]_vars
             PROVE  Inv'
  OBVIOUS
<1>1. CASE \E c \in Clients, k \in Keys : Send(c, k)
  BY <1>1, ClaimSteps
<1>2. CASE \E c \in Clients : RequestStep(c) \/ CommitLost(c) \/ Abort(c)
  BY <1>2, ClaimSteps, RunSteps, EndSteps DEF RequestStep
<1>3. CASE \E k \in Keys : Reap(k)
  BY <1>3, ReapStep
<1>4. CASE \/ \E r \in Runtimes : StartRuntime(r) \/ StopRuntime(r) \/ HeartbeatDefinitions(r)
           \/ \E d \in Definitions : WindowPasses(d)
  BY <1>4, CatalogSteps
<1>5. CASE UNCHANGED vars
  BY <1>5, StutterStep
<1>6. QED
  BY <1>1, <1>2, <1>3, <1>4, <1>5 DEF Next

\* Every reachable state is typed.
THEOREM TypesAreCorrect == Spec => []TypeOK
<1>1. Inv => TypeOK
  BY DEF Inv
<1>2. QED
  BY <1>1, InitInv, NextInv, PTL DEF Spec

\* All answers to a request key are the same: the row's lock and the commit of claim,
\* run and outcome in one transaction (StartRun, claimStartRequestDedupe) are enough,
\* for any number of requests, rollbacks, lost answers and reaped rows.
THEOREM OneAnswerPerKey == Spec => []AnswersAgree
<1>1. Inv => AnswersAgree
  BY DEF Inv
<1>2. QED
  BY <1>1, InitInv, NextInv, PTL DEF Spec

\* A key that is answered with a run has started it, and a run's key cannot be used
\* again before retention has deleted its row.
THEOREM RunsAreAnswered == Spec => []RunIsAnswered
<1>1. Inv => RunIsAnswered
  BY DEF Inv
<1>2. QED
  BY <1>1, InitInv, NextInv, PTL DEF Spec

\* An instance keeps its run, even when its key is forgotten and used again.
THEOREM InstancesAreFinal == Spec => InstanceIsFinal
<1> DEFINE Final == \A i \in Instances : instance[i] # None => instance'[i] = instance[i]
<1>1. ASSUME Inv, [Next]_vars
      PROVE  Final \/ UNCHANGED vars
  <2>1. CASE \E c \in Clients : Commit(c) \/ CommitLost(c)
    BY <1>1, <2>1, ApplyStep DEF Commit, CommitLost
  <2>2. CASE UNCHANGED instance
    BY <2>2
  <2>3. CASE UNCHANGED vars
    BY <2>3
  <2>4. QED
    BY <1>1, <2>1, <2>2, <2>3, Zenon
       DEF Next, RequestStep, Send, InsertClaim, LockRow, CheckDefinition, CreateInstance, Abort,
           Reap, StartRuntime, StopRuntime, HeartbeatDefinitions, WindowPasses
<1>2. QED
  BY <1>1, InitInv, NextInv, PTL DEF Spec, InstanceIsFinal
=============================================================================

------------------------ MODULE ParentChildProperties ------------------------
(***************************************************************************)
(* What families of runs promise.                                          *)
(***************************************************************************)
EXTENDS ParentChild

\* A parent never waits for a child it can already hear from: the child's end, its
\* continuation past the limit and a terminate each wake the parent, whatever the
\* order of the commits (lockRunAfterParent: "no wake is lost", activation.go:166).
WaitsForOpenChild ==
    \A r \in Runs :
        runs[r].status = "waiting" /\ runs[r].call \in Instances =>
            LET c == runs[r].call
            IN /\ children[c].parent = r
               /\ children[c].status = "active"
               /\ ~children[c].waitFailed
               /\ children[c].continuations < MaxContinuationFollowDepth
               /\ IsOpen(Current(c))

\* What the parent's history says of a child is what became of it, and a child that
\* its parent has given up is never heard of in another way (replay.go:1394).
HeardIsTheChildsEnd ==
    \A c \in Instances :
        /\ children[c].heard \in Outcomes =>
             /\ ~children[c].waitFailed
             /\ children[c].status = children[c].heard
             /\ runs[Current(c)].status = children[c].heard
        /\ children[c].heard = "wait_failed" <=> children[c].waitFailed

\* An instance has one open run at most, its newest; the relationship follows it
\* through continuations, and is active exactly as long as it is open
\* (activation.go:411, UpdateChildWorkflowContinuation, UpdateChildWorkflowTerminal).
RelationshipFollowsChild ==
    \A c \in Instances \ Roots :
        /\ (children[c].status = "none") <=> (runs[First(c)].status = "none")
        /\ \A n \in 1..MaxNumber :
             /\ n < children[c].current => runs[<<c, n>>].status = "continued_as_new"
             /\ n > children[c].current => runs[<<c, n>>].status = "none"
        /\ children[c].status = "active" => IsOpen(Current(c))
        /\ children[c].status \in Outcomes => runs[Current(c)].status = children[c].status

\* A terminate takes the whole active subtree with it, whatever runs are added below
\* the target while it waits for its locks (TerminateRun, engine_control.go:941).
TerminateReachesSubtree ==
    \A r \in Runs : runs[r].status = "terminated" => ActiveChildren(r) = {}

\* When a function answers its cancellation with ErrCancelled, every child that is
\* still active has been asked to cancel too, in some run of its chain
\* (enqueueChildCancelCascade).
CancelIsPassedOn ==
    \A r \in Runs : runs[r].status = "cancelled" =>
        \A c \in ActiveChildren(r) : \E n \in 1..children[c].current : runs[<<c, n>>].cancelSent

\* The order in which run rows are locked: ancestors first, then by id.
Before(p, q) ==
    \/ runs[p].depth < runs[q].depth
    \/ runs[p].depth = runs[q].depth /\ Rank[p] < Rank[q]

\* The rows that a process that holds `held' waits for.
WantedByWorker(w) ==
    CASE worker[w].pc = "claimed" -> {runs[worker[w].run].parent} \ {None}
      [] worker[w].pc = "parentLocked" -> {worker[w].run}
      [] OTHER -> {}
WantedByClient(k) ==
    CASE client[k].pc = "begun" -> {runs[client[k].target].parent} \ {None}
      [] client[k].pc = "parentLocked" -> {client[k].target}
      [] OTHER -> {r \in client[k].listed : NextOfLevel(r, client[k].listed)}

\* Activations and terminates take run rows in one global order, so no two of them
\* ever wait for each other (lockRunAfterParent: "Lock order for parent/child work,
\* shared by every engine and platform path", activation.go:150).
LocksAreOrdered ==
    /\ \A w \in Workers : \A p \in WorkerLocks(w), q \in WantedByWorker(w) : Before(p, q)
    /\ \A k \in Clients : \A p \in client[k].locked, q \in WantedByClient(k) : Before(p, q)

\* A run that has nothing to do until something outside its family happens.
Rests(r) ==
    \/ ~IsOpen(r)
    \/ /\ runs[r].status = "waiting"
       /\ \/ runs[r].call = "signal" /\ ~HasSignal(runs[r])
          \/ runs[r].call \in Instances /\ IsOpen(Current(runs[r].call))

\* Across crashes, cancels, terminates and continuations a family is driven on until
\* every run has ended or waits, itself or for a descendant, for a signal.
FamilyRests == <>[](\A r \in Runs : Rests(r))
=============================================================================

-------------------------- MODULE DurableExecution --------------------------
(***************************************************************************)
(* What the engine promises a workflow author: the context calls of the    *)
(* function take effect one after the other, each at most once, as if one  *)
(* process had executed the function without interruption.  Workers,       *)
(* claims, retries, crashes and the inbox are not mentioned.               *)
(***************************************************************************)
EXTENDS Integers, Sequences, FiniteSets

CONSTANTS
    Program, \* the context calls of the function: records with op and key
    Handled  \* the activities whose error the function handles and goes on after

VARIABLES
    journal, \* the calls that have taken effect, in order
    outcome  \* "open", or how the run ended

dvars == <<journal, outcome>>

\* The calls that take effect once; the others only read.
EffectCalls == {i \in 1..Len(Program) : Program[i].op # "checkCancel"}

\* How many effects precede the i-th call.
Before(i) == Cardinality({j \in EffectCalls : j < i})

Effects ==
    [n \in 1..Cardinality(EffectCalls) |->
       Program[CHOOSE i \in EffectCalls : Before(i) + 1 = n]]

\* How many effects precede each point at which the function may observe a
\* cancellation and return.
CancelPoints == {Before(i) : i \in 1..Len(Program) \ EffectCalls}

Init == journal = <<>> /\ outcome = "open"

\* The effects whose failure does not end the function.
MayFail == {i \in 1..Len(Effects) : Effects[i].op = "activity" /\ Effects[i].key \in Handled}

\* The journal grows to the first n effects; of the new ones `failures' failed.
GrowTo(n, failures) ==
    journal' = [i \in 1..n |->
                  IF i <= Len(journal) THEN journal[i]
                  ELSE [op |-> Effects[i].op, key |-> Effects[i].key, ok |-> i \notin failures]]

Reachable == Len(journal)..Len(Effects)

Advance ==
    \E n \in Reachable, failures \in SUBSET MayFail :
      /\ n > Len(journal)
      /\ GrowTo(n, failures)
      /\ UNCHANGED outcome

Complete ==
    \E failures \in SUBSET MayFail :
      GrowTo(Len(Effects), failures) /\ outcome' = "completed"

\* An activity has failed, and the function returns its error.
Fail ==
    \E n \in Reachable, failures \in SUBSET MayFail :
      /\ n > Len(journal)
      /\ Effects[n].op = "activity" /\ n \notin MayFail
      /\ GrowTo(n, failures \cup {n})
      /\ outcome' = "failed"

Cancel ==
    \E n \in Reachable \cap CancelPoints, failures \in SUBSET MayFail :
      GrowTo(n, failures) /\ outcome' = "cancelled"

Terminate == outcome' = "terminated" /\ UNCHANGED journal

Next == outcome = "open" /\ (Advance \/ Complete \/ Fail \/ Cancel \/ Terminate)

Spec == Init /\ [][Next]_dvars
=============================================================================

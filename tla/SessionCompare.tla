--------------------------- MODULE SessionCompare ---------------------------
(***************************************************************************)
(* The comparison of two traces of a session (internal/store/              *)
(* session_compare.go): the checks and statements of the request, each of  *)
(* which reads what has been committed by then, and the algorithm that     *)
(* pairs the spans of the two traces, first by id and then, round by       *)
(* round, by their place below spans that are already paired.              *)
(***************************************************************************)
EXTENDS Integers, Sequences, FiniteSets, SequencesExt

CONSTANTS
    Inputs,      \* what the session's traces hold when the request arrives
    LateSpans,   \* spans that a late batch may add meanwhile
    MaxSpans,    \* SessionCompareMaxSpans
    MaxEvents,   \* SessionCompareMaxSemanticEvents
    None

Sides == {"baseline", "candidate"}
Other(s) == CHOOSE o \in Sides : o # s
EventTypes == {"decision", "effect", "wait"}

\* A trace has the spans [id, parent, label, shown] in the order in which they are
\* listed, where label is the normalised name with the raw kind and shown the fields
\* that are compared, and the events [span, type, key, content].
VARIABLES
    traces,    \* [Sides -> [inSession, status, spans, events, late]]
    request    \* [stage, same, counts, spans, events, pairs, todo, paired, rows]

vars == <<traces, request>>

NewRequest(same) ==
    [stage |-> "asked", same |-> same, counts |-> [s \in Sides |-> [spans |-> 0, events |-> 0]],
     spans |-> [s \in Sides |-> <<>>], events |-> [s \in Sides |-> <<>>],
     pairs |-> {}, todo |-> {}, paired |-> 0, rows |-> <<>>]

Init ==
    \E input \in Inputs :
        /\ traces = input.traces
        /\ request = NewRequest(input.same)

\* A batch adds a span to a trace, wherever its start time puts it in the listing.
Write(s) ==
    /\ traces[s].late > 0
    /\ \E span \in LateSpans, i \in 1..(Len(traces[s].spans) + 1) :
          /\ \A j \in DOMAIN traces[s].spans : traces[s].spans[j].id # span.id
          /\ traces' = [traces EXCEPT ![s].spans = InsertAt(@, i, span), ![s].late = @ - 1]
    /\ UNCHANGED request

(***************************************************************************)
(* Eligibility: three statements, each with a snapshot of its own.         *)
(***************************************************************************)

\* NormalizeTraceStatus
Bucket(status) ==
    CASE status \in {"completed", "ok"} -> "completed"
      [] status \in {"failed", "error", "cancelled"} -> "failed"
      [] OTHER -> "running"

Comparable == \A s \in Sides : traces[s].inSession /\ Bucket(traces[s].status) # "running"

Validate ==
    /\ request.stage = "asked"
    /\ request' = [request EXCEPT !.stage = IF ~request.same /\ Comparable THEN "eligible" ELSE "refused"]
    /\ UNCHANGED traces

CountSpans ==
    /\ request.stage = "eligible"
    /\ request' = [request EXCEPT !.stage = "spansCounted",
                                  !.counts = [s \in Sides |-> [@[s] EXCEPT !.spans = Len(traces[s].spans)]]]
    /\ UNCHANGED traces

TooLarge(s) == request.counts[s].spans > MaxSpans \/ Len(traces[s].events) > MaxEvents

CountEvents ==
    /\ request.stage = "spansCounted"
    /\ request' = [request EXCEPT !.stage = IF \E s \in Sides : TooLarge(s) THEN "refused" ELSE "counted",
                                  !.counts = [s \in Sides |-> [@[s] EXCEPT !.events = Len(traces[s].events)]]]
    /\ UNCHANGED traces

ListSpans ==
    /\ request.stage = "counted"
    /\ request' = [request EXCEPT !.stage = "spansListed", !.spans = [s \in Sides |-> traces[s].spans]]
    /\ UNCHANGED traces

ListEvents ==
    /\ request.stage = "spansListed"
    /\ request' = [request EXCEPT !.stage = "listed", !.events = [s \in Sides |-> traces[s].events]]
    /\ UNCHANGED traces

(***************************************************************************)
(* The comparison proper works on the listed rows. A span is its place in  *)
(* the listing of its side.                                                *)
(***************************************************************************)

Span(s, i) == request.spans[s][i]
Places(s) == DOMAIN request.spans[s]

\* The place of a span's parent; 0, the root scope, for none and for an unknown one.
Parent(s, i) ==
    LET known == {j \in Places(s) : Span(s, j).id = Span(s, i).parent}
    IN  IF known = {} THEN 0 ELSE CHOOSE j \in known : TRUE

\* The children of a place, or the roots, in listing order.
Children(s, p) == SetToSortSeq({i \in Places(s) : Parent(s, i) = p}, <)

\* A pair [baseline, candidate, source] is what assignSpanPair writes into both records.
PairsOf(s, i) == {p \in request.pairs : p[s] = i}
Matched(s, i) == PairsOf(s, i) # {}
Partner(s, i) == IF Matched(s, i) THEN (CHOOSE p \in PairsOf(s, i) : TRUE)[Other(s)] ELSE 0

Pair(b, c, source) == [baseline |-> b, candidate |-> c, source |-> source]

MatchStable ==
    /\ request.stage = "listed"
    /\ request' = [request EXCEPT !.stage = "round",
          !.pairs = {Pair(b, c, "stable_id") : <<b, c>> \in
                        {p \in Places("baseline") \X Places("candidate") :
                            Span("baseline", p[1]).id = Span("candidate", p[2]).id}}]
    /\ UNCHANGED traces

\* A span takes part in a round when it is a root or its parent is paired; its scope is
\* the pair of its parent, the same for both sides.
InScope(s, i) == Parent(s, i) = 0 \/ Matched(s, Parent(s, i))
Scope(s, i) == IF Parent(s, i) = 0 THEN None ELSE CHOOSE p \in PairsOf(s, Parent(s, i)) : TRUE

\* Mutated: a span that is already paired does not count.
OrdinalOfUnpaired(s, i) ==
    Cardinality({j \in Places(s) : j < i /\ InScope(s, j) /\ Scope(s, j) = Scope(s, i) /\ ~Matched(s, j)})

\* Its ordinal counts all earlier spans of its scope, whatever their names, and paired
\* or not.
Ordinal(s, i) ==
    Cardinality({j \in Places(s) : j < i /\ InScope(s, j) /\ Scope(s, j) = Scope(s, i)})

\* groupHeuristicCandidates
GroupKey(s, i) == <<Scope(s, i), Span(s, i).label, Ordinal(s, i)>>
Group(s, key) == {i \in Places(s) : InScope(s, i) /\ ~Matched(s, i) /\ GroupKey(s, i) = key}
Groups ==
    {<<Group("baseline", key), Group("candidate", key)>> :
        key \in {GroupKey("baseline", i) : i \in {j \in Places("baseline") :
                                                    InScope("baseline", j) /\ ~Matched("baseline", j)}}}

\* Both sides are grouped before any span of the round is paired.
BeginRound ==
    /\ request.stage = "round"
    /\ request' = [request EXCEPT !.stage = "pairing", !.paired = 0, !.todo = Groups]
    /\ UNCHANGED traces

\* One group, in the order of a Go map: any. Only a span alone in its group on either
\* side is paired.
LookAtGroup(g) ==
    LET one == /\ Cardinality(g[1]) = 1 /\ Cardinality(g[2]) = 1
               /\ \A b \in g[1], c \in g[2] : ~Matched("baseline", b) /\ ~Matched("candidate", c)
    IN  /\ request.stage = "pairing"
        /\ request' = [request EXCEPT
              !.todo = @ \ {g},
              !.paired = IF one THEN @ + 1 ELSE @,
              !.pairs = IF one THEN @ \cup {Pair(b, c, "heuristic") : b \in g[1], c \in g[2]} ELSE @]
        /\ UNCHANGED traces

EndRound ==
    /\ request.stage = "pairing" /\ request.todo = {}
    /\ request' = [request EXCEPT !.stage = IF request.paired = 0 THEN "matched" ELSE "round"]
    /\ UNCHANGED traces

(***************************************************************************)
(* The rows of the answer.                                                 *)
(***************************************************************************)

EventsOf(s, i) ==
    IF i = 0 THEN <<>> ELSE SelectSeq(request.events[s], LAMBDA e : e.span = Span(s, i).id)

SameKey(e, f) == e.type = f.type /\ e.key = f.key /\ e.key # None
Alike(e, events) == {k \in DOMAIN events : SameKey(e, events[k])}

\* Two events are paired when each is the only one of its type and key on its side
\* (pairSemanticEvents, once for each type).
MateOf(e, own, other) ==
    IF Cardinality(Alike(e, own)) = 1 /\ Cardinality(Alike(e, other)) = 1
    THEN CHOOSE k \in Alike(e, other) : TRUE
    ELSE 0

EventGroup(type, b, c, status) == [type |-> type, baseline |-> b, candidate |-> c, status |-> status]

\* buildMatchedSemanticGroups, and buildUnpairedSemanticGroups where one list is empty.
SemanticGroups(bs, cs) ==
    [k \in DOMAIN bs |->
        LET m == MateOf(bs[k], bs, cs)
        IN  EventGroup(bs[k].type, k, m,
              CASE m = 0 -> "baseline_only"
                [] m # 0 /\ bs[k].content = cs[m].content -> "unchanged"
                [] OTHER -> "changed")]
    \o LET alone == SetToSortSeq({k \in DOMAIN cs : MateOf(cs[k], cs, bs) = 0}, <)
       IN  [n \in DOMAIN alone |-> EventGroup(cs[alone[n]].type, 0, alone[n], "candidate_only")]

RowStatus(b, c, groups) ==
    CASE c = 0 -> "baseline_only"
      [] b = 0 -> "candidate_only"
      [] /\ b # 0 /\ c # 0
         /\ Span("baseline", b).shown = Span("candidate", c).shown
         /\ Len(EventsOf("baseline", b)) = Len(EventsOf("candidate", c))
         /\ \A g \in ToSet(groups) : g.status = "unchanged" -> "unchanged"
      [] OTHER -> "changed"

Row(b, c, depth) ==
    LET groups == SemanticGroups(EventsOf("baseline", b), EventsOf("candidate", c))
    IN  [baseline |-> b, candidate |-> c, depth |-> depth, groups |-> groups,
         source |-> IF b # 0 /\ c # 0 THEN (CHOOSE p \in PairsOf("baseline", b) : TRUE).source ELSE None,
         status |-> RowStatus(b, c, groups)]

Unpaired(places) == SelectSeq(places, LAMBDA c : ~Matched("candidate", c))
Each(places, Branch(_)) == FlattenSeq([n \in DOMAIN places |-> Branch(places[n])])

\* A span below unpaired candidate spans is listed below them; one that is paired is
\* where its baseline span is. (A span has one parent, so none is emitted twice.)
RECURSIVE CandidateBranch(_, _)
CandidateBranch(c, depth) ==
    <<Row(0, c, depth)>> \o
    Each(Unpaired(Children("candidate", c)), LAMBDA d : CandidateBranch(d, depth + 1))

RECURSIVE BaselineBranch(_, _)
BaselineBranch(b, depth) ==
    <<Row(b, Partner("baseline", b), depth)>> \o
    Each(Children("baseline", b), LAMBDA d : BaselineBranch(d, depth + 1)) \o
    (IF Matched("baseline", b)
     THEN Each(Unpaired(Children("candidate", Partner("baseline", b))),
               LAMBDA d : CandidateBranch(d, depth + 1))
     ELSE <<>>)

Rows ==
    Each(Children("baseline", 0), LAMBDA b : BaselineBranch(b, 0)) \o
    Each(Unpaired(Children("candidate", 0)), LAMBDA c : CandidateBranch(c, 0))

\* buildSummary: the totals are those of the size check, the rest is counted here.
Summary ==
    [totals |-> [s \in Sides |-> request.counts[s].spans],
     matched |-> Cardinality({b \in Places("baseline") : Matched("baseline", b)}),
     unmatched |-> [s \in Sides |-> Cardinality({i \in Places(s) : ~Matched(s, i)})],
     heuristic |-> Cardinality({p \in request.pairs : p.source = "heuristic"})]

Answer ==
    /\ request.stage = "matched"
    /\ request' = [request EXCEPT !.stage = "answered", !.rows = Rows]
    /\ UNCHANGED traces

Next ==
    \/ \E s \in Sides : Write(s)
    \/ Validate
    \/ CountSpans
    \/ CountEvents
    \/ ListSpans
    \/ ListEvents
    \/ MatchStable
    \/ BeginRound
    \/ \E g \in request.todo : LookAtGroup(g)
    \/ EndRound
    \/ Answer

Spec == Init /\ [][Next]_vars
=============================================================================

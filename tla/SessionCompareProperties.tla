---------------------- MODULE SessionCompareProperties ----------------------
(***************************************************************************)
(* What a comparison tells its reader.                                     *)
(***************************************************************************)
EXTENDS SessionCompare

Answered == request.stage = "answered"

\* The pairing does not depend on the order in which Go iterates over the groups of a
\* round: two spans are paired exactly if they have one id, or neither shares its id,
\* they have one name and kind, and they are the same child of two roots or of two
\* spans that are paired. In particular an unchanged run that is executed again is
\* paired whole ("assembles the full deterministic trace comparison payload",
\* session_compare.go:295).
SameId(b, c) == Span("baseline", b).id = Span("candidate", c).id
Shared(s, i) == \E j \in Places(Other(s)) : Span(s, i).id = Span(Other(s), j).id
Sibling(s, i) == Cardinality({j \in Places(s) : j < i /\ Parent(s, j) = Parent(s, i)})
SamePlace(b, c) ==
    /\ Sibling("baseline", b) = Sibling("candidate", c)
    /\ Span("baseline", b).label = Span("candidate", c).label
    /\ IF Parent("baseline", b) = 0
       THEN Parent("candidate", c) = 0
       ELSE Parent("candidate", c) # 0 /\ Partner("baseline", Parent("baseline", b)) = Parent("candidate", c)
PairedByPlace ==
    Answered =>
      \A b \in Places("baseline"), c \in Places("candidate") :
        (Partner("baseline", b) = c) <=>
            \/ SameId(b, c)
            \/ ~Shared("baseline", b) /\ ~Shared("candidate", c) /\ SamePlace(b, c)

\* Every span that hangs on a root is in exactly one row, a paired one where its
\* baseline span is, with each of its events in exactly one group, and the counts of the
\* summary are those of the rows. (Spans whose parents form a circle are in none, and
\* neither are the spans of the other trace that are paired with them.)
RECURSIVE Placed(_, _, _)
Placed(s, i, steps) ==
    IF s = "candidate" /\ Matched(s, i)
    THEN Placed("baseline", Partner(s, i), Len(request.spans["baseline"]))
    ELSE \/ Parent(s, i) = 0
         \/ steps > 0 /\ Placed(s, Parent(s, i), steps - 1)
Reached(s) == {i \in Places(s) : Placed(s, i, Len(request.spans[s]))}

Only == [baseline |-> "baseline_only", candidate |-> "candidate_only"]
RowsOf(s, i) == {n \in DOMAIN request.rows : request.rows[n][s] = i}
GroupsOf(row, s, k) == {n \in DOMAIN row.groups : row.groups[n][s] = k}

ReportedOnce ==
    Answered =>
      /\ \A s \in Sides : \A i \in Reached(s) : Cardinality(RowsOf(s, i)) = 1
      /\ \A n \in DOMAIN request.rows, s \in Sides :
            LET row == request.rows[n]
            IN  \A k \in DOMAIN EventsOf(s, row[s]) : Cardinality(GroupsOf(row, s, k)) = 1
      /\ (\A s \in Sides : Reached(s) = Places(s)) =>
            /\ Summary.matched = Cardinality({n \in DOMAIN request.rows : request.rows[n].source # None})
            /\ \A s \in Sides : Summary.unmatched[s] =
                  Cardinality({n \in DOMAIN request.rows : request.rows[n].status = Only[s]})
            /\ Summary.heuristic =
                  Cardinality({n \in DOMAIN request.rows : request.rows[n].source = "heuristic"})
=============================================================================

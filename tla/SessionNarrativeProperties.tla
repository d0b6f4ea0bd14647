--------------------- MODULE SessionNarrativeProperties ---------------------
(***************************************************************************)
(* What a narrative tells its reader.                                      *)
(***************************************************************************)
EXTENDS SessionNarrative

\* The moments at which a shown trace is known to have done something.
Moments(n) ==
    LET trace == narrative.shown[n].trace
    IN  {trace.received} \cup ({trace.ended} \ {None}) \cup trace.marks

\* Nothing that was shown before the n-th was at work when that started.
NothingElseAtWork(n) ==
    LET start == StartedAt(narrative.shown[n].trace)
    IN  \A o \in 1..(n - 1) :
          o = n - 1 \/ StartedAt(narrative.shown[o].trace) < start => \A m \in Moments(o) : m < start

\* The links lead back through what is shown, so that following them ends, whatever the
\* metadata claims; a trace is linked without its metadata's word exactly if all that was
\* shown before it had come to rest when it started, by the times of its spans and events
\* too (resolveSessionNarrativeLineage).
LinksLeadBack ==
    \A n \in DOMAIN narrative.shown :
       LET link == narrative.links[n]
           claimed == \E p \in 1..(n - 1) : narrative.shown[p].id = narrative.shown[n].trace.parent
       IN  /\ link.parent < n
           /\ link.type = "explicit" <=> claimed
           /\ claimed => narrative.shown[link.parent].id = narrative.shown[n].trace.parent
           /\ link.type = "inferred" <=> ~claimed /\ n > 1 /\ NothingElseAtWork(n)
           /\ link.type = "inferred" => link.parent = n - 1

\* If no batch came in between, the parts agree: the narrative is cut off exactly if a
\* trace is missing from it, then the ones that started last, and every event told is one
\* of the moments of its trace.
PartsAgree ==
    narrative.batches = 0 =>
        LET shown == {narrative.shown[n].id : n \in DOMAIN narrative.shown}
        IN  /\ Truncated <=> shown # Held
            /\ \A s \in shown, t \in Held \ shown : EarlierStart(s, t)
            /\ \A n \in DOMAIN narrative.told : narrative.told[n] \subseteq Moments(n)
            /\ narrative.summary.total =
                  narrative.summary.running + narrative.summary.completed + narrative.summary.failed

\* What BuildSessionNarrative returns, although its three statements see the session at
\* three moments.
NarrativeIsSound == narrative.stage = "answered" => LinksLeadBack /\ PartsAgree
=============================================================================

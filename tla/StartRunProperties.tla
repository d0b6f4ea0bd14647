------------------------- MODULE StartRunProperties --------------------------
(***************************************************************************)
(* What a client that starts runs may rely on.                             *)
(***************************************************************************)
EXTENDS StartRun

\* All answers to one request key are the same for as long as its row is kept, whoever
\* repeats the request and whatever has become of the definition and the instance
\* meanwhile (claimStartRequestDedupe, decodeStartRunReplay).
AnswersAgree == \A k \in Keys : heard[k] \subseteq {dedupe[k]}

\* A key is answered with a run exactly if that run was started by that key: of two
\* keys that race for one instance one wins, and neither a rollback nor a lost answer
\* leaves a run whose key can be used again (StartRun: claim, run and outcome are
\* committed together).
RunIsAnswered ==
    /\ \A k \in Keys : dedupe[k] = "completed" => instance[Instance[k]] = k
    /\ \A i \in Instances : instance[i] # None =>
          /\ Instance[instance[i]] = i
          /\ dedupe[instance[i]] = "completed" \/ instance[i] \in reaped

\* An instance keeps its run: not even a key that was forgotten starts a second one
\* (UNIQUE (project_id, instance_key)).
InstanceIsFinal ==
    [][\A i \in Instances : instance[i] # None => instance'[i] = instance[i]]_vars

\* The catalog comes to list exactly what the live runtimes serve: entries that a newer
\* runtime deleted when it started come back, those of stopped runtimes go stale
\* ("reflects the definitions registered in the live engine runtime",
\* engine/README.md:47).
CatalogFollowsRuntimes ==
    <>[](\A d \in Definitions : catalog[d] = "live" <=> \E r \in up : d \in Serves[r])
=============================================================================

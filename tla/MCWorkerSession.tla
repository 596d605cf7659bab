-------------------------- MODULE MCWorkerSession --------------------------
EXTENDS WorkerSession

CONSTANTS f, g, f1, f2, f3, g1

\* One file with two or three spellings, and a second file.
MCFiles == {f, g}
MCFileOf == [u \in Uris |-> IF u = g1 THEN g ELSE f]
MCCanonical == [x \in Files |-> IF x = g THEN g1 ELSE f1]
MCRank == [u \in Uris |-> CASE u = f1 -> 1 [] u = f2 -> 2 [] u = f3 -> 3 [] OTHER -> 4]

(* Bound: two jobs wait for the worker, so that one can overtake the other, *)
(* before the fourth revision and the references request; later one does.  *)
Focus == Cardinality(jobs) <= 1 \/ (store.revision <= 3 /\ requests = 0)
=============================================================================

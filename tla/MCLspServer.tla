----------------------------- MODULE MCLspServer -----------------------------
(***************************************************************************)
(* Instances of LspServer for TLC: how documents, projects and workers are *)
(* laid out.                                                               *)
(***************************************************************************)
EXTENDS LspServer

CONSTANTS r1, r2, w1, w2, project, loose

\* Documents of one project, or the last one a loose file.
OneProject == [d \in Docs |-> project]
ProjectAndLoose == [d \in Docs |-> IF d = NumDocs THEN loose ELSE project]

\* No document imports another, or the first imports the second.
Independent == [d \in Docs |-> {d}]
FirstImportsSecond == [d \in Docs |-> IF d = 2 THEN {1, 2} ELSE {d}]

\* All work on one worker, or the loose file's on a second.
OneWorker == [k \in Keys \union {Workspace} |-> w1]
PerKey == [k \in Keys \union {Workspace} |-> IF k = loose THEN w2 ELSE w1]

Symmetry == Permutations(Ids)
=============================================================================

------------------------- MODULE TaskRuntime_proofs -------------------------
(***************************************************************************)
(* Proofs about TaskRuntime, for any number of executions, awaits, faults. *)
(***************************************************************************)
EXTENDS TaskRuntimeRefinement, TLAPS

\* Before nymphStartRoot nothing runs, is open or has a spawner.
Fresh ==
    root = "init" =>
        /\ \A e \in Exec : phase[e] = "none" /\ parent[e] = 0
        /\ open = {}

\* Every spawned execution is still on the #children of its spawner, or is in
\* the join its spawner is in, or has settled.
LineageKept ==
    \A e, k \in Exec : parent[k] = e =>
        \/ k \in lineage[e]
        \/ phase[e] \in {"cancelJoin", "finalJoin"} /\ k \in joining[e]
        \/ Settled(k)

\* joinChildren() emptied #children, and only a running body fills it.
LineageJoined ==
    \A e \in Exec : phase[e] \in {"cancelJoin", "finalJoin"} => lineage[e] = {}

\* The inductive invariant: what a failing execution joins covers its children.
JoinInv ==
    /\ TypeOK
    /\ Fresh
    /\ LineageKept
    /\ LineageJoined
    /\ JoinedBeforeFailing

-----------------------------------------------------------------------------
(* Facts about the operators.                                              *)

\* The part of TypeOK about the synchronous segment.
SegmentType ==
    /\ \A x \in Exec : phase[x] = "active" => current = x
    /\ \A x \in Exec : current = x => phase[x] \in {"active", "spawning"}

\* Cancellation only ever reaches executions.
LEMMA CancelledInExec ==
    ASSUME NEW S PROVE Cancelled(S) \subseteq Exec
BY DEF Cancelled, Reached

\* The executions of the root driver exist.
LEMMA RootInExec ==
    /\ 1 \in Exec /\ 2 \in Exec
    /\ Exec \subseteq 0 .. MaxExec
    /\ Idle \notin Exec /\ Idle \in 0 .. MaxExec /\ Host \in 0 .. MaxExec
BY BoundsAssumption DEF Exec, Idle, Host

\* Joining its lineage keeps an execution's record well typed.
LEMMA JoinLineageType ==
    ASSUME TypeOK, NEW e \in Exec, NEW where \in Phases, NEW why \in Failures,
           NEW seen \in SUBSET Exec, JoinLineage(e, where, why, seen)
    PROVE  /\ phase' = [phase EXCEPT ![e] = where]
           /\ phase' \in [Exec -> Phases]
           /\ fail' \in [Exec -> Failures]
           /\ aborted' \subseteq Exec
           /\ joining' \in [Exec -> SUBSET Exec]
           /\ lineage' \in [Exec -> SUBSET Exec]
           /\ observed' \subseteq Exec
BY CancelledInExec DEF TypeOK, JoinLineage

-----------------------------------------------------------------------------
(* Type correctness.                                                       *)

LEMMA InitType == Init => TypeOK /\ Fresh
BY BoundsAssumption DEF Init, TypeOK, Fresh, Exec, Phases, Kinds, Failures, Idle, RootContext, Host

\* A new execution's place in the tree is well typed.
LEMMA ConstructType ==
    ASSUME TypeOK, NEW e \in Exec, NEW k \in Exec, NEW knd \in Kinds, Construct(e, k, knd),
           phase[e] # "none"
    PROVE  /\ kind' \in [Exec -> {"root"} \cup Kinds]
           /\ ctx' \in [Exec -> 0 .. MaxExec] /\ parent' \in [Exec -> 0 .. MaxExec]
           /\ \A x \in Exec : parent'[x] # x
           /\ owners' \in [Exec -> SUBSET Exec] /\ lineage' \in [Exec -> SUBSET Exec]
<1>1. ContextOf(e) \in 0 .. MaxExec
    BY RootInExec DEF TypeOK, ContextOf
<1>2. owners[e] \cup {e} \in SUBSET Exec /\ lineage[e] \cup {k} \in SUBSET Exec
    BY DEF TypeOK
<1> QED
    BY <1>1, <1>2, RootInExec DEF TypeOK, Construct, Born

\* A segment ends in the event loop or in the race that called it.
LEMMA CallerType ==
    ASSUME TypeOK, NEW e \in Exec, NEW next \in Phases \ {"active"}, current = e,
           phase' = [phase EXCEPT ![e] = next], current' = Caller(e)
    PROVE  phase' \in [Exec -> Phases] /\ SegmentType' /\ current' \in 0 .. MaxExec
<1>1. parent[e] \in 0 .. MaxExec
    BY DEF TypeOK
<1>2. \A x \in Exec : phase'[x] = IF x = e THEN next ELSE phase[x]
    BY DEF TypeOK
<1>3. CASE phase[parent[e]] = "spawning"
    BY <1>1, <1>2, <1>3, RootInExec DEF Caller, TypeOK, SegmentType, Idle, Exec
<1>4. CASE phase[parent[e]] # "spawning"
    BY <1>1, <1>2, <1>4, RootInExec DEF Caller, TypeOK, SegmentType, Idle, Exec
<1> QED
    BY <1>3, <1>4

\* A promise reaction that moves one execution on leaves no body running.
LEMMA ReactionSegment ==
    ASSUME TypeOK, NEW e \in Exec, NEW next \in Phases \ {"active"}, current = Idle,
           phase' = [phase EXCEPT ![e] = next], current' = current
    PROVE  phase' \in [Exec -> Phases] /\ SegmentType'
BY RootInExec DEF TypeOK, SegmentType

\* The actions of nymphStartRoot keep the types.
LEMMA RootType ==
    TypeOK /\ Fresh /\ (RootStep \/ RootCancel) => TypeOK'
<1> SUFFICES ASSUME TypeOK, Fresh, RootStep \/ RootCancel PROVE TypeOK'
    OBVIOUS
<1>1. ASSUME NEW knd \in Kinds, RootStart(knd) PROVE TypeOK'
    BY <1>1, RootInExec DEF TypeOK, Fresh, RootStart, FirstSegment, Kinds, Phases, treeVars, rootVars
<1>2. CASE RootDriven
    BY <1>2, RootInExec DEF TypeOK, RootDriven, Phases, treeVars, rootVars
<1>3. CASE RootJoin
    BY <1>3 DEF TypeOK, RootJoin, Members, treeVars, rootVars
<1>4. CASE RootDone
    BY <1>4, RootInExec DEF TypeOK, RootDone, Failures, treeVars, rootVars
<1>5. CASE RootCancel
    BY <1>5, CancelledInExec DEF TypeOK, RootCancel, treeVars, rootVars
<1> QED
    BY <1>1, <1>2, <1>3, <1>4, <1>5 DEF RootStep

\* The steps of a running body keep the types.
LEMMA BodyType ==
    ASSUME TypeOK, NEW e \in Exec, BodyStep(e) PROVE TypeOK'
<1> USE RootInExec
<1>1. ASSUME NEW k \in Exec, NEW knd \in Kinds, Spawn(e, k, knd) PROVE TypeOK'
    <2>1. knows' \in [Exec -> SUBSET Exec]
        BY <1>1 DEF TypeOK, Spawn
    <2>2. /\ phase' \in [Exec -> Phases] /\ SegmentType'
        BY <1>1 DEF TypeOK, Spawn, Construct, Born, Running, Phases, SegmentType
    <2> QED
        BY <1>1, <2>1, <2>2, ConstructType DEF TypeOK, SegmentType, Spawn, Running, rootVars
<1>2. ASSUME NEW h \in Exec, CancelHandle(e, h) PROVE TypeOK'
    BY <1>2, CancelledInExec DEF TypeOK, CancelHandle, treeVars, rootVars
<1>3. ASSUME NEW h \in 0 .. MaxExec, NEW drv \in BOOLEAN, Await(e, h, drv) PROVE TypeOK'
    <2>1. h \in Exec \/ h = Host
        BY <1>3 DEF Await, TypeOK
    <2>2. awaits' \in [Exec -> 0 .. MaxAwaits]
        BY <1>3, BoundsAssumption DEF Await, TypeOK
    <2>3. phase' \in [Exec -> Phases] /\ SegmentType' /\ current' \in 0 .. MaxExec
        BY <1>3, CallerType DEF Await, JoinLineage, Running, Phases
    <2>4. /\ fail' \in [Exec -> Failures] /\ aborted' \subseteq Exec
          /\ joining' \in [Exec -> SUBSET Exec] /\ lineage' \in [Exec -> SUBSET Exec]
          /\ observed' \subseteq Exec
        <3>1. CASE e \in aborted
            BY <1>3, <2>1, <3>1, JoinLineageType DEF Await, Phases, Failures
        <3>2. CASE e \notin aborted
            BY <1>3, <2>1, <3>2 DEF TypeOK, Await
        <3> QED
            BY <3>1, <3>2
    <2> QED
        BY <1>3, <2>1, <2>2, <2>3, <2>4 DEF TypeOK, SegmentType, Await, treeVars, rootVars
<1>4. ASSUME NEW why \in {"cancel", "defect"}, Throw(e, why) PROVE TypeOK'
    <2>1. faults' \in 0 .. MaxFaults
        BY <1>4, BoundsAssumption DEF TypeOK, Throw, Fault
    <2>2. AfterBody(e) \in Phases \ {"active"}
        BY DEF AfterBody, Phases
    <2>3. phase' \in [Exec -> Phases] /\ SegmentType' /\ current' \in 0 .. MaxExec
        BY <1>4, <2>2, CallerType DEF Throw, Running
    <2> QED
        BY <1>4, <2>1, <2>3 DEF TypeOK, SegmentType, Throw, Failures, treeVars, rootVars
<1>5. ASSUME NEW why \in {"none", "defect"}, Return(e, why) PROVE TypeOK'
    <2>1. faults' \in 0 .. MaxFaults
        BY <1>5, BoundsAssumption DEF TypeOK, Return, Fault
    <2>2. AfterBody(e) \in Phases \ {"active"}
        BY DEF AfterBody, Phases
    <2>3. phase' \in [Exec -> Phases] /\ SegmentType' /\ current' \in 0 .. MaxExec
        BY <1>5, <2>2, CallerType DEF Return, Running
    <2> QED
        BY <1>5, <2>1, <2>3 DEF TypeOK, SegmentType, Return, Failures, treeVars, rootVars
<1>6. ASSUME NEW k \in Exec, NEW knd \in Kinds, RaceSpawn(e, k, knd) PROVE TypeOK'
    <2>1. phase' \in [Exec -> Phases] /\ SegmentType'
        BY <1>6 DEF TypeOK, RaceSpawn, Construct, Spawning, FirstSegment, Born, Phases, SegmentType
    <2>2. knows' \in [Exec -> SUBSET Exec] /\ open' \subseteq Exec
        BY <1>6 DEF TypeOK, RaceSpawn
    <2> QED
        BY <1>6, <2>1, <2>2, ConstructType DEF TypeOK, SegmentType, RaceSpawn, Spawning, rootVars
<1>7. CASE RaceWait(e)
    <2>1. PICK why \in Failures :
             /\ fail' = [fail EXCEPT ![e] = why]
             /\ phase' = [phase EXCEPT ![e] = IF why = "none" THEN "racing" ELSE "ended"]
        BY <1>7 DEF RaceWait, Failures
    <2>2. phase' \in [Exec -> Phases] /\ SegmentType' /\ current' \in 0 .. MaxExec
        BY <1>7, <2>1, CallerType DEF RaceWait, Spawning, Phases
    <2> QED
        BY <1>7, <2>1, <2>2 DEF TypeOK, SegmentType, RaceWait, treeVars, rootVars
<1> QED
    BY <1>1, <1>2, <1>3, <1>4, <1>5, <1>6, <1>7 DEF BodyStep

\* The promise reactions keep the types.
LEMMA ReactionType ==
    ASSUME TypeOK, NEW e \in Exec, Reaction(e) \/ HostStep(e) PROVE TypeOK'
<1> USE RootInExec
<1>1. CASE Start(e)
    BY <1>1 DEF TypeOK, Start, FirstSegment, Phases, Idle, treeVars, rootVars
<1>2. CASE Resume(e)
    BY <1>2 DEF TypeOK, Resume, Phases, Idle, treeVars, rootVars
<1>3. CASE HandleDone(e)
    <2>1. target[e] \in Exec
        BY <1>3 DEF HandleDone, TypeOK, Exec, Host
    <2>2. phase' \in [Exec -> Phases] /\ SegmentType'
        BY <1>3, ReactionSegment DEF HandleDone, Awaiting, Wake, Phases
    <2> QED
        BY <1>3, <2>1, <2>2 DEF TypeOK, SegmentType, HandleDone, Wake, treeVars, rootVars, Host
<1>4. CASE HostDone(e)
    BY <1>4 DEF TypeOK, HostDone, Awaiting, Wake, Phases, treeVars, rootVars, Host
<1>5. ASSUME NEW why \in {"cancel", "defect"}, AwaitFails(e, why) PROVE TypeOK'
    <2>1. faults' \in 0 .. MaxFaults
        BY <1>5, BoundsAssumption DEF TypeOK, AwaitFails, Fault
    <2>2. phase' \in [Exec -> Phases] /\ SegmentType'
        BY <1>5, ReactionSegment DEF AwaitFails, Awaiting, JoinLineage, Phases
    <2>3. /\ fail' \in [Exec -> Failures] /\ aborted' \subseteq Exec
          /\ joining' \in [Exec -> SUBSET Exec] /\ lineage' \in [Exec -> SUBSET Exec]
          /\ observed' \subseteq Exec
        BY <1>5, CancelledInExec DEF TypeOK, AwaitFails, JoinLineage, Failures
    <2> QED
        BY <1>5, <2>1, <2>2, <2>3 DEF TypeOK, SegmentType, AwaitFails, treeVars, rootVars
<1>6. ASSUME NEW closeFails \in BOOLEAN, CancelJoined(e, closeFails) PROVE TypeOK'
    <2>1. faults' \in 0 .. MaxFaults
        BY <1>6, BoundsAssumption DEF TypeOK, CancelJoined, Fault
    <2>2. phase' \in [Exec -> Phases] /\ SegmentType'
        BY <1>6, ReactionSegment DEF CancelJoined, AfterBody, Phases
    <2>3. fail' \in [Exec -> Failures]
        BY <1>6 DEF TypeOK, CancelJoined, Worse, Failures
    <2> QED
        BY <1>6, <2>1, <2>2, <2>3 DEF TypeOK, SegmentType, CancelJoined, treeVars, rootVars
<1>7. CASE ContextJoin(e)
    BY <1>7, CancelledInExec DEF TypeOK, ContextJoin, Members, Phases, treeVars, rootVars
<1>8. CASE ContextJoined(e)
    BY <1>8 DEF TypeOK, ContextJoined, Phases, Failures, treeVars, rootVars
<1>9. CASE DriveReturned(e)
    <2>1. phase' \in [Exec -> Phases] /\ SegmentType'
        BY <1>9, ReactionSegment DEF DriveReturned, JoinLineage, Phases
    <2>2. /\ fail' \in [Exec -> Failures] /\ aborted' \subseteq Exec
          /\ joining' \in [Exec -> SUBSET Exec] /\ lineage' \in [Exec -> SUBSET Exec]
          /\ observed' \subseteq Exec
        <3>1. fail[e] \in Failures /\ {} \in SUBSET Exec
            BY DEF TypeOK
        <3>2. ASSUME NEW why \in Failures, JoinLineage(e, "finalJoin", why, {})
              PROVE  /\ fail' \in [Exec -> Failures] /\ aborted' \subseteq Exec
                     /\ joining' \in [Exec -> SUBSET Exec] /\ lineage' \in [Exec -> SUBSET Exec]
                     /\ observed' \subseteq Exec
            BY <3>1, <3>2, JoinLineageType DEF Phases
        <3> QED
            BY <1>9, <3>1, <3>2 DEF TypeOK, DriveReturned, Failures
    <2>3. before' \in [Exec -> SUBSET Exec]
        BY <1>9 DEF TypeOK, DriveReturned, RecordSettlement
    <2> QED
        BY <1>9, <2>1, <2>2, <2>3 DEF TypeOK, SegmentType, DriveReturned, treeVars, rootVars
<1>10. ASSUME NEW closeFails \in BOOLEAN, Settle(e, closeFails) PROVE TypeOK'
    <2>1. faults' \in 0 .. MaxFaults
        BY <1>10, BoundsAssumption DEF TypeOK, Settle, Fault
    <2>2. phase' \in [Exec -> Phases] /\ SegmentType'
        BY <1>10, ReactionSegment DEF Settle, Phases
    <2>3. fail' \in [Exec -> Failures]
        BY <1>10 DEF TypeOK, Settle, Worse, Failures
    <2>4. before' \in [Exec -> SUBSET Exec]
        BY <1>10 DEF TypeOK, Settle, RecordSettlement
    <2> QED
        BY <1>10, <2>1, <2>2, <2>3, <2>4 DEF TypeOK, SegmentType, Settle, treeVars, rootVars
<1>11. CASE Notify(e)
    BY <1>11, CancelledInExec DEF TypeOK, Notify, treeVars, rootVars
<1>12. CASE RaceWon(e)
    <2>1. phase' \in [Exec -> Phases] /\ SegmentType'
        BY <1>12, ReactionSegment DEF RaceWon, Phases
    <2>2. /\ target' \in [Exec -> 0 .. MaxExec] /\ aborted' \subseteq Exec
          /\ joining' \in [Exec -> SUBSET Exec] /\ observed' \subseteq Exec
        <3>1. PICK h \in Exec :
                 /\ target' = [target EXCEPT ![e] = h]
                 /\ aborted' = aborted \cup Cancelled(Runners(e) \ {h})
            BY <1>12 DEF RaceWon, Runners
        <3>2. Runners(e) \in SUBSET Exec
            BY DEF Runners
        <3> QED
            BY <1>12, <3>1, <3>2, CancelledInExec DEF TypeOK, RaceWon
    <2> QED
        BY <1>12, <2>1, <2>2 DEF TypeOK, SegmentType, RaceWon, treeVars, rootVars
<1>13. CASE RaceAborted(e)
    <2>1. phase' \in [Exec -> Phases] /\ SegmentType'
        BY <1>13, ReactionSegment DEF RaceAborted, Phases
    <2> QED
        BY <1>13, <2>1 DEF TypeOK, SegmentType, RaceAborted, Failures, treeVars, rootVars
<1>14. CASE RaceJoined(e)
    <2>1. phase' \in [Exec -> Phases] /\ SegmentType'
        BY <1>14, ReactionSegment DEF RaceJoined, Phases
    <2>2. fail' \in [Exec -> Failures]
        BY <1>14 DEF TypeOK, RaceJoined, Failures
    <2>3. knows' \in [Exec -> SUBSET Exec]
        BY <1>14 DEF TypeOK, RaceJoined
    <2> QED
        BY <1>14, <2>1, <2>2, <2>3 DEF TypeOK, SegmentType, RaceJoined, treeVars, rootVars
<1> QED
    BY <1>1, <1>2, <1>3, <1>4, <1>5, <1>6, <1>7, <1>8, <1>9, <1>10, <1>11, <1>12, <1>13, <1>14
    DEF Reaction, HostStep

\* Every step keeps the types.
LEMMA TypeStep ==
    TypeOK /\ Fresh /\ [Next]_vars => TypeOK'
<1>1. TypeOK /\ UNCHANGED vars => TypeOK'
    BY DEF TypeOK, vars, treeVars, rootVars
<1> QED
    BY <1>1, RootType, BodyType, ReactionType DEF Next, Finished

-----------------------------------------------------------------------------
(* What a failing execution spawned has settled.                           *)

Joins == {"cancelJoin", "finalJoin"}
JoinParts == LineageKept /\ LineageJoined /\ JoinedBeforeFailing

\* A step that leaves the executions and their joins alone.
LEMMA SameStep ==
    ASSUME JoinParts, UNCHANGED <<phase, parent, lineage, joining, fail>> PROVE JoinParts'
BY DEF JoinParts, LineageKept, LineageJoined, JoinedBeforeFailing, Settled

\* A step of one execution that starts no join.
LEMMA QuietStep ==
    ASSUME TypeOK, JoinParts, NEW e \in Exec, NEW next \in Phases \ Joins,
           phase' = [phase EXCEPT ![e] = next], ~Settled(e),
           UNCHANGED <<parent, lineage, joining>>,
           \A x \in Exec \ {e} : fail'[x] = fail[x],
           phase[e] \in Joins => SettledFor(joining[e]),
           next = "settled" /\ fail'[e] # "none" => phase[e] = "finalJoin"
    PROVE  JoinParts'
<1>1. \A x \in Exec : phase'[x] = IF x = e THEN next ELSE phase[x]
    BY DEF TypeOK
<1>2. \A x \in Exec : Settled(x) => Settled(x)'
    BY <1>1 DEF Settled
<1>3. LineageKept'
    BY <1>1, <1>2 DEF JoinParts, LineageKept, SettledFor, Joins
<1>4. LineageJoined'
    BY <1>1 DEF JoinParts, LineageJoined, Joins
<1>5. JoinedBeforeFailing'
    <2> SUFFICES ASSUME NEW x \in Exec, Settled(x)', fail'[x] # "none",
                        NEW k \in Exec, parent[k] = x
                 PROVE  Settled(k)'
        BY DEF JoinedBeforeFailing
    <2>1. CASE x = e
        <3>1. phase[e] = "finalJoin"
            BY <2>1, <1>1 DEF Settled
        <3>2. k \in joining[e] \/ Settled(k)
            BY <3>1, <2>1 DEF JoinParts, LineageKept, LineageJoined
        <3> QED
            BY <3>1, <3>2, <1>2 DEF SettledFor, Joins
    <2>2. CASE x # e
        BY <2>2, <1>1, <1>2 DEF JoinParts, JoinedBeforeFailing, Settled
    <2> QED
        BY <2>1, <2>2
<1> QED
    BY <1>3, <1>4, <1>5 DEF JoinParts

\* joinChildren() of an execution that is not in a join.
LEMMA JoinStep ==
    ASSUME TypeOK, JoinParts, NEW e \in Exec, NEW where \in Joins, NEW why, NEW seen,
           JoinLineage(e, where, why, seen), ~Settled(e), phase[e] \notin Joins,
           parent' = parent
    PROVE  JoinParts'
<1>1. /\ \A x \in Exec : phase'[x] = IF x = e THEN where ELSE phase[x]
      /\ \A x \in Exec : joining'[x] = IF x = e THEN lineage[e] ELSE joining[x]
      /\ \A x \in Exec : lineage'[x] = IF x = e THEN {} ELSE lineage[x]
      /\ \A x \in Exec \ {e} : fail'[x] = fail[x]
    BY DEF TypeOK, JoinLineage
<1>2. \A x \in Exec : Settled(x) <=> Settled(x)'
    BY <1>1 DEF Settled, Joins
<1>3. LineageKept'
    BY <1>1, <1>2 DEF JoinParts, LineageKept, Joins
<1>4. LineageJoined'
    BY <1>1 DEF JoinParts, LineageJoined, Joins
<1>5. JoinedBeforeFailing'
    BY <1>1, <1>2 DEF JoinParts, JoinedBeforeFailing
<1> QED
    BY <1>3, <1>4, <1>5 DEF JoinParts

\* A new execution is on the #children of its spawner.
LEMMA ConstructStep ==
    ASSUME TypeOK, JoinParts, NEW e \in Exec, NEW k \in Exec, NEW knd,
           Construct(e, k, knd), NEW first \in Phases \ (Joins \cup {"settled"}),
           phase' = [phase EXCEPT ![k] = first], phase[e] \notin Joins, ~Settled(e), Born(e),
           UNCHANGED <<joining, fail>>
    PROVE  JoinParts'
<1>1. /\ \A x \in Exec : phase'[x] = IF x = k THEN first ELSE phase[x]
      /\ \A x \in Exec : parent'[x] = IF x = k THEN e ELSE parent[x]
      /\ \A x \in Exec : lineage'[x] = IF x = e THEN lineage[e] \cup {k} ELSE lineage[x]
      /\ phase[k] = "none" /\ k # e
    BY DEF Construct, Born, TypeOK
<1>2. LineageKept'
    BY <1>1 DEF JoinParts, LineageKept, Settled
<1>3. LineageJoined'
    BY <1>1 DEF JoinParts, LineageJoined, Joins
<1>4. JoinedBeforeFailing'
    BY <1>1 DEF JoinParts, JoinedBeforeFailing, Settled
<1> QED
    BY <1>2, <1>3, <1>4 DEF JoinParts

\* A step that moves an execution that is in no join, and takes its joining set
\* for another purpose.
LEMMA OtherJoinStep ==
    ASSUME TypeOK, JoinParts, NEW e \in Exec, NEW next \in Phases \ (Joins \cup {"settled"}),
           phase' = [phase EXCEPT ![e] = next], phase[e] \notin Joins, ~Settled(e),
           \A x \in Exec \ {e} : joining'[x] = joining[x],
           UNCHANGED <<parent, lineage, fail>>
    PROVE  JoinParts'
<1>1. \A x \in Exec : phase'[x] = IF x = e THEN next ELSE phase[x]
    BY DEF TypeOK
<1>2. LineageKept'
    BY <1>1 DEF JoinParts, LineageKept, Settled, Joins
<1>3. LineageJoined'
    BY <1>1 DEF JoinParts, LineageJoined, Joins
<1>4. JoinedBeforeFailing'
    BY <1>1 DEF JoinParts, JoinedBeforeFailing, Settled
<1> QED
    BY <1>2, <1>3, <1>4 DEF JoinParts

\* Nothing happens before nymphStartRoot.
LEMMA FreshStep ==
    TypeOK /\ Fresh /\ [Next]_vars => Fresh'
<1> SUFFICES ASSUME TypeOK, Fresh, [Next]_vars PROVE Fresh'
    OBVIOUS
<1>1. CASE UNCHANGED vars
    BY <1>1 DEF Fresh, vars, treeVars, rootVars
<1>2. ASSUME NEW knd, RootStart(knd) PROVE Fresh'
    BY <1>2 DEF RootStart, Fresh
<1>3. CASE RootDriven \/ RootJoin \/ RootDone \/ RootCancel
    BY <1>3, RootInExec DEF RootDriven, RootJoin, RootDone, RootCancel, Fresh, treeVars, rootVars
<1>4. ASSUME NEW e \in Exec, BodyStep(e) PROVE Fresh'
    BY <1>4 DEF BodyStep, Spawn, CancelHandle, Await, Throw, Return, RaceSpawn, RaceWait,
                Running, Spawning, Fresh, rootVars
<1>5. ASSUME NEW e \in Exec, Reaction(e) \/ HostStep(e) PROVE Fresh'
    BY <1>5 DEF Reaction, HostStep, Start, Resume, HandleDone, HostDone, AwaitFails, Awaiting,
                CancelJoined, RaceWon, RaceAborted, RaceJoined, ContextJoin, ContextJoined,
                DriveReturned, Settle, Notify,
                Defected, Settled, Wake, Fresh, rootVars
<1> QED
    BY <1>1, <1>2, <1>3, <1>4, <1>5 DEF Next, RootStep, Finished

\* The root driver's steps.
LEMMA RootJoinParts ==
    ASSUME TypeOK, Fresh, JoinParts, RootStep \/ RootCancel PROVE JoinParts'
<1> USE RootInExec
<1>1. ASSUME NEW knd \in Kinds, RootStart(knd) PROVE JoinParts'
    <2>1. \A x \in Exec : phase[x] = "none" /\ parent[x] = 0
        BY <1>1 DEF RootStart, Fresh
    <2>2. /\ \A x \in Exec : phase'[x] \in {"none", "rootDrive", "active", "spawning"}
          /\ \A x \in Exec : parent'[x] = IF x = 2 THEN 1 ELSE 0
          /\ 2 \in lineage'[1]
        BY <1>1, <2>1 DEF RootStart, FirstSegment, TypeOK
    <2> QED
        BY <2>2 DEF JoinParts, LineageKept, LineageJoined, JoinedBeforeFailing, Settled, Exec
<1>2. CASE RootDriven
    BY <1>2, QuietStep DEF RootDriven, Phases, Joins, Settled, treeVars, TypeOK
<1>3. CASE RootJoin \/ RootDone \/ RootCancel
    BY <1>3, SameStep DEF RootJoin, RootDone, RootCancel, treeVars
<1> QED
    BY <1>1, <1>2, <1>3 DEF RootStep

\* The running body's steps.
LEMMA BodyJoinParts ==
    ASSUME TypeOK, JoinParts, NEW e \in Exec, BodyStep(e) PROVE JoinParts'
<1>1. ASSUME NEW k \in Exec, NEW knd \in Kinds, Spawn(e, k, knd) PROVE JoinParts'
    <2>1. phase[e] = "active" /\ "queued" \in Phases \ (Joins \cup {"settled"})
        BY <1>1 DEF Spawn, Running, Joins, Phases
    <2> QED
        BY <1>1, <2>1, ConstructStep DEF Spawn, Joins, Settled, Born
<1>2. ASSUME NEW h \in Exec, CancelHandle(e, h) PROVE JoinParts'
    BY <1>2, SameStep DEF CancelHandle, treeVars
<1>3. ASSUME NEW h \in 0 .. MaxExec, NEW drv \in BOOLEAN, Await(e, h, drv) PROVE JoinParts'
    <2>1. CASE e \in aborted
        BY <1>3, <2>1, JoinStep DEF Await, Running, Joins, Settled, treeVars
    <2>2. CASE e \notin aborted
        BY <1>3, <2>2, QuietStep DEF Await, Running, Joins, Phases, Settled, treeVars
    <2> QED
        BY <2>1, <2>2
<1>4. ASSUME NEW why \in {"cancel", "defect"}, Throw(e, why) PROVE JoinParts'
    <2>1. AfterBody(e) \in Phases \ Joins /\ AfterBody(e) # "settled"
        BY DEF AfterBody, Phases, Joins
    <2> QED
        BY <1>4, <2>1, QuietStep DEF Throw, Running, Joins, Settled, treeVars, TypeOK
<1>5. ASSUME NEW why \in {"none", "defect"}, Return(e, why) PROVE JoinParts'
    <2>1. AfterBody(e) \in Phases \ Joins /\ AfterBody(e) # "settled"
        BY DEF AfterBody, Phases, Joins
    <2> QED
        BY <1>5, <2>1, QuietStep DEF Return, Running, Joins, Settled, treeVars, TypeOK
<1>6. ASSUME NEW k \in Exec, NEW knd \in Kinds, RaceSpawn(e, k, knd) PROVE JoinParts'
    <2>1. phase[e] = "spawning" /\ FirstSegment(knd) \in Phases \ (Joins \cup {"settled"})
        BY <1>6 DEF RaceSpawn, Spawning, FirstSegment, Joins, Phases
    <2> QED
        BY <1>6, <2>1, ConstructStep DEF RaceSpawn, Joins, Settled, Born
<1>7. CASE RaceWait(e)
    BY <1>7, QuietStep DEF RaceWait, Spawning, Joins, Phases, Settled, treeVars, TypeOK
<1> QED
    BY <1>1, <1>2, <1>3, <1>4, <1>5, <1>6, <1>7 DEF BodyStep

\* The promise reactions.
LEMMA ReactionJoinParts ==
    ASSUME TypeOK, JoinParts, NEW e \in Exec, Reaction(e) \/ HostStep(e) PROVE JoinParts'
<1>1. CASE Start(e)
    BY <1>1, QuietStep DEF Start, FirstSegment, Joins, Phases, Settled, treeVars
<1>2. CASE Resume(e)
    BY <1>2, QuietStep DEF Resume, Joins, Phases, Settled, treeVars
<1>3. CASE HandleDone(e)
    BY <1>3, QuietStep DEF HandleDone, Awaiting, Wake, Joins, Phases, Settled, treeVars
<1>4. CASE HostDone(e)
    BY <1>4, QuietStep DEF HostDone, Awaiting, Wake, Joins, Phases, Settled, treeVars
<1>5. ASSUME NEW why \in {"cancel", "defect"}, AwaitFails(e, why) PROVE JoinParts'
    BY <1>5, JoinStep DEF AwaitFails, Awaiting, Joins, Settled, treeVars
<1>6. ASSUME NEW closeFails \in BOOLEAN, CancelJoined(e, closeFails) PROVE JoinParts'
    <2>1. AfterBody(e) \in Phases \ Joins /\ AfterBody(e) # "settled"
        BY DEF AfterBody, Phases, Joins
    <2> QED
        BY <1>6, <2>1, QuietStep DEF CancelJoined, Joins, Settled, treeVars, TypeOK
<1>7. CASE ContextJoin(e)
    BY <1>7, OtherJoinStep DEF ContextJoin, Joins, Phases, Settled, treeVars, TypeOK
<1>8. CASE ContextJoined(e)
    BY <1>8, QuietStep DEF ContextJoined, Joins, Phases, Settled, treeVars, TypeOK
<1>9. CASE DriveReturned(e)
    <2>1. CASE fail[e] = "none" /\ e \notin aborted
        BY <1>9, <2>1, QuietStep DEF DriveReturned, Joins, Phases, Settled, treeVars
    <2>2. CASE ~(fail[e] = "none" /\ e \notin aborted)
        BY <1>9, <2>2, JoinStep DEF DriveReturned, Joins, Settled, treeVars
    <2> QED
        BY <2>1, <2>2
<1>10. ASSUME NEW closeFails \in BOOLEAN, Settle(e, closeFails) PROVE JoinParts'
    BY <1>10, QuietStep DEF Settle, Joins, Phases, Settled, treeVars, TypeOK
<1>11. CASE Notify(e)
    BY <1>11, SameStep DEF Notify, treeVars
<1>12. CASE RaceWon(e)
    BY <1>12, OtherJoinStep DEF RaceWon, Joins, Phases, Settled, treeVars, TypeOK
<1>13. CASE RaceAborted(e)
    BY <1>13, QuietStep DEF RaceAborted, Joins, Phases, Settled, treeVars, TypeOK
<1>14. CASE RaceJoined(e)
    BY <1>14, QuietStep DEF RaceJoined, Joins, Phases, Settled, treeVars, TypeOK
<1> QED
    BY <1>1, <1>2, <1>3, <1>4, <1>5, <1>6, <1>7, <1>8, <1>9, <1>10, <1>11, <1>12, <1>13, <1>14
    DEF Reaction, HostStep

LEMMA JoinInvInit == Init => JoinInv
BY InitType DEF Init, JoinInv, LineageKept, LineageJoined, JoinedBeforeFailing, Settled, Exec

LEMMA JoinInvStep == JoinInv /\ [Next]_vars => JoinInv'
<1> SUFFICES ASSUME JoinInv, [Next]_vars PROVE JoinInv'
    OBVIOUS
<1>1. TypeOK /\ Fresh /\ JoinParts
    BY DEF JoinInv, JoinParts
<1>2. TypeOK' /\ Fresh'
    BY <1>1, TypeStep, FreshStep
<1>3. JoinParts'
    <2>1. CASE UNCHANGED vars
        BY <1>1, <2>1, SameStep DEF vars, treeVars
    <2> QED
        BY <1>1, <2>1, RootJoinParts, BodyJoinParts, ReactionJoinParts DEF Next, Finished
<1> QED
    BY <1>2, <1>3 DEF JoinInv, JoinParts

\* The execution that closes its resources in a promise reaction has joined.
LEMMA CloseStepHolds == JoinInv /\ [Next]_vars => CloseStep
<1> SUFFICES ASSUME JoinInv, [Next]_vars, NEW e \in open \ open',
                    phase[e] # "active", NEW k \in Exec, parent[k] = e
             PROVE  Settled(k)
    BY DEF CloseStep
<1>1. e \in Exec
    BY DEF JoinInv, TypeOK
<1>2. phase[e] \in {"cancelJoin", "finalJoin"} /\ SettledFor(joining[e])
    <2>1. CASE RootStep \/ RootCancel \/ UNCHANGED vars
        BY <2>1 DEF RootStep, RootStart, RootDriven, RootJoin, RootDone, RootCancel, JoinInv,
                    Fresh, vars
    <2>2. ASSUME NEW x \in Exec, BodyStep(x)
          PROVE  FALSE
        BY <2>2 DEF BodyStep, Spawn, CancelHandle, Await, Throw, Return, RaceSpawn, RaceWait, Running
    <2>3. ASSUME NEW x \in Exec, Reaction(x) \/ HostStep(x)
          PROVE  phase[e] \in {"cancelJoin", "finalJoin"} /\ SettledFor(joining[e])
        BY <2>3 DEF Reaction, HostStep, Start, Resume, HandleDone, HostDone, AwaitFails, Wake,
                    CancelJoined, RaceWon, RaceAborted, RaceJoined, ContextJoin, ContextJoined,
                DriveReturned, Settle, Notify
    <2> QED
        BY <2>1, <2>2, <2>3 DEF Next, Finished
<1> QED
    BY <1>1, <1>2 DEF JoinInv, LineageKept, LineageJoined, SettledFor

-----------------------------------------------------------------------------
(* The theorems.                                                           *)

\* In every run, whatever its bounds, the runtime's records are well typed and
\* at most one body is inside a synchronous segment.
THEOREM TypeCorrect == Spec => []TypeOK
<1>1. JoinInv => TypeOK
    BY DEF JoinInv
<1> QED
    BY <1>1, JoinInvInit, JoinInvStep, PTL DEF Spec

\* An execution that fails settles after every execution it spawned.
THEOREM FailingJoins == Spec => []JoinedBeforeFailing
<1>1. JoinInv => JoinedBeforeFailing
    BY DEF JoinInv
<1> QED
    BY <1>1, JoinInvInit, JoinInvStep, PTL DEF Spec

\* Unless its body returned, an execution closes its resources after every
\* execution it spawned has settled.
THEOREM ClosesAfterJoin == Spec => CloseAfterJoin
<1>1. JoinInv /\ [Next]_vars => [CloseStep]_vars
    BY CloseStepHolds
<1> QED
    BY <1>1, JoinInvInit, JoinInvStep, PTL DEF Spec, CloseAfterJoin

-----------------------------------------------------------------------------
(* Cancellation, races, defects and waits rest on the shape of the tree of *)
(* executions, on which Cancelled() is closed downwards.                   *)

\* Executions are numbered as they are spawned.
Numbered == \A k \in Exec : Born(k) => \A j \in Exec : j < k => Born(j)

\* #ownerHandles is the chain of spawners, each older than the next.
OwnersChain ==
    \A k \in Exec :
        /\ parent[k] # 0 => /\ Born(k) /\ Born(parent[k])
                            /\ owners[k] = owners[parent[k]] \cup {parent[k]}
        /\ parent[k] = 0 => owners[k] = {}
        /\ \A j \in owners[k] : j < k

\* #children holds executions spawned here, and a body names spawned ones only.
NamesBorn ==
    \A e \in Exec :
        /\ \A k \in lineage[e] : parent[k] = e
        /\ \A k \in knows[e] : Born(k)

\* The driver's execution is of its own kind, from nymphStartRoot on.
RootKind == root # "init" => Born(1) /\ kind[1] = "root"

\* What no descent through #children reaches any more was asked when it left.
LeftAsked ==
    \A e, k \in Exec : parent[k] = e /\ k \notin lineage[e] => Settled(k) \/ k \in aborted

TreeInv == JoinInv /\ Numbered /\ OwnersChain /\ NamesBorn /\ RootKind

\* 0 stands for the host, for no spawner and for no running body.
LEMMA NoExecIsZero == 0 \notin Exec
BY DEF Exec

-----------------------------------------------------------------------------
(* The tree of executions.                                                 *)

\* What a step does to the tree: nothing, a spawn, or the start of the root.
\* `knows` grows by what another execution knows, or by the new execution.
SameTree ==
    /\ UNCHANGED treeVars
    /\ root = "init" => root' = "init"
    /\ \A e \in Exec : Born(e)' <=> Born(e)
    /\ \A e \in Exec : lineage'[e] \in {lineage[e], {}}
    /\ \A e \in Exec : knows'[e] = knows[e] \/ \E h \in Exec : knows'[e] = knows[e] \cup knows[h]

Grows(e, k, knd) ==
    /\ Construct(e, k, knd)
    /\ aborted' = aborted
    /\ phase[e] \in {"active", "spawning"}
    /\ \E first \in {"queued", FirstSegment(knd)} : phase' = [phase EXCEPT ![k] = first]
    /\ \A x \in Exec : \A h \in knows'[x] : h = k \/ \E y \in Exec : h \in knows[y]

\* Every step does one of these.
LEMMA TreeSteps ==
    ASSUME TypeOK, Fresh, [Next]_vars
    PROVE  \/ SameTree
           \/ \E e, k \in Exec, knd \in Kinds : Grows(e, k, knd)
           \/ \E knd \in Kinds : RootStart(knd)
<1>1. CASE UNCHANGED vars
    BY <1>1 DEF vars, SameTree, rootVars, Born
<1>2. CASE RootStep \/ RootCancel
    BY <1>2, RootInExec DEF RootStep, RootDriven, RootJoin, RootDone, RootCancel, SameTree, rootVars, Born, TypeOK
<1>3. ASSUME NEW e \in Exec, BodyStep(e)
      PROVE  SameTree \/ \E k \in Exec, knd \in Kinds : Grows(e, k, knd)
    <2>1. ASSUME NEW k \in Exec, NEW knd \in Kinds, Spawn(e, k, knd) PROVE Grows(e, k, knd)
        BY <2>1 DEF Spawn, Running, Grows, TypeOK
    <2>2. ASSUME NEW k \in Exec, NEW knd \in Kinds, RaceSpawn(e, k, knd) PROVE Grows(e, k, knd)
        BY <2>2 DEF RaceSpawn, Spawning, Grows, TypeOK
    <2>3. ASSUME NEW h \in Exec, CancelHandle(e, h) PROVE SameTree
        BY <2>3 DEF CancelHandle, SameTree, rootVars, Born
    <2>4. ASSUME NEW h \in 0 .. MaxExec, NEW drv \in BOOLEAN, Await(e, h, drv) PROVE SameTree
        BY <2>4 DEF Await, JoinLineage, Running, SameTree, rootVars, Born, TypeOK
    <2>5. ASSUME NEW why, Throw(e, why) \/ Return(e, why) PROVE SameTree
        BY <2>5 DEF Throw, Return, Running, AfterBody, SameTree, rootVars, Born, TypeOK
    <2>6. CASE RaceWait(e)
        BY <2>6 DEF RaceWait, Spawning, SameTree, rootVars, Born, TypeOK
    <2> QED
        BY <1>3, <2>1, <2>2, <2>3, <2>4, <2>5, <2>6 DEF BodyStep
<1>4. ASSUME NEW e \in Exec, Reaction(e) \/ HostStep(e) PROVE SameTree
    <2>1. CASE Start(e) \/ Resume(e) \/ RaceAborted(e) \/ ContextJoin(e) \/ ContextJoined(e) \/ Notify(e)
        BY <2>1 DEF Start, FirstSegment, Resume, RaceAborted, ContextJoin, ContextJoined, Notify,
                    SameTree, rootVars, Born, TypeOK
    <2>2. CASE HostDone(e)
        BY <2>2 DEF HostDone, Awaiting, Wake, SameTree, rootVars, Born, TypeOK
    <2>3. CASE HandleDone(e)
        <3>1. target[e] \in Exec
            BY <2>3 DEF HandleDone, TypeOK, Exec, Host
        <3>2. \A x \in Exec : knows'[x] = knows[x] \/ knows'[x] = knows[x] \cup knows[target[e]]
            BY <2>3 DEF HandleDone, Wake, TypeOK
        <3> QED
            BY <2>3, <3>1, <3>2 DEF HandleDone, Awaiting, Wake, SameTree, rootVars, Born, TypeOK
    <2>4. ASSUME NEW why, AwaitFails(e, why) PROVE SameTree
        BY <2>4 DEF AwaitFails, Awaiting, JoinLineage, SameTree, rootVars, Born, TypeOK
    <2>5. ASSUME NEW closeFails, CancelJoined(e, closeFails) \/ Settle(e, closeFails) PROVE SameTree
        BY <2>5 DEF CancelJoined, AfterBody, Settle, SameTree, rootVars, Born, TypeOK
    <2>6. CASE RaceWon(e)
        BY <2>6 DEF RaceWon, SameTree, rootVars, Born, TypeOK
    <2>7. CASE RaceJoined(e)
        BY <2>7 DEF RaceJoined, SameTree, rootVars, Born, TypeOK
    <2>8. CASE DriveReturned(e)
        BY <2>8 DEF DriveReturned, JoinLineage, SameTree, rootVars, Born, TypeOK
    <2> QED
        BY <1>4, <2>1, <2>2, <2>3, <2>4, <2>5, <2>6, <2>7, <2>8 DEF Reaction, HostStep
<1> QED
    BY <1>1, <1>2, <1>3, <1>4 DEF Next, Finished, RootStep

\* The tree stays a tree: numbered, with chains of spawners.
LEMMA TreeInvStep ==
    ASSUME TreeInv, [Next]_vars PROVE TreeInv'
<1>1. JoinInv' /\ TypeOK /\ Fresh
    BY JoinInvStep DEF TreeInv, JoinInv
<1>3. CASE SameTree
    <2>1. Numbered' /\ OwnersChain'
        BY <1>1, <1>3, RootInExec DEF TreeInv, SameTree, treeVars, Numbered, OwnersChain, TypeOK, Born
    <2>2. NamesBorn'
        BY <1>1, <1>3 DEF TreeInv, SameTree, treeVars, NamesBorn, TypeOK
    <2>3. RootKind'
        BY <1>3, RootInExec DEF TreeInv, SameTree, treeVars, RootKind
    <2> QED
        BY <1>1, <2>1, <2>2, <2>3 DEF TreeInv
<1>4. ASSUME NEW e \in Exec, NEW k \in Exec, NEW knd \in Kinds, Grows(e, k, knd)
      PROVE  TreeInv'
    <2>1. /\ ~Born(k) /\ Born(e) /\ \A j \in Exec : j < k => Born(j)
          /\ \A x \in Exec : Born(x)' <=> Born(x) \/ x = k
          /\ \A x \in Exec : parent'[x] = IF x = k THEN e ELSE parent[x]
          /\ \A x \in Exec : owners'[x] = IF x = k THEN owners[e] \cup {e} ELSE owners[x]
          /\ \A x \in Exec : lineage'[x] = IF x = e THEN lineage[e] \cup {k} ELSE lineage[x]
        BY <1>1, <1>4 DEF Grows, FirstSegment, Construct, Born, TypeOK
    <2>2. e < k /\ e # k
        BY <2>1 DEF TreeInv, Numbered, Exec
    <2>3. Numbered'
        BY <2>1 DEF TreeInv, Numbered, Exec
    <2>4. ASSUME NEW x \in Exec, x # k, parent[x] # 0 PROVE parent[x] # k /\ parent[x] \in Exec
        BY <1>1, <2>1, <2>4 DEF TreeInv, OwnersChain, TypeOK, Exec
    <2>5. OwnersChain'
        <3>1. ASSUME NEW x \in Exec
              PROVE  /\ parent'[x] # 0 => /\ Born(x)' /\ Born(parent[x])'
                                         /\ owners'[x] = owners'[parent'[x]] \cup {parent'[x]}
                     /\ parent'[x] = 0 => owners'[x] = {}
            <4>1. CASE x # k
                BY <1>1, <2>1, <2>4, <4>1 DEF TreeInv, OwnersChain, Born, TypeOK
            <4>2. CASE x = k
                BY <1>1, <2>1, <2>2, <4>2, NoExecIsZero DEF Born, TypeOK
            <4> QED
                BY <4>1, <4>2
        <3>2. ASSUME NEW x \in Exec, NEW j \in owners'[x] PROVE j < x
            <4>1. CASE x # k
                BY <2>1, <3>2, <4>1 DEF TreeInv, OwnersChain
            <4>2. CASE x = k
                <5>1. j = e \/ j \in owners[e]
                    BY <2>1, <3>2, <4>2
                <5>2. j \in owners[e] => j < e /\ j \in Exec
                    BY <1>1 DEF TreeInv, OwnersChain, TypeOK
                <5> QED
                    BY <2>2, <4>2, <5>1, <5>2 DEF Exec
            <4> QED
                BY <4>1, <4>2
        <3> QED
            BY <3>1, <3>2 DEF OwnersChain
    <2>6. NamesBorn'
        <3>1. ASSUME NEW x \in Exec, NEW h \in lineage'[x] PROVE parent'[h] = x
            <4>1. CASE h = k
                <5>1. k \notin lineage[x]
                    BY <2>1, NoExecIsZero DEF TreeInv, NamesBorn, OwnersChain
                <5> QED
                    BY <2>1, <3>1, <4>1, <5>1
            <4>2. CASE h # k
                BY <1>1, <2>1, <3>1, <4>2 DEF TreeInv, NamesBorn, TypeOK
            <4> QED
                BY <4>1, <4>2
        <3>2. ASSUME NEW x \in Exec, NEW h \in knows'[x] PROVE Born(h)'
            BY <1>1, <1>4, <2>1, <3>2 DEF TreeInv, NamesBorn, Grows, TypeOK
        <3> QED
            BY <3>1, <3>2 DEF NamesBorn
    <2>7. RootKind'
        <3>1. k # 1 /\ root # "init"
            BY <1>1, <2>1, <2>2, RootInExec DEF TreeInv, Fresh, Born, Exec
        <3> QED
            BY <1>1, <1>4, <2>1, <3>1, RootInExec DEF TreeInv, RootKind, Grows, Construct, TypeOK
    <2> QED
        BY <1>1, <2>3, <2>5, <2>6, <2>7 DEF TreeInv
<1>5. ASSUME NEW knd \in Kinds, RootStart(knd) PROVE TreeInv'
    <2>1. \A x \in Exec : ~Born(x) /\ parent[x] = 0
        BY <1>1, <1>5 DEF RootStart, Fresh, Born
    <2>2. /\ \A x \in Exec : Born(x)' <=> x \in {1, 2}
          /\ \A x \in Exec : parent'[x] = IF x = 2 THEN 1 ELSE 0
          /\ \A x \in Exec : owners'[x] = IF x = 2 THEN {1} ELSE owners[x]
          /\ \A x \in Exec : lineage'[x] = IF x = 1 THEN {2} ELSE lineage[x]
          /\ knows' = knows
        BY <1>1, <1>5, <2>1, RootInExec DEF RootStart, FirstSegment, Born, TypeOK
    <2>3. Numbered'
        BY <2>2 DEF Numbered, Exec
    <2>4. OwnersChain'
        BY <2>1, <2>2, RootInExec DEF TreeInv, OwnersChain, Born
    <2>5. NamesBorn'
        BY <1>1, <2>1, <2>2, RootInExec DEF TreeInv, NamesBorn, TypeOK, Exec
    <2>6. RootKind'
        BY <1>1, <1>5, <2>2, RootInExec DEF RootKind, RootStart, TypeOK
    <2> QED
        BY <1>1, <2>3, <2>4, <2>5, <2>6 DEF TreeInv
<1> QED
    BY <1>1, <1>3, <1>4, <1>5, TreeSteps

\* Only a running body or race, or the start of the root, gets a child.
LEMMA NewChild ==
    ASSUME TreeInv, [Next]_vars, NEW e \in Exec, NEW k \in Exec, parent'[k] = e, parent[k] # e
    PROVE  ~Born(k) /\ k \in lineage'[e] /\ phase'[e] \in {"active", "spawning", "rootDrive"}
<1>1. TypeOK /\ Fresh
    BY DEF TreeInv, JoinInv
<1>2. CASE SameTree
    BY <1>2 DEF SameTree, treeVars
<1>3. ASSUME NEW x \in Exec, NEW n \in Exec, NEW knd \in Kinds, Grows(x, n, knd)
      PROVE  ~Born(k) /\ k \in lineage'[e] /\ phase'[e] \in {"active", "spawning", "rootDrive"}
    BY <1>1, <1>3 DEF Grows, FirstSegment, Construct, Born, TypeOK
<1>4. ASSUME NEW knd \in Kinds, RootStart(knd)
      PROVE  ~Born(k) /\ k \in lineage'[e] /\ phase'[e] \in {"active", "spawning", "rootDrive"}
    BY <1>1, <1>4, NoExecIsZero, RootInExec DEF RootStart, Fresh, Born, TypeOK
<1> QED
    BY <1>1, <1>2, <1>3, <1>4, TreeSteps

-----------------------------------------------------------------------------
(* Outcomes are final.                                                     *)

\* A settled execution keeps its outcome, its place in its race and what it joined.
Final(e) == Settled(e)' /\ fail'[e] = fail[e] /\ before'[e] = before[e] /\ joining'[e] = joining[e]
                        /\ target'[e] = target[e]

LEMMA SettledKept ==
    ASSUME TypeOK, Fresh, [Next]_vars, NEW x \in Exec, Settled(x) PROVE Final(x)
<1> USE DEF Final, Settled
<1>1. CASE UNCHANGED vars
    BY <1>1 DEF vars
<1>2. CASE RootStep \/ RootCancel
    BY <1>2, RootInExec DEF RootStep, RootStart, RootDriven, RootJoin, RootDone, RootCancel, Fresh, TypeOK
<1>3. ASSUME NEW e \in Exec, BodyStep(e) PROVE Final(x)
    <2>1. ASSUME NEW k \in Exec, NEW knd \in Kinds, Spawn(e, k, knd) \/ RaceSpawn(e, k, knd)
          PROVE  Final(x)
        BY <2>1 DEF Spawn, RaceSpawn, Construct, Born, TypeOK
    <2>2. ASSUME NEW h \in 0 .. MaxExec, NEW drv \in BOOLEAN, Await(e, h, drv) PROVE Final(x)
        BY <2>2 DEF Await, JoinLineage, Running, TypeOK
    <2>3. ASSUME NEW why, Throw(e, why) \/ Return(e, why) PROVE Final(x)
        BY <2>3 DEF Throw, Return, Running, TypeOK
    <2>4. ASSUME NEW h, CancelHandle(e, h) PROVE Final(x)
        BY <2>4 DEF CancelHandle
    <2>5. CASE RaceWait(e)
        BY <2>5 DEF RaceWait, Spawning, TypeOK
    <2> QED
        BY <1>3, <2>1, <2>2, <2>3, <2>4, <2>5 DEF BodyStep
<1>4. ASSUME NEW e \in Exec, Reaction(e) \/ HostStep(e) PROVE Final(x)
    <2>1. CASE Start(e) \/ Resume(e) \/ HandleDone(e) \/ HostDone(e)
        BY <2>1 DEF Start, Resume, HandleDone, HostDone, Awaiting, Wake, TypeOK
    <2>2. ASSUME NEW why, AwaitFails(e, why) PROVE Final(x)
        BY <2>2 DEF AwaitFails, Awaiting, JoinLineage, TypeOK
    <2>3. ASSUME NEW closeFails, CancelJoined(e, closeFails) PROVE Final(x)
        BY <2>3 DEF CancelJoined, TypeOK
    <2>4. ASSUME NEW closeFails, Settle(e, closeFails) PROVE Final(x)
        BY <2>4 DEF Settle, RecordSettlement, TypeOK
    <2>5. CASE RaceWon(e)
        BY <2>5 DEF RaceWon, TypeOK
    <2>6. CASE RaceAborted(e) \/ RaceJoined(e)
        BY <2>6 DEF RaceAborted, RaceJoined, TypeOK
    <2>7. CASE ContextJoin(e) \/ ContextJoined(e) \/ Notify(e)
        BY <2>7 DEF ContextJoin, ContextJoined, Notify, TypeOK
    <2>8. CASE DriveReturned(e)
        BY <2>8 DEF DriveReturned, JoinLineage, RecordSettlement, TypeOK
    <2> QED
        BY <1>4, <2>1, <2>2, <2>3, <2>4, <2>5, <2>6, <2>7, <2>8 DEF Reaction, HostStep
<1> QED
    BY <1>1, <1>2, <1>3, <1>4 DEF Next, Finished

-----------------------------------------------------------------------------
(* Cancellation.                                                           *)

\* A running execution that was not asked before is reached by its own cancel().
LEMMA ReachesItself ==
    ASSUME TypeOK, OwnersChain, NEW h \in Exec, PassesCancel(h) PROVE h \in Reached(h)
<1>1. ASSUME NEW j \in {h} \cup owners[h], j = h \/ h \in owners[j] PROVE j = h
    BY <1>1 DEF OwnersChain, TypeOK, Exec
<1> QED
    BY <1>1 DEF Reached

\* The descent passes through: with an execution, cancel() reaches its children,
\* those excepted that settled or were asked before.
LEMMA ReachesChildren ==
    ASSUME TreeInv, LeftAsked, NEW h \in Exec, NEW e \in Reached(h), NEW k \in Exec,
           parent[k] = e, PassesCancel(k)
    PROVE  k \in Reached(h)
<1>1. e \in Exec /\ owners[k] = owners[e] \cup {e} /\ k \in lineage[e]
    BY NoExecIsZero DEF Reached, TreeInv, OwnersChain, LeftAsked, PassesCancel
<1>2. e = h \/ h \in owners[e]
    BY DEF Reached
<1>3. ASSUME NEW j \in {k} \cup owners[k], j = h \/ h \in owners[j]
      PROVE  PassesCancel(j) /\ (j # h => j \in lineage[parent[j]])
    BY <1>1, <1>3 DEF Reached
<1> QED
    BY <1>1, <1>2, <1>3 DEF Reached

\* cancelChildren() asks every running execution of the set it is called for.
LEMMA CancelledCovers ==
    ASSUME TypeOK, OwnersChain, NEW S \in SUBSET Exec, NEW k \in S, ~Settled(k), k \notin aborted
    PROVE  k \in Cancelled(S)
BY ReachesItself DEF Cancelled, Unsettled, PassesCancel

\* What a step asks to stop is what cancel() reaches from some executions; an
\* execution that forgets children cancels them in the same step.
Asks == \E S \in SUBSET Exec : (\A h \in S : Born(h)) /\ aborted' = aborted \cup Cancelled(S)
Forgets(e) == Cancelled(lineage[e]) \subseteq aborted'

LEMMA AskStep ==
    ASSUME TreeInv, [Next]_vars
    PROVE  Asks /\ \A x \in Exec : lineage[x] \subseteq lineage'[x] \/ Forgets(x)
<1>0. TypeOK /\ Fresh
    BY DEF TreeInv, JoinInv
<1>1. ASSUME aborted' = aborted PROVE Asks
    <2>1. Cancelled({}) = {}
        BY DEF Cancelled, Unsettled
    <2> QED
        BY <1>1, <2>1 DEF Asks
<1>2. \A x, k \in Exec : k \in lineage[x] \/ parent[k] = x => Born(k)
    BY <1>0, NoExecIsZero DEF TreeInv, NamesBorn, OwnersChain, TypeOK
<1>3. ASSUME NEW e \in Exec, NEW where, NEW why, NEW seen, JoinLineage(e, where, why, seen)
      PROVE  Asks /\ \A x \in Exec : lineage[x] \subseteq lineage'[x] \/ Forgets(x)
    <2>1. lineage[e] \in SUBSET Exec /\ aborted' = aborted \cup Cancelled(lineage[e])
        BY <1>0, <1>3 DEF TypeOK, JoinLineage
    <2>2. \A x \in Exec \ {e} : lineage'[x] = lineage[x]
        BY <1>0, <1>3 DEF TypeOK, JoinLineage
    <2> QED
        BY <1>2, <2>1, <2>2 DEF Asks, Forgets
<1>4. ASSUME lineage' = lineage, Asks
      PROVE  Asks /\ \A x \in Exec : lineage[x] \subseteq lineage'[x] \/ Forgets(x)
    BY <1>4
<1>5. CASE UNCHANGED vars
    BY <1>1, <1>4, <1>5 DEF vars
<1>6. CASE RootStep
    <2>1. CASE RootDriven \/ RootJoin \/ RootDone
        BY <1>1, <2>1 DEF RootDriven, RootJoin, RootDone
    <2>2. ASSUME NEW knd, RootStart(knd)
          PROVE  Asks /\ \A x \in Exec : lineage[x] \subseteq lineage'[x] \/ Forgets(x)
        <3>1. \A x \in Exec : lineage[x] = {}
            BY <1>0, <1>2, <2>2 DEF RootStart, Fresh, Born, TypeOK
        <3> QED
            BY <1>1, <2>2, <3>1 DEF RootStart
    <2> QED
        BY <1>6, <2>1, <2>2 DEF RootStep
<1>7. CASE RootCancel
    <2>1. \A h \in {1} \cup Members(RootContext) : h \in Exec /\ Born(h)
        BY <1>7, RootInExec DEF RootCancel, Members, TreeInv, RootKind
    <2> QED
        BY <1>4, <1>7, <2>1 DEF RootCancel, Asks
<1>8. ASSUME NEW e \in Exec, BodyStep(e)
      PROVE  Asks /\ \A x \in Exec : lineage[x] \subseteq lineage'[x] \/ Forgets(x)
    <2>1. ASSUME NEW k \in Exec, NEW knd \in Kinds, Spawn(e, k, knd) \/ RaceSpawn(e, k, knd)
          PROVE  aborted' = aborted /\ \A x \in Exec : lineage[x] \subseteq lineage'[x]
        BY <1>0, <2>1 DEF Spawn, RaceSpawn, Construct, TypeOK
    <2>2. ASSUME NEW h \in Exec, CancelHandle(e, h) PROVE lineage' = lineage /\ Asks
        <3>1. Born(h) /\ {h} \in SUBSET Exec
            BY <2>2 DEF CancelHandle, TreeInv, NamesBorn
        <3> QED
            BY <2>2, <3>1 DEF CancelHandle, Asks
    <2>3. ASSUME NEW h \in 0 .. MaxExec, NEW drv \in BOOLEAN, Await(e, h, drv)
          PROVE  \/ lineage' = lineage /\ aborted' = aborted
                 \/ \E seen : JoinLineage(e, "cancelJoin", "cancel", seen)
        BY <2>3 DEF Await
    <2>4. CASE RaceWait(e) \/ \E why \in {"none", "cancel", "defect"} : Throw(e, why) \/ Return(e, why)
        BY <1>1, <1>4, <2>4 DEF Throw, Return, RaceWait
    <2> QED
        BY <1>1, <1>3, <1>4, <1>8, <2>1, <2>2, <2>3, <2>4 DEF BodyStep
<1>9. ASSUME NEW e \in Exec, Reaction(e) \/ HostStep(e)
      PROVE  Asks /\ \A x \in Exec : lineage[x] \subseteq lineage'[x] \/ Forgets(x)
    <2>1. CASE \/ Start(e) \/ Resume(e) \/ HandleDone(e) \/ HostDone(e) \/ RaceAborted(e)
               \/ RaceJoined(e) \/ ContextJoined(e)
               \/ \E closeFails \in BOOLEAN : CancelJoined(e, closeFails) \/ Settle(e, closeFails)
        BY <1>1, <1>4, <2>1 DEF Start, Resume, HandleDone, HostDone, Wake, RaceAborted, RaceJoined,
                                ContextJoined, CancelJoined, Settle
    <2>2. ASSUME NEW why, AwaitFails(e, why) PROVE JoinLineage(e, "cancelJoin", why, {})
        BY <2>2 DEF AwaitFails
    <2>3. CASE RaceWon(e)
        <3>1. PICK h \in Exec : aborted' = aborted \cup Cancelled(Runners(e) \ {h})
            BY <2>3 DEF RaceWon, Runners
        <3>2. \A k \in Runners(e) \ {h} : Born(k) /\ k \in Exec
            BY <1>2 DEF Runners
        <3> QED
            BY <1>4, <2>3, <3>1, <3>2 DEF RaceWon, Asks
    <2>4. CASE ContextJoin(e)
        <3>1. \A k \in Members(e) : Born(k) /\ k \in Exec
            BY DEF Members
        <3> QED
            BY <1>1, <1>4, <2>4, <3>1 DEF ContextJoin, Asks
    <2>5. CASE Notify(e)
        <3>1. \A k \in Members(ctx[e]) \ ({e} \cup owners[e]) : Born(k) /\ k \in Exec
            BY DEF Members
        <3> QED
            BY <1>4, <2>5, <3>1 DEF Notify, Asks
    <2>6. CASE DriveReturned(e)
        BY <1>1, <1>3, <1>4, <2>6 DEF DriveReturned
    <2> QED
        BY <1>3, <1>9, <2>1, <2>2, <2>3, <2>4, <2>5, <2>6 DEF Reaction, HostStep
<1> QED
    BY <1>5, <1>6, <1>7, <1>8, <1>9 DEF Next, Finished

\* What falls off #children has been asked to stop, or settled.
LEMMA LeftAskedStep ==
    ASSUME TreeInv, LeftAsked, [Next]_vars PROVE LeftAsked'
<1> SUFFICES ASSUME NEW e \in Exec, NEW k \in Exec, parent'[k] = e, k \notin lineage'[e]
             PROVE  Settled(k)' \/ k \in aborted'
    BY DEF LeftAsked
<1>1. TypeOK /\ Fresh
    BY DEF TreeInv, JoinInv
<1>2. parent[k] = e
    BY NewChild
<1>3. CASE Settled(k)
    BY <1>1, <1>3, SettledKept DEF Final
<1>4. CASE ~Settled(k) /\ k \notin aborted
    <2>1. k \in lineage[e]
        BY <1>2, <1>4 DEF LeftAsked
    <2>2. lineage[e] \in SUBSET Exec /\ Forgets(e)
        BY <1>1, <2>1, AskStep DEF TypeOK
    <2> QED
        BY <1>1, <1>4, <2>1, <2>2, CancelledCovers DEF TreeInv, Forgets
<1>5. CASE k \in aborted
    BY <1>5, AskStep DEF Asks
<1> QED
    BY <1>3, <1>4, <1>5

-----------------------------------------------------------------------------
(* Cancellation descends.                                                  *)

Parked == {"waiting", "racing", "raceJoin", "cancelJoin", "finalJoin"}

\* An execution that starts to wait or to join was not asked to stop, or asks
\* its children; it fails after it joined them.
ParkStep(x) ==
    /\ phase'[x] \in Parked /\ phase[x] \notin Parked => x \notin aborted \/ Forgets(x)
    /\ Settled(x)' /\ ~Settled(x) /\ fail'[x] # "none" => phase[x] \in Parked

LEMMA ParkSteps ==
    ASSUME TypeOK, Fresh, [Next]_vars, NEW x \in Exec PROVE ParkStep(x)
<1> USE DEF ParkStep, Parked, Settled
<1>1. CASE UNCHANGED vars
    BY <1>1 DEF vars
<1>2. CASE RootStep \/ RootCancel
    BY <1>2, RootInExec
    DEF RootStep, RootStart, FirstSegment, RootDriven, RootJoin, RootDone, RootCancel, TypeOK
<1>3. ASSUME NEW e \in Exec, BodyStep(e) PROVE ParkStep(x)
    <2>1. ASSUME NEW k \in Exec, NEW knd \in Kinds, Spawn(e, k, knd) \/ RaceSpawn(e, k, knd)
          PROVE  ParkStep(x)
        BY <2>1 DEF Spawn, RaceSpawn, FirstSegment, Construct, Born, TypeOK
    <2>2. ASSUME NEW h \in 0 .. MaxExec, NEW drv \in BOOLEAN, Await(e, h, drv) PROVE ParkStep(x)
        BY <2>2 DEF Await, JoinLineage, Running, Forgets, TypeOK
    <2>3. ASSUME NEW why, Throw(e, why) \/ Return(e, why) PROVE ParkStep(x)
        BY <2>3 DEF Throw, Return, Running, AfterBody, TypeOK
    <2>4. ASSUME NEW h, CancelHandle(e, h) PROVE ParkStep(x)
        BY <2>4 DEF CancelHandle
    <2>5. CASE RaceWait(e)
        BY <2>5 DEF RaceWait, Spawning, TypeOK
    <2> QED
        BY <1>3, <2>1, <2>2, <2>3, <2>4, <2>5 DEF BodyStep
<1>4. ASSUME NEW e \in Exec, Reaction(e) \/ HostStep(e) PROVE ParkStep(x)
    <2>1. CASE Start(e) \/ Resume(e) \/ HandleDone(e) \/ HostDone(e)
        BY <2>1 DEF Start, FirstSegment, Resume, HandleDone, HostDone, Awaiting, Wake, TypeOK
    <2>2. ASSUME NEW why, AwaitFails(e, why) PROVE ParkStep(x)
        BY <2>2 DEF AwaitFails, Awaiting, JoinLineage, TypeOK
    <2>3. ASSUME NEW closeFails, CancelJoined(e, closeFails) \/ Settle(e, closeFails)
          PROVE  ParkStep(x)
        BY <2>3 DEF CancelJoined, AfterBody, Settle, TypeOK
    <2>4. CASE RaceWon(e)
        BY <2>4 DEF RaceWon, TypeOK
    <2>5. CASE RaceAborted(e) \/ RaceJoined(e)
        BY <2>5 DEF RaceAborted, RaceJoined, TypeOK
    <2>6. CASE ContextJoin(e) \/ ContextJoined(e) \/ Notify(e)
        BY <2>6 DEF ContextJoin, ContextJoined, Notify, TypeOK
    <2>7. CASE DriveReturned(e)
        BY <2>7 DEF DriveReturned, JoinLineage, Forgets, TypeOK
    <2> QED
        BY <1>4, <2>1, <2>2, <2>3, <2>4, <2>5, <2>6, <2>7 DEF Reaction, HostStep
<1> QED
    BY <1>1, <1>2, <1>3, <1>4 DEF Next, Finished

\* Whoever is asked to stop while it waits or joins passes the request on, and
\* whoever starts to wait or join after it was asked passes it on then.
LEMMA DescendsStep ==
    ASSUME TreeInv, LeftAsked, CancellationDescends, [Next]_vars PROVE CancellationDescends'
<1>1. TypeOK /\ Fresh /\ aborted' \subseteq Exec /\ JoinedBeforeFailing'
    BY JoinInvStep DEF TreeInv, JoinInv, TypeOK
<1> SUFFICES ASSUME NEW e \in Exec, e \in aborted', phase'[e] \in Parked,
                    NEW k \in Exec, parent'[k] = e
             PROVE  Settled(k)' \/ k \in aborted'
    BY <1>1 DEF CancellationDescends, JoinedBeforeFailing, Parked, Settled
<1>2. parent[k] = e
    BY NewChild DEF Parked
<1>3. CASE Settled(k) \/ k \in aborted
    BY <1>1, <1>3, SettledKept, AskStep DEF Final, Asks
<1>4. CASE PassesCancel(k)
    <2>1. CASE e \notin aborted
        <3>1. PICK S \in SUBSET Exec : aborted' = aborted \cup Cancelled(S)
            BY AskStep DEF Asks
        <3>2. PICK h \in Unsettled(S) : e \in Reached(h)
            BY <2>1, <3>1 DEF Cancelled
        <3>3. k \in Reached(h)
            BY <1>2, <1>4, <3>2, ReachesChildren DEF Unsettled
        <3> QED
            BY <3>1, <3>2, <3>3 DEF Cancelled
    <2>2. CASE e \in aborted /\ phase[e] \in Parked
        BY <1>2, <1>4, <2>2 DEF CancellationDescends, Parked, PassesCancel, Settled
    <2>3. CASE e \in aborted /\ phase[e] \notin Parked
        <3>1. Forgets(e)
            BY <1>1, <2>3, ParkSteps DEF ParkStep
        <3>2. k \in lineage[e] /\ lineage[e] \in SUBSET Exec
            BY <1>1, <1>2, <1>4 DEF LeftAsked, PassesCancel, TypeOK
        <3> QED
            BY <1>1, <1>4, <3>1, <3>2, CancelledCovers DEF Forgets, PassesCancel, TreeInv
    <2> QED
        BY <2>1, <2>2, <2>3
<1> QED
    BY <1>3, <1>4 DEF PassesCancel

-----------------------------------------------------------------------------
(* What one step does to one execution.                                    *)

\* nymphTaskRace has no generated body: what a race's phases are.
RacePhases == {"queued", "spawning", "racing", "raceJoin", "ended", "ctxJoin", "returned",
               "finalJoin", "settled"}
KindsApart ==
    \A e \in Exec : /\ phase[e] \in {"spawning", "racing", "raceJoin"} => kind[e] = "race"
                    /\ kind[e] = "race" => phase[e] \in RacePhases

\* Only a failure is followed by joinChildren().
FailingJoin == \A e \in Exec : phase[e] \in Joins => fail[e] # "none"

\* A race that has its winner, and was not cancelled or defected since.
Decided(e) ==
    \/ phase[e] = "raceJoin"
    \/ phase[e] \in {"ended", "ctxJoin", "returned", "settled"} /\ fail[e] = "none"

Produces(e) == phase[e] \in {"returned", "settled"} /\ fail[e] = "none"

\* How an execution settles, fails, and how a block or a race gets its value.
SettleStep(x) ==
    Settled(x)' /\ ~Settled(x) => DriveReturned(x) \/ \E closeFails \in BOOLEAN : Settle(x, closeFails)

FailStep(x) == phase'[x] \in Joins => fail'[x] # "none"

BlockStep(x) ==
    kind[x] = "block" /\ Produces(x)' =>
        /\ joining'[x] = joining[x]
        /\ \/ Produces(x)
           \/ SettledFor(joining[x]) /\ ~UnobservedDefect(joining[x])

RaceStep(x) ==
    kind[x] = "race" =>
        /\ phase'[x] \in RacePhases
        /\ Decided(x)' =>
              \/ RaceWon(x)
              \/ RaceJoined(x)
              \/ /\ Decided(x) /\ target'[x] = target[x]
                 /\ phase[x] = "raceJoin" <=> phase'[x] = "raceJoin"
                 /\ phase[x] = "raceJoin" => joining'[x] = joining[x]

KindStep(x) ==
    Born(x) => /\ kind'[x] = kind[x]
               /\ phase'[x] \in {"spawning", "racing", "raceJoin"} => kind[x] = "race"

\* A cancellation comes from a signal or from the failure that was awaited.
CancelStep(x) ==
    fail'[x] = "cancel" =>
        fail[x] = "cancel" \/ x \in aborted' \/ \E h \in Exec : Settled(h) /\ fail[h] = "cancel"

OneStep(x) == SettleStep(x) /\ FailStep(x) /\ BlockStep(x) /\ RaceStep(x) /\ KindStep(x) /\ CancelStep(x)

\* The new execution of a spawn, and the ones before it.
LEMMA SpawnOneStep ==
    ASSUME TypeOK, FailingJoin, KindsApart, NEW e \in Exec, NEW k \in Exec, NEW knd \in Kinds,
           Construct(e, k, knd), NEW first \in {"queued", "active", "spawning"},
           phase' = [phase EXCEPT ![k] = first], UNCHANGED <<fail, joining, target>>,
           NEW x \in Exec
    PROVE  OneStep(x)
<1>1. /\ phase'[x] = IF x = k THEN first ELSE phase[x]
      /\ kind'[x] = IF x = k THEN knd ELSE kind[x]
      /\ phase[k] = "none"
    BY DEF TypeOK, Construct, Born
<1>2. SettleStep(x) /\ FailStep(x) /\ BlockStep(x)
    BY <1>1 DEF SettleStep, FailStep, BlockStep, Produces, Settled, FailingJoin, Joins
<1>3. RaceStep(x) /\ KindStep(x) /\ CancelStep(x)
    BY <1>1 DEF RaceStep, KindStep, CancelStep, Decided, RacePhases, KindsApart, Born
<1> QED
    BY <1>2, <1>3 DEF OneStep

LEMMA OneSteps ==
    ASSUME TreeInv, FailingJoin, KindsApart, [Next]_vars, NEW x \in Exec PROVE OneStep(x)
<1>1. TypeOK /\ Fresh
    BY DEF TreeInv, JoinInv
<1> USE DEF OneStep, SettleStep, FailStep, BlockStep, RaceStep, KindStep, CancelStep, Produces,
            Decided, Joins, RacePhases, Settled, Born
<1>2. CASE UNCHANGED vars
    BY <1>2 DEF vars, treeVars, FailingJoin, KindsApart
<1>3. CASE RootStep \/ RootCancel
    <2>1. CASE RootJoin \/ RootDone \/ RootCancel
        BY <2>1 DEF RootJoin, RootDone, RootCancel, treeVars, FailingJoin, KindsApart
    <2>2. CASE RootDriven
        <3>1. kind[1] = "root"
            BY <1>1, <2>2, RootInExec DEF RootDriven, Fresh, TreeInv, RootKind
        <3>2. Settled(2)
            BY <2>2 DEF RootDriven, SettledFor
        <3> QED
            BY <1>1, <2>2, <3>1, <3>2, RootInExec DEF RootDriven, treeVars, FailingJoin, KindsApart, TypeOK
    <2>3. ASSUME NEW knd, RootStart(knd) PROVE OneStep(x)
        BY <1>1, <2>3, RootInExec DEF RootStart, FirstSegment, Fresh, KindsApart, TypeOK
    <2> QED
        BY <1>3, <2>1, <2>2, <2>3 DEF RootStep
<1>4. ASSUME NEW e \in Exec, BodyStep(e) PROVE OneStep(x)
    <2>1. ASSUME NEW k \in Exec, NEW knd \in Kinds, Spawn(e, k, knd) \/ RaceSpawn(e, k, knd)
          PROVE  OneStep(x)
        BY <1>1, <2>1, SpawnOneStep DEF Spawn, RaceSpawn, FirstSegment
    <2>2. ASSUME NEW h \in 0 .. MaxExec, NEW drv \in BOOLEAN, Await(e, h, drv) PROVE OneStep(x)
        BY <1>1, <2>2 DEF Await, JoinLineage, Running, treeVars, FailingJoin, KindsApart, TypeOK
    <2>3. ASSUME NEW why, Throw(e, why) PROVE OneStep(x)
        BY <1>1, <2>3 DEF Throw, Running, AfterBody, OwnsContext, treeVars, FailingJoin, KindsApart,
                          TypeOK
    <2>6. ASSUME NEW why \in {"none", "defect"}, Return(e, why) PROVE OneStep(x)
        BY <1>1, <2>6 DEF Return, Running, AfterBody, OwnsContext, treeVars, FailingJoin, KindsApart,
                          TypeOK
    <2>4. ASSUME NEW h, CancelHandle(e, h) PROVE OneStep(x)
        BY <2>4 DEF CancelHandle, treeVars, FailingJoin, KindsApart
    <2>5. CASE RaceWait(e)
        BY <1>1, <2>5 DEF RaceWait, Spawning, treeVars, FailingJoin, KindsApart, TypeOK
    <2> QED
        BY <1>4, <2>1, <2>2, <2>3, <2>4, <2>5, <2>6 DEF BodyStep
<1>5. ASSUME NEW e \in Exec, Reaction(e) \/ HostStep(e) PROVE OneStep(x)
    <2> USE <1>1 DEF treeVars, FailingJoin, KindsApart, TypeOK
    <2>1. CASE Start(e) \/ Resume(e) \/ HandleDone(e) \/ HostDone(e)
        BY <2>1 DEF Start, FirstSegment, Resume, HandleDone, HostDone, Awaiting, Wake
    <2>2. ASSUME NEW why \in {"cancel", "defect"}, AwaitFails(e, why) PROVE OneStep(x)
        <3>1. \/ e \in aborted
              \/ why = "defect"
              \/ target[e] \in Exec /\ Settled(target[e]) /\ why = fail[target[e]]
            BY <2>2 DEF AwaitFails, SettledFor, Host, Exec
        <3> QED
            BY <2>2, <3>1 DEF AwaitFails, Awaiting, JoinLineage
    <2>3. ASSUME NEW closeFails, CancelJoined(e, closeFails) PROVE OneStep(x)
        BY <2>3 DEF CancelJoined, AfterBody, OwnsContext, Worse
    <2>4. ASSUME NEW closeFails \in BOOLEAN, Settle(e, closeFails) PROVE OneStep(x)
        <3>1. /\ phase[e] = "finalJoin" /\ phase' = [phase EXCEPT ![e] = "settled"]
              /\ fail' = [fail EXCEPT ![e] = Worse(@, joining[e], closeFails)]
              /\ UNCHANGED <<kind, joining, target>>
            BY <2>4 DEF Settle
        <3> QED
            BY <2>4, <3>1 DEF Worse
    <2>5. CASE RaceWon(e)
        <3>1. /\ phase[e] = "racing" /\ phase' = [phase EXCEPT ![e] = "raceJoin"]
              /\ joining' = [joining EXCEPT ![e] = Runners(e)]
              /\ \A y \in Exec \ {e} : target'[y] = target[y]
              /\ kind' = kind /\ fail' = fail
            BY <2>5 DEF RaceWon
        <3>2. Settled(x)' => Settled(x)
            BY <3>1
        <3> QED
            BY <2>5, <3>1, <3>2
    <2>6. CASE RaceAborted(e)
        BY <2>6 DEF RaceAborted
    <2>7. CASE RaceJoined(e)
        <3>1. /\ phase[e] = "raceJoin" /\ phase' = [phase EXCEPT ![e] = "ended"]
              /\ \A y \in Exec \ {e} : fail'[y] = fail[y]
              /\ fail'[e] # "cancel"
              /\ UNCHANGED <<kind, joining, target>>
            BY <2>7 DEF RaceJoined
        <3> QED
            BY <2>7, <3>1
    <2>8. CASE ContextJoin(e)
        BY <2>8 DEF ContextJoin
    <2>9. CASE ContextJoined(e)
        BY <2>9 DEF ContextJoined
    <2>10. CASE Notify(e)
        BY <2>10 DEF Notify
    <2>11. CASE DriveReturned(e)
        <3>1. /\ phase[e] = "returned" /\ UNCHANGED <<kind, target>>
              /\ \/ /\ phase' = [phase EXCEPT ![e] = "settled"]
                    /\ fail[e] = "none" /\ UNCHANGED <<fail, joining>>
                 \/ \E why \in {"cancel", fail[e]} :
                       /\ phase' = [phase EXCEPT ![e] = "finalJoin"] /\ why # "none"
                       /\ fail' = [fail EXCEPT ![e] = why]
                       /\ joining' = [joining EXCEPT ![e] = lineage[e]]
                       /\ why = "cancel" => fail[e] = "cancel" \/ e \in aborted'
            BY <2>11, AskStep DEF DriveReturned, JoinLineage
        <3> QED
            BY <2>11, <3>1
    <2> QED
        BY <1>5, <2>1, <2>2, <2>3, <2>4, <2>5, <2>6, <2>7, <2>8, <2>9, <2>10, <2>11
        DEF Reaction, HostStep
<1> QED
    BY <1>2, <1>3, <1>4, <1>5 DEF Next, Finished

-----------------------------------------------------------------------------
(* Defects, races and the source of a cancellation.                        *)

\* What a context was told of has defected.
NotifiedDefected == \A k \in notified : Defected(k)

\* What a block joined before it produced a value.
BlockJoined ==
    \A e \in Exec : kind[e] = "block" /\ Produces(e) =>
        \A k \in joining[e] : Settled(k) /\ (fail[k] = "defect" => k \in observed)

\* The winner of a decided race is the runner that settled first; a race that
\* goes on to produce its value has joined the others.
RaceWinner ==
    \A e \in Exec : kind[e] = "race" /\ Decided(e) =>
        /\ target[e] \in Runners(e) /\ SettledFirst(target[e], Runners(e))
        /\ phase[e] = "raceJoin" => joining[e] = Runners(e)
        /\ phase[e] # "raceJoin" => \A k \in Runners(e) \ {target[e]} : Settled(k) /\ ~Defected(k)

\* Somebody was asked to stop before anything is cancelled.
CancelSource ==
    \A e \in Exec : fail[e] = "cancel" =>
        e \in aborted \/ \E h \in Exec : Settled(h) /\ fail[h] = "cancel"

SafetyInv ==
    /\ TreeInv /\ LeftAsked /\ CancellationDescends
    /\ KindsApart /\ FailingJoin
    /\ NotifiedDefected /\ SiblingsCancelled
    /\ BlockJoined /\ RaceWinner /\ CancelSource

\* The place of an execution in the tree is fixed when it is spawned.
LEMMA PlaceKept ==
    ASSUME TreeInv, [Next]_vars, NEW k \in Exec, Born(k)
    PROVE  Born(k)' /\ ctx'[k] = ctx[k] /\ owners'[k] = owners[k] /\ parent'[k] = parent[k]
<1>1. TypeOK /\ Fresh
    BY DEF TreeInv, JoinInv
<1>2. CASE SameTree
    BY <1>2 DEF SameTree, treeVars
<1>3. ASSUME NEW x \in Exec, NEW n \in Exec, NEW knd \in Kinds, Grows(x, n, knd)
      PROVE  Born(k)' /\ ctx'[k] = ctx[k] /\ owners'[k] = owners[k] /\ parent'[k] = parent[k]
    BY <1>1, <1>3 DEF Grows, FirstSegment, Construct, Born, TypeOK
<1>4. ASSUME NEW knd \in Kinds, RootStart(knd) PROVE FALSE
    BY <1>1, <1>4 DEF RootStart, Fresh, Born
<1> QED
    BY <1>1, <1>2, <1>3, <1>4, TreeSteps

\* A context is told of one defect at a time, and observations are kept.
LEMMA NotifySteps ==
    ASSUME TypeOK, Fresh, [Next]_vars
    PROVE  /\ notified' = notified \/ \E k \in Exec : Notify(k)
           /\ root = "init" \/ observed \subseteq observed'
<1>1. CASE UNCHANGED vars
    BY <1>1 DEF vars
<1>2. CASE RootStep \/ RootCancel
    BY <1>2 DEF RootStep, RootStart, RootDriven, RootJoin, RootDone, RootCancel
<1>3. ASSUME NEW e \in Exec, BodyStep(e) PROVE notified' = notified /\ observed \subseteq observed'
    BY <1>3 DEF BodyStep, Spawn, CancelHandle, Await, JoinLineage, Throw, Return, RaceSpawn, RaceWait
<1>4. ASSUME NEW e \in Exec, Reaction(e) \/ HostStep(e)
      PROVE  (notified' = notified \/ Notify(e)) /\ observed \subseteq observed'
    <2>1. CASE Notify(e)
        BY <2>1 DEF Notify
    <2>2. CASE ~Notify(e)
        BY <1>4, <2>2 DEF Reaction, HostStep, Start, Resume, HandleDone, HostDone, AwaitFails, Wake,
                          CancelJoined, RaceWon, RaceAborted, RaceJoined, ContextJoin, ContextJoined,
                          DriveReturned, JoinLineage, Settle
    <2> QED
        BY <2>1, <2>2
<1> QED
    BY <1>1, <1>2, <1>3, <1>4 DEF Next, Finished

\* adopt() cancels the siblings that run, and later ones are born later.
LEMMA SiblingsStep ==
    ASSUME TreeInv, NotifiedDefected, SiblingsCancelled, [Next]_vars
    PROVE  NotifiedDefected' /\ SiblingsCancelled'
<1>1. TypeOK /\ Fresh
    BY DEF TreeInv, JoinInv
<1>2. ASSUME NEW k \in Exec, Defected(k) PROVE Defected(k)' /\ Born(k)
    BY <1>1, <1>2, SettledKept DEF Final, Defected, Settled, Born
<1>3. NotifiedDefected'
    BY <1>1, <1>2, NotifySteps DEF NotifiedDefected, Notify, TypeOK
<1>4. SiblingsCancelled'
    <2> SUFFICES ASSUME NEW k \in notified', NEW m \in Exec, m \notin owners'[k], m < k,
                        ctx'[m] = ctx'[k]
                 PROVE  Settled(m)' \/ m \in aborted'
        BY DEF SiblingsCancelled
    <2>1. k \in Exec /\ Defected(k)
        BY <1>1, NotifySteps DEF NotifiedDefected, Notify, TypeOK
    <2>2. Born(k) /\ Born(m)
        BY <1>2, <2>1 DEF TreeInv, Numbered
    <2>3. m \notin owners[k] /\ ctx[m] = ctx[k]
        BY <2>1, <2>2, PlaceKept
    <2>4. aborted \subseteq aborted' /\ (Settled(m) => Settled(m)')
        BY <1>1, AskStep, SettledKept DEF Asks, Final
    <2>5. CASE k \in notified
        BY <2>3, <2>4, <2>5 DEF SiblingsCancelled
    <2>6. CASE k \notin notified
        <3>1. Notify(k)
            BY <1>1, <2>6, NotifySteps DEF Notify
        <3>2. m \in Members(ctx[k]) \ ({k} \cup owners[k])
            BY <2>2, <2>3, <2>1 DEF Members, Exec
        <3>3. Members(ctx[k]) \ ({k} \cup owners[k]) \in SUBSET Exec
            BY DEF Members
        <3> QED
            BY <1>1, <2>4, <3>1, <3>2, <3>3, CancelledCovers DEF Notify, TreeInv
    <2> QED
        BY <2>5, <2>6
<1> QED
    BY <1>3, <1>4

\* What distinguishes races, blocks and failures is kept by every step.
LEMMA KindsStep ==
    ASSUME TreeInv, KindsApart, FailingJoin, [Next]_vars PROVE KindsApart' /\ FailingJoin'
<1>1. TypeOK /\ Fresh
    BY DEF TreeInv, JoinInv
<1>2. FailingJoin'
    BY OneSteps DEF OneStep, FailStep, FailingJoin
<1>3. ASSUME NEW x \in Exec
      PROVE  /\ phase'[x] \in {"spawning", "racing", "raceJoin"} => kind'[x] = "race"
             /\ kind'[x] = "race" => phase'[x] \in RacePhases
    <2>1. CASE Born(x)
        BY <2>1, OneSteps DEF OneStep, KindStep, RaceStep
    <2>2. CASE ~Born(x)
        <3>1. CASE SameTree
            BY <2>2, <3>1 DEF SameTree, treeVars, Born, KindsApart
        <3>2. ASSUME NEW e \in Exec, NEW k \in Exec, NEW knd \in Kinds, Grows(e, k, knd)
              PROVE  /\ phase'[x] \in {"spawning", "racing", "raceJoin"} => kind'[x] = "race"
                     /\ kind'[x] = "race" => phase'[x] \in RacePhases
            BY <1>1, <2>2, <3>2 DEF Grows, Construct, FirstSegment, Born, KindsApart, RacePhases, TypeOK
        <3>3. ASSUME NEW knd \in Kinds, RootStart(knd)
              PROVE  /\ phase'[x] \in {"spawning", "racing", "raceJoin"} => kind'[x] = "race"
                     /\ kind'[x] = "race" => phase'[x] \in RacePhases
            BY <1>1, <2>2, <3>3, RootInExec DEF RootStart, FirstSegment, Born, KindsApart, RacePhases, TypeOK
        <3> QED
            BY <1>1, <3>1, <3>2, <3>3, TreeSteps
    <2> QED
        BY <2>1, <2>2
<1> QED
    BY <1>2, <1>3 DEF KindsApart

\* Whoever is past its first segment was spawned before the step.
LEMMA BornBefore ==
    ASSUME TreeInv, [Next]_vars, NEW e \in Exec,
           phase'[e] \notin {"none", "queued", "active", "spawning", "rootDrive"}
    PROVE  Born(e) /\ kind'[e] = kind[e]
<1>1. TypeOK /\ Fresh
    BY DEF TreeInv, JoinInv
<1>2. CASE SameTree
    BY <1>2 DEF SameTree, treeVars, Born
<1>3. ASSUME NEW x \in Exec, NEW k \in Exec, NEW knd \in Kinds, Grows(x, k, knd)
      PROVE  Born(e) /\ kind'[e] = kind[e]
    BY <1>1, <1>3 DEF Grows, FirstSegment, Construct, Born, TypeOK
<1>4. ASSUME NEW knd \in Kinds, RootStart(knd) PROVE FALSE
    BY <1>1, <1>4, RootInExec DEF RootStart, FirstSegment, Fresh, TypeOK
<1> QED
    BY <1>1, <1>2, <1>3, <1>4, TreeSteps

\* A block looks at what it joined after all of it settled, and from then on
\* outcomes and observations stay.
LEMMA BlockJoinedStep ==
    ASSUME TreeInv, KindsApart, FailingJoin, BlockJoined, [Next]_vars PROVE BlockJoined'
<1>1. TypeOK /\ Fresh
    BY DEF TreeInv, JoinInv
<1> SUFFICES ASSUME NEW e \in Exec, kind'[e] = "block", Produces(e)', NEW k \in joining'[e]
             PROVE  Settled(k)' /\ (fail'[k] = "defect" => k \in observed')
    BY DEF BlockJoined
<1>2. kind[e] = "block" /\ root # "init"
    BY <1>1, BornBefore DEF Produces, Fresh, Born
<1>3. joining'[e] = joining[e] /\ k \in Exec /\ Settled(k) /\ (fail[k] = "defect" => k \in observed)
    BY <1>1, <1>2, OneSteps DEF OneStep, BlockStep, BlockJoined, SettledFor, UnobservedDefect, TypeOK
<1> QED
    BY <1>1, <1>2, <1>3, SettledKept, NotifySteps DEF Final

\* Settling takes the next settlementSequence.
LEMMA Settles ==
    ASSUME TypeOK, NEW e \in Exec, Settled(e)',
           DriveReturned(e) \/ \E closeFails \in BOOLEAN : Settle(e, closeFails)
    PROVE  RecordSettlement(e)
BY DEF DriveReturned, JoinLineage, Settle, Settled, TypeOK

\* The winner of a race stays the first to have settled, whoever settles later.
LEMMA RaceWinnerStep ==
    ASSUME TreeInv, KindsApart, FailingJoin, RaceWinner, [Next]_vars PROVE RaceWinner'
<1>1. TypeOK /\ Fresh
    BY DEF TreeInv, JoinInv
<1> SUFFICES ASSUME NEW e \in Exec, kind'[e] = "race", Decided(e)'
             PROVE  /\ target'[e] \in Runners(e)' /\ SettledFirst(target[e], Runners(e))'
                    /\ phase'[e] = "raceJoin" => joining'[e] = Runners(e)'
                    /\ phase'[e] # "raceJoin" =>
                          \A k \in Runners(e)' \ {target'[e]} : Settled(k)' /\ ~Defected(k)'
    BY DEF RaceWinner
<1>2. kind[e] = "race"
    BY BornBefore DEF Decided
<1>3. Runners(e)' = Runners(e)
    <2>1. ASSUME NEW k \in Exec, parent'[k] = e PROVE parent[k] = e
        BY <2>1, NewChild DEF Decided
    <2>2. ASSUME NEW k \in Exec, parent[k] = e PROVE parent'[k] = e
        BY <2>2, PlaceKept, NoExecIsZero DEF TreeInv, OwnersChain
    <2> QED
        BY <2>1, <2>2 DEF Runners
<1>4. ASSUME NEW h \in Runners(e), SettledFirst(h, Runners(e)), target'[e] = h
      PROVE  SettledFirst(target[e], Runners(e))'
    <2>1. Settled(h) /\ Settled(h)' /\ h \in Exec
        BY <1>1, <1>4, SettledKept DEF SettledFirst, Runners, Final
    <2>2. ASSUME NEW k \in Runners(e) \ {h}, Settled(k)' PROVE h \in before'[k]
        <3>1. CASE Settled(k)
            BY <1>1, <1>4, <3>1, SettledKept DEF SettledFirst, Runners, Final
        <3>2. CASE ~Settled(k)
            <4>1. k \in Exec /\ RecordSettlement(k)
                BY <1>1, <2>2, <3>2, OneSteps, Settles DEF OneStep, SettleStep, Runners
            <4>2. {k, h} \subseteq Runners(e)
                OBVIOUS
            <4> QED
                BY <1>1, <1>2, <2>1, <4>1, <4>2 DEF RecordSettlement, TypeOK
        <3> QED
            BY <3>1, <3>2
    <2> QED
        BY <1>3, <1>4, <2>1, <2>2 DEF SettledFirst
<1>5. CASE RaceWon(e)
    <2>1. PICK h \in Runners(e) : SettledFirst(h, Runners(e)) /\ target' = [target EXCEPT ![e] = h]
        BY <1>5 DEF RaceWon
    <2>2. target'[e] = h
        BY <1>1, <2>1 DEF TypeOK
    <2>3. phase'[e] = "raceJoin" /\ joining'[e] = Runners(e)
        BY <1>1, <1>5 DEF RaceWon, TypeOK
    <2> QED
        BY <1>3, <1>4, <2>1, <2>2, <2>3
<1>6. CASE RaceJoined(e)
    <2>1. phase[e] = "raceJoin" /\ SettledFor(joining[e]) /\ target'[e] = target[e]
        BY <1>6 DEF RaceJoined
    <2>2. joining[e] = Runners(e) /\ target[e] \in Runners(e) /\ SettledFirst(target[e], Runners(e))
        <3>1. Decided(e)
            BY <2>1 DEF Decided
        <3> QED
            BY <1>2, <2>1, <3>1 DEF RaceWinner
    <2>3. phase'[e] = "ended" /\ ~AnyDefected(Runners(e) \ {target[e]})
        BY <1>1, <1>6, <2>2 DEF RaceJoined, Decided, TypeOK
    <2>4. ASSUME NEW k \in Runners(e) \ {target[e]} PROVE Settled(k)' /\ ~Defected(k)'
        BY <1>1, <2>1, <2>2, <2>3, SettledKept DEF SettledFor, AnyDefected, Defected, Final, Runners
    <2> QED
        BY <1>3, <1>4, <2>1, <2>2, <2>3, <2>4
<1>7. CASE /\ Decided(e) /\ target'[e] = target[e]
           /\ phase[e] = "raceJoin" <=> phase'[e] = "raceJoin"
           /\ phase[e] = "raceJoin" => joining'[e] = joining[e]
    <2>1. /\ target[e] \in Runners(e) /\ SettledFirst(target[e], Runners(e))
          /\ phase[e] = "raceJoin" => joining[e] = Runners(e)
          /\ phase[e] # "raceJoin" => \A k \in Runners(e) \ {target[e]} : Settled(k) /\ ~Defected(k)
        BY <1>2, <1>7 DEF RaceWinner
    <2>2. ASSUME NEW k \in Runners(e), Settled(k), ~Defected(k) PROVE Settled(k)' /\ ~Defected(k)'
        BY <1>1, <2>2, SettledKept DEF Defected, Final, Runners
    <2> QED
        BY <1>3, <1>4, <1>7, <2>1, <2>2
<1> QED
    BY <1>2, <1>5, <1>6, <1>7, OneSteps DEF OneStep, RaceStep

\* A cancellation is always somebody's: the signal's, or a settled execution's.
LEMMA CancelSourceStep ==
    ASSUME TreeInv, KindsApart, FailingJoin, CancelSource, [Next]_vars PROVE CancelSource'
<1>1. TypeOK /\ Fresh /\ aborted \subseteq aborted'
    BY AskStep DEF TreeInv, JoinInv, Asks
<1>2. ASSUME NEW h \in Exec, Settled(h), fail[h] = "cancel" PROVE Settled(h)' /\ fail'[h] = "cancel"
    BY <1>1, <1>2, SettledKept DEF Final
<1> QED
    BY <1>1, <1>2, OneSteps DEF CancelSource, OneStep, CancelStep

-----------------------------------------------------------------------------
(* The theorems.                                                           *)

LEMMA SafetyInvInit == Init => SafetyInv
<1> SUFFICES ASSUME Init PROVE SafetyInv
    OBVIOUS
<1>1. \A e \in Exec : phase[e] = "none" /\ parent[e] = 0 /\ owners[e] = {} /\ lineage[e] = {}
                      /\ knows[e] = {} /\ kind[e] = "func" /\ fail[e] = "none"
    BY DEF Init
<1>2. aborted = {} /\ notified = {} /\ root = "init"
    BY DEF Init
<1>3. TreeInv
    BY <1>1, <1>2, JoinInvInit DEF TreeInv, Numbered, OwnersChain, NamesBorn, RootKind, Born
<1>4. LeftAsked /\ CancellationDescends /\ SiblingsCancelled /\ NotifiedDefected /\ CancelSource
    BY <1>1, <1>2, NoExecIsZero
    DEF LeftAsked, CancellationDescends, SiblingsCancelled, NotifiedDefected, CancelSource
<1>5. KindsApart /\ FailingJoin /\ BlockJoined /\ RaceWinner
    BY <1>1 DEF KindsApart, FailingJoin, Joins, BlockJoined, RaceWinner
<1> QED
    BY <1>3, <1>4, <1>5 DEF SafetyInv

LEMMA SafetyInvStep == SafetyInv /\ [Next]_vars => SafetyInv'
BY TreeInvStep, LeftAskedStep, DescendsStep, KindsStep, SiblingsStep, BlockJoinedStep, RaceWinnerStep,
   CancelSourceStep DEF SafetyInv

\* The invariant the theorems below rest on holds in every run.
THEOREM SafetyInvariant == Spec => []SafetyInv
BY SafetyInvInit, SafetyInvStep, PTL DEF Spec

\* Cancellation descends: no child of an aborted execution that waits or joins
\* runs without having been asked to stop.
THEOREM Descends == Spec => []CancellationDescends
<1>1. SafetyInv => CancellationDescends
    BY DEF SafetyInv
<1> QED
    BY <1>1, SafetyInvariant, PTL

\* When a context has been told of a defect, the siblings adopted before it
\* have settled or were asked to stop.
THEOREM DefectStopsSiblings == Spec => []SiblingsCancelled
<1>1. SafetyInv => SiblingsCancelled
    BY DEF SafetyInv
<1> QED
    BY <1>1, SafetyInvariant, PTL

\* A block that produced its value joined no defect that nobody observed.
THEOREM DefectsSurface == Spec => []NoSilentDefect
<1>1. SafetyInv => NoSilentDefect
    BY DEF SafetyInv, BlockJoined, Produces, NoSilentDefect, Settled, Defected
<1> QED
    BY <1>1, SafetyInvariant, PTL

\* A race that produces gives the outcome of the runner that settled first,
\* after every other one settled without a defect.
THEOREM RaceIsOwned == Spec => []RaceOwnsItsRunners
<1>1. SafetyInv => RaceOwnsItsRunners
    BY DEF SafetyInv, RaceWinner, Decided, RaceOwnsItsRunners, Settled
<1> QED
    BY <1>1, SafetyInvariant, PTL

-----------------------------------------------------------------------------
(***************************************************************************)
(* No circular waits.  An execution waits for a handle it can name or for  *)
(* one it spawned, directly or not; handles are passed on only to later    *)
(* executions and back to whoever may wait for the one that passes them,   *)
(* so this dependence never closes a circle.                               *)
(***************************************************************************)
\* e can name h, or is on the chain of spawners of h.
DependsOn(e, h) == h \in knows[e] \/ e \in owners[h]

\* No set of executions in which each depends on another one of the set.
NoCircle == ~ \E S \in SUBSET Exec : S # {} /\ \A e \in S : \E h \in S : DependsOn(e, h)

\* A body awaits what it can name.
AwaitsNamed == \A e \in Exec : phase[e] = "waiting" => target[e] \in knows[e] \cup {Host}

\* A context belongs to an execution on the chain of spawners.
ContextOwned == \A k \in Exec : ctx[k] # RootContext => ctx[k] \in owners[k]

\* Joins are of executions spawned here, directly or not.
Joining == {"cancelJoin", "ctxJoin", "finalJoin", "raceJoin"}
JoinsOwned == \A e \in Exec : phase[e] \in Joining => \A h \in joining[e] : e \in owners[h]

\* The root execution drives main's task, which it spawned.
DriverOwns == \A e \in Exec : phase[e] = "rootDrive" => e \in owners[2]

WaitInv ==
    /\ SafetyInv
    /\ NoCircle /\ AwaitsNamed /\ ContextOwned /\ JoinsOwned /\ DriverOwns

-----------------------------------------------------------------------------
(* What one step does.                                                     *)

\* Handles are passed on by a spawn, by a value that was awaited and by a winner.
LEMMA KnowsSteps ==
    ASSUME [Next]_vars
    PROVE  \/ UNCHANGED <<knows, owners>>
           \/ \E knd \in Kinds : RootStart(knd)
           \/ \E e \in Exec : HandleDone(e) \/ RaceJoined(e)
           \/ \E e, k \in Exec, knd \in Kinds : Spawn(e, k, knd) \/ RaceSpawn(e, k, knd)
<1> USE DEF treeVars
<1>1. CASE UNCHANGED vars
    BY <1>1 DEF vars
<1>2. CASE RootStep \/ RootCancel
    BY <1>2 DEF RootStep, RootDriven, RootJoin, RootDone, RootCancel
<1>3. ASSUME NEW e \in Exec, BodyStep(e)
      PROVE  \/ UNCHANGED <<knows, owners>>
             \/ \E k \in Exec, knd \in Kinds : Spawn(e, k, knd) \/ RaceSpawn(e, k, knd)
    <2>1. \/ \E k \in Exec, knd \in Kinds : Spawn(e, k, knd) \/ RaceSpawn(e, k, knd)
          \/ \E h \in Exec : CancelHandle(e, h)
          \/ \E h \in 0 .. MaxExec, drv \in BOOLEAN : Await(e, h, drv)
          \/ \E why \in Failures : Throw(e, why) \/ Return(e, why)
          \/ RaceWait(e)
        BY <1>3 DEF BodyStep, Failures
    <2> QED
        BY <2>1 DEF CancelHandle, Await, Throw, Return, RaceWait
<1>4. ASSUME NEW e \in Exec, Reaction(e) \/ HostStep(e), ~HandleDone(e), ~RaceJoined(e)
      PROVE  UNCHANGED <<knows, owners>>
    <2>1. CASE \/ Start(e) \/ Resume(e) \/ HostDone(e) \/ RaceAborted(e) \/ ContextJoin(e)
               \/ ContextJoined(e) \/ Notify(e) \/ DriveReturned(e) \/ RaceWon(e)
        BY <2>1 DEF Start, Resume, HostDone, Wake, RaceAborted, ContextJoin, ContextJoined, Notify,
                    DriveReturned, RaceWon
    <2>2. ASSUME NEW why, AwaitFails(e, why) PROVE UNCHANGED <<knows, owners>>
        BY <2>2 DEF AwaitFails
    <2>3. ASSUME NEW closeFails, CancelJoined(e, closeFails) \/ Settle(e, closeFails)
          PROVE  UNCHANGED <<knows, owners>>
        BY <2>3 DEF CancelJoined, Settle
    <2> QED
        BY <1>4, <2>1, <2>2, <2>3 DEF Reaction, HostStep
<1> QED
    BY <1>1, <1>2, <1>3, <1>4 DEF Next, Finished

\* How an execution comes to wait or to join.
WaitStep(x) ==
    /\ phase'[x] = "waiting" =>
          \/ phase[x] = "waiting" /\ target'[x] = target[x]
          \/ target'[x] \in knows[x] \cup {Host}
    /\ phase'[x] \in Joining =>
          \/ phase[x] \in Joining /\ joining'[x] = joining[x]
          \/ joining'[x] \in {lineage[x], Members(x), Runners(x)}
    /\ phase'[x] = "rootDrive" => phase[x] = "rootDrive" \/ root = "init"

LEMMA WaitSteps ==
    ASSUME TypeOK, Fresh, [Next]_vars, NEW x \in Exec PROVE WaitStep(x)
<1> USE DEF WaitStep, Joining
<1>1. CASE UNCHANGED vars
    BY <1>1 DEF vars
<1>2. CASE RootStep \/ RootCancel
    BY <1>2, RootInExec DEF RootStep, RootStart, FirstSegment, RootDriven, RootJoin, RootDone,
                            RootCancel, Fresh, TypeOK
<1>3. ASSUME NEW e \in Exec, BodyStep(e) PROVE WaitStep(x)
    <2>1. ASSUME NEW k \in Exec, NEW knd \in Kinds, Spawn(e, k, knd) \/ RaceSpawn(e, k, knd)
          PROVE  WaitStep(x)
        BY <2>1 DEF Spawn, RaceSpawn, FirstSegment, Construct, Born, TypeOK
    <2>2. ASSUME NEW h \in 0 .. MaxExec, NEW drv \in BOOLEAN, Await(e, h, drv) PROVE WaitStep(x)
        BY <2>2 DEF Await, JoinLineage, Running, TypeOK
    <2>3. ASSUME NEW why, Throw(e, why) \/ Return(e, why) PROVE WaitStep(x)
        BY <2>3 DEF Throw, Return, Running, AfterBody, TypeOK
    <2>4. ASSUME NEW h, CancelHandle(e, h) PROVE WaitStep(x)
        BY <2>4 DEF CancelHandle
    <2>5. CASE RaceWait(e)
        BY <2>5 DEF RaceWait, Spawning, TypeOK
    <2> QED
        BY <1>3, <2>1, <2>2, <2>3, <2>4, <2>5 DEF BodyStep
<1>4. ASSUME NEW e \in Exec, Reaction(e) \/ HostStep(e) PROVE WaitStep(x)
    <2>1. CASE Start(e) \/ Resume(e) \/ HandleDone(e) \/ HostDone(e)
        BY <2>1 DEF Start, FirstSegment, Resume, HandleDone, HostDone, Awaiting, Wake, TypeOK
    <2>2. ASSUME NEW why, AwaitFails(e, why) PROVE WaitStep(x)
        BY <2>2 DEF AwaitFails, Awaiting, JoinLineage, TypeOK
    <2>3. ASSUME NEW closeFails, CancelJoined(e, closeFails) \/ Settle(e, closeFails)
          PROVE  WaitStep(x)
        BY <2>3 DEF CancelJoined, AfterBody, Settle, TypeOK
    <2>4. CASE RaceWon(e)
        BY <2>4 DEF RaceWon, TypeOK
    <2>5. CASE RaceAborted(e) \/ RaceJoined(e)
        BY <2>5 DEF RaceAborted, RaceJoined, TypeOK
    <2>6. CASE ContextJoin(e) \/ ContextJoined(e) \/ Notify(e)
        BY <2>6 DEF ContextJoin, ContextJoined, Notify, TypeOK
    <2>7. CASE DriveReturned(e)
        BY <2>7 DEF DriveReturned, JoinLineage, TypeOK
    <2> QED
        BY <1>4, <2>1, <2>2, <2>3, <2>4, <2>5, <2>6, <2>7 DEF Reaction, HostStep
<1> QED
    BY <1>1, <1>2, <1>3, <1>4 DEF Next, Finished

-----------------------------------------------------------------------------
(* Dependence never closes a circle.                                       *)

\* Learning what somebody knows whom one depends on closes no circle.
LEMMA LearnNoCircle ==
    ASSUME NoCircle, owners' = owners,
           \A x \in Exec : \A w \in knows'[x] :
               w \in knows[x] \/ \E z \in Exec : DependsOn(x, z) /\ w \in knows[z]
    PROVE  NoCircle'
<1> SUFFICES ASSUME NEW S \in SUBSET Exec, S # {},
                    \A e \in S : \E h \in S : h \in knows'[e] \/ e \in owners[h]
             PROVE  FALSE
    BY DEF NoCircle, DependsOn
<1> DEFINE T == S \cup {z \in Exec : \E w \in S : w \in knows[z]}
<1>1. ASSUME NEW e \in T PROVE \E h \in T : DependsOn(e, h)
    <2>1. CASE \E w \in S : w \in knows[e]
        BY <2>1 DEF DependsOn
    <2>2. CASE e \in S
        <3>1. PICK h \in S : h \in knows'[e] \/ e \in owners[h]
            BY <2>2
        <3>2. CASE e \in owners[h] \/ h \in knows[e]
            BY <3>1, <3>2 DEF DependsOn
        <3>3. CASE \E z \in Exec : DependsOn(e, z) /\ h \in knows[z]
            BY <3>1, <3>3
        <3> QED
            BY <2>2, <3>1, <3>2, <3>3
    <2> QED
        BY <2>1, <2>2
<1>2. T \in SUBSET Exec /\ T # {}
    OBVIOUS
<1> QED
    BY <1>1, <1>2 DEF NoCircle

\* A new execution can name what its spawner can, and nobody but its spawners
\* can name it: a circle through it would have been one through its spawner.
LEMMA SpawnNoCircle ==
    ASSUME TypeOK, NoCircle, NEW e \in Exec, NEW k \in Exec, e # k, k \notin knows[e],
           \A h \in Exec : k \notin owners[h],
           \A x \in Exec : owners'[x] = IF x = k THEN owners[e] \cup {e} ELSE owners[x],
           knows'[k] = knows[e], knows'[e] \subseteq knows[e] \cup {k},
           \A x \in Exec \ {e, k} : knows'[x] = knows[x] /\ k \notin knows[x]
    PROVE  NoCircle'
<1> SUFFICES ASSUME NEW S \in SUBSET Exec, S # {},
                    \A x \in S : \E h \in S : h \in knows'[x] \/ x \in owners'[h]
             PROVE  FALSE
    BY DEF NoCircle, DependsOn
<1>1. ASSUME NEW x \in Exec \ {k}, NEW h \in Exec \ {k}, h \in knows'[x] \/ x \in owners'[h]
      PROVE  DependsOn(x, h)
    BY <1>1 DEF DependsOn
<1>2. ASSUME NEW x \in Exec \ {k}, k \in knows'[x] \/ x \in owners'[k]
      PROVE  x = e \/ DependsOn(x, e)
    BY <1>2 DEF DependsOn
<1>3. CASE k \notin S
    BY <1>1, <1>3 DEF NoCircle
<1>4. CASE k \in S
    <2> DEFINE T == (S \ {k}) \cup {e}
    <2>1. PICK w \in S : w \in knows'[k] \/ k \in owners'[w]
        BY <1>4
    <2>2. w # k /\ w \in knows[e]
        BY <2>1
    <2>3. ASSUME NEW x \in T PROVE \E h \in T : DependsOn(x, h)
        <3>1. CASE x = e
            BY <2>2, <3>1 DEF DependsOn
        <3>2. CASE x # e
            <4>1. PICK h \in S : h \in knows'[x] \/ x \in owners'[h]
                BY <2>3, <3>2
            <4> QED
                BY <1>1, <1>2, <2>3, <3>2, <4>1
        <3> QED
            BY <3>1, <3>2
    <2>4. T \in SUBSET Exec /\ T # {}
        OBVIOUS
    <2> HIDE DEF T
    <2> QED
        BY <2>3, <2>4 DEF NoCircle
<1> QED
    BY <1>3, <1>4

\* The two ways knowledge moves, and the start of the root, keep NoCircle.
LEMMA NoCircleStep ==
    ASSUME WaitInv, [Next]_vars PROVE NoCircle'
<1>1. TypeOK /\ Fresh /\ TreeInv /\ OwnersChain /\ NamesBorn /\ Numbered
    BY DEF WaitInv, SafetyInv, TreeInv, JoinInv
<1>2. ASSUME NEW e \in Exec, HandleDone(e) PROVE NoCircle'
    <2>1. target[e] \in knows[e] /\ target[e] \in Exec
        BY <1>1, <1>2 DEF HandleDone, Awaiting, WaitInv, AwaitsNamed, TypeOK
    <2>2. owners' = owners /\ \A x \in Exec : knows'[x] = knows[x] \/ (x = e /\ knows'[x] = knows[x] \cup knows[target[e]])
        BY <1>1, <1>2 DEF HandleDone, Wake, treeVars, TypeOK
    <2> QED
        BY <2>1, <2>2, LearnNoCircle DEF WaitInv, DependsOn
<1>3. ASSUME NEW e \in Exec, RaceJoined(e) PROVE NoCircle'
    <2>1. target[e] \in Runners(e)
        BY <1>3 DEF RaceJoined, WaitInv, SafetyInv, RaceWinner, Decided, KindsApart
    <2>2. target[e] \in Exec /\ e \in owners[target[e]]
        BY <1>1, <2>1, NoExecIsZero DEF Runners, OwnersChain
    <2>3. owners' = owners /\ \A x \in Exec : knows'[x] = knows[x] \/ (x = e /\ knows'[x] = knows[x] \cup knows[target[e]])
        BY <1>1, <1>3 DEF RaceJoined, treeVars, TypeOK
    <2> QED
        BY <2>2, <2>3, LearnNoCircle DEF WaitInv, DependsOn
<1>4. ASSUME NEW e \in Exec, NEW k \in Exec, NEW knd \in Kinds, Spawn(e, k, knd) \/ RaceSpawn(e, k, knd)
      PROVE  NoCircle'
    <2>1. Construct(e, k, knd) /\ Born(e) /\ ~Born(k)
        BY <1>4 DEF Spawn, RaceSpawn, Running, Spawning, Construct, Born
    <2>2. \A x \in Exec : owners'[x] = IF x = k THEN owners[e] \cup {e} ELSE owners[x]
        BY <1>1, <2>1 DEF Construct, TypeOK
    <2>3. \A h \in Exec : k \notin knows[h]
        BY <1>1, <2>1 DEF NamesBorn
    <2>4. ASSUME NEW h \in Exec, k \in owners[h] PROVE FALSE
        <3>1. k < h /\ parent[h] # 0
            BY <1>1, <2>4 DEF OwnersChain
        <3> QED
            BY <1>1, <2>1, <3>1 DEF OwnersChain, Numbered
    <2>5. /\ knows'[k] = knows[e] /\ knows'[e] \subseteq knows[e] \cup {k}
          /\ \A x \in Exec \ {e, k} : knows'[x] = knows[x]
        BY <1>1, <1>4, <2>1 DEF Spawn, RaceSpawn, TypeOK
    <2> QED
        BY <1>1, <2>1, <2>2, <2>3, <2>4, <2>5, SpawnNoCircle DEF WaitInv
<1>5. ASSUME NEW knd \in Kinds, RootStart(knd) PROVE NoCircle'
    <2>1. \A x \in Exec : knows[x] = {} /\ owners[x] = {}
        BY <1>1, <1>5 DEF RootStart, Fresh, NamesBorn, OwnersChain, Born, TypeOK
    <2>2. \A x \in Exec : knows'[x] = {} /\ owners'[x] = IF x = 2 THEN {1} ELSE {}
        BY <1>1, <1>5, <2>1 DEF RootStart, TypeOK
    <2> QED
        BY <2>2 DEF NoCircle, DependsOn
<1>6. CASE UNCHANGED <<knows, owners>>
    BY <1>6, LearnNoCircle DEF WaitInv
<1> QED
    BY <1>2, <1>3, <1>4, <1>5, <1>6, KnowsSteps

-----------------------------------------------------------------------------
(* Waiting is depending.                                                   *)

\* Nobody forgets a handle.
LEMMA KnowsKept ==
    ASSUME TypeOK, [Next]_vars, NEW x \in Exec, Born(x) PROVE knows[x] \subseteq knows'[x]
<1>1. ASSUME NEW e \in Exec, HandleDone(e) \/ RaceJoined(e) PROVE knows[x] \subseteq knows'[x]
    <2>1. \E h : \/ knows' = knows
                 \/ knows' = [knows EXCEPT ![e] = @ \cup knows[h]]
        BY <1>1 DEF HandleDone, RaceJoined
    <2> QED
        BY <2>1 DEF TypeOK
<1>2. ASSUME NEW e \in Exec, NEW k \in Exec, NEW knd \in Kinds, Spawn(e, k, knd) \/ RaceSpawn(e, k, knd)
      PROVE  knows[x] \subseteq knows'[x]
    BY <1>2 DEF Spawn, RaceSpawn, Construct, Born, TypeOK
<1>3. ASSUME NEW knd \in Kinds, RootStart(knd) PROVE knows' = knows
    BY <1>3 DEF RootStart
<1> QED
    BY <1>1, <1>2, <1>3, KnowsSteps

\* The context of an execution belongs to one of its spawners.
LEMMA ContextOwnedStep ==
    ASSUME TreeInv, ContextOwned, [Next]_vars PROVE ContextOwned'
<1>1. TypeOK /\ Fresh
    BY DEF TreeInv, JoinInv
<1>2. CASE SameTree
    BY <1>2 DEF SameTree, treeVars, ContextOwned
<1>3. ASSUME NEW e \in Exec, NEW k \in Exec, NEW knd \in Kinds, Grows(e, k, knd)
      PROVE  ContextOwned'
    <2>1. /\ \A x \in Exec : ctx'[x] = IF x = k THEN ContextOf(e) ELSE ctx[x]
          /\ \A x \in Exec : owners'[x] = IF x = k THEN owners[e] \cup {e} ELSE owners[x]
        BY <1>1, <1>3 DEF Grows, Construct, TypeOK
    <2>2. ContextOf(e) # RootContext => ContextOf(e) \in owners[e] \cup {e}
        BY <2>1 DEF ContextOf, ContextOwned
    <2> QED
        BY <2>1, <2>2 DEF ContextOwned
<1>4. ASSUME NEW knd \in Kinds, RootStart(knd) PROVE ContextOwned'
    <2>1. \A x \in Exec : owners[x] = {} /\ ctx[x] = RootContext
        BY <1>1, <1>4 DEF RootStart, Fresh, TreeInv, OwnersChain, Born, ContextOwned
    <2> QED
        BY <1>4, <2>1 DEF RootStart, ContextOwned
<1> QED
    BY <1>1, <1>2, <1>3, <1>4, TreeSteps

LEMMA WaitsOwnedStep ==
    ASSUME WaitInv, [Next]_vars PROVE AwaitsNamed' /\ JoinsOwned' /\ DriverOwns'
<1>1. TypeOK /\ Fresh /\ TreeInv
    BY DEF WaitInv, SafetyInv, TreeInv, JoinInv
<1>2. AwaitsNamed'
    <2> SUFFICES ASSUME NEW e \in Exec, phase'[e] = "waiting" PROVE target'[e] \in knows'[e] \cup {Host}
        BY DEF AwaitsNamed
    <2>1. target'[e] \in knows[e] \cup {Host}
        BY <1>1, WaitSteps DEF WaitStep, WaitInv, AwaitsNamed
    <2>2. knows[e] \subseteq knows'[e]
        BY <1>1, BornBefore, KnowsKept
    <2> QED
        BY <2>1, <2>2
<1>3. JoinsOwned'
    <2> SUFFICES ASSUME NEW e \in Exec, phase'[e] \in Joining, NEW h \in joining'[e]
                 PROVE  e \in owners'[h]
        BY DEF JoinsOwned
    <2>1. h \in Exec /\ e \in owners[h]
        <3>1. CASE phase[e] \in Joining /\ joining'[e] = joining[e]
            BY <1>1, <3>1 DEF WaitInv, JoinsOwned, TypeOK
        <3>2. CASE h \in Members(e)
            BY <3>2, NoExecIsZero DEF Members, WaitInv, ContextOwned, RootContext
        <3>3. CASE h \in lineage[e] \/ h \in Runners(e)
            <4>1. h \in Exec /\ parent[h] = e
                BY <1>1, <3>3 DEF TypeOK, Runners, TreeInv, NamesBorn
            <4> QED
                BY <1>1, <4>1, NoExecIsZero DEF TreeInv, OwnersChain
        <3> QED
            BY <1>1, <3>1, <3>2, <3>3, WaitSteps DEF WaitStep
    <2>2. Born(h)
        BY <1>1, <2>1 DEF TreeInv, OwnersChain
    <2> QED
        BY <1>1, <2>1, <2>2, PlaceKept
<1>4. DriverOwns'
    <2> SUFFICES ASSUME NEW e \in Exec, phase'[e] = "rootDrive" PROVE e \in owners'[2]
        BY DEF DriverOwns
    <2>1. CASE phase[e] = "rootDrive"
        <3>1. e \in owners[2] /\ Born(2)
            BY <1>1, <2>1, RootInExec DEF WaitInv, DriverOwns, TreeInv, OwnersChain
        <3> QED
            BY <1>1, <3>1, RootInExec, PlaceKept
    <2>2. CASE root = "init" /\ phase[e] # "rootDrive"
        <3>1. phase[e] = "none"
            BY <1>1, <2>2 DEF Fresh
        <3>2. CASE SameTree
            BY <3>1, <3>2 DEF SameTree, Born
        <3>3. ASSUME NEW x \in Exec, NEW k \in Exec, NEW knd \in Kinds, Grows(x, k, knd) PROVE FALSE
            BY <1>1, <2>2, <3>3 DEF Grows, Fresh
        <3>4. ASSUME NEW knd \in Kinds, RootStart(knd) PROVE e \in owners'[2]
            <4>1. e = 1
                BY <1>1, <3>1, <3>4 DEF RootStart, FirstSegment, TypeOK
            <4> QED
                BY <1>1, <3>4, <4>1, RootInExec DEF RootStart, TypeOK
        <3> QED
            BY <1>1, <3>2, <3>3, <3>4, TreeSteps
    <2> QED
        BY <1>1, <2>1, <2>2, WaitSteps DEF WaitStep
<1> QED
    BY <1>2, <1>3, <1>4

-----------------------------------------------------------------------------
(* The theorem.                                                            *)

LEMMA WaitInvInit == Init => WaitInv
<1> SUFFICES ASSUME Init PROVE WaitInv
    OBVIOUS
<1>1. \A e \in Exec : /\ phase[e] = "none" /\ knows[e] = {} /\ owners[e] = {}
                    /\ ctx[e] = RootContext
    BY DEF Init
<1>2. NoCircle
    BY <1>1 DEF NoCircle, DependsOn
<1> QED
    BY <1>1, <1>2, SafetyInvInit
    DEF WaitInv, AwaitsNamed, ContextOwned, JoinsOwned, Joining, DriverOwns, Born

LEMMA WaitInvStep == WaitInv /\ [Next]_vars => WaitInv'
BY SafetyInvStep, NoCircleStep, ContextOwnedStep, WaitsOwnedStep DEF WaitInv, SafetyInv

\* A circle of waits would be one of dependences.
LEMMA WaitsAcyclic == WaitInv => NoCircularWait
<1> SUFFICES ASSUME WaitInv, NEW S \in SUBSET Exec, S # {}, \A e \in S : \E h \in S : WaitsFor(e, h)
             PROVE  FALSE
    BY DEF NoCircularWait
<1>1. ASSUME NEW e \in Exec, NEW h \in Exec, WaitsFor(e, h) PROVE DependsOn(e, h)
    <2>1. CASE phase[e] = "waiting" /\ target[e] = h
        BY <2>1, NoExecIsZero DEF WaitInv, AwaitsNamed, DependsOn, Host
    <2>2. CASE phase[e] \in Joining /\ h \in joining[e]
        BY <2>2 DEF WaitInv, JoinsOwned, DependsOn
    <2>3. CASE h \in Runners(e)
        BY <2>3, NoExecIsZero DEF Runners, DependsOn, WaitInv, SafetyInv, TreeInv, OwnersChain
    <2>4. CASE phase[e] = "rootDrive" /\ h = 2
        BY <2>4 DEF WaitInv, DriverOwns, DependsOn
    <2> QED
        BY <1>1, <2>1, <2>2, <2>3, <2>4 DEF WaitsFor, Joining
<1> QED
    BY <1>1 DEF WaitInv, NoCircle

\* Awaits and joins never form a circle, so no set of executions waits only
\* for each other.
THEOREM NoDeadlock == Spec => []NoCircularWait
BY WaitInvInit, WaitInvStep, WaitsAcyclic, PTL DEF Spec

-----------------------------------------------------------------------------
(* The task runtime implements TaskTree, for any number of executions: the *)
(* initial states map to the initial one, and every step is one of         *)
(* TaskTree's or leaves what it shows alone.                               *)

\* What TaskTree shows of an execution: whether it was spawned, and its outcome.
BornSet == {e \in Exec : Born(e)}
Outcomes == [e \in Exec |-> OutcomeOf(e)]

\* A step that settles nothing shows the same outcomes.
SettlesNone == \A x \in Exec : Settled(x)' => Settled(x)

\* A step that settles one execution does nothing else that shows.
SettlesOne(e) ==
    /\ ~Settled(e) /\ Settled(e)' /\ Born(e)
    /\ \A x \in Exec \ {e} : Settled(x)' => Settled(x)
    /\ SameTree /\ aborted' = aborted
    /\ fail'[e] = "none" => e \notin aborted

-----------------------------------------------------------------------------
LEMMA ExecIsTreeExec == Tree!Exec = Exec
BY DEF Tree!Exec, Exec

\* A promise resolves in a reaction of its own, and a cancelled execution that
\* passed its final checkpoint produces nothing.
LEMMA OneSettles ==
    ASSUME SafetyInv, [Next]_vars PROVE SettlesNone \/ \E e \in Exec : SettlesOne(e)
<1>1. TypeOK /\ Fresh /\ FailingJoin
    BY DEF SafetyInv, TreeInv, JoinInv
<1> SUFFICES ASSUME NEW e \in Exec, Settled(e)', ~Settled(e) PROVE SettlesOne(e)
    BY DEF SettlesNone
<1>2. DriveReturned(e) \/ \E closeFails \in BOOLEAN : Settle(e, closeFails)
    BY OneSteps DEF SafetyInv, OneStep, SettleStep
<1>3. phase[e] \in {"returned", "finalJoin"} /\ phase' = [phase EXCEPT ![e] = "settled"]
    BY <1>1, <1>2 DEF DriveReturned, JoinLineage, Settle, Settled, TypeOK
<1>4. \A x \in Exec \ {e} : Settled(x)' => Settled(x)
    BY <1>1, <1>3 DEF Settled, TypeOK
<1>5. SameTree
    <2>1. UNCHANGED <<treeVars, lineage, knows, root>>
        BY <1>1, <1>2, <1>3 DEF DriveReturned, JoinLineage, Settle, rootVars, TypeOK
    <2>2. \A x \in Exec : Born(x)' <=> Born(x)
        BY <1>1, <1>3 DEF Born, TypeOK
    <2> QED
        BY <2>1, <2>2 DEF SameTree
<1>6. aborted' = aborted /\ (fail'[e] = "none" => e \notin aborted)
    BY <1>1, <1>2, <1>3 DEF DriveReturned, JoinLineage, Settle, Worse, FailingJoin, Joins, TypeOK
<1> QED
    BY <1>3, <1>4, <1>5, <1>6 DEF SettlesOne, Settled, Born

\* Who is settled, and how, does not change in a step that settles nothing.
LEMMA OutcomesKept ==
    ASSUME SafetyInv, [Next]_vars, NEW x \in Exec, Settled(x)' => Settled(x)
    PROVE  OutcomeOf(x)' = OutcomeOf(x)
<1>1. TypeOK /\ Fresh
    BY DEF SafetyInv, TreeInv, JoinInv
<1>2. (Settled(x) <=> Settled(x)') /\ (Settled(x) => fail'[x] = fail[x])
    BY <1>1, SettledKept DEF Final
<1> QED
    BY <1>2 DEF OutcomeOf

-----------------------------------------------------------------------------
(* The steps.                                                              *)

\* The root starts: TaskTree begins.
LEMMA BeginStep ==
    ASSUME SafetyInv, [Next]_vars, NEW knd \in Kinds, RootStart(knd), SettlesNone
    PROVE  Tree!Begin
<1>1. TypeOK /\ Fresh
    BY DEF SafetyInv, TreeInv, JoinInv
<1>2. BornSet = {} /\ BornSet' = {1, 2}
    <2>1. \A x \in Exec : phase[x] = "none" /\ phase'[x] = IF x = 1 THEN "rootDrive"
                                                 ELSE IF x = 2 THEN FirstSegment(knd) ELSE "none"
        BY <1>1, RootInExec DEF RootStart, Fresh, TypeOK
    <2> QED
        BY <2>1, RootInExec DEF BornSet, Born, FirstSegment
<1>3. Outcomes' = Outcomes
    BY OutcomesKept DEF SettlesNone, Outcomes
<1>4. parent' = [parent EXCEPT ![2] = 1] /\ aborted' = aborted
    BY DEF RootStart
<1> QED
    BY <1>2, <1>3, <1>4 DEF Tree!Begin, BornSet, Outcomes

\* A spawn is a spawn.
LEMMA GrowStep ==
    ASSUME SafetyInv, [Next]_vars, NEW e \in Exec, NEW k \in Exec, NEW knd \in Kinds,
           Grows(e, k, knd), SettlesNone
    PROVE  Tree!Spawn(e, k)
<1>1. TypeOK
    BY DEF SafetyInv, TreeInv, JoinInv
<1>2. BornSet' = BornSet \cup {k} /\ k \notin BornSet /\ e \in BornSet
    BY <1>1 DEF Grows, FirstSegment, Construct, BornSet, Born, TypeOK
<1>3. Outcomes' = Outcomes /\ Outcomes[e] = "pending"
    BY OutcomesKept DEF SettlesNone, Outcomes, OutcomeOf, Grows, Settled
<1>4. parent' = [parent EXCEPT ![k] = e] /\ aborted' = aborted
    BY DEF Grows, Construct
<1> QED
    BY <1>2, <1>3, <1>4 DEF Tree!Spawn, Tree!Pending, BornSet, Outcomes

\* A request to stop reaches running executions, each with its running children.
LEMMA AskedStep ==
    ASSUME SafetyInv, [Next]_vars, SameTree, SettlesNone, aborted' # aborted
    PROVE  Tree!Ask(aborted' \ aborted)
<1>1. TypeOK /\ OwnersChain /\ LeftAsked /\ TreeInv
    BY DEF SafetyInv, TreeInv, JoinInv
<1>2. PICK T \in SUBSET Exec : (\A h \in T : Born(h)) /\ aborted' = aborted \cup Cancelled(T)
    BY AskStep DEF SafetyInv, Asks
<1> DEFINE S == aborted' \ aborted
<1>3. S # {} /\ S \cap aborted = {} /\ S \subseteq Cancelled(T) /\ aborted' = aborted \cup S
    BY <1>2
<1>4. ASSUME NEW e \in S
      PROVE  /\ e \in BornSet /\ Outcomes[e] = "pending"
             /\ \A k \in BornSet : parent[k] = e /\ Outcomes[k] = "pending" => k \in S \cup aborted
    <2>1. PICK h \in T : e \in Reached(h)
        BY <1>3, <1>4 DEF Cancelled, Unsettled
    <2>2. e \in Exec /\ PassesCancel(e)
        BY <2>1 DEF Reached
    <2>3. Born(e)
        BY <1>1, <1>2, <2>1, NoExecIsZero DEF Reached, OwnersChain, TypeOK
    <2>4. ASSUME NEW k \in Exec, parent[k] = e, ~Settled(k) PROVE k \in S \cup aborted
        <3>1. CASE k \in aborted
            BY <3>1
        <3>2. CASE k \notin aborted
            <4>1. k \in Reached(h)
                BY <1>1, <2>1, <2>4, <3>2, ReachesChildren DEF PassesCancel
            <4>2. h \in Unsettled(T)
                BY <1>1, <2>1 DEF Unsettled, Reached, PassesCancel
            <4> QED
                BY <1>2, <3>2, <4>1, <4>2 DEF Cancelled
        <3> QED
            BY <3>1, <3>2
    <2>5. \A x \in Exec : Outcomes[x] = "pending" <=> ~Settled(x)
        BY DEF Outcomes, OutcomeOf
    <2> QED
        BY <2>2, <2>3, <2>4, <2>5 DEF BornSet, PassesCancel
<1>5. BornSet' = BornSet /\ parent' = parent /\ Outcomes' = Outcomes
    BY OutcomesKept DEF SameTree, treeVars, SettlesNone, Outcomes, BornSet
<1> QED
    BY <1>3, <1>4, <1>5 DEF Tree!Ask, Tree!Pending, Tree!Children, BornSet, Outcomes

\* A promise resolves.
LEMMA SettledStep ==
    ASSUME SafetyInv, [Next]_vars, NEW e \in Exec, SettlesOne(e)
    PROVE  \E result \in {"produced", "cancelled", "defected"} : Tree!Settle(e, result)
<1>1. TypeOK /\ TypeOK' /\ JoinedBeforeFailing'
    BY JoinInvStep DEF SafetyInv, TreeInv, JoinInv
<1>0. PICK result : result = OutcomeOf(e)'
    OBVIOUS
<1>2. /\ result \in {"produced", "cancelled", "defected"}
      /\ result = "produced" <=> fail'[e] = "none"
      /\ result = "cancelled" => fail'[e] = "cancel"
    BY <1>0 DEF SettlesOne, OutcomeOf
<1>3. BornSet' = BornSet /\ parent' = parent /\ aborted' = aborted
    BY DEF SettlesOne, SameTree, treeVars, BornSet
<1>4. Outcomes' = [Outcomes EXCEPT ![e] = result]
    <2>1. \A x \in Exec \ {e} : OutcomeOf(x)' = OutcomeOf(x)
        BY OutcomesKept DEF SettlesOne
    <2> QED
        BY <1>0, <2>1 DEF Outcomes
<1>5. e \in BornSet /\ \A x \in Exec : Outcomes[x] = "pending" <=> ~Settled(x)
    BY DEF SettlesOne, BornSet, Outcomes, OutcomeOf
<1>6. result = "produced" => e \notin aborted
    BY <1>2 DEF SettlesOne
<1>7. ASSUME result # "produced", NEW k \in BornSet, parent[k] = e PROVE Outcomes[k] # "pending"
    <2>1. k \in Exec /\ k # e /\ parent'[k] = e
        BY <1>1, <1>3, <1>7 DEF BornSet, TypeOK
    <2>2. Settled(k)'
        BY <1>1, <1>2, <1>7, <2>1 DEF JoinedBeforeFailing, SettlesOne
    <2> QED
        BY <1>5, <2>1, <2>2 DEF SettlesOne
<1>8. ASSUME result = "cancelled"
      PROVE  e \in aborted \/ \E h \in BornSet : Outcomes[h] = "cancelled"
    <2>1. e \in aborted \/ \E h \in Exec : Settled(h) /\ fail[h] = "cancel"
        BY <1>2, <1>3, <1>8, OneSteps DEF SafetyInv, CancelSource, OneStep, CancelStep
    <2> QED
        BY <2>1 DEF BornSet, Outcomes, OutcomeOf, Born, Settled
<1>9. Tree!Settle(e, result)
    <2>1. Tree!Pending(e) /\ \A k \in Tree!Children(e) : result # "produced" => ~Tree!Pending(k)
        BY <1>5, <1>7 DEF SettlesOne, Tree!Pending, Tree!Children, BornSet, Outcomes
    <2>2. result = "cancelled" => e \in aborted \/ \E h \in BornSet : Outcomes[h] = "cancelled"
        BY <1>8
    <2> QED
        BY <1>3, <1>4, <1>6, <2>1, <2>2 DEF Tree!Settle, BornSet, Outcomes
<1> QED
    BY <1>2, <1>9

-----------------------------------------------------------------------------
(* The theorem.                                                            *)

LEMMA TreeInit == Init => Tree!Init
BY DEF Init, Tree!Init, Tree!Exec, Exec, Born, OutcomeOf, Settled

LEMMA TreeNext == SafetyInv /\ [Next]_vars => [Tree!Next]_(Tree!vars)
<1> SUFFICES ASSUME SafetyInv, [Next]_vars PROVE [Tree!Next]_(Tree!vars)
    OBVIOUS
<1>1. TypeOK /\ Fresh
    BY DEF SafetyInv, TreeInv, JoinInv
<1>2. ASSUME NEW e \in Exec, SettlesOne(e) PROVE Tree!Next
    BY <1>2, SettledStep, ExecIsTreeExec DEF Tree!Next
<1>3. CASE SettlesNone
    <2>1. CASE SameTree /\ aborted' # aborted
        <3>1. aborted' \ aborted \in SUBSET Tree!Exec
            BY ExecIsTreeExec, JoinInvStep DEF SafetyInv, TreeInv, JoinInv, TypeOK
        <3> QED
            BY <1>3, <2>1, <3>1, AskedStep DEF Tree!Next
    <2>2. CASE SameTree /\ aborted' = aborted
        <3>1. BornSet' = BornSet /\ parent' = parent /\ Outcomes' = Outcomes
            BY <1>3, <2>2, OutcomesKept DEF SameTree, treeVars, SettlesNone, Outcomes, BornSet
        <3> QED
            BY <2>2, <3>1 DEF Tree!vars, BornSet, Outcomes
    <2>3. ASSUME NEW e \in Exec, NEW k \in Exec, NEW knd \in Kinds, Grows(e, k, knd) PROVE Tree!Next
        BY <1>3, <2>3, GrowStep, ExecIsTreeExec DEF Tree!Next
    <2>4. ASSUME NEW knd \in Kinds, RootStart(knd) PROVE Tree!Next
        BY <1>3, <2>4, BeginStep DEF Tree!Next
    <2> QED
        BY <1>1, <2>1, <2>2, <2>3, <2>4, TreeSteps
<1> QED
    BY <1>2, <1>3, OneSettles

\* Every behaviour of the task runtime is one of TaskTree: outcomes are final,
\* requests to stop descend, and a failing execution outlives its children.
THEOREM RuntimeImplementsTree == Spec => ImplementsTaskTree
<1> QED
    BY TreeInit, TreeNext, SafetyInvariant, PTL DEF Spec, ImplementsTaskTree, Tree!Spec
=============================================================================

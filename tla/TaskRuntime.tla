---------------------------- MODULE TaskRuntime ----------------------------
(***************************************************************************)
(* The structured-concurrency runtime that compiled Nymph programs run on  *)
(* (crates/nymph-codegen/src/task_runtime.js): executions, their handles,  *)
(* task contexts, cooperative cancellation, joining and the root driver.   *)
(*                                                                         *)
(* JavaScript runs one synchronous segment at a time.  `current` is the    *)
(* execution whose generated body is inside such a segment; every other    *)
(* action is a promise reaction (a microtask) or a host event, and runs    *)
(* only between segments.  A value that a body computes is abstracted      *)
(* away: a body is any sequence of spawns, cancels, awaits, checkpoints    *)
(* and one return or throw.  An execution of kind "race" is the recipe of  *)
(* nymphTaskRace, which has no generated body of its own.                  *)
(*                                                                         *)
(* Execution 1 is the one nymphStartRoot creates, execution 2 is the task  *)
(* that main() returned, and the rest are numbered as they are spawned.    *)
(***************************************************************************)
EXTENDS Naturals

CONSTANTS
    MaxExec,    \* bound on the executions a program ever spawns
    MaxAwaits,  \* bound on the awaits of one body
    MaxFaults   \* bound on the panics, failing closes and failing host operations

ASSUME BoundsAssumption ==
    /\ MaxExec \in Nat /\ MaxExec >= 2
    /\ MaxAwaits \in Nat
    /\ MaxFaults \in Nat

Exec == 1 .. MaxExec
Host == 0          \* an awaited host operation, not a handle
Idle == 0          \* no body is running
RootContext == 0   \* the NymphTaskContext of nymphStartRoot

VARIABLES
    phase,     \* where the execution's async function is parked
    kind,      \* "root", "func" (inherits its spawner's context), "block", "race" (own one)
    ctx,       \* the NymphTaskContext that adopted the handle: RootContext, a block or a race
    parent,    \* the execution that spawned it (0: none)
    owners,    \* #ownerHandles: the chain of spawners
    lineage,   \* #children of the execution, emptied by joinChildren()
    aborted,   \* executions whose AbortSignal fired
    fail,      \* "none", "cancel" or "defect": the failure carried by the execution
    open,      \* executions whose activation still holds unclosed resources
    joining,   \* the handles the last join of the execution waits for
    target,    \* what a waiting body awaits: a handle or Host; the winner of a race
    before,    \* settlementSequence: the runners of its race that settled before a runner
    driving,   \* executions whose await is `await task`, which rethrows
    observed,  \* handles on which observe() was called
    notified,  \* defected handles whose adopt() reaction has run
    knows,     \* the handles a body can name
    awaits,    \* the awaits the body has left (bounded by MaxAwaits)
    faults,    \* the faults left (bounded by MaxFaults)
    current,   \* the execution inside a synchronous segment, or Idle
    root,      \* nymphStartRoot: "init", "running", "joining", "done"
    rootJoin,  \* the handles the root context's join waits for
    rootFail   \* the failure in the root outcome

treeVars == <<kind, ctx, parent, owners>>
rootVars == <<root, rootJoin, rootFail>>
vars == <<phase, treeVars, lineage, aborted, fail, open, joining, target, before,
          driving, observed, notified, knows, awaits, faults, current, rootVars>>

Phases == {"none", "queued", "active", "waiting", "ready", "cancelJoin", "ended",
           "ctxJoin", "returned", "finalJoin", "settled", "rootDrive",
           "spawning", "racing", "raceJoin"}

Kinds == {"func", "block", "race"}

Failures == {"none", "cancel", "defect"}

\* The types, and that one body at a time is inside a synchronous segment.
TypeOK ==
    /\ phase \in [Exec -> Phases]
    /\ kind \in [Exec -> {"root"} \cup Kinds]
    /\ ctx \in [Exec -> 0 .. MaxExec]
    /\ parent \in [Exec -> 0 .. MaxExec]
    /\ \A e \in Exec : parent[e] # e
    /\ owners \in [Exec -> SUBSET Exec]
    /\ lineage \in [Exec -> SUBSET Exec]
    /\ aborted \subseteq Exec
    /\ fail \in [Exec -> Failures]
    /\ open \subseteq Exec
    /\ joining \in [Exec -> SUBSET Exec]
    /\ target \in [Exec -> 0 .. MaxExec]
    /\ before \in [Exec -> SUBSET Exec]
    /\ driving \subseteq Exec
    /\ observed \subseteq Exec
    /\ notified \subseteq Exec
    /\ knows \in [Exec -> SUBSET Exec]
    /\ awaits \in [Exec -> 0 .. MaxAwaits]
    /\ faults \in 0 .. MaxFaults
    /\ current \in 0 .. MaxExec
    /\ \A e \in Exec : phase[e] = "active" => current = e
    /\ \A e \in Exec : current = e => phase[e] \in {"active", "spawning"}
    /\ root \in {"init", "running", "joining", "done"}
    /\ rootJoin \subseteq Exec
    /\ rootFail \in Failures

-----------------------------------------------------------------------------
(* Handles, contexts and cancellation lineage.                             *)

Born(e) == phase[e] # "none"
Settled(e) == phase[e] = "settled"
Defected(e) == Settled(e) /\ fail[e] = "defect"

\* The adopt() reaction was registered on the outcome promise before any
\* other one, so nobody reacts to a defect before the context has.
SettledFor(S) == \A h \in S : Settled(h) /\ (fail[h] = "defect" => h \in notified)

\* NymphTaskContext.#children: handles are adopted and never removed.
Members(c) == {k \in Exec : Born(k) /\ ctx[k] = c}
Unsettled(S) == {k \in S : ~Settled(k)}

\* The context in the frame of a running body.
OwnsContext(e) == kind[e] \in {"block", "race"}
ContextOf(e) == IF OwnsContext(e) THEN e ELSE ctx[e]

\* cancel() returns early on a settled or an aborted execution and otherwise
\* aborts it and descends into its #children, so it reaches k from h exactly
\* when every execution on the lineage path from h to k lets it through.
PassesCancel(k) == ~Settled(k) /\ k \notin aborted

\* Mutant: the descent into #children is missing.
ReachedShallow(h) == {k \in Exec : k = h /\ PassesCancel(k)}

Reached(h) ==
    {k \in Exec :
        /\ k = h \/ h \in owners[k]
        /\ \A j \in {k} \cup owners[k] :
              (j = h \/ h \in owners[j]) =>
                 /\ PassesCancel(j)
                 /\ j # h => j \in lineage[parent[j]]}
Cancelled(S) == UNION {Reached(h) : h \in Unsettled(S)}

\* The executions a race spawned, and the lowest settlementSequence of S.
Runners(e) == {k \in Exec : parent[k] = e}
SettledFirst(h, S) == Settled(h) /\ \A k \in S \ {h} : Settled(k) => h \in before[k]

\* A promise reaction is queued.  Signal handlers run as event-loop tasks of
\* their own, once the microtask queue has drained.
ReactionPending ==
    \/ current # Idle
    \/ root = "running" /\ SettledFor({1})
    \/ root = "joining" /\ SettledFor(rootJoin)
    \/ \E e \in Exec :
          \/ phase[e] \in {"queued", "ready", "ended", "returned"}
          \/ phase[e] = "waiting" /\ e \in aborted
          \/ phase[e] = "waiting" /\ target[e] # Host /\ Settled(target[e])
          \/ phase[e] = "rootDrive" /\ Settled(2)
          \/ phase[e] = "racing" /\ (e \in aborted \/ \E h \in Runners(e) : Settled(h))
          \/ phase[e] \in {"cancelJoin", "ctxJoin", "finalJoin", "raceJoin"}
             /\ SettledFor(joining[e])
          \/ Defected(e) /\ e \notin notified

\* Which children joinChildren() or join() reported as defected.
AnyDefected(S) == \E k \in S : fail[k] = "defect"
UnobservedDefect(S) == \E k \in S \ observed : fail[k] = "defect"

Init ==
    /\ phase = [e \in Exec |-> "none"]
    /\ kind = [e \in Exec |-> "func"]
    /\ ctx = [e \in Exec |-> RootContext]
    /\ parent = [e \in Exec |-> 0]
    /\ owners = [e \in Exec |-> {}]
    /\ lineage = [e \in Exec |-> {}]
    /\ aborted = {}
    /\ fail = [e \in Exec |-> "none"]
    /\ open = {}
    /\ joining = [e \in Exec |-> {}]
    /\ target = [e \in Exec |-> Host]
    /\ before = [e \in Exec |-> {}]
    /\ driving = {}
    /\ observed = {}
    /\ notified = {}
    /\ knows = [e \in Exec |-> {}]
    /\ awaits = [e \in Exec |-> MaxAwaits]
    /\ faults = MaxFaults
    /\ current = Idle
    /\ root = "init"
    /\ rootJoin = {}
    /\ rootFail = "none"

-----------------------------------------------------------------------------
(* The root: nymphStartRoot(main, taskRoot) with a task-shaped main.       *)

\* #drive calls the recipe: a generated body runs, or a race spawns its tasks.
FirstSegment(knd) == IF knd = "race" THEN "spawning" ELSE "active"

\* The root execution starts synchronously, drives main's task, which also
\* starts synchronously because no activation is running yet.
RootStart(knd) ==
    /\ root = "init"
    /\ root' = "running"
    /\ phase' = [phase EXCEPT ![1] = "rootDrive", ![2] = FirstSegment(knd)]
    /\ kind' = [kind EXCEPT ![1] = "root", ![2] = knd]
    /\ parent' = [parent EXCEPT ![2] = 1]
    /\ owners' = [owners EXCEPT ![2] = {1}]
    /\ lineage' = [lineage EXCEPT ![1] = {2}]
    /\ observed' = {1, 2}
    /\ open' = IF knd = "race" THEN {} ELSE {2}
    /\ current' = 2
    /\ UNCHANGED <<ctx, aborted, fail, joining, target, before, driving, notified, knows,
                   awaits, faults, rootJoin, rootFail>>

\* The root recipe's `task.drive(frame)` resolves or rethrows.
RootDriven ==
    /\ current = Idle
    /\ phase[1] = "rootDrive"
    /\ SettledFor({2})
    /\ phase' = [phase EXCEPT ![1] = "returned"]
    /\ fail' = [fail EXCEPT ![1] = fail[2]]
    /\ UNCHANGED <<treeVars, before, lineage, aborted, open, joining, target, driving,
                   observed, notified, knows, awaits, faults, current, rootVars>>

RootJoin ==
    /\ current = Idle
    /\ root = "running"
    /\ SettledFor({1})
    /\ root' = "joining"
    /\ rootJoin' = Members(RootContext)
    /\ UNCHANGED <<phase, before, treeVars, lineage, aborted, fail, open, joining,
                   target, driving, observed, notified, knows, awaits, faults, current,
                   rootFail>>

RootDone ==
    /\ current = Idle
    /\ root = "joining"
    /\ SettledFor(rootJoin)
    /\ root' = "done"
    /\ rootFail' = IF UnobservedDefect(rootJoin) THEN "defect" ELSE fail[1]
    /\ UNCHANGED <<phase, before, treeVars, lineage, aborted, fail, open, joining,
                   target, driving, observed, notified, knows, awaits, faults, current,
                   rootJoin>>

\* The launcher's SIGINT/SIGTERM handler, which stays installed and may run
\* again: cancel the handle, then every running child of the root context.
RootCancel ==
    /\ ~ReactionPending
    /\ root \in {"running", "joining"}
    /\ aborted' = aborted \cup Cancelled({1} \cup Members(RootContext))
    /\ UNCHANGED <<phase, before, treeVars, lineage, fail, open, joining, target,
                   driving, observed, notified, knows, awaits, faults, current, rootVars>>

-----------------------------------------------------------------------------
(* The body of execution e, inside one synchronous segment.                *)

Running(e) == current = e /\ phase[e] = "active"

\* Where control goes when the segment of e ends: the event loop, or the race
\* whose spawn() called #drive directly because no activation is running.
Caller(e) == IF phase[parent[e]] = "spawning" THEN parent[e] ELSE Idle

\* queueMicrotask(() => this.#drive()): neither start() nor #drive looks at
\* the signal before running the recipe.
Start(e) ==
    /\ current = Idle
    /\ phase[e] = "queued"
    /\ phase' = [phase EXCEPT ![e] = FirstSegment(kind[e])]
    /\ current' = e
    /\ open' = IF kind[e] = "race" THEN open ELSE open \cup {e}
    /\ UNCHANGED <<treeVars, before, lineage, aborted, fail, joining, target, driving,
                   observed, notified, knows, awaits, faults, rootVars>>

\* NymphTask.spawn: construct, start, adopt in the frame's context and record
\* as a cancellation child.
Construct(e, k, knd) ==
    /\ ~Born(k) /\ \A j \in Exec : j < k => Born(j)
    /\ kind' = [kind EXCEPT ![k] = knd]
    /\ ctx' = [ctx EXCEPT ![k] = ContextOf(e)]
    /\ parent' = [parent EXCEPT ![k] = e]
    /\ owners' = [owners EXCEPT ![k] = owners[e] \cup {e}]
    /\ lineage' = [lineage EXCEPT ![e] = @ \cup {k}]

\* A body spawns: the new execution starts in a microtask of its own and can
\* name what its spawner can.
Spawn(e, k, knd) ==
    /\ Running(e)
    /\ Construct(e, k, knd)
    /\ phase' = [phase EXCEPT ![k] = "queued"]
    /\ knows' = [knows EXCEPT ![k] = knows[e], ![e] = @ \cup {k}]
    /\ UNCHANGED <<aborted, fail, open, joining, target, before, driving, observed,
                   notified, awaits, faults, current, rootVars>>

\* handle.cancel(), where it has an effect.
CancelHandle(e, h) ==
    /\ Running(e)
    /\ h \in knows[e]
    /\ Cancelled({h}) # {}
    /\ aborted' = aborted \cup Cancelled({h})
    /\ UNCHANGED <<phase, before, treeVars, lineage, fail, open, joining, target,
                   driving, observed, notified, knows, awaits, faults, current, rootVars>>

\* Something goes wrong: a panic, a close that throws, a failing host call.
Fault(happens) ==
    /\ happens => faults > 0
    /\ faults' = IF happens THEN faults - 1 ELSE faults

\* Mutant: the children are cancelled and forgotten instead of joined.
JoinNothing(e, where, why, seen) ==
    /\ phase' = [phase EXCEPT ![e] = where]
    /\ fail' = [fail EXCEPT ![e] = why]
    /\ aborted' = aborted \cup Cancelled(lineage[e])
    /\ joining' = [joining EXCEPT ![e] = {}]
    /\ lineage' = [lineage EXCEPT ![e] = {}]
    /\ observed' = observed \cup seen \cup lineage[e]

\* Mutant: the children are joined before they were asked to stop.
JoinUncancelled(e, where, why, seen) ==
    /\ phase' = [phase EXCEPT ![e] = where]
    /\ fail' = [fail EXCEPT ![e] = why]
    /\ aborted' = aborted
    /\ joining' = [joining EXCEPT ![e] = lineage[e]]
    /\ lineage' = [lineage EXCEPT ![e] = {}]
    /\ observed' = observed \cup seen \cup lineage[e]

\* cancelChildren() and joinChildren(), which mark the joined handles
\* observed: the start of the await's cancel path and of #drive's catch.
JoinLineage(e, where, why, seen) ==
    /\ phase' = [phase EXCEPT ![e] = where]
    /\ fail' = [fail EXCEPT ![e] = why]
    /\ aborted' = aborted \cup Cancelled(lineage[e])
    /\ joining' = [joining EXCEPT ![e] = lineage[e]]
    /\ lineage' = [lineage EXCEPT ![e] = {}]
    /\ observed' = observed \cup seen \cup lineage[e]

\* Suspend on a handle (drv: on a task, whose failure is rethrown) or on the
\* host.  observe() runs first; nymphAwaitCancellable then checks the signal.
Await(e, h, drv) ==
    /\ Running(e)
    /\ awaits[e] > 0
    /\ h \in knows[e] \cup {Host}
    /\ awaits' = [awaits EXCEPT ![e] = @ - 1]
    /\ target' = [target EXCEPT ![e] = h]
    /\ driving' = IF drv THEN driving \cup {e} ELSE driving \ {e}
    /\ current' = Caller(e)
    /\ \/ /\ e \notin aborted
          /\ phase' = [phase EXCEPT ![e] = "waiting"]
          /\ observed' = observed \cup ({h} \ {Host})
          /\ UNCHANGED <<aborted, fail, joining, lineage>>
       \/ /\ e \in aborted
          /\ JoinLineage(e, "cancelJoin", "cancel", {h} \ {Host})
    /\ UNCHANGED <<treeVars, before, open, notified, faults, knows, rootVars>>

\* The body ends: a context of its own still has to be joined.
AfterBody(e) == IF OwnsContext(e) THEN "ended" ELSE "returned"

\* A checkpoint of a cancelled execution, or a panic, leaves the activation
\* pending: its resources are closed by #drive after the children joined.
Throw(e, why) ==
    /\ Running(e)
    /\ why = "cancel" => e \in aborted
    /\ Fault(why = "defect")
    /\ phase' = [phase EXCEPT ![e] = AfterBody(e)]
    /\ fail' = [fail EXCEPT ![e] = why]
    /\ current' = Caller(e)
    /\ UNCHANGED <<treeVars, before, lineage, aborted, open, joining, target, driving,
                   observed, notified, knows, awaits, rootVars>>

\* The outermost frame returns: its cleanup scopes close there and then, and
\* a close that throws makes the body fail.
Return(e, why) ==
    /\ Running(e)
    /\ Fault(why = "defect")
    /\ phase' = [phase EXCEPT ![e] = AfterBody(e)]
    /\ fail' = [fail EXCEPT ![e] = why]
    /\ open' = open \ {e}
    /\ current' = Caller(e)
    /\ UNCHANGED <<treeVars, before, lineage, aborted, joining, target, driving,
                   observed, notified, knows, awaits, rootVars>>

-----------------------------------------------------------------------------
(* nymphTaskRace: the recipe of execution e.                               *)

Spawning(e) == current = e /\ phase[e] = "spawning"

\* tasks.map((task) => task.spawn(raceFrame)): the runner's first segment runs
\* inside the call.  Nothing in it can name the race, so that the race adopts
\* it after that segment cannot be told from adopting it before.
RaceSpawn(e, k, knd) ==
    /\ Spawning(e)
    /\ Construct(e, k, knd)
    /\ phase' = [phase EXCEPT ![k] = FirstSegment(knd)]
    /\ open' = IF knd = "race" THEN open ELSE open \cup {k}
    /\ knows' = [knows EXCEPT ![k] = knows[e]]
    /\ current' = k
    /\ UNCHANGED <<aborted, fail, joining, target, before, driving, observed, notified,
                   awaits, faults, rootVars>>

\* nymphFirstSettlement: no task to select from, an abort already requested,
\* or a wait for the first runner to settle.  Settlement is always a reaction
\* of its own in this module, so that none has settled before the wait.
RaceWait(e) ==
    /\ Spawning(e)
    /\ current' = Caller(e)
    /\ LET why == IF Runners(e) = {} THEN "defect"
                  ELSE IF e \in aborted THEN "cancel" ELSE "none"
       IN  /\ fail' = [fail EXCEPT ![e] = why]
           /\ phase' = [phase EXCEPT ![e] = IF why = "none" THEN "racing" ELSE "ended"]
    /\ UNCHANGED <<treeVars, before, lineage, aborted, open, joining, target, driving,
                   observed, notified, knows, awaits, faults, rootVars>>

\* Mutant: the lowest index wins, also when another runner settled earlier.
RaceWonByIndex(e) ==
    /\ current = Idle
    /\ phase[e] = "racing" /\ e \notin aborted
    /\ \E h \in Runners(e) :
          /\ SettledFor({h}) /\ \A k \in Runners(e) : Settled(k) => h <= k
          /\ target' = [target EXCEPT ![e] = h]
          /\ aborted' = aborted \cup Cancelled(Runners(e) \ {h})
    /\ phase' = [phase EXCEPT ![e] = "raceJoin"]
    /\ joining' = [joining EXCEPT ![e] = Runners(e)]
    /\ observed' = observed \cup Runners(e)
    /\ UNCHANGED <<treeVars, before, lineage, fail, open, driving, notified, knows, awaits,
                   faults, current, rootVars>>

\* The first settlement: cancel the losers and observe every runner.
RaceWon(e) ==
    /\ current = Idle
    /\ phase[e] = "racing" /\ e \notin aborted
    /\ \E h \in Runners(e) :
          /\ SettledFor({h}) /\ SettledFirst(h, Runners(e))
          /\ target' = [target EXCEPT ![e] = h]
          /\ aborted' = aborted \cup Cancelled(Runners(e) \ {h})
    /\ phase' = [phase EXCEPT ![e] = "raceJoin"]
    /\ joining' = [joining EXCEPT ![e] = Runners(e)]
    /\ observed' = observed \cup Runners(e)
    /\ UNCHANGED <<treeVars, before, lineage, fail, open, driving, notified, knows, awaits,
                   faults, current, rootVars>>

\* The signal fired before a runner settled.
RaceAborted(e) ==
    /\ current = Idle
    /\ phase[e] = "racing" /\ e \in aborted
    /\ phase' = [phase EXCEPT ![e] = "ended"]
    /\ fail' = [fail EXCEPT ![e] = "cancel"]
    /\ UNCHANGED <<treeVars, before, lineage, aborted, open, joining, target, driving,
                   observed, notified, knows, awaits, faults, current, rootVars>>

\* Promise.all over the outcomes, which no signal interrupts: a loser that
\* defected defects the race, and otherwise its value is the winner's outcome.
RaceJoined(e) ==
    /\ current = Idle
    /\ phase[e] = "raceJoin"
    /\ SettledFor(joining[e])
    /\ phase' = [phase EXCEPT ![e] = "ended"]
    /\ \E winner \in {target[e]} \cap Exec :
          /\ fail' = [fail EXCEPT ![e] =
                        IF AnyDefected(joining[e] \ {winner}) THEN "defect" ELSE "none"]
          /\ knows' = IF fail[winner] = "none"
                      THEN [knows EXCEPT ![e] = @ \cup knows[winner]]
                      ELSE knows
    /\ UNCHANGED <<treeVars, before, lineage, aborted, open, joining, target, driving,
                   observed, notified, awaits, faults, current, rootVars>>

-----------------------------------------------------------------------------
(* Promise reactions of execution e.                                       *)

Awaiting(e) == current = Idle /\ phase[e] = "waiting"

\* The awaited value is there before the signal fired.  The continuation is
\* another microtask: an abort in between goes unnoticed by this await.
Wake(e) ==
    /\ phase' = [phase EXCEPT ![e] = "ready"]
    /\ target' = [target EXCEPT ![e] = Host]
    /\ driving' = driving \ {e}
    /\ UNCHANGED <<treeVars, before, lineage, aborted, fail, open, joining, observed,
                   notified, awaits, faults, current, rootVars>>

HostDone(e) ==
    /\ Awaiting(e)
    /\ target[e] = Host
    /\ e \notin aborted
    /\ Wake(e)
    /\ UNCHANGED knows

\* A value carries handles out of the execution that produced it.
HandleDone(e) ==
    /\ Awaiting(e)
    /\ target[e] # Host
    /\ SettledFor({target[e]})
    /\ e \notin aborted
    /\ fail[target[e]] = "none" \/ e \notin driving
    /\ Wake(e)
    /\ knows' = IF fail[target[e]] = "none"
                THEN [knows EXCEPT ![e] = @ \cup knows[target[e]]]
                ELSE knows

\* The await rejects: the signal fired, the host operation failed, or the
\* awaited task failed.
AwaitFails(e, why) ==
    /\ Awaiting(e)
    /\ \/ e \in aborted /\ why = "cancel"
       \/ e \notin aborted /\ target[e] = Host /\ why = "defect"
       \/ /\ e \notin aborted /\ target[e] # Host /\ e \in driving
          /\ SettledFor({target[e]})
          /\ why = fail[target[e]] /\ why # "none"
    /\ Fault(target[e] = Host /\ why = "defect")
    /\ JoinLineage(e, "cancelJoin", why, {})
    /\ UNCHANGED <<treeVars, before, open, target, driving, notified, knows, awaits,
                   current, rootVars>>

\* Mutant: an abort between the awaited value and its continuation drops it.
ResumeUnlessAborted(e) ==
    /\ current = Idle
    /\ phase[e] = "ready" /\ e \notin aborted
    /\ phase' = [phase EXCEPT ![e] = "active"]
    /\ current' = e
    /\ UNCHANGED <<treeVars, before, lineage, aborted, fail, open, joining, target,
                   driving, observed, notified, knows, awaits, faults, rootVars>>

Resume(e) ==
    /\ current = Idle
    /\ phase[e] = "ready"
    /\ phase' = [phase EXCEPT ![e] = "active"]
    /\ current' = e
    /\ UNCHANGED <<treeVars, before, lineage, aborted, fail, open, joining, target,
                   driving, observed, notified, knows, awaits, faults, rootVars>>

\* Mutant: the first joined child is enough to close the resources.
CancelJoinedRacing(e, closeFails) ==
    /\ current = Idle
    /\ phase[e] = "cancelJoin"
    /\ joining[e] = {} \/ \E h \in joining[e] : SettledFor({h})
    /\ phase' = [phase EXCEPT ![e] = IF kind[e] = "block" THEN "ended" ELSE "returned"]
    /\ Fault(closeFails)
    /\ open' = open \ {e}
    /\ UNCHANGED <<treeVars, before, lineage, aborted, fail, joining, target, driving,
                   observed, notified, knows, awaits, current, rootVars>>

\* What the failure becomes when joined children, or a close, defected.
Worse(why, S, closeFails) ==
    IF AnyDefected(S) \/ closeFails THEN "defect" ELSE why

\* The children are joined: unwind the suspended activation.
CancelJoined(e, closeFails) ==
    /\ current = Idle
    /\ phase[e] = "cancelJoin"
    /\ SettledFor(joining[e])
    /\ Fault(closeFails)
    /\ phase' = [phase EXCEPT ![e] = AfterBody(e)]
    /\ fail' = [fail EXCEPT ![e] = Worse(@, joining[e], closeFails)]
    /\ open' = open \ {e}
    /\ UNCHANGED <<treeVars, before, lineage, aborted, joining, target, driving,
                   observed, notified, knows, awaits, current, rootVars>>

\* Mutant: the join is of the enclosing context, not of the block's own.
ContextJoinOuter(e) ==
    /\ current = Idle
    /\ phase[e] = "ended"
    /\ \A k \in Exec : parent[k] = e => phase[k] # "queued"
    /\ phase' = [phase EXCEPT ![e] = "ctxJoin"]
    /\ joining' = [joining EXCEPT ![e] = Members(ctx[e])]
    /\ aborted' = IF fail[e] = "none" THEN aborted ELSE aborted \cup Cancelled(Members(e))
    /\ UNCHANGED <<treeVars, before, lineage, fail, open, target, driving, observed,
                   notified, knows, awaits, faults, current, rootVars>>

\* nymphWithTaskContext after its body: context.join() waits for the children
\* the context has at this moment.  The microtasks that start what the body
\* spawned were queued before this one.
ContextJoin(e) ==
    /\ current = Idle
    /\ phase[e] = "ended"
    /\ \A k \in Exec : parent[k] = e => phase[k] # "queued"
    /\ phase' = [phase EXCEPT ![e] = "ctxJoin"]
    /\ joining' = [joining EXCEPT ![e] = Members(e)]
    /\ aborted' = IF fail[e] = "none" THEN aborted ELSE aborted \cup Cancelled(Members(e))
    /\ UNCHANGED <<treeVars, before, lineage, fail, open, target, driving, observed,
                   notified, knows, awaits, faults, current, rootVars>>

\* Mutant: join() waits but does not look for unobserved defects.
ContextJoinedBlindly(e) ==
    /\ current = Idle
    /\ phase[e] = "ctxJoin"
    /\ SettledFor(joining[e])
    /\ phase' = [phase EXCEPT ![e] = "returned"]
    /\ UNCHANGED <<treeVars, before, lineage, aborted, fail, open, joining, target,
                   driving, observed, notified, knows, awaits, faults, current, rootVars>>

\* `failure ??= error`: a failure of the body takes precedence.
ContextJoined(e) ==
    /\ current = Idle
    /\ phase[e] = "ctxJoin"
    /\ SettledFor(joining[e])
    /\ phase' = [phase EXCEPT ![e] = "returned"]
    /\ fail' = [fail EXCEPT ![e] =
                  IF @ = "none" /\ UnobservedDefect(joining[e]) THEN "defect" ELSE @]
    /\ UNCHANGED <<treeVars, before, lineage, aborted, open, joining, target, driving,
                   observed, notified, knows, awaits, faults, current, rootVars>>

\* settlementSequence = nymphSettlementSequence++, which only orders the runners
\* of one race.
RecordSettlement(e) ==
    before' = [before EXCEPT ![e] =
                 {k \in Exec : Settled(k) /\ \E r \in Exec :
                                  kind[r] = "race" /\ {e, k} \subseteq Runners(r)}]

\* #drive after `await value`: the final checkpoint, then settle or catch.
DriveReturned(e) ==
    /\ current = Idle
    /\ phase[e] = "returned"
    /\ \/ /\ fail[e] = "none" /\ e \notin aborted
          /\ phase' = [phase EXCEPT ![e] = "settled"]
          /\ RecordSettlement(e)
          /\ UNCHANGED <<fail, aborted, joining, lineage, observed>>
       \/ /\ fail[e] = "none" /\ e \in aborted
          /\ JoinLineage(e, "finalJoin", "cancel", {})
          /\ UNCHANGED before
       \/ /\ fail[e] # "none"
          /\ JoinLineage(e, "finalJoin", fail[e], {})
          /\ UNCHANGED before
    /\ UNCHANGED <<treeVars, open, target, driving, notified, knows, awaits,
                   faults, current, rootVars>>

\* The catch of #drive after its join: close a pending activation and settle.
Settle(e, closeFails) ==
    /\ current = Idle
    /\ phase[e] = "finalJoin"
    /\ SettledFor(joining[e])
    /\ closeFails => e \in open
    /\ Fault(closeFails)
    /\ phase' = [phase EXCEPT ![e] = "settled"]
    /\ RecordSettlement(e)
    /\ fail' = [fail EXCEPT ![e] = Worse(@, joining[e], closeFails)]
    /\ open' = open \ {e}
    /\ UNCHANGED <<treeVars, lineage, aborted, joining, target, driving,
                   observed, notified, knows, awaits, current, rootVars>>

\* Mutant: the defected execution's children are cancelled, not its siblings.
NotifyLineage(k) ==
    /\ current = Idle
    /\ Defected(k) /\ k \notin notified
    /\ notified' = notified \cup {k}
    /\ aborted' = aborted \cup Cancelled(lineage[k])
    /\ UNCHANGED <<phase, before, treeVars, lineage, fail, open, joining, target,
                   driving, observed, knows, awaits, faults, current, rootVars>>

\* adopt(): a defected child cancels the other children of its context, its
\* own spawners excepted.
Notify(k) ==
    /\ current = Idle
    /\ Defected(k) /\ k \notin notified
    /\ notified' = notified \cup {k}
    /\ aborted' = aborted \cup Cancelled(Members(ctx[k]) \ ({k} \cup owners[k]))
    /\ UNCHANGED <<phase, before, treeVars, lineage, fail, open, joining, target,
                   driving, observed, knows, awaits, faults, current, rootVars>>

-----------------------------------------------------------------------------
\* The program is over when its root settled; what it leaked may run on.
Finished == root = "done" /\ UNCHANGED vars

BodyStep(e) ==
    \/ \E k \in Exec, knd \in Kinds : Spawn(e, k, knd)
    \/ \E h \in Exec : CancelHandle(e, h)
    \/ \E h \in 0 .. MaxExec, drv \in BOOLEAN : (h = Host => ~drv) /\ Await(e, h, drv)
    \/ \E why \in {"cancel", "defect"} : Throw(e, why)
    \/ \E why \in {"none", "defect"} : Return(e, why)
    \/ \E k \in Exec, knd \in Kinds : RaceSpawn(e, k, knd)
    \/ RaceWait(e)

Reaction(e) ==
    \/ Start(e)
    \/ Resume(e)
    \/ HandleDone(e)
    \/ \E why \in {"cancel", "defect"} :
          (target[e] = Host => e \in aborted) /\ AwaitFails(e, why)
    \/ \E closeFails \in BOOLEAN : CancelJoined(e, closeFails)
    \/ RaceWon(e)
    \/ RaceAborted(e)
    \/ RaceJoined(e)
    \/ ContextJoin(e)
    \/ ContextJoined(e)
    \/ DriveReturned(e)
    \/ \E closeFails \in BOOLEAN : Settle(e, closeFails)
    \/ Notify(e)

\* The host operation that e awaits completes, one way or the other.
HostStep(e) == HostDone(e) \/ (target[e] = Host /\ AwaitFails(e, "defect"))

RootStep ==
    \/ \E knd \in Kinds : RootStart(knd)
    \/ RootDriven
    \/ RootJoin
    \/ RootDone

Next ==
    \/ RootStep
    \/ RootCancel
    \/ \E e \in Exec : BodyStep(e) \/ Reaction(e) \/ HostStep(e)
    \/ Finished

Spec == Init /\ [][Next]_vars

\* The event loop runs every queued microtask, and generated bodies reach
\* their next suspension or their end.
EventLoop ==
    /\ WF_vars(RootStep)
    /\ \A e \in Exec : WF_vars(BodyStep(e)) /\ WF_vars(Reaction(e))

\* Host operations that always complete.
FairHost == \A e \in Exec : WF_vars(HostStep(e))

LiveSpec == Spec /\ EventLoop /\ FairHost

-----------------------------------------------------------------------------
(* Safety.                                                                 *)

\* Cancellation cleanup order (docs/design/async-model.md:175-183): an
\* execution that does not produce a value settles only after every execution
\* it spawned has settled, also the ones spawned after its signal fired.
JoinedBeforeFailing ==
    \A e \in Exec :
        Settled(e) /\ fail[e] # "none" => \A k \in Exec : parent[k] = e => Settled(k)

\* The resources of a failing execution are closed after its children joined;
\* only a body that returns closes them while its children run.
CloseStep ==
    \A e \in open \ open' :
        phase[e] = "active" \/ \A k \in Exec : parent[k] = e => Settled(k)
CloseAfterJoin == [][CloseStep]_vars

\* Cancellation descends to children: while an aborted execution waits or
\* joins, no child is left that runs without having been asked to stop.
CancellationDescends ==
    \A e \in aborted :
        phase[e] \in {"waiting", "racing", "raceJoin", "cancelJoin", "finalJoin", "settled"}
            /\ (Settled(e) => fail[e] # "none") =>
            \A k \in Exec : parent[k] = e => Settled(k) \/ k \in aborted

\* An unobserved child panic cannot disappear: a block that produced its value
\* joined no defect but those somebody observed.
NoSilentDefect ==
    \A e \in Exec : kind[e] = "block" /\ Settled(e) /\ fail[e] = "none" =>
        \A k \in joining[e] : Defected(k) => k \in observed

\* A defect requests cancellation of its siblings: when its context has been
\* told, each child adopted earlier has settled or was asked to stop, the
\* defected execution's own spawners excepted.
SiblingsCancelled ==
    \A k \in notified : \A m \in Exec \ owners[k] :
        m < k /\ ctx[m] = ctx[k] => Settled(m) \/ m \in aborted

\* A race that produces gives the outcome of the runner that settled first,
\* only after every loser settled, and no loser's defect is dropped
\* (docs/design/async-model.md:257-272).
RaceOwnsItsRunners ==
    \A e \in Exec : kind[e] = "race" /\ Settled(e) /\ fail[e] = "none" =>
        /\ SettledFirst(target[e], Runners(e))
        /\ \A k \in Runners(e) \ {target[e]} : Settled(k) /\ ~Defected(k)

\* Who an execution cannot advance without: the handle it awaits, the handles
\* it joins, and for the root execution the task it drives.
WaitsFor(e, h) ==
    \/ phase[e] = "waiting" /\ e \notin aborted /\ target[e] = h
    \/ phase[e] \in {"cancelJoin", "ctxJoin", "finalJoin", "raceJoin"} /\ h \in joining[e]
    \/ phase[e] = "racing" /\ e \notin aborted /\ h \in Runners(e)
    \/ phase[e] = "rootDrive" /\ h = 2

\* Awaits and joins never form a cycle: some set of executions that wait only
\* for each other would be a deadlock that no cancellation resolves.
NoCircularWait ==
    LET Waiting == {e \in Exec : \E h \in Exec : ~Settled(h) /\ WaitsFor(e, h)}
    IN  ~ \E S \in SUBSET Waiting : S # {} /\ \A e \in S : \E h \in S : WaitsFor(e, h)

-----------------------------------------------------------------------------
(* Liveness.                                                               *)

\* Every started program settles its root, joining included.
RootSettles == root = "running" ~> root = "done"

\* Every handle settles, those that escaped the join of their context too.
HandlesSettle == \A e \in Exec : phase[e] = "queued" ~> Settled(e)
=============================================================================

------------------------------ MODULE LspServer ------------------------------
(***************************************************************************)
(* The language server's protocol owner (nymph-lsp/src/server.rs) with its *)
(* worker pool (analysis_scheduler.rs).  One thread, the owner, handles    *)
(* client messages in finite batches, schedules compiler work and applies  *)
(* the results; each worker takes jobs from a bounded queue of its own and *)
(* sends the results over one bounded channel.                             *)
(*                                                                         *)
(* What a handler of the owner reads and writes is the record s, and the   *)
(* operators below take such a record to the next one, because one handler *)
(* runs several of them in a row before a worker's step can be seen.       *)
(***************************************************************************)
EXTENDS Integers, FiniteSets, Sequences, SequencesExt, FiniteSetsExt

CONSTANTS
    Ids,            \* JSON-RPC request ids
    NumDocs,        \* documents are 1..NumDocs, in the order of their URIs
    Key,            \* the diagnostic key of each document
    ProjectKeys,    \* the keys that are projects; the others are loose files
    Importers,      \* affected_documents: what a refresh of a document publishes
    Workers,
    Route,          \* the worker of each key, and of the workspace (route 0)
    QueueCap,       \* capacity of one worker's queue
    PendingCap,     \* OWNER_PENDING_CAPACITY
    MaxMsgs,        \* bound of the model: client messages
    Sends,          \* the kinds of messages the client of the instance sends
    MayFail,        \* whether an analysis may fail or panic
    StrictClient    \* whether the client never reuses an id it waits for in a
                    \* request that the server refuses to schedule

Docs == 1..NumDocs
Keys == {Key[d] : d \in Docs}
Workspace == 0      \* the target of a request about no document in particular

ASSUME Capacities == /\ QueueCap \in Nat \ {0}
                     /\ PendingCap \in Nat \ {0}
                     /\ MaxMsgs \in Nat
                     /\ IsFiniteSet(Workers) /\ Workers # {}

ASSUME Layout == /\ NumDocs \in Nat
                 /\ DOMAIN Key = Docs
                 /\ ProjectKeys \subseteq Keys
                 /\ Importers \in [Docs -> SUBSET Docs]
                 /\ Route \in [Keys \union {Workspace} -> Workers]
                 /\ Workspace \notin Keys
                 /\ MayFail \in BOOLEAN /\ StrictClient \in BOOLEAN

\* OUTSTANDING_WORK_CAPACITY, also the capacity of the completion channel.
OutstandingCap == Cardinality(Workers) * (1 + QueueCap) + PendingCap

VARIABLES
    pc,       \* where main_loop is
    s,        \* what the owner's handlers read and write
    running,  \* the job each worker runs, or 0
    msgs      \* messages handled so far

vars == <<pc, s, running, msgs>>

Jobs == 1..(s.nextJob - 1)

Init ==
    /\ pc = "dispatch"
    /\ s = [ phase     |-> "running",
             docs      |-> [d \in Docs |-> 0],   \* update revision, 0 when closed
             rev       |-> 0,                    \* revision of the document store
             gen       |-> [k \in Keys |-> 0],
             nextJob   |-> 1,
             jobs      |-> <<>>,                 \* metadata of the live jobs
             unfinished |-> {},
             pending   |-> <<>>,
             submitted |-> {},
             queue     |-> [w \in Workers |-> <<>>],
             completed |-> <<>>,                 \* the completion channel
             deferred  |-> <<>>,
             barriers  |-> {},
             requests  |-> [id \in Ids |-> 0],   \* the live job of each id
             tokens    |-> [k \in Keys |-> 0],   \* the job whose token is tracked
             cancelled |-> {},                   \* the jobs whose token is set
             reply     |-> [id \in Ids |-> "none"],  \* what the client was told
             shown     |-> [d \in Docs |-> 0] ]  \* the revision the shown diagnostics are of
    /\ running = [w \in Workers |-> 0]
    /\ msgs = 0

-----------------------------------------------------------------------------
\* What the client has been sent.

Ask(o, id) == [o EXCEPT !.reply[id] = "owed"]

Told(before, answer) == IF before = "owed" THEN answer ELSE "twice"
Reply(o, id, answer) == [o EXCEPT !.reply[id] = Told(@, answer)]

-----------------------------------------------------------------------------
\* WorkScheduler and the two trackers.

StartJob(o, meta) ==
    [o EXCEPT !.nextJob = @ + 1,
              !.jobs = [j \in DOMAIN @ \union {o.nextJob} |->
                          IF j = o.nextJob THEN meta ELSE @[j]],
              !.unfinished = @ \union {o.nextJob}]

\* A sequence of jobs but for those of J.
Without(seq, J) == FoldLeft(LAMBDA kept, j : IF j \in J THEN kept ELSE Append(kept, j), <<>>, seq)

\* Retiring several jobs in one loop, as supersession and shutdown do.
RetireAll(o, J) ==
    [o EXCEPT !.unfinished = @ \ J,
              !.pending = Without(@, J),
              !.jobs = [j \in DOMAIN @ \ J |-> @[j]]]
RetireJob(o, j) == RetireAll(o, {j})

Cancel(o, J) == [o EXCEPT !.cancelled = @ \union J]

Outstanding(o) == Cardinality(o.submitted) + Len(o.pending)
\* A mutant: off by one.
HasOneTooMany(o) == Outstanding(o) <= OutstandingCap
HasRoom(o) == Outstanding(o) < OutstandingCap

FinishRequest(o, id, j) == [o EXCEPT !.requests[id] = IF @ = j THEN 0 ELSE @]
FinishCancellation(o, k, j) == [o EXCEPT !.tokens[k] = IF @ = j THEN 0 ELSE @]

\* A mutant: the job of the replaced or cancelled request stays live.
RetireIdOnly(o, id) == [o EXCEPT !.requests[id] = 0]

RetireDuplicate(o, id) ==
    LET j == o.requests[id]
    IN  IF j = 0 THEN o
        ELSE Cancel(RetireJob([o EXCEPT !.requests[id] = 0], j), {j})

\* A mutant: a refresh supersedes the jobs of every key.
AllDiagnosticJobs(o, k) == {j \in DOMAIN o.jobs : o.jobs[j].kind = "diagnostics"}

DiagnosticJobs(o, k) ==
    {j \in DOMAIN o.jobs : o.jobs[j].kind = "diagnostics" /\ o.jobs[j].key = k}

\* supersede_diagnostics: a newer generation retires every older job of the key.
Supersede(o, k) ==
    LET old == DiagnosticJobs(o, k)
    IN  Cancel(RetireAll([o EXCEPT !.gen[k] = @ + 1, !.tokens[k] = 0], old),
               old \union ({o.tokens[k]} \ {0}))

\* A mutant: the barrier does not wait for the job just before it.
EarlyBarriers(o) == {b \in o.barriers : \A j \in o.unfinished : j >= b.through}
ReadyBarriers(o) == {b \in o.barriers : \A j \in o.unfinished : j > b.through}
FinishBarriers(o) ==
    LET ready == ReadyBarriers(o)
        done == {b.id : b \in ready}
    IN  [o EXCEPT !.barriers = @ \ ready,
                  !.reply = [id \in Ids |-> IF id \in done THEN Told(@[id], "null") ELSE @[id]]]

-----------------------------------------------------------------------------
\* Applying a result.

\* A mutant: only the document of the request is compared.
SameDocument(o, meta) ==
    IF meta.target = Workspace THEN o.rev = meta.stamp
    ELSE o.docs[meta.target] = meta.snapshot[meta.target]

\* finish_request sends a result only if nothing the request depends on has moved.
Current(o, meta) ==
    IF meta.target = Workspace
    THEN o.rev = meta.stamp
    ELSE /\ o.gen[Key[meta.target]] = meta.stamp
         /\ o.docs[meta.target] = meta.snapshot[meta.target]

Publish(o, meta) ==
    [o EXCEPT !.shown = [d \in Docs |-> IF d \in Importers[meta.target]
                                          THEN meta.snapshot[d] ELSE @[d]]]

Complete(o, c) ==
    LET p == [o EXCEPT !.submitted = @ \ {c.job}]
        meta == o.jobs[c.job]
        q == RetireJob(p, c.job)
        answer == IF c.result = "ok" /\ c.job \notin o.cancelled /\ Current(o, meta)
                  THEN "result" ELSE "error"
        publishes == /\ c.result = "ok"
                     /\ c.job \notin o.cancelled
                     /\ o.gen[meta.key] = meta.stamp
    IN  FinishBarriers(
          CASE c.job \notin DOMAIN o.jobs -> p
            [] c.job \in DOMAIN o.jobs /\ meta.kind = "request" ->
                 Reply(FinishRequest(q, meta.id, c.job), meta.id, answer)
            [] OTHER -> IF publishes THEN Publish(q, meta) ELSE q)

CompleteAll(o) == FoldLeft(Complete, [o EXCEPT !.deferred = <<>>], o.deferred)

-----------------------------------------------------------------------------
\* Capacity.  drain_completed runs in the middle of a batch only, where the
\* results it takes off the channel are deferred.

\* A mutant: results apply in the middle of the batch.
DrainApplies(o) == [FoldLeft(Complete, o, o.completed) EXCEPT !.completed = <<>>]

Drain(o) ==
    [o EXCEPT !.submitted = @ \ {c.job : c \in Range(o.completed)},
              !.deferred = @ \o o.completed,
              !.completed = <<>>]

Reclaim(o) == IF HasRoom(o) THEN o ELSE Drain(o)

\* evict_pending: the first waiting request, else the first waiting job.
Victim(o) ==
    LET requests == {i \in DOMAIN o.pending : o.jobs[o.pending[i]].kind = "request"}
    IN  o.pending[IF requests = {} THEN 1 ELSE Min(requests)]

\* A mutant: the evicted request is not answered.
EvictSilently(o) ==
    LET j == Victim(o)
        meta == o.jobs[j]
        p == Cancel(RetireJob(o, j), {j})
    IN  IF meta.kind = "request" THEN FinishRequest(p, meta.id, j)
                                 ELSE FinishCancellation(p, meta.key, j)

Evict(o) ==
    LET j == Victim(o)
        meta == o.jobs[j]
        p == Cancel(RetireJob(o, j), {j})
    IN  IF meta.kind = "request"
        THEN Reply(FinishRequest(p, meta.id, j), meta.id, "error")
        ELSE FinishCancellation(p, meta.key, j)

\* try_submit
Fits(o, w) == Len(o.queue[w]) < QueueCap
Submit(o, j, w) == [o EXCEPT !.queue[w] = Append(@, j), !.submitted = @ \union {j}]
Wait(o, j) == [o EXCEPT !.pending = Append(@, j)]

-----------------------------------------------------------------------------
\* Scheduling.

\* schedule_request_with_snapshot
ScheduleRequest(o, id, target) ==
    LET p == Reclaim(RetireDuplicate(o, id))
        j == p.nextJob
        k == IF target = Workspace THEN Workspace ELSE Key[target]
        meta == [kind |-> "request", id |-> id, target |-> target, route |-> Route[k],
                 stamp |-> IF target = Workspace THEN p.rev ELSE p.gen[k],
                 snapshot |-> p.docs]
        q == StartJob([p EXCEPT !.requests[id] = j], meta)
    IN  CASE ~HasRoom(p) -> Reply(p, id, "error")
          [] HasRoom(p) /\ Fits(q, Route[k]) -> Submit(q, j, Route[k])
          [] HasRoom(p) /\ ~Fits(q, Route[k]) /\ Len(q.pending) < PendingCap -> Wait(q, j)
          [] OTHER -> Reply(FinishRequest(RetireJob(q, j), id, j), id, "error")

\* reserve_diagnostic_slot
ReserveDiagnostic(o, k) ==
    LET p == Reclaim(o)
        replaces == \E i \in DOMAIN p.pending : p.pending[i] \in DiagnosticJobs(p, k)
    IN  IF HasRoom(p) \/ replaces \/ p.pending = <<>>
        THEN [state |-> p, ok |-> HasRoom(p) \/ replaces]
        ELSE [state |-> Evict(p), ok |-> TRUE]

\* schedule_diagnostics: the job refreshes document d under its key.
ScheduleDiagnostics(o, d) ==
    LET k == Key[d]
        slot == ReserveDiagnostic(Supersede(o, k), k)
        p == slot.state
        j == p.nextJob
        w == Route[k]
        meta == [kind |-> "diagnostics", key |-> k, target |-> d, route |-> w,
                 stamp |-> p.gen[k], snapshot |-> p.docs]
        q == StartJob([p EXCEPT !.tokens[k] = j], meta)
    IN  CASE ~slot.ok -> p
          [] slot.ok /\ Fits(q, w) -> Submit(q, j, w)
          [] slot.ok /\ ~Fits(q, w) /\ Len(q.pending) < PendingCap -> Wait(q, j)
          [] OTHER -> Wait(Evict(q), j)

-----------------------------------------------------------------------------
\* Handlers.  Each is one client message handled inside a batch.

Receive(kind) ==
    /\ kind \in Sends
    /\ pc \in {"select", "batch"}
    /\ msgs < MaxMsgs
    /\ pc' = "batch"
    /\ msgs' = msgs + 1
    /\ UNCHANGED running

Running == s.phase = "running"

\* A client may reuse the id of a request it still waits for; never a barrier's.
MayAsk(id) == s.reply[id] = "owed" => s.requests[id] # 0

Refuse(id) == s' = Reply(Ask(s, id), id, "error")

Request(id, target) ==
    /\ Receive("request")
    /\ MayAsk(id)
    /\ IF Running THEN s' = ScheduleRequest(Ask(s, id), id, target) ELSE Refuse(id)

\* An unknown method or undecodable parameters: refused before scheduling.
Malformed(id) ==
    /\ Receive("malformed")
    /\ IF StrictClient THEN s.reply[id] # "owed" ELSE MayAsk(id)
    /\ Refuse(id)

Barrier(id) ==
    /\ Receive("barrier")
    /\ s.reply[id] # "owed"
    /\ LET asked == Ask(s, id)
           barrier == [id |-> id, through |-> s.nextJob - 1]
       IN  IF Running
           THEN s' = FinishBarriers([asked EXCEPT !.barriers = @ \union {barrier}])
           ELSE Refuse(id)

CancelRequest(id) ==
    /\ Receive("cancel")
    /\ LET j == s.requests[id]
       IN  s' = IF j = 0 THEN s
                ELSE FinishBarriers(Reply(RetireDuplicate(s, id), id, "error"))

\* didOpen, and didChange of an open document.
Edit(d) ==
    /\ Receive("edit")
    /\ Running
    /\ s' = ScheduleDiagnostics([s EXCEPT !.rev = @ + 1, !.docs[d] = s.rev + 1], d)

\* A mutant: closing a loose file does not supersede its analysis.
CloseQuietly(d) ==
    /\ Receive("close")
    /\ Running
    /\ s.docs[d] # 0
    /\ LET closed == [s EXCEPT !.rev = @ + 1, !.docs[d] = 0]
       IN  s' = IF Key[d] \in ProjectKeys
                THEN ScheduleDiagnostics(closed, d) ELSE [closed EXCEPT !.shown[d] = 0]

Close(d) ==
    /\ Receive("close")
    /\ Running
    /\ s.docs[d] # 0
    /\ LET closed == [s EXCEPT !.rev = @ + 1, !.docs[d] = 0]
       IN  s' = IF Key[d] \in ProjectKeys
                THEN ScheduleDiagnostics(closed, d)
                ELSE [Supersede(closed, Key[d]) EXCEPT !.shown[d] = 0]

\* A change on disk: documents stay as they are, analyses do not.
Watch(d) ==
    /\ Receive("watch")
    /\ Running
    /\ s' = ScheduleDiagnostics([s EXCEPT !.rev = @ + 1], d)

\* A new build profile refreshes the first open document of every key.
RefreshFirst(o, d) ==
    IF o.docs[d] # 0 /\ \A e \in 1..(d - 1) : o.docs[e] # 0 => Key[e] # Key[d]
    THEN ScheduleDiagnostics(o, d) ELSE o
Configure ==
    /\ Receive("configure")
    /\ Running
    /\ s' = FoldLeft(RefreshFirst, [s EXCEPT !.rev = @ + 1], [d \in Docs |-> d])

Live(o) == {id \in Ids : o.requests[id] # 0}

\* A mutant: the diagnostics under way are not cancelled.
ShutdownRequestsOnly(id) ==
    LET o == Reply(RetireDuplicate(Ask(s, id), id), id, "null")
        live == {o.requests[i] : i \in Live(o)}
        stopped == [o EXCEPT
            !.phase = "shuttingDown",
            !.requests = [i \in Ids |-> 0],
            !.reply = [i \in Ids |-> IF i \in Live(o) THEN Told(@[i], "error") ELSE @[i]]]
    IN  FinishBarriers(Cancel(RetireAll(stopped, live), live))

\* begin_shutdown
BeginShutdown(id) ==
    LET o == Reply(RetireDuplicate(Ask(s, id), id), id, "null")
        live == {o.requests[i] : i \in Live(o)}
        tracked == {o.tokens[k] : k \in Keys} \ {0}
        stopped == [o EXCEPT
            !.phase = "shuttingDown",
            !.requests = [i \in Ids |-> 0],
            !.reply = [i \in Ids |-> IF i \in Live(o) THEN Told(@[i], "error") ELSE @[i]]]
        retired == Cancel(RetireAll(stopped, live), live \union tracked)
    IN  IF live = {} THEN retired ELSE FinishBarriers(retired)

Shutdown(id) ==
    /\ Receive("shutdown")
    /\ MayAsk(id)
    /\ IF Running THEN s' = BeginShutdown(id) ELSE Refuse(id)

-----------------------------------------------------------------------------
\* The rest of main_loop.

\* A mutant: pending work is never offered to the workers again.
DispatchNothing ==
    /\ pc = "dispatch"
    /\ pc' = "select"
    /\ s' = FinishBarriers(s)
    /\ UNCHANGED <<running, msgs>>

Offer(o, j) ==
    LET w == o.jobs[j].route IN IF Fits(o, w) THEN Submit(o, j, w) ELSE Wait(o, j)

DispatchPending ==
    /\ pc = "dispatch"
    /\ pc' = "select"
    /\ s' = FinishBarriers(FoldLeft(Offer, [s EXCEPT !.pending = <<>>], s.pending))
    /\ UNCHANGED <<running, msgs>>

\* Results the batch deferred, and those on the channel, apply after it.
EndBatch ==
    /\ pc = "batch"
    /\ pc' = "tail"
    /\ s' = CompleteAll(Drain(s))
    /\ UNCHANGED <<running, msgs>>

CompleteHead == s' = Complete([s EXCEPT !.completed = Tail(@)], Head(s.completed))

\* try_recv after a batch
AfterBatch ==
    /\ pc = "tail"
    /\ pc' = "dispatch"
    /\ IF s.completed = <<>> THEN UNCHANGED s ELSE CompleteHead
    /\ UNCHANGED <<running, msgs>>

Completion ==
    /\ pc = "select"
    /\ s.completed # <<>>
    /\ pc' = "dispatch"
    /\ CompleteHead
    /\ UNCHANGED <<running, msgs>>

\* The exit notification, or the client's end of the connection going away.
Exit ==
    /\ pc \in {"select", "batch"}
    /\ pc' = "joining"
    /\ LET o == CompleteAll(Drain(s))
       IN  s' = Cancel([o EXCEPT !.pending = <<>>], DOMAIN o.jobs)
    /\ UNCHANGED <<running, msgs>>

\* WorkerPool::finish joins every worker.
Join ==
    /\ pc = "joining"
    /\ \A w \in Workers : running[w] = 0 /\ s.queue[w] = <<>>
    /\ pc' = "stopped"
    /\ UNCHANGED <<s, running, msgs>>

Stopped == pc = "stopped" /\ UNCHANGED vars

-----------------------------------------------------------------------------
\* Workers.

Take(w) ==
    /\ running[w] = 0
    /\ s.queue[w] # <<>>
    /\ running' = [running EXCEPT ![w] = Head(s.queue[w])]
    /\ s' = [s EXCEPT !.queue[w] = Tail(@)]
    /\ UNCHANGED <<pc, msgs>>

\* A cancelled token is noticed at a checkpoint, or too late.
Results(j) == {"ok"} \union (IF j \in s.cancelled THEN {"cancelled"} ELSE {})
                     \union (IF MayFail THEN {"failed"} ELSE {})

\* A mutant: a job found cancelled goes back to the queue.
FinishRetries(w) ==
    /\ running[w] # 0
    /\ Len(s.completed) < OutstandingCap
    /\ \E result \in Results(running[w]) :
          s' = IF result = "cancelled"
               THEN [s EXCEPT !.queue[w] = Append(@, running[w])]
               ELSE [s EXCEPT !.completed = Append(@, [job |-> running[w], result |-> result])]
    /\ running' = [running EXCEPT ![w] = 0]
    /\ UNCHANGED <<pc, msgs>>

Finish(w) ==
    /\ running[w] # 0
    /\ Len(s.completed) < OutstandingCap
    /\ \E result \in Results(running[w]) :
          s' = [s EXCEPT !.completed = Append(@, [job |-> running[w], result |-> result])]
    /\ running' = [running EXCEPT ![w] = 0]
    /\ UNCHANGED <<pc, msgs>>

-----------------------------------------------------------------------------
Message ==
    \/ \E id \in Ids : \/ \E target \in Docs \union {Workspace} : Request(id, target)
                       \/ Malformed(id)
                       \/ Barrier(id)
                       \/ CancelRequest(id)
                       \/ Shutdown(id)
    \/ \E d \in Docs : Edit(d) \/ Close(d) \/ Watch(d)
    \/ Configure

Owner == DispatchPending \/ EndBatch \/ AfterBatch \/ Completion \/ Join
Worker(w) == Take(w) \/ Finish(w)

Next == Message \/ Exit \/ Owner \/ Stopped \/ \E w \in Workers : Worker(w)

Spec == Init /\ [][Next]_vars

\* The owner's loop and the worker threads run; the client need not send.
LiveSpec == Spec /\ WF_vars(Owner) /\ \A w \in Workers : WF_vars(Worker(w))

-----------------------------------------------------------------------------
\* Properties.

RequestMeta == [kind : {"request"}, id : Ids, target : Docs \union {Workspace},
                route : Workers, stamp : Nat, snapshot : [Docs -> Nat]]
DiagnosticsMeta == [kind : {"diagnostics"}, key : Keys, target : Docs,
                    route : Workers, stamp : Nat, snapshot : [Docs -> Nat]]
Completed == [job : Jobs, result : {"ok", "cancelled", "failed"}]

\* Every variable and every field of the owner's state has its type.
TypeOK ==
    /\ pc \in {"dispatch", "select", "batch", "tail", "joining", "stopped"}
    /\ msgs \in 0..MaxMsgs
    /\ running \in [Workers -> Jobs \union {0}]
    /\ s.phase \in {"running", "shuttingDown"}
    /\ s.docs \in [Docs -> 0..s.rev] /\ s.shown \in [Docs -> 0..s.rev]
    /\ s.rev \in Nat /\ s.nextJob \in Nat \ {0}
    /\ s.gen \in [Keys -> Nat] /\ s.tokens \in [Keys -> Jobs \union {0}]
    /\ DOMAIN s.jobs \subseteq Jobs
    /\ \A j \in DOMAIN s.jobs : s.jobs[j] \in RequestMeta \union DiagnosticsMeta
    /\ s.unfinished \subseteq Jobs /\ s.submitted \subseteq Jobs
    /\ s.cancelled \subseteq Jobs
    /\ s.pending \in Seq(Jobs)
    /\ s.queue \in [Workers -> Seq(Jobs)]
    /\ s.completed \in Seq(Completed) /\ s.deferred \in Seq(Completed)
    /\ s.barriers \subseteq [id : Ids, through : Nat]
    /\ s.requests \in [Ids -> Jobs \union {0}]
    /\ s.reply \in [Ids -> {"none", "owed", "result", "null", "error", "twice"}]

\* The client gets one answer per request: a completion, a cancellation, an
\* eviction, a replacement and a shutdown race for it, and only one wins.
NeverAnsweredTwice == \A id \in Ids : s.reply[id] # "twice"

\* An answer is owed exactly while a live job or a barrier stands for it, so
\* none is forgotten when a job is evicted, replaced or superseded.
EveryDebtIsTracked ==
    pc \notin {"joining", "stopped"} =>
        \A id \in Ids : s.reply[id] = "owed" <=>
            \/ \E b \in s.barriers : b.id = id
            \/ /\ s.requests[id] \in DOMAIN s.jobs
               /\ s.jobs[s.requests[id]].kind = "request"
               /\ s.jobs[s.requests[id]].id = id

\* A worker that has finished a job always finds room on the completion channel:
\* cancelled jobs still count as outstanding until their completion is consumed.
NoWorkerBlocks == \A w \in Workers : running[w] # 0 => Len(s.completed) < OutstandingCap

\* A result sent for a request about a document was computed from every
\* document of its project as it still is; to a workspace request, from every
\* document.
ResultIsCurrent ==
    [][\A id \in Ids :
          (s.reply[id] = "owed" /\ s'.reply[id] = "result") =>
             LET meta == s.jobs[s.requests[id]]
                 reads == IF meta.target = Workspace THEN Docs
                          ELSE {d \in Docs : Key[d] = Key[meta.target]}
             IN  \A d \in reads : meta.snapshot[d] = s'.docs[d] ]_vars

\* Diagnostics the client is shown are those of the document as it is when they
\* are published, whatever order the workers finish in.
PublishedIsCurrent ==
    [][\A d \in Docs : s'.shown[d] # s.shown[d] => s'.shown[d] = s'.docs[d]]_vars

\* Results apply only between batches: a cancellation or an edit that is in the
\* same batch as a finished result comes before it, at every queue limit.
ResultsAfterBatch ==
    [][(pc = "batch" /\ pc' = "batch") =>
          /\ \A id \in Ids : s'.reply[id] = "result" => s.reply[id] = "result"
          /\ \A d \in Docs : s'.shown[d] # s.shown[d] => s'.docs[d] = 0]_vars

\* When a barrier is answered, every request that came before it has been.
BarrierWaitsForEarlier ==
    [][\A id \in Ids :
          (s.phase = s'.phase /\ s.reply[id] # "null" /\ s'.reply[id] = "null") =>
             LET earlier == {b.through : b \in {b \in s.barriers : b.id = id}}
                 through == IF earlier = {} THEN s.nextJob - 1 ELSE Min(earlier)
             IN  \A other \in Live(s') : s'.requests[other] > through]_vars

\* After the shutdown reply the client is sent no more diagnostics and no result.
NothingAfterShutdown ==
    [][(s.phase = "shuttingDown" /\ s'.phase = "shuttingDown") =>
          /\ s'.shown = s.shown
          /\ \A id \in Ids : s'.reply[id] = "result" => s.reply[id] = "result"]_vars

AtLimit == ~HasRoom(s) \/ Len(s.pending) >= PendingCap
FailedJob(j) == \E c \in Range(s.completed) \union Range(s.deferred) :
                    c.job = j /\ c.result = "failed"

\* A diagnostics job that goes away without its document being refreshed was
\* superseded by a newer job, evicted at a queue limit, failed, or shut down.
DiagnosticsOnlyLostForCause ==
    [][\A j \in DOMAIN s.jobs \ DOMAIN s'.jobs :
          s.jobs[j].kind = "diagnostics" =>
             LET meta == s.jobs[j]
             IN  \/ s'.shown[meta.target] = s'.docs[meta.target]
                 \/ s'.gen[meta.key] > meta.stamp
                 \/ AtLimit
                 \/ FailedJob(j)
                 \/ s.phase = "shuttingDown"]_vars

\* Every request and every barrier is answered in the end.
EveryRequestAnswered ==
    \A id \in Ids : s.reply[id] = "owed" ~>
        (s.reply[id] # "owed" \/ pc \in {"joining", "stopped"})

\* After exit the pool drains and every worker is joined.
ExitCompletes == pc = "joining" ~> pc = "stopped"
=============================================================================

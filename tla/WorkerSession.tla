---------------------------- MODULE WorkerSession ----------------------------
(***************************************************************************)
(* One analysis worker of the language server: its private compiler        *)
(* session, and how it reconciles that session with the immutable document *)
(* snapshots its jobs carry, while the files on disk change.               *)
(*                                                                         *)
(* Several URIs may spell one file. All files are below one directory that *)
(* may hold a manifest; without it each file is a project of its own.      *)
(* The text of an open document is the revision that wrote it, the text of *)
(* a file is a number, and zero is no file.                                *)
(***************************************************************************)
EXTENDS Integers, Sequences, FiniteSets, SequencesExt

CONSTANTS
    Uris, Files,
    FileOf,        \* the file a URI spells
    Canonical,     \* the URI made of a file's path
    Rank,          \* the order of URIs as strings
    Versions,      \* what a client numbers a newly opened document with
    MaxRevision, MaxDisk, MaxRequests, MaxJobs

ASSUME SpellingAssumption ==
    /\ FileOf \in [Uris -> Files] /\ Canonical \in [Files -> Uris]
    /\ \A f \in Files : FileOf[Canonical[f]] = f
    /\ Rank \in [Uris -> Nat] /\ \A u, v \in Uris : Rank[u] = Rank[v] => u = v
    /\ Versions \subseteq Int /\ {MaxRevision, MaxDisk, MaxRequests, MaxJobs} \subseteq Nat

VARIABLES
    disk, manifest, changes, untold, \* the file system, how often it changed, what the server was not told
    store, projects, requests,\* the owner: documents, files keyed by a project; requests made
    jobs,                     \* jobs the worker has not taken
    job, todo, pc,            \* the job under way and what is left of its synchronization
    compiler, snapshot, initialized  \* WorkerState

world == <<disk, manifest, changes, untold>>
owner == <<store, projects, requests>>
session == <<compiler, snapshot, initialized>>
vars == <<world, owner, jobs, job, todo, pc, session>>

NoJob == [kind |-> "none"]
Without(f, S) == Restrict(f, DOMAIN f \ S)
Over(g, f) == [x \in DOMAIN g \cup DOMAIN f |-> IF x \in DOMAIN g THEN g[x] ELSE f[x]]
With(f, x, v) == Over([y \in {x} |-> v], f)

-----------------------------------------------------------------------------
(* DocumentStore.                                                          *)

EmptyStore == [docs |-> <<>>, revision |-> 0, filesystem |-> 0, release |-> FALSE]

\* Open documents in the order of their last update.
InUpdateOrder(docs) ==
    CHOOSE s \in [1 .. Cardinality(DOMAIN docs) -> DOMAIN docs] :
        \A i, j \in DOMAIN s : i < j => docs[s[i]].update < docs[s[j]].update

Opened(s, u, version) ==
    LET r == s.revision + 1
        d == [update |-> r, lifecycle |-> r, version |-> version]
    IN  [s EXCEPT !.revision = r, !.docs = With(@, u, d)]

Changed(s, u) ==
    LET r == s.revision + 1
    IN  [s EXCEPT !.revision = r, !.docs[u].update = r, !.docs[u].version = @ + 1]

Closed(s, u) == [s EXCEPT !.revision = @ + 1, !.docs = Without(@, {u})]

FilesystemChanged(s) == [s EXCEPT !.revision = @ + 1, !.filesystem = @ + 1]

-----------------------------------------------------------------------------
(* CompilerState. A module identity is the kind of its project and a file. *)
(* A source is where a module's text comes from.                           *)

EmptyCompiler(release) ==
    [docs |-> <<>>, identities |-> <<>>, errors |-> {}, overlays |-> <<>>,
     sources |-> <<>>, synchronized |-> FALSE, release |-> release]

Overlay(c, u) == <<"overlay", c.docs[u].update>>
OnDisk(f) == <<"disk", disk[f]>>
Spells(c, u, id) == u \in DOMAIN c.identities /\ c.identities[u] = id
SetSource(c, id, source) == [c EXCEPT !.sources = With(@, id, source)]
RemoveSource(c, id) == [c EXCEPT !.sources = Without(@, {id})]
SourceFromDisk(c, id) ==
    IF disk[id.file] # 0 THEN SetSource(c, id, OnDisk(id.file)) ELSE RemoveSource(c, id)

\* Of several open spellings the one with the highest client version.
Newest(c, S) ==
    {u \in S : \A v \in S \ {u} :
        \/ c.docs[v].version < c.docs[u].version
        \/ c.docs[v].version = c.docs[u].version /\ Rank[v] < Rank[u]}

\* The open spelling that takes over a module, other than those excluded.
RemainingOverlay(c, id, excluded) ==
    LET kept == {u \in DOMAIN c.docs \ excluded :
                    id \in DOMAIN c.overlays /\ c.overlays[id] = u}
    IN  IF kept # {} THEN kept
        ELSE Newest(c, {u \in DOMAIN c.docs \ excluded : Spells(c, u, id)})

TakeOver(c, id, u) == [SetSource(c, id, Overlay(c, u)) EXCEPT !.overlays = With(@, id, u)]

\* The last open document of a project leaves it: all its modules are dropped.
RetireProject(c) ==
    LET inProject(id) == id.kind = "project"
    IN  [c EXCEPT
            !.overlays = Without(@, {id \in DOMAIN c.overlays : id \in DOMAIN c.sources /\ inProject(id)}),
            !.sources = Without(@, {id \in DOMAIN c.sources : inProject(id)}),
            !.identities = Without(@, {u \in DOMAIN c.identities \ DOMAIN c.docs : inProject(c.identities[u])})]

RetireTransitioned(c, u, id) ==
    LET stillOpen == \E v \in (DOMAIN c.identities \cap DOMAIN c.docs) \ {u} :
                        c.identities[v].kind = "project"
        rescan == IF id.kind = "project" THEN [c EXCEPT !.synchronized = FALSE] ELSE c
        next == RemainingOverlay(rescan, id, {u})
    IN  IF id.kind = "project" /\ ~stillOpen THEN RetireProject(rescan)
        ELSE IF next # {} THEN TakeOver(rescan, id, CHOOSE v \in next : TRUE)
        ELSE RemoveSource([rescan EXCEPT !.overlays = Without(@, {id})], id)

\* synchronize_project_files: every file on disk is a module, overlaid by an
\* open spelling of it; modules without file and without overlay are dropped.
SynchronizeFiles(c) ==
    LET Id(f) == [kind |-> "project", file |-> f]
        present == {f \in Files : disk[f] # 0}
        open(f) == {u \in DOMAIN c.docs : Spells(c, u, Id(f))}
        chosen(f) ==
            LET kept == {u \in open(f) : Id(f) \in DOMAIN c.overlays /\ c.overlays[Id(f)] = u}
            IN  IF kept # {} THEN kept ELSE Newest(c, open(f))
        overlaid == {f \in present : open(f) # {}}
        pick(f) == CHOOSE u \in chosen(f) : TRUE
        overlays == Over([id \in {Id(f) : f \in overlaid} |-> pick(id.file)], c.overlays)
        stale == {id \in DOMAIN c.sources :
                    /\ id.kind = "project" /\ id.file \notin present
                    /\ ~(id \in DOMAIN overlays /\ overlays[id] \in DOMAIN c.docs)}
        found == [id \in {Id(f) : f \in present} |->
                    IF id.file \in overlaid THEN Overlay(c, pick(id.file)) ELSE OnDisk(id.file)]
        names == Over([u \in {Canonical[f] : f \in present} |-> Id(FileOf[u])], c.identities)
    IN  [c EXCEPT !.overlays = overlays,
                  !.sources = Over(found, Without(@, stale)),
                  !.identities = Without(names, {u \in DOMAIN names \ DOMAIN c.docs : names[u] \in stale})]

\* synchronize: discover what the URI belongs to now and replay the overlays of
\* that project. A broken manifest leaves the document as it was.
Synchronize(c, u) ==
    LET id == [kind |-> IF manifest = "present" THEN "project" ELSE "loose", file |-> FileOf[u]]
        clean == [c EXCEPT !.errors = @ \ {u}]
        retired == IF u \in DOMAIN c.identities /\ c.identities[u] # id
                   THEN RetireTransitioned(clean, u, c.identities[u]) ELSE clean
        named == [retired EXCEPT !.identities = With(@, u, id)]
        scanned == IF id.kind = "project" /\ ~named.synchronized
                   THEN SynchronizeFiles([named EXCEPT !.synchronized = TRUE]) ELSE named
        claimed == IF u \in DOMAIN c.docs
                   THEN [scanned EXCEPT !.overlays = With(@, id, u)] ELSE scanned
        replayed == {m \in DOMAIN claimed.overlays :
                        /\ m.kind = id.kind /\ (id.kind = "loose" => m = id)
                        /\ claimed.overlays[m] \in DOMAIN c.docs
                        /\ Spells(claimed, claimed.overlays[m], m)}
    IN  IF manifest = "broken" THEN [c EXCEPT !.errors = @ \cup {u}]
        ELSE [claimed EXCEPT !.sources = Over([m \in replayed |-> Overlay(claimed, claimed.overlays[m])], @)]

OpenOrChange(c, u, d) == Synchronize([c EXCEPT !.docs = With(@, u, d)], u)

\* close: the next spelling, or the file on disk, takes the module over.
Close(c, u) ==
    LET gone == [c EXCEPT !.docs = Without(@, {u}), !.errors = @ \ {u}]
        id == c.identities[u]
        forgotten == IF id.kind = "project" THEN gone
                     ELSE [gone EXCEPT !.identities = Without(@, {u})]
        next == RemainingOverlay(forgotten, id, {u})
        bare == [forgotten EXCEPT !.overlays = Without(@, {id})]
    IN  IF u \notin DOMAIN c.identities THEN gone
        ELSE IF next # {} THEN TakeOver(forgotten, id, CHOOSE v \in next : TRUE)
        ELSE IF id.kind = "loose" THEN RemoveSource(bare, id)
        ELSE SourceFromDisk(bare, id)

\* refresh_source: a watched file changed below a project that is open.
RefreshSource(c, f) ==
    LET id == [kind |-> "project", file |-> f]
        active == \E u \in DOMAIN c.identities \cap DOMAIN c.docs : c.identities[u].kind = "project"
        u == Canonical[f]
        named == IF u \in DOMAIN c.docs /\ u \in DOMAIN c.identities THEN c
                 ELSE [c EXCEPT !.identities = With(@, u, id)]
    IN  IF manifest # "present" \/ ~c.synchronized \/ ~active THEN c
        ELSE IF RemainingOverlay(named, id, {}) # {} THEN named
        ELSE SourceFromDisk(named, id)

-----------------------------------------------------------------------------
(* The file system and the client.                                         *)

Init ==
    /\ disk = [f \in Files |-> 1] /\ manifest \in {"present", "absent"} /\ changes = 0 /\ untold = {}
    /\ store = EmptyStore /\ projects = {} /\ requests = 0
    /\ jobs = {} /\ job = NoJob /\ todo = <<>> /\ pc = "idle"
    /\ compiler = EmptyCompiler(FALSE) /\ snapshot = EmptyStore
    /\ initialized = FALSE

\* A file is written, created or deleted.
WriteFile(f, text) ==
    /\ changes < MaxDisk
    /\ text # disk[f]
    /\ disk' = [disk EXCEPT ![f] = text]
    /\ changes' = changes + 1
    /\ untold' = untold \cup {f}
    /\ UNCHANGED <<manifest, owner, jobs, job, todo, pc, session>>

WriteManifest(state) ==
    /\ changes < MaxDisk
    /\ state # manifest
    /\ manifest' = state
    /\ changes' = changes + 1
    /\ untold' = untold \cup {"manifest"}
    /\ UNCHANGED <<disk, owner, jobs, job, todo, pc, session>>

\* Mutant: the key is made of the URI, not of the file it spells.
KeyedByUri(f) == IF manifest = "present" THEN projects \cup {Canonical[f]} ELSE projects

\* diagnostic_key_for_uri: once found in a project, until a manifest event.
Keyed(f) == IF manifest = "present" THEN projects \cup {f} ELSE projects
Analyse(s) == [kind |-> "analyse", of |-> s]

DidOpen(u, version) ==
    /\ store.revision < MaxRevision /\ Cardinality(jobs) < MaxJobs
    /\ u \notin DOMAIN store.docs
    /\ store' = Opened(store, u, version)
    /\ projects' = Keyed(FileOf[u])
    /\ jobs' = jobs \cup {Analyse(store')}
    /\ UNCHANGED <<world, requests, job, todo, pc, session>>

DidChange(u) ==
    /\ store.revision < MaxRevision /\ Cardinality(jobs) < MaxJobs
    /\ u \in DOMAIN store.docs
    /\ store' = Changed(store, u)
    /\ projects' = Keyed(FileOf[u])
    /\ jobs' = jobs \cup {Analyse(store')}
    /\ UNCHANGED <<world, requests, job, todo, pc, session>>

DidClose(u) ==
    /\ store.revision < MaxRevision /\ Cardinality(jobs) < MaxJobs
    /\ u \in DOMAIN store.docs
    /\ store' = Closed(store, u)
    /\ projects' = Keyed(FileOf[u])
    /\ jobs' = IF FileOf[u] \in projects'
               THEN jobs \cup {[kind |-> "close", of |-> store, uri |-> u, after |-> store']}
               ELSE jobs
    /\ UNCHANGED <<world, requests, job, todo, pc, session>>

\* The watcher tells of some changes in one batch. With a manifest among them
\* the sources below it are left to the rebuild.
DidChangeWatchedFiles(batch) ==
    /\ store.revision < MaxRevision /\ Cardinality(jobs) < MaxJobs
    /\ batch # {}
    /\ untold' = untold \ batch
    /\ store' = FilesystemChanged(store)
    /\ LET open == {FileOf[u] : u \in DOMAIN store.docs} IN
       IF "manifest" \in batch
       THEN /\ projects' = CASE manifest = "present" -> projects \cup open
                             [] manifest = "absent" -> projects \ open
                             [] OTHER -> projects
            /\ jobs' = IF open = {} THEN jobs ELSE jobs \cup {Analyse(store')}
       ELSE /\ projects' = IF manifest = "present" THEN projects \cup batch ELSE projects
            /\ jobs' = jobs \cup {[kind |-> "watch", of |-> store', files |-> batch]}
    /\ UNCHANGED <<disk, manifest, changes, requests, job, todo, pc, session>>

DidChangeConfiguration ==
    /\ store.revision < MaxRevision /\ Cardinality(jobs) < MaxJobs
    /\ store' = [store EXCEPT !.release = ~@, !.revision = @ + 1]
    /\ projects' = projects \cup {FileOf[u] : u \in {v \in DOMAIN store.docs : manifest = "present"}}
    /\ jobs' = IF DOMAIN store.docs = {} THEN jobs ELSE jobs \cup {Analyse(store')}
    /\ UNCHANGED <<world, requests, job, todo, pc, session>>

\* Requests that look at the file system themselves before they answer.
Request(kind, u) ==
    /\ requests < MaxRequests /\ Cardinality(jobs) < MaxJobs
    /\ u \in DOMAIN store.docs
    /\ requests' = requests + 1
    /\ jobs' = jobs \cup {[kind |-> kind, of |-> store, uri |-> u]}
    /\ UNCHANGED <<world, store, projects, job, todo, pc, session>>

-----------------------------------------------------------------------------
(* The worker.                                                             *)

\* What is left of the session that no later job may use: invalidate().
Fail ==
    /\ job' = NoJob /\ todo' = <<>> /\ pc' = "idle"
    /\ initialized' = FALSE
    /\ UNCHANGED <<world, owner, jobs, compiler, snapshot>>

\* Mutants: a failed session is used again, or one that missed a notice, or one
\* that a later job has already taken further.
MustRebuildUnlessUsed(s) ==
    \/ snapshot.filesystem # s.filesystem
    \/ snapshot.revision > s.revision

MustRebuildIgnoringFiles(s) ==
    \/ ~initialized
    \/ snapshot.revision > s.revision

MustRebuildIgnoringRevision(s) ==
    \/ ~initialized
    \/ snapshot.filesystem # s.filesystem

MustRebuild(s) ==
    \/ ~initialized
    \/ snapshot.filesystem # s.filesystem
    \/ snapshot.revision > s.revision

Ops(do, uris) == [i \in DOMAIN uris |-> [do |-> do, uri |-> uris[i]]]

\* What a session at `snapshot` has to do to get to s, in order: close what is
\* gone, latest update first, then replay what differs in update order.
Reconciliation(s) ==
    LET gone == DOMAIN snapshot.docs \ DOMAIN s.docs
        differs == {u \in DOMAIN s.docs :
                      u \in DOMAIN snapshot.docs => snapshot.docs[u] # s.docs[u]}
    IN  Ops("close", Reverse(InUpdateOrder(Restrict(snapshot.docs, gone))))
            \o Ops("update", InUpdateOrder(Restrict(s.docs, differs)))

\* A job is taken in any order: the dispatcher may overtake a job that found
\* the worker's queue full. The first checkpoint precedes everything else.
TakeJob(j) ==
    /\ pc = "idle"
    /\ job' = j /\ jobs' = jobs \ {j}
    /\ pc' = "sync"
    /\ IF MustRebuild(j.of)
       THEN /\ compiler' = EmptyCompiler(j.of.release)
            /\ todo' = Ops("open", InUpdateOrder(j.of.docs))
       ELSE /\ compiler' = [compiler EXCEPT !.release =
                                IF snapshot.release # j.of.release THEN j.of.release ELSE @]
            /\ todo' = Reconciliation(j.of)
    /\ UNCHANGED <<world, owner, snapshot, initialized>>

\* One document: a lifecycle that began anew is closed first.
SynchronizeOne ==
    /\ pc = "sync" /\ todo # <<>>
    /\ LET op == Head(todo)
           d == job.of.docs[op.uri]
           reopened == /\ op.do = "update"
                       /\ op.uri \in DOMAIN snapshot.docs
                       /\ snapshot.docs[op.uri].lifecycle # d.lifecycle
           before == IF reopened THEN Close(compiler, op.uri) ELSE compiler
       IN  compiler' = IF op.do = "close" THEN Close(compiler, op.uri)
                       ELSE OpenOrChange(before, op.uri, d)
    /\ todo' = Tail(todo)
    /\ UNCHANGED <<world, owner, jobs, job, pc, snapshot, initialized>>

AdoptSnapshot ==
    /\ pc = "sync" /\ todo = <<>>
    /\ snapshot' = job.of /\ initialized' = TRUE
    /\ pc' = "work"
    /\ UNCHANGED <<world, owner, jobs, job, todo, compiler>>

ProjectKnown(c) == \E u \in DOMAIN c.identities : c.identities[u].kind = "project"

\* The job's own work on the session, up to its answer.
Work ==
    /\ pc = "work"
    /\ pc' = "answer"
    /\ compiler' =
        CASE job.kind = "close" -> Close(compiler, job.uri)
          [] job.kind = "watch" -> FoldLeft(RefreshSource, compiler, SetToSeq(job.files))
          [] job.kind = "references" ->
                LET c == Synchronize(compiler, job.uri) IN
                IF Spells(c, job.uri, [kind |-> "project", file |-> FileOf[job.uri]])
                THEN SynchronizeFiles(c) ELSE c
          [] job.kind = "symbols" /\ compiler.synchronized /\ ProjectKnown(compiler) ->
                SynchronizeFiles(compiler)
          [] OTHER -> compiler
    /\ snapshot' = IF job.kind = "close" THEN job.after ELSE snapshot
    /\ UNCHANGED <<world, owner, jobs, job, todo, initialized>>

Answer ==
    /\ pc = "answer"
    /\ job' = NoJob /\ pc' = "idle"
    /\ UNCHANGED <<world, owner, jobs, todo, session>>

\* A checkpoint finds the token cancelled, the work fails or it panics.
GiveUp == pc # "idle" /\ Fail

Next ==
    \/ \E f \in Files, text \in 0 .. 2 : WriteFile(f, text)
    \/ \E state \in {"present", "absent", "broken"} : WriteManifest(state)
    \/ \E u \in Uris, version \in Versions : DidOpen(u, version)
    \/ \E u \in Uris : DidChange(u) \/ DidClose(u)
    \/ \E batch \in SUBSET untold : DidChangeWatchedFiles(batch)
    \/ DidChangeConfiguration
    \/ \E kind \in {"references", "symbols"}, u \in Uris : Request(kind, u)
    \/ \E j \in jobs : TakeJob(j)
    \/ SynchronizeOne
    \/ AdoptSnapshot
    \/ Work
    \/ Answer
    \/ GiveUp

Spec == Init /\ [][Next]_vars

-----------------------------------------------------------------------------
(* Properties.                                                             *)

\* The session that reconstruct() makes of a snapshot, from the files on disk.
Rebuilt(s) ==
    FoldLeft(LAMBDA c, u : OpenOrChange(c, u, s.docs[u]),
             EmptyCompiler(s.release), InUpdateOrder(s.docs))

\* What an analysis of the open documents can see of a session. Which of
\* several open spellings speaks for a module is left to AnswersFromSnapshot.
Visible(c) ==
    LET open == {c.identities[u] : u \in DOMAIN c.docs \cap DOMAIN c.identities}
        reached == {id \in DOMAIN c.sources :
                      \/ id \in open
                      \/ id.kind = "project" /\ \E o \in open : o.kind = "project"}
    IN  [documents |-> c.docs, errors |-> c.errors, release |-> c.release,
         names |-> Restrict(c.identities, DOMAIN c.docs \cap DOMAIN c.identities),
         sources |-> [id \in reached |->
            IF c.sources[id][1] = "disk" THEN c.sources[id] ELSE <<"overlay">>]]

SpellingsOf(c, id) == {v \in DOMAIN c.docs : Spells(c, v, id)}

\* The open modules, without those a broken manifest holds a spelling of.
OpenModules(c) ==
    {id \in {c.identities[u] : u \in DOMAIN c.docs \cap DOMAIN c.identities} :
        SpellingsOf(c, id) \cap c.errors = {}}

\* The job's snapshot is from after the last notice, and these had no change since.
TellsOf(S) == snapshot.filesystem = store.filesystem /\ untold \cap S = {}

IsMap(f, D, R) == DOMAIN f \subseteq D /\ f \in [DOMAIN f -> R]
Document == [update : Nat, lifecycle : Nat, version : Int]
Identity == [kind : {"project", "loose"}, file : Files]
Source == {"overlay", "disk"} \X Nat

IsStore(s) ==
    /\ s \in [docs : {s.docs}, revision : Nat, filesystem : Nat, release : BOOLEAN]
    /\ IsMap(s.docs, Uris, Document)

IsCompiler(c) ==
    /\ c \in [docs : {c.docs}, identities : {c.identities}, errors : SUBSET Uris,
              overlays : {c.overlays}, sources : {c.sources},
              synchronized : BOOLEAN, release : BOOLEAN]
    /\ IsMap(c.docs, Uris, Document) /\ IsMap(c.identities, Uris, Identity)
    /\ IsMap(c.overlays, Identity, Uris) /\ IsMap(c.sources, Identity, Source)

IsJob(j) ==
    /\ IsStore(j.of)
    /\ \/ j \in [kind : {"analyse"}, of : {j.of}]
       \/ j.kind = "close" /\ IsStore(j.after)
             /\ j \in [kind : {"close"}, of : {j.of}, uri : Uris, after : {j.after}]
       \/ j \in [kind : {"watch"}, of : {j.of}, files : SUBSET Files]
       \/ j \in [kind : {"references", "symbols"}, of : {j.of}, uri : Uris]

TypeOK ==
    /\ disk \in [Files -> 0 .. 2] /\ manifest \in {"present", "absent", "broken"}
    /\ changes \in 0 .. MaxDisk /\ untold \subseteq Files \cup {"manifest"}
    /\ IsStore(store) /\ projects \subseteq Files /\ requests \in 0 .. MaxRequests
    /\ \A j \in jobs : IsJob(j)
    /\ IF pc = "idle" THEN job = NoJob ELSE IsJob(job)
    /\ todo \in Seq([do : {"open", "update", "close"}, uri : Uris])
    /\ pc \in {"idle", "sync", "work", "answer"}
    /\ IsCompiler(compiler) /\ IsStore(snapshot) /\ initialized \in BOOLEAN

\* Whatever the worker did, failed at or was cancelled in before, it answers
\* from its job's documents and profile: an open module has the text that one of
\* its open spellings has now, never a closed, a former or a saved one - as long
\* as the server was told of the manifest.
AnswersFromSnapshot ==
    pc = "answer" =>
        /\ compiler.docs = snapshot.docs
        /\ compiler.release = snapshot.release
        /\ TellsOf({"manifest"}) => \A id \in OpenModules(compiler) :
              /\ id \in DOMAIN compiler.sources
              /\ \E v \in SpellingsOf(compiler, id) : compiler.sources[id] = Overlay(compiler, v)

\* When the server was told of every change on disk, a session that was
\* reconciled step by step sees the same projects, modules and files as one
\* rebuilt from the snapshot.
SessionMatchesRebuild ==
    pc = "answer" /\ TellsOf(Files \cup {"manifest"}) => Visible(compiler) = Visible(Rebuilt(snapshot))

\* Jobs overtake each other and share one session: of the open spellings of a file
\* the one that was updated last, in the snapshot of the job, is the module's text,
\* also when the session had been at a later snapshot before. References requests
\* and a third spelling are left out, for with them the code decides otherwise.
LastUpdateSpeaks ==
    pc = "answer" /\ requests = 0 /\ TellsOf({"manifest"})
    /\ (\A f \in Files : Cardinality({u \in Uris : FileOf[u] = f}) <= 2) =>
    \A id \in OpenModules(compiler) : \E v \in SpellingsOf(compiler, id) :
        /\ compiler.sources[id] = Overlay(compiler, v)
        /\ \A w \in SpellingsOf(compiler, id) : compiler.docs[w].update <= compiler.docs[v].update
=============================================================================

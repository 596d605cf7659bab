------------------------------ MODULE StateLoop ------------------------------
(***************************************************************************)
(* What the compiler emits for a state loop whose bindings are managed     *)
(* resources (crates/nymph-codegen/src/emit.rs, compile_state_loop and     *)
(* compile_state_transition), on top of the activation runtime.            *)
(*                                                                         *)
(* A cleanup is an arrow over slots of the frame, so what it closes is     *)
(* what its slot holds when it runs.  Every binding has a location of its  *)
(* own; every "continue" of the source has one temporary per binding,      *)
(* allocated when the loop is compiled and used again at each iteration.   *)
(*                                                                         *)
(* A resource is the number of the registration it was acquired for.       *)
(***************************************************************************)
EXTENDS ActivationRuntime

CONSTANTS
  Program,        \* the activation whose frame runs the loop
  Bindings,       \* number of managed bindings of the header
  Continues       \* the continue expressions: the distinct bindings each names, in its order

VARIABLES
  pc,          \* the compiled state the frame is in
  location,    \* binding -> the resource in its slot
  handle,      \* binding -> its registered cleanup
  value,       \* continue -> binding -> the resource in the temporary
  newHandle,   \* continue -> binding -> the cleanup in its temporary
  reads,       \* cleanup -> the slot its arrow reads
  closed       \* history: the resources closed, in order

loopVars == <<pc, location, handle, value, newHandle, reads, closed>>

Header == 1..Bindings
OuterDepth == 1
HeaderDepth == 2

At(state, site, next) == [at |-> state, site |-> site, next |-> next]

LoopInit ==
  /\ Init
  /\ pc = At("start", 0, 1)
  /\ location = [b \in Header |-> 0]
  /\ handle = [b \in Header |-> 0]
  /\ value = [s \in DOMAIN Continues |-> [b \in Header |-> 0]]
  /\ newHandle = [s \in DOMAIN Continues |-> [b \in Header |-> 0]]
  /\ reads = <<>>
  /\ closed = <<>>

SlotValue(slot) ==
  IF slot.site = 0 THEN location[slot.binding] ELSE value[slot.site][slot.binding]

(* Every cleanup the runtime ran in this step closed what its slot held. *)
CloseResources ==
  closed' = closed \o [k \in DOMAIN RanBy(Program) |-> SlotValue(reads[RanBy(Program)[k].id])]

(* Acquiring a resource stores it and registers an arrow over the slot.    *)
Acquire(site, b) ==
  /\ RegisterCleanup(Program)
  /\ reads' = Append(reads, [site |-> site, binding |-> b])
  /\ UNCHANGED closed

StartLoop ==
  /\ pc.at = "start"
  /\ IF status[Program] = "idle"
     THEN Activate(Program) /\ UNCHANGED pc
     ELSE EnterCleanupScope(Program) /\ pc' = At("initialize", 0, 1)
  /\ UNCHANGED <<location, handle, value, newHandle, reads, closed>>

InitializeBinding ==
  LET b == pc.next
  IN  /\ pc.at = "initialize"
      /\ Acquire(0, b)
      /\ location' = [location EXCEPT ![b] = opened'[Program]]
      /\ handle' = [handle EXCEPT ![b] = opened'[Program]]
      /\ pc' = IF b = Bindings THEN At("body", 0, 1) ELSE At("initialize", 0, b + 1)
      /\ UNCHANGED <<value, newHandle>>

(* continue(...): a scope for what is acquired, and a copy of all bindings *)
(* that the replacements overwrite one by one.                             *)
Snapshot(site) ==
  /\ pc.at = "body"
  /\ EnterCleanupScope(Program)
  /\ value' = [value EXCEPT ![site] = location]
  /\ pc' = At("evaluate", site, 1)
  /\ UNCHANGED <<location, handle, newHandle, reads, closed>>

EvaluateReplacement ==
  /\ pc.at = "evaluate"
  /\ pc.next <= Len(Continues[pc.site])
  /\ LET b == Continues[pc.site][pc.next]
     IN  /\ Acquire(pc.site, b)
         /\ value' = [value EXCEPT ![pc.site][b] = opened'[Program]]
         /\ newHandle' = [newHandle EXCEPT ![pc.site][b] = opened'[Program]]
  /\ pc' = At("evaluate", pc.site, pc.next + 1)
  /\ UNCHANGED <<location, handle>>

(* The managed bindings a continue names, in declaration order. *)
Managed(site) == SelectSeq([b \in Header |-> b], LAMBDA b : b \in ToSet(Continues[site]))

Commit ==
  LET site == pc.site
      managed == Managed(site)
  IN  /\ pc.at = "evaluate"
      /\ pc.next = Len(Continues[site]) + 1
      /\ CommitStateTransition(Program, HeaderDepth,
           [i \in DOMAIN managed |-> <<handle[managed[i]], newHandle[site][managed[i]]>>])
      /\ CloseResources
      /\ IF status'[Program] = "running"
         THEN /\ handle' = [b \in Header |->
                   IF b \in ToSet(managed) THEN newHandle[site][b] ELSE handle[b]]
              /\ location' = value[site]
              /\ pc' = At("body", 0, 1)
         ELSE /\ pc' = At("left", 0, 1)
              /\ UNCHANGED <<handle, location>>
      /\ UNCHANGED <<value, newHandle, reads>>

Break ==
  /\ pc.at = "body"
  /\ UnwindCleanupScopes(Program, OuterDepth)
  /\ CloseResources
  /\ pc' = At("left", 0, 1)
  /\ UNCHANGED <<location, handle, value, newHandle, reads>>

(* The body, an initializer or a replacement panics. *)
Panic ==
  /\ pc.at \in {"initialize", "body", "evaluate"}
  /\ Defect(Program)
  /\ CloseResources
  /\ pc' = At("left", 0, 1)
  /\ UNCHANGED <<location, handle, value, newHandle, reads>>

LoopNext ==
  \/ StartLoop
  \/ InitializeBinding
  \/ \E site \in DOMAIN Continues : Snapshot(site)
  \/ EvaluateReplacement
  \/ Commit
  \/ Break
  \/ Panic

LoopSpec == LoopInit /\ [][LoopNext]_<<vars, loopVars>>

-----------------------------------------------------------------------------

(* While the body runs, the resources of the bindings are open and every   *)
(* resource they held before is closed, once ("Replacing one acquires the  *)
(* new value, closes the old value before the next iteration begins, and   *)
(* manages the replacement thereafter", docs/design/async-model.md:216).   *)
StateIsManaged ==
  pc.at = "body" =>
    \A r \in 1..opened[Program] :
      Cardinality({i \in DOMAIN closed : closed[i] = r})
        = (IF \E b \in Header : location[b] = r THEN 0 ELSE 1)
=============================================================================

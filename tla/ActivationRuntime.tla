-------------------------- MODULE ActivationRuntime --------------------------
(***************************************************************************)
(* The activation driver of generated code                                 *)
(* (crates/nymph-codegen/src/activation_runtime.js): activations made of   *)
(* frames, the lexical cleanup scopes of each frame, suspension, and the   *)
(* unwinding of what is still registered when a call ends, replaces        *)
(* itself, fails or is cancelled.                                          *)
(*                                                                         *)
(* What the generated code of a frame does next is any operation its       *)
(* compiler can emit.  A cleanup is the call of one close(): it runs       *)
(* synchronously, and returns or throws (a cleanup that suspends throws,   *)
(* lines 215-217).  Values, local slots and resume states are left out:    *)
(* module StateLoop has the ones that matter to cleanups.                  *)
(***************************************************************************)
EXTENDS Integers, Sequences, SequencesExt, FiniteSets

CONSTANTS
  Activations,   \* activation objects
  MaxFrames,     \* activation -> bound on its frames
  MaxScopes,     \* bound: cleanup scopes of a frame
  MaxCleanups,   \* activation -> bound on its registrations
  NoActivation   \* nymphCurrentActivation = null

ASSUME ActivationAssumption ==
  /\ NoActivation \notin Activations
  /\ MaxFrames \in [Activations -> Nat \ {0}]
  /\ MaxScopes \in Nat \ {0}
  /\ MaxCleanups \in [Activations -> Nat]

VARIABLES
  frames,    \* activation -> its frames, each the sequence of its cleanup scopes
  status,    \* activation -> where it stands
  hosted,    \* activation -> whether it has an execution frame of the task runtime
  primary,   \* activation -> the defects its failure retains, in order
  current,   \* nymphCurrentActivation
  opened,    \* activation -> registrations so far; they are numbered in order
  log        \* history: activation -> its cleanups that ran, in order

vars == <<frames, status, hosted, primary, current, opened, log>>

Cleanup == [id : Nat \ {0}, throws : BOOLEAN]

(* The defect of an operation itself; cleanups throw their own number. *)
Own == 0

(* Why a cleanup ran: its scope was left, or it took part in a state       *)
(* transition as a body-local, replaced or newly acquired resource.        *)
Role == {"scope", "body", "replaced", "acquired"}

Init ==
  /\ frames = [a \in Activations |-> <<>>]
  /\ status = [a \in Activations |-> "idle"]
  /\ hosted = [a \in Activations |-> FALSE]
  /\ primary = [a \in Activations |-> <<>>]
  /\ current = NoActivation
  /\ opened = [a \in Activations |-> 0]
  /\ log = [a \in Activations |-> <<>>]

-----------------------------------------------------------------------------
(* Sequences of cleanups *)

NewFrame == << <<>> >>

(* The cleanups of the scopes above a depth, in registration order. *)
ScopesAbove(frame, depth) == FlattenSeq(SubSeq(frame, depth + 1, Len(frame)))

(* The order in which unwinding runs them. *)
\* Mutant: the cleanups of one scope run in registration order.
UnwindForward(frame, depth) == FlattenSeq(Reverse(SubSeq(frame, depth + 1, Len(frame))))
UnwindScopes(frame, depth) == Reverse(ScopesAbove(frame, depth))

(* The same for all frames, from the top one down. *)
UnwindActivation(stack) == Reverse(FlattenSeq(FlattenSeq(stack)))

(* indexOf of a cleanup in a sequence; 0 if it is not there. *)
Place(cleanups, id) == SelectInSeq(cleanups, LAMBDA c : c.id = id)

(* What the cleanups of a sequence throw, in order. *)
CleanupDefects(cleanups) ==
  FoldLeft(LAMBDA defects, c : IF c.throws THEN Append(defects, c.id) ELSE defects, <<>>, cleanups)

RunCleanups(cleanups, role) ==
  [i \in DOMAIN cleanups |->
     [id |-> cleanups[i].id, throws |-> cleanups[i].throws, role |-> role]]

-----------------------------------------------------------------------------
(* How a drive of activation a ends or goes on, once the cleanups of       *)
(* "ran" have run and "stack" is left.                                     *)

Continue(a, stack, ran) ==
  /\ frames' = [frames EXCEPT ![a] = stack]
  /\ log' = [log EXCEPT ![a] = @ \o ran]
  /\ UNCHANGED <<status, hosted, primary, current>>

Finish(a, ran) ==
  /\ frames' = [frames EXCEPT ![a] = <<>>]
  /\ status' = [status EXCEPT ![a] = "returned"]
  /\ current' = NoActivation
  /\ log' = [log EXCEPT ![a] = @ \o ran]
  /\ UNCHANGED <<hosted, primary>>

(* A defect of an activation that a task drives waits for the task to join *)
(* its children; any other one unwinds all frames at once.                 *)
ThrowActivationDefect(a, stack, ran, defects) ==
  LET rest == UnwindActivation(stack)
  IN  /\ current' = NoActivation
      /\ UNCHANGED hosted
      /\ \/ /\ hosted[a]
            /\ frames' = [frames EXCEPT ![a] = stack]
            /\ status' = [status EXCEPT ![a] = "pending"]
            /\ primary' = [primary EXCEPT ![a] = defects]
            /\ log' = [log EXCEPT ![a] = @ \o ran]
         \/ /\ ~hosted[a]
            /\ frames' = [frames EXCEPT ![a] = <<>>]
            /\ status' = [status EXCEPT ![a] = "defected"]
            /\ primary' = [primary EXCEPT ![a] = defects \o CleanupDefects(rest)]
            /\ log' = [log EXCEPT ![a] = @ \o ran \o RunCleanups(rest, "scope")]

-----------------------------------------------------------------------------
(* Operations of the generated code on its own frame *)

Running(a) == current = a /\ status[a] = "running"

RegisterCleanup(a) ==
  /\ Running(a)
  /\ opened[a] < MaxCleanups[a]
  /\ opened' = [opened EXCEPT ![a] = @ + 1]
  /\ \E throws \in BOOLEAN :
       LET frame == Last(frames[a])
           scope == Append(Last(frame), [id |-> opened'[a], throws |-> throws])
       IN  Continue(a, Append(Front(frames[a]), Append(Front(frame), scope)), <<>>)

EnterCleanupScope(a) ==
  /\ Running(a)
  /\ Len(Last(frames[a])) < MaxScopes
  /\ Continue(a, Append(Front(frames[a]), Append(Last(frames[a]), <<>>)), <<>>)
  /\ UNCHANGED opened

(* Leaving the innermost scope is the case depth = Len(frame) - 1.  The    *)
(* call throws into the generated code, which the driver catches.          *)
UnwindCleanupScopes(a, depth) ==
  /\ Running(a)
  /\ depth \in 1..(Len(Last(frames[a])) - 1)
  /\ LET frame == Last(frames[a])
         closing == UnwindScopes(frame, depth)
         stack == Append(Front(frames[a]), SubSeq(frame, 1, depth))
         ran == RunCleanups(closing, "scope")
         defects == CleanupDefects(closing)
     IN  IF defects = <<>> THEN Continue(a, stack, ran)
                           ELSE ThrowActivationDefect(a, stack, ran, defects)
  /\ UNCHANGED opened

(* The header scope once the new cleanups took the slots of the old ones,  *)
(* and once the old ones were spliced out of it.                           *)
\* Mutant: the new cleanups are appended to the header scope.
InstalledLast(header, acquired, pairs) ==
  SelectSeq(header, LAMBDA c : \A p \in ToSet(pairs) : p[1] # c.id) \o acquired
InstalledHeader(header, acquired, pairs) ==
  [s \in DOMAIN header |->
     LET new == {acquired[Place(acquired, p[2])] : p \in {p \in ToSet(pairs) : p[1] = header[s].id}}
     IN  IF new = {} THEN header[s] ELSE CHOOSE c \in new : TRUE]

\* Mutant: the failed transition leaves the old cleanups registered.
KeptUnspliced(header, pairs) == header
KeptHeader(header, pairs) ==
  FoldLeft(LAMBDA kept, c : IF c.id \in {p[1] : p \in ToSet(pairs)} THEN kept ELSE Append(kept, c),
           <<>>, header)

(* One iteration of a state loop gives way to the next: "pairs" names the  *)
(* replaced cleanups of the header scope with their replacements, which    *)
(* are what the innermost scope holds.  Body scopes close first, then the  *)
(* replaced cleanups from the last one; if any of them throws, the new     *)
(* ones close too and nothing is installed.                                *)
CommitStateTransition(a, depth, pairs) ==
  /\ Running(a)
  /\ Len(Last(frames[a])) > depth
  /\ LET frame == Last(frames[a])
         acquired == Last(frame)
         header == frame[depth]
         body == UnwindScopes(Front(frame), depth)
         olds == Reverse([i \in DOMAIN pairs |-> header[Place(header, pairs[i][1])]])
         news == Reverse(acquired)
         ran == RunCleanups(body, "body") \o RunCleanups(olds, "replaced")
         defects == CleanupDefects(body \o olds)
         Above(scope) == Append(Front(frames[a]), Append(SubSeq(frame, 1, depth - 1), scope))
     IN  IF defects = <<>>
         THEN Continue(a, Above(InstalledHeader(header, acquired, pairs)), ran)
         ELSE ThrowActivationDefect(a, Above(KeptHeader(header, pairs)),
                ran \o RunCleanups(news, "acquired"), defects \o CleanupDefects(news))
  /\ UNCHANGED opened

(* The pairs the compiler emits for a header scope: the replaced bindings  *)
(* in declaration order, each with the cleanup of its new value, which the *)
(* program acquired in an order of its own.                                *)
TransitionPairs(header, acquired) ==
  {p \in [DOMAIN acquired -> {<<h.id, n.id>> : h \in ToSet(header), n \in ToSet(acquired)}] :
     /\ \A i, j \in DOMAIN p : i < j => Place(header, p[i][1]) < Place(header, p[j][1])
     /\ \A i, j \in DOMAIN p : i # j => p[i][2] # p[j][2]}

StateTransition(a) ==
  \E depth \in 1..(MaxScopes - 1) :
    /\ Running(a)
    /\ Len(Last(frames[a])) > depth
    /\ Last(Last(frames[a])) # <<>>
    /\ \E pairs \in TransitionPairs(Last(frames[a])[depth], Last(Last(frames[a]))) :
         CommitStateTransition(a, depth, pairs)

-----------------------------------------------------------------------------
(* Terminals the driver interprets *)

PushCall(a) ==
  /\ Running(a)
  /\ Len(frames[a]) < MaxFrames[a]
  /\ Continue(a, Append(frames[a], NewFrame), <<>>)
  /\ UNCHANGED opened

(* A defect terminal, a step that throws, an external call or a suspended  *)
(* effect that throws: the frame is still on the stack.                    *)
Defect(a) ==
  /\ Running(a)
  /\ ThrowActivationDefect(a, frames[a], <<>>, <<Own>>)
  /\ UNCHANGED opened

(* A frame that ends leaves the stack before its cleanups run, and fails   *)
(* if one of them throws; what else happens comes after.                   *)
FrameDefects(a) == CleanupDefects(UnwindScopes(Last(frames[a]), 0))
FrameRan(a) == RunCleanups(UnwindScopes(Last(frames[a]), 0), "scope")

FrameFails(a) ==
  /\ Running(a)
  /\ FrameDefects(a) # <<>>
  /\ ThrowActivationDefect(a, Front(frames[a]), FrameRan(a), FrameDefects(a))
  /\ UNCHANGED opened

FrameCloses(a) ==
  /\ Running(a)
  /\ FrameDefects(a) = <<>>
  /\ UNCHANGED opened

(* Also a tail call of an external function, whose value is the frame's.   *)
Return(a) ==
  /\ FrameCloses(a)
  /\ IF Len(frames[a]) = 1 THEN Finish(a, FrameRan(a))
                           ELSE Continue(a, Front(frames[a]), FrameRan(a))

TailCall(a) ==
  /\ FrameCloses(a)
  /\ Continue(a, Append(Front(frames[a]), NewFrame), FrameRan(a))

TailCallThrows(a) ==
  /\ FrameCloses(a)
  /\ ThrowActivationDefect(a, Front(frames[a]), FrameRan(a), <<Own>>)

Suspend(a) ==
  /\ Running(a)
  /\ status' = [status EXCEPT ![a] = "suspended"]
  /\ current' = NoActivation
  /\ UNCHANGED <<frames, hosted, primary, opened, log>>

-----------------------------------------------------------------------------
(* Operations of the host *)

Activate(a) ==
  /\ current = NoActivation
  /\ status[a] = "idle"
  /\ \E execution \in BOOLEAN : hosted' = [hosted EXCEPT ![a] = execution]
  /\ frames' = [frames EXCEPT ![a] = <<NewFrame>>]
  /\ status' = [status EXCEPT ![a] = "running"]
  /\ current' = a
  /\ UNCHANGED <<primary, opened, log>>

(* A suspension is used up by the call, before the driver refuses to run   *)
(* inside another drive: what it retained is then out of reach.            *)
Resume(a) ==
  /\ status[a] = "suspended"
  /\ \/ /\ current = NoActivation
        /\ status' = [status EXCEPT ![a] = "running"]
        /\ current' = a
     \/ /\ current # NoActivation
        /\ status' = [status EXCEPT ![a] = "lost"]
        /\ UNCHANGED current
  /\ UNCHANGED <<frames, hosted, primary, opened, log>>

(* Both unwind every frame outside of a drive, after a first defect. *)
UnwindAll(a, first) ==
  LET closing == UnwindActivation(frames[a])
  IN  /\ frames' = [frames EXCEPT ![a] = <<>>]
      /\ status' = [status EXCEPT ![a] = "defected"]
      /\ primary' = [primary EXCEPT ![a] = first \o CleanupDefects(closing)]
      /\ log' = [log EXCEPT ![a] = @ \o RunCleanups(closing, "scope")]
      /\ UNCHANGED <<hosted, current, opened>>

Cancel(a) ==
  /\ status[a] = "suspended"
  /\ UnwindAll(a, <<Own>>)

\* Mutant: finalizing starts from no defect.
FinalizeForgets(a) ==
  /\ current = NoActivation
  /\ status[a] = "pending"
  /\ UnwindAll(a, <<>>)

(* The task runtime finalizes a pending defect in a promise reaction. *)
FinalizeDefect(a) ==
  /\ current = NoActivation
  /\ status[a] = "pending"
  /\ UnwindAll(a, primary[a])

-----------------------------------------------------------------------------

Next ==
  \E a \in Activations :
    \/ Activate(a)
    \/ RegisterCleanup(a)
    \/ EnterCleanupScope(a)
    \/ \E depth \in 1..MaxScopes : UnwindCleanupScopes(a, depth)
    \/ StateTransition(a)
    \/ PushCall(a)
    \/ Defect(a)
    \/ FrameFails(a)
    \/ Return(a)
    \/ TailCall(a)
    \/ TailCallThrows(a)
    \/ Suspend(a)
    \/ Resume(a)
    \/ Cancel(a)
    \/ FinalizeDefect(a)

Spec == Init /\ [][Next]_vars

-----------------------------------------------------------------------------
(* Properties *)

Status == {"idle", "running", "suspended", "pending", "returned", "defected", "lost"}

(* Frames hold scopes of numbered cleanups, and at most one activation is  *)
(* driven, the current one (nymphResumeActivation, lines 433-446).         *)
TypeOK ==
  /\ frames \in [Activations -> Seq(Seq(Seq(Cleanup)))]
  /\ status \in [Activations -> Status]
  /\ hosted \in [Activations -> BOOLEAN]
  /\ primary \in [Activations -> Seq(Nat)]
  /\ opened \in [Activations -> Nat]
  /\ log \in [Activations -> Seq([id : Nat \ {0}, throws : BOOLEAN, role : Role])]
  /\ \A a \in Activations : status[a] = "running" <=> current = a
  /\ current \in Activations \cup {NoActivation}

LiveCleanups(a) == FlattenSeq(FlattenSeq(frames[a]))

Occurrences(cleanups, id) == Cardinality({i \in DOMAIN cleanups : cleanups[i].id = id})

(* Every registration invokes its close once, on every path: it is         *)
(* registered in one place or ran once, never both nor twice, and nothing  *)
(* is registered on an activation that returned or failed                  *)
(* (docs/design/async-model.md:220, lines 237-304).                        *)
EveryCleanupClosesOnce ==
  \A a \in Activations :
    /\ \A id \in 1..opened[a] : Occurrences(log[a] \o LiveCleanups(a), id) = 1
    /\ status[a] \in {"returned", "defected"} => frames[a] = <<>>

(* What one step of activation a ran, in order. *)
RanBy(a) == SubSeq(log'[a], Len(log[a]) + 1, Len(log'[a]))

IdsOf(cleanups) == {cleanups[i].id : i \in DOMAIN cleanups}

\* Of what a step runs, nothing live before it is run under what was declared
\* after it, but for the exceptions below; frame is the one a transition acts on.
InReverse(before, ran, frame) ==
  \A k \in DOMAIN ran : \A j \in DOMAIN before :
    LET later == before[j].id
        place == Place(before, ran[k].id)
    IN  j > place =>
          \/ \E e \in 1..(k - 1) : ran[e].id = later
          \/ /\ ran[k].role \in {"body", "replaced"}
             /\ later \in IdsOf(Last(frame))
          \/ /\ ran[k].role = "replaced"
             /\ \E s \in ToSet(frame) : {ran[k].id, later} \subseteq IdsOf(s)
             /\ \A e \in DOMAIN ran : ran[e].id = later => ran[e].role # "replaced"

(* No resource closes while one declared after it is open, in any frame.   *)
(* The only exceptions are those of a state transition: it closes body and *)
(* replaced resources under what it has just acquired, and replaced ones   *)
(* under the header resources it keeps (docs/design/language-identity.md:  *)
(* 588-590 and 745).                                                       *)
ClosesInReverse ==
  [][\A a \in Activations : InReverse(LiveCleanups(a), RanBy(a), Last(frames[a]))]_vars

(* A cleanup that throws always fails its activation, and the failure      *)
(* keeps every defect: the first one, then those of the cleanups in the    *)
(* order they ran, across the pause of a pending defect (lines 230-249,    *)
(* 292-312; docs/design/async-model.md:229-232).                           *)
NoDefectSwallowed ==
  \A a \in Activations :
    LET thrown == CleanupDefects(log[a])
    IN  IF status[a] \in {"pending", "defected"}
        THEN primary[a] # <<>> /\ primary[a] \in {thrown, <<Own>> \o thrown}
        ELSE thrown = <<>>

\* ran is what a step runs in frame; stack is what it leaves of the activation.
AllOrNothing(ran, frame, stack, stands) ==
  LET olds == {ran[k].id : k \in {k \in DOMAIN ran : ran[k].role = "replaced"}}
      news == IdsOf(Last(frame))
      live == IdsOf(FlattenSeq(FlattenSeq(stack)))
      Header(id) == CHOOSE s \in ToSet(frame) : id \in IdsOf(s)
  IN  olds # {} =>
        /\ olds \cap live = {}
        /\ IF stands = "running"
           THEN /\ news \subseteq live
                /\ \A o \in olds : \E s \in ToSet(Last(stack)) :
                     /\ Len(s) = Len(Header(o))
                     /\ \A i \in DOMAIN s : IF Header(o)[i].id \in olds THEN s[i].id \in news
                                                                       ELSE s[i] = Header(o)[i]
           ELSE news \cap live = {} /\ news \subseteq IdsOf(ran)

(* A state transition that replaced something either goes on with every    *)
(* new resource registered in the place of an old one, or fails with every *)
(* old and new one closed (docs/design/async-model.md:216-218).            *)
TransitionIsAllOrNothing ==
  [][\A a \in Activations :
       AllOrNothing(RanBy(a), Last(frames[a]), frames'[a], status'[a])]_vars
=============================================================================

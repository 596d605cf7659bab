---------------------- MODULE ActivationRuntime_proofs ----------------------
(*****************************************************************************)
(* Safety of the activation driver, for any activations and any bounds on  *)
(* their frames, scopes and registrations: every variable has its type,    *)
(* every registered cleanup runs once, in the reverse order of its         *)
(* registration, a state transition is all or nothing, and no defect is    *)
(* lost.                                                                   *)
(*****************************************************************************)
EXTENDS ActivationCleanups_proofs

-----------------------------------------------------------------------------
(* The inductive invariant.                                                *)

Retained(st, defects, l) ==
    IF st \in {"pending", "defected"}
    THEN defects # <<>> /\ defects \in {CleanupDefects(l), <<Own>> \o CleanupDefects(l)}
    ELSE CleanupDefects(l) = <<>>

Shape(st, stack) ==
    /\ stack \in Stacks
    /\ st \in {"idle", "returned", "defected"} => stack = <<>>
    /\ st \in {"running", "suspended"} => stack # <<>>

Sound(st, stack, defects, l, n) ==
    /\ Shape(st, stack)
    /\ Once(l, LiveOf(stack), n)
    /\ Retained(st, defects, l)

IndInv ==
    /\ TypeOK
    /\ \A a \in Activations : Sound(status[a], frames[a], primary[a], log[a], opened[a])

-----------------------------------------------------------------------------
(* What a step does to the state of its activation.                        *)

\* A step that leaves the other activations alone.
LEMMA OneActivation ==
    ASSUME IndInv, NEW a \in Activations, NEW st \in Status, NEW stack \in Stacks,
           NEW h \in BOOLEAN, NEW defects \in Seq(Nat), NEW l \in Seq(Ran), NEW n \in Nat,
           frames' = [frames EXCEPT ![a] = stack], status' = [status EXCEPT ![a] = st],
           hosted' = [hosted EXCEPT ![a] = h], primary' = [primary EXCEPT ![a] = defects],
           log' = [log EXCEPT ![a] = l], opened' = [opened EXCEPT ![a] = n],
           current' \in {current, a, NoActivation},
           st = "running" <=> current' = a, current \notin {a, NoActivation} => current' = current,
           Sound(st, stack, defects, l, n)
    PROVE  IndInv'
<1>1. TypeOK
    BY DEF IndInv
<1>2. stack \in Seq(Seq(Seq(Cleanup)))
    BY StackIsFrames DEF Scopes
<1>3. /\ frames' \in [Activations -> Seq(Seq(Seq(Cleanup)))]
      /\ status' \in [Activations -> Status]
      /\ hosted' \in [Activations -> BOOLEAN]
      /\ primary' \in [Activations -> Seq(Nat)]
      /\ opened' \in [Activations -> Nat]
      /\ log' \in [Activations -> Seq(Ran)]
    BY <1>1, <1>2 DEF TypeOK, Ran
<1>4. /\ \A b \in Activations : status'[b] = "running" <=> current' = b
      /\ current' \in Activations \union {NoActivation}
    BY <1>1, ActivationAssumption DEF TypeOK
<1>5. TypeOK'
    BY <1>3, <1>4 DEF TypeOK, Ran
<1>6. ASSUME NEW b \in Activations
      PROVE  Sound(status[b], frames[b], primary[b], log[b], opened[b])'
  <2>1. CASE b = a
    <3>1. /\ status'[b] = st /\ frames'[b] = stack /\ primary'[b] = defects
          /\ log'[b] = l /\ opened'[b] = n
        BY <2>1, <1>1 DEF TypeOK
    <3>2. QED BY <3>1
  <2>2. CASE b # a
    <3>1. /\ status'[b] = status[b] /\ frames'[b] = frames[b] /\ primary'[b] = primary[b]
          /\ log'[b] = log[b] /\ opened'[b] = opened[b]
        BY <2>2, <1>1 DEF TypeOK
    <3>2. QED BY <3>1 DEF IndInv
  <2>3. QED BY <2>1, <2>2
<1>7. QED BY <1>5, <1>6 DEF IndInv

\* What the invariant says of one activation.
LEMMA OneSound ==
    ASSUME IndInv, NEW a \in Activations
    PROVE  /\ Shape(status[a], frames[a]) /\ Once(log[a], LiveOf(frames[a]), opened[a])
           /\ Retained(status[a], primary[a], log[a])
           /\ hosted[a] \in BOOLEAN /\ primary[a] \in Seq(Nat) /\ opened[a] \in Nat
           /\ log[a] \in Seq(Ran) /\ status[a] \in Status /\ frames[a] \in Stacks
           /\ status[a] = "running" <=> current = a
           /\ current \in Activations \union {NoActivation}
BY DEF IndInv, TypeOK, Sound, Shape, Ran

LEMMA RunningHas ==
    ASSUME IndInv, NEW a \in Activations, Running(a)
    PROVE  /\ frames[a] \in Stacks \ {<<>>} /\ CleanupDefects(log[a]) = <<>>
           /\ Front(frames[a]) \in Stacks /\ Last(frames[a]) \in Frames
           /\ Len(Front(frames[a])) = Len(frames[a]) - 1 /\ Len(frames[a]) \in Nat \ {0}
           /\ LiveOf(frames[a]) \in {LiveOf(Front(frames[a])) \o FlattenSeq(Last(frames[a]))}
<1>1. frames[a] \in Stacks \ {<<>>} /\ CleanupDefects(log[a]) = <<>>
    BY OneSound DEF Running, Shape, Retained
<1>2. QED BY <1>1, StackTop

LEMMA ContinueStep ==
    ASSUME IndInv, NEW a \in Activations, Running(a), NEW stack \in Stacks \ {<<>>},
           NEW ran \in Seq(Ran), CleanupDefects(ran) = <<>>, NEW n \in Nat,
           opened' = [opened EXCEPT ![a] = n], Once(log[a] \o ran, LiveOf(stack), n),
           Continue(a, stack, ran)
    PROVE  IndInv'
<1> DEFINE l == log[a] \o ran
<1>1. /\ hosted[a] \in BOOLEAN /\ primary[a] \in Seq(Nat) /\ log[a] \in Seq(Ran)
      /\ status[a] = "running" /\ current = a /\ TypeOK
    BY OneSound DEF Running, IndInv
<1>2. l \in Seq(Ran) /\ CleanupDefects(l) = <<>>
  <2>1. CleanupDefects(log[a]) = <<>>
      BY RunningHas
  <2>2. QED BY <2>1, <1>1, DefectsOfLog
<1>3. /\ frames' = [frames EXCEPT ![a] = stack] /\ status' = [status EXCEPT ![a] = "running"]
      /\ hosted' = [hosted EXCEPT ![a] = hosted[a]]
      /\ primary' = [primary EXCEPT ![a] = primary[a]]
      /\ log' = [log EXCEPT ![a] = l] /\ current' = current
    BY <1>1 DEF Continue, TypeOK
<1> HIDE DEF l
<1>4. Sound("running", stack, primary[a], l, n)
    BY <1>2 DEF Sound, Shape, Retained, l
<1>5. QED BY <1>1, <1>2, <1>3, <1>4, OneActivation DEF Status

\* Everything on the stack closes after a failure.
LEMMA AllUnwound ==
    ASSUME NEW l \in Seq(Ran), NEW stack \in Stacks, NEW n, Once(l, LiveOf(stack), n),
           NEW defects \in Seq(Nat), defects # <<>>,
           defects \in {CleanupDefects(l), <<Own>> \o CleanupDefects(l)},
           NEW rest, rest = UnwindActivation(stack)
    PROVE  /\ l \o RunCleanups(rest, "scope") \in Seq(Ran)
           /\ defects \o CleanupDefects(rest) \in Seq(Nat)
           /\ <<>> \in Stacks
           /\ Sound("defected", <<>>, defects \o CleanupDefects(rest),
                    l \o RunCleanups(rest, "scope"), n)
<1> DEFINE live == LiveOf(stack)
           ran == RunCleanups(rest, "scope")
           e == <<>>
           d == CleanupDefects(l)
           g == CleanupDefects(rest)
<1>1. live \in Seq(Cleanup)
    BY StackIsFrames DEF Scopes
<1>2. rest = Reverse(live)
    BY DEF UnwindActivation, LiveOf
<1>3. e \in Scopes /\ e \in Stacks /\ \A z \in Seq(Cleanup) : e \o z = z
    BY DEF Scopes, Stacks
<1>4. LiveOf(e) = e
    BY FlattenOne DEF LiveOf
<1> HIDE DEF live, e
<1>5. Once(l, e \o live, n)
    BY <1>1, <1>3, Zenon DEF live
<1>6. ran \in Seq(Ran) /\ Once(l \o ran, e, n)
  <2>1. live \in Scopes /\ "scope" \in Role
      BY <1>1 DEF Scopes, Role
  <2>2. QED BY <2>1, <1>2, <1>3, <1>5, OnceUnwound
<1>7. rest \in Seq(Cleanup) /\ CleanupDefects(ran) = g
  <2>1. rest \in Seq(Cleanup) /\ "scope" \in Role
      BY <1>1, <1>2, IdsReverse DEF Role
  <2>2. QED BY <2>1, DefectsRun
<1> HIDE DEF ran
<1>8. CleanupDefects(l \o ran) = d \o g /\ d \in Seq(Nat) /\ g \in Seq(Nat)
  <2>1. \A x \in Ran : x.id \in Nat
      BY DEF Ran
  <2>2. /\ CleanupDefects(l) \in Seq(Nat) /\ CleanupDefects(ran) \in Seq(Nat)
        /\ CleanupDefects(l \o ran) = CleanupDefects(l) \o CleanupDefects(ran)
      BY <2>1, <1>6, DefectsConcat
  <2>3. QED BY <2>2, <1>7, Zenon
<1> HIDE DEF d, g
<1>9. /\ defects \o g \in Seq(Nat) /\ defects \o g # <<>>
  <2>1. Len(defects \o g) = Len(defects) + Len(g) /\ defects \o g \in Seq(Nat)
        /\ Len(defects) \in Nat \ {0} /\ Len(g) \in Nat
      BY <1>8
  <2> DEFINE z == defects \o g
  <2> HIDE DEF z
  <2>2. Len(z) \in Nat \ {0} => z # <<>>
      OBVIOUS
  <2>3. Len(defects) + Len(g) \in Nat \ {0}
      BY <2>1
  <2>4. QED BY <2>1, <2>2, <2>3, Zenon DEF z
<1>10. defects \o g \in {d \o g, <<Own>> \o (d \o g)}
  <2>1. (<<Own>> \o d) \o g \in {<<Own>> \o (d \o g)}
    <3>1. <<Own>> \in Seq(Nat)
        BY DEF Own
    <3> DEFINE o == <<Own>>
    <3> HIDE DEF o
    <3>2. o \in Seq(Nat)
        BY <3>1 DEF o
    <3>3. (o \o d) \o g \in {o \o (d \o g)}
        BY <3>2, <1>8, ConcatGroups, Zenon
    <3>4. QED BY <3>3, Zenon DEF o
  <2>2. QED BY <2>1, Zenon DEF d
<1>11. Retained("defected", defects \o g, l \o ran)
    BY <1>8, <1>9, <1>10, Zenon DEF Retained
<1>12. l \o ran \in Seq(Ran)
    BY <1>6
<1>13. Shape("defected", e)
    BY <1>3 DEF Shape, e
<1>14. Sound("defected", e, defects \o g, l \o ran, n)
    BY <1>4, <1>6, <1>11, <1>13, Zenon DEF Sound
<1>15. QED BY <1>3, <1>9, <1>12, <1>14, Zenon DEF e, g, ran

LEMMA ThrowStep ==
    ASSUME IndInv, NEW a \in Activations, Running(a), NEW stack \in Stacks,
           NEW ran \in Seq(Ran), NEW defects \in Seq(Nat), defects # <<>>,
           defects \in {CleanupDefects(ran), <<Own>> \o CleanupDefects(ran)},
           UNCHANGED opened, Once(log[a] \o ran, LiveOf(stack), opened[a]),
           ThrowActivationDefect(a, stack, ran, defects)
    PROVE  IndInv'
<1> DEFINE l == log[a] \o ran
           n == opened[a]
           rest == UnwindActivation(stack)
<1>1. /\ hosted[a] \in BOOLEAN /\ log[a] \in Seq(Ran) /\ n \in Nat
      /\ status[a] = "running" /\ current = a /\ TypeOK
    BY OneSound DEF Running, IndInv
<1>2. l \in Seq(Ran) /\ CleanupDefects(l) = CleanupDefects(ran)
  <2>1. CleanupDefects(log[a]) = <<>>
      BY RunningHas
  <2>2. QED BY <2>1, <1>1, DefectsOfLog
<1>3. /\ opened' = [opened EXCEPT ![a] = n] /\ hosted' = [hosted EXCEPT ![a] = hosted[a]]
      /\ current' = NoActivation /\ NoActivation # a
    BY <1>1, ActivationAssumption DEF ThrowActivationDefect, TypeOK
<1>4. CASE hosted[a]
  <2>1. /\ frames' = [frames EXCEPT ![a] = stack] /\ status' = [status EXCEPT ![a] = "pending"]
        /\ primary' = [primary EXCEPT ![a] = defects] /\ log' = [log EXCEPT ![a] = l]
      BY <1>4, <1>1 DEF ThrowActivationDefect, TypeOK
  <2> HIDE DEF l, n
  <2>2. Retained("pending", defects, l)
      BY <1>2, Zenon DEF Retained
  <2>3. Shape("pending", stack)
      BY DEF Shape
  <2>4. Sound("pending", stack, defects, l, n)
      BY <2>2, <2>3, Zenon DEF Sound, l, n
  <2>5. QED BY <1>1, <1>2, <1>3, <2>1, <2>4, OneActivation DEF Status
<1>5. CASE ~hosted[a]
  <2> DEFINE m == l \o RunCleanups(rest, "scope")
             more == defects \o CleanupDefects(rest)
             e == <<>>
  <2>1. /\ frames' = [frames EXCEPT ![a] = e] /\ status' = [status EXCEPT ![a] = "defected"]
        /\ primary' = [primary EXCEPT ![a] = more] /\ log' = [log EXCEPT ![a] = m]
      BY <1>5, <1>1, Zenon DEF ThrowActivationDefect, TypeOK
  <2> HIDE DEF l, n, rest
  <2>2. defects \in {CleanupDefects(l), <<Own>> \o CleanupDefects(l)}
      BY <1>2, Zenon
  <2>3. Once(l, LiveOf(stack), n)
      BY Zenon DEF l, n
  <2>4. m \in Seq(Ran) /\ more \in Seq(Nat) /\ e \in Stacks /\ Sound("defected", e, more, m, n)
      BY <1>2, <2>2, <2>3, AllUnwound, Zenon DEF rest
  <2> HIDE DEF m, more, e
  <2>5. QED BY <1>1, <1>3, <2>1, <2>4, OneActivation DEF Status
<1>6. QED BY <1>4, <1>5

LEMMA UnwindStep ==
    ASSUME IndInv, NEW a \in Activations, status[a] \in {"suspended", "pending"},
           NEW first \in Seq(Nat), first # <<>>,
           first \in {CleanupDefects(log[a]), <<Own>> \o CleanupDefects(log[a])},
           UnwindAll(a, first)
    PROVE  IndInv'
<1> DEFINE n == opened[a]
           l == log[a]
           stack == frames[a]
           closing == UnwindActivation(stack)
           m == l \o RunCleanups(closing, "scope")
           more == first \o CleanupDefects(closing)
           e == <<>>
<1>1. /\ hosted[a] \in BOOLEAN /\ l \in Seq(Ran) /\ n \in Nat /\ stack \in Stacks
      /\ status[a] # "running" /\ current # a /\ TypeOK /\ Once(l, LiveOf(stack), n)
    BY OneSound DEF IndInv
<1>2. /\ frames' = [frames EXCEPT ![a] = e] /\ status' = [status EXCEPT ![a] = "defected"]
      /\ primary' = [primary EXCEPT ![a] = more] /\ log' = [log EXCEPT ![a] = m]
      /\ UNCHANGED <<hosted, current, opened>>
    BY <1>1, Zenon DEF UnwindAll, TypeOK
<1>3. opened' = [opened EXCEPT ![a] = n] /\ hosted' = [hosted EXCEPT ![a] = hosted[a]]
    BY <1>1, <1>2 DEF TypeOK
<1>4. m \in Seq(Ran) /\ more \in Seq(Nat) /\ e \in Stacks /\ Sound("defected", e, more, m, n)
    BY <1>1, AllUnwound, Zenon
<1> HIDE DEF n, l, stack, closing, m, more, e
<1>5. QED BY <1>1, <1>2, <1>3, <1>4, OneActivation DEF Status

-----------------------------------------------------------------------------
(* The operations that only touch the top frame.                           *)

LEMMA NothingRan ==
    ASSUME IndInv, NEW a \in Activations
    PROVE  /\ <<>> \in Seq(Ran) /\ CleanupDefects(<<>>) = <<>>
           /\ log[a] \o <<>> = log[a]
<1>1. log[a] \in Seq(Ran)
    BY OneSound
<1>2. log[a] \o <<>> = log[a]
    BY <1>1
<1>3. <<>> \in Seq(Ran)
    OBVIOUS
<1>4. QED BY <1>2, <1>3, DefectsNone, Zenon

LEMMA RegisterStep ==
    ASSUME IndInv, NEW a \in Activations, RegisterCleanup(a)
    PROVE  IndInv'
<1> DEFINE stack == Front(frames[a])
           frame == Last(frames[a])
           x == LiveOf(stack)
           y == FlattenSeq(Front(frame))
           z == Last(frame)
           n == opened[a] + 1
<1>1. Running(a) /\ opened[a] \in Nat /\ TypeOK /\ log[a] \in Seq(Ran)
    BY OneSound DEF RegisterCleanup, IndInv
<1>2. n \in Nat \ {0} /\ opened' = [opened EXCEPT ![a] = n] /\ opened'[a] = n
    BY <1>1 DEF RegisterCleanup, TypeOK
<1>3. PICK throws \in BOOLEAN :
          Continue(a, Append(stack, Append(Front(frame), Append(z, [id |-> n, throws |-> throws]))), <<>>)
    BY <1>2 DEF RegisterCleanup
<1>4. stack \in Stacks /\ frame \in Frames /\ LiveOf(frames[a]) \in {x \o FlattenSeq(frame)}
    BY <1>1, RunningHas
<1>5. Front(frame) \in Seq(Scopes) /\ z \in Scopes /\ y \in Scopes /\ FlattenSeq(frame) \in {y \o z}
    BY <1>4, FrameTop
<1>6. x \in Scopes
    BY <1>4, StackIsFrames
<1> DEFINE c == [id |-> n, throws |-> throws]
           one == <<c>>
           more == Append(z, c)
           new == Append(Front(frame), more)
           top == Append(stack, new)
           live == (x \o y) \o z
<1>7. c \in Cleanup /\ c.id = n
    BY <1>2 DEF Cleanup
<1> HIDE DEF stack, frame, x, y, z, n
<1>8. /\ more \in Scopes /\ one \in Scopes /\ more \in {z \o one}
      /\ IdsOf(one) = {n} /\ Distinct(one)
  <2>1. z \in Seq(Cleanup)
      BY <1>5 DEF Scopes
  <2> HIDE DEF c
  <2>2. more \in Scopes /\ one \in Scopes
      BY <2>1, <1>7 DEF Scopes
  <2>3. more = z \o one
      BY <2>1, <1>7
  <2>4. IdsOf(one) = {n} /\ Distinct(one)
      BY <1>7 DEF IdsOf, Distinct
  <2>5. QED BY <2>2, <2>3, <2>4, Zenon
<1> HIDE DEF c, one, more
<1>9. new \in Frames /\ FlattenSeq(new) \in {y \o more}
    BY <1>5, <1>8, FramePush DEF y
<1> HIDE DEF new
<1>10. top \in Stacks \ {<<>>} /\ LiveOf(top) \in {x \o FlattenSeq(new)}
    BY <1>4, <1>9, StackPush DEF x
<1> HIDE DEF top
<1>11. LiveOf(frames[a]) = live /\ LiveOf(top) = live \o one
  <2>1. LiveOf(frames[a]) = x \o (y \o z) /\ LiveOf(top) = x \o (y \o (z \o one))
      BY <1>4, <1>5, <1>8, <1>9, <1>10, Zenon
  <2>2. x \o (y \o z) \in {(x \o y) \o z} /\ x \o y \in Scopes
      BY <1>5, <1>6, ConcatThree, Zenon
  <2>3. y \o (z \o one) \in {(y \o z) \o one} /\ y \o z \in Scopes
      BY <1>5, <1>8, ConcatThree, Zenon
  <2>4. x \o ((y \o z) \o one) \in {(x \o (y \o z)) \o one}
      BY <2>3, <1>6, <1>8, ConcatThree, Zenon
  <2>5. QED BY <2>1, <2>2, <2>3, <2>4, Zenon
<1>12. live \in Scopes
    BY <1>5, <1>6, ConcatThree
<1> HIDE DEF live
<1>13. Once(log[a], live \o one, n)
  <2>1. Once(log[a], live, opened[a])
      BY <1>11, OneSound
  <2>2. live \in Seq(Cleanup) /\ one \in Seq(Cleanup)
      BY <1>8, <1>12 DEF Scopes
  <2>3. /\ IdsOf(live \o one) = IdsOf(live) \union {n}
        /\ Distinct(live) /\ n \notin IdsOf(live) => Distinct(live \o one)
      BY <2>2, <1>8, IdsConcat
  <2>4. 1 .. n = (1 .. opened[a]) \union {n} /\ n \notin 1 .. opened[a]
      BY <1>1 DEF n
  <2>5. QED BY <2>1, <2>3, <2>4 DEF Once
<1>14. Continue(a, top, <<>>)
    BY <1>3 DEF top, new, more, c
<1>15. Once(log[a] \o <<>>, LiveOf(top), n)
    BY <1>11, <1>13, NothingRan
<1>16. n \in Nat
    BY <1>2
<1> HIDE DEF top, one
<1>17. QED BY <1>1, <1>2, <1>10, <1>14, <1>15, <1>16, NothingRan, ContinueStep

LEMMA SameLive ==
    ASSUME IndInv, NEW a \in Activations, Running(a), NEW stack \in Stacks \ {<<>>},
           LiveOf(stack) = LiveOf(frames[a]), Continue(a, stack, <<>>), UNCHANGED opened
    PROVE  IndInv'
<1>1. /\ opened[a] \in Nat /\ opened' = [opened EXCEPT ![a] = opened[a]]
      /\ Once(log[a] \o <<>>, LiveOf(stack), opened[a])
    BY OneSound, NothingRan DEF IndInv, TypeOK
<1>2. QED BY <1>1, NothingRan, ContinueStep

LEMMA EnterStep ==
    ASSUME IndInv, NEW a \in Activations, EnterCleanupScope(a)
    PROVE  IndInv'
<1> DEFINE stack == Front(frames[a])
           frame == Last(frames[a])
           e == <<>>
           new == Append(frame, e)
           top == Append(stack, new)
<1>1. /\ Running(a) /\ stack \in Stacks /\ frame \in Frames
      /\ LiveOf(frames[a]) \in {LiveOf(stack) \o FlattenSeq(frame)}
    BY RunningHas DEF EnterCleanupScope
<1>2. frame \in Seq(Scopes) /\ e \in Scopes /\ \A z \in Scopes : z \o e = z
    BY <1>1 DEF Frames, Scopes
<1>3. Continue(a, top, <<>>) /\ UNCHANGED opened
    BY DEF EnterCleanupScope
<1> HIDE DEF stack, frame, e
<1>4. new \in Frames /\ FlattenSeq(frame) \in Scopes /\ FlattenSeq(new) \in {FlattenSeq(frame) \o e}
    BY <1>2, FramePush
<1> HIDE DEF new
<1>5. top \in Stacks \ {<<>>} /\ LiveOf(top) \in {LiveOf(stack) \o FlattenSeq(new)}
    BY <1>1, <1>4, StackPush
<1> HIDE DEF top
<1>6. LiveOf(top) = LiveOf(frames[a])
    BY <1>1, <1>2, <1>4, <1>5, Zenon
<1>7. QED BY <1>1, <1>3, <1>5, <1>6, SameLive

LEMMA NewFrameEmpty ==
    /\ NewFrame \in Frames /\ FlattenSeq(NewFrame) = <<>>
    /\ \A stack \in Stacks : /\ Append(stack, NewFrame) \in Stacks \ {<<>>}
                             /\ LiveOf(Append(stack, NewFrame)) = LiveOf(stack)
<1> DEFINE e == <<>>
           one == <<e>>
<1>1. e \in Scopes /\ e \in Seq(Cleanup)
    BY DEF Scopes
<1> HIDE DEF e
<1>2. one \in Seq(Scopes) /\ one # <<>>
    BY <1>1
<1>3. FlattenSeq(one) = e
    BY <1>1, FlattenOne
<1>4. NewFrame = one
    BY DEF NewFrame, e
<1> HIDE DEF one
<1>5. NewFrame \in Frames /\ FlattenSeq(NewFrame) = e
    BY <1>2, <1>3, <1>4 DEF Frames
<1>6. ASSUME NEW stack \in Stacks
      PROVE  /\ Append(stack, NewFrame) \in Stacks \ {<<>>}
             /\ LiveOf(Append(stack, NewFrame)) = LiveOf(stack)
  <2>1. LiveOf(stack) \in Seq(Cleanup)
      BY StackIsFrames DEF Scopes
  <2>2. LiveOf(stack) \o e = LiveOf(stack)
      BY <2>1 DEF e
  <2>3. /\ Append(stack, NewFrame) \in Stacks \ {<<>>}
        /\ LiveOf(Append(stack, NewFrame)) \in {LiveOf(stack) \o e}
      BY <1>5, StackPush
  <2>4. QED BY <2>2, <2>3, Zenon
<1>7. QED BY <1>5, <1>6 DEF e

LEMMA PushStep ==
    ASSUME IndInv, NEW a \in Activations, PushCall(a)
    PROVE  IndInv'
<1>1. /\ Running(a) /\ Continue(a, Append(frames[a], NewFrame), <<>>) /\ UNCHANGED opened
      /\ frames[a] \in Stacks
    BY OneSound DEF PushCall
<1>2. QED BY <1>1, NewFrameEmpty, SameLive

-----------------------------------------------------------------------------
(* The operations that close scopes.                                       *)

\* The scopes above a depth of the top frame move to the log.
LEMMA Closing ==
    ASSUME IndInv, NEW a \in Activations, Running(a), NEW d \in 0 .. Len(Last(frames[a])),
           NEW closing, closing = UnwindScopes(Last(frames[a]), d)
    PROVE  /\ RunCleanups(closing, "scope") \in Seq(Ran)
           /\ CleanupDefects(closing) \in Seq(Nat)
           /\ CleanupDefects(RunCleanups(closing, "scope")) = CleanupDefects(closing)
           /\ SubSeq(Last(frames[a]), 1, d) \in Seq(Scopes)
           /\ Len(SubSeq(Last(frames[a]), 1, d)) = d
           /\ Once(log[a] \o RunCleanups(closing, "scope"),
                   LiveOf(Front(frames[a])) \o FlattenSeq(SubSeq(Last(frames[a]), 1, d)), opened[a])
<1> DEFINE frame == Last(frames[a])
           x == LiveOf(Front(frames[a]))
           kept == SubSeq(frame, 1, d)
           y == FlattenSeq(kept)
           z == ScopesAbove(frame, d)
           l == log[a]
<1>1. /\ frame \in Seq(Scopes) /\ x \in Scopes /\ LiveOf(frames[a]) \in {x \o FlattenSeq(frame)}
      /\ d \in 0 .. Len(frame)
    BY RunningHas, StackIsFrames DEF Frames
<1>2. l \in Seq(Ran) /\ Once(l, LiveOf(frames[a]), opened[a])
    BY OneSound
<1>3. closing = Reverse(z)
    BY DEF UnwindScopes
<1> HIDE DEF frame, x, l
<1>4. kept \in Seq(Scopes) /\ Len(kept) = d /\ z \in Scopes /\ FlattenSeq(frame) \in {y \o z}
    BY <1>1, FrameParts
<1> HIDE DEF kept
<1>5. y \in Scopes
    BY <1>4, FlattenConcat DEF Scopes
<1> HIDE DEF y, z
<1>6. Once(l, (x \o y) \o z, opened[a])
  <2>1. x \o (y \o z) \in {(x \o y) \o z}
      BY <1>1, <1>4, <1>5, ConcatThree, Zenon
  <2>2. QED BY <2>1, <1>1, <1>2, <1>4, Zenon
<1>7. x \o y \in Scopes
    BY <1>1, <1>5, ConcatThree, Zenon
<1> DEFINE w == x \o y
           n == opened[a]
<1> HIDE DEF w, n
<1>8. "scope" \in Role /\ Once(l, w \o z, n) /\ w \in Scopes
    BY <1>6, <1>7, Zenon DEF Role, w, n
<1>9. RunCleanups(Reverse(z), "scope") \in Seq(Ran) /\ Once(l \o RunCleanups(Reverse(z), "scope"), w, n)
    BY <1>8, <1>2, <1>4, OnceUnwound
<1>10. Reverse(z) \in Seq(Cleanup)
    BY <1>4, IdsReverse DEF Scopes
<1>11. /\ CleanupDefects(Reverse(z)) \in Seq(Nat)
       /\ CleanupDefects(RunCleanups(Reverse(z), "scope")) = CleanupDefects(Reverse(z))
  <2>1. \A u \in Cleanup : u.id \in Nat
      BY DEF Cleanup
  <2>2. CleanupDefects(Reverse(z)) \in Seq(Nat)
      BY <2>1, <1>10, DefectsConcat
  <2>3. QED BY <2>2, <1>8, <1>10, DefectsRun
<1>12. QED BY <1>3, <1>4, <1>9, <1>11, Zenon DEF frame, x, kept, y, l, w, n

LEMMA UnwindScopesStep ==
    ASSUME IndInv, NEW a \in Activations, NEW depth, UnwindCleanupScopes(a, depth)
    PROVE  IndInv'
<1> DEFINE frame == Last(frames[a])
           closing == UnwindScopes(frame, depth)
           new == SubSeq(frame, 1, depth)
           stack == Append(Front(frames[a]), new)
           ran == RunCleanups(closing, "scope")
           defects == CleanupDefects(closing)
           l == log[a]
           n == opened[a]
<1>1. /\ Running(a) /\ depth \in 1 .. (Len(frame) - 1) /\ UNCHANGED opened
      /\ IF defects = <<>> THEN Continue(a, stack, ran)
                           ELSE ThrowActivationDefect(a, stack, ran, defects)
    BY DEF UnwindCleanupScopes
<1>2. Front(frames[a]) \in Stacks /\ Len(frame) \in Nat
    BY <1>1, RunningHas DEF Frames
<1>3. /\ ran \in Seq(Ran) /\ defects \in Seq(Nat) /\ CleanupDefects(ran) = defects
      /\ new \in Seq(Scopes) /\ Len(new) = depth
      /\ Once(l \o ran, LiveOf(Front(frames[a])) \o FlattenSeq(new), n)
  <2>1. depth \in 0 .. Len(frame)
      BY <1>1, <1>2
  <2>2. QED BY <2>1, <1>1, Closing
<1>4. n \in Nat /\ opened' = [opened EXCEPT ![a] = n]
    BY <1>1, OneSound DEF IndInv, TypeOK
<1> HIDE DEF frame, closing, new, ran, defects, l, n
<1>5. new \in Frames
    BY <1>1, <1>3 DEF Frames
<1> DEFINE x == LiveOf(Front(frames[a])) \o FlattenSeq(new)
<1> HIDE DEF x
<1>6. stack \in Stacks \ {<<>>} /\ LiveOf(stack) \in {x}
    BY <1>2, <1>5, StackPush DEF x
<1> HIDE DEF stack
<1>7. Once(l \o ran, LiveOf(stack), n)
    BY <1>3, <1>6, Zenon DEF x
<1>8. CASE defects = <<>>
    BY <1>1, <1>3, <1>4, <1>6, <1>7, <1>8, ContinueStep DEF l
<1>9. CASE defects # <<>>
  <2>1. defects \in {CleanupDefects(ran), <<Own>> \o CleanupDefects(ran)}
      BY <1>3, Zenon
  <2>2. QED BY <2>1, <1>1, <1>3, <1>6, <1>7, <1>9, ThrowStep DEF l, n
<1>10. QED BY <1>8, <1>9

\* The whole top frame moves to the log.
LEMMA FrameGone ==
    ASSUME IndInv, NEW a \in Activations, Running(a)
    PROVE  /\ FrameRan(a) \in Seq(Ran) /\ FrameDefects(a) \in Seq(Nat)
           /\ CleanupDefects(FrameRan(a)) = FrameDefects(a)
           /\ Front(frames[a]) \in Stacks /\ frames[a] \in Stacks \ {<<>>}
           /\ Once(log[a] \o FrameRan(a), LiveOf(Front(frames[a])), opened[a])
<1> DEFINE closing == UnwindScopes(Last(frames[a]), 0)
           x == LiveOf(Front(frames[a]))
           e == <<>>
<1>1. 0 \in 0 .. Len(Last(frames[a])) /\ Front(frames[a]) \in Stacks /\ frames[a] \in Stacks \ {<<>>}
    BY RunningHas DEF Frames
<1>2. /\ RunCleanups(closing, "scope") \in Seq(Ran)
      /\ CleanupDefects(closing) \in Seq(Nat)
      /\ CleanupDefects(RunCleanups(closing, "scope")) = CleanupDefects(closing)
      /\ SubSeq(Last(frames[a]), 1, 0) \in Seq(Scopes) /\ Len(SubSeq(Last(frames[a]), 1, 0)) = 0
      /\ Once(log[a] \o RunCleanups(closing, "scope"), x \o FlattenSeq(SubSeq(Last(frames[a]), 1, 0)), opened[a])
    BY <1>1, Closing, Zenon
<1>3. FlattenSeq(SubSeq(Last(frames[a]), 1, 0)) = e
  <2> DEFINE z == SubSeq(Last(frames[a]), 1, 0)
  <2>1. z \in Seq(Scopes) /\ Len(z) = 0
      BY <1>2
  <2> HIDE DEF z
  <2>2. z = e
      BY <2>1
  <2>3. QED BY <2>2, FlattenOne DEF z
<1>4. x \o e = x
  <2>1. x \in Seq(Cleanup)
      BY <1>1, StackIsFrames DEF Scopes
  <2>2. QED BY <2>1
<1> HIDE DEF e, x
<1>5. QED BY <1>1, <1>2, <1>3, <1>4, Zenon DEF FrameRan, FrameDefects, closing, x

LEMMA FrameFailsStep ==
    ASSUME IndInv, NEW a \in Activations, FrameFails(a)
    PROVE  IndInv'
<1>1. /\ Running(a) /\ FrameDefects(a) # <<>> /\ UNCHANGED opened
      /\ ThrowActivationDefect(a, Front(frames[a]), FrameRan(a), FrameDefects(a))
    BY DEF FrameFails
<1> DEFINE ran == FrameRan(a)
           defects == FrameDefects(a)
           stack == Front(frames[a])
<1>2. /\ ran \in Seq(Ran) /\ defects \in Seq(Nat) /\ CleanupDefects(ran) = defects
      /\ stack \in Stacks /\ Once(log[a] \o ran, LiveOf(stack), opened[a])
    BY <1>1, FrameGone
<1> HIDE DEF ran, defects, stack
<1>3. defects \in {CleanupDefects(ran), <<Own>> \o CleanupDefects(ran)}
    BY <1>2, Zenon
<1>4. QED BY <1>1, <1>2, <1>3, ThrowStep DEF ran, defects, stack

LEMMA ReturnStep ==
    ASSUME IndInv, NEW a \in Activations, Return(a)
    PROVE  IndInv'
<1> DEFINE ran == FrameRan(a)
           stack == Front(frames[a])
           n == opened[a]
           l == log[a] \o ran
           e == <<>>
<1>1. /\ Running(a) /\ FrameDefects(a) = <<>> /\ UNCHANGED opened
      /\ IF Len(frames[a]) = 1 THEN Finish(a, ran) ELSE Continue(a, stack, ran)
    BY DEF Return, FrameCloses
<1>2. /\ ran \in Seq(Ran) /\ CleanupDefects(ran) = <<>> /\ stack \in Stacks
      /\ Once(l, LiveOf(stack), n)
      /\ Len(stack) = Len(frames[a]) - 1 /\ Len(frames[a]) \in Nat \ {0}
    BY <1>1, FrameGone, RunningHas
<1>3. /\ n \in Nat /\ opened' = [opened EXCEPT ![a] = n] /\ log[a] \in Seq(Ran) /\ hosted[a] \in BOOLEAN
      /\ primary[a] \in Seq(Nat) /\ TypeOK /\ status[a] = "running" /\ current = a
    BY <1>1, OneSound DEF IndInv, TypeOK, Running
<1>4. CASE Len(frames[a]) # 1
  <2> HIDE DEF ran, stack, n
  <2>3. Len(stack) # 0
      BY <1>2, <1>4
  <2>4. stack # <<>>
      BY <2>3
  <2>5. Continue(a, stack, ran)
      BY <1>1, <1>4
  <2>1. stack \in Stacks \ {<<>>} /\ Continue(a, stack, ran)
      BY <1>2, <2>4, <2>5
  <2>2. QED BY <1>1, <1>2, <1>3, <2>1, ContinueStep
<1>5. CASE Len(frames[a]) = 1
  <2>1. stack = e /\ e \in Stacks
      BY <1>2, <1>5 DEF Stacks
  <2>2. /\ frames' = [frames EXCEPT ![a] = e] /\ status' = [status EXCEPT ![a] = "returned"]
        /\ current' = NoActivation /\ log' = [log EXCEPT ![a] = l]
        /\ hosted' = [hosted EXCEPT ![a] = hosted[a]]
        /\ primary' = [primary EXCEPT ![a] = primary[a]]
      BY <1>1, <1>3, <1>5 DEF Finish, TypeOK
  <2> HIDE DEF ran
  <2>3. l \in Seq(Ran) /\ CleanupDefects(l) = <<>>
    <3>1. CleanupDefects(log[a]) = <<>>
        BY <1>1, RunningHas
    <3>2. CleanupDefects(l) = CleanupDefects(ran) /\ l \in Seq(Ran)
        BY <3>1, <1>2, <1>3, DefectsOfLog
    <3>3. QED BY <3>2, <1>2, Zenon
  <2> HIDE DEF stack, n, l
  <2>4. Sound("returned", e, primary[a], l, n)
      BY <1>2, <2>1, <2>3 DEF Sound, Shape, Retained
  <2> HIDE DEF e
  <2>5. NoActivation # a
      BY ActivationAssumption
  <2>6. QED BY <1>3, <2>1, <2>2, <2>3, <2>4, <2>5, OneActivation DEF Status
<1>6. QED BY <1>4, <1>5

LEMMA TailCallStep ==
    ASSUME IndInv, NEW a \in Activations, TailCall(a)
    PROVE  IndInv'
<1> DEFINE ran == FrameRan(a)
           stack == Front(frames[a])
           top == Append(stack, NewFrame)
           n == opened[a]
<1>1. /\ Running(a) /\ FrameDefects(a) = <<>> /\ UNCHANGED opened /\ Continue(a, top, ran)
    BY DEF TailCall, FrameCloses
<1>2. /\ ran \in Seq(Ran) /\ CleanupDefects(ran) = <<>> /\ stack \in Stacks
      /\ Once(log[a] \o ran, LiveOf(stack), n)
    BY <1>1, FrameGone
<1>3. n \in Nat /\ opened' = [opened EXCEPT ![a] = n]
    BY <1>1, OneSound DEF IndInv, TypeOK
<1> HIDE DEF ran, stack, n
<1>4. top \in Stacks \ {<<>>} /\ LiveOf(top) = LiveOf(stack)
    BY <1>2, NewFrameEmpty
<1> HIDE DEF top
<1>5. Once(log[a] \o ran, LiveOf(top), n)
    BY <1>2, <1>4, Zenon
<1>6. QED BY <1>1, <1>2, <1>3, <1>4, <1>5, ContinueStep

LEMMA TailCallThrowsStep ==
    ASSUME IndInv, NEW a \in Activations, TailCallThrows(a)
    PROVE  IndInv'
<1> DEFINE ran == FrameRan(a)
           stack == Front(frames[a])
           defects == <<Own>>
           e == <<>>
<1>1. /\ Running(a) /\ FrameDefects(a) = e /\ UNCHANGED opened
      /\ ThrowActivationDefect(a, stack, ran, defects)
    BY DEF TailCallThrows, FrameCloses
<1>2. /\ ran \in Seq(Ran) /\ CleanupDefects(ran) = e /\ stack \in Stacks
      /\ Once(log[a] \o ran, LiveOf(stack), opened[a])
    BY <1>1, FrameGone
<1>3. defects \in Seq(Nat) /\ defects # <<>> /\ defects \o e = defects
    BY DEF Own
<1> HIDE DEF ran, stack, e
<1>4. defects \in {CleanupDefects(ran), <<Own>> \o CleanupDefects(ran)}
    BY <1>2, <1>3, Zenon
<1> HIDE DEF defects
<1>5. QED BY <1>1, <1>2, <1>3, <1>4, ThrowStep

LEMMA DefectStep ==
    ASSUME IndInv, NEW a \in Activations, Defect(a)
    PROVE  IndInv'
<1> DEFINE stack == frames[a]
           defects == <<Own>>
           e == <<>>
<1>1. Running(a) /\ UNCHANGED opened /\ ThrowActivationDefect(a, stack, e, defects)
    BY DEF Defect
<1>2. stack \in Stacks /\ Once(log[a] \o e, LiveOf(stack), opened[a])
    BY OneSound, NothingRan
<1>3. e \in Seq(Ran) /\ CleanupDefects(e) = e
    BY NothingRan
<1>4. defects \in Seq(Nat) /\ defects # <<>> /\ defects \o e = defects
    BY DEF Own
<1> HIDE DEF stack, e
<1>5. defects \in {CleanupDefects(e), <<Own>> \o CleanupDefects(e)}
    BY <1>3, <1>4, Zenon
<1> HIDE DEF defects
<1>6. QED BY <1>1, <1>2, <1>3, <1>4, <1>5, ThrowStep

-----------------------------------------------------------------------------
(* The operations that close nothing, and those of the host.               *)

LEMMA SuspendStep ==
    ASSUME IndInv, NEW a \in Activations, Suspend(a)
    PROVE  IndInv'
<1>1. TypeOK /\ status[a] = "running" /\ current = a
    BY DEF IndInv, Suspend, Running
<1>2. /\ frames' = [frames EXCEPT ![a] = frames[a]] /\ status' = [status EXCEPT ![a] = "suspended"]
      /\ hosted' = [hosted EXCEPT ![a] = hosted[a]] /\ primary' = [primary EXCEPT ![a] = primary[a]]
      /\ log' = [log EXCEPT ![a] = log[a]] /\ opened' = [opened EXCEPT ![a] = opened[a]]
      /\ current' = NoActivation
    BY <1>1 DEF Suspend, TypeOK
<1>3. Sound("suspended", frames[a], primary[a], log[a], opened[a])
    BY <1>1, OneSound DEF Sound, Shape, Retained
<1>4. /\ frames[a] \in Stacks /\ hosted[a] \in BOOLEAN /\ primary[a] \in Seq(Nat)
      /\ log[a] \in Seq(Ran) /\ opened[a] \in Nat /\ NoActivation # a
    BY OneSound, ActivationAssumption
<1>5. QED BY <1>1, <1>2, <1>3, <1>4, OneActivation DEF Status

LEMMA ActivateStep ==
    ASSUME IndInv, NEW a \in Activations, Activate(a)
    PROVE  IndInv'
<1> DEFINE e == <<>>
           stack == <<NewFrame>>
<1>1. TypeOK /\ status[a] = "idle" /\ current = NoActivation
    BY DEF IndInv, Activate
<1>2. PICK h \in BOOLEAN : hosted' = [hosted EXCEPT ![a] = h]
    BY DEF Activate
<1>3. /\ frames' = [frames EXCEPT ![a] = stack] /\ status' = [status EXCEPT ![a] = "running"]
      /\ primary' = [primary EXCEPT ![a] = primary[a]]
      /\ log' = [log EXCEPT ![a] = log[a]] /\ opened' = [opened EXCEPT ![a] = opened[a]]
      /\ current' = a
    BY <1>1 DEF Activate, TypeOK
<1>4. e \in Stacks /\ stack = Append(e, NewFrame) /\ frames[a] = e
    BY <1>1, OneSound DEF Shape, Stacks
<1> HIDE DEF e, stack
<1>5. stack \in Stacks /\ stack # <<>> /\ LiveOf(stack) = LiveOf(frames[a])
    BY <1>4, NewFrameEmpty
<1>6. Sound("running", stack, primary[a], log[a], opened[a])
    BY <1>1, <1>5, OneSound DEF Sound, Shape, Retained
<1>7. /\ frames[a] \in Stacks /\ hosted[a] \in BOOLEAN /\ primary[a] \in Seq(Nat)
      /\ log[a] \in Seq(Ran) /\ opened[a] \in Nat /\ NoActivation # a
    BY OneSound, ActivationAssumption
<1>8. QED BY <1>1, <1>2, <1>3, <1>5, <1>6, <1>7, OneActivation DEF Status

LEMMA ResumeStep ==
    ASSUME IndInv, NEW a \in Activations, Resume(a)
    PROVE  IndInv'
<1> DEFINE st == status'[a]
<1>1. TypeOK /\ status[a] = "suspended"
    BY DEF IndInv, Resume
<1>2. /\ frames' = [frames EXCEPT ![a] = frames[a]] /\ status' = [status EXCEPT ![a] = st]
      /\ hosted' = [hosted EXCEPT ![a] = hosted[a]] /\ primary' = [primary EXCEPT ![a] = primary[a]]
      /\ log' = [log EXCEPT ![a] = log[a]] /\ opened' = [opened EXCEPT ![a] = opened[a]]
      /\ \/ st = "running" /\ current = NoActivation /\ current' = a
         \/ st = "lost" /\ current # NoActivation /\ current' = current
    BY <1>1 DEF Resume, TypeOK
<1>3. current # a
    BY <1>1, OneSound
<1> HIDE DEF st
<1>4. Sound(st, frames[a], primary[a], log[a], opened[a])
    BY <1>1, <1>2, OneSound DEF Sound, Shape, Retained
<1>5. /\ frames[a] \in Stacks /\ hosted[a] \in BOOLEAN /\ primary[a] \in Seq(Nat)
      /\ log[a] \in Seq(Ran) /\ opened[a] \in Nat
    BY OneSound
<1>6. NoActivation # a
    BY ActivationAssumption
<1>7. st \in Status /\ current' \in {current, a, NoActivation}
      /\ (st = "running" <=> current' = a)
      /\ (current \notin {a, NoActivation} => current' = current)
    BY <1>2, <1>3, <1>6 DEF Status
<1>8. QED BY <1>2, <1>4, <1>5, <1>7, OneActivation

LEMMA CancelStep ==
    ASSUME IndInv, NEW a \in Activations, Cancel(a)
    PROVE  IndInv'
<1> DEFINE first == <<Own>>
           e == <<>>
<1>1. status[a] = "suspended" /\ UnwindAll(a, first)
    BY DEF Cancel
<1>2. CleanupDefects(log[a]) = e
    BY <1>1, OneSound DEF Retained
<1>3. first \in Seq(Nat) /\ first # <<>> /\ first \o e = first
    BY DEF Own
<1> HIDE DEF e
<1>4. first \in {CleanupDefects(log[a]), <<Own>> \o CleanupDefects(log[a])}
    BY <1>2, <1>3, Zenon
<1> HIDE DEF first
<1>5. QED BY <1>1, <1>3, <1>4, UnwindStep

LEMMA FinalizeStep ==
    ASSUME IndInv, NEW a \in Activations, FinalizeDefect(a)
    PROVE  IndInv'
<1> DEFINE first == primary[a]
<1>1. status[a] = "pending" /\ UnwindAll(a, first)
    BY DEF FinalizeDefect
<1>2. /\ first \in Seq(Nat) /\ first # <<>>
      /\ first \in {CleanupDefects(log[a]), <<Own>> \o CleanupDefects(log[a])}
    BY <1>1, OneSound DEF Retained
<1> HIDE DEF first
<1>3. QED BY <1>1, <1>2, UnwindStep

-----------------------------------------------------------------------------
(* The order of closing.                                                   *)

\* What a step of an activation does to the order of its cleanups, and a
\* state transition to those that take part in it.
InOrder(a) ==
    /\ InReverse(LiveOf(frames[a]), RanBy(a), Last(frames[a]))
    /\ AllOrNothing(RanBy(a), Last(frames[a]), frames'[a], status'[a])

LEMMA OrderlyStep ==
    ASSUME IndInv, IndInv', NEW a \in Activations, NEW ran \in Seq(Ran),
           log'[a] \in {log[a] \o ran}, Orderly(LiveOf(frames[a]), ran, Last(frames[a])),
           AllOrNothing(ran, Last(frames[a]), frames'[a], status'[a])
    PROVE  InOrder(a)
<1> DEFINE before == LiveOf(frames[a])
           f == Last(frames[a])
           l == log[a]
<1>1. l \in Seq(Ran) /\ before \in Seq(Cleanup)
    BY OneSound, StackIsFrames DEF Scopes
<1>2. Distinct(log'[a])
    BY DEF IndInv, Sound, Once
<1> HIDE DEF f, l, before
<1>3. log'[a] = l \o ran
    BY Zenon DEF l
<1>4. RanBy(a) = ran
    BY <1>1, <1>3, RanSuffix, Zenon DEF RanBy, l
<1>5. Distinct(ran)
  <2>1. Distinct(l \o ran)
      BY <1>2, <1>3, Zenon
  <2>2. QED BY <2>1, <1>1, IdsConcat
<1>6. InReverse(before, ran, f)
    BY <1>1, <1>5, OrderlyCloses DEF before, f
<1>7. QED BY <1>4, <1>6, Zenon DEF InOrder, before, f

\* A step that unwinds the end of what is live.
LEMMA UnwindsEnd ==
    ASSUME IndInv, IndInv', NEW a \in Activations, NEW p \in Scopes, NEW q \in Scopes,
           LiveOf(frames[a]) \in {p \o q},
           log'[a] \in {log[a] \o RunCleanups(Reverse(q), "scope")}
    PROVE  InOrder(a)
<1> DEFINE ran == RunCleanups(Reverse(q), "scope")
           before == LiveOf(frames[a])
           f == Last(frames[a])
<1>1. /\ ran \in Seq(Ran) /\ IdsOf(ran) = IdsOf(q)
      /\ RanAs(ran, "replaced") = {} /\ RanAs(ran, "body") = {}
      /\ \A x, y : Before(q, x, y) => Before(ran, y, x)
  <2> DEFINE role == "scope"
  <2>1. role \in Role /\ role # "replaced" /\ role # "body"
      BY DEF Role
  <2> HIDE DEF role
  <2>2. /\ RunCleanups(Reverse(q), role) \in Seq(Ran)
        /\ IdsOf(RunCleanups(Reverse(q), role)) = IdsOf(q)
        /\ \A other : other # role => RanAs(RunCleanups(Reverse(q), role), other) = {}
        /\ \A x, y : Before(q, x, y) => Before(RunCleanups(Reverse(q), role), y, x)
      BY <2>1, RunAlone
  <2>3. QED BY <2>1, <2>2 DEF role
<1>2. log'[a] \in {log[a] \o ran}
    BY Zenon
<1> HIDE DEF ran, f
<1>3. Distinct(before)
    BY OneSound DEF Once
<1>4. Orderly(before, ran, f)
  <2>1. /\ Distinct(p \o q) /\ p \in Seq(Cleanup) /\ q \in Seq(Cleanup)
        /\ before = p \o q
      BY <1>3 DEF Scopes
  <2> HIDE DEF before
  <2>2. /\ IdsOf(p) \intersect IdsOf(q) = {} /\ IdsOf(before) = IdsOf(p) \union IdsOf(q)
      BY <2>1, IdsConcat
  <2>3. \A x, y : Before(before, x, y) =>
          Before(p, x, y) \/ Before(q, x, y) \/ (x \in IdsOf(p) /\ y \in IdsOf(q))
      BY <2>1, BeforeConcat
  <2>4. \A x, y : Before(p, x, y) => x \in IdsOf(p)
      BY DEF Before, IdsOf
  <2>5. QED BY <2>2, <2>3, <2>4, <1>1 DEF Orderly
<1>5. AllOrNothing(ran, f, frames'[a], status'[a])
    BY <1>1, Zenon DEF AllOrNothing, RanAs
<1>6. QED BY <1>1, <1>2, <1>4, <1>5, OrderlyStep, Zenon DEF before, f

\* A step that runs nothing.
LEMMA RunsNothing ==
    ASSUME IndInv, IndInv', NEW a \in Activations, log'[a] = log[a]
    PROVE  InOrder(a)
<1> DEFINE e == <<>>
           live == LiveOf(frames[a])
           l == log[a]
<1>1. l \in Seq(Ran) /\ live \in Scopes
    BY OneSound, StackIsFrames
<1>2. e \in Scopes /\ live \o e = live
    BY <1>1 DEF Scopes
<1>3. RunCleanups(Reverse(e), "scope") = e
    BY EmptyRun
<1>4. l \o e = l
    BY <1>1
<1> HIDE DEF e, live, l
<1>5. live \in {live \o e} /\ log'[a] \in {l \o RunCleanups(Reverse(e), "scope")}
    BY <1>2, <1>3, <1>4, Zenon DEF l
<1>6. QED BY <1>1, <1>2, <1>5, UnwindsEnd DEF live, l

\* A failure that unwinds what it left goes on with the order of the rest.
LEMMA ThrowUnwindsEnd ==
    ASSUME IndInv, IndInv', NEW a \in Activations, NEW stack \in Stacks, NEW q \in Scopes,
           LiveOf(frames[a]) \in {LiveOf(stack) \o q}, NEW defects,
           NEW ran, ran = RunCleanups(Reverse(q), "scope"),
           ThrowActivationDefect(a, stack, ran, defects)
    PROVE  InOrder(a)
<1> DEFINE p == LiveOf(stack)
           l == log[a]
           rest == UnwindActivation(stack)
<1>1. p \in Scopes /\ l \in Seq(Ran) /\ log \in [Activations -> Seq(Ran)]
    BY OneSound, StackIsFrames DEF IndInv, TypeOK, Ran
<1>2. rest = Reverse(p)
    BY DEF UnwindActivation, LiveOf
<1>3. CASE hosted[a]
  <2>1. log'[a] = l \o ran
      BY <1>1, <1>3 DEF ThrowActivationDefect
  <2>2. log'[a] \in {l \o RunCleanups(Reverse(q), "scope")}
      BY <2>1, Zenon
  <2> HIDE DEF p, l
  <2>3. QED BY <2>2, <1>1, UnwindsEnd DEF p, l
<1>4. CASE ~hosted[a]
  <2> DEFINE z == p \o q
             e == <<>>
  <2>1. log'[a] = (l \o ran) \o RunCleanups(Reverse(p), "scope")
      BY <1>1, <1>2, <1>4, Zenon DEF ThrowActivationDefect
  <2>2. ran \o RunCleanups(Reverse(p), "scope") \in {RunCleanups(Reverse(z), "scope")}
      BY <1>1, RunConcat, Zenon
  <2>3. e \in Scopes /\ z \in Scopes /\ e \o z = z
      BY <1>1 DEF Scopes
  <2>4. (l \o ran) \o RunCleanups(Reverse(p), "scope") \in {l \o RunCleanups(Reverse(z), "scope")}
    <3>1. ran \in Seq(Ran) /\ RunCleanups(Reverse(p), "scope") \in Seq(Ran)
      <4>1. Reverse(p) \in Seq(Cleanup) /\ Reverse(q) \in Seq(Cleanup)
          BY <1>1, IdsReverse DEF Scopes
      <4>2. QED BY <4>1, DefectsRun DEF Role
    <3> DEFINE r == RunCleanups(Reverse(p), "scope")
    <3> HIDE DEF r, l
    <3>2. (l \o ran) \o r = l \o (ran \o r)
        BY <3>1, <1>1, ConcatAssociative DEF r
    <3>3. QED BY <3>2, <2>2, Zenon DEF r
  <2>5. LiveOf(frames[a]) \in {e \o z} /\ log'[a] \in {l \o RunCleanups(Reverse(z), "scope")}
      BY <2>1, <2>3, <2>4, Zenon
  <2> HIDE DEF z, e, l
  <2>6. QED BY <2>3, <2>5, UnwindsEnd DEF l
<1>5. QED BY <1>3, <1>4

\* The scopes above a depth of the top frame are the end of what is live.
LEMMA ClosingEnd ==
    ASSUME IndInv, NEW a \in Activations, Running(a), NEW d \in 0 .. Len(Last(frames[a]))
    PROVE  /\ ScopesAbove(Last(frames[a]), d) \in Scopes
           /\ SubSeq(Last(frames[a]), 1, d) \in Seq(Scopes) /\ Len(SubSeq(Last(frames[a]), 1, d)) = d
           /\ LiveOf(Front(frames[a])) \o FlattenSeq(SubSeq(Last(frames[a]), 1, d)) \in Scopes
           /\ LiveOf(frames[a]) \in
                {(LiveOf(Front(frames[a])) \o FlattenSeq(SubSeq(Last(frames[a]), 1, d)))
                   \o ScopesAbove(Last(frames[a]), d)}
<1> DEFINE frame == Last(frames[a])
           x == LiveOf(Front(frames[a]))
           kept == SubSeq(frame, 1, d)
           y == FlattenSeq(kept)
           z == ScopesAbove(frame, d)
<1>1. /\ frame \in Seq(Scopes) /\ x \in Scopes /\ LiveOf(frames[a]) \in {x \o FlattenSeq(frame)}
      /\ d \in 0 .. Len(frame)
    BY RunningHas, StackIsFrames DEF Frames
<1> HIDE DEF frame, x
<1>2. kept \in Seq(Scopes) /\ Len(kept) = d /\ z \in Scopes /\ FlattenSeq(frame) \in {y \o z}
    BY <1>1, FrameParts
<1> HIDE DEF kept
<1>3. y \in Scopes
    BY <1>2, FlattenConcat DEF Scopes
<1> HIDE DEF y, z
<1>4. x \o y \in Scopes /\ x \o (y \o z) \in {(x \o y) \o z}
    BY <1>1, <1>2, <1>3, ConcatThree, Zenon
<1>5. QED BY <1>1, <1>2, <1>4, Zenon DEF frame, x, kept, y, z

\* The top frame is the end of what is live.
LEMMA FrameEnd ==
    ASSUME IndInv, NEW a \in Activations, Running(a)
    PROVE  /\ ScopesAbove(Last(frames[a]), 0) \in Scopes
           /\ Front(frames[a]) \in Stacks /\ LiveOf(Front(frames[a])) \in Scopes
           /\ LiveOf(frames[a]) \in {LiveOf(Front(frames[a])) \o ScopesAbove(Last(frames[a]), 0)}
           /\ FrameRan(a) = RunCleanups(Reverse(ScopesAbove(Last(frames[a]), 0)), "scope")
<1> DEFINE x == LiveOf(Front(frames[a]))
           kept == SubSeq(Last(frames[a]), 1, 0)
           z == ScopesAbove(Last(frames[a]), 0)
           e == <<>>
<1>1. 0 \in 0 .. Len(Last(frames[a])) /\ Front(frames[a]) \in Stacks
    BY RunningHas DEF Frames
<1>2. z \in Scopes /\ kept \in Seq(Scopes) /\ Len(kept) = 0 /\ LiveOf(frames[a]) \in {(x \o FlattenSeq(kept)) \o z}
    BY <1>1, ClosingEnd
<1>3. x \in Scopes /\ x \o e = x
  <2>1. x \in Scopes
      BY <1>1, StackIsFrames
  <2>2. QED BY <2>1 DEF Scopes
<1> HIDE DEF kept, x, z
<1>4. kept = e
    BY <1>2
<1>5. FlattenSeq(kept) = e
    BY <1>4, FlattenOne
<1> HIDE DEF e
<1>6. LiveOf(frames[a]) \in {x \o z}
    BY <1>2, <1>3, <1>5, Zenon
<1>7. QED BY <1>1, <1>2, <1>3, <1>6, Zenon DEF FrameRan, UnwindScopes, x, z

LEMMA UnwindScopesOrder ==
    ASSUME IndInv, IndInv', NEW a \in Activations, NEW depth, UnwindCleanupScopes(a, depth)
    PROVE  InOrder(a)
<1> DEFINE frame == Last(frames[a])
           closing == UnwindScopes(frame, depth)
           new == SubSeq(frame, 1, depth)
           stack == Append(Front(frames[a]), new)
           ran == RunCleanups(closing, "scope")
           defects == CleanupDefects(closing)
           z == ScopesAbove(frame, depth)
           x == LiveOf(Front(frames[a])) \o FlattenSeq(new)
<1>1. /\ Running(a) /\ depth \in 1 .. (Len(frame) - 1)
      /\ IF defects = <<>> THEN Continue(a, stack, ran)
                           ELSE ThrowActivationDefect(a, stack, ran, defects)
    BY DEF UnwindCleanupScopes
<1>2. Front(frames[a]) \in Stacks /\ Len(frame) \in Nat
    BY <1>1, RunningHas DEF Frames
<1>3. /\ z \in Scopes /\ new \in Seq(Scopes) /\ Len(new) = depth /\ x \in Scopes
      /\ LiveOf(frames[a]) \in {x \o z}
  <2>1. depth \in 0 .. Len(frame)
      BY <1>1, <1>2
  <2>2. QED BY <2>1, <1>1, ClosingEnd
<1>4. ran = RunCleanups(Reverse(z), "scope")
    BY DEF UnwindScopes
<1> HIDE DEF frame, closing, new, ran, defects, z
<1>5. new \in Frames
    BY <1>1, <1>3 DEF Frames
<1>6. stack \in Stacks /\ LiveOf(stack) \in {x}
    BY <1>2, <1>5, StackPush
<1> HIDE DEF stack, x
<1>7. CASE defects = <<>>
  <2>1. log'[a] = log[a] \o ran
      BY <1>1, <1>7 DEF Continue, IndInv, TypeOK
  <2>2. log'[a] \in {log[a] \o RunCleanups(Reverse(z), "scope")}
      BY <2>1, <1>4, Zenon
  <2>3. QED BY <2>2, <1>3, UnwindsEnd
<1>8. CASE defects # <<>>
  <2>1. LiveOf(frames[a]) \in {LiveOf(stack) \o z}
      BY <1>3, <1>6, Zenon
  <2>2. ThrowActivationDefect(a, stack, ran, defects)
      BY <1>1, <1>8
  <2>3. QED BY <2>1, <2>2, <1>3, <1>4, <1>6, ThrowUnwindsEnd
<1>9. QED BY <1>7, <1>8

\* A frame that ends closes what it opened, whatever comes after.
LEMMA FrameOrder ==
    ASSUME IndInv, IndInv', NEW a \in Activations,
           FrameFails(a) \/ Return(a) \/ TailCall(a) \/ TailCallThrows(a)
    PROVE  InOrder(a)
<1> DEFINE z == ScopesAbove(Last(frames[a]), 0)
           stack == Front(frames[a])
           x == LiveOf(stack)
           ran == FrameRan(a)
<1>1. Running(a)
    BY DEF FrameFails, Return, TailCall, TailCallThrows, FrameCloses
<1>2. /\ z \in Scopes /\ stack \in Stacks /\ x \in Scopes /\ LiveOf(frames[a]) \in {x \o z}
      /\ ran = RunCleanups(Reverse(z), "scope")
    BY <1>1, FrameEnd
<1>3. \/ \E defects : ThrowActivationDefect(a, stack, ran, defects)
      \/ \E other : Continue(a, other, ran)
      \/ Finish(a, ran)
    BY Zenon DEF FrameFails, Return, TailCall, TailCallThrows
<1> HIDE DEF z, stack, ran
<1>4. ASSUME NEW defects, ThrowActivationDefect(a, stack, ran, defects) PROVE InOrder(a)
    BY <1>2, <1>4, ThrowUnwindsEnd
<1>5. CASE (\E other : Continue(a, other, ran)) \/ Finish(a, ran)
  <2>1. log'[a] = log[a] \o ran
      BY <1>5 DEF Continue, Finish, IndInv, TypeOK
  <2>2. log'[a] \in {log[a] \o RunCleanups(Reverse(z), "scope")}
      BY <2>1, <1>2, Zenon
  <2> HIDE DEF x
  <2>3. QED BY <2>2, <1>2, UnwindsEnd
<1>6. QED BY <1>3, <1>4, <1>5

\* A failure or cancellation of what is on the stack closes all of it.
LEMMA AllOrder ==
    ASSUME IndInv, IndInv', NEW a \in Activations,
           Defect(a) \/ Cancel(a) \/ FinalizeDefect(a)
    PROVE  InOrder(a)
<1> DEFINE x == LiveOf(frames[a])
           e == <<>>
<1>1. x \in Scopes /\ frames[a] \in Stacks /\ e \in Scopes /\ x \o e = x /\ e \o x = x
  <2>1. x \in Scopes /\ frames[a] \in Stacks
      BY OneSound, StackIsFrames
  <2>2. QED BY <2>1 DEF Scopes
<1>2. CASE Defect(a)
  <2>1. ThrowActivationDefect(a, frames[a], e, <<Own>>)
      BY <1>2 DEF Defect
  <2>2. e = RunCleanups(Reverse(e), "scope")
      BY EmptyRun
  <2> HIDE DEF e
  <2>3. LiveOf(frames[a]) \in {LiveOf(frames[a]) \o e}
      BY <1>1, Zenon
  <2>4. QED BY <2>1, <2>2, <2>3, <1>1, ThrowUnwindsEnd
<1>3. CASE Cancel(a) \/ FinalizeDefect(a)
  <2>1. log'[a] = log[a] \o RunCleanups(UnwindActivation(frames[a]), "scope")
      BY <1>3 DEF Cancel, FinalizeDefect, UnwindAll, IndInv, TypeOK
  <2>2. log'[a] \in {log[a] \o RunCleanups(Reverse(x), "scope")}
      BY <2>1, Zenon DEF UnwindActivation, LiveOf, x
  <2> HIDE DEF e
  <2>3. LiveOf(frames[a]) \in {e \o x}
      BY <1>1, Zenon
  <2> HIDE DEF x
  <2>4. QED BY <2>2, <2>3, <1>1, UnwindsEnd
<1>4. QED BY <1>2, <1>3

\* The other operations of an activation close nothing.
LEMMA QuietOrder ==
    ASSUME IndInv, IndInv', NEW a \in Activations,
           \/ Activate(a) \/ RegisterCleanup(a) \/ EnterCleanupScope(a) \/ PushCall(a)
           \/ Suspend(a) \/ Resume(a)
    PROVE  InOrder(a)
<1>1. log[a] \o <<>> = log[a] /\ log \in [Activations -> Seq(Ran)]
    BY NothingRan DEF IndInv, TypeOK, Ran
<1>2. CASE Activate(a) \/ Suspend(a) \/ Resume(a)
  <2>1. log'[a] = log[a]
      BY <1>2 DEF Activate, Suspend, Resume
  <2>2. QED BY <2>1, RunsNothing
<1>3. CASE RegisterCleanup(a) \/ EnterCleanupScope(a) \/ PushCall(a)
  <2>1. \E stack : Continue(a, stack, <<>>)
      BY <1>3, Zenon DEF RegisterCleanup, EnterCleanupScope, PushCall
  <2>2. log'[a] = log[a]
      BY <2>1, <1>1 DEF Continue
  <2>3. QED BY <2>2, RunsNothing
<1>4. QED BY <1>2, <1>3

\* An operation of one activation closes nothing of another.
LEMMA OthersKeep ==
    ASSUME IndInv, NEW a \in Activations, NEW c \in Activations, c # a,
           \/ Activate(a) \/ RegisterCleanup(a) \/ EnterCleanupScope(a)
           \/ \E depth \in 1 .. MaxScopes : UnwindCleanupScopes(a, depth)
           \/ StateTransition(a) \/ PushCall(a) \/ Defect(a) \/ FrameFails(a) \/ Return(a)
           \/ TailCall(a) \/ TailCallThrows(a) \/ Suspend(a) \/ Resume(a) \/ Cancel(a)
           \/ FinalizeDefect(a)
    PROVE  log'[c] = log[c]
<1>1. log \in [Activations -> Seq(Ran)]
    BY DEF IndInv, TypeOK, Ran
<1>2. ASSUME NEW stack, NEW ran, Continue(a, stack, ran) PROVE log'[c] = log[c]
    BY <1>1, <1>2 DEF Continue
<1>3. ASSUME NEW stack, NEW ran, NEW defects, ThrowActivationDefect(a, stack, ran, defects)
      PROVE  log'[c] = log[c]
    BY <1>1, <1>3, Zenon DEF ThrowActivationDefect
<1>4. ASSUME NEW ran, Finish(a, ran) PROVE log'[c] = log[c]
    BY <1>1, <1>4 DEF Finish
<1>5. ASSUME NEW first, UnwindAll(a, first) PROVE log'[c] = log[c]
    BY <1>1, <1>5, Zenon DEF UnwindAll
<1>6. CASE Activate(a) \/ Suspend(a) \/ Resume(a)
    BY <1>6 DEF Activate, Suspend, Resume
<1>7. CASE RegisterCleanup(a) \/ EnterCleanupScope(a) \/ PushCall(a)
    BY <1>2, <1>7, Zenon DEF RegisterCleanup, EnterCleanupScope, PushCall
<1>8. CASE \E depth \in 1 .. MaxScopes : UnwindCleanupScopes(a, depth)
    BY <1>2, <1>3, <1>8, Zenon DEF UnwindCleanupScopes
<1>9. CASE StateTransition(a)
    BY <1>2, <1>3, <1>9, Zenon DEF StateTransition, CommitStateTransition
<1>10. CASE Defect(a) \/ FrameFails(a) \/ TailCallThrows(a)
    BY <1>3, <1>10, Zenon DEF Defect, FrameFails, TailCallThrows
<1>11. CASE Return(a) \/ TailCall(a)
    BY <1>2, <1>4, <1>11, Zenon DEF Return, TailCall
<1>12. CASE Cancel(a) \/ FinalizeDefect(a)
    BY <1>5, <1>12, Zenon DEF Cancel, FinalizeDefect
<1>13. QED BY <1>6, <1>7, <1>8, <1>9, <1>10, <1>11, <1>12

-----------------------------------------------------------------------------
(* State transitions.                                                      *)

\* What a transition of activation a finds: what is live under its header, the
\* header, the body scopes, what it acquired, and what that replaces.
Finds(a, u, h, b, q, o) ==
    /\ LiveOf(frames[a]) = InARow(u, h, b, q)
    /\ Last(frames[a]) \in Seq(Scopes) /\ Distinct(FlattenSeq(Last(frames[a])))
    /\ h \in ToSet(Last(frames[a])) /\ Last(Last(frames[a])) = q
    /\ IdsOf(u) \intersect (IdsOf(h) \union IdsOf(b) \union IdsOf(q)) = {}
    /\ IdsOf(h) \intersect (IdsOf(b) \union IdsOf(q)) = {} /\ IdsOf(b) \intersect IdsOf(q) = {}
    /\ IdsOf(o) \subseteq IdsOf(h) /\ \A x, y \in IdsOf(o) : Before(h, x, y) => Before(o, x, y)

\* The header it leaves, with what it acquired installed or without what it closed.
Installs(left, h, o, q) ==
    /\ IdsOf(left) = (IdsOf(h) \ IdsOf(o)) \union IdsOf(q) /\ Len(left) = Len(h)
    /\ \A s \in DOMAIN left : IF h[s].id \in IdsOf(o) THEN left[s].id \in IdsOf(q) ELSE left[s] = h[s]

Keeps(left, h, o) ==
    /\ IdsOf(left) = IdsOf(h) \ IdsOf(o)
    /\ \A x, y \in IdsOf(h) \ IdsOf(o) : Before(h, x, y) => Before(left, x, y)

LEMMA InstallOrder ==
    ASSUME IndInv, IndInv', NEW a \in Activations,
           NEW u \in Scopes, NEW h \in Scopes, NEW b \in Scopes, NEW q \in Scopes, NEW o \in Scopes,
           Finds(a, u, h, b, q, o),
           NEW left \in Scopes, Installs(left, h, o, q), NEW stack, LiveOf(stack) \in {u \o left}, left \in ToSet(Last(stack)),
           Running(a), Continue(a, stack, Replacing(b, o))
    PROVE  InOrder(a)
<1> DEFINE f == Last(frames[a])
           z == InARow(u, h, b, q)
           ran == Replacing(b, o)
<1>1. /\ LiveOf(frames[a]) = z /\ f \in Seq(Scopes) /\ Distinct(FlattenSeq(f)) /\ h \in ToSet(f) /\ Last(f) = q
      /\ IdsOf(u) \intersect (IdsOf(h) \union IdsOf(b) \union IdsOf(q)) = {}
      /\ IdsOf(h) \intersect (IdsOf(b) \union IdsOf(q)) = {} /\ IdsOf(b) \intersect IdsOf(q) = {}
      /\ IdsOf(o) \subseteq IdsOf(h) /\ \A x, y \in IdsOf(o) : Before(h, x, y) => Before(o, x, y)
    BY Zenon DEF Finds
<1>2. /\ ran \in Seq(Ran) /\ IdsOf(ran) = IdsOf(b) \union IdsOf(o)
      /\ RanAs(ran, "body") = IdsOf(b) /\ RanAs(ran, "replaced") = IdsOf(o)
      /\ \A x, y : Before(b, x, y) \/ Before(o, x, y) \/ (y \in IdsOf(b) /\ x \in IdsOf(o)) => Before(ran, y, x)
    BY ReplacingRuns, Zenon
<1>3. frames'[a] = stack /\ status'[a] = "running" /\ log'[a] \in {log[a] \o ran}
  <2>1. /\ frames' = [frames EXCEPT ![a] = stack] /\ status' = status /\ status[a] = "running"
        /\ log' = [log EXCEPT ![a] = @ \o ran]
      BY DEF Continue, Running
  <2>2. frames \in [Activations -> Seq(Seq(Seq(Cleanup)))] /\ log \in [Activations -> Seq(Ran)]
      BY DEF IndInv, TypeOK, Ran
  <2>3. frames'[a] = stack /\ status'[a] = "running"
      BY <2>1, <2>2
  <2>4. log'[a] = log[a] \o ran
      BY <2>1, <2>2, Zenon
  <2>5. QED BY <2>3, <2>4, Zenon
<1>7. /\ IdsOf(left) = (IdsOf(h) \ IdsOf(o)) \union IdsOf(q) /\ Len(left) = Len(h)
      /\ \A s \in DOMAIN left : IF h[s].id \in IdsOf(o) THEN left[s].id \in IdsOf(q) ELSE left[s] = h[s]
    BY Zenon DEF Installs
<1> HIDE DEF f, z, ran
<1>4. Orderly(z, ran, f)
    BY <1>1, <1>2, TransitionOrderly, Zenon DEF z
<1>5. AllOrNothing(ran, f, stack, "running")
  <2>1. IdsOf(LiveOf(stack)) = IdsOf(u) \union IdsOf(left)
    <3>1. u \in Seq(Cleanup) /\ left \in Seq(Cleanup)
        BY DEF Scopes
    <3>2. IdsOf(u \o left) = IdsOf(u) \union IdsOf(left)
        BY <3>1, IdsConcat
    <3>3. QED BY <3>2, Zenon
  <2>2. IdsOf(o) \intersect IdsOf(LiveOf(stack)) = {} /\ IdsOf(q) \subseteq IdsOf(LiveOf(stack))
      BY <2>1, <1>1, <1>7
  <2>3. QED BY <2>2, <1>1, <1>2, <1>7, TransitionGoesOn
<1>6. QED BY <1>1, <1>2, <1>3, <1>4, <1>5, OrderlyStep, Zenon DEF f

LEMMA FailOrder ==
    ASSUME IndInv, IndInv', NEW a \in Activations,
           NEW u \in Scopes, NEW h \in Scopes, NEW b \in Scopes, NEW q \in Scopes, NEW o \in Scopes,
           Finds(a, u, h, b, q, o),
           NEW left \in Scopes, Keeps(left, h, o), NEW stack, LiveOf(stack) \in {u \o left}, NEW defects,
           ThrowActivationDefect(a, stack, Failing(b, o, q), defects)
    PROVE  InOrder(a)
<1> DEFINE f == Last(frames[a])
           z == InARow(u, h, b, q)
           l == log[a]
           rest == u \o left
           all == Failing(b, o, q)
           whole == FailingAll(b, o, q, rest)
           e == <<>>
<1>1. /\ LiveOf(frames[a]) = z /\ h \in ToSet(f) /\ Last(f) = q
      /\ IdsOf(u) \intersect (IdsOf(h) \union IdsOf(b) \union IdsOf(q)) = {}
      /\ IdsOf(h) \intersect (IdsOf(b) \union IdsOf(q)) = {} /\ IdsOf(b) \intersect IdsOf(q) = {}
      /\ IdsOf(o) \subseteq IdsOf(h) /\ \A x, y \in IdsOf(o) : Before(h, x, y) => Before(o, x, y)
    BY Zenon DEF Finds
<1>17. /\ IdsOf(left) = IdsOf(h) \ IdsOf(o)
       /\ \A x, y \in IdsOf(h) \ IdsOf(o) : Before(h, x, y) => Before(left, x, y)
    BY Zenon DEF Keeps
<1>2. /\ all \in Seq(Ran) /\ IdsOf(all) = IdsOf(b) \union IdsOf(o) \union IdsOf(q)
      /\ RanAs(all, "body") = IdsOf(b) /\ RanAs(all, "replaced") = IdsOf(o)
      /\ \A x, y : Before(b, x, y) \/ Before(o, x, y) \/ (y \in IdsOf(b) /\ x \in IdsOf(o)) \/ Before(q, x, y)
           => Before(all, y, x)
  <2>1. /\ all \in Seq(Ran) /\ IdsOf(all) = IdsOf(b) \union IdsOf(o) \union IdsOf(q)
        /\ RanAs(all, "body") = IdsOf(b) /\ RanAs(all, "replaced") = IdsOf(o)
      BY FailingRuns
  <2>2. \A x, y : Before(b, x, y) \/ Before(o, x, y) \/ (y \in IdsOf(b) /\ x \in IdsOf(o)) \/ Before(q, x, y)
          => Before(all, y, x)
      BY FailingRuns
  <2>3. QED BY <2>1, <2>2, Zenon
<1>3. /\ rest \in Scopes /\ IdsOf(rest) = IdsOf(u) \union IdsOf(left)
      /\ \A x, y : Before(u, x, y) \/ Before(left, x, y) \/ (x \in IdsOf(u) /\ y \in IdsOf(left))
           => Before(rest, x, y)
  <2>1. u \in Seq(Cleanup) /\ left \in Seq(Cleanup)
      BY DEF Scopes
  <2>2. rest \in Scopes
      BY <2>1 DEF Scopes
  <2>3. QED BY <2>1, <2>2, IdsConcat, BeforeConcat
<1>4. /\ l \in Seq(Ran) /\ log \in [Activations -> Seq(Ran)] /\ frames[a] \in Stacks
      /\ TypeOK
    BY OneSound DEF IndInv, TypeOK, Ran
<1>5. LiveOf(stack) = rest
    BY Zenon
<1>6. UnwindActivation(stack) = Reverse(rest)
    BY <1>5 DEF UnwindActivation, LiveOf
<1>7. LiveOf(e) = e
    BY FlattenOne DEF LiveOf
<1>8. ThrowActivationDefect(a, stack, all, defects)
    OBVIOUS
<1>9. whole = all \o RunCleanups(Reverse(rest), "scope")
    BY Zenon DEF FailingAll
<1> HIDE DEF f, z, l, rest
<1>10. /\ whole \in Seq(Ran)
       /\ IdsOf(whole) = IdsOf(b) \union IdsOf(o) \union IdsOf(q) \union IdsOf(rest)
       /\ RanAs(whole, "body") = IdsOf(b) /\ RanAs(whole, "replaced") = IdsOf(o)
  <2>1. rest \in Scopes
      BY <1>3
  <2>2. whole \in Seq(Ran)
      BY <2>1, FailingAllRuns
  <2>3. IdsOf(whole) = IdsOf(b) \union IdsOf(o) \union IdsOf(q) \union IdsOf(rest)
      BY <2>1, FailingAllRuns
  <2>4. RanAs(whole, "body") = IdsOf(b)
      BY <2>1, FailingAllRuns
  <2>5. RanAs(whole, "replaced") = IdsOf(o)
      BY <2>1, FailingAllRuns
  <2>6. QED BY <2>2, <2>3, <2>4, <2>5, Zenon
<1>11. ASSUME NEW x, NEW y,
              \/ Before(b, x, y) \/ Before(o, x, y) \/ (y \in IdsOf(b) /\ x \in IdsOf(o))
              \/ Before(q, x, y) \/ Before(rest, x, y)
              \/ y \in IdsOf(b) \union IdsOf(o) \union IdsOf(q) /\ x \in IdsOf(rest)
       PROVE  Before(whole, y, x)
    BY <1>3, <1>11, FailingAllRuns
<1> HIDE DEF all, whole, e
<1>12. IdsOf(rest) = IdsOf(u) \union (IdsOf(h) \ IdsOf(o))
    BY <1>3, <1>17
<1>13. \A x, y : \/ Before(u, x, y)
                 \/ Before(h, x, y) /\ {x, y} \subseteq IdsOf(h) \ IdsOf(o)
                 \/ x \in IdsOf(u) /\ y \in IdsOf(h) \ IdsOf(o)
         => Before(rest, x, y)
    BY <1>3, <1>17
<1>14. CASE hosted[a]
  <2>1. log'[a] = l \o all /\ frames'[a] = stack /\ status'[a] = "pending"
      BY <1>4, <1>8, <1>14 DEF ThrowActivationDefect, TypeOK, l
  <2>2. Orderly(z, all, f)
      BY <1>1, <1>2, <1>3, TransitionOrderly, Zenon DEF z
  <2>3. AllOrNothing(all, f, stack, "pending")
    <3> DEFINE stands == "pending"
    <3>1. /\ (IdsOf(o) \union IdsOf(q)) \intersect IdsOf(LiveOf(stack)) = {}
          /\ IdsOf(q) \subseteq IdsOf(all) /\ stands # "running"
        BY <1>1, <1>2, <1>3, <1>5, <1>17
    <3> HIDE DEF stands
    <3>3. AllOrNothing(all, f, stack, stands)
        BY <3>1, <1>1, <1>2, TransitionFails
    <3>4. QED BY <3>3 DEF stands
  <2>4. log'[a] \in {log[a] \o all}
      BY <2>1, Zenon DEF l
  <2>5. QED BY <2>1, <2>2, <2>3, <2>4, <1>1, <1>2, OrderlyStep, Zenon DEF f
<1>15. CASE ~hosted[a]
  <2>1. /\ log'[a] = (l \o all) \o RunCleanups(Reverse(rest), "scope")
        /\ frames'[a] = e /\ status'[a] = "defected"
    <3>1. /\ frames' = [frames EXCEPT ![a] = e] /\ status' = [status EXCEPT ![a] = "defected"]
          /\ log' = [log EXCEPT ![a] = @ \o all \o RunCleanups(Reverse(rest), "scope")]
        BY <1>6, <1>8, <1>15, Zenon DEF ThrowActivationDefect, e
    <3>2. frames'[a] = e /\ status'[a] = "defected"
        BY <3>1, <1>4 DEF TypeOK
    <3>3. log'[a] = (l \o all) \o RunCleanups(Reverse(rest), "scope")
        BY <3>1, <1>4, Zenon DEF l
    <3>4. QED BY <3>2, <3>3
  <2>2. log'[a] \in {log[a] \o whole}
    <3> DEFINE r == RunCleanups(Reverse(rest), "scope")
    <3>1. r \in Seq(Ran)
        BY <1>3, RunAlone DEF Role
    <3> HIDE DEF r
    <3>2. (l \o all) \o r \in {l \o (all \o r)}
        BY <3>1, <1>2, <1>4, ConcatGroups, Zenon
    <3>3. QED BY <3>2, <2>1, <1>9, Zenon DEF r, l
  <2>3. Orderly(z, whole, f)
    <3>1. IdsOf(whole) = IdsOf(b) \union IdsOf(o) \union IdsOf(q) \union IdsOf(rest)
        BY <1>10
    <3>2. \A x, y : \/ Before(q, x, y) \/ Before(rest, x, y)
                    \/ y \in IdsOf(b) \union IdsOf(o) \union IdsOf(q) /\ x \in IdsOf(rest)
            => Before(whole, y, x)
        BY <1>11
    <3>3. \A x, y : Before(b, x, y) \/ Before(o, x, y) \/ (y \in IdsOf(b) /\ x \in IdsOf(o))
            => Before(whole, y, x)
        BY <1>11
    <3>4. RanAs(whole, "body") = IdsOf(b) /\ RanAs(whole, "replaced") = IdsOf(o)
        BY <1>10
    <3>5. QED BY <3>1, <3>2, <3>3, <3>4, <1>1, <1>3, <1>12, <1>13, TransitionOrderly, Zenon DEF z
  <2>4. AllOrNothing(whole, f, e, "defected")
    <3> DEFINE stands == "defected"
    <3>1. IdsOf(LiveOf(e)) = {}
        BY <1>7 DEF e, IdsOf
    <3>2. /\ (IdsOf(o) \union IdsOf(q)) \intersect IdsOf(LiveOf(e)) = {}
          /\ IdsOf(q) \subseteq IdsOf(whole) /\ stands # "running"
        BY <3>1, <1>10
    <3> HIDE DEF stands
    <3>3. AllOrNothing(whole, f, e, stands)
        BY <3>2, <1>1, <1>10, TransitionFails
    <3>4. QED BY <3>3 DEF stands
  <2>5. whole \in Seq(Ran)
      BY <1>10
  <2>6. QED BY <2>1, <2>2, <2>3, <2>4, <2>5, <1>1, OrderlyStep, Zenon DEF f
<1>16. QED BY <1>14, <1>15

LEMMA TransitionStep ==
    ASSUME IndInv, NEW a \in Activations, StateTransition(a)
    PROVE  IndInv' /\ InOrder(a)
<1> DEFINE f == Last(frames[a])
           F == Front(frames[a])
           x == LiveOf(F)
           n == opened[a]
           l == log[a]
<1>1. PICK depth \in 1 .. (MaxScopes - 1) :
        /\ Running(a) /\ Len(f) > depth
        /\ \E pairs \in TransitionPairs(f[depth], Last(f)) : CommitStateTransition(a, depth, pairs)
    BY DEF StateTransition
<1>2. PICK pairs \in TransitionPairs(f[depth], Last(f)) : CommitStateTransition(a, depth, pairs)
    BY <1>1
<1>3. /\ f \in Frames /\ F \in Stacks /\ x \in Scopes /\ LiveOf(frames[a]) \in {x \o FlattenSeq(f)}
      /\ l \in Seq(Ran) /\ n \in Nat /\ Once(l, LiveOf(frames[a]), n)
      /\ opened' = [opened EXCEPT ![a] = n]
  <2>1. f \in Frames /\ F \in Stacks /\ LiveOf(frames[a]) \in {x \o FlattenSeq(f)}
      BY <1>1, RunningHas
  <2>2. x \in Scopes
      BY <2>1, StackIsFrames
  <2>3. l \in Seq(Ran) /\ n \in Nat /\ Once(l, LiveOf(frames[a]), n)
      BY OneSound
  <2>4. opened' = [opened EXCEPT ![a] = n]
      BY <1>2 DEF CommitStateTransition, IndInv, TypeOK
  <2>5. QED BY <2>1, <2>2, <2>3, <2>4
<1>4. depth \in 1 .. (Len(f) - 1)
  <2>1. depth \in Nat \ {0} /\ Len(f) \in Nat
      BY <1>3, ActivationAssumption DEF Frames
  <2>2. QED BY <2>1, <1>1
<1> DEFINE p == SubSeq(f, 1, depth - 1)
           h == f[depth]
           b == ScopesAbove(Front(f), depth)
           q == Last(f)
           u == x \o FlattenSeq(p)
<1>5. /\ p \in Seq(Scopes) /\ FlattenSeq(p) \in Scopes /\ h \in Scopes /\ q \in Scopes /\ b \in Scopes
      /\ FlattenSeq(f) \in {((FlattenSeq(p) \o h) \o b) \o q}
    BY <1>3, <1>4, FrameInFour
<1> DEFINE body == UnwindScopes(Front(f), depth)
           olds == Reverse(Replaced(h, pairs))
           news == Reverse(q)
           rb == RunCleanups(body, "body")
           ro == RunCleanups(olds, "replaced")
           rq == RunCleanups(news, "acquired")
           ran == rb \o ro
           defects == CleanupDefects(body \o olds)
           Above(scope) == Append(F, Append(p, scope))
<1>6. IF defects = <<>>
      THEN Continue(a, Above(InstalledHeader(h, q, pairs)), ran)
      ELSE ThrowActivationDefect(a, Above(KeptHeader(h, pairs)), ran \o rq, defects \o CleanupDefects(news))
    BY <1>2, Zenon DEF CommitStateTransition, Replaced
<1>7. body = Reverse(b)
    BY DEF UnwindScopes
<1> DEFINE o == Replaced(h, pairs)
<1>22. ran = Replacing(b, o) /\ ran \o rq = Failing(b, o, q)
    BY <1>7, Zenon DEF Replacing, Failing
<1>23. h \in ToSet(f) /\ f \in Seq(Scopes)
    BY <1>3, <1>4 DEF ToSet, Frames
<1> HIDE DEF f, F, n, l
<1>8. pairs \in TransitionPairs(h, q)
    BY <1>2
<1> HIDE DEF p, h, b, q
<1>9. /\ u \in Scopes /\ Once(l, ((u \o h) \o b) \o q, n)
      /\ LiveOf(frames[a]) = InARow(u, h, b, q)
  <2> DEFINE v == FlattenSeq(p)
  <2> HIDE DEF x, v
  <2>1. u \in Scopes /\ v \o h \in Scopes /\ (v \o h) \o b \in Scopes
      BY <1>3, <1>5, ConcatThree, Zenon DEF v
  <2>2. x \o (((v \o h) \o b) \o q) \in {(x \o ((v \o h) \o b)) \o q}
      BY <2>1, <1>3, <1>5, ConcatThree, Zenon
  <2>3. x \o ((v \o h) \o b) \in {(x \o (v \o h)) \o b}
      BY <2>1, <1>3, <1>5, ConcatThree, Zenon
  <2>4. x \o (v \o h) \in {(x \o v) \o h}
      BY <2>1, <1>3, <1>5, ConcatThree, Zenon DEF v
  <2>5. LiveOf(frames[a]) = x \o FlattenSeq(f) /\ FlattenSeq(f) = ((v \o h) \o b) \o q
      BY <1>3, <1>5, Zenon DEF v
  <2>6. LiveOf(frames[a]) = ((u \o h) \o b) \o q
      BY <2>2, <2>3, <2>4, <2>5, Zenon DEF v
  <2>7. QED BY <2>1, <2>6, <1>3, Zenon DEF InARow
<1>10. ASSUME NEW scope \in Scopes
       PROVE  /\ Above(scope) \in Stacks \ {<<>>} /\ LiveOf(Above(scope)) = u \o scope
              /\ scope \in ToSet(Last(Above(scope)))
  <2> DEFINE new == Append(p, scope)
  <2>1. new \in Frames /\ FlattenSeq(new) \in {FlattenSeq(p) \o scope}
      BY <1>5, FramePush
  <2> HIDE DEF new
  <2>2. Append(F, new) \in Stacks \ {<<>>} /\ LiveOf(Append(F, new)) \in {x \o FlattenSeq(new)}
      BY <1>3, <2>1, StackPush
  <2>3. x \o (FlattenSeq(p) \o scope) \in {(x \o FlattenSeq(p)) \o scope}
      BY <1>3, <1>5, ConcatThree, Zenon
  <2>4. scope \in ToSet(Last(Above(scope)))
      BY <1>3, <1>5, TopHolds
  <2>5. QED BY <2>1, <2>2, <2>3, <2>4, Zenon DEF new
<1>25. Distinct(FlattenSeq(f))
  <2>1. FlattenSeq(f) \in Seq(Cleanup) /\ x \in Seq(Cleanup)
    <3>1. f \in Seq(Seq(Cleanup))
        BY <1>23 DEF Scopes
    <3>2. QED BY <3>1, <1>3, FlattenConcat DEF Scopes
  <2> DEFINE v == FlattenSeq(f)
  <2>2. Distinct(x \o v)
      BY <1>3, Zenon DEF Once
  <2> HIDE DEF v, x
  <2>3. QED BY <2>1, <2>2, IdsConcat DEF v
<1> HIDE DEF x, Above, u
<1>11. /\ Distinct(h) /\ Distinct(b) /\ Distinct(q)
       /\ IdsOf(h) \intersect (IdsOf(b) \union IdsOf(q)) = {} /\ IdsOf(b) \intersect IdsOf(q) = {}
       /\ IdsOf(u) \intersect (IdsOf(h) \union IdsOf(b) \union IdsOf(q)) = {}
    BY <1>5, <1>9, OnceParts
<1>12. /\ Replaced(h, pairs) \in Scopes /\ Distinct(Replaced(h, pairs))
       /\ IdsOf(Replaced(h, pairs)) = Olds(pairs) /\ Olds(pairs) \subseteq IdsOf(h)
       /\ \A i, j \in Olds(pairs) : Before(h, i, j) => Before(Replaced(h, pairs), i, j)
    BY <1>5, <1>8, <1>11, ReplacedFacts
<1>26. o \in Scopes /\ IdsOf(o) = Olds(pairs)
    BY <1>12
<1>27. Finds(a, u, h, b, q, o)
  <2>1. IdsOf(o) \subseteq IdsOf(h) /\ \A i, j \in IdsOf(o) : Before(h, i, j) => Before(o, i, j)
      BY <1>12
  <2>2. Last(Last(frames[a])) = q
      BY DEF q, f
  <2> HIDE DEF o
  <2>3. QED BY <2>1, <2>2, <1>9, <1>11, <1>23, <1>25, Zenon DEF Finds, f
<1> HIDE DEF o
<1>13. ASSUME NEW s \in Scopes, Distinct(s), NEW role \in Role
       PROVE  /\ Reverse(s) \in Seq(Cleanup) /\ RunCleanups(Reverse(s), role) \in Seq(Ran)
              /\ Distinct(RunCleanups(Reverse(s), role))
              /\ IdsOf(RunCleanups(Reverse(s), role)) = IdsOf(s)
              /\ CleanupDefects(Reverse(s)) \in Seq(Nat)
              /\ CleanupDefects(RunCleanups(Reverse(s), role)) = CleanupDefects(Reverse(s))
  <2>1. s \in Seq(Cleanup) /\ \A c \in Cleanup : c.id \in Nat
      BY <1>13 DEF Scopes, Cleanup
  <2>2. Reverse(s) \in Seq(Cleanup) /\ Distinct(Reverse(s)) /\ IdsOf(Reverse(s)) = IdsOf(s)
      BY <2>1, <1>13, IdsReverse
  <2>3. /\ RunCleanups(Reverse(s), role) \in Seq(Ran)
        /\ CleanupDefects(RunCleanups(Reverse(s), role)) = CleanupDefects(Reverse(s))
      BY <2>2, DefectsRun
  <2>4. /\ Distinct(RunCleanups(Reverse(s), role))
        /\ IdsOf(RunCleanups(Reverse(s), role)) = IdsOf(s)
      BY <2>2, IdsRun
  <2>5. CleanupDefects(Reverse(s)) \in Seq(Nat)
      BY <2>1, <2>2, DefectsConcat
  <2>6. QED BY <2>2, <2>3, <2>4, <2>5
<1>14. /\ body \in Seq(Cleanup) /\ rb \in Seq(Ran) /\ Distinct(rb) /\ IdsOf(rb) = IdsOf(b)
       /\ CleanupDefects(body) \in Seq(Nat) /\ CleanupDefects(rb) = CleanupDefects(body)
    BY <1>5, <1>7, <1>11, <1>13 DEF Role
<1>15. /\ olds \in Seq(Cleanup) /\ ro \in Seq(Ran) /\ Distinct(ro) /\ IdsOf(ro) = Olds(pairs)
       /\ CleanupDefects(olds) \in Seq(Nat) /\ CleanupDefects(ro) = CleanupDefects(olds)
    BY <1>12, <1>13 DEF Role
<1>16. /\ news \in Seq(Cleanup) /\ rq \in Seq(Ran) /\ Distinct(rq) /\ IdsOf(rq) = IdsOf(q)
       /\ CleanupDefects(news) \in Seq(Nat) /\ CleanupDefects(rq) = CleanupDefects(news)
    BY <1>5, <1>11, <1>13 DEF Role
<1> HIDE DEF body, olds, news, rb, ro, rq
<1>17. /\ ran \in Seq(Ran) /\ IdsOf(ran) = IdsOf(b) \union Olds(pairs) /\ Distinct(ran)
  <2>1. ran \in Seq(Ran)
      BY <1>14, <1>15
  <2>2. /\ IdsOf(ran) = IdsOf(rb) \union IdsOf(ro)
        /\ Distinct(rb) /\ Distinct(ro) /\ IdsOf(rb) \intersect IdsOf(ro) = {} => Distinct(ran)
      BY <1>14, <1>15, IdsConcat
  <2> HIDE DEF ran
  <2>3. QED BY <2>1, <2>2, <1>11, <1>12, <1>14, <1>15
<1>18. CleanupDefects(ran) = defects /\ defects \in Seq(Nat)
  <2>1. \A c \in Cleanup : c.id \in Nat
      BY DEF Cleanup
  <2>2. \A c \in Ran : c.id \in Nat
      BY DEF Ran
  <2>3. CleanupDefects(body \o olds) = CleanupDefects(body) \o CleanupDefects(olds)
      BY <2>1, <1>14, <1>15, DefectsConcat
  <2>4. CleanupDefects(rb \o ro) = CleanupDefects(rb) \o CleanupDefects(ro)
      BY <2>2, <1>14, <1>15, DefectsConcat
  <2>5. CleanupDefects(ran) \in Seq(Nat)
      BY <2>2, <1>17, DefectsConcat
  <2>6. CleanupDefects(ran) = defects
      BY <2>3, <2>4, <1>14, <1>15, Zenon
  <2>7. QED BY <2>5, <2>6, Zenon
<1> HIDE DEF ran, defects
<1>19. CASE defects = <<>>
  <2> DEFINE left == InstalledHeader(h, q, pairs)
             top == Above(left)
  <2>1. /\ left \in Scopes /\ Distinct(left) /\ IdsOf(left) = (IdsOf(h) \ Olds(pairs)) \union IdsOf(q)
        /\ Len(left) = Len(h)
        /\ \A s \in DOMAIN left :
             IF h[s].id \in Olds(pairs) THEN left[s].id \in IdsOf(q) ELSE left[s] = h[s]
    <3>1. /\ h \in Scopes /\ q \in Scopes /\ Distinct(h) /\ Distinct(q)
          /\ IdsOf(h) \intersect IdsOf(q) = {}
        BY <1>5, <1>11
    <3>2. QED BY <3>1, <1>8, InstalledFacts, Zenon
  <2> HIDE DEF left
  <2>2. Once(l \o ran, u \o left, n)
    <3>1. /\ IdsOf(ran) \union IdsOf(left) = IdsOf(h) \union IdsOf(b) \union IdsOf(q)
          /\ IdsOf(ran) \intersect IdsOf(left) = {}
        BY <2>1, <1>11, <1>12, <1>17
    <3>2. QED BY <3>1, <2>1, <1>3, <1>5, <1>9, <1>17, OnceTransition
  <2>3. top \in Stacks \ {<<>>} /\ LiveOf(top) = u \o left /\ left \in ToSet(Last(top))
      BY <2>1, <1>10
  <2>4. Continue(a, top, ran) /\ CleanupDefects(ran) = <<>>
      BY <1>6, <1>18, <1>19, Zenon DEF left
  <2> HIDE DEF top
  <2>5. Once(log[a] \o ran, LiveOf(top), n)
      BY <2>2, <2>3, Zenon DEF l
  <2>6. IndInv'
      BY <2>3, <2>4, <2>5, <1>1, <1>3, <1>17, ContinueStep
  <2>7. Continue(a, top, Replacing(b, o))
      BY <2>4, <1>22, Zenon
  <2>8. InOrder(a)
    <3>1. LiveOf(top) \in {u \o left}
        BY <2>3, Zenon
    <3>2. Installs(left, h, o, q)
        BY <2>1, <1>26, Zenon DEF Installs
    <3>3. u \in Scopes /\ h \in Scopes /\ b \in Scopes /\ q \in Scopes /\ o \in Scopes /\ left \in Scopes
        BY <2>1, <1>5, <1>9, <1>26
    <3>4. left \in ToSet(Last(top))
        BY <2>3
    <3>5. QED BY <3>1, <3>2, <3>3, <3>4, <2>6, <2>7, <1>1, <1>27, InstallOrder
  <2>9. QED BY <2>6, <2>8
<1>20. CASE defects # <<>>
  <2> DEFINE left == KeptHeader(h, pairs)
             top == Above(left)
             all == ran \o rq
             more == defects \o CleanupDefects(news)
  <2>1. /\ left \in Scopes /\ Distinct(left) /\ IdsOf(left) = IdsOf(h) \ Olds(pairs)
        /\ \A i, j \in IdsOf(h) \ Olds(pairs) : Before(h, i, j) => Before(left, i, j)
      BY <1>5, <1>11, KeptFacts
  <2> HIDE DEF left
  <2>2. all \in Seq(Ran) /\ IdsOf(all) = IdsOf(ran) \union IdsOf(q) /\ Distinct(all)
    <3>1. all \in Seq(Ran)
        BY <1>16, <1>17
    <3>2. /\ IdsOf(all) = IdsOf(ran) \union IdsOf(rq)
          /\ Distinct(ran) /\ Distinct(rq) /\ IdsOf(ran) \intersect IdsOf(rq) = {} => Distinct(all)
        BY <1>16, <1>17, IdsConcat
    <3> HIDE DEF all
    <3>3. QED BY <3>1, <3>2, <1>11, <1>12, <1>16, <1>17
  <2>3. CleanupDefects(all) = more /\ more \in Seq(Nat)
    <3>1. \A c \in Ran : c.id \in Nat
        BY DEF Ran
    <3>2. CleanupDefects(all) = CleanupDefects(ran) \o CleanupDefects(rq)
        BY <3>1, <1>16, <1>17, DefectsConcat
    <3>3. CleanupDefects(all) \in Seq(Nat)
        BY <3>1, <2>2, DefectsConcat
    <3>4. QED BY <3>2, <3>3, <1>16, <1>18, Zenon
  <2>4. more # <<>>
    <3>1. Len(more) = Len(defects) + Len(CleanupDefects(news)) /\ Len(defects) \in Nat \ {0}
          /\ Len(CleanupDefects(news)) \in Nat
        BY <1>16, <1>18, <1>20
    <3>2. Len(more) # 0
        BY <3>1
    <3> HIDE DEF more
    <3>3. QED BY <3>2
  <2> HIDE DEF all, more
  <2>5. Once(l \o all, u \o left, n)
    <3>1. /\ IdsOf(all) \union IdsOf(left) = IdsOf(h) \union IdsOf(b) \union IdsOf(q)
          /\ IdsOf(all) \intersect IdsOf(left) = {}
        BY <2>1, <2>2, <1>11, <1>12, <1>17
    <3>2. QED BY <3>1, <2>1, <2>2, <1>3, <1>5, <1>9, OnceTransition
  <2>6. top \in Stacks \ {<<>>} /\ LiveOf(top) = u \o left
      BY <2>1, <1>10
  <2>7. ThrowActivationDefect(a, top, all, more)
      BY <1>6, <1>20, Zenon DEF left, all, more
  <2> HIDE DEF top
  <2>8. Once(log[a] \o all, LiveOf(top), opened[a])
      BY <2>5, <2>6, Zenon DEF l, n
  <2>9. more \in {CleanupDefects(all), <<Own>> \o CleanupDefects(all)}
      BY <2>3, Zenon
  <2>10. UNCHANGED opened
      BY <1>2 DEF CommitStateTransition
  <2>11. IndInv'
      BY <2>2, <2>3, <2>4, <2>6, <2>7, <2>8, <2>9, <2>10, <1>1, ThrowStep
  <2>12. InOrder(a)
    <3>1. LiveOf(top) \in {u \o left}
        BY <2>6, Zenon
    <3>2. ThrowActivationDefect(a, top, Failing(b, o, q), more)
        BY <2>7, <1>22, Zenon DEF all
    <3>3. Keeps(left, h, o)
        BY <2>1, <1>26, Zenon DEF Keeps
    <3>4. u \in Scopes /\ h \in Scopes /\ b \in Scopes /\ q \in Scopes /\ o \in Scopes /\ left \in Scopes
        BY <2>1, <1>5, <1>9, <1>26
    <3>5. QED BY <3>1, <3>2, <3>3, <3>4, <2>11, <1>27, FailOrder
  <2>13. QED BY <2>11, <2>12
<1>21. QED BY <1>19, <1>20

-----------------------------------------------------------------------------
(* The invariant holds.                                                    *)

LEMMA InitStep == Init => IndInv
<1> SUFFICES ASSUME Init PROVE IndInv
    OBVIOUS
<1> DEFINE e == <<>>
<1>1. TypeOK
    BY ActivationAssumption DEF Init, TypeOK, Status
<1>2. e \in Stacks /\ LiveOf(e) = e /\ CleanupDefects(e) = e
    BY FlattenOne, DefectsNone DEF LiveOf, Stacks
<1>3. Distinct(e) /\ IdsOf(e) = {} /\ 1 .. 0 = {}
    BY DEF Distinct, IdsOf
<1>4. ASSUME NEW a \in Activations
      PROVE  Sound(status[a], frames[a], primary[a], log[a], opened[a])
  <2>1. status[a] = "idle" /\ frames[a] = e /\ primary[a] = e /\ log[a] = e /\ opened[a] = 0
      BY <1>4 DEF Init
  <2> HIDE DEF e
  <2>2. Sound("idle", e, e, e, 0)
      BY <1>2, <1>3 DEF Sound, Shape, Once, Retained, e
  <2>3. QED BY <2>1, <2>2
<1>5. QED BY <1>1, <1>4 DEF IndInv

LEMMA NextStep == IndInv /\ [Next]_vars => IndInv'
<1> SUFFICES ASSUME IndInv, [Next]_vars PROVE IndInv'
    OBVIOUS
<1>1. ASSUME NEW a \in Activations, Activate(a) PROVE IndInv'
    BY <1>1, ActivateStep
<1>2. ASSUME NEW a \in Activations, RegisterCleanup(a) PROVE IndInv'
    BY <1>2, RegisterStep
<1>3. ASSUME NEW a \in Activations, EnterCleanupScope(a) PROVE IndInv'
    BY <1>3, EnterStep
<1>4. ASSUME NEW a \in Activations, NEW depth \in 1 .. MaxScopes, UnwindCleanupScopes(a, depth)
      PROVE  IndInv'
    BY <1>4, UnwindScopesStep
<1>5. ASSUME NEW a \in Activations, StateTransition(a) PROVE IndInv'
    BY <1>5, TransitionStep
<1>6. ASSUME NEW a \in Activations, PushCall(a) PROVE IndInv'
    BY <1>6, PushStep
<1>7. ASSUME NEW a \in Activations, Defect(a) PROVE IndInv'
    BY <1>7, DefectStep
<1>8. ASSUME NEW a \in Activations, FrameFails(a) PROVE IndInv'
    BY <1>8, FrameFailsStep
<1>9. ASSUME NEW a \in Activations, Return(a) PROVE IndInv'
    BY <1>9, ReturnStep
<1>10. ASSUME NEW a \in Activations, TailCall(a) PROVE IndInv'
    BY <1>10, TailCallStep
<1>11. ASSUME NEW a \in Activations, TailCallThrows(a) PROVE IndInv'
    BY <1>11, TailCallThrowsStep
<1>12. ASSUME NEW a \in Activations, Suspend(a) PROVE IndInv'
    BY <1>12, SuspendStep
<1>13. ASSUME NEW a \in Activations, Resume(a) PROVE IndInv'
    BY <1>13, ResumeStep
<1>14. ASSUME NEW a \in Activations, Cancel(a) PROVE IndInv'
    BY <1>14, CancelStep
<1>15. ASSUME NEW a \in Activations, FinalizeDefect(a) PROVE IndInv'
    BY <1>15, FinalizeStep
<1>16. CASE UNCHANGED vars
    BY <1>16 DEF vars, IndInv, TypeOK
<1>17. QED BY <1>1, <1>2, <1>3, <1>4, <1>5, <1>6, <1>7, <1>8, <1>9, <1>10, <1>11, <1>12, <1>13,
              <1>14, <1>15, <1>16 DEF Next

LEMMA Inductive == Spec => []IndInv
<1>1. QED BY InitStep, NextStep, PTL DEF Spec

\* Every variable of the driver has its type, and at most one activation is
\* driven, the current one (nymphResumeActivation, lines 433-446).
THEOREM ActivationTypes == Spec => []TypeOK
<1>1. IndInv => TypeOK
    BY DEF IndInv
<1>2. QED BY <1>1, Inductive, PTL

\* Every registration closes once on every path: it is on the stack or in
\* the log of what ran, in one place, and nothing stays registered on an
\* activation that returned or failed (activation_runtime.js, lines 237-304).
THEOREM CleanupsCloseOnce == Spec => []EveryCleanupClosesOnce
<1>1. IndInv => EveryCleanupClosesOnce
  <2> SUFFICES ASSUME IndInv, NEW a \in Activations
               PROVE  /\ \A id \in 1 .. opened[a] : Occurrences(log[a] \o LiveCleanups(a), id) = 1
                      /\ status[a] \in {"returned", "defected"} => frames[a] = <<>>
      BY DEF EveryCleanupClosesOnce
  <2> DEFINE live == LiveOf(frames[a])
             s == log[a] \o live
  <2>1. log[a] \in Seq(Ran) /\ Once(log[a], live, opened[a]) /\ Shape(status[a], frames[a])
        /\ frames[a] \in Stacks
      BY OneSound
  <2>2. live \in Seq(Cleanup)
      BY <2>1, StackIsFrames DEF Scopes
  <2> HIDE DEF live
  <2>3. Distinct(s) /\ IdsOf(s) = 1 .. opened[a]
      BY <2>1, <2>2, IdsConcat DEF Once
  <2> HIDE DEF s
  <2>4. \A id \in 1 .. opened[a] : Occurrences(s, id) = 1
      BY <2>3, CountedOnce
  <2>5. status[a] \in {"returned", "defected"} => frames[a] = <<>>
      BY <2>1 DEF Shape
  <2>6. QED BY <2>4, <2>5 DEF s, live, LiveOf, LiveCleanups
<1>2. QED BY <1>1, Inductive, PTL

\* A cleanup that throws fails its activation, and the failure keeps every
\* defect in the order they arose (lines 230-249 and 292-312).
THEOREM DefectsAreRetained == Spec => []NoDefectSwallowed
<1>1. IndInv => NoDefectSwallowed
    BY OneSound, Zenon DEF NoDefectSwallowed, Retained
<1>2. QED BY <1>1, Inductive, PTL

-----------------------------------------------------------------------------
(* The order of closing holds in every step.                               *)

LEMMA OrderStep ==
    ASSUME IndInv, IndInv', Next, NEW c \in Activations
    PROVE  InOrder(c)
<1>1. PICK a \in Activations :
        \/ Activate(a) \/ RegisterCleanup(a) \/ EnterCleanupScope(a)
        \/ \E depth \in 1 .. MaxScopes : UnwindCleanupScopes(a, depth)
        \/ StateTransition(a) \/ PushCall(a) \/ Defect(a) \/ FrameFails(a) \/ Return(a)
        \/ TailCall(a) \/ TailCallThrows(a) \/ Suspend(a) \/ Resume(a) \/ Cancel(a)
        \/ FinalizeDefect(a)
    BY Zenon DEF Next
<1>2. CASE c # a
  <2>1. log'[c] = log[c]
      BY <1>1, <1>2, OthersKeep
  <2>2. QED BY <2>1, RunsNothing
<1>3. InOrder(a)
  <2>1. CASE \/ Activate(a) \/ RegisterCleanup(a) \/ EnterCleanupScope(a) \/ PushCall(a)
             \/ Suspend(a) \/ Resume(a)
      BY <2>1, QuietOrder
  <2>2. ASSUME NEW depth \in 1 .. MaxScopes, UnwindCleanupScopes(a, depth) PROVE InOrder(a)
      BY <2>2, UnwindScopesOrder
  <2>3. CASE StateTransition(a)
      BY <2>3, TransitionStep
  <2>4. CASE FrameFails(a) \/ Return(a) \/ TailCall(a) \/ TailCallThrows(a)
      BY <2>4, FrameOrder
  <2>5. CASE Defect(a) \/ Cancel(a) \/ FinalizeDefect(a)
      BY <2>5, AllOrder
  <2>6. QED BY <1>1, <2>1, <2>2, <2>3, <2>4, <2>5
<1>4. QED BY <1>2, <1>3

\* No cleanup runs while one registered after it is still registered, in any
\* frame, but for those a state transition closes under what it acquired and
\* what its header keeps (activation_runtime.js, lines 237-304).
THEOREM CleanupsCloseInReverse == Spec => ClosesInReverse
<1>1. IndInv /\ IndInv' /\ [Next]_vars =>
        [\A a \in Activations : InReverse(LiveCleanups(a), RanBy(a), Last(frames[a]))]_vars
    BY OrderStep DEF InOrder, LiveOf, LiveCleanups
<1>2. QED BY <1>1, Inductive, PTL DEF Spec, ClosesInReverse

\* A state transition that replaced a resource has every new one in the place
\* of an old one, or has closed all of them (lines 251-288).
THEOREM TransitionsAllOrNothing == Spec => TransitionIsAllOrNothing
<1>1. IndInv /\ IndInv' /\ [Next]_vars =>
        [\A a \in Activations : AllOrNothing(RanBy(a), Last(frames[a]), frames'[a], status'[a])]_vars
    BY OrderStep DEF InOrder
<1>2. QED BY <1>1, Inductive, PTL DEF Spec, TransitionIsAllOrNothing

=============================================================================

------------------------- MODULE CompileScopeProofs -------------------------
(***************************************************************************)
(* A let is asked for while it resolves only through a chain argument: for *)
(* every program, of any size, and any room on the native stack.           *)
(***************************************************************************)
EXTENDS CompileScope, SequenceTheorems, WellFoundedInduction, TLAPS

Fields ==
    {"what", "todo", "values", "depth", "resolving", "name", "types",
     "calls", "call", "pending", "steps", "first"}

IsStack(s) ==
    /\ \E S : s \in Seq(S)
    /\ \A i \in 1 .. Len(s) : DOMAIN s[i] = Fields
    /\ s # <<>> => IsChain(s[1])

\* No chain between the call i and the call j that it has led to.
SamePath(s, i, j) == i <= j /\ \A k \in i + 1 .. j : ~IsChain(s[k])

\* The path that a call passes on has every let since the innermost chain.
PathIsKept(s) ==
    \A i, j \in 1 .. Len(s) :
        s[i].what = "let" /\ SamePath(s, i, j) => s[i].name \in s[j].resolving

NoRecursion(s) ==
    \A i, j \in 1 .. Len(s) :
        i < j /\ s[i].what = "let" /\ s[j].what = "let" /\ s[i].name = s[j].name
          => ~SamePath(s, i, j)

Sound(s) == IsStack(s) /\ PathIsKept(s) /\ NoRecursion(s)

-----------------------------------------------------------------------------
\* What can happen to the stack.

LEMMA SoundStart == Sound(<<>>)
<1>1. <<>> \in Seq({}) /\ Len(<<>>) = 0
  OBVIOUS
<1> QED
  BY <1>1 DEF Sound, IsStack, PathIsKept, NoRecursion

LEMMA SamePathOfPrefix ==
    ASSUME NEW s, NEW t, NEW n \in Nat, \A k \in 1 .. n : IsChain(t[k]) <=> IsChain(s[k]),
           NEW i \in 1 .. n, NEW j \in 1 .. n
    PROVE  SamePath(t, i, j) <=> SamePath(s, i, j)
  BY DEF SamePath

\* A step that keeps every call, with its name and its path.
LEMMA SoundSame ==
    ASSUME NEW s, Sound(s), NEW t, NEW T, t \in Seq(T), Len(t) = Len(s),
           \A i \in 1 .. Len(s) :
              /\ DOMAIN t[i] = Fields
              /\ t[i].what = s[i].what /\ t[i].name = s[i].name
              /\ t[i].resolving = s[i].resolving
    PROVE  Sound(t)
<1>2. Len(s) \in Nat /\ (t # <<>> => s # <<>> /\ 1 \in 1 .. Len(s))
  BY EmptySeq, LenProperties DEF Sound, IsStack
<1>1. IsStack(t)
  BY <1>2 DEF Sound, IsStack, IsChain
<1> DEFINE n == Len(s)
<1>0. /\ Len(t) = n /\ n \in Nat
      /\ \A i, j \in 1 .. n : SamePath(t, i, j) <=> SamePath(s, i, j)
  BY <1>2, SamePathOfPrefix DEF IsChain
<1>3. PathIsKept(t)
  BY <1>0 DEF Sound, PathIsKept
<1>4. NoRecursion(t)
  BY <1>0 DEF Sound, NoRecursion
<1> QED
  BY <1>1, <1>3, <1>4 DEF Sound

\* A call returns.
LEMMA SoundPop ==
    ASSUME NEW s, Sound(s), s # <<>>
    PROVE  /\ Sound(Front(s)) /\ Len(Front(s)) = Len(s) - 1
           /\ \A i \in 1 .. Len(s) - 1 : Front(s)[i] = s[i]
<1>1. PICK S : s \in Seq(S)
  BY DEF Sound, IsStack
<1> DEFINE t == Front(s)
           n == Len(s) - 1
<1>2. Len(s) \in Nat \ {0}
  BY <1>1, EmptySeq, LenProperties
<1>3. /\ t = [i \in 1 .. n |-> s[i]] /\ n \in Nat
      /\ t \in Seq(S) /\ Len(t) = n
  BY <1>1, <1>2 DEF Front
<1>4. \A i \in 1 .. n : i \in 1 .. Len(s) /\ t[i] = s[i]
  BY <1>2, <1>3
<1> HIDE DEF t
<1> HIDE DEF n
<1>5. \A i, j \in 1 .. n : SamePath(t, i, j) <=> SamePath(s, i, j)
  BY <1>3, <1>4, SamePathOfPrefix
<1>6. IsStack(t)
  <2>1. t # <<>> => 1 \in 1 .. n
    BY <1>3, EmptySeq, LenProperties
  <2> QED
    BY <1>3, <1>4, <2>1 DEF Sound, IsStack
<1>7. PathIsKept(t)
  BY <1>3, <1>4, <1>5 DEF Sound, PathIsKept
<1>8. NoRecursion(t)
  BY <1>3, <1>4, <1>5 DEF Sound, NoRecursion
<1> QED
  BY <1>3, <1>4, <1>6, <1>7, <1>8 DEF Sound, t, n

\* A call begins: a chain, on a path of its own, or a value, on the path of
\* the call that asks for it; a let that is on that path is refused.
LEMMA SoundPush ==
    ASSUME NEW s, Sound(s), NEW f, DOMAIN f = Fields,
           \/ IsChain(f)
           \/ /\ s # <<>> /\ Last(s).resolving \subseteq f.resolving
              /\ f.what = "let" => f.name \in f.resolving \ Last(s).resolving
    PROVE  Sound(Append(s, f))
<1> DEFINE t == Append(s, f)
<1>1. PICK S : s \in Seq(S)
  BY DEF Sound, IsStack
<1>2. /\ t \in Seq(S \cup {f}) /\ Len(t) = Len(s) + 1 /\ Len(s) \in Nat
      /\ \A i \in 1 .. Len(s) : t[i] = s[i]
      /\ t[Len(s) + 1] = f
  BY <1>1
<1> HIDE DEF t
<1>3. IsStack(t)
  <2>1. s = <<>> \/ (s # <<>> /\ 1 \in 1 .. Len(s))
    BY <1>1, EmptySeq, LenProperties
  <2>2. IsChain(t[1])
    BY <1>2, <2>1, EmptySeq, LenProperties DEF Sound, IsStack
  <2> QED
    BY <1>2, <2>2 DEF Sound, IsStack
<1>4. \A i, j \in 1 .. Len(s) : SamePath(t, i, j) <=> SamePath(s, i, j)
  BY <1>2, SamePathOfPrefix
<1>5. ASSUME NEW i \in 1 .. Len(s), t[i].what = "let", SamePath(t, i, Len(s) + 1)
      PROVE  t[i].name \in Last(s).resolving /\ ~IsChain(f)
  <2>1. ~IsChain(f) /\ SamePath(t, i, Len(s))
    BY <1>2, <1>5 DEF SamePath
  <2> QED
    BY <1>2, <1>4, <1>5, <2>1 DEF Sound, PathIsKept, Last
<1>6. PathIsKept(t)
  <2> SUFFICES ASSUME NEW i \in 1 .. Len(t), NEW j \in 1 .. Len(t),
                      t[i].what = "let", SamePath(t, i, j)
               PROVE  t[i].name \in t[j].resolving
    BY DEF PathIsKept
  <2>0. i <= j
    BY DEF SamePath
  <2>1. CASE j \in 1 .. Len(s)
    BY <1>2, <1>4, <2>0, <2>1 DEF Sound, PathIsKept
  <2>2. CASE j = Len(s) + 1 /\ i \in 1 .. Len(s)
    BY <1>2, <1>5, <2>2
  <2>3. CASE j = Len(s) + 1 /\ i = Len(s) + 1
    BY <1>2, <2>3 DEF IsChain
  <2> QED
    BY <1>2, <2>1, <2>2, <2>3
<1>7. NoRecursion(t)
  <2> SUFFICES ASSUME NEW i \in 1 .. Len(t), NEW j \in 1 .. Len(t), i < j,
                      t[i].what = "let", t[j].what = "let", t[i].name = t[j].name,
                      SamePath(t, i, j)
               PROVE  FALSE
    BY DEF NoRecursion
  <2>1. CASE j \in 1 .. Len(s)
    BY <1>2, <1>4, <2>1 DEF Sound, NoRecursion
  <2>2. CASE j = Len(s) + 1
    BY <1>2, <1>5, <2>2
  <2> QED
    BY <1>2, <2>1, <2>2
<1> QED
  BY <1>3, <1>6, <1>7 DEF Sound, t

-----------------------------------------------------------------------------
\* What the steps do to the stack.

LEMMA FrameFields ==
    ASSUME NEW a, NEW b, NEW c, NEW d
    PROVE  /\ DOMAIN Frame(a, b, c, d) = Fields /\ Frame(a, b, c, d).what = a
           /\ Frame(a, b, c, d).resolving = d
           /\ DOMAIN OscFrame(a, b, c, d) = Fields /\ OscFrame(a, b, c, d).what = "osc"
           /\ OscFrame(a, b, c, d).resolving = d
           /\ DOMAIN ChainFrame(a) = Fields /\ IsChain(ChainFrame(a))
           /\ DOMAIN LetFrame(a, b, c, d) = Fields /\ LetFrame(a, b, c, d).what = "let"
           /\ LetFrame(a, b, c, d).name = a
           /\ LetFrame(a, b, c, d).resolving = d \cup {a}
  BY DEF Frame, OscFrame, ChainFrame, LetFrame, NoFrame, Fields, IsChain

\* The innermost call of s changes, but for its name and its path.
LEMMA SoundUpdate ==
    ASSUME NEW s, Sound(s), s # <<>>, NEW f, DOMAIN f = Fields,
           f.what = Last(s).what, f.name = Last(s).name, f.resolving = Last(s).resolving
    PROVE  Sound([s EXCEPT ![Len(s)] = f]) /\ Len([s EXCEPT ![Len(s)] = f]) = Len(s)
<1> DEFINE t == [s EXCEPT ![Len(s)] = f]
<1>1. PICK S : s \in Seq(S)
  BY DEF Sound, IsStack
<1>2. Len(s) \in Nat \ {0}
  BY <1>1
<1>3. /\ t \in Seq(S \cup {f}) /\ Len(t) = Len(s) /\ t[Len(s)] = f
      /\ \A i \in 1 .. Len(s) : i # Len(s) => t[i] = s[i]
  BY <1>1, <1>2
<1> HIDE DEF t
<1>4. \A i \in 1 .. Len(s) :
         /\ DOMAIN t[i] = Fields
         /\ t[i].what = s[i].what /\ t[i].name = s[i].name /\ t[i].resolving = s[i].resolving
  BY <1>2, <1>3 DEF Last, Sound, IsStack
<1>5. Sound(t)
  BY <1>3, <1>4, SoundSame
<1> QED
  BY <1>3, <1>5 DEF t

LEMMA SoundGiven ==
    ASSUME NEW s, Sound(s), s # <<>>, NEW value
    PROVE  Sound(Given(s, value))
<1> DEFINE f == [s[Len(s)] EXCEPT !.todo = Tail(@), !.values = Append(@, value)]
<1>1. Len(s) \in 1 .. Len(s)
  BY EmptySeq, LenProperties DEF Sound, IsStack
<1>2. DOMAIN s[Len(s)] = Fields
  BY <1>1 DEF Sound, IsStack
<1>3. /\ DOMAIN f = Fields /\ f.what = Last(s).what /\ f.name = Last(s).name
      /\ f.resolving = Last(s).resolving
  BY <1>2 DEF Last, Fields
<1>4. Given(s, value) = [s EXCEPT ![Len(s)] = f]
  BY <1>1 DEF Given
<1> HIDE DEF f
<1>5. Sound([s EXCEPT ![Len(s)] = f])
  BY <1>3, SoundUpdate
<1> QED
  BY <1>4, <1>5

LEMMA SoundPending ==
    ASSUME NEW s, Sound(s), NEW c, NEW chain
    PROVE  LET t == [s EXCEPT ![c].pending = Append(@, chain)]
           IN  Sound(t) /\ Len(t) = Len(s)
<1> DEFINE g == [s[c] EXCEPT !.pending = Append(@, chain)]
           t == [s EXCEPT ![c].pending = Append(@, chain)]
<1>1. PICK S : s \in Seq(S)
  BY DEF Sound, IsStack
<1>2. t \in Seq(S \cup {g}) /\ Len(t) = Len(s)
  <2>1. t = [s EXCEPT ![c] = g]
    OBVIOUS
  <2>2. [s EXCEPT ![c] = g] \in Seq(S \cup {g}) /\ Len([s EXCEPT ![c] = g]) = Len(s)
    <3> HIDE DEF g
    <3>1. CASE c \in 1 .. Len(s)
      BY <1>1, <3>1
    <3>2. CASE c \notin 1 .. Len(s)
      <4>1. [s EXCEPT ![c] = g] = s
        BY <1>1, <3>2
      <4>2. s \in Seq(S \cup {g})
        BY <1>1
      <4> QED
        BY <4>1, <4>2
    <3> QED
      BY <3>1, <3>2
  <2> QED
    BY <2>1, <2>2
<1>3. \A i \in 1 .. Len(s) :
         /\ DOMAIN t[i] = Fields
         /\ t[i].what = s[i].what /\ t[i].name = s[i].name /\ t[i].resolving = s[i].resolving
  BY <1>1, <1>2 DEF Sound, IsStack, Fields
<1> HIDE DEF t
<1>4. Sound(t)
  BY <1>2, <1>3, SoundSame
<1> QED
  BY <1>2, <1>4 DEF t

-----------------------------------------------------------------------------
\* The steps.

LEMMA Pushes ==
    ASSUME Sound(stack), NEW f, Push(f), DOMAIN f = Fields,
           \/ IsChain(f)
           \/ /\ stack # <<>> /\ Top.resolving \subseteq f.resolving
              /\ f.what = "let" => f.name \in f.resolving \ Top.resolving
    PROVE  Sound(stack')
<1>1. CASE stack' = stack
  BY <1>1
<1>2. CASE stack' = Append(stack, f)
  BY <1>2, SoundPush DEF Top
<1> QED
  BY <1>1, <1>2 DEF Push, Stop

LEMMA Yields ==
    ASSUME Sound(stack), stack # <<>>, NEW value, Yield(value)
    PROVE  Sound(stack')
  BY SoundGiven DEF Yield, Reject, Stop

LEMMA SoundStep ==
    ASSUME Sound(stack), [Next]_vars
    PROVE  Sound(stack')
<1>1. CASE Declare
  BY <1>1 DEF Declare, Reject, Stop
<1>2. CASE EvaluateLiteral
  BY <1>2, Yields DEF EvaluateLiteral, AtValue
<1>3. CASE EvaluateFreeName
  BY <1>3, Yields DEF EvaluateFreeName, AtValue, Reject, Stop
<1>4. CASE EvaluateFunctionName
  BY <1>4, Yields DEF EvaluateFunctionName, AtValue, Reject, Stop
<1>5. CASE EvaluateLet
  <2> DEFINE f == LetFrame(Value.name, bindings[Value.name].expression, Top.depth, Top.resolving)
  <2>1. stack # <<>>
    BY <1>5 DEF EvaluateLet, AtValue
  <2>2. CASE stack' = stack
    BY <2>2
  <2>3. CASE \E value : Yield(value)
    BY <2>1, <2>3, Yields
  <2>4. CASE Value.name \notin Top.resolving /\ Push(f)
    <3>1. /\ DOMAIN f = Fields /\ f.what = "let" /\ f.name = Value.name
          /\ f.resolving = Top.resolving \cup {Value.name}
      BY FrameFields
    <3> HIDE DEF f
    <3> QED
      BY <2>1, <2>4, <3>1, Pushes
  <2> QED
    BY <1>5, <2>2, <2>3, <2>4 DEF EvaluateLet, Reject, Stop
<1>6. CASE EvaluateOscillator
  <2> DEFINE f == OscFrame(Value.type, Value.fields, Top.depth + 1, Top.resolving)
  <2>1. DOMAIN f = Fields /\ f.what = "osc" /\ f.resolving = Top.resolving
    BY FrameFields
  <2>2. stack' = stack \/ (stack # <<>> /\ Push(f))
    BY <1>6 DEF EvaluateOscillator, AtValue, Reject, Stop
  <2> HIDE DEF f
  <2> QED
    BY <2>1, <2>2, Pushes
<1>7. CASE EvaluateCompound
  <2> DEFINE f == Frame(Value.kind, Value.values,
                        IF Value.kind = "array" THEN Top.depth ELSE 0, Top.resolving)
  <2>1. DOMAIN f = Fields /\ f.what = Value.kind /\ f.resolving = Top.resolving
    BY FrameFields
  <2>2. stack # <<>> /\ Push(f) /\ Value.kind # "let"
    BY <1>7 DEF EvaluateCompound, AtValue
  <2> HIDE DEF f
  <2> QED
    BY <2>1, <2>2, Pushes
<1>8. CASE EvaluateChain
  <2>1. DOMAIN ChainFrame(Value.calls) = Fields /\ IsChain(ChainFrame(Value.calls))
    BY FrameFields
  <2> QED
    BY <1>8, <2>1, Pushes DEF EvaluateChain
<1>9. CASE ChainBegins
  <2>1. DOMAIN ChainFrame(program[next].calls) = Fields /\ IsChain(ChainFrame(program[next].calls))
    BY FrameFields
  <2> QED
    BY <1>9, <2>1, Pushes DEF ChainBegins
<1>10. CASE ValueEnds
  <2>1. stack # <<>> /\ ~IsChain(Top)
    BY <1>10 DEF ValueEnds
  <2>2. Sound(Front(stack)) /\ Front(stack) # <<>>
    <3>1. Len(stack) # 1
      BY <2>1 DEF Top, Last, Sound, IsStack
    <3>2. Len(stack) \in Nat \ {0}
      BY <2>1, EmptySeq, LenProperties DEF Sound, IsStack
    <3>3. Sound(Front(stack)) /\ Len(Front(stack)) = Len(stack) - 1
      BY <2>1, SoundPop
    <3> QED
      BY <3>1, <3>2, <3>3
  <2>3. stack' = stack \/ \E value : stack' = Given(Front(stack), value)
    BY <1>10 DEF ValueEnds, Reject, Stop
  <2> QED
    BY <2>2, <2>3, SoundGiven
<1>11. CASE CallBegins
  <2> DEFINE Begun(call, todo) == [stack EXCEPT ![Len(stack)].call = call,
                                                ![Len(stack)].calls = Tail(@),
                                                ![Len(stack)].todo = todo]
  <2>1. stack # <<>>
    BY <1>11 DEF CallBegins, AtChain
  <2>2. stack' = stack \/ \E call, todo : stack' = Begun(call, todo)
    BY <1>11 DEF CallBegins, Reject, Stop
  <2>3. ASSUME NEW call, NEW todo
        PROVE  Sound(Begun(call, todo))
    <3> DEFINE f == [Last(stack) EXCEPT !.call = call, !.calls = Tail(@), !.todo = todo]
    <3>1. Len(stack) \in 1 .. Len(stack) /\ DOMAIN Last(stack) = Fields
      BY <2>1, EmptySeq, LenProperties DEF Sound, IsStack, Last
    <3>2. /\ DOMAIN f = Fields /\ f.what = Last(stack).what /\ f.name = Last(stack).name
          /\ f.resolving = Last(stack).resolving
      BY <3>1 DEF Fields
    <3>3. Begun(call, todo) = [stack EXCEPT ![Len(stack)] = f]
      BY <3>1 DEF Last
    <3> HIDE DEF f, Begun
    <3>4. Sound([stack EXCEPT ![Len(stack)] = f])
      BY <2>1, <3>2, SoundUpdate
    <3> QED
      BY <3>3, <3>4
  <2> HIDE DEF Begun
  <2> QED
    BY <2>2, <2>3
<1>12. CASE CallEnds
  <2> DEFINE Ended(step) == [stack EXCEPT
                ![Len(stack)].call = <<>>, ![Len(stack)].pending = <<>>,
                ![Len(stack)].values = <<>>, ![Len(stack)].first = FALSE,
                ![Len(stack)].steps = Append(@, step)]
  <2>1. stack # <<>>
    BY <1>12 DEF CallEnds, AtChain
  <2>2. stack' = stack \/ \E step : stack' = Ended(step)
    BY <1>12 DEF CallEnds, Reject, Stop
  <2>3. ASSUME NEW step
        PROVE  Sound(Ended(step))
    <3> DEFINE f == [Last(stack) EXCEPT !.call = <<>>, !.pending = <<>>, !.values = <<>>,
                                        !.first = FALSE, !.steps = Append(@, step)]
    <3>1. Len(stack) \in 1 .. Len(stack) /\ DOMAIN Last(stack) = Fields
      BY <2>1, EmptySeq, LenProperties DEF Sound, IsStack, Last
    <3>2. /\ DOMAIN f = Fields /\ f.what = Last(stack).what /\ f.name = Last(stack).name
          /\ f.resolving = Last(stack).resolving
      BY <3>1 DEF Fields
    <3>3. Ended(step) = [stack EXCEPT ![Len(stack)] = f]
      BY <3>1 DEF Last, Fields
    <3> HIDE DEF f, Ended
    <3>4. Sound([stack EXCEPT ![Len(stack)] = f])
      BY <2>1, <3>2, SoundUpdate
    <3> QED
      BY <3>3, <3>4
  <2> HIDE DEF Ended
  <2> QED
    BY <2>2, <2>3
<1>13. CASE StatementEnds
  BY <1>13, SoundStart DEF StatementEnds
<1>14. CASE ArgumentEnds
  <2>1. stack # <<>> /\ Len(stack) > 1
    BY <1>14 DEF ArgumentEnds, ChainIsOver, AtChain
  <2>2. Sound(Front(stack)) /\ Len(Front(stack)) = Len(stack) - 1 /\ Len(stack) \in Nat
    BY <2>1, SoundPop DEF Sound, IsStack
  <2> DEFINE t(c, chain) == [Front(stack) EXCEPT ![c].pending = Append(@, chain)]
  <2>3. stack' = stack \/ \E c, chain, value : stack' = Given(t(c, chain), value)
    BY <1>14 DEF ArgumentEnds, Reject, Stop
  <2>4. ASSUME NEW c, NEW chain
        PROVE  Sound(t(c, chain)) /\ Len(t(c, chain)) = Len(stack) - 1
    BY <2>2, SoundPending
  <2> HIDE DEF t
  <2>5. ASSUME NEW c, NEW chain, NEW value
        PROVE  Sound(Given(t(c, chain), value))
    <3>1. t(c, chain) # <<>>
      BY <2>1, <2>2, <2>4
    <3> QED
      BY <2>4, <3>1, SoundGiven
  <2> QED
    BY <2>3, <2>5
<1>15. CASE Finish
  BY <1>15 DEF Finish, Stop
<1>16. CASE UNCHANGED vars
  BY <1>16 DEF vars
<1> QED
  BY <1>1, <1>2, <1>3, <1>4, <1>5, <1>6, <1>7, <1>8, <1>9, <1>10, <1>11, <1>12,
     <1>13, <1>14, <1>15, <1>16 DEF Next

LEMMA StackIsSound == Spec => []Sound(stack)
<1>1. Init => Sound(stack)
  BY SoundStart DEF Init
<1>2. Sound(stack) /\ [Next]_vars => Sound(stack)'
  BY SoundStep
<1> QED
  BY <1>1, <1>2, PTL DEF Spec

\* While a let resolves it is asked for again only by a chain argument within
\* it: resolve_binding's cycle test leaves no other way (compiler.cpp:486).
THEOREM ResolvingLetsDiffer == Spec => []OnlyChainsRecurse
<1>1. Sound(stack) => OnlyChainsRecurse
  <2> SUFFICES ASSUME NoRecursion(stack), Len(stack) \in Nat,
                      NEW i \in 1 .. Len(stack), NEW j \in 1 .. Len(stack),
                      i < j, stack[i].what = "let", stack[j].what = "let",
                      stack[i].name = stack[j].name
               PROVE  \E k \in i + 1 .. j - 1 : IsChain(stack[k])
    BY DEF Sound, IsStack, OnlyChainsRecurse
  <2>1. PICK k \in i + 1 .. j : IsChain(stack[k])
    BY DEF NoRecursion, SamePath
  <2>2. k # j
    BY <2>1 DEF IsChain
  <2> QED
    BY <2>1, <2>2
<1> QED
  BY <1>1, StackIsSound, PTL

-----------------------------------------------------------------------------
\* A let whose resolution leads to itself never resolves, and so no let is
\* given a value twice.  Calls are compared by their places: what they have
\* still to evaluate.

Rest(s, n) == SubSeq(s, n + 1, Len(s))
IsRest(t, s) == \E n \in 0 .. Len(s) : t = Rest(s, n)

SamePlace(f, g) ==
    /\ f.what = g.what /\ f.name = g.name
    /\ f.todo = g.todo /\ f.calls = g.calls /\ f.call = g.call

\* FunctionOf and CallOf, with the bindings B.
FunctionIn(B, written) ==
    IF written.name \in Names /\ B[written.name] # Unbound
    THEN B[written.name] ELSE AliasOf(written.name)

CallIn(B, written) ==
    IF FunctionIn(B, written).kind = "alias"
    THEN [written EXCEPT !.name = FunctionIn(B, written).name]
    ELSE Merged(FunctionIn(B, written).call, written)

\* g resolves the arguments of a written call, or is done with it.
AtCall(B, g, written) ==
    \/ g.call = <<>> /\ g.todo = <<>>
    \/ /\ IsEffectFunction(FunctionIn(B, written)) /\ g.call = <<CallIn(B, written)>>
       /\ IsRest(g.todo, ValuesOf(CallIn(B, written)))

\* g is where f is, or where f will come to.
AtOrAhead(B, g, f) ==
    /\ g.what = f.what /\ g.name = f.name
    /\ \/ g.calls = f.calls /\ g.call = f.call /\ IsRest(g.todo, f.todo)
       \/ g.calls = f.calls /\ f.call # <<>> /\ g.call = <<>> /\ g.todo = <<>>
       \/ \E n \in 1 .. Len(f.calls) :
             g.calls = Rest(f.calls, n) /\ AtCall(B, g, f.calls[n])

IsLet(B, name) == name \in Names /\ B[name] # Unbound /\ B[name].kind = "lazy"

\* The values that are not evaluated on the spot, and where their calls start.
Opens(B, e) ==
    \/ e.kind \in {"osc", "array", "vector", "arithmetic", "chain"}
    \/ e.kind = "name" /\ IsLet(B, e.name)

StartOf(B, e) ==
    IF e.kind = "name" THEN LetFrame(e.name, B[e.name].expression, 0, {})
    ELSE IF e.kind = "osc" THEN OscFrame(e.type, e.fields, 0, {})
    ELSE IF e.kind = "chain" THEN ChainFrame(e.calls)
    ELSE Frame(e.kind, e.values, 0, {})

FrameOK(f) ==
    /\ f.todo \in Seq(Expressions) /\ f.calls \in Seq(CallType)
    /\ IF IsChain(f) THEN f.call = <<>> => f.todo = <<>>
                     ELSE f.call = <<>> /\ f.calls = <<>>

FramesOK(s) == \A m \in 1 .. Len(s) : FrameOK(s[m])

BindingOK(b) ==
    \/ b = Unbound
    \/ b.kind = "alias" /\ b.name \in Effects
    \/ b.kind = "partial" /\ b.call \in CallType
    \/ /\ b.kind = "lazy" /\ b.expression \in Expressions
       /\ DOMAIN b = {"kind", "expression", "value"}

BindingsOK(B) == DOMAIN B = Names /\ \A n \in Names : BindingOK(B[n])

\* Every call but the innermost waits for the first of the values that it has
\* still to evaluate, whose call is above it.
WaitsFor(B, f, g) ==
    /\ f.todo # <<>> /\ Opens(B, Head(f.todo))
    /\ AtOrAhead(B, g, StartOf(B, Head(f.todo)))

Waiting(B, s) == \A m \in 1 .. Len(s) - 1 : WaitsFor(B, s[m], s[m + 1])

\* A let has no value while it resolves.
Unresolved(B, s) ==
    \A m \in 1 .. Len(s) :
        s[m].what = "let" => IsLet(B, s[m].name) /\ B[s[m].name].value = <<>>

SameLet(f, g) == f.what = "let" /\ g.what = "let" /\ f.name = g.name

LockStep(s, i, j, k) == \A l \in 0 .. k - 1 : SamePlace(s[i + l], s[j + l])

\* When a let is resolved within itself the inner resolution repeats the outer
\* one and never overtakes it.
Following(B, s) ==
    \A i, j \in 1 .. Len(s) :
        i < j /\ SameLet(s[i], s[j])
        => \A k \in 0 .. Len(s) - j :
              LockStep(s, i, j, k) => AtOrAhead(B, s[i + k], s[j + k])

IsResolving(B, s) ==
    /\ Sound(s) /\ FramesOK(s)
    /\ Waiting(B, s) /\ Unresolved(B, s) /\ Following(B, s)

Resolution ==
    /\ next \in Nat \ {0} /\ program \in Programs
    /\ BindingsOK(bindings) /\ IsResolving(bindings, stack)

-----------------------------------------------------------------------------
\* What is left of a sequence.

LEMMA RestProperties ==
    ASSUME NEW S, NEW s \in Seq(S), NEW n \in 0 .. Len(s)
    PROVE  /\ Rest(s, n) \in Seq(S) /\ Len(Rest(s, n)) = Len(s) - n
           /\ \A i \in 1 .. Len(s) - n : Rest(s, n)[i] = s[n + i]
<1>1. Len(s) \in Nat /\ n \in Nat
  BY LenProperties
<1>2. \A i \in n + 1 .. Len(s) : s[i] \in S
  BY <1>1, LenProperties
<1>3. /\ SubSeq(s, n + 1, Len(s)) \in Seq(S)
      /\ Len(SubSeq(s, n + 1, Len(s))) =
           IF n + 1 <= Len(s) THEN Len(s) - (n + 1) + 1 ELSE 0
      /\ \A i \in 1 .. Len(s) - (n + 1) + 1 : SubSeq(s, n + 1, Len(s))[i] = s[n + 1 + i - 1]
  BY <1>1, <1>2, SubSeqProperties
<1> QED
  BY <1>1, <1>3 DEF Rest

LEMMA RestNone ==
    ASSUME NEW S, NEW s \in Seq(S)
    PROVE  Rest(s, 0) = s /\ IsRest(s, s)
<1>1. Len(s) \in Nat /\ 0 \in 0 .. Len(s)
  BY LenProperties
<1>2. Rest(s, 0) = s
  BY <1>1, RestProperties, SeqEqual
<1> QED
  BY <1>1, <1>2 DEF IsRest

LEMMA RestTail ==
    ASSUME NEW S, NEW s \in Seq(S), NEW n \in 0 .. Len(s), Rest(s, n) # <<>>
    PROVE  n + 1 \in 1 .. Len(s) /\ Tail(Rest(s, n)) = Rest(s, n + 1)
           /\ Head(Rest(s, n)) = s[n + 1]
<1>1. /\ Len(s) \in Nat /\ n \in Nat
      /\ Rest(s, n) \in Seq(S) /\ Len(Rest(s, n)) = Len(s) - n
      /\ \A i \in 1 .. Len(s) - n : Rest(s, n)[i] = s[n + i]
  BY RestProperties, LenProperties
<1>2. n + 1 \in 1 .. Len(s)
  BY <1>1, EmptySeq
<1>3. /\ Tail(Rest(s, n)) \in Seq(S) /\ Len(Tail(Rest(s, n))) = Len(s) - n - 1
      /\ \A i \in 1 .. Len(s) - n - 1 : Tail(Rest(s, n))[i] = s[n + i + 1]
      /\ Head(Rest(s, n)) = s[n + 1]
  <2>1. PICK r \in Seq(S) : r = Rest(s, n)
    BY <1>1
  <2>2. /\ Tail(r) \in Seq(S) /\ Len(Tail(r)) = Len(r) - 1
        /\ \A i \in 1 .. Len(r) - 1 : Tail(r)[i] = r[i + 1]
        /\ Head(r) = r[1]
    BY <1>1, <2>1, HeadTailProperties
  <2> QED
    BY <1>1, <1>2, <2>1, <2>2
<1>4. /\ Rest(s, n + 1) \in Seq(S) /\ Len(Rest(s, n + 1)) = Len(s) - (n + 1)
      /\ \A i \in 1 .. Len(s) - (n + 1) : Rest(s, n + 1)[i] = s[n + 1 + i]
  <2>1. n + 1 \in 0 .. Len(s)
    BY <1>1, <1>2
  <2> QED
    BY <2>1, RestProperties
<1>5. Tail(Rest(s, n)) = Rest(s, n + 1)
  <2>0. /\ Len(s) - (n + 1) = Len(s) - n - 1
        /\ \A i \in 1 .. Len(s) - n - 1 : n + i + 1 = n + 1 + i
    BY <1>1
  <2>1. Len(Tail(Rest(s, n))) = Len(Rest(s, n + 1))
    BY <1>3, <1>4, <2>0
  <2>2. \A i \in 1 .. Len(Tail(Rest(s, n))) : Tail(Rest(s, n))[i] = Rest(s, n + 1)[i]
    BY <1>3, <1>4, <2>0
  <2> QED
    BY <1>3, <1>4, <2>1, <2>2, SeqEqual
<1> QED
  BY <1>2, <1>3, <1>5

\* The rest of a sequence is, unless it is all of it, a rest of the tail.
LEMMA TailRest ==
    ASSUME NEW S, NEW s \in Seq(S), s # <<>>
    PROVE  /\ Tail(s) \in Seq(S) /\ Len(Tail(s)) = Len(s) - 1
           /\ Tail(s) = Rest(s, 1) /\ Head(s) = s[1] /\ Head(s) \in S
           /\ \A n \in 1 .. Len(s) : Rest(s, n) = Rest(Tail(s), n - 1)
           /\ \A n \in 1 .. Len(s) - 1 : Tail(s)[n] = s[n + 1]
<1>1. Len(s) \in Nat \ {0}
  BY EmptySeq, LenProperties
<1>2. /\ Tail(s) \in Seq(S) /\ Len(Tail(s)) = Len(s) - 1
      /\ \A i \in 1 .. Len(s) - 1 : Tail(s)[i] = s[i + 1]
      /\ Head(s) \in S /\ Head(s) = s[1]
  BY HeadTailProperties
<1>3. Tail(s) = Rest(s, 1)
  <2>1. Rest(s, 0) = s /\ 0 \in 0 .. Len(s)
    BY <1>1, RestNone
  <2>2. Tail(Rest(s, 0)) = Rest(s, 0 + 1)
    BY <2>1, RestTail
  <2> QED
    BY <2>1, <2>2
<1>4. ASSUME NEW n \in 1 .. Len(s)
      PROVE  Rest(s, n) = Rest(Tail(s), n - 1)
  <2>1. /\ Rest(s, n) \in Seq(S) /\ Len(Rest(s, n)) = Len(s) - n
        /\ \A i \in 1 .. Len(s) - n : Rest(s, n)[i] = s[n + i]
    <3>1. n \in 0 .. Len(s)
      BY <1>1
    <3> QED
      BY <3>1, RestProperties
  <2>2. n - 1 \in 0 .. Len(Tail(s))
    <3>1. n - 1 \in 0 .. Len(s) - 1
      BY <1>1
    <3> QED
      BY <1>2, <3>1
  <2>3. /\ Rest(Tail(s), n - 1) \in Seq(S) /\ Len(Rest(Tail(s), n - 1)) = Len(Tail(s)) - (n - 1)
        /\ \A i \in 1 .. Len(Tail(s)) - (n - 1) : Rest(Tail(s), n - 1)[i] = Tail(s)[n - 1 + i]
    <3>1. PICK r \in Seq(S) : r = Tail(s)
      BY <1>2
    <3>2. PICK m \in 0 .. Len(r) : m = n - 1
      BY <2>2, <3>1
    <3>3. /\ Rest(r, m) \in Seq(S) /\ Len(Rest(r, m)) = Len(r) - m
          /\ \A i \in 1 .. Len(r) - m : Rest(r, m)[i] = r[m + i]
      BY RestProperties
    <3> QED
      BY <3>1, <3>2, <3>3
  <2>4. Len(Rest(s, n)) = Len(Rest(Tail(s), n - 1))
    <3>1. (Len(s) - 1) - (n - 1) = Len(s) - n
      BY <1>1
    <3> QED
      BY <1>2, <2>1, <2>3, <3>1
  <2>5. \A i \in 1 .. Len(Rest(s, n)) : Rest(s, n)[i] = Rest(Tail(s), n - 1)[i]
    <3> SUFFICES ASSUME NEW i \in 1 .. Len(s) - n
                 PROVE  Rest(s, n)[i] = Rest(Tail(s), n - 1)[i]
      BY <2>1
    <3>1. n - 1 + i \in 1 .. Len(s) - 1 /\ i \in 1 .. Len(Tail(s)) - (n - 1)
      BY <1>1, <1>2
    <3>2. Tail(s)[n - 1 + i] = s[(n - 1 + i) + 1]
      BY <1>2, <3>1
    <3>3. (n - 1 + i) + 1 = n + i
      BY <1>1
    <3> QED
      BY <2>1, <2>3, <3>1, <3>2, <3>3
  <2> QED
    BY <2>1, <2>3, <2>4, <2>5, SeqEqual
<1> QED
  BY <1>2, <1>3, <1>4

LEMMA RestOfRest ==
    ASSUME NEW S, NEW s \in Seq(S), NEW t, IsRest(t, s)
    PROVE  /\ t \in Seq(S)
           /\ t # <<>> => IsRest(Tail(t), s)
           /\ t # s => s # <<>> /\ IsRest(t, Tail(s))
           /\ s = <<>> => t = <<>>
<1>1. PICK n \in 0 .. Len(s) : t = Rest(s, n)
  BY DEF IsRest
<1>2. t \in Seq(S) /\ Len(s) \in Nat
  BY <1>1, RestProperties, LenProperties
<1>3. ASSUME t # <<>> PROVE IsRest(Tail(t), s)
  <2>1. n + 1 \in 0 .. Len(s) /\ Tail(t) = Rest(s, n + 1)
    BY <1>1, <1>2, <1>3, RestTail
  <2> QED
    BY <2>1 DEF IsRest
<1>4. ASSUME t # s PROVE s # <<>> /\ IsRest(t, Tail(s))
  <2>1. n # 0
    BY <1>1, <1>4, RestNone
  <2>2. s # <<>> /\ n \in 1 .. Len(s)
    BY <1>2, <2>1, EmptySeq
  <2>3. Len(Tail(s)) = Len(s) - 1 /\ t = Rest(Tail(s), n - 1)
    BY <1>1, <2>2, TailRest
  <2>4. n - 1 \in 0 .. Len(Tail(s))
    BY <1>2, <2>2, <2>3
  <2> QED
    BY <2>2, <2>3, <2>4 DEF IsRest
<1>5. s = <<>> => t = <<>>
  BY <1>4
<1> QED
  BY <1>2, <1>3, <1>4, <1>5

-----------------------------------------------------------------------------
\* What the parser builds stays what the parser builds: merge_arguments.

\* Induction over the naturals, for a set in place of a predicate.
LEMMA SetInduction ==
    ASSUME NEW S, 0 \in S, \A n \in Nat : n \in S => n + 1 \in S
    PROVE  Nat \subseteq S
<1> DEFINE T == Nat \ S
           R == OpToRel(<, Nat)
<1>1. R = {ss \in Nat \X Nat : ss[1] < ss[2]}
  BY DEF OpToRel
<1>2. SUFFICES ASSUME T # {} PROVE FALSE
  OBVIOUS
<1>3. IsWellFoundedOn(R, Nat)
  BY NatLessThanWellFounded
<1>4. T \subseteq Nat
  OBVIOUS
<1> HIDE DEF R, T
<1>5. PICK x \in T : \A y \in T : ~(<<y, x>> \in R)
  BY <1>2, <1>3, <1>4, WFMin
<1> USE DEF T
<1>6. x \in Nat /\ x # 0 /\ x - 1 \in Nat /\ x = (x - 1) + 1
  OBVIOUS
<1>7. x - 1 \in T
  BY <1>6
<1>8. <<x - 1, x>> \in R
  BY <1>1, <1>6
<1> QED
  BY <1>5, <1>7, <1>8

LEMMA PutSeq ==
    ASSUME NEW S, NEW s \in Seq(S), NEW x \in S
    PROVE  Put(s, x) \in Seq(S)
<1> DEFINE same == {i \in 1 .. Len(s) : s[i].key = x.key}
           c == CHOOSE i \in same : \A j \in same : i <= j
<1>1. Append(s, x) \in Seq(S)
  OBVIOUS
<1>2. [s EXCEPT ![c] = x] \in Seq(S)
  <2> HIDE DEF c
  <2>1. CASE c \in 1 .. Len(s)
    BY <2>1, ExceptSeq
  <2>2. CASE c \notin 1 .. Len(s)
    <3>1. [s EXCEPT ![c] = x] = s
      BY <2>2
    <3> QED
      BY <3>1
  <2> QED
    BY <2>1, <2>2
<1> QED
  BY <1>1, <1>2 DEF Put

\* The arguments after each of the first n is put.
PutUpTo(f, n, arguments) ==
    f = [i \in 0 .. n |-> IF i = 0 THEN <<>> ELSE Put(f[i - 1], arguments[i])]

LEMMA PutUpToExists ==
    ASSUME NEW S, NEW arguments \in Seq(S), NEW n \in 0 .. Len(arguments)
    PROVE  \E f : PutUpTo(f, n, arguments) /\ f[n] \in Seq(S)
<1> DEFINE E(m) == m <= Len(arguments) =>
                     \E f : PutUpTo(f, m, arguments) /\ f[m] \in Seq(S)
           N == {m \in Nat : E(m)}
<1>0. Len(arguments) \in Nat
  BY LenProperties
<1>1. E(0)
  <2> DEFINE g == [i \in 0 .. 0 |-> <<>>]
  <2>1. PutUpTo(g, 0, arguments) /\ g[0] \in Seq(S)
    BY DEF PutUpTo
  <2> HIDE DEF g
  <2> QED
    BY <2>1
<1>2. ASSUME NEW m \in Nat, E(m) PROVE E(m + 1)
  <2> SUFFICES ASSUME m + 1 <= Len(arguments)
               PROVE  \E f : PutUpTo(f, m + 1, arguments) /\ f[m + 1] \in Seq(S)
    OBVIOUS
  <2>1. PICK f : PutUpTo(f, m, arguments) /\ f[m] \in Seq(S)
    BY <1>0, <1>2
  <2> DEFINE g == [i \in 0 .. m + 1 |->
                     IF i = m + 1 THEN Put(f[m], arguments[m + 1]) ELSE f[i]]
  <2>2. ASSUME NEW i \in 0 .. m + 1
        PROVE  g[i] = IF i = 0 THEN <<>> ELSE Put(g[i - 1], arguments[i])
    <3>1. CASE i = 0
      BY <2>1, <3>1 DEF PutUpTo
    <3>2. CASE i = m + 1
      BY <3>2
    <3>3. CASE i \in 1 .. m
      <4>1. g[i] = f[i] /\ g[i - 1] = f[i - 1]
        BY <3>3
      <4>2. f[i] = Put(f[i - 1], arguments[i])
        BY <2>1, <3>3 DEF PutUpTo
      <4> QED
        BY <3>3, <4>1, <4>2
    <3> QED
      BY <3>1, <3>2, <3>3
  <2>3. g = [i \in 0 .. m + 1 |-> g[i]]
    OBVIOUS
  <2>4. arguments[m + 1] \in S
    BY <1>0, ElementOfSeq
  <2>5. g[m + 1] \in Seq(S)
    <3>1. Put(f[m], arguments[m + 1]) \in Seq(S)
      BY <2>1, <2>4, PutSeq
    <3>2. g[m + 1] = Put(f[m], arguments[m + 1])
      OBVIOUS
    <3> QED
      BY <3>1, <3>2
  <2> HIDE DEF g
  <2>6. PutUpTo(g, m + 1, arguments)
    BY <2>2, <2>3 DEF PutUpTo
  <2> QED
    BY <2>5, <2>6
<1> HIDE DEF E
<1>3. 0 \in N /\ \A m \in Nat : m \in N => m + 1 \in N
  BY <1>1, <1>2
<1> HIDE DEF N
<1>4. n \in N
  BY <1>0, <1>3, SetInduction
<1> QED
  BY <1>0, <1>4 DEF E, N

\* Two tables of the same puts agree.
LEMMA PutAllSeq ==
    ASSUME NEW S, NEW arguments \in Seq(S)
    PROVE  PutAll(arguments) \in Seq(S)
<1> DEFINE n == Len(arguments)
           f == CHOOSE f : PutUpTo(f, n, arguments)
<1>1. n \in Nat /\ n \in 0 .. n
  BY LenProperties
<1>2. PutAll(arguments) = f[n]
  BY DEF PutAll, PutUpTo
<1>3. PutUpTo(f, n, arguments)
  BY <1>1, PutUpToExists
<1>4. ASSUME NEW m \in 0 .. n PROVE f[m] \in Seq(S)
  <2> DEFINE N == {i \in Nat : i <= n => f[i] \in Seq(S)}
  <2> HIDE DEF f
  <2>1. 0 \in N
    BY <1>1, <1>3 DEF PutUpTo
  <2>2. ASSUME NEW i \in Nat, i \in N PROVE i + 1 \in N
    <3> SUFFICES ASSUME i + 1 <= n PROVE f[i + 1] \in Seq(S)
      OBVIOUS
    <3>1. f[i + 1] = Put(f[i], arguments[i + 1])
      BY <1>1, <1>3 DEF PutUpTo
    <3>2. f[i] \in Seq(S) /\ arguments[i + 1] \in S
      BY <1>1, <2>2, ElementOfSeq
    <3> QED
      BY <3>1, <3>2, PutSeq
  <2> HIDE DEF N
  <2>3. m \in N
    BY <1>1, <2>1, <2>2, SetInduction
  <2> QED
    BY <1>1, <2>3 DEF N
<1> QED
  BY <1>1, <1>2, <1>4

ArgumentType == [key : STRING, value : Expressions]

LEMMA MergedType ==
    ASSUME NEW stored \in CallType, NEW call \in CallType
    PROVE  Merged(stored, call) \in CallType
<1>1. /\ stored.arguments \in Seq(ArgumentType) /\ call.arguments \in Seq(ArgumentType)
      /\ stored.name \in STRING
      /\ stored.mode \in {"none", "positional", "named"}
      /\ call.mode \in {"none", "positional", "named"}
  BY DEF CallType, ArgumentType
<1>2. stored.arguments \o call.arguments \in Seq(ArgumentType)
  BY <1>1, ConcatProperties
<1>3. PutAll(stored.arguments \o call.arguments) \in Seq(ArgumentType)
  BY <1>2, PutAllSeq
<1>4. Merged(stored, call).arguments \in Seq(ArgumentType)
  BY <1>2, <1>3 DEF Merged
<1>5. /\ Merged(stored, call) =
           [name |-> Merged(stored, call).name, mode |-> Merged(stored, call).mode,
            arguments |-> Merged(stored, call).arguments]
      /\ Merged(stored, call).name \in STRING
      /\ Merged(stored, call).mode \in {"none", "positional", "named"}
  BY <1>1 DEF Merged
<1> QED
  BY <1>4, <1>5 DEF CallType, ArgumentType

LEMMA ValuesType ==
    ASSUME NEW call \in CallType
    PROVE  ValuesOf(call) \in Seq(Expressions)
<1>1. call.arguments \in Seq(ArgumentType)
  BY DEF CallType, ArgumentType
<1>2. Len(call.arguments) \in Nat
  BY <1>1, LenProperties
<1>3. \A i \in 1 .. Len(call.arguments) : call.arguments[i].value \in Expressions
  <2>1. \A i \in 1 .. Len(call.arguments) : call.arguments[i] \in ArgumentType
    BY <1>1, ElementOfSeq
  <2> QED
    BY <2>1 DEF ArgumentType
<1> QED
  BY <1>2, <1>3, SeqDef DEF ValuesOf

\* What a let binds is a function or a value, as the parser built it.
LEMMA CallIsTyped ==
    ASSUME NEW B, BindingsOK(B), NEW written \in CallType,
           IsEffectFunction(FunctionIn(B, written))
    PROVE  /\ CallIn(B, written) \in CallType
           /\ ValuesOf(CallIn(B, written)) \in Seq(Expressions)
<1>1. written.name \in STRING
  BY DEF CallType
<1>2. CASE FunctionIn(B, written).kind = "alias"
  <2>1. FunctionIn(B, written).name \in STRING
    BY <1>1, <1>2, GrammarAssumption
       DEF FunctionIn, BindingsOK, BindingOK, Unbound, AliasOf
  <2>2. CallIn(B, written) = [written EXCEPT !.name = FunctionIn(B, written).name]
    BY <1>2 DEF CallIn
  <2> QED
    BY <2>1, <2>2, ValuesType DEF CallType
<1>3. CASE FunctionIn(B, written).kind # "alias"
  <2>1. FunctionIn(B, written).kind = "partial"
    BY <1>3 DEF IsEffectFunction
  <2>2. FunctionIn(B, written).call \in CallType
    BY <2>1 DEF FunctionIn, BindingsOK, BindingOK, Unbound, AliasOf
  <2> QED
    BY <1>3, <2>2, MergedType, ValuesType DEF CallIn
<1> QED
  BY <1>2, <1>3

LEMMA FunctionsAreIn ==
    ASSUME NEW written
    PROVE  /\ FunctionOf(written) = FunctionIn(bindings, written)
           /\ CallOf(written) = CallIn(bindings, written)
  BY DEF FunctionOf, FunctionIn, CallOf, CallIn, IsBound

-----------------------------------------------------------------------------
\* A call moves on: it takes a value, or begins or ends the next call of a chain.

TakesValue(f, f2) ==
    f.todo # <<>> /\ f2.todo = Tail(f.todo) /\ f2.calls = f.calls /\ f2.call = f.call

Begins(B, f, f2) ==
    /\ f.call = <<>> /\ f.todo = <<>> /\ f.calls # <<>>
    /\ IsEffectFunction(FunctionIn(B, Head(f.calls)))
    /\ f2.call = <<CallIn(B, Head(f.calls))>> /\ f2.calls = Tail(f.calls)
    /\ f2.todo = ValuesOf(CallIn(B, Head(f.calls)))

Ends(f, f2) ==
    /\ f.call # <<>> /\ f.todo = <<>>
    /\ f2.call = <<>> /\ f2.todo = <<>> /\ f2.calls = f.calls

Moves(B, f, f2) ==
    /\ f2.what = f.what /\ f2.name = f.name
    /\ TakesValue(f, f2) \/ Begins(B, f, f2) \/ Ends(f, f2)

IsDone(f) == f.todo = <<>> /\ f.call = <<>> /\ f.calls = <<>>

LEMMA MovesOK ==
    ASSUME NEW B, BindingsOK(B), NEW f, FrameOK(f), NEW f2, Moves(B, f, f2)
    PROVE  FrameOK(f2)
<1>1. f.todo \in Seq(Expressions) /\ f.calls \in Seq(CallType)
  BY DEF FrameOK
<1>2. CASE TakesValue(f, f2)
  <2>1. Tail(f.todo) \in Seq(Expressions)
    BY <1>1, <1>2, HeadTailProperties DEF TakesValue
  <2> QED
    BY <1>1, <1>2, <2>1 DEF TakesValue, FrameOK, Moves, IsChain
<1>3. CASE Begins(B, f, f2)
  <2>1. Tail(f.calls) \in Seq(CallType) /\ Head(f.calls) \in CallType
    BY <1>1, <1>3, HeadTailProperties DEF Begins
  <2>2. f2.todo \in Seq(Expressions)
    BY <1>3, <2>1, CallIsTyped DEF Begins
  <2>3. IsChain(f2) /\ f2.call # <<>>
    BY <1>3 DEF Begins, FrameOK, Moves, IsChain
  <2> QED
    BY <1>3, <2>1, <2>2, <2>3 DEF Begins, FrameOK
<1>4. CASE Ends(f, f2)
  <2>1. IsChain(f2) /\ f2.todo \in Seq(Expressions)
    BY <1>4 DEF Ends, FrameOK, Moves, IsChain
  <2> QED
    BY <1>1, <1>4, <2>1 DEF Ends, FrameOK
<1> QED
  BY <1>2, <1>3, <1>4 DEF Moves

LEMMA PlaceIsEnough ==
    ASSUME NEW B, NEW f, NEW f2, SamePlace(f2, f), NEW g
    PROVE  /\ AtOrAhead(B, g, f2) <=> AtOrAhead(B, g, f)
           /\ AtOrAhead(B, f2, g) <=> AtOrAhead(B, f, g)
  BY DEF SamePlace, AtOrAhead, AtCall

LEMMA PlaceIsOK ==
    ASSUME NEW f, FrameOK(f), NEW f2, SamePlace(f2, f)
    PROVE  FrameOK(f2)
  BY DEF SamePlace, FrameOK, IsChain

LEMMA WaitsKept ==
    ASSUME NEW B, NEW f, NEW f2, SamePlace(f2, f), NEW g, NEW g2, SamePlace(g2, g),
           WaitsFor(B, f, g)
    PROVE  WaitsFor(B, f2, g2)
<1>1. f2.todo = f.todo
  BY DEF SamePlace
<1>2. \A d : AtOrAhead(B, g2, d) <=> AtOrAhead(B, g, d)
  BY PlaceIsEnough
<1> QED
  BY <1>1, <1>2 DEF WaitsFor

LEMMA AtStart ==
    ASSUME NEW B, NEW f, FrameOK(f), NEW g, SamePlace(g, f)
    PROVE  AtOrAhead(B, g, f)
<1>1. IsRest(f.todo, f.todo)
  BY RestNone DEF FrameOK
<1> QED
  BY <1>1 DEF AtOrAhead, SamePlace

\* What is ahead of a call that is done is done.
LEMMA DoneIsLast ==
    ASSUME NEW B, NEW f, IsDone(f), NEW g, AtOrAhead(B, g, f)
    PROVE  g.todo = <<>>
<1>1. <<>> \in Seq({}) /\ Len(<<>>) = 0 /\ 1 .. Len(<<>>) = {}
  BY EmptySeq
<1>2. IsRest(g.todo, <<>>) => g.todo = <<>>
  BY <1>1, RestOfRest
<1> QED
  BY <1>1, <1>2 DEF AtOrAhead, IsDone

\* What f is at or ahead of, it stays at or ahead of.
LEMMA MovesAhead ==
    ASSUME NEW B, BindingsOK(B), NEW s, FrameOK(s), NEW f, FrameOK(f), NEW f2, Moves(B, f, f2),
           AtOrAhead(B, f, s)
    PROVE  AtOrAhead(B, f2, s)
<1> USE DEF Moves
<1>0. s.todo \in Seq(Expressions) /\ s.calls \in Seq(CallType) /\ f.calls \in Seq(CallType)
  BY DEF FrameOK
<1>1. f2.what = s.what /\ f2.name = s.name
  BY DEF AtOrAhead
<1>2. CASE f.calls = s.calls /\ f.call = s.call /\ IsRest(f.todo, s.todo)
  <2>1. CASE TakesValue(f, f2)
    <3>1. IsRest(Tail(f.todo), s.todo)
      BY <1>0, <1>2, <2>1, RestOfRest DEF TakesValue
    <3> QED
      BY <1>1, <1>2, <2>1, <3>1 DEF TakesValue, AtOrAhead
  <2>2. CASE Begins(B, f, f2)
    <3>1. /\ s.calls # <<>> /\ f2.calls = Rest(s.calls, 1) /\ Head(s.calls) = s.calls[1]
          /\ 1 \in 1 .. Len(s.calls) /\ s.calls[1] \in CallType
      <4>1. s.calls # <<>> /\ f2.calls = Tail(s.calls)
        BY <1>2, <2>2 DEF Begins
      <4>2. 1 \in 1 .. Len(s.calls)
        BY <1>0, <4>1, EmptySeq
      <4> QED
        BY <1>0, <4>1, <4>2, TailRest
    <3>2. AtCall(B, f2, s.calls[1])
      <4>1. IsRest(f2.todo, f2.todo)
        <5>1. f2.todo \in Seq(Expressions)
          BY MovesOK DEF FrameOK
        <5> QED
          BY <5>1, RestNone
      <4> QED
        BY <1>2, <2>2, <3>1, <4>1 DEF AtCall, Begins
    <3> QED
      BY <1>1, <3>1, <3>2 DEF AtOrAhead
  <2>3. CASE Ends(f, f2)
    BY <1>1, <1>2, <2>3 DEF Ends, AtOrAhead
  <2> QED
    BY <2>1, <2>2, <2>3
<1>3. CASE f.calls = s.calls /\ s.call # <<>> /\ f.call = <<>> /\ f.todo = <<>>
  <2>1. Begins(B, f, f2)
    BY <1>3 DEF TakesValue, Ends
  <2>2. /\ f2.calls = Rest(s.calls, 1) /\ Head(s.calls) = s.calls[1]
        /\ 1 \in 1 .. Len(s.calls)
    <3>1. s.calls # <<>> /\ f2.calls = Tail(s.calls)
      BY <1>3, <2>1 DEF Begins
    <3>2. 1 \in 1 .. Len(s.calls)
      BY <1>0, <3>1, EmptySeq
    <3> QED
      BY <1>0, <3>1, <3>2, TailRest
  <2>3. AtCall(B, f2, s.calls[1])
    <3>1. IsRest(f2.todo, f2.todo)
      <4>1. f2.todo \in Seq(Expressions)
        BY MovesOK DEF FrameOK
      <4> QED
        BY <4>1, RestNone
    <3> QED
      BY <1>3, <2>1, <2>2, <3>1 DEF AtCall, Begins
  <2> QED
    BY <1>1, <2>2, <2>3 DEF AtOrAhead
<1>4. ASSUME NEW n \in 1 .. Len(s.calls), f.calls = Rest(s.calls, n), AtCall(B, f, s.calls[n])
      PROVE  AtOrAhead(B, f2, s)
  <2>0. Len(s.calls) \in Nat /\ n \in 0 .. Len(s.calls)
    BY <1>0, LenProperties
  <2>1. CASE TakesValue(f, f2)
    <3>1. /\ IsEffectFunction(FunctionIn(B, s.calls[n])) /\ f.call = <<CallIn(B, s.calls[n])>>
          /\ IsRest(f.todo, ValuesOf(CallIn(B, s.calls[n])))
      BY <1>4, <2>1 DEF AtCall, TakesValue
    <3>2. s.calls[n] \in CallType
      BY <1>0, ElementOfSeq
    <3>3. IsRest(Tail(f.todo), ValuesOf(CallIn(B, s.calls[n])))
      BY <2>1, <3>1, <3>2, CallIsTyped, RestOfRest DEF TakesValue
    <3>4. AtCall(B, f2, s.calls[n])
      BY <2>1, <3>1, <3>3 DEF AtCall, TakesValue
    <3> QED
      BY <1>1, <1>4, <2>1, <3>4 DEF AtOrAhead, TakesValue
  <2>2. CASE Begins(B, f, f2)
    <3>1. /\ n + 1 \in 1 .. Len(s.calls) /\ f2.calls = Rest(s.calls, n + 1)
          /\ Head(f.calls) = s.calls[n + 1]
      BY <1>0, <1>4, <2>0, <2>2, RestTail DEF Begins
    <3>2. AtCall(B, f2, s.calls[n + 1])
      <4>1. IsRest(f2.todo, f2.todo)
        <5>1. f2.todo \in Seq(Expressions)
          BY MovesOK DEF FrameOK
        <5> QED
          BY <5>1, RestNone
      <4> QED
        BY <2>2, <3>1, <4>1 DEF AtCall, Begins
    <3> QED
      BY <1>1, <3>1, <3>2 DEF AtOrAhead
  <2>3. CASE Ends(f, f2)
    BY <1>1, <1>4, <2>3 DEF Ends, AtOrAhead, AtCall
  <2> QED
    BY <2>1, <2>2, <2>3
<1> QED
  BY <1>2, <1>3, <1>4 DEF AtOrAhead

\* f does not overtake what is ahead of it, unless they were at the same place.
LEMMA MovesBehind ==
    ASSUME NEW B, NEW f, FrameOK(f), NEW f2, Moves(B, f, f2),
           NEW g, AtOrAhead(B, g, f), ~SamePlace(g, f)
    PROVE  AtOrAhead(B, g, f2)
<1> USE DEF Moves
<1>0. f.todo \in Seq(Expressions) /\ f.calls \in Seq(CallType)
  BY DEF FrameOK
<1>1. g.what = f2.what /\ g.name = f2.name /\ g.what = f.what /\ g.name = f.name
  BY DEF AtOrAhead
<1>2. CASE g.calls = f.calls /\ g.call = f.call /\ IsRest(g.todo, f.todo)
  <2>1. g.todo # f.todo
    BY <1>1, <1>2 DEF SamePlace
  <2>2. f.todo # <<>> /\ IsRest(g.todo, Tail(f.todo))
    BY <1>0, <1>2, <2>1, RestOfRest
  <2>3. TakesValue(f, f2)
    BY <2>2 DEF Begins, Ends
  <2> QED
    BY <1>1, <1>2, <2>2, <2>3 DEF AtOrAhead, TakesValue
<1>3. CASE g.calls = f.calls /\ f.call # <<>> /\ g.call = <<>> /\ g.todo = <<>>
  <2>1. CASE TakesValue(f, f2)
    BY <1>1, <1>3, <2>1 DEF AtOrAhead, TakesValue
  <2>2. CASE Ends(f, f2)
    <3>1. IsRest(<<>>, <<>>)
      BY EmptySeq, RestNone
    <3> QED
      BY <1>1, <1>3, <2>2, <3>1 DEF AtOrAhead, Ends
  <2> QED
    BY <1>3, <2>1, <2>2 DEF Begins
<1>4. ASSUME NEW n \in 1 .. Len(f.calls), g.calls = Rest(f.calls, n), AtCall(B, g, f.calls[n])
      PROVE  AtOrAhead(B, g, f2)
  <2>1. CASE f2.calls = f.calls
    BY <1>1, <1>4, <2>1 DEF AtOrAhead
  <2>2. CASE Begins(B, f, f2)
    <3>1. /\ Len(f.calls) \in Nat /\ Len(Tail(f.calls)) = Len(f.calls) - 1
          /\ Tail(f.calls) = Rest(f.calls, 1) /\ Head(f.calls) = f.calls[1]
          /\ Rest(f.calls, n) = Rest(Tail(f.calls), n - 1)
          /\ \A m \in 1 .. Len(f.calls) - 1 : Tail(f.calls)[m] = f.calls[m + 1]
      BY <1>0, <2>2, LenProperties, TailRest DEF Begins
    <3>2. CASE n = 1
      <4>1. g.calls = f2.calls
        BY <1>4, <2>2, <3>1, <3>2 DEF Begins
      <4>2. \/ g.call = <<>> /\ g.todo = <<>> /\ f2.call # <<>>
            \/ g.call = f2.call /\ IsRest(g.todo, f2.todo)
        BY <1>4, <2>2, <3>1, <3>2 DEF Begins, AtCall
      <4> QED
        BY <1>1, <4>1, <4>2 DEF AtOrAhead
    <3>3. CASE n # 1
      <4>1. n - 1 \in 1 .. Len(Tail(f.calls)) /\ n - 1 \in 1 .. Len(f.calls) - 1 /\ (n - 1) + 1 = n
        BY <3>1, <3>3
      <4>2. Tail(f.calls)[n - 1] = f.calls[n]
        BY <3>1, <4>1
      <4> QED
        BY <1>1, <1>4, <2>2, <3>1, <4>1, <4>2 DEF AtOrAhead, Begins
    <3> QED
      BY <3>2, <3>3
  <2> QED
    BY <2>1, <2>2 DEF TakesValue, Ends
<1> QED
  BY <1>2, <1>3, <1>4 DEF AtOrAhead

LEMMA StartIsOK ==
    ASSUME NEW B, BindingsOK(B), NEW e \in Expressions, Opens(B, e)
    PROVE  FrameOK(StartOf(B, e))
<1> USE DEF FrameOK, StartOf, Frame, NoFrame, IsChain
<1>0. <<>> \in Seq(Expressions) /\ <<>> \in Seq(CallType)
  BY EmptySeq
<1>1. CASE e.kind = "name"
  <2>1. B[e.name].expression \in Expressions
    BY <1>1 DEF Opens, IsLet, BindingsOK, BindingOK, Unbound
  <2>2. <<B[e.name].expression>> \in Seq(Expressions)
    BY <2>1
  <2> QED
    BY <1>0, <1>1, <2>2 DEF LetFrame
<1>2. CASE e.kind = "osc"
  <2>1. e.type \o e.fields \in Seq(Expressions)
    BY <1>2, GrammarAssumption, ConcatProperties
  <2> QED
    BY <1>0, <1>2, <2>1 DEF OscFrame
<1>3. CASE e.kind = "chain"
  <2>1. e.calls \in Seq(CallType)
    BY <1>3, GrammarAssumption
  <2> QED
    BY <1>0, <1>3, <2>1 DEF ChainFrame
<1>4. CASE e.kind \in {"array", "vector", "arithmetic"}
  <2>1. e.values \in Seq(Expressions)
    BY <1>4, GrammarAssumption
  <2> QED
    BY <1>0, <1>4, <2>1
<1> QED
  BY <1>1, <1>2, <1>3, <1>4 DEF Opens

-----------------------------------------------------------------------------
\* What a step of the stack does to the invariant.

\* The calls of t are those of s up to n.
SameUpTo(t, s, n) == \A m \in 1 .. n : SamePlace(t[m], s[m])

LEMMA LockStepIsSame ==
    ASSUME NEW s, NEW t, NEW n \in Nat, SameUpTo(t, s, n),
           NEW i \in 1 .. n, NEW j \in 1 .. n, i < j, NEW k \in Nat, j + k <= n + 1
    PROVE  LockStep(t, i, j, k) <=> LockStep(s, i, j, k)
<1> SUFFICES ASSUME NEW l \in 0 .. k - 1
             PROVE  SamePlace(t[i + l], t[j + l]) <=> SamePlace(s[i + l], s[j + l])
  BY DEF LockStep
<1>1. i + l \in 1 .. n /\ j + l \in 1 .. n
  OBVIOUS
<1>2. SamePlace(t[i + l], s[i + l]) /\ SamePlace(t[j + l], s[j + l])
  BY <1>1 DEF SameUpTo
<1> QED
  BY <1>2 DEF SamePlace

\* The first n calls of t are as they have to be.
IsResolvingTo(B, t, n) ==
    /\ \A m \in 1 .. n : FrameOK(t[m])
    /\ \A m \in 1 .. n - 1 : WaitsFor(B, t[m], t[m + 1])
    /\ \A m \in 1 .. n :
          t[m].what = "let" => IsLet(B, t[m].name) /\ B[t[m].name].value = <<>>
    /\ \A i, j \in 1 .. n : i < j /\ SameLet(t[i], t[j])
         => \A k \in 0 .. n - j :
               LockStep(t, i, j, k) => AtOrAhead(B, t[i + k], t[j + k])

\* The frames below a step, and those that follow one another below it.
LEMMA SameBelow ==
    ASSUME NEW B, NEW s, NEW t, NEW n \in Nat, SameUpTo(t, s, n), n <= Len(s), Len(s) \in Nat,
           FramesOK(s), Waiting(B, s), Unresolved(B, s), Following(B, s)
    PROVE  IsResolvingTo(B, t, n)
<1>1. ASSUME NEW m \in 1 .. n
      PROVE  FrameOK(t[m]) /\ t[m].what = s[m].what /\ t[m].name = s[m].name
  <2>1. SamePlace(t[m], s[m]) /\ FrameOK(s[m])
    BY DEF SameUpTo, FramesOK
  <2> QED
    BY <2>1, PlaceIsOK DEF SamePlace
<1>2. ASSUME NEW m \in 1 .. n, t[m].what = "let"
      PROVE  IsLet(B, t[m].name) /\ B[t[m].name].value = <<>>
  BY <1>1, <1>2 DEF Unresolved
<1>3. ASSUME NEW m \in 1 .. n - 1
      PROVE  WaitsFor(B, t[m], t[m + 1])
  <2>1. WaitsFor(B, s[m], s[m + 1])
    BY DEF Waiting
  <2>2. SamePlace(t[m], s[m]) /\ SamePlace(t[m + 1], s[m + 1])
    BY DEF SameUpTo
  <2> QED
    BY <2>1, <2>2, WaitsKept
<1>4. ASSUME NEW i \in 1 .. n, NEW j \in 1 .. n, i < j, SameLet(t[i], t[j]),
             NEW k \in 0 .. n - j, LockStep(t, i, j, k)
      PROVE  AtOrAhead(B, t[i + k], t[j + k])
  <2>1. SameLet(s[i], s[j])
    BY <1>1, <1>4 DEF SameLet
  <2>2. LockStep(s, i, j, k)
    BY <1>4, LockStepIsSame
  <2>3. AtOrAhead(B, s[i + k], s[j + k])
    BY <1>4, <2>1, <2>2 DEF Following
  <2>4. i + k \in 1 .. n /\ j + k \in 1 .. n
    BY <1>4
  <2>5. SamePlace(t[i + k], s[i + k]) /\ SamePlace(t[j + k], s[j + k])
    BY <2>4 DEF SameUpTo
  <2> QED
    BY <2>3, <2>5, PlaceIsEnough
<1> QED
  BY <1>1, <1>2, <1>3, <1>4 DEF IsResolvingTo

\* The call n moves on, and those above it, if any, are gone.
LEMMA FollowingMoves ==
    ASSUME NEW B, BindingsOK(B), NEW s, Len(s) \in Nat, NEW n \in 1 .. Len(s),
           FramesOK(s), Waiting(B, s), Unresolved(B, s), Following(B, s),
           NEW t, Len(t) = n, SameUpTo(t, s, n - 1), Moves(B, s[n], t[n]),
           \A i, j \in 1 .. n : \A k \in 0 .. n - j :
              i < j /\ SameLet(s[i], s[j]) /\ LockStep(s, i, j, k) /\ j + k = n
                => ~SamePlace(s[i + k], s[n])
    PROVE  /\ FramesOK(t) /\ Waiting(B, t) /\ Unresolved(B, t) /\ Following(B, t)
<1>0. /\ n - 1 \in Nat /\ n - 1 <= Len(s)
      /\ FrameOK(s[n]) /\ t[n].what = s[n].what /\ t[n].name = s[n].name
  BY DEF FramesOK, Moves
<1>1. FrameOK(t[n])
  BY <1>0, MovesOK
<1>2. /\ \A m \in 1 .. n - 1 : FrameOK(t[m])
      /\ \A m \in 1 .. (n - 1) - 1 : WaitsFor(B, t[m], t[m + 1])
      /\ \A m \in 1 .. n - 1 : t[m].what = "let" =>
            IsLet(B, t[m].name) /\ B[t[m].name].value = <<>>
      /\ \A i, j \in 1 .. n - 1 : i < j /\ SameLet(t[i], t[j])
           => \A k \in 0 .. (n - 1) - j :
                 LockStep(t, i, j, k) => AtOrAhead(B, t[i + k], t[j + k])
  <2>1. IsResolvingTo(B, t, n - 1)
    BY <1>0, SameBelow
  <2> QED
    BY <2>1 DEF IsResolvingTo
<1>3. FramesOK(t)
  BY <1>1, <1>2 DEF FramesOK
<1>4. Unresolved(B, t)
  BY <1>0, <1>2 DEF Unresolved
<1>5. Waiting(B, t)
  <2> SUFFICES ASSUME n # 1
               PROVE  WaitsFor(B, t[n - 1], t[n])
    BY <1>2 DEF Waiting
  <2>1. n - 1 \in 1 .. Len(s) - 1 /\ n - 1 \in 1 .. n - 1 /\ (n - 1) + 1 = n
    OBVIOUS
  <2>2. WaitsFor(B, s[n - 1], s[n])
    BY <2>1 DEF Waiting
  <2>3. SamePlace(t[n - 1], s[n - 1]) /\ FrameOK(s[n - 1])
    BY <2>1 DEF SameUpTo, FramesOK
  <2>4. FrameOK(StartOf(B, Head(s[n - 1].todo)))
    <3>1. Head(s[n - 1].todo) \in Expressions
      BY <2>2, <2>3, HeadTailProperties DEF FrameOK, WaitsFor
    <3> QED
      BY <2>2, <3>1, StartIsOK DEF WaitsFor
  <2>5. AtOrAhead(B, t[n], StartOf(B, Head(s[n - 1].todo)))
    BY <1>0, <2>2, <2>4, MovesAhead DEF WaitsFor
  <2> QED
    BY <2>2, <2>3, <2>5 DEF WaitsFor, SamePlace
<1>6. Following(B, t)
  <2> SUFFICES ASSUME NEW i \in 1 .. n, NEW j \in 1 .. n, i < j, SameLet(t[i], t[j]),
                      NEW k \in 0 .. n - j, LockStep(t, i, j, k)
               PROVE  AtOrAhead(B, t[i + k], t[j + k])
    BY DEF Following
  <2>1. CASE j + k <= n - 1
    <3>1. i \in 1 .. n - 1 /\ j \in 1 .. n - 1 /\ k \in 0 .. (n - 1) - j
      BY <2>1
    <3> QED
      BY <1>2, <3>1
  <2>2. CASE j + k = n
    <3>1. i \in 1 .. n - 1 /\ i + k \in 1 .. n - 1
      BY <2>2
    <3>2. SamePlace(t[i], s[i]) /\ SamePlace(t[i + k], s[i + k])
      BY <3>1 DEF SameUpTo
    <3>3. SameLet(s[i], s[j])
      <4>1. j \in 1 .. n - 1 => SamePlace(t[j], s[j])
        BY DEF SameUpTo
      <4>2. t[j].what = s[j].what /\ t[j].name = s[j].name
        BY <1>0, <4>1 DEF SamePlace
      <4> QED
        BY <3>2, <4>2 DEF SameLet, SamePlace
    <3>4. LockStep(s, i, j, k)
      <4>1. CASE j = n
        <5>1. k = 0
          BY <2>2, <4>1
        <5> QED
          BY <5>1 DEF LockStep
      <4>2. CASE j \in 1 .. n - 1
        <5>1. j + k <= (n - 1) + 1
          BY <2>2
        <5> QED
          BY <1>0, <3>1, <4>2, <5>1, LockStepIsSame
      <4> QED
        BY <4>1, <4>2
    <3>5. AtOrAhead(B, s[i + k], s[n])
      <4>1. i \in 1 .. Len(s) /\ j \in 1 .. Len(s) /\ k \in 0 .. Len(s) - j
        OBVIOUS
      <4> QED
        BY <2>2, <3>3, <3>4, <4>1 DEF Following
    <3>6. ~SamePlace(s[i + k], s[n])
      BY <2>2, <3>3, <3>4
    <3>7. AtOrAhead(B, s[i + k], t[n])
      BY <1>0, <3>5, <3>6, MovesBehind
    <3> QED
      BY <2>2, <3>2, <3>7, PlaceIsEnough
  <2> QED
    BY <2>1, <2>2
<1> QED
  BY <1>3, <1>4, <1>5, <1>6

\* The innermost call moves on: no call that waits is where it is, unless the
\* value that they are at is one that opens a call.
LEMMA TopMoves ==
    ASSUME NEW B, BindingsOK(B), NEW s, IsResolving(B, s), s # <<>>,
           NEW t, Sound(t), Len(t) = Len(s), SameUpTo(t, s, Len(s) - 1),
           Moves(B, s[Len(s)], t[Len(s)]),
           LET todo == s[Len(s)].todo
           IN  todo # <<>> /\ Opens(B, Head(todo))
                 => Head(todo).kind = "name" /\ B[Head(todo).name].value # <<>>
    PROVE  IsResolving(B, t)
<1> DEFINE n == Len(s)
           e == Head(s[n].todo)
<1> USE DEF IsResolving
<1>0. n \in Nat \ {0} /\ n \in 1 .. n
  BY EmptySeq DEF Sound, IsStack
<1>1. ASSUME NEW m \in 1 .. n - 1, SamePlace(s[m], s[n])
      PROVE  FALSE
  <2>1. WaitsFor(B, s[m], s[m + 1]) /\ s[m].todo = s[n].todo
    BY <1>1 DEF Waiting, SamePlace
  <2>2. s[n].todo # <<>> /\ Opens(B, e) /\ AtOrAhead(B, s[m + 1], StartOf(B, e))
    BY <2>1 DEF WaitsFor
  <2>3. e.kind = "name" /\ B[e.name].value # <<>>
    BY <2>2
  <2> HIDE DEF e
  <2>4. s[m + 1].what = "let" /\ s[m + 1].name = e.name
    BY <2>2, <2>3 DEF AtOrAhead, StartOf, LetFrame, Frame, NoFrame
  <2>5. m + 1 \in 1 .. n
    BY <1>0
  <2> QED
    BY <2>3, <2>4, <2>5 DEF Unresolved
<1>2. ASSUME NEW i \in 1 .. n, NEW j \in 1 .. n, NEW k \in 0 .. n - j, i < j, j + k = n
      PROVE  ~SamePlace(s[i + k], s[n])
  <2>1. i + k \in 1 .. n - 1
    BY <1>0, <1>2
  <2> QED
    BY <1>1, <2>1
<1> HIDE DEF e
<1> QED
  BY <1>0, <1>2, FollowingMoves

\* The innermost call returns, and the one below it takes the value.
LEMMA TopReturns ==
    ASSUME NEW B, BindingsOK(B), NEW s, IsResolving(B, s), Len(s) > 1, IsDone(s[Len(s)]),
           NEW t, Sound(t), Len(t) = Len(s) - 1, SameUpTo(t, s, Len(s) - 2),
           Moves(B, s[Len(s) - 1], t[Len(s) - 1])
    PROVE  IsResolving(B, t)
<1> DEFINE n == Len(s) - 1
<1> USE DEF IsResolving
<1>0. Len(s) \in Nat /\ n \in 1 .. Len(s) /\ n - 1 = Len(s) - 2 /\ n \in Nat
  BY DEF Sound, IsStack
<1>1. ASSUME NEW i \in 1 .. n, NEW j \in 1 .. n, NEW k \in 0 .. n - j,
             i < j, SameLet(s[i], s[j]), LockStep(s, i, j, k), j + k = n,
             SamePlace(s[i + k], s[n])
      PROVE  FALSE
  <2>1. LockStep(s, i, j, k + 1)
    <3> SUFFICES ASSUME NEW l \in 0 .. k
                 PROVE  SamePlace(s[i + l], s[j + l])
      BY <1>0 DEF LockStep
    <3>1. CASE l = k
      BY <1>1, <3>1
    <3>2. CASE l # k
      <4>1. l \in 0 .. k - 1
        BY <3>2
      <4> QED
        BY <1>1, <4>1 DEF LockStep
    <3> QED
      BY <3>1, <3>2
  <2>2. /\ i \in 1 .. Len(s) /\ j \in 1 .. Len(s) /\ k + 1 \in 0 .. Len(s) - j
        /\ j + (k + 1) = Len(s) /\ i + (k + 1) \in 1 .. Len(s) - 1
    BY <1>0, <1>1
  <2>3. AtOrAhead(B, s[i + (k + 1)], s[Len(s)])
    BY <1>1, <2>1, <2>2 DEF Following
  <2>4. s[i + (k + 1)].todo = <<>>
    BY <2>3, DoneIsLast
  <2> QED
    BY <2>2, <2>4 DEF Waiting, WaitsFor
<1> QED
  BY <1>0, <1>1, FollowingMoves

\* The call of the value that the innermost call is at begins.
LEMMA TopOpens ==
    ASSUME NEW B, BindingsOK(B), NEW s, IsResolving(B, s), s # <<>>, NEW n, n = Len(s),
           s[n].todo # <<>>, NEW e, e = Head(s[n].todo), Opens(B, e),
           e.kind = "name" => B[e.name].value = <<>>,
           NEW f, SamePlace(f, StartOf(B, e)),
           NEW t, Sound(t), Len(t) = n + 1, SameUpTo(t, s, n), t[n + 1] = f
    PROVE  IsResolving(B, t)
<1> USE DEF IsResolving
<1>0. n \in Nat \ {0} /\ n \in 1 .. n
  BY EmptySeq DEF Sound, IsStack
<1>1. /\ \A m \in 1 .. n : FrameOK(t[m])
      /\ \A m \in 1 .. n - 1 : WaitsFor(B, t[m], t[m + 1])
      /\ \A m \in 1 .. n : t[m].what = "let" =>
            IsLet(B, t[m].name) /\ B[t[m].name].value = <<>>
      /\ \A i, j \in 1 .. n : i < j /\ SameLet(t[i], t[j])
           => \A k \in 0 .. n - j :
                 LockStep(t, i, j, k) => AtOrAhead(B, t[i + k], t[j + k])
  <2>1. IsResolvingTo(B, t, n)
    BY <1>0, SameBelow
  <2> QED
    BY <2>1 DEF IsResolvingTo
<1>2. SamePlace(t[n], s[n]) /\ t[n].todo = s[n].todo
  BY <1>0 DEF SameUpTo, SamePlace
<1>3. FrameOK(StartOf(B, e)) /\ FrameOK(f)
  <2>1. e \in Expressions
    <3>1. s[n].todo \in Seq(Expressions)
      BY <1>0 DEF FramesOK, FrameOK
    <3> QED
      BY <3>1, HeadTailProperties
  <2>2. FrameOK(StartOf(B, e))
    BY <2>1, StartIsOK
  <2> QED
    BY <2>2, PlaceIsOK
<1>4. FramesOK(t)
  BY <1>0, <1>1, <1>3 DEF FramesOK
<1>5. AtOrAhead(B, f, StartOf(B, e))
  BY <1>3, AtStart
<1>6. WaitsFor(B, t[n], t[n + 1])
  BY <1>2, <1>5 DEF WaitsFor
<1>7. Waiting(B, t)
  <2> SUFFICES ASSUME NEW m \in 1 .. n
               PROVE  WaitsFor(B, t[m], t[m + 1])
    BY <1>0 DEF Waiting
  <2> QED
    BY <1>0, <1>1, <1>6
<1>8. f.what = "let" => e.kind = "name" /\ f.name = e.name
  BY DEF SamePlace, StartOf, Opens, OscFrame, ChainFrame, LetFrame, Frame, NoFrame
<1>9. Unresolved(B, t)
  <2>1. f.what = "let" => IsLet(B, f.name) /\ B[f.name].value = <<>>
    BY <1>8 DEF Opens
  <2> QED
    BY <1>0, <1>1, <2>1 DEF Unresolved
<1>10. Following(B, t)
  <2> SUFFICES ASSUME NEW i \in 1 .. n + 1, NEW j \in 1 .. n + 1, i < j, SameLet(t[i], t[j]),
                      NEW k \in 0 .. (n + 1) - j, LockStep(t, i, j, k)
               PROVE  AtOrAhead(B, t[i + k], t[j + k])
    BY <1>0 DEF Following
  <2>1. CASE j + k <= n
    <3>1. i \in 1 .. n /\ j \in 1 .. n /\ k \in 0 .. n - j
      BY <1>0, <2>1
    <3> QED
      BY <1>1, <3>1
  <2>2. CASE j + k = n + 1 /\ k = 0
    <3>1. i \in 1 .. n /\ i + k = i /\ j + k = n + 1 /\ j = n + 1
      BY <1>0, <2>2
    <3>2. f.what = "let" /\ t[i].what = "let" /\ t[i].name = f.name
      BY <3>1 DEF SameLet
    <3>3. i # 1
      BY <3>2 DEF Sound, IsStack, IsChain
    <3>4. i - 1 \in 1 .. n - 1 /\ (i - 1) + 1 = i
      BY <1>0, <3>1, <3>3
    <3> DEFINE d == Head(t[i - 1].todo)
    <3>5. Opens(B, d) /\ AtOrAhead(B, t[i], StartOf(B, d))
      BY <1>1, <3>4 DEF WaitsFor
    <3> HIDE DEF d
    <3>6. d.kind = "name" /\ d.name = e.name
      BY <1>8, <3>2, <3>5
         DEF AtOrAhead, StartOf, Opens, OscFrame, ChainFrame, LetFrame, Frame, NoFrame
    <3>7. StartOf(B, d) = StartOf(B, e)
      BY <1>8, <3>2, <3>6 DEF StartOf
    <3> QED
      BY <3>1, <3>5, <3>7, PlaceIsEnough
  <2>3. CASE j + k = n + 1 /\ k # 0
    <3>1. /\ i + (k - 1) \in 1 .. n - 1 /\ j + (k - 1) = n /\ k - 1 \in 0 .. k - 1
          /\ (i + (k - 1)) + 1 = i + k
      BY <1>0, <2>3
    <3>2. SamePlace(t[i + (k - 1)], t[n])
      BY <3>1 DEF LockStep
    <3>3. WaitsFor(B, t[i + (k - 1)], t[i + k])
      BY <1>1, <3>1
    <3>4. AtOrAhead(B, t[i + k], StartOf(B, e))
      BY <1>2, <3>2, <3>3 DEF WaitsFor, SamePlace
    <3> QED
      BY <2>3, <3>4, PlaceIsEnough
  <2> QED
    BY <1>0, <2>1, <2>2, <2>3
<1> QED
  BY <1>4, <1>7, <1>9, <1>10

\* A chain of the program begins.
LEMMA FirstOpens ==
    ASSUME NEW B, NEW calls \in Seq(CallType), NEW t, Sound(t), Len(t) = 1,
           t[1] = ChainFrame(calls)
    PROVE  IsResolving(B, t)
<1>1. FrameOK(t[1]) /\ t[1].what = "chain"
  BY EmptySeq DEF FrameOK, ChainFrame, Frame, NoFrame, IsChain
<1> QED
  BY <1>1 DEF IsResolving, FramesOK, Waiting, Unresolved, Following

LEMMA NoneResolves ==
    ASSUME NEW B
    PROVE  IsResolving(B, <<>>)
<1>1. Len(<<>>) = 0
  BY EmptySeq
<1> QED
  BY <1>1, SoundStart DEF IsResolving, FramesOK, Waiting, Unresolved, Following

-----------------------------------------------------------------------------
\* A let gets its value.

Resolved(B, name, value) == [B EXCEPT ![name].value = value]

LEMMA ResolvedIsAlike ==
    ASSUME NEW B, BindingsOK(B), NEW name, IsLet(B, name), NEW value
    PROVE  LET C == Resolved(B, name, value)
           IN  /\ BindingsOK(C)
               /\ \A n \in Names : n # name => C[n] = B[n]
               /\ C[name].kind = "lazy" /\ C[name].expression = B[name].expression
               /\ C[name] # Unbound
<1> DEFINE C == Resolved(B, name, value)
<1>1. /\ name \in Names /\ DOMAIN B = Names
      /\ B[name].kind = "lazy" /\ B[name].expression \in Expressions
      /\ DOMAIN B[name] = {"kind", "expression", "value"}
  BY DEF IsLet, BindingsOK, BindingOK, Unbound
<1>2. C = [B EXCEPT ![name] = [B[name] EXCEPT !.value = value]]
  BY DEF Resolved
<1>3. DOMAIN C = Names /\ \A n \in Names : n # name => C[n] = B[n]
  BY <1>1, <1>2
<1>4. C[name] = [B[name] EXCEPT !.value = value]
  BY <1>1, <1>2
<1>5. /\ C[name].kind = "lazy" /\ C[name].expression = B[name].expression
      /\ DOMAIN C[name] = {"kind", "expression", "value"}
  BY <1>1, <1>4
<1>6. C[name] # Unbound
  BY <1>5 DEF Unbound
<1>7. BindingOK(C[name])
  BY <1>1, <1>5 DEF BindingOK
<1> HIDE DEF C
<1>8. BindingsOK(C)
  BY <1>3, <1>7 DEF BindingsOK
<1> QED
  BY <1>3, <1>5, <1>6, <1>8 DEF C

LEMMA ResolvedKeeps ==
    ASSUME NEW B, BindingsOK(B), NEW name, IsLet(B, name), NEW value,
           NEW C, C = Resolved(B, name, value)
    PROVE  /\ \A e : Opens(B, e) => Opens(C, e) /\ StartOf(C, e) = StartOf(B, e)
           /\ \A g, f : AtOrAhead(B, g, f) => AtOrAhead(C, g, f)
           /\ \A n : IsLet(B, n) => IsLet(C, n) /\ (n # name => C[n] = B[n])
<1>1. /\ \A n \in Names : n # name => C[n] = B[n]
      /\ C[name].kind = "lazy" /\ C[name].expression = B[name].expression /\ C[name] # Unbound
  BY ResolvedIsAlike
<1>2. ASSUME NEW n, IsLet(B, n)
      PROVE  IsLet(C, n) /\ (n # name => C[n] = B[n]) /\ C[n].expression = B[n].expression
  BY <1>1, <1>2 DEF IsLet
<1>3. ASSUME NEW e, Opens(B, e)
      PROVE  Opens(C, e) /\ StartOf(C, e) = StartOf(B, e)
  BY <1>2, <1>3 DEF Opens, StartOf
<1>4. ASSUME NEW written, IsEffectFunction(FunctionIn(B, written))
      PROVE  FunctionIn(C, written) = FunctionIn(B, written)
  BY <1>1, <1>4 DEF FunctionIn, IsLet, IsEffectFunction
<1>5. ASSUME NEW g, NEW written, AtCall(B, g, written)
      PROVE  AtCall(C, g, written)
  BY <1>4, <1>5 DEF AtCall, CallIn
<1>6. ASSUME NEW g, NEW f, AtOrAhead(B, g, f)
      PROVE  AtOrAhead(C, g, f)
  BY <1>5, <1>6 DEF AtOrAhead
<1> QED
  BY <1>2, <1>3, <1>6

LEMMA ResolvedResolving ==
    ASSUME NEW B, BindingsOK(B), NEW s, IsResolving(B, s), NEW name, IsLet(B, name), NEW value,
           \A m \in 1 .. Len(s) : s[m].what = "let" => s[m].name # name
    PROVE  IsResolving(Resolved(B, name, value), s)
<1> DEFINE C == Resolved(B, name, value)
<1>1. /\ \A e : Opens(B, e) => Opens(C, e) /\ StartOf(C, e) = StartOf(B, e)
      /\ \A g, f : AtOrAhead(B, g, f) => AtOrAhead(C, g, f)
      /\ \A n : IsLet(B, n) => IsLet(C, n) /\ (n # name => C[n] = B[n])
  BY ResolvedKeeps
<1> HIDE DEF C
<1>2. Waiting(C, s)
  BY <1>1 DEF IsResolving, Waiting, WaitsFor
<1>3. Unresolved(C, s)
  BY <1>1 DEF IsResolving, Unresolved
<1>4. Following(C, s)
  BY <1>1 DEF IsResolving, Following
<1> QED
  BY <1>2, <1>3, <1>4 DEF IsResolving, C

\* The innermost call of a let is its only one when it is done.
LEMMA OneResolves ==
    ASSUME NEW B, NEW s, IsResolving(B, s), s # <<>>, IsDone(s[Len(s)]), s[Len(s)].what = "let",
           NEW m \in 1 .. Len(s) - 1, s[m].what = "let"
    PROVE  s[m].name # s[Len(s)].name
<1>1. Len(s) \in Nat \ {0}
  BY EmptySeq DEF IsResolving, Sound, IsStack
<1> SUFFICES ASSUME s[m].name = s[Len(s)].name
             PROVE  FALSE
  OBVIOUS
<1>2. /\ m \in 1 .. Len(s) /\ Len(s) \in 1 .. Len(s) /\ m < Len(s) /\ 0 \in 0 .. Len(s) - Len(s)
      /\ m + 0 = m /\ Len(s) + 0 = Len(s)
  BY <1>1
<1>3. LockStep(s, m, Len(s), 0) /\ SameLet(s[m], s[Len(s)])
  BY DEF LockStep, SameLet
<1>4. AtOrAhead(B, s[m], s[Len(s)])
  BY <1>2, <1>3 DEF IsResolving, Following
<1>5. s[m].todo = <<>>
  BY <1>4, DoneIsLast
<1> QED
  BY <1>5 DEF IsResolving, Waiting, WaitsFor

-----------------------------------------------------------------------------
\* The steps.

LEMMA GivenMoves ==
    ASSUME NEW s, Sound(s), s # <<>>, s[Len(s)].todo # <<>>, NEW value, NEW B
    PROVE  LET t == Given(s, value)
           IN  /\ Len(t) = Len(s) /\ SameUpTo(t, s, Len(s) - 1)
               /\ Moves(B, s[Len(s)], t[Len(s)])
<1> DEFINE t == Given(s, value)
           f == [s[Len(s)] EXCEPT !.todo = Tail(@), !.values = Append(@, value)]
<1>1. PICK S : s \in Seq(S)
  BY DEF Sound, IsStack
<1>2. Len(s) \in Nat \ {0} /\ DOMAIN s[Len(s)] = Fields
  BY <1>1, EmptySeq DEF Sound, IsStack
<1>3. /\ f.what = s[Len(s)].what /\ f.name = s[Len(s)].name
      /\ f.todo = Tail(s[Len(s)].todo)
      /\ f.calls = s[Len(s)].calls /\ f.call = s[Len(s)].call
  BY <1>2 DEF Fields
<1>4. t = [s EXCEPT ![Len(s)] = f]
  BY <1>1, <1>2 DEF Given
<1> HIDE DEF f, t
<1>5. /\ Len(t) = Len(s) /\ t[Len(s)] = f
      /\ \A m \in 1 .. Len(s) - 1 : t[m] = s[m]
  BY <1>1, <1>2, <1>4
<1>6. SameUpTo(t, s, Len(s) - 1)
  BY <1>5 DEF SameUpTo, SamePlace
<1>7. Moves(B, s[Len(s)], t[Len(s)])
  BY <1>3, <1>5 DEF Moves, TakesValue
<1> QED
  BY <1>5, <1>6, <1>7 DEF t

LEMMA PendingStays ==
    ASSUME NEW s, Sound(s), NEW c, NEW chain
    PROVE  LET t == [s EXCEPT ![c].pending = Append(@, chain)]
           IN  Len(t) = Len(s) /\ SameUpTo(t, s, Len(s))
<1> DEFINE t == [s EXCEPT ![c].pending = Append(@, chain)]
<1>1. PICK S : s \in Seq(S)
  BY DEF Sound, IsStack
<1>2. Len(t) = Len(s)
  BY SoundPending
<1>3. ASSUME NEW i \in 1 .. Len(s)
      PROVE  SamePlace(t[i], s[i])
  <2>1. CASE i = c
    <3>1. DOMAIN s[i] = Fields /\ t[i] = [s[i] EXCEPT !.pending = Append(@, chain)]
      BY <1>1, <2>1 DEF Sound, IsStack
    <3> QED
      BY <3>1 DEF SamePlace, Fields
  <2>2. CASE i # c
    <3>1. t[i] = s[i]
      BY <1>1, <2>2
    <3> QED
      BY <3>1 DEF SamePlace
  <2> QED
    BY <2>1, <2>2
<1> QED
  BY <1>2, <1>3 DEF SameUpTo

LEMMA YieldKeeps ==
    ASSUME BindingsOK(bindings), IsResolving(bindings, stack), AtValue, NEW value, Yield(value),
           Opens(bindings, Value) => Value.kind = "name" /\ bindings[Value.name].value # <<>>
    PROVE  IsResolving(bindings, stack')
<1>1. /\ Sound(stack) /\ stack # <<>> /\ stack[Len(stack)].todo # <<>>
      /\ Value = Head(stack[Len(stack)].todo)
  BY DEF IsResolving, AtValue, Value, Top, Last
<1>2. CASE stack' = stack
  BY <1>2
<1>3. CASE stack' = Given(stack, value)
  <2>1. /\ Len(stack') = Len(stack) /\ SameUpTo(stack', stack, Len(stack) - 1)
        /\ Moves(bindings, stack[Len(stack)], stack'[Len(stack)])
    BY <1>1, <1>3, GivenMoves
  <2>2. Sound(stack')
    BY <1>1, <1>3, SoundGiven
  <2> QED
    BY <1>1, <2>1, <2>2, TopMoves
<1> QED
  BY <1>2, <1>3 DEF Yield, Reject, Stop

LEMMA PushKeeps ==
    ASSUME BindingsOK(bindings), IsResolving(bindings, stack), AtValue,
           Opens(bindings, Value),
           Value.kind = "name" => bindings[Value.name].value = <<>>,
           NEW f, SamePlace(f, StartOf(bindings, Value)), Push(f), Sound(stack')
    PROVE  IsResolving(bindings, stack')
<1>1. /\ Sound(stack) /\ stack # <<>> /\ stack[Len(stack)].todo # <<>>
      /\ Value = Head(stack[Len(stack)].todo)
  BY DEF IsResolving, AtValue, Value, Top, Last
<1>2. CASE stack' = stack
  BY <1>2
<1>3. CASE stack' = Append(stack, f)
  <2>1. PICK S : stack \in Seq(S)
    BY <1>1 DEF Sound, IsStack
  <2>2. /\ Len(stack') = Len(stack) + 1 /\ stack'[Len(stack) + 1] = f
        /\ \A m \in 1 .. Len(stack) : stack'[m] = stack[m]
    BY <1>3, <2>1
  <2>3. SameUpTo(stack', stack, Len(stack))
    BY <2>2 DEF SameUpTo, SamePlace
  <2> QED
    BY <1>1, <2>2, <2>3, TopOpens
<1> QED
  BY <1>2, <1>3 DEF Push, Stop

\* The innermost call of a chain begins or ends a call of its own.
LEMMA ChainMoves ==
    ASSUME BindingsOK(bindings), IsResolving(bindings, stack), stack # <<>>, Sound(stack'),
           NEW f, stack' = [stack EXCEPT ![Len(stack)] = f],
           stack[Len(stack)].todo = <<>>, Moves(bindings, stack[Len(stack)], f)
    PROVE  IsResolving(bindings, stack')
<1>1. PICK S : stack \in Seq(S)
  BY DEF IsResolving, Sound, IsStack
<1>2. Len(stack) \in Nat \ {0}
  BY <1>1, EmptySeq
<1>3. /\ Len(stack') = Len(stack) /\ stack'[Len(stack)] = f
      /\ \A m \in 1 .. Len(stack) - 1 : stack'[m] = stack[m]
  BY <1>1, <1>2
<1>4. SameUpTo(stack', stack, Len(stack) - 1)
  BY <1>3 DEF SameUpTo, SamePlace
<1> QED
  BY <1>3, <1>4, TopMoves

\* The innermost call returns value to the one below it, one of the chains of
\* which may take another.
LEMMA ReturnKeeps ==
    ASSUME BindingsOK(bindings), IsResolving(bindings, stack), Len(stack) > 1,
           IsDone(stack[Len(stack)]),
           NEW outer, Sound(outer), Len(outer) = Len(stack) - 1,
           SameUpTo(outer, stack, Len(stack) - 1),
           NEW value, stack' = Given(outer, value)
    PROVE  /\ IsResolving(bindings, stack')
           /\ Len(stack') = Len(stack) - 1
           /\ \A m \in 1 .. Len(stack) - 1 :
                 stack'[m].what = stack[m].what /\ stack'[m].name = stack[m].name
<1> DEFINE n == Len(stack) - 1
<1>1. /\ Len(stack) \in Nat /\ n \in 1 .. n /\ n \in 1 .. Len(stack) - 1 /\ n + 1 = Len(stack)
      /\ n - 1 = Len(stack) - 2 /\ n \in Nat
  BY DEF IsResolving, Sound, IsStack
<1>2. SamePlace(outer[n], stack[n]) /\ outer # <<>> /\ Len(outer) = n
  BY <1>1, EmptySeq DEF SameUpTo
<1>3. outer[n].todo # <<>>
  BY <1>1, <1>2 DEF IsResolving, Waiting, WaitsFor, SamePlace
<1>4. /\ Len(stack') = n /\ SameUpTo(stack', outer, n - 1)
      /\ Moves(bindings, outer[n], stack'[n])
  BY <1>2, <1>3, GivenMoves
<1>5. Sound(stack')
  BY <1>2, SoundGiven
<1>6. SameUpTo(stack', stack, n - 1)
  BY <1>1, <1>4 DEF SameUpTo, SamePlace
<1>7. Moves(bindings, stack[n], stack'[n])
  BY <1>2, <1>4 DEF Moves, SamePlace, TakesValue, Begins, Ends
<1>8. IsResolving(bindings, stack')
  BY <1>1, <1>4, <1>5, <1>6, <1>7, TopReturns
<1>9. ASSUME NEW m \in 1 .. n
      PROVE  stack'[m].what = stack[m].what /\ stack'[m].name = stack[m].name
  BY <1>1, <1>6, <1>7 DEF SameUpTo, SamePlace, Moves
<1> QED
  BY <1>4, <1>8, <1>9

\* Each call of a value starts where StartOf has it start.
LEMMA Starts ==
    ASSUME NEW B, NEW e, NEW depth, NEW path
    PROVE  /\ e.kind = "name" =>
                SamePlace(LetFrame(e.name, B[e.name].expression, depth, path), StartOf(B, e))
           /\ e.kind = "osc" => SamePlace(OscFrame(e.type, e.fields, depth, path), StartOf(B, e))
           /\ e.kind = "chain" => SamePlace(ChainFrame(e.calls), StartOf(B, e))
           /\ e.kind \in {"array", "vector", "arithmetic"} =>
                SamePlace(Frame(e.kind, e.values, depth, path), StartOf(B, e))
  BY DEF SamePlace, StartOf, LetFrame, OscFrame, ChainFrame, Frame, NoFrame

LEMMA DeclareKeeps ==
    ASSUME Resolution, Declare
    PROVE  Resolution'
<1> USE DEF Resolution
<1>1. CASE UNCHANGED <<program, next, bindings, stack>>
  BY <1>1
<1>2. CASE /\ bindings' = [bindings EXCEPT ![program[next].name] = BindingOf(program[next].value)]
           /\ next' = next + 1 /\ UNCHANGED <<program, stack>> /\ MayDeclare(program[next].value)
  <2> DEFINE e == program[next].value
  <2>1. e \in Expressions
    BY GrammarAssumption DEF Declare
  <2>2. BindingOK(BindingOf(e))
    <3>1. CASE e.kind = "call"
      BY <2>1, <3>1, GrammarAssumption DEF BindingOf, BindingOK, PartialOf
    <3>2. CASE /\ e.kind = "name" /\ IsBound(e.name) /\ IsEffectFunction(bindings[e.name])
      BY <3>2 DEF BindingOf, BindingsOK, IsBound
    <3>3. CASE /\ e.kind = "name" /\ ~IsBound(e.name) /\ e.name \in Effects
      BY <3>3 DEF BindingOf, BindingOK, AliasOf
    <3>4. CASE BindingOf(e) = LazyOf(e)
      BY <2>1, <3>4 DEF BindingOK, LazyOf
    <3> QED
      BY <3>1, <3>2, <3>3, <3>4 DEF BindingOf
  <2> HIDE DEF e
  <2>3. BindingsOK(bindings')
    BY <1>2, <2>2 DEF BindingsOK, e
  <2>4. stack' = <<>>
    BY <1>2 DEF Declare
  <2> QED
    BY <1>2, <2>3, <2>4, NoneResolves
<1> QED
  BY <1>1, <1>2 DEF Declare, Reject, Stop

LEMMA ValueEndsKeeps ==
    ASSUME Resolution, ValueEnds, Sound(stack')
    PROVE  /\ Resolution'
           /\ \A n \in Names : bindings'[n] # bindings[n] =>
                 bindings[n].kind = "lazy" /\ bindings[n].value = <<>>
<1> USE DEF Resolution
<1>1. CASE UNCHANGED <<program, next, bindings, stack>>
  BY <1>1
<1>2. ASSUME NEW value, stack' = Given(Front(stack), value), UNCHANGED <<program, next>>,
             bindings' = IF Top.what = "let" THEN Resolved(bindings, Top.name, <<value>>)
                                             ELSE bindings
      PROVE  /\ Resolution'
             /\ \A n \in Names : bindings'[n] # bindings[n] =>
                   bindings[n].kind = "lazy" /\ bindings[n].value = <<>>
  <2>1. /\ stack # <<>> /\ Top = stack[Len(stack)] /\ Top.todo = <<>> /\ ~IsChain(Top)
        /\ Sound(stack) /\ Len(stack) \in Nat \ {0}
    BY EmptySeq DEF ValueEnds, Top, Last, IsResolving, Sound, IsStack
  <2>2. IsDone(stack[Len(stack)]) /\ Len(stack) > 1
    <3>1. FrameOK(stack[Len(stack)])
      BY <2>1 DEF IsResolving, FramesOK
    <3>2. Len(stack) # 1
      <4>1. IsChain(stack[1])
        BY <2>1 DEF Sound, IsStack
      <4> QED
        BY <2>1, <4>1
    <3>3. ~IsChain(stack[Len(stack)]) /\ stack[Len(stack)].todo = <<>>
      BY DEF ValueEnds, Top, Last
    <3>4. Len(stack) > 1
      <4>1. \A n \in Nat \ {0} : n # 1 => n > 1
        OBVIOUS
      <4> QED
        BY <2>1, <3>2, <4>1
    <3> QED
      BY <3>1, <3>3, <3>4 DEF FrameOK, IsDone
  <2>3. /\ Sound(Front(stack)) /\ Len(Front(stack)) = Len(stack) - 1
        /\ SameUpTo(Front(stack), stack, Len(stack) - 1)
    BY <2>1, SoundPop DEF SameUpTo, SamePlace
  <2>4. /\ IsResolving(bindings, stack') /\ Len(stack') = Len(stack) - 1
        /\ \A m \in 1 .. Len(stack) - 1 :
              stack'[m].what = stack[m].what /\ stack'[m].name = stack[m].name
    BY <1>2, <2>2, <2>3, ReturnKeeps
  <2>5. CASE Top.what # "let"
    BY <1>2, <2>4, <2>5
  <2>6. CASE Top.what = "let"
    <3>1. IsLet(bindings, Top.name) /\ bindings[Top.name].value = <<>>
      BY <2>1, <2>6 DEF IsResolving, Unresolved
    <3>2. \A m \in 1 .. Len(stack') : stack'[m].what = "let" => stack'[m].name # Top.name
      BY <2>1, <2>2, <2>4, <2>6, OneResolves
    <3>3. IsResolving(bindings', stack')
      BY <1>2, <2>4, <2>6, <3>1, <3>2, ResolvedResolving
    <3>4. /\ BindingsOK(bindings')
          /\ \A n \in Names : n # Top.name => bindings'[n] = bindings[n]
      BY <1>2, <2>6, <3>1, ResolvedIsAlike
    <3> QED
      BY <1>2, <3>1, <3>3, <3>4 DEF IsLet
  <2> QED
    BY <2>5, <2>6
<1> QED
  BY <1>1, <1>2 DEF ValueEnds, Reject, Stop, Resolved

LEMMA CallBeginsKeeps ==
    ASSUME Resolution, CallBegins, Sound(stack')
    PROVE  IsResolving(bindings, stack')
<1> USE DEF Resolution
<1>1. CASE stack' = stack
  BY <1>1
<1> DEFINE written == Head(Top.calls)
           f == [Top EXCEPT !.call = <<CallOf(written)>>, !.calls = Tail(@),
                            !.todo = ValuesOf(CallOf(written))]
<1>2. CASE /\ IsEffectFunction(FunctionOf(written))
           /\ stack' = [stack EXCEPT
                  ![Len(stack)].call = <<CallOf(written)>>,
                  ![Len(stack)].calls = Tail(@),
                  ![Len(stack)].todo = ValuesOf(CallOf(written))]
  <2>1. /\ stack # <<>> /\ Top = stack[Len(stack)] /\ IsChain(Top)
        /\ Top.call = <<>> /\ Top.calls # <<>>
        /\ Sound(stack) /\ Len(stack) \in Nat \ {0}
    BY EmptySeq DEF CallBegins, AtChain, Top, Last, IsResolving, Sound, IsStack
  <2>2. DOMAIN Top = Fields /\ FrameOK(Top)
    BY <2>1 DEF Sound, IsStack, IsResolving, FramesOK
  <2>3. Top.todo = <<>>
    BY <2>1, <2>2 DEF FrameOK
  <2>4. stack' = [stack EXCEPT ![Len(stack)] = f]
    BY <1>2, <2>1
  <2>5. /\ f.what = Top.what /\ f.name = Top.name
        /\ f.call = <<CallOf(written)>> /\ f.calls = Tail(Top.calls)
        /\ f.todo = ValuesOf(CallOf(written))
    BY <2>2 DEF Fields
  <2> HIDE DEF f
  <2>6. Moves(bindings, stack[Len(stack)], f)
    BY <1>2, <2>1, <2>3, <2>5, FunctionsAreIn DEF Moves, Begins
  <2> QED
    BY <2>1, <2>3, <2>4, <2>6, ChainMoves
<1> QED
  BY <1>1, <1>2 DEF CallBegins, Reject, Stop

LEMMA CallEndsKeeps ==
    ASSUME Resolution, CallEnds, Sound(stack')
    PROVE  IsResolving(bindings, stack')
<1> USE DEF Resolution
<1> DEFINE Ended(step) == [stack EXCEPT
                  ![Len(stack)].call = <<>>, ![Len(stack)].pending = <<>>,
                  ![Len(stack)].values = <<>>, ![Len(stack)].first = FALSE,
                  ![Len(stack)].steps = Append(@, step)]
<1>1. CASE stack' = stack
  BY <1>1
<1>2. ASSUME NEW step, stack' = Ended(step)
      PROVE  IsResolving(bindings, stack')
  <2> DEFINE f == [Top EXCEPT !.call = <<>>, !.pending = <<>>, !.values = <<>>,
                              !.first = FALSE, !.steps = Append(@, step)]
  <2>1. /\ stack # <<>> /\ Top = stack[Len(stack)] /\ Top.call # <<>> /\ Top.todo = <<>>
        /\ Sound(stack) /\ Len(stack) \in Nat \ {0}
    BY EmptySeq DEF CallEnds, AtChain, Top, Last, IsResolving, Sound, IsStack
  <2>2. DOMAIN Top = Fields
    BY <2>1 DEF Sound, IsStack
  <2>3. stack' = [stack EXCEPT ![Len(stack)] = f]
    BY <1>2, <2>1
  <2>4. /\ f.what = Top.what /\ f.name = Top.name
        /\ f.call = <<>> /\ f.calls = Top.calls /\ f.todo = Top.todo
    BY <2>2 DEF Fields
  <2> HIDE DEF f
  <2>5. Moves(bindings, stack[Len(stack)], f)
    BY <2>1, <2>4 DEF Moves, Ends
  <2> QED
    BY <2>1, <2>3, <2>5, ChainMoves
<1> QED
  BY <1>1, <1>2 DEF CallEnds, Reject, Stop

LEMMA ArgumentEndsKeeps ==
    ASSUME Resolution, ArgumentEnds
    PROVE  IsResolving(bindings, stack')
<1> USE DEF Resolution
<1>1. CASE stack' = stack
  BY <1>1
<1>2. ASSUME NEW c, NEW chain, NEW value,
             stack' = Given([Front(stack) EXCEPT ![c].pending = Append(@, chain)], value)
      PROVE  IsResolving(bindings, stack')
  <2>1. /\ stack # <<>> /\ Top = stack[Len(stack)] /\ IsChain(Top)
        /\ Top.call = <<>> /\ Top.calls = <<>> /\ Len(stack) > 1
        /\ Sound(stack) /\ Len(stack) \in Nat \ {0}
    BY EmptySeq DEF ArgumentEnds, ChainIsOver, AtChain, Top, Last, IsResolving, Sound, IsStack
  <2>2. IsDone(stack[Len(stack)])
    <3>1. FrameOK(stack[Len(stack)])
      BY <2>1 DEF IsResolving, FramesOK
    <3> QED
      BY <2>1, <3>1 DEF FrameOK, IsDone
  <2>3. /\ Sound(Front(stack)) /\ Len(Front(stack)) = Len(stack) - 1
        /\ SameUpTo(Front(stack), stack, Len(stack) - 1)
    BY <2>1, SoundPop DEF SameUpTo, SamePlace
  <2> DEFINE outer == [Front(stack) EXCEPT ![c].pending = Append(@, chain)]
  <2>4. /\ Sound(outer) /\ Len(outer) = Len(stack) - 1
        /\ SameUpTo(outer, Front(stack), Len(stack) - 1)
    <3>1. Sound(outer) /\ Len(outer) = Len(Front(stack))
      BY <2>3, SoundPending
    <3>2. SameUpTo(outer, Front(stack), Len(Front(stack)))
      BY <2>3, PendingStays
    <3> QED
      BY <2>3, <3>1, <3>2
  <2>5. stack' = Given(outer, value)
    BY <1>2
  <2> HIDE DEF outer
  <2>6. SameUpTo(outer, stack, Len(stack) - 1)
    BY <2>3, <2>4 DEF SameUpTo, SamePlace
  <2> QED
    BY <2>1, <2>2, <2>4, <2>5, <2>6, ReturnKeeps
<1> QED
  BY <1>1, <1>2 DEF ArgumentEnds, Reject, Stop

LEMMA ChainBeginsKeeps ==
    ASSUME Resolution, ChainBegins, Sound(stack')
    PROVE  IsResolving(bindings, stack')
<1> USE DEF Resolution
<1>1. CASE stack' = stack
  BY <1>1
<1>2. CASE stack' = Append(stack, ChainFrame(program[next].calls))
  <2>1. program[next].calls \in Seq(CallType)
    BY GrammarAssumption DEF ChainBegins
  <2>2. Len(stack') = 1 /\ stack'[1] = ChainFrame(program[next].calls)
    <3>1. stack = <<>>
      BY DEF ChainBegins
    <3> QED
      BY <1>2, <3>1
  <2> QED
    BY <2>1, <2>2, FirstOpens
<1> QED
  BY <1>1, <1>2 DEF ChainBegins, Push, Stop

LEMMA ResolutionStep ==
    ASSUME Resolution, [Next]_vars
    PROVE  Resolution'
<1> USE DEF Resolution
<1>0. Sound(stack')
  BY SoundStep DEF IsResolving
<1>1. CASE Declare
  BY <1>1, DeclareKeeps
<1>2. CASE EvaluateLiteral
  <2>1. ~Opens(bindings, Value) /\ AtValue /\ \E value : Yield(value)
    BY <1>2 DEF EvaluateLiteral, Opens
  <2>2. IsResolving(bindings, stack')
    BY <2>1, YieldKeeps
  <2> QED
    BY <2>1, <2>2 DEF Yield, Reject, Stop
<1>3. CASE EvaluateFreeName
  <2>1. CASE UNCHANGED <<program, next, bindings, stack>>
    BY <2>1
  <2>2. CASE \E value : Yield(value)
    <3>1. ~Opens(bindings, Value) /\ AtValue
      BY <1>3 DEF EvaluateFreeName, Opens, IsLet, IsBound
    <3>2. IsResolving(bindings, stack')
      BY <2>2, <3>1, YieldKeeps
    <3> QED
      BY <2>2, <3>2 DEF Yield, Reject, Stop
  <2> QED
    BY <1>3, <2>1, <2>2 DEF EvaluateFreeName, Reject, Stop
<1>4. CASE EvaluateFunctionName
  <2>1. CASE UNCHANGED <<program, next, bindings, stack>>
    BY <2>1
  <2>2. CASE \E value : bindings[Value.name].kind = "alias" /\ Yield(value)
    <3>1. ~Opens(bindings, Value) /\ AtValue
      BY <1>4, <2>2 DEF EvaluateFunctionName, Opens, IsLet
    <3>2. IsResolving(bindings, stack')
      BY <2>2, <3>1, YieldKeeps
    <3> QED
      BY <2>2, <3>2 DEF Yield, Reject, Stop
  <2> QED
    BY <1>4, <2>1, <2>2 DEF EvaluateFunctionName, Reject, Stop
<1>5. CASE EvaluateLet
  <2> DEFINE f == LetFrame(Value.name, bindings[Value.name].expression, Top.depth, Top.resolving)
  <2>1. CASE UNCHANGED <<program, next, bindings, stack>>
    BY <2>1
  <2>2. CASE \E value : bindings[Value.name].value # <<>> /\ Yield(value)
    <3>1. AtValue /\ Value.kind = "name"
      BY <1>5 DEF EvaluateLet
    <3>2. IsResolving(bindings, stack')
      BY <2>2, <3>1, YieldKeeps
    <3> QED
      BY <2>2, <3>2 DEF Yield, Reject, Stop
  <2>3. CASE bindings[Value.name].value = <<>> /\ Push(f)
    <3>1. /\ AtValue /\ Value.kind = "name" /\ Opens(bindings, Value)
      BY <1>5 DEF EvaluateLet, Opens, IsLet, IsBound
    <3>2. SamePlace(f, StartOf(bindings, Value))
      BY <3>1, Starts
    <3> HIDE DEF f
    <3>3. IsResolving(bindings, stack')
      BY <1>0, <2>3, <3>1, <3>2, PushKeeps
    <3> QED
      BY <2>3, <3>3 DEF Push, Stop
  <2> QED
    BY <1>5, <2>1, <2>2, <2>3 DEF EvaluateLet, Reject, Stop
<1>6. CASE EvaluateOscillator
  <2> DEFINE f == OscFrame(Value.type, Value.fields, Top.depth + 1, Top.resolving)
  <2>1. CASE UNCHANGED <<program, next, bindings, stack>>
    BY <2>1
  <2>2. CASE Push(f)
    <3>1. AtValue /\ Value.kind = "osc" /\ Opens(bindings, Value)
      BY <1>6 DEF EvaluateOscillator, Opens
    <3>2. SamePlace(f, StartOf(bindings, Value))
      BY <3>1, Starts
    <3> HIDE DEF f
    <3>3. IsResolving(bindings, stack')
      BY <1>0, <2>2, <3>1, <3>2, PushKeeps
    <3> QED
      BY <2>2, <3>3 DEF Push, Stop
  <2> QED
    BY <1>6, <2>1, <2>2 DEF EvaluateOscillator, Reject, Stop
<1>7. CASE EvaluateCompound
  <2> DEFINE depth == IF Value.kind = "array" THEN Top.depth ELSE 0
             f == Frame(Value.kind, Value.values, depth, Top.resolving)
  <2>1. /\ AtValue /\ Value.kind \in {"array", "vector", "arithmetic"}
        /\ Opens(bindings, Value) /\ Push(f)
    BY <1>7 DEF EvaluateCompound, Opens
  <2>2. SamePlace(f, StartOf(bindings, Value))
    <3> HIDE DEF depth
    <3> QED
      BY <2>1, Starts
  <2> HIDE DEF f
  <2>3. IsResolving(bindings, stack')
    BY <1>0, <2>1, <2>2, PushKeeps
  <2> QED
    BY <2>1, <2>3 DEF Push, Stop
<1>8. CASE EvaluateChain
  <2> DEFINE f == ChainFrame(Value.calls)
  <2>1. AtValue /\ Value.kind = "chain" /\ Opens(bindings, Value) /\ Push(f)
    BY <1>8 DEF EvaluateChain, Opens
  <2>2. SamePlace(f, StartOf(bindings, Value))
    BY <2>1, Starts
  <2> HIDE DEF f
  <2>3. IsResolving(bindings, stack')
    BY <1>0, <2>1, <2>2, PushKeeps
  <2> QED
    BY <2>1, <2>3 DEF Push, Stop
<1>9. CASE ValueEnds
  BY <1>0, <1>9, ValueEndsKeeps
<1>10. CASE ChainBegins
  <2>1. IsResolving(bindings, stack')
    BY <1>0, <1>10, ChainBeginsKeeps
  <2> QED
    BY <1>10, <2>1 DEF ChainBegins, Push, Stop
<1>11. CASE CallBegins
  <2>1. IsResolving(bindings, stack')
    BY <1>0, <1>11, CallBeginsKeeps
  <2> QED
    BY <1>11, <2>1 DEF CallBegins, Reject, Stop
<1>12. CASE CallEnds
  <2>1. IsResolving(bindings, stack')
    BY <1>0, <1>12, CallEndsKeeps
  <2> QED
    BY <1>12, <2>1 DEF CallEnds, Reject, Stop
<1>13. CASE StatementEnds
  BY <1>13, NoneResolves DEF StatementEnds
<1>14. CASE ArgumentEnds
  <2>1. IsResolving(bindings, stack')
    BY <1>14, ArgumentEndsKeeps
  <2> QED
    BY <1>14, <2>1 DEF ArgumentEnds, Reject, Stop
<1>15. CASE Finish
  BY <1>15 DEF Finish, Stop
<1>16. CASE UNCHANGED vars
  BY <1>16 DEF vars
<1> QED
  BY <1>1, <1>2, <1>3, <1>4, <1>5, <1>6, <1>7, <1>8, <1>9, <1>10, <1>11, <1>12,
     <1>13, <1>14, <1>15, <1>16 DEF Next

LEMMA InitResolves ==
    ASSUME Init PROVE Resolution
<1>1. BindingsOK(bindings)
  BY DEF Init, BindingsOK, BindingOK
<1> QED
  BY <1>1, NoneResolves DEF Init, Resolution

\* Every step but a let statement leaves the lets that have a value as they are.
LEMMA LetsAreKept ==
    ASSUME Resolution, [Next]_vars, NEW n \in Names,
           bindings[n].kind = "lazy", bindings[n].value # <<>>, bindings'[n] # bindings[n]
    PROVE  next <= Len(program) /\ program[next].kind = "let" /\ program[next].name = n
<1>1. CASE Declare
  <2>1. /\ bindings' = [bindings EXCEPT ![program[next].name] = BindingOf(program[next].value)]
        /\ next <= Len(program) /\ program[next].kind = "let"
    BY <1>1 DEF Declare, Reject, Stop
  <2>2. DOMAIN bindings = Names
    BY DEF Resolution, BindingsOK
  <2> QED
    BY <2>1, <2>2
<1>2. CASE ValueEnds
  BY <1>2, SoundStep, ValueEndsKeeps DEF Resolution, IsResolving
<1>3. CASE bindings' = bindings
  BY <1>3
<1>4. Declare \/ ValueEnds \/ bindings' = bindings
  BY DEF Next, vars, EvaluateLiteral, EvaluateFreeName, EvaluateFunctionName, EvaluateLet,
         EvaluateOscillator, EvaluateCompound, EvaluateChain, ChainBegins, CallBegins, CallEnds,
         StatementEnds, ArgumentEnds, Finish, Yield, Push, Reject, Stop
<1> QED
  BY <1>1, <1>2, <1>3, <1>4

\* A let has the value of its first use, however deep its resolution leads and
\* whatever it leads to: a resolution that comes back to the same let does not
\* end, so that no value is replaced (compiler.cpp:484-507, resolve_binding).
THEOREM LetsAreEvaluatedOnce == Spec => EvaluatedOnce
<1>1. Init => Resolution
  BY InitResolves
<1>2. Resolution /\ [Next]_vars => Resolution'
  BY ResolutionStep
<1>3. Resolution /\ [Next]_vars =>
        [\A n \in Names :
           bindings[n].kind = "lazy" /\ bindings[n].value # <<>> /\ bindings'[n] # bindings[n]
             => next <= Len(program) /\ program[next].kind = "let" /\ program[next].name = n]_vars
  BY LetsAreKept
<1> QED
  BY <1>1, <1>2, <1>3, PTL DEF Spec, EvaluatedOnce
=============================================================================

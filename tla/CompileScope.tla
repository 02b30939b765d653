---------------------------- MODULE CompileScope ----------------------------
(***************************************************************************)
(* The scope of the DSL compiler (src/dsl/compiler.cpp): let bindings,     *)
(* which resolve at their first use, and chain arguments, which compile to *)
(* chains of their own while the arguments of a call resolve.  evaluate,   *)
(* compile_oscillator and compile_chain call each other; the call stack is *)
(* a variable and every step evaluates one value, or opens or closes one   *)
(* call.                                                                   *)
(*                                                                         *)
(* The calls are those of effects that the registry knows, in an order     *)
(* that compile_chain accepts (PlanAdmission has that), with parameters of *)
(* any type; all such a rejection could do is end the compilation earlier. *)
(* A number stands for a literal, and arithmetic adds.                     *)
(***************************************************************************)
EXTENDS Integers, Sequences, SequencesExt

CONSTANTS
    Programs,   \* sequences of let statements and chains, in program order
    Expressions,\* the expressions in them, with those that they consist of
    Names,      \* the names that let may bind
    Effects,    \* the effects in the search namespaces
    Parameters, \* the parameters of an effect, in order
    OscKinds,   \* the names of kOscKinds
    MaxDepth,   \* kMaxAutomationDepth
    MaxStack    \* bound: the calls that the native stack has room for

ASSUME ScopeAssumption == Names \cap (Effects \cup {"read", "write"}) = {}

\* An argument has an empty key where the call is positional.
CallType ==
    [name : STRING, mode : {"none", "positional", "named"},
     arguments : Seq([key : STRING, value : Expressions])]

\* What the parser builds: the parts of an expression are expressions.
ASSUME GrammarAssumption ==
    /\ Effects \subseteq STRING
    /\ \A e \in Expressions :
          /\ e.kind = "osc" => e.type \in Seq(Expressions) /\ e.fields \in Seq(Expressions)
          /\ e.kind \in {"array", "vector", "arithmetic"} => e.values \in Seq(Expressions)
          /\ e.kind = "chain" => e.calls \in Seq(CallType)
          /\ e.kind = "call" => e.call \in CallType
    /\ \A p \in Programs : \A i \in 1 .. Len(p) :
          /\ p[i].kind = "let" => p[i].value \in Expressions
          /\ p[i].kind = "chain" => p[i].calls \in Seq(CallType)

VARIABLES
    program,      \* the parsed program
    next,         \* the statement to compile, by next_binding and chain_index
    bindings,     \* scope.bindings
    stack,        \* the active calls, innermost last
    inline_count, \* scope.inline_count
    plan,         \* the chains compiled so far
    phase         \* "running", "done", "rejected" or "overflow"

vars == <<program, next, bindings, stack, inline_count, plan, phase>>

Unbound == [kind |-> "unbound"]

Init ==
    /\ program \in Programs /\ next = 1
    /\ bindings = [n \in Names |-> Unbound]
    /\ stack = <<>>
    /\ inline_count = 0
    /\ plan = <<>>
    /\ phase = "running"

Stop(outcome) ==
    /\ phase' = outcome
    /\ UNCHANGED <<program, next, bindings, stack, inline_count, plan>>

Reject == Stop("rejected")

-----------------------------------------------------------------------------
\* Values and frames.

Number(n)  == [kind |-> "number", number |-> n]
String(s)  == [kind |-> "string", string |-> s]
Surface(s) == [kind |-> "surface", surface |-> s]
Array(v)   == [kind |-> "array", values |-> v]
Osc(v)     == [kind |-> "osc", values |-> v]
Null       == [kind |-> "null"]

Hidden(i) == <<"inline", i>>

\* One active call: the values it has still to evaluate and has evaluated, the
\* oscillator depth and the path of lets that it passes to evaluate.  what is
\* "let", "osc", "array", "vector", "arithmetic" or "chain".  A let has a name
\* and an oscillator the number of its values that are its type; compile_chain
\* has the calls left, the merged call whose arguments resolve, the chains those
\* compiled to (scope.pending), and the steps so far.
NoFrame ==
    [what |-> "none", todo |-> <<>>, values |-> <<>>, depth |-> 0, resolving |-> {},
     name |-> "", types |-> 0,
     calls |-> <<>>, call |-> <<>>, pending |-> <<>>, steps |-> <<>>, first |-> TRUE]

Frame(what, todo, depth, resolving) ==
    [NoFrame EXCEPT !.what = what, !.todo = todo, !.depth = depth, !.resolving = resolving]

LetFrame(name, expression, depth, resolving) ==
    [Frame("let", <<expression>>, depth, resolving \cup {name}) EXCEPT !.name = name]

OscFrame(type, fields, depth, resolving) ==
    [Frame("osc", type \o fields, depth, resolving) EXCEPT !.types = Len(type)]

ChainFrame(calls) == [Frame("chain", <<>>, 0, {}) EXCEPT !.calls = calls]

Top == Last(stack)

IsChain(frame) == frame.what = "chain"

Push(frame) ==
    IF Len(stack) = MaxStack THEN Stop("overflow")
    ELSE /\ stack' = Append(stack, frame)
         /\ UNCHANGED <<program, next, bindings, inline_count, plan, phase>>

\* What compile_oscillator takes for its fields, the type first.
Takes(frame, value) ==
    frame.what = "osc" =>
        IF Len(frame.values) < frame.types
        THEN \/ value.kind = "number" /\ value.number \in 0 .. 6
             \/ value.kind = "string" /\ value.string \in OscKinds
        ELSE value.kind \in {"number", "osc", "null"}

\* The frames s, the last one of which has evaluated the next of its values.
Given(s, value) ==
    [s EXCEPT ![Len(s)].todo = Tail(@), ![Len(s)].values = Append(@, value)]

Yield(value) ==
    IF ~Takes(Top, value) THEN Reject
    ELSE /\ stack' = Given(stack, value)
         /\ UNCHANGED <<program, next, bindings, inline_count, plan, phase>>

-----------------------------------------------------------------------------
\* declare_binding

AliasOf(name) == [kind |-> "alias", name |-> name]
PartialOf(call) == [kind |-> "partial", call |-> call]
LazyOf(expression) == [kind |-> "lazy", expression |-> expression, value |-> <<>>]

IsEffectFunction(binding) == binding.kind \in {"alias", "partial"}

IsBound(name) == name \in Names /\ bindings[name] # Unbound

\* let x = f(..) keeps the call, let x = y copies an alias or a partial, and
\* anything else waits for its first use.
BindingOf(value) ==
    IF value.kind = "call" THEN PartialOf(value.call)
    ELSE IF value.kind = "name" /\ IsBound(value.name) /\ IsEffectFunction(bindings[value.name])
    THEN bindings[value.name]
    ELSE IF value.kind = "name" /\ ~IsBound(value.name) /\ value.name \in Effects
    THEN AliasOf(value.name)
    ELSE LazyOf(value)

MayDeclare(value) ==
    value.kind = "name" => IsBound(value.name) \/ value.name \in Effects

\* Faulty variant: next_binding stays where it is.
DeclareAgain ==
    /\ phase = "running" /\ stack = <<>> /\ next <= Len(program)
    /\ program[next].kind = "let"
    /\ LET statement == program[next] IN
       IF ~MayDeclare(statement.value) THEN Reject
       ELSE /\ bindings' = [bindings EXCEPT ![statement.name] = BindingOf(statement.value)]
            /\ UNCHANGED <<program, next, stack, inline_count, plan, phase>>

Declare ==
    /\ phase = "running" /\ stack = <<>> /\ next <= Len(program)
    /\ program[next].kind = "let"
    /\ LET statement == program[next] IN
       IF ~MayDeclare(statement.value) THEN Reject
       ELSE /\ bindings' = [bindings EXCEPT ![statement.name] = BindingOf(statement.value)]
            /\ next' = next + 1
            /\ UNCHANGED <<program, stack, inline_count, plan, phase>>

\* A let after the chain that is being compiled.
IsPending(name) ==
    \E i \in next + 1 .. Len(program) : program[i].kind = "let" /\ program[i].name = name

-----------------------------------------------------------------------------
\* evaluate

AtValue == phase = "running" /\ stack # <<>> /\ Top.todo # <<>>

Value == Head(Top.todo)

EvaluateLiteral ==
    /\ AtValue
    /\ \/ Value.kind \in {"number", "string", "surface"} /\ Yield(Value)
       \/ Value.kind = "input" /\ Yield(Null)

\* A name that nothing binds is an enum member, unless a later let binds it.
EvaluateFreeName ==
    /\ AtValue /\ Value.kind = "name" /\ ~IsBound(Value.name)
    /\ IF IsPending(Value.name) THEN Reject ELSE Yield(String(Value.name))

EvaluateFunctionName ==
    /\ AtValue /\ Value.kind = "name" /\ IsBound(Value.name)
    /\ LET binding == bindings[Value.name] IN
       \/ binding.kind = "partial" /\ Reject
       \/ binding.kind = "alias" /\ Yield(String(binding.name))

\* Faulty variant: the path is not consulted.
EvaluateLetUnchecked ==
    /\ AtValue /\ Value.kind = "name" /\ IsBound(Value.name)
    /\ LET binding == bindings[Value.name] IN
       /\ binding.kind = "lazy"
       /\ IF binding.value # <<>> THEN Yield(binding.value[1])
          ELSE Push(LetFrame(Value.name, binding.expression, Top.depth, Top.resolving))

\* Faulty variant: every use resolves the expression again.
EvaluateLetEachTime ==
    /\ AtValue /\ Value.kind = "name" /\ IsBound(Value.name)
    /\ LET binding == bindings[Value.name] IN
       /\ binding.kind = "lazy"
       /\ IF Value.name \in Top.resolving THEN Reject
          ELSE Push(LetFrame(Value.name, binding.expression, Top.depth, Top.resolving))

EvaluateLet ==
    /\ AtValue /\ Value.kind = "name" /\ IsBound(Value.name)
    /\ LET binding == bindings[Value.name] IN
       /\ binding.kind = "lazy"
       /\ IF binding.value # <<>> THEN Yield(binding.value[1])
          ELSE IF Value.name \in Top.resolving THEN Reject
          ELSE Push(LetFrame(Value.name, binding.expression, Top.depth, Top.resolving))

\* An oscillator evaluates its type, then its other fields, one level deeper.
EvaluateOscillator ==
    /\ AtValue /\ Value.kind = "osc"
    /\ IF Top.depth > MaxDepth THEN Reject
       ELSE Push(OscFrame(Value.type, Value.fields, Top.depth + 1, Top.resolving))

\* Arithmetic and vectors start again at depth 0; an array passes it on.
EvaluateCompound ==
    /\ AtValue /\ Value.kind \in {"array", "vector", "arithmetic"}
    /\ Push(Frame(Value.kind, Value.values,
                  IF Value.kind = "array" THEN Top.depth ELSE 0, Top.resolving))

\* A chain resolves its arguments on a path of its own.
EvaluateChain ==
    /\ AtValue /\ Value.kind = "chain"
    /\ Push(ChainFrame(Value.calls))

Sum(values) == FoldSeq(LAMBDA v, total : v.number + total, 0, values)

ValueEnds ==
    /\ phase = "running" /\ stack # <<>> /\ Top.todo = <<>> /\ ~IsChain(Top)
    /\ LET values == Top.values
           value  == CASE Top.what = "let" -> values[1]
                       [] Top.what = "osc" -> Osc(values)
                       [] Top.what = "arithmetic" -> Number(Sum(values))
                       [] OTHER -> Array(values)
           outer  == Front(stack)
       IN  IF \/ Top.what \in {"arithmetic", "vector"}
                   /\ \E i \in 1 .. Len(values) : values[i].kind # "number"
              \/ ~Takes(Last(outer), value)
           THEN Reject
           ELSE /\ stack' = Given(outer, value)
                /\ bindings' = IF Top.what = "let"
                               THEN [bindings EXCEPT ![Top.name].value = <<value>>]
                               ELSE bindings
                /\ UNCHANGED <<program, next, inline_count, plan, phase>>

-----------------------------------------------------------------------------
\* merge_arguments

\* Faulty variant: what the partial names stands.
PutKeepingFirst(arguments, argument) ==
    IF \E i \in 1 .. Len(arguments) : arguments[i].key = argument.key THEN arguments
    ELSE Append(arguments, argument)

Put(arguments, argument) ==
    LET same == {i \in 1 .. Len(arguments) : arguments[i].key = argument.key}
    IN  IF same = {} THEN Append(arguments, argument)
        ELSE [arguments EXCEPT ![CHOOSE i \in same : \A j \in same : i <= j] = argument]

\* Each is put in turn.
PutAll(arguments) ==
    LET upTo[n \in 0 .. Len(arguments)] ==
          IF n = 0 THEN <<>> ELSE Put(upTo[n - 1], arguments[n])
    IN  upTo[Len(arguments)]

MayMerge(stored, call) ==
    stored.mode = call.mode \/ "none" \in {stored.mode, call.mode}

Merged(stored, call) ==
    [name |-> stored.name,
     mode |-> IF stored.mode = "none" THEN call.mode ELSE stored.mode,
     arguments |->
        IF call.mode = "named" /\ stored.mode = "named"
        THEN PutAll(stored.arguments \o call.arguments)
        ELSE stored.arguments \o call.arguments]

-----------------------------------------------------------------------------
\* compile_chain

ChainBegins ==
    /\ phase = "running" /\ stack = <<>> /\ next <= Len(program)
    /\ program[next].kind = "chain"
    /\ Push(ChainFrame(program[next].calls))

AtChain == phase = "running" /\ stack # <<>> /\ IsChain(Top)

\* What a call names, and the call it stands for.
FunctionOf(written) ==
    IF IsBound(written.name) THEN bindings[written.name] ELSE AliasOf(written.name)

CallOf(written) ==
    LET binding == FunctionOf(written)
    IN  IF binding.kind = "alias" THEN [written EXCEPT !.name = binding.name]
                                  ELSE Merged(binding.call, written)

ValuesOf(call) == [i \in 1 .. Len(call.arguments) |-> call.arguments[i].value]

\* The arguments of the next call, a partial's first, begin to resolve.
CallBegins ==
    /\ AtChain /\ Top.call = <<>> /\ Top.calls # <<>>
    /\ LET written == Head(Top.calls)
           binding == FunctionOf(written)
       IN  IF \/ ~IsEffectFunction(binding)
              \/ binding.kind = "partial" /\ ~MayMerge(binding.call, written)
           THEN Reject
           ELSE /\ stack' = [stack EXCEPT
                    ![Len(stack)].call = <<CallOf(written)>>,
                    ![Len(stack)].calls = Tail(@),
                    ![Len(stack)].todo = ValuesOf(CallOf(written))]
                /\ UNCHANGED <<program, next, bindings, inline_count, plan, phase>>

Step(name, arguments, carried) == [name |-> name, arguments |-> arguments, carried |-> carried]

\* The parameter that the i-th argument is for.
Supplied(call, i) == IF call.mode = "named" THEN call.arguments[i].key ELSE Parameters[i]

\* An unsupported input leaves its parameter at the default.
Arguments(call, values) ==
    LET given == {i \in 1 .. Len(values) : values[i].kind # "null"}
    IN  [p \in {Supplied(call, i) : i \in given} |->
           values[CHOOSE i \in given : Supplied(call, i) = p]]

MayCall(call, values, first) ==
    IF call.name \in {"read", "write"}
    THEN /\ Len(values) = 1 /\ values[1].kind = "surface"
         /\ call.name = "read" => first
    ELSE /\ call.name \in Effects
         /\ call.mode = "named" \/ Len(values) <= Len(Parameters)

\* An effect carries the chains of its arguments, read and write do not.
CallEnds ==
    /\ AtChain /\ Top.call # <<>> /\ Top.todo = <<>>
    /\ LET call == Top.call[1]
           step == Step(call.name, Arguments(call, Top.values),
                        IF call.name \in Effects THEN Top.pending ELSE <<>>)
       IN  IF ~MayCall(call, Top.values, Top.first) THEN Reject
           ELSE /\ stack' = [stack EXCEPT
                    ![Len(stack)].call = <<>>, ![Len(stack)].pending = <<>>,
                    ![Len(stack)].values = <<>>, ![Len(stack)].first = FALSE,
                    ![Len(stack)].steps = Append(@, step)]
                /\ UNCHANGED <<program, next, bindings, inline_count, plan, phase>>

ChainIsOver == AtChain /\ Top.call = <<>> /\ Top.calls = <<>>

StatementEnds ==
    /\ ChainIsOver /\ Len(stack) = 1
    /\ plan' = Append(plan, Top.steps)
    /\ stack' = <<>>
    /\ next' = next + 1
    /\ UNCHANGED <<program, bindings, inline_count, phase>>

\* Faulty variant: every hidden surface has the same number.
ArgumentEndsUncounted ==
    /\ ChainIsOver /\ Len(stack) > 1
    /\ LET outer    == Front(stack)
           consumer == SelectLastInSeq(outer, IsChain)
           surface  == Hidden(inline_count)
       IN  IF ~Takes(Last(outer), Surface(surface)) THEN Reject
           ELSE /\ stack' = Given([outer EXCEPT ![consumer].pending =
                                     Append(@, [surface |-> surface, steps |-> Top.steps])],
                                  Surface(surface))
                /\ UNCHANGED <<program, next, inline_count, bindings, plan, phase>>

\* compile_inline_chain: the call whose arguments are resolving takes the chain
\* and its hidden surface.
ArgumentEnds ==
    /\ ChainIsOver /\ Len(stack) > 1
    /\ LET outer    == Front(stack)
           consumer == SelectLastInSeq(outer, IsChain)
           surface  == Hidden(inline_count)
       IN  IF ~Takes(Last(outer), Surface(surface)) THEN Reject
           ELSE /\ stack' = Given([outer EXCEPT ![consumer].pending =
                                     Append(@, [surface |-> surface, steps |-> Top.steps])],
                                  Surface(surface))
                /\ inline_count' = inline_count + 1
                /\ UNCHANGED <<program, next, bindings, plan, phase>>

\* Without a render directive the last written surface is rendered.
Finish ==
    /\ phase = "running" /\ stack = <<>> /\ next > Len(program)
    /\ Stop(IF \E i \in 1 .. Len(plan) : \E j \in 1 .. Len(plan[i]) : plan[i][j].name = "write"
            THEN "done" ELSE "rejected")

Next ==
    \/ Declare
    \/ EvaluateLiteral \/ EvaluateFreeName \/ EvaluateFunctionName \/ EvaluateLet
    \/ EvaluateOscillator \/ EvaluateCompound \/ EvaluateChain \/ ValueEnds
    \/ ChainBegins \/ CallBegins \/ CallEnds \/ StatementEnds \/ ArgumentEnds
    \/ Finish
    \/ phase # "running" /\ UNCHANGED vars

\* The compiler is one thread that nothing holds up.
Spec == Init /\ [][Next]_vars /\ WF_vars(Next)

-----------------------------------------------------------------------------
\* Cycles.

\* While a let resolves it is asked for again only by a chain argument within
\* it, whose arguments resolve on a path of their own.
OnlyChainsRecurse ==
    \A i, j \in 1 .. Len(stack) :
        i < j /\ stack[i].what = "let" /\ stack[j].what = "let" /\ stack[i].name = stack[j].name
          => \E k \in i + 1 .. j - 1 : IsChain(stack[k])

\* "Automation cycle detected" (compiler.cpp:486): lets that need each other
\* are reported, the compiler does not run out of stack.
CyclesAreReported == phase # "overflow"

\* Every program is compiled or rejected, or the stack overflows.
Terminates == <>(phase # "running")

\* The value of a let is that of its first use, whatever is declared later:
\* only a let statement for the same name takes it away.
EvaluatedOnce ==
    [][\A n \in Names :
         bindings[n].kind = "lazy" /\ bindings[n].value # <<>> /\ bindings'[n] # bindings[n]
           => next <= Len(program) /\ program[next].kind = "let" /\ program[next].name = n]_vars
=============================================================================

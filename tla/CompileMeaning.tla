--------------------------- MODULE CompileMeaning ---------------------------
(***************************************************************************)
(* What a compiled plan has to be: its hidden surfaces are rendered before *)
(* they are bound, and it is what the program stands for once its lets are *)
(* written out.                                                            *)
(***************************************************************************)
EXTENDS CompileScope

\* Hidden surfaces.

IsHidden(value) == value.kind = "surface" /\ value.surface \in {Hidden(i) : i \in 0 .. inline_count}

RECURSIVE HiddenIn(_)
HiddenIn(value) ==
    IF IsHidden(value) THEN {value.surface}
    ELSE IF value.kind \in {"array", "osc"} THEN UNION {HiddenIn(v) : v \in ToSet(value.values)}
    ELSE {}

HiddenArguments(step) == UNION {HiddenIn(step.arguments[p]) : p \in DOMAIN step.arguments}

\* What the steps, run in order after those that rendered the surfaces
\* available, render; "broken" once a surface is bound that has not been
\* rendered, or is rendered again.
RECURSIVE Renders(_, _)
Renders(steps, available) ==
    LET Carry(done, chain) ==
            LET inner == Renders(chain.steps, done)
            IN  IF chain.surface \in inner THEN inner \cup {"broken"}
                ELSE inner \cup {chain.surface}
        Run(done, step) ==
            LET carried == FoldLeft(Carry, done, step.carried)
            IN  IF HiddenArguments(step) \subseteq carried THEN carried
                ELSE carried \cup {"broken"}
    IN  FoldLeft(Run, available, steps)

RECURSIVE StepsOf(_)
StepsOf(steps) ==
    UNION {{steps[i]} \cup UNION {StepsOf(steps[i].carried[j].steps) : j \in 1 .. Len(steps[i].carried)}
             : i \in 1 .. Len(steps)}

\* read and write carry no chain: what they are given is never rendered.
KeepsArguments ==
    \A step \in StepsOf(FlattenSeq(plan)) :
        step.name \in {"read", "write"} => HiddenArguments(step) = {}

\* Every hidden surface that a step binds has been rendered, once, before it,
\* also where a let shares it between steps and only the first carries it.
HiddenSurfacesAreRendered ==
    phase = "done" /\ KeepsArguments => "broken" \notin Renders(FlattenSeq(plan), {})

-----------------------------------------------------------------------------
\* What the lets of a program that declares each name once stand for: its
\* expressions, put in their place.

Declared == {i \in 1 .. Len(program) : program[i].kind = "let"}

DeclaresOnce == \A i, j \in Declared : program[i].name = program[j].name => i = j

IsLet(name) == \E i \in Declared : program[i].name = name

LetOf(name) == program[CHOOSE i \in Declared : program[i].name = name].value

\* The function that a name stands for, followed through its lets.
RECURSIVE Function(_)
Function(name) ==
    IF ~IsLet(name) THEN [name |-> name, mode |-> "none", arguments |-> <<>>]
    ELSE IF LetOf(name).kind = "call" THEN LetOf(name).call
    ELSE Function(LetOf(name).name)

RECURSIVE IsFunction(_)
IsFunction(name) ==
    IF ~IsLet(name) THEN name \in Effects
    ELSE \/ LetOf(name).kind = "call"
         \/ LetOf(name).kind = "name" /\ IsFunction(LetOf(name).name)

\* The arguments of a partial and of its call, the last one for each parameter.
Together(stored, call) ==
    LET both == stored.arguments \o call.arguments
        mode == IF stored.mode = "none" THEN call.mode ELSE stored.mode
        key(i) == IF mode = "named" THEN both[i].key ELSE Parameters[i]
    IN  [p \in {key(i) : i \in 1 .. Len(both)} |->
           both[SelectLastInSubSeq([i \in 1 .. Len(both) |-> key(i)], 1, Len(both),
                                   LAMBDA k : k = p)].value]

RECURSIVE Meaning(_)
Meaning(e) ==
    LET All(values) == [i \in 1 .. Len(values) |-> Meaning(values[i])]
        Present(f)  == {p \in DOMAIN f : Meaning(f[p]) # Null}
        Call(c)     ==
            LET f == Together(Function(c.name), c)
            IN  [name |-> Function(c.name).name, arguments |-> [p \in Present(f) |-> Meaning(f[p])]]
    IN  CASE e.kind = "input" -> Null
          [] e.kind = "osc" -> Osc(All(e.type \o e.fields))
          [] e.kind = "arithmetic" -> Number(Sum(All(e.values)))
          [] e.kind \in {"array", "vector"} -> Array(All(e.values))
          [] e.kind = "chain" -> [kind |-> "chain", steps |-> [i \in 1 .. Len(e.calls) |-> Call(e.calls[i])]]
          [] e.kind = "name" -> IF IsFunction(e.name) THEN String(Function(e.name).name)
                                ELSE IF IsLet(e.name) THEN Meaning(LetOf(e.name))
                                ELSE String(e.name)
          [] OTHER -> e

\* The steps of a plan, and a value in them, with the chains of hidden surfaces
\* in their place.
RECURSIVE Unfolded(_), Shown(_)
Unfolded(steps) ==
    [i \in 1 .. Len(steps) |->
       [name |-> steps[i].name,
        arguments |-> [p \in DOMAIN steps[i].arguments |-> Shown(steps[i].arguments[p])]]]
Shown(value) ==
    IF value.kind \in {"array", "osc"}
    THEN [value EXCEPT !.values = [i \in DOMAIN @ |-> Shown(@[i])]]
    ELSE IF IsHidden(value)
    THEN LET Chains == UNION {ToSet(step.carried) : step \in StepsOf(FlattenSeq(plan))}
         IN  [kind |-> "chain",
              steps |-> Unfolded((CHOOSE c \in Chains : c.surface = value.surface).steps)]
    ELSE value

\* Memoized lets, hidden surfaces and merged calls come to the same plan as
\* the program with its lets written out.
CompilesBySubstitution ==
    phase = "done" /\ KeepsArguments /\ DeclaresOnce =>
        LET chains == SelectSeq(program, LAMBDA s : s.kind = "chain")
        IN  \A i \in 1 .. Len(plan) : Unfolded(plan[i]) = Meaning(chains[i]).steps
=============================================================================

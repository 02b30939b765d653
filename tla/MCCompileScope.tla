--------------------------- MODULE MCCompileScope ---------------------------
(***************************************************************************)
(* Instance of CompileScope for TLC: two lets, a chain, one of the lets    *)
(* again or a third, and a second chain.  The first let has one value for  *)
(* each form of the grammar that refers to a name, directly or in another; *)
(* the second has these, referring back, and values that refer to nothing. *)
(***************************************************************************)
EXTENDS CompileMeaning

Num(n)       == [kind |-> "number", number |-> n]
Name(n)      == [kind |-> "name", name |-> n]
Plus(v)      == [kind |-> "arithmetic", values |-> v]
Vector(v)    == [kind |-> "vector", values |-> v]
List(v)      == [kind |-> "array", values |-> v]
OscOf(t, f)  == [kind |-> "osc", type |-> t, fields |-> f]
Input        == [kind |-> "input"]
ChainOf(c)   == [kind |-> "chain", calls |-> c]
Partial(c)   == [kind |-> "call", call |-> c]

Positional(v) == [i \in 1 .. Len(v) |-> [key |-> "", value |-> v[i]]]
Call(name, v) ==
    [name |-> name, mode |-> IF v = <<>> THEN "none" ELSE "positional", arguments |-> Positional(v)]
Named(name, key, v) ==
    [name |-> name, mode |-> "named", arguments |-> <<[key |-> key, value |-> v]>>]

\* The values of the arguments of some calls.
ArgumentsIn(calls) == UNION {{a.value : a \in ToSet(c.arguments)} : c \in calls}

Let(n, v)   == [kind |-> "let", name |-> n, value |-> v]
Chain(c)    == [kind |-> "chain", calls |-> c]
Output      == Call("write", <<Surface("o0")>>)

MCParameters == <<"x", "y">>

\* The values a let may have that refers to the other one, or to itself.
Values(other) ==
    {Num(1), Name(other), Name("sine"), Name("mix"), Input,
     Plus(<<Name(other), Num(1)>>), Vector(<<Num(1), Name(other)>>), List(<<Name(other)>>),
     OscOf(<<>>, <<Name(other)>>), OscOf(<<Name(other)>>, <<Num(1)>>),
     OscOf(<<>>, <<OscOf(<<>>, <<Name(other)>>)>>),
     ChainOf(<<Call("solid", <<Name(other)>>)>>),
     ChainOf(<<Call("solid", <<>>), Call("mix", <<ChainOf(<<Call("solid", <<Name(other)>>)>>)>>)>>),
     Partial(Call("mix", <<Name(other)>>)), Partial(Named("mix", "x", Name(other))),
     Partial(Call("mix", <<ChainOf(<<Call(other, <<>>)>>)>>))}

Plain ==
    {Vector(<<Num(1), Num(2)>>), OscOf(<<Name("sine")>>, <<Num(1)>>),
     ChainOf(<<Call("solid", <<Num(1)>>)>>),
     ChainOf(<<Call("solid", <<>>), Call("mix", <<ChainOf(<<Call("solid", <<Num(1)>>)>>)>>)>>),
     Partial(Call("mix", <<Num(1)>>)), Partial(Named("mix", "x", Num(1)))}

\* The calls that use the lets, in the first and in the second chain.
Uses ==
    {<<Call("solid", <<>>), Call("mix", <<Name("a"), Name("b")>>)>>,
     <<Call("solid", <<>>), Call("mix", <<Input, Name("b")>>), Call("mix", <<Name("a"), Name("b")>>)>>,
     <<Call("solid", <<>>), Call("a", <<Name("b")>>)>>,
     <<Call("solid", <<>>), Named("b", "x", Num(2)), Named("b", "y", Num(2))>>,
     <<Call("read", <<Name("a")>>), Call("mix", <<Name("a")>>)>>,
     <<Call("solid", <<>>), Call("mix", <<ChainOf(<<Call("read", <<Surface("o0")>>),
                                                   Call("mix", <<Name("c"), Name("a")>>)>>)>>)>>}

LaterUses ==
    {<<Call("solid", <<Name("a"), Name("b")>>)>>, <<Call("solid", <<Name("a")>>)>>,
     <<Call("solid", <<>>), Call("b", <<Num(3)>>)>>}

Again == {Let("a", Num(2)), Let("b", Num(3)), Let("c", Name("a"))}

MCPrograms ==
    {<<Let("a", v), Let("b", w), Chain(Append(u, Output)), l, Chain(Append(t, Output))>> :
         v \in Values("b"), w \in Values("a") \cup Plain,
         u \in Uses, l \in Again, t \in LaterUses}

\* An expression and those it consists of.
RECURSIVE WithParts(_)
WithParts(e) ==
    LET parts == CASE e.kind = "osc" -> ToSet(e.type \o e.fields)
                   [] e.kind \in {"array", "vector", "arithmetic"} -> ToSet(e.values)
                   [] e.kind = "chain" -> ArgumentsIn(ToSet(e.calls))
                   [] e.kind = "call" -> ArgumentsIn({e.call})
                   [] OTHER -> {}
    IN  {e} \cup UNION {WithParts(part) : part \in parts}

MCExpressions ==
    UNION {WithParts(e) :
             e \in Values("a") \cup Values("b") \cup Plain \cup {l.value : l \in Again}
                     \cup UNION {ArgumentsIn(ToSet(u)) : u \in Uses \cup LaterUses \cup {<<Output>>}}}
=============================================================================

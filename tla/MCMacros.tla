------------------------------ MODULE MCMacros ------------------------------
(***************************************************************************)
(* Macros a (object-like), f and g (function-like) with every combination  *)
(* of the replacements below, applied to every short text over names,      *)
(* parentheses and commas, and to a few #if lines with other lines behind. *)
(***************************************************************************)
EXTENDS MacroReference

P(v) == [v |-> v, dots |-> FALSE]
Obj(name, body) == [name |-> name, params |-> NoParams, body |-> body]
Fun(name, ps, body) == [name |-> name, params |-> ps, body |-> body]
One == <<P("x")>>
Rest == <<P("x"), P("...")>>

A == {Obj("a", b) : b \in {<<"f">>, <<"g", "(", "a">>, <<"b", "##", "f", "a">>, <<"f", "(", "a", ")">>}}
F == {Fun("f", One, b) : b \in
        { <<"x", "f">>, <<"x", "g">>, <<"g", "(", "x", ")", "x">>, <<"a", "##", "x">>,
          <<"x", "##", "f", "(", "x", ")", "#", "x">> }}
G == {Fun("g", One, b) : b \in {<<"x">>, <<"f", "(", "x">>}}
     \cup {Fun("g", Rest, b) : b \in
        { <<"x", ",", "##", "__VA_ARGS__">>, <<"f", "(", "__VA_ARGS__", ")">> }}

Defining == {Obj("a", b) : b \in {<<"defined">>, <<"defined", "(", "f", ")", "__COUNTER__">>}}
Wrong == { <<Obj("a", <<"##", "1">>)>>, <<Fun("f", <<P("..."), P("x")>>, <<"x">>)>>,
           <<Obj("defined", <<"1">>)>>, <<Fun("f", One, <<"#", "a">>)>> }

Programs == {<<d, e, h>> : d \in A, e \in F, h \in G}
            \cup {<<d, e>> : d \in Defining, e \in F} \cup Wrong

TextOf(t) == [pp |-> FALSE, text |-> t]
IfLine(t, lines) == [pp |-> TRUE, text |-> t \o lines]
\* An argument list, or something else behind an empty line, and a name last.
LinesBehind == {<<"NL", "(", "2", ")", "NL", "a">>, <<"NL", "NL", "1", "NL", "a">>}
UpTo(S, n) == UNION {[1 .. m -> S] : m \in 0 .. n}

\* Calls of f with what may follow, short texts after a or g, #if lines.
Texts ==
  {TextOf(<<"f", "(">> \o t \o <<")">> \o u) :
      t \in UpTo({"a", "f", "g", ","}, 2), u \in {<< >>, <<"a">>, <<")">>} \cup {<<"(">> \o w : w \in [1 .. 2 -> {"(", ")", "1", "a"}]}}
  \cup {TextOf(<<v>> \o t) : v \in {"a", "g"}, t \in UpTo({"a", "f", "(", ")"}, 3)}
  \cup {TextOf(<<"f", "(", "__COUNTER__", "a", ")", "__COUNTER__">>)}
  \cup {IfLine(t, l) : t \in UpTo({"a", "f", "(", ")", "defined"}, 2), l \in LinesBehind}
  \cup {IfLine(<<"defined", "(">> \o t, l) : t \in UpTo({"a", ")", "1"}, 2), l \in LinesBehind}
=============================================================================

----------------------------- MODULE MCLayouts -----------------------------
(***************************************************************************)
(* Files for MCToolchain: programs whose constructs do not fit on a line,  *)
(* with and without trailing commas and needless parentheses, with         *)
(* comments put before each token in turn, and with one token missing.     *)
(* The names long and longer are nine columns wide.                        *)
(***************************************************************************)
EXTENDS MCSource

a == Var("a")
b == Var("b")
f == Var("f")
l == Var("long")
m == Var("longer")
IntW == [k |-> "Int"]
Written(k, args) == [k |-> k, a |-> args]
Text == StrE(<<97>>)
Fun1(e) == Fn(<<Param("x", <<>>)>>, <<>>, Only(e))

Chains ==
  {<<Let("a", <<>>, Binary("+", Binary("*", l, m), Binary("+", l, a))), Do(Call(f, <<l, a>>))>>,
   <<Let("a", <<>>, Binary("+", Binary("+", Call(l, <<m>>), Call(m, <<l>>)),
                            Call(f, <<Binary("*", Binary("-", l, m), m)>>)))>>,
   <<Do(If(Binary("||", l, Binary("&&", m, l)), Only(a),
           If(a, Only(l), BlockE(Block(<<Do(l)>>, <<>>)))))>>,
   <<Let("a", <<>>, Binary("+", Interp(<<Text, l>>), Call(l, <<m, l>>)))>>}
Groups ==
  {<<Let("a", <<>>, Construct("HttpResponse", <<"status", "headers">>,
                              <<Var("status"), Entries(<<Text, l>>)>>)),
     Do(Call(f, <<Construct("HttpHeader", <<"name">>, <<Var("name")>>)>>))>>,
   <<Do(Call(f, <<Binary("+", Text, Call(m, <<l, l>>))>>)),
     Let("b", <<>>, RecordE(<<"m", "n">>, <<Fun1(Binary("+", l, Question(m))), UnitE>>))>>,
   <<Let("a", <<>>, Field(Question(Call(l, <<m, a, b>>)), "long"))>>}
Arms ==
  {<<FnDef("f", <<Param("long", <<>>), Param("b", <<Written("Result", <<IntW, [k |-> "String"]>>)>>)>>,
           <<Written("Option", <<IntW>>)>>,
           Block(<<LetElse("Some", "a", <<>>, Call(l, <<m>>), "None", "", Call(m, <<l>>))>>,
                 <<Binary("==", a, l)>>))>>,
   <<Do(Match(l, <<VariantP("Some", <<VariantP("Ok", <<Binder("long")>>)>>), EmptyP,
                   ConsP(Binder("long"), Wildcard)>>,
              <<Call(l, <<a>>), ListE(<<l, m>>),
                Binary("&&", Binary("<", l, m), Unary("!", Unary("-", a)))>>))>>,
   <<Do(Match(Binary("+", l, Binary("*", m, l)), <<Binder("a")>>, <<Interp(<<Text, l>>)>>))>>}
Layouts == {TokensOf(p, c) : p \in Chains \cup Groups \cup Arms, c \in BOOLEAN}

(* At the end of a line, on a line of its own, documentation. *)
Remarked == {<<Comment("c", FALSE, TRUE), Comment("d", FALSE, FALSE)>>,
             <<Comment("d", FALSE, FALSE)>>,
             <<Comment("e", FALSE, TRUE), Comment("d", TRUE, FALSE)>>}
SourceFiles ==
  Layouts
    \cup UNION {{Commented(ts, i, c) : i \in 2..Len(ts), c \in Remarked} : ts \in Layouts}
    \cup UNION {{RemoveAt(ts, i) : i \in 1..(Len(ts) - 1)} : ts \in Layouts}
=============================================================================

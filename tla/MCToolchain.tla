---------------------------- MODULE MCToolchain ----------------------------
(***************************************************************************)
(* A bounded language for Toolchain: families of small programs, each      *)
(* filling the holes of a template with every expression of a set, so that *)
(* well-typed and ill-typed programs both occur.  The words are chosen so  *)
(* that a name can shadow, be captured, be unbound or be a built-in.       *)
(***************************************************************************)
EXTENDS Toolchain, WasmBackend

CONSTANTS MaxCallDepth, MaxEvaluationDepth, MaxValueDepth

CONSTANTS MaxNestingDepth, MaxStructuralDepth, LineWidth

E == INSTANCE Evaluator
F == INSTANCE Formatter
L == INSTANCE MCLayouts

(* The stages of the pipeline. *)
DocsOf(ss) == [m \in DOMAIN ss |-> IF ss[m].k \in {"fndef", "handler"} THEN ss[m].doc ELSE <<>>]
MCParser(ts) ==
  LET parse == F!Parse(ts)
  IN [code |-> parse.code, tree |-> parse, program |-> F!BareProgram(parse.program),
      docs |-> DocsOf(parse.program)]
MCFormatter(ts, parse) == LET result == F!Format(ts, parse.tree) IN result
MCPrinter(ss) == LET result == L!TokensOf(ss, FALSE) IN result
MCRemarks(ts) ==
  LET result == L!FlattenSeq([i \in DOMAIN ts |-> [j \in DOMAIN ts[i].pre |-> ts[i].pre[j].c]])
  IN result
MCAnalyzer(ss) == LET result == Analyze(ss) IN result
MCInterpreter(ss) == LET result == E!Execute(ss) IN result
MCLowerer(ss, an) == LET result == Lower(ss, an) IN result
MCVerifier(mod) == LET result == Verify(mod) IN result
MCSupportChecker(mod) == LET result == CheckModule(mod) IN result
MCGenerator(mod, chk) == LET result == Encodes(mod, chk) IN result
MCEngine(mod, chk, host) == LET result == RunModule(mod, chk, host) IN result

(* A host that lets every program end, and one for each way to stop it. *)
Generous == [host_call_limit |-> 100, output_limit |-> 100, patience |-> 100]
MCHosts == {Generous, [Generous EXCEPT !.host_call_limit = 1],
            [Generous EXCEPT !.output_limit = 2], [Generous EXCEPT !.patience = 1]}

a == Var("a")
b == Var("b")
f == Var("f")
g == Var("g")
x == Var("x")
Text == StrE(<<97>>)
Fun1(e) == Fn(<<Param("x", <<>>)>>, <<>>, Only(e))
Defined(name, ann, result, e) == FnDef(name, <<Param("x", ann)>>, result, Only(e))
Output(e) == Do(Call(Var("println"), <<e>>))

MCOrigins == {<<1>>}

(* Every pair of integers of the width under every operator. *)
Ints == {IntE(n) : n \in 0..MaxInt} \cup {Unary("-", IntE(n)) : n \in 1..(MaxInt + 1)}
Operators == {"+", "-", "*", "/", "%", "==", "<", ">="}
Arithmetic == {<<Output(Binary(op, l, r))>> : op \in Operators, l \in Ints, r \in Ints}

(* Every operator under every other, on the left and on the right. *)
Precedences ==
  UNION {{<<Output(Binary(p, Binary(q, IntE(3), IntE(2)), IntE(1)))>>,
          <<Output(Binary(p, IntE(3), Binary(q, IntE(2), IntE(1))))>>,
          <<Output(Unary("-", Binary(p, Unary("-", IntE(1)), IntE(1))))>>} :
           p, q \in Operators \cup {"&&", "||"}}

(* Operands and operators of every kind. *)
Atoms == {IntE(1), BoolE(TRUE), Text, UnitE, Var("None"), Var("print"), Var("nope"),
          ListE(<<>>), ListE(<<IntE(1)>>), RecordE(<<"m">>, <<IntE(1)>>), Fun1(x)}
Mixed == {<<Output(Binary(op, l, r))>> : op \in {"+", "==", "<", "&&"}, l \in Atoms, r \in Atoms}
           \cup {<<Do(Call(l, <<r>>))>> : l \in Atoms, r \in Atoms}

(* A function applied to an argument: what the body does with x decides    *)
(* its type, and the argument must agree.                                  *)
Bodies == {x, Binary("+", x, IntE(1)), Call(x, <<IntE(1)>>), Field(x, "m"), Unary("!", x),
           Call(Var("print"), <<x>>), Call(Var("Some"), <<x>>), Call(f, <<x>>),
           Fun1(x), Fn(<<Param("y", <<>>)>>, <<>>, Only(Binary("+", x, Var("y")))),
           If(x, Only(IntE(1)), BlockE(Only(IntE(0)))), Question(x), ListE(<<x, x>>),
           Match(x, <<EmptyP, ConsP(Binder("h"), Binder("t"))>>, <<IntE(0), Var("h")>>),
           Match(x, <<VariantP("Some", <<Binder("h")>>), VariantP("None", <<>>)>>,
                 <<Var("h"), IntE(0)>>)}
Arguments == {IntE(1), BoolE(FALSE), UnitE, Var("print"), Var("None"), ListE(<<IntE(2)>>),
              RecordE(<<"m", "n">>, <<IntE(1), Text>>), Fun1(Call(Var("print"), <<x>>)),
              Call(Var("Some"), <<IntE(2)>>), Call(Var("Err"), <<Text>>)}
Applications ==
  {<<Defined("f", <<>>, <<>>, body), Do(Call(f, <<arg>>))>> : body \in Bodies, arg \in Arguments}
    \cup {<<Defined("f", <<>>, <<>>, body), Output(Call(f, <<arg>>))>> :
             body \in Bodies, arg \in {IntE(1), Call(Var("Some"), <<IntE(2)>>), Fun1(x)}}

(* Annotated failure handling: ? and let-else under every result type.     *)
Results == {<<>>, <<IntT>>, <<OptionT(IntT)>>, <<ResultT(IntT, StringT)>>,
            <<ResultT(StringT, StringT)>>}
Exits == {Call(Var("Ok"), <<Question(x)>>), Call(Var("Some"), <<Question(x)>>),
          BlockE(Block(<<LetElse("Ok", "a", <<>>, x, "Err", "b", Call(Var("Err"), <<b>>))>>,
                       <<Call(Var("Ok"), <<a>>)>>)),
          BlockE(Block(<<LetElse("Some", "a", <<>>, x, "None", "", IntE(0))>>, <<a>>)),
          BlockE(Block(<<LetElse("None", "", <<>>, x, "Some", "b", b)>>, <<IntE(2)>>)),
          BlockE(Block(<<LetElse("Err", "", <<>>, x, "Ok", "_", IntE(1))>>, <<IntE(2)>>))}
Failures ==
  {<<Defined("f", <<>>, ann, body), Output(Call(f, <<arg>>))>> :
     ann \in Results, body \in Exits,
     arg \in {Call(Var("Ok"), <<IntE(1)>>), Call(Var("Err"), <<Text>>), Var("None"),
              Call(Var("Some"), <<IntE(1)>>)}}

(* Nested patterns, complete, incomplete, overlapping and foreign. *)
Pats == {Wildcard, Binder("a"), VariantP("None", <<>>), VariantP("Some", <<Wildcard>>),
         VariantP("Some", <<VariantP("Ok", <<Binder("a")>>)>>),
         VariantP("Some", <<VariantP("Err", <<Wildcard>>)>>), EmptyP}
Subjects == {Var("None"), Call(Var("Some"), <<Call(Var("Ok"), <<IntE(1)>>)>>),
             Call(Var("Some"), <<Call(Var("Err"), <<IntE(2)>>)>>)}
Matches ==
  {<<Let("a", <<>>, IntE(3)), Output(Match(s, <<p, q, r>>, <<a, IntE(0), a>>))>> :
     s \in Subjects, p \in Pats, q \in Pats, r \in Pats}
  \cup {<<Let("a", <<>>, IntE(3)), Output(Match(s, <<p, q>>, <<a, IntE(0)>>))>> :
          s \in Subjects, p \in Pats, q \in Pats}

(* Scopes: shadowing, captures through two functions, functions as values. *)
Inner == {a, b, Binary("+", a, x), Call(f, <<a>>), Call(g, <<x>>), Call(x, <<a>>),
          Fun1(Binary("+", a, x)), Var("println"), If(x, Only(a), BlockE(Only(b)))}
Scopes ==
  {<<Let("a", <<>>, IntE(1)), Let("b", <<>>, bound), Defined("f", <<>>, <<>>, body), last>> :
     bound \in {BoolE(TRUE), Var("print"), Fun1(a)}, body \in Inner,
     last \in {Output(Call(f, <<IntE(1)>>)), Do(Call(f, <<b>>)), Let("b", <<>>, f),
               Output(Call(If(BoolE(TRUE), Only(f), BlockE(Only(f))), <<IntE(1)>>))}}

(* Module programs of the scalar subset that build: helpers, recursion,    *)
(* early exits of branches, a function chosen at run time.                 *)
Recursive == Binary("*", x, Call(f, <<Binary("-", x, IntE(1))>>))
Scalar ==
  {<<Defined("f", <<IntT>>, result, If(cond, Only(yes), BlockE(Only(no)))), last>> :
     result \in {<<>>, <<IntT>>},
     cond \in {Binary("==", x, IntE(0)), Binary("&&", Binary("<", IntE(0), x),
                                                Binary("==", Binary("/", IntE(1), x), IntE(1))),
              Binary("||", Binary("==", x, IntE(0)), Binary("==", Binary("/", IntE(1), x), IntE(1)))},
     yes \in {IntE(1), Unary("-", x)}, no \in {Recursive, Unary("-", IntE(MaxInt + 1)), x},
     last \in {Output(Call(f, <<IntE(3)>>)), Output(Call(f, <<Unary("-", IntE(MaxInt + 1))>>)),
               Do(Call(Fun1(Call(Var("print"), <<x>>)), <<Call(f, <<IntE(2)>>)>>)),
               Output(Call(If(BoolE(FALSE), Only(Fun1(x)), BlockE(Only(f))), <<IntE(2)>>))}}

(* Handlers and host calls. *)
Request == Construct("HttpRequest", <<"path", "method">>, <<Text, Text>>)
Answered == Construct("HttpResponse", <<"status">>, <<IntE(1)>>)
HostCalls == {Call(Var("state_get"), <<Text, Text>>), Call(Var("ai_invoke"), <<Text, Text>>),
              Call(Var("http_request"), <<StrE(<<1>>), Request, Var("None")>>),
              Call(Var("secret"), <<Text>>), Call(Var("state_get"), <<x, Text>>),
              Call(Var("log_info"), <<Text, Entries(<<Text, Text>>)>>),
              Match(Call(Var("secret"), <<Text>>),
                    <<VariantP("Ok", <<Binder("a")>>), VariantP("Err", <<Wildcard>>)>>,
                    <<Call(Var("http_request"), <<StrE(<<1>>), Request,
                                                  Call(Var("Some"), <<a>>)>>),
                      Call(Var("Err"), <<Text>>)>>)}
Hooks ==
  {<<Handler("webhook", "", "f", <<Param("x", <<Atom("HttpRequest")>>)>>,
             <<Atom("HttpResponse")>>, Block(<<Do(e)>>, <<reply>>))>> :
     e \in HostCalls \cup {Field(x, "body"), Call(Var("print"), <<x>>), Fun1(x)},
     reply \in {Answered, x, Construct("HttpResponse", <<"status", "headers">>,
                                   <<IntE(1), Entries(<<Text, Field(x, "path")>>)>>)}}
    \cup {<<Defined("g", <<>>, <<>>, e), Do(Call(g, <<Text>>))>> : e \in HostCalls}

MCPrograms == Arithmetic \cup Precedences \cup Mixed \cup Applications \cup Failures \cup Matches
                \cup Scopes \cup Scalar \cup Hooks

(* A top-level function that calls another one captures it. *)
Captures ==
  {<<Defined("g", <<IntT>>, <<IntT>>, inner), Defined("f", <<IntT>>, <<IntT>>, outer), Output(Call(f, <<IntE(1)>>))>> :
     inner \in {x, Binary("+", x, IntE(1))}, outer \in {x, Call(g, <<x>>)}}
CaptureFiles == {[tokens |-> L!TokensOf(p, FALSE), meant |-> <<p>>, formats |-> 0] : p \in Captures}

MCFiles ==
  {[tokens |-> L!TokensOf(p, FALSE), meant |-> <<p>>, formats |-> 0] : p \in MCPrograms}
    \cup {[tokens |-> L!TokensOf(p, TRUE), meant |-> <<p>>, formats |-> 0] : p \in Precedences}
    \cup {[tokens |-> ts, meant |-> <<>>, formats |-> MaxFormats] : ts \in L!SourceFiles}
=============================================================================

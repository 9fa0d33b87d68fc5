------------------------------ MODULE Evaluator ------------------------------
(***************************************************************************)
(* Direct execution of a program (crates/krit/src/evaluator.rs): a         *)
(* recursive evaluation of the syntax tree that either yields a value,     *)
(* fails with a diagnostic code, or exits the innermost function call with *)
(* a value because a postfix ? or a let-else met the other variant.  The   *)
(* output written so far is threaded through, so that the order of effects *)
(* is part of what an evaluation returns.  The arms of a CASE are tried in *)
(* order, as the code tries its conditions.                                *)
(***************************************************************************)
EXTENDS Syntax, MachineIntegers, TLC, SequencesExt

CONSTANTS MaxInt,                  \* i64::MAX
          MaxCallDepth,            \* MAX_CALL_DEPTH
          MaxEvaluationDepth,      \* MAX_EVALUATION_DEPTH
          MaxValueDepth            \* MAX_VALUE_DEPTH

(* Values. *)
IntV(n) == [k |-> "int", n |-> n]
BoolV(b) == [k |-> "bool", b |-> b]
StrV(s) == [k |-> "str", s |-> s]
UnitV == [k |-> "unit"]
ListV(vs) == [k |-> "list", vs |-> vs]
RecordV(xs, vs) == [k |-> "record", xs |-> xs, vs |-> vs]
VariantV(v, vs) == [k |-> "variant", v |-> v, vs |-> vs]     \* vs: <<>> or the payload
FunV(x, ps, bl, env) == [k |-> "fun", x |-> x, ps |-> ps, bl |-> bl, env |-> env]
BuiltinV(x) == [k |-> "builtin", x |-> x]

(* The outcome of evaluating: its kind t, the value, the diagnostic, the   *)
(* construct that exits and the output so far (Flow, Interrupt, Exit).     *)
Yield(v, out) == [t |-> "ok", v |-> v, code |-> "", out |-> out]
Fail(code, out) == [t |-> "error", v |-> UnitV, code |-> code, out |-> out]
ExitWith(v, how, out) == [t |-> "exit", v |-> v, code |-> how, out |-> out]

(* The number of lists, records and variants nested in a value. *)
RECURSIVE Depth(_)
Depth(v) ==
  IF v.k \in {"list", "record", "variant"}
  THEN 1 + FoldLeft(LAMBDA m, c : IF Depth(c) > m THEN Depth(c) ELSE m, 0, v.vs)
  ELSE 0

(* A list, record or variant is refused when it would nest too deeply.     *)
Container(v, out) == IF Depth(v) > MaxValueDepth THEN Fail("K4010", out) ELSE Yield(v, out)

RECURSIVE ContainsFunction(_)
ContainsFunction(v) ==
  \/ v.k \in {"fun", "builtin"}
  \/ v.k \in {"list", "record", "variant"} /\ \E i \in DOMAIN v.vs : ContainsFunction(v.vs[i])

(* Structural equality of values that hold no function; records compare by *)
(* field name, whatever the order of their fields.                         *)
RECURSIVE ValueEqual(_, _)
ValueEqual(l, r) ==
  /\ l.k = r.k
  /\ CASE l.k = "int" -> l.n = r.n
       [] l.k = "bool" -> l.b = r.b
       [] l.k = "str" -> l.s = r.s
       [] l.k = "unit" -> TRUE
       [] l.k = "list" -> /\ Len(l.vs) = Len(r.vs)
                          /\ \A i \in DOMAIN l.vs : ValueEqual(l.vs[i], r.vs[i])
       [] l.k = "record" -> /\ Len(l.xs) = Len(r.xs)
                            /\ \A i \in DOMAIN l.xs : \E j \in DOMAIN r.xs :
                                 l.xs[i] = r.xs[j] /\ ValueEqual(l.vs[i], r.vs[j])
       [] l.k = "variant" -> /\ l.v = r.v /\ Len(l.vs) = Len(r.vs)
                             /\ \A i \in DOMAIN l.vs : ValueEqual(l.vs[i], r.vs[i])

(* Byte-lexicographic order; a proper prefix comes first. *)
RECURSIVE Precedes(_, _)
Precedes(s, t) ==
  CASE Len(t) = 0 -> FALSE
    [] Len(s) = 0 -> TRUE
    [] OTHER -> Head(s) < Head(t) \/ (Head(s) = Head(t) /\ Precedes(Tail(s), Tail(t)))

(* Decimal digits: int_to_string and the rendering of integers. *)
RECURSIVE Decimal(_)
Decimal(n) == IF n < 0 THEN <<45>> \o Decimal(-n)
              ELSE IF n < 10 THEN <<48 + n>> ELSE Decimal(n \div 10) \o <<48 + (n % 10)>>

Checked(result, out) == IF result.code = "" THEN Yield(IntV(result.n), out) ELSE Fail(result.code, out)
Integer(n, out) == Checked(CheckedInteger(MaxInt, n), out)

(* A strict binary operator applied to its evaluated operands.             *)
ApplyBinary(op, l, r, out) ==
  LET ints == l.k = "int" /\ r.k = "int"
      strs == l.k = "str" /\ r.k = "str"
      less(a, b) == IF ints THEN a.n < b.n ELSE Precedes(a.s, b.s)
  IN CASE op = "+" /\ strs -> Yield(StrV(l.s \o r.s), out)
       [] op \in IntegerOperators ->
            IF ints THEN Checked(CheckedBinary(MaxInt, op, l.n, r.n), out) ELSE Fail("K4001", out)
       [] op \in {"==", "!="} ->
            IF ContainsFunction(l) \/ ContainsFunction(r) THEN Fail("K4006", out)
            ELSE Yield(BoolV(ValueEqual(l, r) = (op = "==")), out)
       [] OTHER ->
            IF ~(ints \/ strs) THEN Fail("K4001", out)
            ELSE Yield(BoolV(CASE op = "<" -> less(l, r) [] op = ">" -> less(r, l)
                               [] op = "<=" -> ~less(r, l) [] op = ">=" -> ~less(l, r)), out)

ApplyUnary(op, v, out) ==
  CASE op = "!" -> IF v.k = "bool" THEN Yield(BoolV(~v.b), out) ELSE Fail("K4001", out)
    [] op = "-" -> IF v.k = "int" THEN Integer(-v.n, out) ELSE Fail("K4001", out)

(* A pure or output built-in applied to its arguments.  print writes the   *)
(* rendered value; the renderings of values other than integers, Booleans, *)
(* units and strings are never compared and stay symbolic.                 *)
Render(v) == CASE v.k = "int" -> Decimal(v.n)
               [] v.k = "bool" -> IF v.b THEN <<116, 114, 117, 101>> ELSE <<102, 97, 108, 115, 101>>
               [] v.k = "str" -> v.s
               [] v.k = "unit" -> <<40, 41>>
               [] OTHER -> <<0>>

Occurs(part, text) ==
  \E i \in 0..(Len(text) - Len(part)) : SubSeq(text, i + 1, i + Len(part)) = part

ApplyBuiltin(x, vs, out) ==
  CASE x = "print" -> Yield(UnitV, Append(out, Render(vs[1])))
    [] x = "println" -> Yield(UnitV, Append(out, Render(vs[1]) \o <<10>>))
    [] x \in {"Some", "Ok", "Err"} -> Container(VariantV(x, vs), out)
    [] x = "int_to_string" ->
         IF vs[1].k = "int" THEN Yield(StrV(Decimal(vs[1].n)), out) ELSE Fail("K4001", out)
    [] \E i \in DOMAIN vs : vs[i].k # "str" -> Fail("K4001", out)
    [] x = "string_byte_len" -> Integer(Len(vs[1].s), out)
    [] x = "string_is_empty" -> Yield(BoolV(Len(vs[1].s) = 0), out)
    [] x = "string_contains" -> Yield(BoolV(Occurs(vs[2].s, vs[1].s)), out)
    [] x = "string_starts_with" -> Yield(BoolV(IsPrefix(vs[2].s, vs[1].s)), out)
    [] x = "string_ends_with" -> Yield(BoolV(IsSuffix(vs[2].s, vs[1].s)), out)

(* A name: the innermost binding, else the built-in of that name. *)
Variable(x, env, out) ==
  CASE x \in DOMAIN env -> Yield(env[x], out)
    [] x = "None" -> Yield(VariantV("None", <<>>), out)
    [] x \in Builtins -> Yield(BuiltinV(x), out)
    [] OTHER -> Fail("K2001", out)

FieldValue(v, x, out) ==
  IF v.k = "record" /\ \E i \in DOMAIN v.xs : v.xs[i] = x
  THEN Yield(v.vs[CHOOSE i \in DOMAIN v.xs : v.xs[i] = x], out)
  ELSE Fail("K4001", out)

(* Matching a value against a pattern: the environment extended with the   *)
(* names bound, "no" when the pattern does not apply, "kind" when the      *)
(* value is not of the pattern's family.                                   *)
RECURSIVE MatchPattern(_, _, _)
MatchPattern(p, v, env) ==
  CASE CatchAll(p) -> [t |-> "yes", env |-> (BinderName(p) :> v) @@ env]
    [] p.k \in {"empty", "cons"} /\ v.k # "list" -> [t |-> "kind", env |-> env]
    [] p.k = "empty" -> [t |-> IF Len(v.vs) = 0 THEN "yes" ELSE "no", env |-> env]
    [] p.k = "cons" ->
         IF Len(v.vs) = 0 THEN [t |-> "no", env |-> env]
         ELSE [t |-> "yes", env |-> (BinderName(p.t) :> ListV(Tail(v.vs)))
                                    @@ (BinderName(p.h) :> Head(v.vs)) @@ env]
    [] p.k = "variant" /\ (v.k # "variant" \/ Family(v.v) # Family(p.v)) ->
         [t |-> "kind", env |-> env]
    [] p.k = "variant" /\ v.v # p.v -> [t |-> "no", env |-> env]
    [] Len(p.ps) # Len(v.vs) -> [t |-> "kind", env |-> env]
    [] Len(p.ps) = 0 -> [t |-> "yes", env |-> env]
    [] OTHER -> MatchPattern(p.ps[1], v.vs[1], env)

(* The first arm whose pattern applies, or that meets a foreign family. *)
SelectArm(pats, v, env) ==
  LET results == [i \in DOMAIN pats |-> MatchPattern(pats[i], v, env)]
      stops == {i \in DOMAIN pats : results[i].t # "no"}
      first == CHOOSE i \in stops : \A j \in stops : i <= j
  IN IF stops = {} \/ results[first].t = "kind"
     THEN [i |-> 0, env |-> env] ELSE [i |-> first, env |-> results[first].env]

(* The postfix ?: the payload of Ok and Some, an exit with Err and None.   *)
Propagate(v, out) ==
  CASE v.k # "variant" -> Fail("K4001", out)
    [] v.v \in {"Ok", "Some"} -> Yield(v.vs[1], out)
    [] OTHER -> ExitWith(v, "K3012", out)

(* Contract fields in order: the value written, or the default. *)
Constructed(c, xs, vs) ==
  RecordV([i \in DOMAIN Contract(c) |-> Contract(c)[i].x],
          [i \in DOMAIN Contract(c) |->
             LET at == {j \in DOMAIN xs : xs[j] = Contract(c)[i].x}
             IN IF at # {} THEN vs[CHOOSE j \in at : TRUE]
                ELSE IF Contract(c)[i].default = "text" THEN StrV(<<>>) ELSE ListV(<<>>)])

RECURSIVE Expression(_, _, _, _, _)
RECURSIVE Operands(_, _, _, _, _)
RECURSIVE Statements(_, _, _, _, _)
RECURSIVE IfChain(_, _, _, _, _)
RECURSIVE BinaryChain(_, _, _, _, _)

(* Operands, from left to right; the first that does not yield stops. *)
Operands(es, env, d, c, out) ==
  IF Len(es) = 0 THEN [f |-> Yield(UnitV, out), vs |-> <<>>]
  ELSE LET h == Expression(Head(es), env, d, c, out)
       IN IF h.t # "ok" THEN [f |-> h, vs |-> <<>>]
          ELSE LET r == Operands(Tail(es), env, d, c, h.out)
               IN [f |-> r.f, vs |-> <<h.v>> \o r.vs]

(* A block: its statements, then its tail, or unit. *)
EvalBlock(bl, env, d, c, out) ==
  IF d >= MaxEvaluationDepth THEN Fail("K4010", out)
  ELSE LET s == Statements(bl.ss, env, d + 1, c, out)
       IN CASE s.f.t # "ok" -> s.f
            [] Len(bl.tail) = 0 -> Yield(UnitV, s.f.out)
            [] OTHER -> Expression(bl.tail[1], s.env, d + 1, c, s.f.out)

(* The let-else: a payload bound for the rest of the block, or an exit     *)
(* with the value of its arm.                                              *)
EvalLetElse(s, env, d, c, out) ==
  LET r == Expression(s.e, env, d, c, out)
      bind(x) == IF x # "" /\ Len(r.v.vs) = 1 THEN (x :> r.v.vs[1]) @@ env ELSE env
      a == Expression(s.alt, bind(s.y), d, c, r.out)
  IN CASE r.t # "ok" -> [f |-> r, env |-> env]
       [] r.v.k # "variant" -> [f |-> Fail("K4001", r.out), env |-> env]
       [] r.v.v = s.v -> [f |-> r, env |-> bind(s.x)]
       [] r.v.v # s.w -> [f |-> Fail("K4001", r.out), env |-> env]
       [] a.t # "ok" -> [f |-> a, env |-> env]
       [] OTHER -> [f |-> ExitWith(a.v, "K3014", a.out), env |-> env]

(* One statement: what it yields and the environment after it. *)
EvalStatement(s, env, d, c, out) ==
  CASE s.k = "letelse" -> EvalLetElse(s, env, d, c, out)
    [] s.k \in {"fndef", "handler"} ->
         [f |-> Yield(UnitV, out), env |-> (s.x :> FunV(s.x, s.ps, s.bl, env)) @@ env]
    [] OTHER ->
         LET r == Expression(s.e, env, d, c, out)
         IN [f |-> r, env |-> IF r.t = "ok" /\ s.k = "let" THEN (s.x :> r.v) @@ env ELSE env]

Statements(ss, env, d, c, out) ==
  IF Len(ss) = 0 THEN [f |-> Yield(UnitV, out), env |-> env]
  ELSE LET r == EvalStatement(Head(ss), env, d, c, out)
       IN IF r.f.t # "ok" THEN r ELSE Statements(Tail(ss), r.env, d, c, r.f.out)

(* A call of a closure: the arity, the arguments, the depth of calls, then *)
(* the body in the closure's environment, where its own name is bound; an  *)
(* exit in the body is the value of the call.                              *)
CallFunction(f, es, env, d, c, out) ==
  LET as == Operands(es, env, d, c, out)
      self == IF f.x = "" THEN f.env ELSE (f.x :> f) @@ f.env
      bound == FoldLeft(LAMBDA g, i : (f.ps[i].x :> as.vs[i]) @@ g, self,
                        [i \in DOMAIN f.ps |-> i])
      r == EvalBlock(f.bl, bound, d, c + 1, as.f.out)
  IN CASE Len(es) # Len(f.ps) -> Fail("K4003", out)
       [] as.f.t # "ok" -> as.f
       [] c >= MaxCallDepth -> Fail("K4010", as.f.out)
       [] r.t = "exit" -> Yield(r.v, r.out)
       [] OTHER -> r

(* A call of a built-in; a host effect is refused once its arguments are   *)
(* evaluated.                                                              *)
CallBuiltin(x, es, env, d, c, out) ==
  LET as == Operands(es, env, d, c, out)
  IN CASE Len(es) # BuiltinArity(x) -> Fail("K4003", out)
       [] as.f.t # "ok" -> as.f
       [] x \in HostBuiltins -> Fail("K5003", as.f.out)
       [] OTHER -> ApplyBuiltin(x, as.vs, as.f.out)

EvalCall(e, env, d, c, out) ==
  LET f == Expression(e.e, env, d, c, out)
  IN CASE f.t # "ok" -> f
       [] f.v.k = "fun" -> CallFunction(f.v, e.es, env, d, c, f.out)
       [] f.v.k = "builtin" -> CallBuiltin(f.v.x, e.es, env, d, c, f.out)
       [] OTHER -> Fail("K4002", f.out)

(* if and its else-if chain, at one depth of evaluation. *)
IfChain(e, env, d, c, out) ==
  IF e.k # "if" THEN Expression(e, env, d, c, out)
  ELSE LET q == Expression(e.e, env, d, c, out)
       IN CASE q.t # "ok" -> q
            [] q.v.k # "bool" -> Fail("K4001", q.out)
            [] q.v.b -> EvalBlock(e.bl, env, d, c, q.out)
            [] OTHER -> IfChain(e.alt, env, d, c, q.out)

(* A left-nested chain of binary operators, at one depth of evaluation;    *)
(* && and || evaluate their right operand only when it decides.            *)
BinaryChain(e, env, d, c, out) ==
  IF e.k # "binary" THEN Expression(e, env, d, c, out)
  ELSE LET l == BinaryChain(e.e, env, d, c, out)
           r == Expression(e.alt, env, d, c, l.out)
       IN CASE l.t # "ok" -> l
            [] e.op \in {"&&", "||"} /\ l.v.k # "bool" -> Fail("K4001", l.out)
            [] e.op \in {"&&", "||"} /\ l.v.b = (e.op = "||") -> l
            [] r.t # "ok" -> r
            [] e.op \in {"&&", "||"} -> IF r.v.k = "bool" THEN r ELSE Fail("K4001", r.out)
            [] OTHER -> ApplyBinary(e.op, l.v, r.v, r.out)

EvalMatch(e, env, d, c, out) ==
  LET v == Expression(e.e, env, d, c, out)
      arm == SelectArm(e.pats, v.v, env)
  IN CASE v.t # "ok" -> v
       [] arm.i = 0 -> Fail("K4001", v.out)
       [] OTHER -> Expression(e.es[arm.i], arm.env, d, c, v.out)

(* A literal minus is one literal: MIN has no positive counterpart. *)
EvalUnary(e, env, d, c, out) ==
  IF e.op = "-" /\ e.e.k = "int" THEN Integer(-e.e.n, out)
  ELSE LET v == Expression(e.e, env, d, c, out)
       IN IF v.t # "ok" THEN v ELSE ApplyUnary(e.op, v.v, v.out)

(* Every hole of an interpolation must hold a string when it is reached. *)
RECURSIVE Interpolation(_, _, _, _, _, _)
Interpolation(es, text, env, d, c, out) ==
  IF Len(es) = 0 THEN Yield(StrV(text), out)
  ELSE LET h == Expression(Head(es), env, d, c, out)
       IN CASE h.t # "ok" -> h
            [] h.v.k # "str" -> Fail("K4001", h.out)
            [] OTHER -> Interpolation(Tail(es), text \o h.v.s, env, d, c, h.out)

(* ["k": v, ...] stands for [record { name: k, value: v }, ...]. *)
EntryRecords(es) ==
  [i \in 1..(Len(es) \div 2) |-> RecordE(<<"name", "value">>, <<es[2 * i - 1], es[2 * i]>>)]

(* The dispatch on the kind of an expression, one depth deeper. *)
Expression(e, env, d0, c, out) ==
  LET d == d0 + 1
      as == Operands(e.es, env, d, c, out)
  IN CASE d0 >= MaxEvaluationDepth -> Fail("K4010", out)
       [] e.k = "int" -> Integer(e.n, out)
       [] e.k = "bool" -> Yield(BoolV(e.b), out)
       [] e.k = "str" -> Yield(StrV(e.s), out)
       [] e.k = "unit" -> Yield(UnitV, out)
       [] e.k = "var" -> Variable(e.x, env, out)
       [] e.k = "interp" -> Interpolation(e.es, <<>>, env, d, c, out)
       [] e.k = "construct" /\ ~ConstructionFieldsFit(e.c, e.xs) -> Fail("K3016", out)
       [] e.k \in {"list", "record", "construct"} /\ as.f.t # "ok" -> as.f
       [] e.k = "list" -> Container(ListV(as.vs), as.f.out)
       [] e.k = "record" -> Container(RecordV(e.xs, as.vs), as.f.out)
       [] e.k = "entries" ->
            LET rs == Operands(EntryRecords(e.es), env, d0, c, out)
            IN IF rs.f.t # "ok" THEN rs.f ELSE Container(ListV(rs.vs), rs.f.out)
       [] e.k = "construct" -> Container(Constructed(e.c, e.xs, as.vs), as.f.out)
       [] e.k = "field" ->
            LET v == Expression(e.e, env, d, c, out)
            IN IF v.t # "ok" THEN v ELSE FieldValue(v.v, e.x, v.out)
       [] e.k = "block" -> EvalBlock(e.bl, env, d, c, out)
       [] e.k = "if" -> IfChain(e, env, d, c, out)
       [] e.k = "fn" -> Yield(FunV("", e.ps, e.bl, env), out)
       [] e.k = "call" -> EvalCall(e, env, d, c, out)
       [] e.k = "question" ->
            LET v == Expression(e.e, env, d, c, out)
            IN IF v.t # "ok" THEN v ELSE Propagate(v.v, v.out)
       [] e.k = "match" -> EvalMatch(e, env, d, c, out)
       [] e.k = "unary" -> EvalUnary(e, env, d, c, out)
       [] e.k = "binary" -> BinaryChain(e, env, d, c, out)

EmptyEnvironment == [x \in {} |-> UnitV]

(* A program: its statements from the empty environment.  An exit that     *)
(* reaches the top level is the diagnostic of the construct that exits.    *)
Execute(ss) ==
  LET r == Statements(ss, EmptyEnvironment, 0, 0, <<>>).f
  IN IF r.t = "exit" THEN Fail(r.code, r.out) ELSE r
=============================================================================

------------------------------ MODULE Lowering ------------------------------
(***************************************************************************)
(* From an analysed program to Core (Lowerer of crates/krit/src/core.rs):  *)
(* blocks of operations in single-assignment form, functions with explicit *)
(* captures, matches as decisions on one constructor at a time.            *)
(* A binding is the path of its symbol, a value a number.  The state st    *)
(* holds the next value, the functions lowered so far, the stack of        *)
(* function contexts and the bindings; an is the analysis.  The code's     *)
(* IrError arms, which an analysed program never reaches, are err.         *)
(***************************************************************************)
EXTENDS Analysis

(* An operation before it is emitted: its kind, a name (of a built-in, a   *)
(* field, an operator, a family), names, operand values, nested blocks,    *)
(* function, captures, binding and literal.                                *)
Op(k, x, vs, bls) == [k |-> k, x |-> x, xs |-> <<>>, vs |-> vs, bls |-> bls,
                      fn |-> 0, caps |-> <<>>, b |-> <<>>, lit |-> UnitE]
Literal(e) == [Op("literal", "", <<>>, <<>>) EXCEPT !.lit = e]
Bind(b, v) == [Op("bind", "", <<v>>, <<>>) EXCEPT !.b = b]
CoreBlock(ps, ops, r, fact) ==
  [ps |-> ps, ops |-> ops, r |-> r, ty |-> fact.ty, d |-> fact.d, q |-> fact.q]

PureFact(ty) == [ty |-> ty, d |-> {}, q |-> {}]
UnionFact(ty, bls) == [ty |-> ty, d |-> UNION {bls[i].d : i \in DOMAIN bls},
                       q |-> UNION {bls[i].q : i \in DOMAIN bls}]

(* A function context: the value of each binding, the captures, and the    *)
(* type an exit returns (none during module initialization).               *)
Context(exit) == [map |-> [b \in {} |-> 0], caps |-> <<>>, exit |-> exit]

LowerStart(an) == [next |-> 1, fns |-> <<>>, ctx |-> <<Context(<<>>)>>,
                   bindings |-> an.syms, exported |-> <<>>, err |-> FALSE]

(* A value under construction: the state, the operations of the current    *)
(* block so far and the value the last step left.                          *)
Made(st, ops, v) == [st |-> st, ops |-> ops, v |-> v]
IrError(m) == [m EXCEPT !.st.err = TRUE]

Emit(m, fact, op) ==
  Made([m.st EXCEPT !.next = @ + 1],
       Append(m.ops, [v |-> m.st.next, ty |-> fact.ty, d |-> fact.d, q |-> fact.q, op |-> op]),
       m.st.next)

Top(st) == Len(st.ctx)
DefineValue(st, b, v) == [st EXCEPT !.ctx[Top(st)].map = (b :> v) @@ @]

(* Faulty variant: a function captures from the owner, past those between. *)
ResolveBindingDirect(b, m) ==
  LET st == m.st
      owners == {i \in 1..Top(st) : b \in DOMAIN st.ctx[i].map}
      owner == CHOOSE i \in owners : \A j \in owners : j <= i
      done == IF owner = Top(st) THEN st
              ELSE [st EXCEPT !.next = @ + 1,
                      !.ctx[Top(st)].map = (b :> st.next) @@ @,
                      !.ctx[Top(st)].caps = Append(@, [b |-> b, v |-> st.next, src |-> st.ctx[owner].map[b],
                                                       ty |-> st.bindings[b].ty])]
  IN IF owners = {} THEN IrError(m) ELSE Made(done, m.ops, done.ctx[Top(st)].map[b])

(* The value of a binding in the current function: its own, or a capture   *)
(* through every function between it and the one that has the binding.     *)
ResolveBinding(b, m) ==
  LET st == m.st
      owners == {i \in 1..Top(st) : b \in DOMAIN st.ctx[i].map}
      owner == CHOOSE i \in owners : \A j \in owners : j <= i
      capture(s, i) ==
        [s EXCEPT !.next = @ + 1,
                  !.ctx[i].map = (b :> s.next) @@ @,
                  !.ctx[i].caps = Append(@, [b |-> b, v |-> s.next, src |-> s.ctx[i - 1].map[b],
                                             ty |-> s.bindings[b].ty])]
      done == FoldLeft(capture, st, [k \in 1..(Top(st) - owner) |-> owner + k])
  IN IF owners = {} THEN IrError(m) ELSE Made(done, m.ops, done.ctx[Top(st)].map[b])

(* A parameter of a block, for a declared binding or a synthetic one. *)
BlockParameter(b, st) ==
  [st |-> [st EXCEPT !.next = @ + 1],
   p |-> [b |-> b, v |-> st.next, ty |-> st.bindings[b].ty]]
SyntheticParameter(p, ty, st) ==
  LET b == Append(p, 1000 + st.next)
  IN BlockParameter(b, [st EXCEPT !.bindings = (b :> [ty |-> ty, kind |-> "match"]) @@ @])

RECURSIVE LowerExpression(_, _, _, _)
RECURSIVE LowerStatements(_, _, _, _, _)
RECURSIVE LowerDecision(_, _, _, _, _, _)

(* Operands in order; vs collects their values. *)
LowerOperands(es, p, an, m) ==
  LET step(acc, i) ==
        LET r == LowerExpression(es[i], ArgumentPath(p, i), an, acc.m)
        IN [m |-> r, vs |-> Append(acc.vs, r.v)]
  IN FoldLeft(step, [m |-> m, vs |-> <<>>], [i \in DOMAIN es |-> i])

(* A block of statements and a tail, or the unit that ends one without. *)
LowerBlock(bl, p, fact, an, st) ==
  LET ss == LowerStatements(bl.ss, 1, p, an, Made(st, <<>>, 0))
      r == IF Len(bl.tail) = 0 THEN Emit(ss, PureFact(UnitT), Op("unit", "", <<>>, <<>>))
           ELSE LowerExpression(bl.tail[1], Child(p, 0), an, ss)
  IN [st |-> r.st, bl |-> CoreBlock(<<>>, r.ops, r.v, fact)]

(* A block that computes one expression under parameters. *)
LowerExpressionBlock(e, p, ps, an, st) ==
  LET defined == FoldLeft(LAMBDA s, q : DefineValue(s, q.b, q.v), st, ps)
      r == LowerExpression(e, p, an, Made(defined, <<>>, 0))
  IN [st |-> r.st, bl |-> CoreBlock(ps, r.ops, r.v, an.facts[p])]

(* A function: its context with, for a named one, its own value first,     *)
(* then its parameters; its captures become the arguments of the closure.  *)
LowerFunction(s, p, ty, named, an, m) ==
  LET index == Len(m.st.fns) + 1
      result == Last(ty.a)
      opened == [m.st EXCEPT !.fns = Append(@, <<>>), !.ctx = Append(@, Context(<<result>>))]
      self == IF named THEN DefineValue([opened EXCEPT !.next = @ + 1], p, opened.next)
              ELSE opened
      recursive == IF named THEN <<[b |-> p, v |-> opened.next, ty |-> ty]>> ELSE <<>>
      step(acc, i) ==
        LET b == ParameterPath(p, i)
        IN [st |-> DefineValue([acc.st EXCEPT !.next = @ + 1], b, acc.st.next),
            ps |-> Append(acc.ps, [b |-> b, v |-> acc.st.next, ty |-> ty.a[i]])]
      params == FoldLeft(step, [st |-> self, ps |-> <<>>], [i \in DOMAIN s.ps |-> i])
      body == LowerBlock(s.bl, Child(p, 3), an.facts[Child(p, 3)], an, params.st)
      caps == Last(body.st.ctx).caps
      function == [ps |-> params.ps, caps |-> caps, recursive |-> recursive, ty |-> ty,
                   body |-> body.bl]
      closed == [body.st EXCEPT !.ctx = Front(@), !.fns = [@ EXCEPT ![index] = function]]
  IN Emit(Made(closed, m.ops, 0), PureFact(ty),
          [Op("closure", "", <<>>, <<>>) EXCEPT
             !.fn = index, !.caps = [i \in DOMAIN caps |-> [b |-> caps[i].b, v |-> caps[i].src]]])

(* A match on one position of a value: for each constructor in the order   *)
(* the arms use it, a block that binds its payload and either computes the *)
(* arm or decides the payload in turn.  A row is an arm's number and what  *)
(* its pattern says at this position, with the pattern's node.             *)
LowerDecision(v, ty, rows, match, an, m) ==
  LET constructor(row) == IF row.p.k = "variant" THEN row.p.v ELSE row.p.k
      order == FoldLeft(LAMBDA cs, row : IF constructor(row) \in Range(cs) THEN cs
                                         ELSE Append(cs, constructor(row)), <<>>, rows)
      rowsOf(c) == SelectSeq(rows, LAMBDA row : constructor(row) = c)
      arm(row, ps, st) ==
        LowerExpressionBlock(match.e.es[row.i], ArgumentPath(match.p, row.i), ps, an, st)
      payloadType(c) == IF c = "Err" THEN ty.a[2] ELSE ty.a[1]
      \* the block of one constructor
      decide(c, st) ==
        LET rs == rowsOf(c)
            row == rs[1]
            head == BlockParameter(Child(row.node, 1), st)
            tail == BlockParameter(Child(row.node, 2), head.st)
            whole == BlockParameter(row.node, st)
            payload == SyntheticParameter(row.node, payloadType(c), st)
            nested == LowerDecision(payload.p.v, payloadType(c),
                                    [i \in DOMAIN rs |-> [rs[i] EXCEPT !.p = rs[i].p.ps[1]]],
                                    match, an, Made(payload.st, <<>>, 0))
        IN CASE c \in {"empty", "None"} -> arm(row, <<>>, st)
             [] c = "cons" -> arm(row, <<head.p, tail.p>>, tail.st)
             [] CatchAll(row.p.ps[1]) -> arm(row, <<whole.p>>, whole.st)
             [] OTHER -> [st |-> nested.st,
                          bl |-> CoreBlock(<<payload.p>>, nested.ops, nested.v,
                                           [Last(nested.ops) EXCEPT !.ty = match.ty])]
      step(acc, c) ==
        LET r == decide(c, acc.st) IN [st |-> r.st, bls |-> Append(acc.bls, r.bl)]
      made == FoldLeft(step, [st |-> m.st, bls |-> <<>>], order)
      \* an empty list's arm comes first in the operation
      listArms == IF order[1] = "empty" THEN made.bls ELSE <<made.bls[2], made.bls[1]>>
      overlaps == \E c \in Range(order) :
        Len(rowsOf(c)) > 1 /\ (c \in {"empty", "cons", "None"}
                               \/ \E i \in DOMAIN rowsOf(c) : CatchAll(rowsOf(c)[i].p.ps[1]))
  IN CASE \E i \in DOMAIN rows : CatchAll(rows[i].p) -> IrError(m)
       [] overlaps \/ ty.k \notin {"List", "Option", "Result"} -> IrError(m)
       [] ty.k = "List" ->
            IF Range(order) # {"empty", "cons"} THEN IrError(m)
            ELSE Emit(Made(made.st, m.ops, 0), UnionFact(match.ty, made.bls),
                      Op("matchlist", "", <<v>>, listArms))
       [] ~(Range(order) \subseteq Constructors(IF ty.k = "Option" THEN "option" ELSE "result")) ->
            IrError(m)
       [] OTHER -> Emit(Made(made.st, m.ops, 0), UnionFact(match.ty, made.bls),
                        [Op("matchvariant", IF ty.k = "Option" THEN "option" ELSE "result",
                            <<v>>, made.bls) EXCEPT !.xs = order])

LowerMatch(e, p, an, m) ==
  LET s == LowerExpression(e.e, Child(p, 1), an, m)
      rows == [i \in DOMAIN e.pats |-> [i |-> i, p |-> e.pats[i], node |-> PatternNode(p, i)]]
  IN LowerDecision(s.v, an.facts[Child(p, 1)].ty, rows,
                   [e |-> e, p |-> p, ty |-> an.facts[p].ty], an, s)

(* The postfix ?: a match whose failure arm rebuilds the failure at the    *)
(* function's result type and exits with it.                               *)
LowerPropagate(e, p, an, m) ==
  LET s == LowerExpression(e.e, Child(p, 1), an, m)
      subject == an.facts[Child(p, 1)].ty
      ty == an.facts[p].ty
      exit == s.st.ctx[Top(s.st)].exit
      isOption == subject.k = "Option"
      success == SyntheticParameter(p, subject.a[1], s.st)
      failure == IF isOption THEN [st |-> success.st, ps |-> <<>>]
                 ELSE LET f == SyntheticParameter(p, subject.a[2], success.st)
                      IN [st |-> f.st, ps |-> <<f.p>>]
      returned == Emit(Made(failure.st, <<>>, 0), PureFact(exit[1]),
                       Op("variant", IF isOption THEN "None" ELSE "Err",
                          [i \in DOMAIN failure.ps |-> failure.ps[i].v], <<>>))
      exited == Emit(returned, PureFact(ty), Op("exit", "", <<returned.v>>, <<>>))
      arms == <<CoreBlock(<<success.p>>, <<>>, success.p.v, PureFact(ty)),
                CoreBlock(failure.ps, exited.ops, exited.v, PureFact(ty))>>
  IN IF exit = <<>> \/ subject.k \notin {"Option", "Result"} THEN IrError(m)
     ELSE Emit(Made(exited.st, s.ops, 0), PureFact(ty),
               [Op("matchvariant", IF isOption THEN "option" ELSE "result", <<s.v>>, arms)
                  EXCEPT !.xs = IF isOption THEN <<"Some", "None">> ELSE <<"Ok", "Err">>])

(* A let-else: a match that yields the payload, or exits with the arm's    *)
(* value; then the binding of what it yields.                              *)
LowerLetElse(s, p, an, m) ==
  LET v == LowerExpression(s.e, Child(p, 1), an, m)
      subject == an.facts[Child(p, 1)].ty
      payload(w) == IF w = "Err" THEN subject.a[2] ELSE subject.a[1]
      bound == SyntheticParameter(p, payload(s.v), v.st)
      unit == Emit(Made(v.st, <<>>, 0), PureFact(UnitT), Op("unit", "", <<>>, <<>>))
      success == IF s.v = "None"
                 THEN [st |-> unit.st, bl |-> CoreBlock(<<>>, unit.ops, unit.v, PureFact(UnitT))]
                 ELSE [st |-> bound.st, bl |-> CoreBlock(<<bound.p>>, <<>>, bound.p.v,
                                                         PureFact(bound.p.ty))]
      ty == success.bl.ty
      binder == BlockParameter(PatternNode(p, 1), success.st)
      ps == IF s.y = "" THEN <<>> ELSE <<binder.p>>
      arm == LowerExpressionBlock(s.alt, Child(p, 2), ps, an,
                                  IF s.y = "" THEN success.st ELSE binder.st)
      exited == Emit(Made(arm.st, arm.bl.ops, arm.bl.r), PureFact(ty),
                     Op("exit", "", <<arm.bl.r>>, <<>>))
      failure == CoreBlock(ps, exited.ops, exited.v, [an.facts[Child(p, 2)] EXCEPT !.ty = ty])
      matched == Emit(Made(exited.st, v.ops, 0), [an.facts[Child(p, 2)] EXCEPT !.ty = ty],
                      [Op("matchvariant", Family(s.v), <<v.v>>, <<success.bl, failure>>)
                         EXCEPT !.xs = <<s.v, s.w>>])
      done == Emit(matched, PureFact(UnitT),
                   IF s.x = "" THEN Op("discard", "", <<matched.v>>, <<>>) ELSE Bind(p, matched.v))
  IN IF subject.k # (IF Family(s.v) = "option" THEN "Option" ELSE "Result") THEN IrError(m)
     ELSE IF s.x = "" THEN done ELSE [done EXCEPT !.st = DefineValue(@, p, matched.v)]

(* An interpolated string: its parts from left to right, each after the    *)
(* first added to what precedes it.                                        *)
LowerInterpolation(e, p, an, m) ==
  LET step(acc, i) ==
        LET part == LowerExpression(e.es[i], ArgumentPath(p, i), an, acc)
        IN IF i = 1 THEN part
           ELSE Emit(part, PureFact(an.facts[p].ty), Op("binary", "+", <<acc.v, part.v>>, <<>>))
  IN IF Len(e.es) = 0 THEN Emit(m, PureFact(StringT), Literal(StrE(<<>>)))
     ELSE FoldLeft(step, m, [i \in DOMAIN e.es |-> i])

(* Entries: a record of each name and value, as soon as both are known. *)
LowerEntries(e, p, an, m) ==
  LET ty == an.facts[p].ty
      step(acc, i) ==
        LET k == LowerExpression(e.es[2 * i - 1], ArgumentPath(p, 2 * i - 1), an, acc.m)
            v == LowerExpression(e.es[2 * i], ArgumentPath(p, 2 * i), an, k)
            r == Emit(v, PureFact(ty.a[1]), [Op("record", "", <<k.v, v.v>>, <<>>)
                                               EXCEPT !.xs = <<"name", "value">>])
        IN [m |-> r, vs |-> Append(acc.vs, r.v)]
      all == FoldLeft(step, [m |-> m, vs |-> <<>>], [i \in 1..(Len(e.es) \div 2) |-> i])
  IN Emit(all.m, PureFact(ty), Op("list", "", all.vs, <<>>))

(* A construction: the written fields in source order, then the defaults,  *)
(* and the record in the order of the contract.                            *)
LowerConstruction(e, p, an, m) ==
  LET ty == an.facts[p].ty
      written == LowerOperands(e.es, p, an, m)
      fields == Contract(e.c)
      step(acc, i) ==
        LET f == fields[i]
            here == {j \in DOMAIN e.xs : e.xs[j] = f.x}
            default == Emit(acc.m, PureFact(ty.fs[f.x]),
                            IF f.default = "text" THEN Literal(StrE(<<>>))
                            ELSE Op("list", "", <<>>, <<>>))
        IN IF here # {}
           THEN [acc EXCEPT !.vs = Append(@, written.vs[CHOOSE j \in here : TRUE])]
           ELSE [m |-> default, vs |-> Append(acc.vs, default.v)]
      all == FoldLeft(step, [m |-> written.m, vs |-> <<>>], [i \in DOMAIN fields |-> i])
  IN IF ~ConstructionFieldsFit(e.c, e.xs) THEN IrError(m)
     ELSE Emit(all.m, PureFact(ty), [Op("record", "", all.vs, <<>>)
                                       EXCEPT !.xs = [i \in DOMAIN fields |-> fields[i].x]])

(* An if: a later link of a chain is the alternative block of this one. *)
LowerIf(e, p, an, m) ==
  LET c == LowerExpression(e.e, Child(p, 1), an, m)
      t == LowerBlock(e.bl, Child(p, 3), an.facts[Child(p, 3)], an, c.st)
      f == LowerExpressionBlock(e.alt, Child(p, 2), <<>>, an, t.st)
  IN Emit(Made(f.st, c.ops, 0), UnionFact(an.facts[p].ty, <<t.bl, f.bl>>),
          Op("if", "", <<c.v>>, <<t.bl, f.bl>>))

(* Faulty variant: both operators branch alike. *)
LowerShortCircuitAlike(e, p, l, an) ==
  LET right == LowerExpressionBlock(e.alt, Child(p, 2), <<>>, an, l.st)
      literal == Emit(Made(right.st, <<>>, 0), PureFact(BoolT), Literal(BoolE(e.op = "||")))
      arms == <<right.bl, CoreBlock(<<>>, literal.ops, literal.v, PureFact(BoolT))>>
  IN Emit(Made(literal.st, l.ops, 0), UnionFact(an.facts[p].ty, arms), Op("if", "", <<l.v>>, arms))

(* && and || become branches, of which one is a constant. *)
LowerShortCircuit(e, p, l, an) ==
  LET right == LowerExpressionBlock(e.alt, Child(p, 2), <<>>, an, l.st)
      literal == Emit(Made(right.st, <<>>, 0), PureFact(BoolT), Literal(BoolE(e.op = "||")))
      constant == CoreBlock(<<>>, literal.ops, literal.v, PureFact(BoolT))
      arms == IF e.op = "||" THEN <<constant, right.bl>> ELSE <<right.bl, constant>>
  IN Emit(Made(literal.st, l.ops, 0), UnionFact(an.facts[p].ty, arms),
          Op("if", "", <<l.v>>, arms))

LowerBinary(e, p, an, m) ==
  LET l == LowerExpression(e.e, Child(p, 1), an, m)
      r == LowerExpression(e.alt, Child(p, 2), an, l)
  IN IF e.op \in {"&&", "||"} THEN LowerShortCircuit(e, p, l, an)
     ELSE Emit(r, PureFact(an.facts[p].ty), Op("binary", e.op, <<l.v, r.v>>, <<>>))

(* A call: the callee, the arguments; its effects are those of the         *)
(* callee's type, its requirements those analysis gave the expression.     *)
LowerCall(e, p, an, m) ==
  LET f == LowerExpression(e.e, Child(p, 1), an, m)
      as == LowerOperands(e.es, p, an, f)
      ty == an.facts[Child(p, 1)].ty
  IN IF ty.k # "Fun" THEN IrError(m)
     ELSE Emit(as.m, [ty |-> an.facts[p].ty, d |-> ty.d, q |-> an.facts[p].q],
               Op("call", "", <<f.v>> \o as.vs, <<>>))

LowerVariable(e, p, an, m) ==
  LET ty == an.facts[p].ty
  IN CASE p \in DOMAIN an.names -> ResolveBinding(an.names[p], m)
       [] e.x = "None" -> Emit(m, PureFact(ty), Op("variant", "None", <<>>, <<>>))
       [] OTHER -> Emit(m, PureFact(ty), Op("builtin", e.x, <<>>, <<>>))

LowerExpression(e, p, an, m) ==
  LET ty == an.facts[p].ty
      operands == LowerOperands(e.es, p, an, m)
      operand == LowerExpression(e.e, Child(p, 1), an, m)
      block == LowerBlock(e.bl, Child(p, 3), an.facts[Child(p, 3)], an, m.st)
  IN CASE e.k \in {"int", "bool", "str"} -> Emit(m, PureFact(ty), Literal(e))
       [] e.k = "unit" -> Emit(m, PureFact(ty), Op("unit", "", <<>>, <<>>))
       [] e.k = "var" -> LowerVariable(e, p, an, m)
       [] e.k = "interp" -> LowerInterpolation(e, p, an, m)
       [] e.k = "entries" -> LowerEntries(e, p, an, m)
       [] e.k = "construct" -> LowerConstruction(e, p, an, m)
       [] e.k = "list" -> Emit(operands.m, PureFact(ty), Op("list", "", operands.vs, <<>>))
       [] e.k = "record" -> Emit(operands.m, PureFact(ty),
                                 [Op("record", "", operands.vs, <<>>) EXCEPT !.xs = e.xs])
       [] e.k = "field" -> Emit(operand, PureFact(ty), Op("field", e.x, <<operand.v>>, <<>>))
       [] e.k = "block" -> Emit(Made(block.st, m.ops, 0), [block.bl EXCEPT !.ty = ty],
                                Op("block", "", <<>>, <<block.bl>>))
       [] e.k = "if" -> LowerIf(e, p, an, m)
       [] e.k = "fn" -> LowerFunction(e, p, ty, FALSE, an, m)
       [] e.k = "call" -> LowerCall(e, p, an, m)
       [] e.k = "match" -> LowerMatch(e, p, an, m)
       [] e.k = "question" -> LowerPropagate(e, p, an, m)
       [] e.k = "unary" -> Emit(operand, PureFact(ty), Op("unary", e.op, <<operand.v>>, <<>>))
       [] e.k = "binary" -> LowerBinary(e, p, an, m)

LowerStatement(s, p, an, m) ==
  LET v == LowerExpression(s.e, Child(p, 1), an, m)
      f == LowerFunction(s, p, an.syms[p].ty, TRUE, an, m)
      bind(r) == LET b == Emit(r, PureFact(UnitT), Bind(p, r.v))
                 IN [b EXCEPT !.st = DefineValue(@, p, r.v)]
      export(r) == IF r.st.exported # <<>> THEN IrError(r)
                   ELSE [r EXCEPT !.st.exported = <<[h |-> s.h, fn |-> Len(m.st.fns) + 1]>>]
  IN CASE s.k = "let" -> bind(v)
       [] s.k = "letelse" -> LowerLetElse(s, p, an, m)
       [] s.k = "fndef" -> bind(f)
       [] s.k = "handler" -> export(bind(f))
       [] OTHER -> Emit(v, PureFact(UnitT), Op("discard", "", <<v.v>>, <<>>))

LowerStatements(ss, i, p, an, m) ==
  IF i > Len(ss) \/ m.st.err THEN m
  ELSE LowerStatements(ss, i + 1, p, an, LowerStatement(ss[i], Child(p, i), an, m))

(* The module: module initialization first, then the program's functions.  *)
Lower(ss, an) ==
  LET init == [ty |-> UnitT, d |-> an.d, q |-> an.q]
      start == [LowerStart(an) EXCEPT !.fns = <<<<>>>>]
      body == LowerBlock(Block(ss, <<>>), <<>>, init, an, start)
      module == [ps |-> <<>>, caps |-> <<>>, recursive |-> <<>>, body |-> body.bl,
                 ty |-> [k |-> "Fun", a |-> <<UnitT>>, d |-> an.d, q |-> an.q]]
  IN [err |-> body.st.err \/ body.st.ctx[1].caps # <<>>, bindings |-> body.st.bindings,
      fns |-> [body.st.fns EXCEPT ![1] = module], exported |-> body.st.exported,
      values |-> body.st.next - 1]
=============================================================================

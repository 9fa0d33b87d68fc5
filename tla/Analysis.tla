------------------------------ MODULE Analysis ------------------------------
(***************************************************************************)
(* The analysis of a program (analysis.rs of crates/krit): the types, the  *)
(* effects and the capability requirements of every node, or the first     *)
(* diagnostic.  env holds what the code keeps in its stacks: the names in  *)
(* scope with their types and symbols, those of the innermost scope, the   *)
(* function that a ? or a let-else returns from, and whether this is the   *)
(* top level.  A symbol, an expression and a block are known by their      *)
(* paths.                                                                  *)
(***************************************************************************)
EXTENDS Unification

Child(p, i) == Append(p, i)
ArgumentPath(p, i) == Append(p, 10 + i)
ParameterPath(p, i) == Append(p, 20 + i)
PatternNode(p, i) == Append(p, 30 + i)

(* The top level: no function to return from. *)
TopLevel == [vis |-> [x \in {} |-> [ty |-> UnitT, at |-> <<>>]], here |-> {}, top |-> TRUE,
             exit |-> "refused", error |-> UnitT, body |-> <<>>, result |-> UnitT]
InnerScope(env) == [env EXCEPT !.here = {}, !.top = FALSE]

(* A built-in name is never available, another name once in a scope; the   *)
(* discard may be declared again and again.                                *)
NameAvailable(x, env) == x \notin Builtins \cup {"None"} /\ (x = "_" \/ x \notin env.here)

Define(x, ty, p, env) ==
  [env EXCEPT !.vis = (x :> [ty |-> ty, at |-> p]) @@ @, !.here = @ \cup {x}]
DefineSymbol(st, ty, p, kind) == [st EXCEPT !.syms = (p :> [ty |-> ty, kind |-> kind]) @@ @]

(* The type of a built-in: parameters and result over fresh variables t    *)
(* and u, its effect, and the constraint its use puts on t.                *)
Sig(ps, r, d) == [ps |-> ps, r |-> r, d |-> d, on |-> ""]
Reply(r) == ResultT(r, StringT)

GenericSignature(x, t, u) ==
  LET con(r, kind) == [ps |-> <<t>>, r |-> r, d |-> {}, on |-> kind]
  IN CASE x \in OutputBuiltins -> [con(UnitT, "printable") EXCEPT !.d = {"io.stdout"}]
       [] x = "Some" -> con(OptionT(t), "structural")
       [] x = "Ok" -> con(ResultT(t, u), "structural")
       [] x = "Err" -> con(ResultT(u, t), "structural")

StringSignature(x) ==
  CASE x = "int_to_string" -> Sig(<<IntT>>, StringT, {})
    [] x = "string_byte_len" -> Sig(<<StringT>>, IntT, {})
    [] x = "string_is_empty" -> Sig(<<StringT>>, BoolT, {})
    [] OTHER -> Sig(<<StringT, StringT>>, BoolT, {})

ServiceSignature(x) ==
  LET S == StringT
  IN CASE x = "ai_invoke" -> Sig(<<S, S>>, Reply(S), {"ai.invoke"})
       [] x = "config_string" -> Sig(<<S>>, Reply(S), {"config.read"})
       [] x = "secret" -> Sig(<<S>>, Reply(SecretT), {"secret.read"})
       [] x = "http_request" -> Sig(<<S, Atom("HttpRequest"), OptionT(SecretT)>>,
                                    Reply(Atom("HttpResponse")), {"http.request"})
       [] x \in {"log_info", "log_error"} ->
            Sig(<<S, ListT(Atom("LogField"))>>, Reply(UnitT), {"observe.log"})
       [] x = "queue_publish" -> Sig(<<S, S>>, Reply(S), {"queue.publish"})

StateSignature(x) ==
  LET S == StringT
      state(ps, r) == Sig(ps, Reply(r), {"state.transaction"})
  IN CASE x \in {"state_get", "checkpoint_get"} -> state(<<S, S>>, OptionT(S))
       [] x \in {"state_put", "checkpoint_put"} -> state(<<S, S, S>>, UnitT)
       [] x = "state_delete" -> state(<<S, S>>, UnitT)
       [] x = "replay_http" -> state(<<S, S, S, Atom("HttpRequest")>>, Atom("HttpResponse"))
       [] x = "replay_ai" -> state(<<S, S, S, S>>, S)

ResourceSignature(x) ==
  LET S == StringT
  IN CASE x = "cache_get" -> Sig(<<S, S>>, Reply(OptionT(S)), {"cache.read"})
       [] x = "cache_put" -> Sig(<<S, S, S, IntT>>, Reply(UnitT), {"cache.write"})
       [] x = "cache_delete" -> Sig(<<S, S>>, Reply(UnitT), {"cache.write"})
       [] x = "search_query" -> Sig(<<S, S, IntT>>, Reply(S), {"search.query"})
       [] x = "vector_search" -> Sig(<<S, S, IntT>>, Reply(S), {"search.vector"})
       [] x = "object_get" -> Sig(<<S, S>>, Reply(OptionT(S)), {"object.read"})
       [] x = "object_put" -> Sig(<<S, S, S>>, Reply(UnitT), {"object.write"})
       [] x = "object_delete" -> Sig(<<S, S>>, Reply(UnitT), {"object.write"})

DatabaseSignature(x) ==
  LET S == StringT
  IN CASE x = "db_begin_read" -> Sig(<<S>>, Reply(TransactionT), {"db.read"})
       [] x = "db_begin_write" -> Sig(<<S>>, Reply(TransactionT), {"db.write"})
       [] x = "db_query" -> Sig(<<TransactionT, S, ListT(S)>>, Reply(S), {})
       [] x = "db_execute" -> Sig(<<TransactionT, S, ListT(S)>>, Reply(IntT), {})
       [] x \in {"db_commit", "db_rollback"} -> Sig(<<TransactionT>>, Reply(UnitT), {})

Signature(x, t, u) ==
  CASE x \in OutputBuiltins \cup {"Some", "Ok", "Err"} -> GenericSignature(x, t, u)
    [] x \in PureBuiltins -> StringSignature(x)
    [] x \in ServiceBuiltins -> ServiceSignature(x)
    [] x \in StateBuiltins -> StateSignature(x)
    [] x \in DatabaseBuiltins -> DatabaseSignature(x)
    [] OTHER -> ResourceSignature(x)

(* A reference to a built-in, each with variables of its own. *)
InferBuiltin(x, p, st) ==
  LET t == VarT(st.n)
      sig == Signature(x, t, VarT(st.n + 1))
      ready == FreshEffect(Fresh(Fresh(st)))
      known == IF sig.on = "" THEN ready ELSE Constrain(ready, sig.on, t, p)
      ef == Len(ready.ef)
  IN IF x = "None" THEN Info(Fresh(st), OptionT(t), Pure)
     ELSE Info([known EXCEPT !.ef = [@ EXCEPT ![ef].d = sig.d],
                             !.refs = @ \cup (IF x \in HostBuiltins THEN {p} ELSE {})],
               FunT(sig.ps, sig.r, ef), Pure)

(* A name: the innermost declaration, else the built-in of that name. *)
InferVariable(x, p, env, st) ==
  CASE x \in DOMAIN env.vis ->
         Info([st EXCEPT !.names = (p :> env.vis[x].at) @@ @], env.vis[x].ty, Pure)
    [] x \in Builtins \cup {"None"} -> InferBuiltin(x, p, st)
    [] OTHER -> Reject(st, "K2001")

(* The literals that name the resources of a direct call of a host         *)
(* built-in, the position of each, the names each may hold and the         *)
(* capability it requires.                                                 *)
ResourceArguments(x) ==
  LET name(i, d) == [i |-> i, d |-> d, form |-> "name"]
      origin(i) == [i |-> i, d |-> "http.request", form |-> "origin"]
  IN CASE x = "config_string" -> {[i |-> 1, d |-> "config.read", form |-> "key"]}
       [] x = "http_request" -> {origin(1)}
       [] x \in {"log_info", "log_error"} -> {name(1, "")}
       [] x \in {"checkpoint_get", "checkpoint_put"} ->
            {name(1, "state.transaction"), name(2, "")}
       [] x = "replay_http" -> {name(1, "state.transaction"), name(2, ""), origin(3)}
       [] x = "replay_ai" -> {name(1, "state.transaction"), name(2, ""), name(3, "ai.invoke")}
       [] x \in {"db_query", "db_execute"} -> {name(2, "")}
       [] x \in {"db_commit", "db_rollback"} -> {}
       [] OTHER -> {name(1, CHOOSE d \in Signature(x, UnitT, UnitT).d : TRUE)}

ResourceFits(a, e) ==
  /\ e.k = "str"
  /\ CASE a.form = "origin" -> e.s \in Origins
       [] a.form = "key" -> CanonicalName(e.s, TRUE)
       [] OTHER -> CanonicalName(e.s, FALSE)

(* A bearer is None, or Some around the secret it holds. *)
BearerForm(e) ==
  CASE e.k = "var" /\ e.x = "None" -> "none"
    [] e.k = "call" /\ e.e.k = "var" /\ e.e.x = "Some" /\ Len(e.es) = 1 -> "some"
    [] OTHER -> "refused"

(* The host built-in called directly, with a fitting number of arguments.  *)
DirectBuiltin(e) == IF e.e.k = "var" /\ e.e.x \in HostBuiltins THEN e.e.x ELSE ""
ResourcesOf(e) ==
  IF DirectBuiltin(e) # "" /\ Len(e.es) = BuiltinArity(DirectBuiltin(e))
  THEN ResourceArguments(DirectBuiltin(e)) ELSE {}

Requirements(e) == {<<a.d, e.es[a.i].s>> : a \in {b \in ResourcesOf(e) : b.d # ""}}
RequiredEffects(e) ==
  {r[1] : r \in {q \in Requirements(e) :
                   DirectBuiltin(e) \in {"replay_http", "replay_ai"} => q[1] = "state.transaction"}}

RECURSIVE Infer(_, _, _, _)
RECURSIVE InferStatements(_, _, _, _, _)
RECURSIVE InferIf(_, _, _, _)
RECURSIVE InferBinary(_, _, _, _)

(* Operands from left to right; their types in order. *)
InferOperands(es, p, env, st) ==
  LET step(acc, i) ==
        LET r == Infer(es[i], ArgumentPath(p, i), env, acc.st)
        IN [st |-> r.st, tys |-> Append(acc.tys, r.ty), fx |-> Join(acc.fx, r.fx)]
  IN FoldLeft(step, [st |-> st, tys |-> <<>>, fx |-> Pure], [i \in DOMAIN es |-> i])

(* Elements of structural data: each is constrained, then unified with the *)
(* type expected of it when there is one.                                  *)
InferElements(es, ts, p, env, st) ==
  LET step(acc, i) ==
        LET r == Infer(es[i], ArgumentPath(p, i), env, acc.st)
            c == Constrain(r.st, "structural", r.ty, ArgumentPath(p, i))
            s == IF Len(ts) = 0 THEN c ELSE Unify(ts[i], r.ty, c).st
        IN [st |-> s, tys |-> Append(acc.tys, r.ty), fx |-> Join(acc.fx, r.fx)]
  IN FoldLeft(step, [st |-> st, tys |-> <<>>, fx |-> Pure], [i \in DOMAIN es |-> i])

InferList(e, p, env, st) ==
  LET t == VarT(st.n)
      r == InferElements(e.es, [i \in DOMAIN e.es |-> t], p, env, Fresh(st))
  IN Info(r.st, ListT(t), r.fx)

InferRecord(e, p, env, st) ==
  LET again == {j \in DOMAIN e.xs : \E i \in 1..(j - 1) : e.xs[i] = e.xs[j]}
      reached == IF again = {} THEN e.es
                 ELSE SubSeq(e.es, 1, CHOOSE j \in again : \A i \in again : j <= i)
      r == InferElements(reached, <<>>, p, env, st)
      fields == [x \in Range(e.xs) |-> r.tys[CHOOSE i \in DOMAIN e.xs : e.xs[i] = x]]
  IN IF again # {} THEN Reject(r.st, "K2002") ELSE Info(r.st, RecordT(fields, FALSE), r.fx)

(* A construction has the closed record type of its contract, whatever     *)
(* fields it leaves to their defaults.                                     *)
InferConstruct(e, p, env, st) ==
  LET contract == ContractRecord(e.c)
      r == InferElements(e.es, [i \in DOMAIN e.xs |-> contract.fs[e.xs[i]]], p, env, st)
  IN IF ~ConstructionFieldsFit(e.c, e.xs) THEN Reject(st, "K3016")
     ELSE Info(r.st, contract, r.fx)

InferEntries(e, p, env, st) ==
  LET r == InferElements(e.es, [i \in DOMAIN e.es |-> StringT], p, env, st)
  IN Info(r.st, ListT(ContractRecord("HttpHeader")), r.fx)

(* Every hole is a string. *)
InferInterpolation(e, p, env, st) ==
  LET step(acc, i) ==
        LET r == Infer(e.es[i], ArgumentPath(p, i), env, acc.st)
            u == Unify(StringT, r.ty, r.st).st
        IN IF ~Failed(r.st) /\ u.err = "K3001" THEN Reject(r.st, "K3015")
           ELSE Info(u, StringT, Join(acc.fx, r.fx))
  IN FoldLeft(step, Info(st, StringT, Pure), [i \in DOMAIN e.es |-> i])

(* A field; code is the diagnostic when the value cannot have it, another  *)
(* one when the field is being called like a method.                       *)
InferField(e, code, p, env, st) ==
  LET v == Infer(e.e, Child(p, 1), env, st)
      f == RequireField(v.ty, e.x, code, v.st)
  IN Info(f.st, f.ty, v.fx)

(* A block: its statements in a scope of their own, then its tail. *)
InferBlock(bl, p, env, st) ==
  LET ss == InferStatements(bl.ss, 1, p, InnerScope(env), st)
      t == Infer(bl.tail[1], Child(p, 0), ss.env, ss.st)
      r == IF Len(bl.tail) = 0 THEN Info(ss.st, UnitT, ss.fx)
           ELSE Info(t.st, t.ty, Join(ss.fx, t.fx))
  IN [r EXCEPT !.st = Record(@, p, [ty |-> r.ty, fx |-> r.fx])]

(* An if chain: conditions and branches in source order, then the branch   *)
(* types from the innermost link outward.                                  *)
InferIf(e, p, env, st) ==
  LET q == Infer(e.e, Child(p, 1), env, st)
      c == Unify(BoolT, q.ty, q.st).st
      t == InferBlock(e.bl, Child(p, 3), env, c)
      f == IF e.alt.k = "if" THEN InferIf(e.alt, Child(p, 2), env, t.st)
           ELSE Infer(e.alt, Child(p, 2), env, t.st)
      u == Unify(t.ty, f.ty, f.st)
      r == Info(u.st, u.ty, Join(Join(q.fx, t.fx), f.fx))
  IN [r EXCEPT !.st = Record(@, p, [ty |-> r.ty, fx |-> r.fx])]

BinaryType(op, l, r, st) ==
  LET u == Unify(l, r, st)
      each(t) == Unify(t, r, Unify(t, l, st).st).st
      p(kind) == Constrain(u.st, kind, u.ty, <<>>)
  IN CASE op = "+" -> Unified(p("addable"), u.ty)
       [] op \in {"-", "*", "/", "%"} -> Unified(each(IntT), IntT)
       [] op \in {"==", "!="} -> Unified(p("comparable"), BoolT)
       [] op \in {"&&", "||"} -> Unified(each(BoolT), BoolT)
       [] OTHER -> Unified(p("orderable"), BoolT)

InferBinary(e, p, env, st) ==
  LET l == IF e.e.k = "binary" THEN InferBinary(e.e, Child(p, 1), env, st)
           ELSE Infer(e.e, Child(p, 1), env, st)
      r == Infer(e.alt, Child(p, 2), env, l.st)
      b == BinaryType(e.op, l.ty, r.ty, r.st)
      i == Info(b.st, b.ty, Join(l.fx, r.fx))
  IN [i EXCEPT !.st = Record(@, p, [ty |-> i.ty, fx |-> i.fx])]

(* The parameters' types, annotated or fresh, and the state after them. *)
ParameterTypes(anns, st) ==
  FoldLeft(LAMBDA acc, ann : IF Len(ann) = 1 THEN [acc EXCEPT !.tys = Append(@, ann[1])]
                             ELSE [st |-> Fresh(acc.st), tys |-> Append(acc.tys, VarT(acc.st.n))],
           [st |-> st, tys |-> <<>>], anns)

(* A body under its parameters: the block, its type against the declared   *)
(* result, its effects as the definition of the function's effect variable. *)
FunctionBody(s, tys, ret, ef, p, env, st) ==
  LET step(acc, i) ==
        LET x == s.ps[i].x
            at == ParameterPath(p, i)
        IN IF NameAvailable(x, acc.env)
           THEN [st |-> DefineSymbol(acc.st, tys[i], at, "parameter"), env |-> Define(x, tys[i], at, acc.env)]
           ELSE [acc EXCEPT !.st = Error(@, "K2002")]
      ps == FoldLeft(step, [st |-> st, env |-> InnerScope(env)], [i \in DOMAIN s.ps |-> i])
      b == InferBlock(s.bl, Child(p, 3), ps.env, ps.st)
      u == Unify(ret, b.ty, b.st)
  IN IF Failed(u.st) THEN u.st
     ELSE [u.st EXCEPT !.ef = [@ EXCEPT ![ef] = Join(@, b.fx)]]

(* An anonymous function: neither ? nor let-else may return from it. *)
InferFn(e, p, env, st) ==
  LET ts == ParameterTypes(Append([i \in DOMAIN e.ps |-> e.ps[i].ann], e.ann), st)
      tys == Front(ts.tys)
      ret == Last(ts.tys)
      ready == FreshEffect(ts.st)
      ef == Len(ready.ef)
      inside == [env EXCEPT !.exit = "refused", !.body = <<>>]
  IN Info(FunctionBody(e, tys, ret, ef, p, inside, ready), FunT(tys, ret, ef), Pure)

(* The check of one argument of a call against its parameter.  A secret    *)
(* may only be a bearer, a transaction only the first argument of a        *)
(* database operation.                                                     *)
CheckArgument(x, parameter, ty, i, p, st) ==
  LET approved == \/ x = "http_request" /\ i = 3
                  \/ Child(p, 1) \in st.allowed
                  \/ x \in {"db_query", "db_execute", "db_commit", "db_rollback"} /\ i = 1
      s == IF approved THEN st ELSE Constrain(st, "opaque", ty, ArgumentPath(p, i))
  IN CASE Failed(st) -> st
       [] x \in {"log_info", "log_error"} /\ Reaches({"Secret"}, ty, st) -> Error(st, "K3009")
       [] OTHER -> Unify(parameter, ty, s).st

InferCall(e, p, env, st) ==
  LET x == DirectBuiltin(e)
      bearer == IF x = "http_request" /\ Len(e.es) = 3 THEN BearerForm(e.es[3]) ELSE "none"
      ready == [st EXCEPT
        !.direct = @ \cup (IF x = "" THEN {} ELSE {Child(p, 1)}),
        !.allowed = @ \cup (IF bearer = "some" THEN {Child(ArgumentPath(p, 3), 1)} ELSE {})]
      method == InferField(e.e, "K3011", Child(p, 1), env, ready)
      f == IF e.e.k = "field" THEN [method EXCEPT !.st = Record(@, Child(p, 1), [ty |-> method.ty, fx |-> method.fx])]
           ELSE Infer(e.e, Child(p, 1), env, ready)
      as == InferOperands(e.es, p, env, f.st)
      h == ResolveHead(f.ty, as.st)
      \* the function type an unknown callee is bound to
      n == as.st.n
      opened == FreshEffect([as.st EXCEPT !.n = @ + Len(e.es) + 1])
      made == FunT([i \in DOMAIN e.es |-> VarT(n + i - 1)], VarT(n + Len(e.es)), Len(opened.ef))
      fun == IF h.k = "Var" THEN made ELSE h
      s0 == IF h.k = "Var" THEN BindVariable(h.n, made, opened).st ELSE as.st
      s1 == FoldLeft(LAMBDA s, i : CheckArgument(x, fun.a[i], as.tys[i], i, p, s), s0,
                     [i \in DOMAIN e.es |-> i])
      fx == Join(f.fx, Join(as.fx, [d |-> RequiredEffects(e), q |-> Requirements(e),
                                    v |-> {fun.ef}]))
  IN CASE \E a \in ResourcesOf(e) : ~ResourceFits(a, e.es[a.i]) -> Reject(st, "K3008")
       [] bearer = "refused" -> Reject(st, "K3008")
       [] Failed(as.st) -> Info(as.st, UnitT, Pure)
       [] h.k \notin {"Var", "Fun"} -> Reject(as.st, "K3002")
       [] Len(fun.a) # Len(e.es) + 1 -> Reject(s0, "K3003")
       [] OTHER -> Info(s1, Last(fun.a), fx)

(* The postfix ?: only in a named function that returns the same family,   *)
(* with the same error type.                                               *)
InferQuestion(e, p, env, st) ==
  LET r == Infer(e.e, Child(p, 1), env, st)
      h == ResolveHead(r.ty, r.st)
      ready == IF env.exit = "result" THEN Constrain(r.st, "structural", env.error, p) ELSE r.st
      errors == Unify(env.error, h.a[2], ready).st
      expected == IF env.exit = "result" THEN ResultT(VarT(ready.n), env.error)
                  ELSE OptionT(VarT(ready.n))
  IN CASE Failed(r.st) -> r
       [] env.exit = "refused" -> Reject(r.st, "K3012")
       [] env.exit = "option" /\ h.k = "Option" -> Info(r.st, h.a[1], r.fx)
       [] env.exit = "result" /\ h.k = "Result" ->
            IF errors.err = "K3001" THEN Reject(r.st, "K3013") ELSE Info(errors, h.a[1], r.fx)
       [] h.k = "Var" -> Info(Unify(expected, r.ty, Fresh(ready)).st, VarT(ready.n), r.fx)
       [] h.k \in {"Option", "Result"} -> Reject(r.st, "K3013")
       [] OTHER -> Reject(r.st, "K3001")

(* The type at a position of a match: the first pattern of a family there  *)
(* unifies it with the family over fresh payload types, kept in pos at the *)
(* position of each payload.                                               *)
Payloads(family) == CASE family = "option" -> <<"Some">> [] family = "result" -> <<"Ok", "Err">>
                      [] family = "list" -> <<"cons">>

TypePosition(pre, family, pos, st) ==
  LET cs == Payloads(family)
      vs == [i \in DOMAIN cs |-> VarT(st.n + i - 1)]
      expected == CASE family = "option" -> OptionT(vs[1]) [] family = "list" -> ListT(vs[1])
                    [] family = "result" -> ResultT(vs[1], vs[2])
      h == ResolveHead(pos[pre], st)
      added == FoldLeft(LAMBDA f, i : (Append(pre, cs[i]) :> vs[i]) @@ f, pos,
                        [i \in DOMAIN cs |-> i])
  IN CASE Failed(st) -> [st |-> st, pos |-> added]
       [] Append(pre, cs[1]) \in DOMAIN pos -> [st |-> st, pos |-> pos]
       [] h.k \notin {"Var", expected.k} -> [st |-> Error(st, "K3005"), pos |-> added]
       [] OTHER -> [st |-> Unify(expected, pos[pre], [st EXCEPT !.n = @ + Len(cs)]).st,
                    pos |-> added]

(* The names a pattern binds, each with its type and its own node. *)
RECURSIVE PatternBindings(_, _, _, _, _)
PatternBindings(p, pre, node, pos, st) ==
  LET family == IF p.k = "variant" THEN Family(p.v) ELSE "list"
      t == TypePosition(pre, family, pos, st)
      element == t.pos[Append(pre, "cons")]
      bind(q, ty, at) == [x |-> BinderName(q), ty |-> ty, at |-> at]
      bound(s, binds) == [st |-> s, pos |-> t.pos, binds |-> binds]
  IN CASE CatchAll(p) -> [st |-> st, pos |-> pos, binds |-> <<bind(p, pos[pre], node)>>]
       [] p.k = "empty" -> bound(t.st, <<>>)
       [] p.k = "cons" /\ p.h.k = "binder" /\ p.h = p.t -> bound(Error(t.st, "K2002"), <<>>)
       [] p.k = "cons" -> bound(t.st, <<bind(p.h, element, Child(node, 1)),
                                        bind(p.t, ListT(element), Child(node, 2))>>)
       [] Len(p.ps) = 0 -> bound(t.st, <<>>)
       [] OTHER -> PatternBindings(p.ps[1], Append(pre, p.v), node, t.pos, t.st)

InferMatch(e, p, env, st) ==
  LET s == Infer(e.e, Child(p, 1), env, st)
      type(acc, i) ==
        LET b == PatternBindings(e.pats[i], <<>>, PatternNode(p, i), acc.pos, acc.st)
        IN [st |-> b.st, pos |-> b.pos, binds |-> Append(acc.binds, b.binds)]
      typed == FoldLeft(type, [st |-> s.st, pos |-> <<>> :> s.ty, binds |-> <<>>],
                        [i \in DOMAIN e.pats |-> i])
      arm(acc, i) ==
        LET binds == typed.binds[i]
            scope == FoldLeft(LAMBDA g, b : Define(b.x, b.ty, b.at, g), InnerScope(env), binds)
            known == FoldLeft(LAMBDA g, b : DefineSymbol(g, b.ty, b.at, "match"), acc.st, binds)
            r == Infer(e.es[i], ArgumentPath(p, i), scope, known)
            u == IF i = 1 THEN Unified(r.st, r.ty) ELSE Unify(acc.ty, r.ty, r.st)
        IN Info(u.st, u.ty, Join(acc.fx, r.fx))
  IN CASE Failed(s.st) -> s
       [] CheckArms(e.pats) # "" -> Reject(s.st, CheckArms(e.pats))
       [] Failed(typed.st) -> Info(typed.st, UnitT, Pure)
       [] CheckExhaustive(e.pats) # "" -> Reject(typed.st, CheckExhaustive(e.pats))
       [] OTHER -> FoldLeft(arm, Info(typed.st, UnitT, s.fx), [i \in DOMAIN e.es |-> i])

InferUnary(e, p, env, st) ==
  LET v == Infer(e.e, Child(p, 1), env, st)
      u == Unify(IF e.op = "!" THEN BoolT ELSE IntT, v.ty, v.st)
  IN Info(u.st, u.ty, v.fx)

(* The dispatch on the kind of an expression; what is found is kept. *)
Infer(e, p, env, st) ==
  LET r == CASE Failed(st) -> Info(st, UnitT, Pure)
             [] e.k = "int" -> Info(st, IntT, Pure)
             [] e.k = "bool" -> Info(st, BoolT, Pure)
             [] e.k = "str" -> Info(st, StringT, Pure)
             [] e.k = "unit" -> Info(st, UnitT, Pure)
             [] e.k = "var" -> InferVariable(e.x, p, env, st)
             [] e.k = "list" -> InferList(e, p, env, st)
             [] e.k = "record" -> InferRecord(e, p, env, st)
             [] e.k = "entries" -> InferEntries(e, p, env, st)
             [] e.k = "construct" -> InferConstruct(e, p, env, st)
             [] e.k = "interp" -> InferInterpolation(e, p, env, st)
             [] e.k = "field" -> InferField(e, "K3004", p, env, st)
             [] e.k = "block" -> InferBlock(e.bl, Child(p, 3), env, st)
             [] e.k = "if" -> InferIf(e, p, env, st)
             [] e.k = "fn" -> InferFn(e, p, env, st)
             [] e.k = "call" -> InferCall(e, p, env, st)
             [] e.k = "question" -> InferQuestion(e, p, env, st)
             [] e.k = "match" -> InferMatch(e, p, env, st)
             [] e.k = "unary" -> InferUnary(e, p, env, st)
             [] e.k = "binary" -> InferBinary(e, p, env, st)
  IN [r EXCEPT !.st = Record(@, p, [ty |-> r.ty, fx |-> r.fx])]

(* After a let: the binding, with its symbol at the statement. *)
Bound(x, ty, p, env, st, fx) ==
  [st |-> DefineSymbol(Unify(VarT(st.n), ty, Fresh(st)).st, VarT(st.n), p, "let"),
   env |-> Define(x, VarT(st.n), p, env), fx |-> fx]
Refused(st, code, env) == [st |-> Error(st, code), env |-> env, fx |-> Pure]

InferLet(s, p, env, st) ==
  LET v == Infer(s.e, Child(p, 1), env, st)
      u == IF Len(s.ann) = 0 THEN v.st ELSE Unify(s.ann[1], v.ty, v.st).st
      ty == IF Len(s.ann) = 0 THEN v.ty ELSE s.ann[1]
  IN IF ~NameAvailable(s.x, env) THEN Refused(st, "K2002", env)
     ELSE Bound(s.x, ty, p, env, u, v.fx)

(* A let-else: a direct statement of a named function's body, over the two *)
(* variants of one family, whose arm has the function's result type.       *)
InferLetElse(s, p, env, st) ==
  LET v == Infer(s.e, Child(p, 1), env, st)
      s0 == IF Len(s.ann) = 0 THEN v.st ELSE Unify(s.ann[1], v.ty, v.st).st
      subject == IF Len(s.ann) = 0 THEN v.ty ELSE s.ann[1]
      h == ResolveHead(subject, s0)
      expected == IF Family(s.v) = "option" THEN OptionT(VarT(s0.n))
                  ELSE ResultT(VarT(s0.n), VarT(s0.n + 1))
      s1 == Unify(expected, subject, Fresh(Fresh(s0))).st
      payload(w) == VarT(s0.n + IF w = "Err" THEN 1 ELSE 0)
      arm == IF s.y = "" THEN Infer(s.alt, Child(p, 2), InnerScope(env), s1)
             ELSE Infer(s.alt, Child(p, 2),
                        Define(s.y, payload(s.w), PatternNode(p, 1), InnerScope(env)),
                        DefineSymbol(s1, payload(s.w), PatternNode(p, 1), "match"))
      s2 == Unify(env.result, arm.ty, arm.st).st
      fx == Join(v.fx, arm.fx)
  IN CASE env.body = <<>> \/ Front(p) # env.body -> Refused(st, "K3014", env)
       [] s.w # Complement(s.v) -> Refused(st, "K3014", env)
       [] (s.v = "None") # (s.x = "") \/ (s.w = "None") # (s.y = "") -> Refused(st, "K3005", env)
       [] s.x # "" /\ ~NameAvailable(s.x, env) -> Refused(st, "K2002", env)
       [] Failed(s0) -> Refused(s0, "", env)
       [] h.k \notin {"Var", expected.k} -> Refused(s0, "K3005", env)
       [] s.x = "" -> [st |-> s2, env |-> env, fx |-> fx]
       [] OTHER -> Bound(s.x, payload(s.v), p, env, s2, fx)

(* The exact signature of an entrypoint and the capability that delivers   *)
(* to it: "" when the declaration fits.                                    *)
EntrypointCheck(s, env) ==
  LET reply == ResultT(StringT, StringT)
      parameter == CASE s.h = "webhook" -> Atom("HttpRequest") [] s.h = "queue" -> Atom("QueueJob")
                     [] s.h = "schedule" -> Atom("ScheduleEvent")
      result == IF s.h = "webhook" THEN Atom("HttpResponse") ELSE reply
  IN CASE ~env.top -> "K1004"
       [] ~(Len(s.ps) = 1 /\ s.ps[1].ann = <<parameter>> /\ s.ann = <<result>>) -> "K3007"
       [] s.h # "webhook" /\ ~CanonicalName(s.s, FALSE) -> "K3008"
       [] OTHER -> ""

(* Where a ? of the function returns to: its declared Result or Option. *)
ExitContext(s) ==
  CASE s.k = "handler" /\ s.h = "webhook" -> "refused"
    [] Len(s.ann) = 0 -> "refused"
    [] s.ann[1].k = "Result" -> "result"
    [] s.ann[1].k = "Option" -> "option"
    [] OTHER -> "refused"

(* A named function or entrypoint: its name is in scope in its own body. *)
InferFunction(s, p, env, st) ==
  LET ts == ParameterTypes(Append([i \in DOMAIN s.ps |-> s.ps[i].ann], s.ann), st)
      tys == Front(ts.tys)
      ret == Last(ts.tys)
      ready == FreshEffect(ts.st)
      ef == Len(ready.ef)
      ty == FunT(tys, ret, ef)
      defined == Define(s.x, ty, p, env)
      inside == [defined EXCEPT !.exit = ExitContext(s), !.body = Child(p, 3), !.result = ret,
                                !.error = IF ExitContext(s) = "result" THEN ret.a[2] ELSE UnitT]
      body == FunctionBody(s, tys, ret, ef, p, inside, DefineSymbol(ready, ty, p, IF s.k = "handler" THEN s.h ELSE "function"))
      d == IF s.k = "fndef" \/ s.h = "webhook" THEN {}
           ELSE IF s.h = "queue" THEN {"queue.consume"} ELSE {"schedule.trigger"}
      delivery == [d |-> d, q |-> {<<c, s.s>> : c \in d}, v |-> {}]
  IN CASE s.k = "handler" /\ EntrypointCheck(s, env) # "" ->
            Refused(st, EntrypointCheck(s, env), env)
       [] ~NameAvailable(s.x, env) -> Refused(st, "K2002", env)
       [] OTHER -> [st |-> [body EXCEPT !.ef = [@ EXCEPT ![ef] = Join(@, delivery)]],
                    env |-> defined, fx |-> Pure]

InferStatement(s, p, env, st) ==
  LET r == Infer(s.e, Child(p, 1), env, st)
  IN CASE Failed(st) -> Refused(st, "", env)
       [] s.k = "let" -> InferLet(s, p, env, st)
       [] s.k = "letelse" -> InferLetElse(s, p, env, st)
       [] s.k \in {"fndef", "handler"} -> InferFunction(s, p, env, st)
       [] OTHER -> [st |-> r.st, env |-> env, fx |-> r.fx]

InferStatements(ss, i, p, env, st) ==
  IF i > Len(ss) THEN [st |-> st, env |-> env, fx |-> Pure]
  ELSE LET h == InferStatement(ss[i], Child(p, i), env, st)
           t == InferStatements(ss, i + 1, p, h.env, h.st)
       IN [t EXCEPT !.fx = Join(h.fx, @)]

(* What a constraint refuses, once everything is solved. *)
Violated(c, st) ==
  LET h == ResolveHead(c.ty, st)
      opaque == Reaches({"Secret", "DatabaseTransaction"}, c.ty, st)
  IN CASE c.kind \in {"addable", "orderable"} -> h.k \notin {"Int", "String", "Var"}
       [] c.kind = "comparable" ->
            Reaches({"Fun", "Secret", "DatabaseTransaction"}, c.ty, st)
       [] c.kind = "structural" /\ c.at \in st.allowed -> h.k # "Secret"
       [] OTHER -> opaque

ConstraintCode(c, st) ==
  CASE Reaches({"DatabaseTransaction"}, c.ty, st) -> "K3010"
    [] Reaches({"Secret"}, c.ty, st) -> "K3009"
    [] c.kind = "comparable" -> "K3006"
    [] OTHER -> "K3001"

Validate(st) ==
  LET broken == {i \in DOMAIN st.cons : Violated(st.cons[i], st)}
  IN CASE Failed(st) -> st
       [] ~(st.refs \subseteq st.direct) -> Error(st, "K3008")
       [] broken # {} ->
            Error(st, ConstraintCode(st.cons[CHOOSE i \in broken : \A j \in broken : i <= j], st))
       [] OTHER -> st

(* Faulty variant: only what a variable depends on directly. *)
ExpandedOnce(ef) ==
  [i \in DOMAIN ef |-> [d |-> ef[i].d \cup UNION {ef[j].d : j \in ef[i].v},
                        q |-> ef[i].q \cup UNION {ef[j].q : j \in ef[i].v}, v |-> ef[i].v]]

(* Every effect variable with the effects of all it depends on. *)
RECURSIVE Expanded(_)
Expanded(ef) ==
  LET next == [i \in DOMAIN ef |->
        [d |-> ef[i].d \cup UNION {ef[j].d : j \in ef[i].v},
         q |-> ef[i].q \cup UNION {ef[j].q : j \in ef[i].v}, v |-> ef[i].v]]
  IN IF next = ef THEN ef ELSE Expanded(next)

ResolveEffects(fx, ef) == [d |-> fx.d \cup UNION {ef[j].d : j \in fx.v},
                           q |-> fx.q \cup UNION {ef[j].q : j \in fx.v}]

(* A type with every variable replaced by its solution and every effect    *)
(* variable by its effects; an open record closes.                         *)
RECURSIVE Normalize(_, _, _)
Normalize(t, ef, st) ==
  LET h == ResolveHead(t, st)
      parts == [i \in DOMAIN h.a |-> Normalize(h.a[i], ef, st)]
  IN CASE h.k = "Record" -> RecordT([x \in DOMAIN h.fs |-> Normalize(h.fs[x], ef, st)], FALSE)
       [] h.k = "Fun" -> [k |-> "Fun", a |-> parts, d |-> ef[h.ef].d, q |-> ef[h.ef].q]
       [] h.k \in {"List", "Option", "Result"} -> [k |-> h.k, a |-> parts]
       [] OTHER -> h

(* The analysis of a program: the first diagnostic, or its effects and     *)
(* requirements with the types, effects and names of its nodes.            *)
Analyze(ss) ==
  LET r == InferStatements(ss, 1, <<>>, TopLevel, StartState)
      st == Validate(r.st)
      ef == Expanded(st.ef)
      program == ResolveEffects(r.fx, ef)
      known(f) == LET fx == ResolveEffects(f.fx, ef)
                  IN [ty |-> Normalize(f.ty, ef, st), d |-> fx.d, q |-> fx.q]
  IN IF Failed(st) THEN [code |-> st.err, d |-> {}, q |-> {}, facts |-> <<>>, syms |-> <<>>,
                         names |-> <<>>]
     ELSE [code |-> "", d |-> program.d, q |-> program.q,
           facts |-> [p \in DOMAIN st.facts |-> known(st.facts[p])],
           syms |-> [p \in DOMAIN st.syms |->
             [ty |-> Normalize(st.syms[p].ty, ef, st), kind |-> st.syms[p].kind]],
           names |-> st.names]
=============================================================================

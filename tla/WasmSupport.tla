---------------------------- MODULE WasmSupport ----------------------------
(***************************************************************************)
(* The support check of the WebAssembly backend (crates/krit-wasm/src/     *)
(* support.rs): which functions survive dead-function elimination, and     *)
(* whether every type and operation of the survivors has a lowering.  A    *)
(* program without an exported handler builds under policy 1, which knows  *)
(* only scalars; a handler (hook) builds under the webhook ABI.  Where the *)
(* code collects every diagnostic, the model keeps whether there is one.   *)
(***************************************************************************)
EXTENDS CoreVerifier, MachineIntegers

CONSTANT MaxInt     \* i64::MAX

OperationsOf(f) == UNION {Range(b.ops) : b \in BlocksOf(f.body)}
AllOperations(fs) == UNION {OperationsOf(f) : f \in fs}

(* Closure values and the bindings that name a function. *)
ClosureValues(mod) ==
  LET closures == {o \in AllOperations(Range(mod.fns)) : o.op.k = "closure"}
  IN [v \in {o.v : o \in closures} |-> (CHOOSE o \in closures : o.v = v).op.fn]
BoundFunctions(mod, closures) ==
  LET own == UNION {{<<r.b, i>> : r \in Range(mod.fns[i].recursive)} : i \in DOMAIN mod.fns}
      bound == {<<o.op.b, closures[o.op.vs[1]]>> :
                  o \in {p \in AllOperations(Range(mod.fns)) :
                           p.op.k = "bind" /\ p.op.vs[1] \in DOMAIN closures}}
  IN own \cup bound

(* Binding or discarding a closure is no use of it; a block's result is.   *)
UsedFunctions(f, closures) ==
  LET used == UNION {Range(o.op.vs) : o \in {p \in OperationsOf(f) :
                                               p.op.k \notin {"bind", "discard"}}}
                \cup {b.r : b \in BlocksOf(f.body)}
  IN {closures[v] : v \in used \cap DOMAIN closures}

(* LiveFunctions::compute, from module initialization and the entrypoint.  *)
LiveFunctions(mod, entry) ==
  LET closures == ClosureValues(mod)
      bound == BoundFunctions(mod, closures)
      next(i) == UsedFunctions(mod.fns[i], closures)
                   \cup {pair[2] : pair \in {q \in bound :
                                               \E c \in Range(mod.fns[i].caps) : c.b = q[1]}}
      grow(live, n) == live \cup UNION {next(i) : i \in live}
  IN FoldLeft(grow, {1, entry}, [n \in DOMAIN mod.fns |-> n])

IsDeadClosure(o, live) == o.op.k = "closure" /\ o.op.fn \notin live
Kept(bl, live) == SelectSeq(bl.ops, LAMBDA o : ~IsDeadClosure(o, live))

RECURSIVE KeptBlocks(_, _)
KeptBlocks(bl, live) ==
  LET ops == Kept(bl, live)
  IN {bl} \cup UNION {UNION {KeptBlocks(ops[i].op.bls[j], live) : j \in DOMAIN ops[i].op.bls} :
                        i \in DOMAIN ops}
KeptOperations(f, live) ==
  UNION {Range(Kept(b, live)) : b \in KeptBlocks(f.body, live)}

(* Functions bound at the top level, whose own captures are such bindings. *)
StaticFunctions(mod) ==
  LET ops == mod.fns[1].body.ops
      closure(v) == {o \in Range(ops) : o.op.k = "closure" /\ o.v = v}
      step(known, o) ==
        IF o.op.k = "bind" /\ \E c \in closure(o.op.vs[1]) :
                                 \A cap \in Range(c.op.caps) : cap.b \in known
        THEN known \cup {o.op.b} ELSE known
  IN FoldLeft(step, {}, ops)

(* A literal MAX+1 whose only use is the operand of a negation. *)
MinimumLiterals(mod, live) ==
  LET ops == AllOperations({mod.fns[i] : i \in live})
      blocks == UNION {BlocksOf(mod.fns[i].body) : i \in live}
      users(v) == {o \in ops : v \in Range(o.op.vs) \/ \E c \in Range(o.op.caps) : c.v = v}
      negated(v) == \A o \in users(v) : o.op.k = "unary" /\ o.op.x = "-"
  IN {o.v : o \in {p \in ops : /\ p.op.k = "literal" /\ p.op.lit.k = "int"
                               /\ p.op.lit.n = MaxInt + 1
                               /\ negated(p.v) /\ Cardinality(users(p.v)) = 1
                               /\ ~\E b \in blocks : b.r = p.v}}

ContainsResidual(t) == HoldsKind({"Var"}, t)

(* The contract types of the webhook ABI, nominal or structural. *)
IsNameValue(t) ==
  t.k \in {"HttpHeader", "LogField"}
  \/ (t.k = "Record" /\ DOMAIN t.fs = {"name", "value"} /\ \A x \in DOMAIN t.fs : t.fs[x] = StringT)
IsNameValueList(t) == t.k = "List" /\ IsNameValue(t.a[1])
IsStringList(t) == t.k = "List" /\ t.a[1] = StringT
FieldsMatch(t, k) ==
  LET expected == ContractRecord(k).fs
  IN t.k = "Record" /\ DOMAIN t.fs = DOMAIN expected
     /\ \A x \in DOMAIN expected :
          \/ t.fs[x] = expected[x]
          \/ /\ x = "headers" /\ IsNameValueList(t.fs[x])
             /\ t.fs[x].a[1].k # "LogField"
IsHttpContract(t) == t.k \in {"HttpHeader", "HttpRequest", "HttpResponse"} \/ IsNameValue(t)
                     \/ FieldsMatch(t, "HttpRequest") \/ FieldsMatch(t, "HttpResponse")

Scalars == {"Int", "Bool", "Unit"}
Opaque == {"String", "DatabaseTransaction", "Secret"} \cup NominalRecords \cup Deliveries

RECURSIVE SupportedWebhookType(_)
SupportedWebhookType(t) ==
  CASE t.k \in Scalars \cup Opaque -> TRUE
    [] t.k = "List" -> IsNameValueList(t) \/ IsStringList(t)
    [] t.k = "Record" -> IsHttpContract(t)
    [] t.k = "Option" -> t.a[1] \in {SecretT, StringT}
    [] t.k = "Result" ->
         /\ t.a[2] = StringT
         /\ t.a[1] \in {UnitT, IntT, StringT, SecretT, Atom("HttpResponse"), TransactionT,
                        OptionT(StringT)}
    [] t.k = "Fun" -> \A i \in DOMAIN t.a : SupportedWebhookType(t.a[i])
    [] OTHER -> FALSE

(* check_type; a residual type is the residual pass's to report. *)
RECURSIVE HasLayout(_, _)
HasLayout(t, hook) ==
  CASE t.k \in Scalars -> TRUE
    [] t.k = "Fun" -> \A i \in DOMAIN t.a : HasLayout(t.a[i], hook)
    [] t.k = "Var" -> FALSE
    [] OTHER -> hook /\ (t.k \in Opaque \/ SupportedWebhookType(t))
CheckType(t, hook) == ContainsResidual(t) \/ HasLayout(t, hook)

(* A built-in the backend lowers, at the exact type it lowers. *)
CheckBuiltin(x, t, hook) ==
  LET sig == Signature(x, UnitT, UnitT)
  IN /\ hook \/ x \in OutputBuiltins
     /\ t.k = "Fun"
     /\ CASE x \in OutputBuiltins -> Len(t.a) = 2 /\ t.a[2] = UnitT /\ t.a[1].k \in Scalars
          [] x = "Some" -> t.a = <<SecretT, OptionT(SecretT)>>
          [] x \in {"Ok", "Err"} -> Len(t.a) = 2 /\ SupportedWebhookType(t.a[2])
          [] OTHER -> t.a = Append(sig.ps, sig.r)

UnsupportedBinary(op, t, hook) ==
  \/ op.x \in {"&&", "||"}
  \/ /\ hook /\ ~ContainsResidual(t)
     /\ ~(t = StringT /\ op.x \in {"+", "==", "!=", "<", "<=", ">", ">="})
     /\ ~(op.x \in {"==", "!="} /\ t.k \in Scalars \cup {"Fun"})
     /\ ~(op.x \notin {"==", "!="} /\ t = IntT)

(* check_operation_kind: what each kind of operation asks of the policy.   *)
SupportedKind(o, env) ==
  LET op == o.op
      hook == env.hook
  IN CASE op.k = "literal" ->
            \/ op.lit.k = "int" /\ (op.lit.n <= MaxInt \/ o.v \in env.min)
            \/ op.lit.k = "bool"
            \/ op.lit.k = "str" /\ hook
       [] op.k = "builtin" -> CheckBuiltin(op.x, o.ty, hook)
       [] op.k = "closure" -> \A c \in Range(op.caps) : c.b \in env.static
       [] op.k = "binary" -> ~UnsupportedBinary(op, env.types[op.vs[1]], hook)
       [] op.k \in {"variant", "matchvariant"} -> hook
       [] op.k = "list" -> hook /\ (IsNameValueList(o.ty) \/ IsStringList(o.ty))
       [] op.k = "matchlist" -> FALSE
       [] op.k = "record" -> hook /\ IsHttpContract(o.ty)
       [] op.k = "field" -> hook /\ (IsHttpContract(o.ty) \/ SupportedWebhookType(o.ty))
       [] OTHER -> TRUE

CheckFunction(f, env) ==
  /\ \A c \in Range(f.caps) : c.b \in env.static
  /\ \A i \in DOMAIN f.ty.a : CheckType(f.ty.a[i], env.hook)
  /\ \A b \in KeptBlocks(f.body, env.live) :
       /\ env.hook \/ b.ps = <<>>
       /\ \A i \in DOMAIN b.ps : CheckType(b.ps[i].ty, env.hook)
       /\ CheckType(b.ty, env.hook)
  /\ \A o \in KeptOperations(f, env.live) :
       \/ ContainsResidual(o.ty) /\ o.op.k \notin {"block", "if", "matchlist", "matchvariant"}
       \/ SupportedKind(o, env) /\ (o.op.k = "closure" \/ CheckType(o.ty, env.hook))

(* No live location keeps an inference variable. *)
NoResidual(f, live) ==
  /\ \A i \in DOMAIN f.ty.a : ~ContainsResidual(f.ty.a[i])
  /\ \A b \in KeptBlocks(f.body, live) :
       ~ContainsResidual(b.ty) /\ \A i \in DOMAIN b.ps : ~ContainsResidual(b.ps[i].ty)
  /\ \A o \in KeptOperations(f, live) : o.op.k = "closure" \/ ~ContainsResidual(o.ty)

(* Under the webhook ABI a built-in other than print is only ever called,  *)
(* and an Option<Secret> is used once, as the bearer of an http_request.   *)
RestrictedUses(mod, env) ==
  LET fs == {mod.fns[i] : i \in env.live}
      values == AllOperations(fs)
      ops == UNION {KeptOperations(f, env.live) : f \in fs}
      blocks == UNION {KeptBlocks(f.body, env.live) : f \in fs}
      http == {o.v : o \in {p \in values : p.op.k = "builtin" /\ p.op.x = "http_request"}}
      role(o, i) == CASE o.op.k # "call" -> "other"
                      [] i = 1 -> "callee"
                      [] i = 4 /\ o.op.vs[1] \in http -> "bearer"
                      [] OTHER -> "other"
      uses(v) == UNION {{<<o.v, i, role(o, i)>> : i \in {j \in DOMAIN o.op.vs : o.op.vs[j] = v}}
                          : o \in ops}
                   \cup {<<o.v, 0, "other">> : o \in {p \in ops :
                                                    \E c \in Range(p.op.caps) : c.v = v}}
                   \cup {<<0, 0, "other">> : b \in {c \in blocks : c.r = v}}
  IN /\ \A o \in values : (o.op.k = "builtin" /\ o.op.x \notin OutputBuiltins) =>
          uses(o.v) # {} /\ \A u \in uses(o.v) : u[3] = "callee"
     /\ \A o \in values : o.ty = OptionT(SecretT) =>
          Cardinality(uses(o.v)) = 1 /\ \A u \in uses(o.v) : u[3] = "bearer"

(* The operations a call of which the host must approve: every model, and  *)
(* every origin that receives a bearer secret.                             *)
ApprovalRequirements(mod, live) ==
  LET entry == mod.fns[IF mod.exported = <<>> THEN 1 ELSE mod.exported[1].fn]
      ops == AllOperations({mod.fns[i] : i \in live})
      named(v, x) == \E o \in ops : o.v = v /\ o.op.k = "builtin" /\ o.op.x = x
      bearer(v) == \E o \in ops : /\ o.v = v /\ o.ty = OptionT(SecretT)
                                  /\ \/ o.op.k = "variant" /\ o.op.x = "Some"
                                     \/ o.op.k = "call" /\ named(o.op.vs[1], "Some")
      calls == {o \in ops : o.op.k = "call" /\ named(o.op.vs[1], "http_request")
                            /\ Len(o.op.vs) = 4 /\ bearer(o.op.vs[4])}
      texts == {o \in ops : o.op.k = "literal" /\ o.op.lit.k = "str"}
  IN {<<"ai.invoke", r[2]>> : r \in {s \in entry.ty.q : s[1] = "ai.invoke"}}
       \cup {<<"http.bearer", t.op.lit.s>> :
               t \in {u \in texts : \E o \in calls : o.op.vs[2] = u.v}}

(* check_module: ok, and what emission needs of a checked module. *)
CheckModule(mod) ==
  LET hook == mod.exported # <<>>
      entry == IF hook THEN mod.exported[1].fn ELSE 1
      live == LiveFunctions(mod, entry)
      env == [hook |-> hook, live |-> live, min |-> MinimumLiterals(mod, live),
              static |-> StaticFunctions(mod), types |-> ValueTypes(Definitions(mod))]
  IN [ok |-> /\ Verify(mod)
             /\ hook => mod.fns[1].ty.d = {}
             /\ \A i \in live : NoResidual(mod.fns[i], live)
             /\ \A i \in live : CheckFunction(mod.fns[i], env)
             /\ hook => RestrictedUses(mod, env),
      hook |-> hook, entry |-> entry, live |-> live, min |-> env.min,
      approvals |-> ApprovalRequirements(mod, live)]
=============================================================================

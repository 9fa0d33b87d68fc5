---------------------------- MODULE CoreVerifier ----------------------------
(***************************************************************************)
(* The verifier of a Core module (Verifier of crates/krit/src/core.rs):    *)
(* every value defined once and used where it is available, every type and *)
(* effect consistent with the operations below it.  mod is a module as     *)
(* Lower builds it; each check is a predicate of its own.                  *)
(***************************************************************************)
EXTENDS Lowering

CONSTANT MaxCoreBlockDepth     \* MAX_CORE_BLOCK_DEPTH

RECURSIVE BlocksOf(_)
BlocksOf(bl) ==
  {bl} \cup UNION {UNION {BlocksOf(bl.ops[i].op.bls[j]) : j \in DOMAIN bl.ops[i].op.bls} :
                     i \in DOMAIN bl.ops}

RECURSIVE BlockDepth(_)
BlockDepth(bl) ==
  LET inner == UNION {{BlockDepth(bl.ops[i].op.bls[j]) : j \in DOMAIN bl.ops[i].op.bls} :
                        i \in DOMAIN bl.ops}
  IN 1 + (CHOOSE n \in {0} \cup inner : \A o \in inner : o <= n)

(* A nominal record and its structure are the same type, at any depth. *)
RECURSIVE TypeEquivalent(_, _)
TypeEquivalent(l, r) ==
  \/ l = r
  \/ l.k \in NominalRecords /\ r.k = "Record" /\ TypeEquivalent(r, ContractRecord(l.k))
  \/ r.k \in NominalRecords /\ l.k = "Record" /\ TypeEquivalent(l, ContractRecord(r.k))
  \/ /\ l.k = "Record" /\ r.k = "Record" /\ DOMAIN l.fs = DOMAIN r.fs
     /\ \A x \in DOMAIN l.fs : TypeEquivalent(l.fs[x], r.fs[x])
  \/ /\ l.k = r.k /\ l.k \in {"List", "Option", "Result", "Fun"} /\ Len(l.a) = Len(r.a)
     /\ \A i \in DOMAIN l.a : TypeEquivalent(l.a[i], r.a[i])
     /\ l.k = "Fun" => l.d = r.d /\ l.q = r.q

RECURSIVE HoldsKind(_, _)
HoldsKind(ks, t) == t.k \in ks \/ \E c \in Components(t) : HoldsKind(ks, c)
ContainsSecret(t) == HoldsKind({"Secret"}, t)
ContainsNoFunction(t) == ~HoldsKind({"Fun", "Secret", "DatabaseTransaction"}, t)

(* The fields a value of this type has. *)
RecordFields(t) == CASE t.k = "Record" -> t.fs
                     [] t.k \in NominalRecords \cup Deliveries -> ContractRecord(t.k).fs
                     [] OTHER -> [x \in {} |-> UnitT]

(* Every value the module defines, with its type. *)
Definitions(mod) ==
  LET blocks(f) == BlocksOf(f.body)
      parameters(f) == Range(f.ps) \cup Range(f.caps) \cup Range(f.recursive)
                         \cup UNION {Range(b.ps) : b \in blocks(f)}
      operations(f) == UNION {Range(b.ops) : b \in blocks(f)}
  IN UNION {{[v |-> p.v, ty |-> p.ty, op |-> ""] : p \in parameters(f)} : f \in Range(mod.fns)}
       \cup UNION {{[v |-> o.v, ty |-> o.ty, op |-> o.op.k] : o \in operations(f)} :
                     f \in Range(mod.fns)}
ValueTypes(defs) == [v \in {d.v : d \in defs} |-> (CHOOSE d \in defs : d.v = v).ty]

(* The boundary of a function agrees with its type and the bindings. *)
BindingFits(mod, p, kinds) ==
  /\ p.b \in DOMAIN mod.bindings
  /\ TypeEquivalent(mod.bindings[p.b].ty, p.ty)
  /\ mod.bindings[p.b].kind \in kinds
Declarations == {"let", "function", "webhook", "queue", "schedule"}

CollectFunction(mod, f) ==
  /\ Len(f.ps) = Len(f.ty.a) - 1
  /\ \A i \in DOMAIN f.ps : f.ps[i].ty = f.ty.a[i] /\ BindingFits(mod, f.ps[i], {"parameter"})
  /\ \A i \in DOMAIN f.caps :
       BindingFits(mod, f.caps[i], Declarations \cup {"parameter", "match"})
  /\ \A i \in DOMAIN f.recursive : /\ BindingFits(mod, f.recursive[i], Declarations \ {"let"})
                                   /\ f.recursive[i].ty = f.ty
  /\ \A b \in BlocksOf(f.body) : \A i \in DOMAIN b.ps : BindingFits(mod, b.ps[i], {"match"})

(* A built-in has the parameters, the result and the effect it declares.   *)
VerifyConstructor(x, t) ==
  LET p == t.a[1]
      r == t.a[2]
  IN /\ Len(t.a) = 2
     /\ ContainsSecret(p) => (x = "Some" /\ p = SecretT)
     /\ CASE x = "Some" -> r.k = "Option" /\ r.a[1] = p
          [] x = "Ok" -> r.k = "Result" /\ r.a[1] = p
          [] x = "Err" -> r.k = "Result" /\ r.a[2] = p

VerifyBuiltinType(x, t) ==
  LET sig == Signature(x, UnitT, UnitT)
      expected == Append(sig.ps, sig.r)
  IN /\ t.k = "Fun"
     /\ CASE x \in {"Some", "Ok", "Err"} -> VerifyConstructor(x, t)
          [] x \in OutputBuiltins -> /\ Len(t.a) = 2 /\ t.a[2] = UnitT
                                     /\ "io.stdout" \in t.d /\ ~ContainsSecret(t.a[1])
          [] x \in PureBuiltins -> /\ Len(t.a) = Len(expected)
                                   /\ \A i \in DOMAIN t.a : TypeEquivalent(t.a[i], expected[i])
          [] OTHER -> t.a = expected /\ sig.d \subseteq t.d

VerifyVariant(op, t, types) ==
  LET expected == CASE op.x = "Some" /\ t.k = "Option" -> <<t.a[1]>>
                    [] op.x = "None" /\ t.k = "Option" -> <<>>
                    [] op.x = "Ok" /\ t.k = "Result" -> <<t.a[1]>>
                    [] op.x = "Err" /\ t.k = "Result" -> <<t.a[2]>>
                    [] OTHER -> <<UnitT, UnitT>>
      bearer == op.x = "Some" /\ t = OptionT(SecretT)
  IN /\ [i \in DOMAIN op.vs |-> types[op.vs[i]]] = expected
     /\ \A i \in DOMAIN op.vs : ContainsSecret(types[op.vs[i]]) => bearer

VerifyRecord(o, types) ==
  LET op == o.op
  IN /\ o.ty.k = "Record"
     /\ \A x \in DOMAIN o.ty.fs : ~ContainsSecret(o.ty.fs[x])
     /\ Range(op.xs) = DOMAIN o.ty.fs /\ Len(op.xs) = Cardinality(Range(op.xs))
     /\ \A i \in DOMAIN op.xs : TypeEquivalent(types[op.vs[i]], o.ty.fs[op.xs[i]])

VerifyBinary(o, types) ==
  LET l == types[o.op.vs[1]]
      r == types[o.op.vs[2]]
  IN CASE o.op.x = "+" -> l = r /\ l.k \in {"Int", "String", "Var"} /\ o.ty = l
       [] o.op.x \in {"-", "*", "/", "%"} -> l = IntT /\ r = IntT /\ o.ty = IntT
       [] o.op.x \in {"==", "!="} ->
            TypeEquivalent(l, r) /\ ContainsNoFunction(l) /\ o.ty = BoolT
       [] OTHER -> l = r /\ l.k \in {"Int", "String", "Var"} /\ o.ty = BoolT

(* A closure passes each capture of its function the value its binding has *)
(* here.                                                                   *)
VerifyClosure(o, mod, scope, types) ==
  LET f == mod.fns[o.op.fn]
      passed == o.op.caps
  IN /\ TypeEquivalent(o.ty, f.ty)
     /\ Len(passed) = Len(f.caps)
     /\ \A i \in DOMAIN passed :
          /\ passed[i].b = f.caps[i].b
          /\ passed[i].b \in DOMAIN scope.binds /\ scope.binds[passed[i].b] = passed[i].v
          /\ passed[i].v \in scope.av
          /\ TypeEquivalent(types[passed[i].v], f.caps[i].ty)

(* The resources a direct call of a host built-in requires, read off the   *)
(* string literals its arguments are.                                      *)
DirectRequirements(op, lits, builtins) ==
  LET x == builtins[op.vs[1]]
      named == {a \in ResourceArguments(x) : a.d # ""}
  IN IF op.vs[1] \notin DOMAIN builtins \/ x \notin HostBuiltins THEN {}
     ELSE {<<a.d, lits[op.vs[a.i + 1]]>> : a \in named}
LiteralResources(op, lits, builtins) ==
  (op.vs[1] \in DOMAIN builtins /\ builtins[op.vs[1]] \in HostBuiltins) =>
    \A a \in {b \in ResourceArguments(builtins[op.vs[1]]) : b.d # ""} :
      op.vs[a.i + 1] \in DOMAIN lits

RECURSIVE VerifyBlock(_, _, _)

(* A block under match: its result has the operation's type, and what it   *)
(* binds is the payload of its constructor.                                *)
VerifyArms(o, env, scope, payloads) ==
  \A i \in DOMAIN o.op.bls :
    /\ [j \in DOMAIN o.op.bls[i].ps |-> o.op.bls[i].ps[j].ty] = payloads[i]
    /\ VerifyBlock(o.op.bls[i], env, scope)
    /\ TypeEquivalent(o.op.bls[i].ty, o.ty)

VerifyMatch(o, env, scope) ==
  LET t == env.types[o.op.vs[1]]
      payload(v) == CASE v = "None" -> <<>> [] v = "Err" -> <<t.a[2]>> [] OTHER -> <<t.a[1]>>
  IN IF o.op.k = "matchlist"
     THEN t.k = "List" /\ VerifyArms(o, env, scope, <<<<>>, <<t.a[1], t>>>>)
     ELSE /\ t.k = (IF o.op.x = "option" THEN "Option" ELSE "Result")
          /\ Len(o.op.xs) = 2 /\ Range(o.op.xs) = Constructors(o.op.x)
          /\ VerifyArms(o, env, scope, [i \in DOMAIN o.op.xs |-> payload(o.op.xs[i])])

VerifyCall(o, env) ==
  LET t == env.types[o.op.vs[1]]
  IN /\ t.k = "Fun" /\ Len(t.a) = Len(o.op.vs)
     /\ \A i \in 2..Len(o.op.vs) : TypeEquivalent(env.types[o.op.vs[i]], t.a[i - 1])
     /\ TypeEquivalent(o.ty, Last(t.a))
     /\ t.d \subseteq o.d
     /\ LiteralResources(o.op, env.lits, env.builtins)
     /\ t.q \cup DirectRequirements(o.op, env.lits, env.builtins) \subseteq o.q

(* One operation: its operands are available, its type is what its kind    *)
(* makes, its effects are those of what it runs.                           *)
VerifyOperation(o, env, scope) ==
  LET op == o.op
      types == env.types
      ty(i) == types[op.vs[i]]
      all(t) == \A i \in DOMAIN op.vs : TypeEquivalent(ty(i), t)
      literal == CASE op.lit.k = "int" -> IntT [] op.lit.k = "bool" -> BoolT
                   [] op.lit.k = "str" -> StringT
      operand == IF op.x = "!" THEN BoolT ELSE IntT
  IN /\ Range(op.vs) \subseteq scope.av
     /\ CASE op.k = "literal" -> o.ty = literal
          [] op.k = "unit" -> o.ty = UnitT
          [] op.k = "builtin" -> VerifyBuiltinType(op.x, o.ty)
          [] op.k = "variant" -> VerifyVariant(op, o.ty, types)
          [] op.k = "list" -> o.ty.k = "List" /\ all(o.ty.a[1])
                              /\ \A i \in DOMAIN op.vs : ~ContainsSecret(ty(i))
          [] op.k = "record" -> VerifyRecord(o, types)
          [] op.k = "field" -> /\ op.x \in DOMAIN RecordFields(ty(1))
                               /\ TypeEquivalent(o.ty, RecordFields(ty(1))[op.x])
          [] op.k = "block" -> VerifyBlock(op.bls[1], env, scope)
                               /\ TypeEquivalent(o.ty, op.bls[1].ty)
          [] op.k = "closure" -> VerifyClosure(o, env.mod, scope, types)
          [] op.k = "call" -> VerifyCall(o, env)
          [] op.k = "if" -> all(BoolT) /\ VerifyArms(o, env, scope, <<<<>>, <<>>>>)
          [] op.k \in {"matchlist", "matchvariant"} -> VerifyMatch(o, env, scope)
          [] op.k = "unary" -> all(operand) /\ o.ty = operand
          [] op.k = "binary" -> VerifyBinary(o, types)
          [] op.k = "bind" -> /\ BindingFits(env.mod, [b |-> op.b, ty |-> ty(1)], Declarations)
                              /\ o.ty = UnitT
          [] op.k = "discard" -> o.ty = UnitT
          [] op.k = "exit" -> env.exit # <<>> /\ all(env.exit[1])
     /\ IF op.k \in {"block", "if", "matchlist", "matchvariant"}
        THEN \A i \in DOMAIN op.bls : op.bls[i].d \subseteq o.d /\ op.bls[i].q \subseteq o.q
        ELSE op.k = "call" \/ (o.d = {} /\ o.q = {})

(* A block: its operations in order, each seeing the values and bindings   *)
(* before it; its type and effects are those of its result and operations. *)
(* scope carries the available values and the bindings.                    *)
VerifyBlock(bl, env, scope) ==
  LET parameters == {bl.ps[i].b : i \in DOMAIN bl.ps}
      opened == [av |-> scope.av \cup {bl.ps[i].v : i \in DOMAIN bl.ps},
                 binds |-> [b \in parameters |-> (CHOOSE p \in Range(bl.ps) : p.b = b).v]
                             @@ scope.binds,
                 ok |-> /\ parameters \cap DOMAIN scope.binds = {}
                        /\ Cardinality(parameters) = Len(bl.ps)]
      step(acc, i) ==
        LET o == bl.ops[i]
            bound == o.op.k = "bind"
        IN IF ~acc.ok THEN acc
           ELSE [av |-> acc.av \cup {o.v},
                 binds |-> IF bound THEN (o.op.b :> o.op.vs[1]) @@ acc.binds ELSE acc.binds,
                 ok |-> /\ VerifyOperation(o, env, acc)
                        /\ o.op.k = "exit" => (i = Len(bl.ops) /\ bl.r = o.v)
                        /\ ~(bound /\ o.op.b \in DOMAIN acc.binds)]
      done == FoldLeft(step, opened, [i \in DOMAIN bl.ops |-> i])
  IN /\ done.ok
     /\ bl.r \in done.av
     /\ TypeEquivalent(env.types[bl.r], bl.ty)
     /\ \A i \in DOMAIN bl.ops : bl.ops[i].d \subseteq bl.d /\ bl.ops[i].q \subseteq bl.q

(* A function: its summary covers its body, whose scope starts with its    *)
(* parameters, its captures and itself.  Module initialization never exits.*)
VerifyFunction(i, env) ==
  LET f == env.mod.fns[i]
      start == f.ps \o f.caps \o f.recursive
  IN /\ f.body.d \subseteq f.ty.d /\ f.body.q \subseteq f.ty.q
     /\ TypeEquivalent(f.body.ty, Last(f.ty.a))
     /\ Cardinality({start[j].b : j \in DOMAIN start}) = Len(start)
     /\ VerifyBlock(f.body, [env EXCEPT !.exit = IF i = 1 THEN <<>> ELSE <<Last(f.ty.a)>>],
                    [av |-> {start[j].v : j \in DOMAIN start},
                     binds |-> [b \in {start[j].b : j \in DOMAIN start} |->
                                  (CHOOSE p \in Range(start) : p.b = b).v],
                     ok |-> TRUE])

(* The exact boundary of the exported entrypoint. *)
VerifyEntrypoint(mod) ==
  LET e == mod.exported[1]
      reply == ResultT(StringT, StringT)
      boundary == CASE e.h = "webhook" -> <<Atom("HttpRequest"), Atom("HttpResponse")>>
                    [] e.h = "queue" -> <<Atom("QueueJob"), reply>>
                    [] e.h = "schedule" -> <<Atom("ScheduleEvent"), reply>>
  IN mod.exported = <<>> \/ (e.fn # 1 /\ e.fn \in DOMAIN mod.fns
                             /\ mod.fns[e.fn].ty.a = boundary)

Verify(mod) ==
  LET defs == Definitions(mod)
      operations == UNION {UNION {Range(b.ops) : b \in BlocksOf(f.body)} : f \in Range(mod.fns)}
      builtins == {o \in operations : o.op.k = "builtin"}
      strings == {o \in operations : o.op.k = "literal" /\ o.op.lit.k = "str"}
      env == [mod |-> mod, types |-> ValueTypes(defs), exit |-> <<>>,
              builtins |-> [v \in {o.v : o \in builtins} |->
                              (CHOOSE o \in builtins : o.v = v).op.x],
              lits |-> [v \in {o.v : o \in strings} |->
                          (CHOOSE o \in strings : o.v = v).op.lit.s]]
  IN /\ \A f \in Range(mod.fns) : BlockDepth(f.body) <= MaxCoreBlockDepth
     /\ Cardinality(defs) = mod.values /\ {d.v : d \in defs} = 1..mod.values
     /\ \A f \in Range(mod.fns) : CollectFunction(mod, f)
     /\ mod.fns[1].ps = <<>> /\ mod.fns[1].caps = <<>> /\ Last(mod.fns[1].ty.a) = UnitT
     /\ VerifyEntrypoint(mod)
     /\ \A i \in DOMAIN mod.fns : VerifyFunction(i, env)
=============================================================================

---------------------------- MODULE WasmBackend ----------------------------
(***************************************************************************)
(* The policy-1 code generator (crates/krit-wasm/src/compiler.rs) and the  *)
(* WebAssembly it emits.  A function has one local per Core value of       *)
(* non-zero width; blocks and branches are structured; every call is an    *)
(* indirect call through a table with one slot per Core function and one   *)
(* per print wrapper.  Integers are two's complement of a width the        *)
(* constant MaxInt gives, so that a wrapped result and the check for it    *)
(* are both visible.                                                       *)
(***************************************************************************)
EXTENDS WasmSupport

CONSTANT MaxFrames     \* frames the engine's stack holds

(* scalar_layout: Unit has no width, functions are table slots. *)
ScalarKinds == {"Int", "Bool", "Unit", "Fun"}
HasWidth(t) == t.k \in {"Int", "Bool", "Fun"}

(* Faulty variant: a function has no local for its own value. *)
LocalTypesAnonymous(f, live) ==
  {<<o.v, o.ty>> : o \in KeptOperations(f, live)}
    \cup {<<p.v, p.ty>> : p \in Range(f.ps) \cup UNION {Range(b.ps) : b \in KeptBlocks(f.body, live)}}

(* The values a function can load: encode_function gives a type and a      *)
(* local to its parameters, its own value, and what its blocks define.     *)
LocalTypes(f, live) ==
  LET ops == KeptOperations(f, live)
      ps == Range(f.ps) \cup Range(f.recursive)
              \cup UNION {Range(b.ps) : b \in KeptBlocks(f.body, live)}
  IN {<<o.v, o.ty>> : o \in ops} \cup {<<p.v, p.ty>> : p \in ps}

(* The values an operation's code loads. *)
Loaded(o, min) ==
  CASE o.op.k \in {"unit", "bind", "discard", "literal", "builtin", "closure"} -> {}
    [] o.op.k = "unary" /\ o.op.x = "-" /\ o.op.vs[1] \in min -> {}
    [] OTHER -> Range(o.op.vs) \cup {o.op.bls[i].r : i \in DOMAIN o.op.bls}

(* Whether encode_function succeeds: every value loaded or stored has a    *)
(* scalar type on record, and every operation an encoding.                 *)
EncodesFunction(f, checked) ==
  LET types == LocalTypes(f, checked.live)
      known(v) == \E t \in types : t[1] = v /\ t[2].k \in ScalarKinds
      scalar(t) == t.k \in ScalarKinds
  IN /\ \A i \in DOMAIN f.ty.a : scalar(f.ty.a[i])
     /\ \A t \in types : scalar(t[2])
     /\ known(f.body.r)
     /\ \A o \in KeptOperations(f, checked.live) :
          /\ o.op.k \notin {"variant", "list", "record", "field", "matchlist", "matchvariant"}
          /\ \A v \in Loaded(o, checked.min) : known(v)
          /\ o.op.k = "literal" => \/ o.op.lit.k = "bool"
                                   \/ o.op.lit.k = "int" /\ (o.op.lit.n <= MaxInt
                                                             \/ o.v \in checked.min)
          /\ o.op.k = "builtin" => o.op.x \in OutputBuiltins /\ o.ty.a[1].k \in Scalars

(* encode_core: every live function encodes; an eliminated one is a stub.  *)
Encodes(mod, checked) == \A i \in checked.live : EncodesFunction(mod.fns[i], checked)

(* The state of an execution: t is "ok", "trap", "return" (with the value  *)
(* r), "exhausted", or how the host ended it: "cancelled", "host_calls" or  *)
(* "output"; loc are the locals, which start at zero, out what the host    *)
(* has buffered, one text for each host call that succeeded.               *)
Trap(m) == [m EXCEPT !.t = "trap"]
Store(m, v, n) == [m EXCEPT !.loc = (v :> n) @@ @]
Load(m, v) == IF v \in DOMAIN m.loc THEN m.loc[v] ELSE 0
Truth(b) == IF b THEN 1 ELSE 0

(* The local of a trapped execution is not looked at again.                *)
Computed(m, v, trap, word) == IF trap THEN Trap(m) ELSE Store(m, v, word)

(* encode_binary. *)
RunBinary(o, m) ==
  LET l == Load(m, o.op.vs[1])
      r == Load(m, o.op.vs[2])
      x == o.op.x
  IN CASE x \in IntegerOperators -> Computed(m, o.v, CompiledTraps(MaxInt, x, l, r),
                                                  CompiledWord(MaxInt, x, l, r))
       [] x = "==" -> Store(m, o.v, Truth(l = r))
       [] x = "!=" -> Store(m, o.v, Truth(l # r))
       [] x = "<" -> Store(m, o.v, Truth(l < r))
       [] x = "<=" -> Store(m, o.v, Truth(l <= r))
       [] x = ">" -> Store(m, o.v, Truth(l > r))
       [] x = ">=" -> Store(m, o.v, Truth(l >= r))

RunUnary(o, m, min) ==
  LET n == Load(m, o.op.vs[1])
  IN CASE o.op.x = "!" -> Store(m, o.v, Truth(n = 0))
       [] o.op.vs[1] \in min -> Store(m, o.v, MinOf(MaxInt))
       [] OTHER -> Computed(m, o.v, NegationTraps(MaxInt, n), CompiledNegation(MaxInt, n))

(* The table: slots of functions, then the print wrappers, one for each    *)
(* built-in and type printed.                                              *)
WrapperSlot(x, t) ==
  LET flavors == <<<<"print", "Int">>, <<"print", "Bool">>, <<"print", "Unit">>,
                   <<"println", "Int">>, <<"println", "Bool">>, <<"println", "Unit">>>>
  IN 100 + (CHOOSE i \in DOMAIN flavors : flavors[i] = <<x, t.a[1].k>>)

(* The text of a value, and a newline when asked (write_int, write_bool,   *)
(* write_unit).                                                            *)
RECURSIVE Digits(_)
Digits(n) == IF n < 0 THEN <<45>> \o Digits(-n)
             ELSE IF n < 10 THEN <<48 + n>> ELSE Digits(n \div 10) \o <<48 + (n % 10)>>
Rendered(slot, as) ==
  LET flavor == slot - 100
      text == CASE flavor \in {1, 4} -> Digits(as[1])
                [] flavor \in {2, 5} -> IF as[1] = 1 THEN <<116, 114, 117, 101>>
                                        ELSE <<102, 97, 108, 115, 101>>
                [] OTHER -> <<40, 41>>
  IN IF flavor > 3 THEN text \o <<10>> ELSE text

(* HostState::write: the embedding's cancellation, which is requested once *)
(* host.patience calls have succeeded, then the two limits, then the text  *)
(* is buffered.                                                            *)
Buffered(m) == FoldLeft(LAMBDA n, text : n + Len(text), 0, m.out)
HostWrite(m, text, host) ==
  CASE Len(m.out) >= host.patience -> [m EXCEPT !.t = "cancelled"]
    [] Len(m.out) + 1 > host.host_call_limit -> [m EXCEPT !.t = "host_calls"]
    [] Buffered(m) + Len(text) > host.output_limit -> [m EXCEPT !.t = "output"]
    [] OTHER -> [m EXCEPT !.out = Append(@, text)]

RECURSIVE RunBlock(_, _, _)
RECURSIVE RunFunction(_, _, _)

(* An indirect call: the slot names a function, a wrapper or, for an       *)
(* eliminated function, a stub that traps.                                 *)
RunCall(o, env, m) ==
  LET slot == Load(m, o.op.vs[1])
      as == [i \in 1..(Len(o.op.vs) - 1) |-> Load(m, o.op.vs[i + 1])]
      f == env.mod.fns[slot]
      inner == RunFunction(f, env, [m EXCEPT !.loc = [i \in DOMAIN f.ps |-> as[i]],
                                             !.frames = @ + 1])
      width == HasWidth(o.ty)
  IN CASE slot > 100 -> HostWrite(m, Rendered(slot, as), env.host)
       [] slot \notin env.checked.live -> Trap(m)
       [] m.frames >= MaxFrames -> [m EXCEPT !.t = "exhausted"]
       [] inner.t # "ok" -> [m EXCEPT !.t = inner.t, !.out = inner.out]
       [] OTHER -> Store([m EXCEPT !.out = inner.out], o.v, IF width THEN inner.r ELSE 0)

(* One operation of a block (encode_operation). *)
RunOperation(o, env, m) ==
  LET op == o.op
      taken == IF Load(m, op.vs[1]) # 0 THEN op.bls[1] ELSE op.bls[2]
      \* a nested block, whose result becomes the operation's
      nested(bl) == LET r == RunBlock(bl, env, m)
                    IN IF r.t # "ok" THEN r ELSE Store(r, o.v, Load(r, bl.r))
  IN CASE op.k \in {"unit", "bind", "discard"} -> m
       [] op.k = "literal" -> Store(m, o.v, IF op.lit.k = "bool" THEN Truth(op.lit.b)
                                            ELSE IF o.v \in env.checked.min THEN 0 ELSE op.lit.n)
       [] op.k = "builtin" -> Store(m, o.v, WrapperSlot(op.x, o.ty))
       [] op.k = "closure" -> Store(m, o.v, op.fn)
       [] op.k = "exit" -> [m EXCEPT !.t = "return", !.r = Load(m, op.vs[1])]
       [] op.k = "call" -> RunCall(o, env, m)
       [] op.k = "block" -> nested(op.bls[1])
       [] op.k = "if" -> nested(taken)
       [] op.k = "unary" -> RunUnary(o, m, env.checked.min)
       [] op.k = "binary" -> RunBinary(o, m)

RunBlock(bl, env, m) ==
  FoldLeft(LAMBDA acc, o : IF acc.t = "ok" THEN RunOperation(o, env, acc) ELSE acc,
           m, Kept(bl, env.checked.live))

(* A function, entered with its arguments in order: the value of its body, *)
(* or of the return an exit compiled to.                                   *)
RunFunction(f, env, m) ==
  LET index == CHOOSE i \in DOMAIN env.mod.fns : env.mod.fns[i] = f
      own == [v \in {p.v : p \in Range(f.recursive)} |-> index]
      params == [v \in {f.ps[i].v : i \in DOMAIN f.ps} |->
                   m.loc[CHOOSE i \in DOMAIN f.ps : f.ps[i].v = v]]
      done == RunBlock(f.body, env, [m EXCEPT !.loc = own @@ params])
  IN CASE done.t = "return" -> [done EXCEPT !.t = "ok"]
       [] done.t = "ok" -> [done EXCEPT !.r = Load(done, f.body.r)]
       [] OTHER -> done

(* The exported entry of a module program runs module initialization. *)
RunModule(mod, checked, host) ==
  RunFunction(mod.fns[1], [mod |-> mod, checked |-> checked, host |-> host],
              [t |-> "ok", r |-> 0, loc |-> <<>>, frames |-> 0, out |-> <<>>])
=============================================================================

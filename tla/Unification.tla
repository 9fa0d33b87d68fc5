----------------------------- MODULE Unification -----------------------------
(***************************************************************************)
(* The types of inference and how they are solved (analysis.rs of          *)
(* crates/krit).  Inference is monomorphic: a name has one type, type      *)
(* variables are solved by unification, and a function type carries an     *)
(* effect variable, defined by the effects of the body and the variables   *)
(* it depends on.                                                          *)
(* A node is identified by its path from the root, which stands for its    *)
(* span.  The state st is threaded through; a step on a state whose err is *)
(* set does nothing, as the code returns its first diagnostic.  The arms   *)
(* of a CASE are tried in order, as the code tries its conditions.         *)
(***************************************************************************)
EXTENDS Patterns, TLC

CONSTANTS MaxTypeHeight,     \* MAX_NESTING_DEPTH, for the height of a type
          Origins            \* the literals HttpOrigin::parse_exact accepts

(* Types.  a holds the component types, in order: of a function, its       *)
(* parameters and then its result; ef is its effect variable.              *)
Atom(k) == [k |-> k]
IntT == Atom("Int")
BoolT == Atom("Bool")
StringT == Atom("String")
UnitT == Atom("Unit")
SecretT == Atom("Secret")
TransactionT == Atom("DatabaseTransaction")
ListT(t) == [k |-> "List", a |-> <<t>>]
OptionT(t) == [k |-> "Option", a |-> <<t>>]
ResultT(t, u) == [k |-> "Result", a |-> <<t, u>>]
FunT(ps, r, ef) == [k |-> "Fun", a |-> Append(ps, r), ef |-> ef]
RecordT(fs, open) == [k |-> "Record", fs |-> fs, open |-> open]
VarT(n) == [k |-> "Var", n |-> n]

NominalRecords == {"HttpHeader", "HttpRequest", "HttpResponse", "LogField"}
Deliveries == {"QueueJob", "ScheduleEvent"}

(* The closed record a nominal type stands for. *)
ContractRecord(k) ==
  LET headers == ListT(Atom("HttpHeader"))
  IN RecordT(
      CASE k \in {"HttpHeader", "LogField"} -> [name |-> StringT, value |-> StringT]
        [] k = "HttpRequest" -> [body |-> StringT, headers |-> headers, method |-> StringT,
                                 path |-> StringT, query |-> StringT]
        [] k = "HttpResponse" -> [body |-> StringT, headers |-> headers, status |-> IntT]
        [] k = "QueueJob" -> [attempt |-> IntT, body |-> StringT, id |-> StringT,
                              maxAttempts |-> IntT, queue |-> StringT]
        [] k = "ScheduleEvent" -> [attempt |-> IntT, firedAtMillis |-> IntT, id |-> StringT,
                                   maxAttempts |-> IntT, schedule |-> StringT,
                                   scheduledAtMillis |-> IntT], FALSE)

(* Effects: the effects and the capability requirements that are direct,   *)
(* and the effect variables depended on.                                   *)
Pure == [d |-> {}, q |-> {}, v |-> {}]
Join(f, g) == [d |-> f.d \cup g.d, q |-> f.q \cup g.q, v |-> f.v \cup g.v]

(* The state: fresh type variables, what is solved (a variable aliased to  *)
(* another maps to it), effect definitions, constraints to validate last,  *)
(* references to host built-ins, the constructors a secret may enter, what *)
(* is known of each node, and the first diagnostic.                        *)
StartState == [n |-> 0, sub |-> [v \in {} |-> UnitT], ef |-> <<>>, cons |-> <<>>,
               refs |-> {}, direct |-> {}, allowed |-> {},
               facts |-> [p \in {} |-> UnitT], syms |-> [p \in {} |-> UnitT],
               names |-> [p \in {} |-> <<>>], err |-> ""]

Failed(st) == st.err # ""
Error(st, code) == IF Failed(st) THEN st ELSE [st EXCEPT !.err = code]
Info(st, ty, fx) == [st |-> st, ty |-> ty, fx |-> fx]
Reject(st, code) == Info(Error(st, code), UnitT, Pure)

Fresh(st) == [st EXCEPT !.n = @ + 1]          \* the fresh variable is VarT(st.n)
FreshEffect(st) == [st EXCEPT !.ef = Append(@, Pure)]
Constrain(st, kind, ty, p) ==
  [st EXCEPT !.cons = Append(@, [kind |-> kind, ty |-> ty, at |-> p])]
Record(st, p, r) == [st EXCEPT !.facts = (p :> r) @@ @]

RECURSIVE Root(_, _)
Root(v, st) == IF v \in DOMAIN st.sub /\ st.sub[v].k = "Var" THEN Root(st.sub[v].n, st) ELSE v

(* A type with its outermost variable, if it is one, replaced by what it   *)
(* is solved to.                                                           *)
ResolveHead(t, st) ==
  IF t.k # "Var" THEN t
  ELSE LET v == Root(t.n, st) IN IF v \in DOMAIN st.sub THEN st.sub[v] ELSE VarT(v)

Components(t) == CASE t.k = "Record" -> {t.fs[x] : x \in DOMAIN t.fs}
                   [] t.k \in {"List", "Option", "Result", "Fun"} -> Range(t.a)
                   [] OTHER -> {}

RECURSIVE OccursIn(_, _, _)
OccursIn(v, t, st) ==
  IF t.k = "Var"
  THEN LET w == Root(t.n, st)
       IN w = v \/ (w \in DOMAIN st.sub /\ OccursIn(v, st.sub[w], st))
  ELSE \E c \in Components(t) : OccursIn(v, c, st)

(* Whether a type of one of the kinds ks is reachable in t. *)
RECURSIVE Reaches(_, _, _)
Reaches(ks, t, st) ==
  LET h == ResolveHead(t, st)
  IN h.k \in ks \/ \E c \in Components(h) : Reaches(ks, c, st)

(* Whether t nests more than n type constructors. *)
RECURSIVE Taller(_, _, _)
Taller(t, n, st) ==
  LET h == ResolveHead(t, st)
  IN h.k \in {"List", "Option", "Result", "Fun", "Record"}
     /\ (n = 0 \/ \E c \in Components(h) : Taller(c, n - 1, st))

(* Binding a variable may deepen every type that mentions it; the binding  *)
(* fails when one of them would nest too deeply.                           *)
CheckHeights(st) ==
  IF \E v \in DOMAIN st.sub : Taller(VarT(v), MaxTypeHeight, st) THEN Error(st, "K1005") ELSE st
SetBinding(v, t, st) == CheckHeights([st EXCEPT !.sub = (v :> t) @@ @])
AliasVariable(v, root, st) == CheckHeights([st EXCEPT !.sub = (v :> VarT(root)) @@ @])

LinkEffects(e, f, st) ==
  IF e = f THEN st
  ELSE [st EXCEPT !.ef = [@ EXCEPT ![e].v = @ \cup {f}, ![f].v = @ \cup {e}]]

Unified(st, t) == [st |-> st, ty |-> t]

RECURSIVE Unify(_, _, _)

(* Two roots.  When both are solved, their solutions are detached while    *)
(* they are unified, after the check that neither mentions the other.      *)
UnifyVariables(v, w, st) ==
  LET lo == IF v < w THEN v ELSE w
      hi == IF v < w THEN w ELSE v
      u == Unify(st.sub[v], st.sub[w],
                 [st EXCEPT !.sub = [x \in DOMAIN st.sub \ {v, w} |-> st.sub[x]]])
  IN CASE v = w -> Unified(st, VarT(v))
       [] v \notin DOMAIN st.sub /\ w \notin DOMAIN st.sub ->
            Unified(AliasVariable(hi, lo, st), VarT(lo))
       [] w \notin DOMAIN st.sub ->
            IF OccursIn(w, st.sub[v], st) THEN Unified(Error(st, "K3001"), UnitT)
            ELSE Unified(AliasVariable(w, v, st), VarT(v))
       [] v \notin DOMAIN st.sub ->
            IF OccursIn(v, st.sub[w], st) THEN Unified(Error(st, "K3001"), UnitT)
            ELSE Unified(AliasVariable(v, w, st), VarT(w))
       [] OccursIn(v, st.sub[w], st) \/ OccursIn(w, st.sub[v], st) ->
            Unified(Error(st, "K3001"), UnitT)
       [] Failed(u.st) -> u
       [] OccursIn(v, u.ty, u.st) \/ OccursIn(w, u.ty, u.st) ->
            Unified(Error(u.st, "K3001"), UnitT)
       [] OTHER -> Unified(SetBinding(lo, u.ty, AliasVariable(hi, lo, u.st)), VarT(lo))

(* A root and a type that is no variable; a solved root is solved again to *)
(* the unified type, which may be a wider record.                          *)
BindVariable(v, t, st) ==
  IF v \in DOMAIN st.sub
  THEN LET u == Unify(st.sub[v], t, st)
       IN IF Failed(u.st) THEN u ELSE Unified(SetBinding(v, u.ty, u.st), VarT(v))
  ELSE IF OccursIn(v, t, st) THEN Unified(Error(st, "K3001"), UnitT)
  ELSE Unified(SetBinding(v, t, st), VarT(v))

(* An open record takes the fields of the other; a closed one has its own. *)
UnifyRecords(l, r, st) ==
  LET ls == DOMAIN l.fs
      rs == DOMAIN r.fs
      step(acc, x) ==
        LET u == Unify(l.fs[x], r.fs[x], acc.st)
        IN [st |-> u.st, fs |-> (x :> u.ty) @@ acc.fs]
      both == FoldLeft(step, [st |-> st, fs |-> [x \in {} |-> UnitT]],
                       SetToSeq(ls \cap rs))
      kept == [x \in ls \ rs |-> l.fs[x]] @@ [x \in rs \ ls |-> r.fs[x]]
  IN IF (~l.open /\ ~(rs \subseteq ls)) \/ (~r.open /\ ~(ls \subseteq rs))
     THEN Unified(Error(st, "K3001"), UnitT)
     ELSE Unified(both.st, RecordT(both.fs @@ kept, l.open /\ r.open))

UnifyComponents(l, r, st) ==
  LET step(acc, i) ==
        LET u == Unify(l.a[i], r.a[i], acc.st)
        IN [st |-> u.st, a |-> Append(acc.a, u.ty)]
      all == FoldLeft(step, [st |-> st, a |-> <<>>], [i \in DOMAIN l.a |-> i])
      linked == IF l.k = "Fun" /\ ~Failed(all.st) THEN LinkEffects(l.ef, r.ef, all.st) ELSE all.st
  IN IF Len(l.a) # Len(r.a) THEN Unified(Error(st, "K3001"), UnitT)
     ELSE Unified(linked, [l EXCEPT !.a = all.a])

(* A delivery type unifies with a variable and with nothing else. *)
Unify(l, r, st) ==
  CASE Failed(st) -> Unified(st, UnitT)
    [] l.k = "Var" /\ r.k = "Var" -> UnifyVariables(Root(l.n, st), Root(r.n, st), st)
    [] l.k = "Var" -> BindVariable(Root(l.n, st), r, st)
    [] r.k = "Var" -> BindVariable(Root(r.n, st), l, st)
    [] l.k \in NominalRecords /\ r.k = "Record" ->
         [Unify(ContractRecord(l.k), r, st) EXCEPT !.ty = l]
    [] l.k = "Record" /\ r.k \in NominalRecords ->
         [Unify(l, ContractRecord(r.k), st) EXCEPT !.ty = r]
    [] l.k # r.k \/ l.k \in Deliveries -> Unified(Error(st, "K3001"), UnitT)
    [] l.k = "Record" -> UnifyRecords(l, r, st)
    [] l.k \in {"List", "Option", "Result", "Fun"} -> UnifyComponents(l, r, st)
    [] OTHER -> Unified(st, l)

(* The type of field x of a value of type t, and t with that field: an     *)
(* unknown type becomes an open record, an open record is widened.         *)
RECURSIVE RequireField(_, _, _, _)
RequireField(t, x, code, st) ==
  LET v == Root(t.n, st)
      inner == RequireField(st.sub[v], x, code, st)
      fields == IF t.k = "Record" THEN t.fs ELSE ContractRecord(t.k).fs
      open == [st |-> Fresh(st), ty |-> VarT(st.n),
               wide |-> RecordT((x :> VarT(st.n)) @@ fields, TRUE)]
  IN CASE Failed(st) -> [st |-> st, ty |-> UnitT, wide |-> t]
       [] t.k = "Var" /\ v \in DOMAIN st.sub ->
            IF Failed(inner.st) THEN inner
            ELSE [st |-> SetBinding(v, inner.wide, inner.st), ty |-> inner.ty, wide |-> VarT(v)]
       [] t.k = "Var" ->
            [st |-> SetBinding(v, RecordT(x :> VarT(st.n), TRUE), Fresh(st)),
             ty |-> VarT(st.n), wide |-> VarT(v)]
       [] t.k \notin {"Record"} \cup NominalRecords \cup Deliveries ->
            [st |-> Error(st, code), ty |-> UnitT, wide |-> t]
       [] x \in DOMAIN fields -> [st |-> st, ty |-> fields[x], wide |-> t]
       [] t.k = "Record" /\ t.open -> open
       [] OTHER -> [st |-> Error(st, code), ty |-> UnitT, wide |-> t]
=============================================================================

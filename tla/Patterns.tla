------------------------------ MODULE Patterns ------------------------------
(***************************************************************************)
(* The arms of a match (crates/krit/src/patterns.rs).  A pattern is a path *)
(* of constructors; a match is accepted when its paths are disjoint, stay  *)
(* in one family at every position and leave no outcome out.  The arms of  *)
(* a CASE are tried in order, as the code tries its conditions.            *)
(***************************************************************************)
EXTENDS Syntax, FiniteSets, SequencesExt

(* The two constructors of each family of patterns. *)
Constructors(family) ==
  CASE family = "option" -> {"Some", "None"}
    [] family = "result" -> {"Ok", "Err"}
    [] family = "list" -> {"empty", "cons"}
ConstructorFamily(c) == IF c \in {"empty", "cons"} THEN "list" ELSE Family(c)

(* The path of constructors a pattern names, outermost first; "bad" ends   *)
(* the path of a pattern that binds what its constructor does not carry.   *)
RECURSIVE PatternPath(_)
PatternPath(p) ==
  CASE CatchAll(p) -> <<>>
    [] p.k = "empty" -> <<"empty">>
    [] p.k = "cons" -> IF CatchAll(p.h) /\ CatchAll(p.t) THEN <<"cons">> ELSE <<"bad">>
    [] (p.v = "None") # (Len(p.ps) = 0) -> <<p.v, "bad">>
    [] Len(p.ps) = 0 -> <<p.v>>
    [] OTHER -> <<p.v>> \o PatternPath(p.ps[1])

WellFormed(path) == \A i \in DOMAIN path : path[i] # "bad"

(* Faulty variant: only the outermost constructors are looked at.          *)
MissingOutermost(paths) ==
  {c \in UNION {Constructors(ConstructorFamily(p[1])) : p \in {q \in paths : q # <<>>}} :
     ~\E p \in paths : p = <<>> \/ p[1] = c}

(* The outcomes a set of paths leaves out: at every proper prefix of a     *)
(* path, the constructors of its family that continue no path.             *)
Missing(paths) ==
  LET prefixes == UNION {{SubSeq(p, 1, i - 1) : i \in DOMAIN p} : p \in paths}
      families(pre) == {ConstructorFamily(p[Len(pre) + 1]) :
                          p \in {q \in paths : Len(q) > Len(pre) /\ IsPrefix(pre, q)}}
  IN UNION {{Append(pre, c) : c \in {c \in UNION {Constructors(f) : f \in families(pre)} :
               ~\E p \in paths : IsPrefix(Append(pre, c), p)}} : pre \in prefixes}

(* Whether a later arm may follow an earlier one: neither path is a prefix *)
(* of the other and where they part, they part within one family.          *)
ArmsCompatible(earlier, later) ==
  /\ ~IsPrefix(earlier, later) /\ ~IsPrefix(later, earlier)
  /\ \A i \in DOMAIN later :
       (i \in DOMAIN earlier /\ SubSeq(earlier, 1, i - 1) = SubSeq(later, 1, i - 1))
         => ConstructorFamily(earlier[i]) = ConstructorFamily(later[i])

(* The check of the arms against each other: "" or the diagnostic.  A      *)
(* catch-all arm is refused once the others are known to fit.              *)
CheckArms(pats) ==
  LET named == SelectSeq(pats, LAMBDA p : ~CatchAll(p))
      paths == [i \in DOMAIN named |-> PatternPath(named[i])]
      fits(i) == WellFormed(paths[i]) /\ \A j \in 1..(i - 1) : ArmsCompatible(paths[j], paths[i])
  IN CASE \E i \in DOMAIN paths : ~fits(i) -> "K1003"
       [] Len(named) < Len(pats) -> "K3005"
       [] OTHER -> ""

CheckExhaustive(pats) ==
  IF Missing({PatternPath(pats[i]) : i \in DOMAIN pats}) = {} THEN "" ELSE "K3005"
=============================================================================

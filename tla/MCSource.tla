------------------------------ MODULE MCSource ------------------------------
(***************************************************************************)
(* How a program is written: the tokens of a syntax tree, with parentheses *)
(* only where the grammar of spec/LANGUAGE.md needs them. It is what the   *)
(* parser is checked against, and with comments and trailing commas put in *)
(* it is the input of the formatter.                                       *)
(***************************************************************************)
EXTENDS Syntax, SequencesExt

Wide == {"int_to_string", "state_get", "http_request", "ai_invoke", "long", "longer"}
KindWidth(k) ==
  CASE k \in {"==", "!=", "<=", ">=", "&&", "||", "..", "=>", "->", "fn", "if"} -> 2
    [] k = "let" -> 3 [] k \in {"else", "true"} -> 4 [] k \in {"match", "false"} -> 5
    [] k = "record" -> 6 [] k = "webhook" -> 7 [] OTHER -> 1
Tok(k) == [k |-> k, w |-> KindWidth(k), gap |-> "space", pre |-> <<>>]
Toks(ks) == [m \in DOMAIN ks |-> Tok(ks[m])]
Word(y) == <<[k |-> "id", x |-> y, w |-> IF y \in Wide THEN 9 ELSE 1, gap |-> "space",
              pre |-> <<>>]>>
Number(n) == <<[k |-> "int", n |-> n, w |-> 1, gap |-> "space", pre |-> <<>>]>>
Quoted(s) == <<[k |-> "str", s |-> s, w |-> Len(s) + 2, gap |-> "space", pre |-> <<>>]>>
Template(parts, block) ==
  <<[k |-> "tmpl", parts |-> parts, w |-> IF block THEN 3 ELSE 8, block |-> block,
     gap |-> "space", pre |-> <<>>]>>

(* Items between commas; last says whether one follows the last item. *)
Commas(items, last) ==
  FlattenSeq([m \in DOMAIN items |->
                IF m < Len(items) \/ last THEN items[m] \o <<Tok(",")>> ELSE items[m]])

RECURSIVE TypeTokens(_)
TypeTokens(t) ==
  CASE t.k \in {"List", "Option"} -> Word(t.k) \o <<Tok("<")>> \o TypeTokens(t.a[1]) \o <<Tok(">")>>
    [] t.k = "Result" -> Word(t.k) \o <<Tok("<")>> \o TypeTokens(t.a[1]) \o <<Tok(",")>>
                           \o TypeTokens(t.a[2]) \o <<Tok(">")>>
    [] OTHER -> Word(t.k)
Annotated(before, ann) == IF ann = <<>> THEN <<>> ELSE <<Tok(before)>> \o TypeTokens(ann[1])

BinaryLevel(op) ==
  CASE op = "||" -> 1 [] op = "&&" -> 2 [] op \in {"==", "!="} -> 3
    [] op \in {"<", "<=", ">", ">="} -> 4 [] op \in {"+", "-"} -> 5 [] OTHER -> 6
LevelOfNode(e) ==
  CASE e.k = "binary" -> BinaryLevel(e.op) [] e.k = "unary" -> 7 [] OTHER -> 8

RECURSIVE PatternTokens(_)
PatternTokens(p) ==
  CASE p.k = "binder" -> Word(p.x) [] p.k = "wild" -> Word("_")
    [] p.k = "empty" -> Toks(<<"[", "]">>)
    [] p.k = "cons" -> <<Tok("[")>> \o Word(BinderName(p.h)) \o Toks(<<",", "..">>)
                         \o Word(BinderName(p.t)) \o <<Tok("]")>>
    [] p.ps = <<>> -> Word(p.v)
    [] OTHER -> Word(p.v) \o <<Tok("(")>> \o PatternTokens(p.ps[1]) \o <<Tok(")")>>

VariantTokens(v, y) ==
  IF v = "None" THEN Word(v) ELSE Word(v) \o <<Tok("(")>> \o Word(y) \o <<Tok(")")>>

(* c: write trailing commas, and parentheses around every operand that has *)
(* an operator; a construction's x: x is never punned here.                *)
RECURSIVE Exp(_, _, _), Blk(_, _), Stm(_, _)
Fields(xs, es, c) ==
  Commas([m \in DOMAIN xs |-> Word(xs[m]) \o <<Tok(":")>> \o Exp(es[m], 1, c)], c)
ParamTokens(ps, c) ==
  <<Tok("(")>> \o Commas([m \in DOMAIN ps |-> Word(ps[m].x) \o Annotated(":", ps[m].ann)],
                         c /\ ps # <<>>) \o <<Tok(")")>>
Bracketed(o, body, c) == <<Tok(o)>> \o body \o <<Tok(c)>>
EndsInBrace(e) == e.k \in {"if", "match", "fn", "block", "record", "construct"}
RECURSIVE HasConstruct(_)
HasConstruct(e) ==
  CASE e.k = "construct" -> TRUE
    [] e.k \in {"unary", "field", "question", "call"} -> HasConstruct(e.e)
    [] e.k = "binary" -> HasConstruct(e.e) \/ HasConstruct(e.alt)
    [] OTHER -> FALSE
HeadOf(e, c) == IF HasConstruct(e) THEN Bracketed("(", Exp(e, 1, c), ")") ELSE Exp(e, 1, c)

Node(e, c) ==
  CASE e.k = "int" -> Number(e.n) [] e.k = "bool" -> <<Tok(IF e.b THEN "true" ELSE "false")>>
    [] e.k = "str" -> Quoted(e.s) [] e.k = "unit" -> Toks(<<"(", ")">>)
    [] e.k = "var" -> Word(e.x)
    [] e.k = "interp" ->
         Template([m \in DOMAIN e.es |-> IF e.es[m].k = "str" THEN e.es[m]
                                         ELSE [k |-> "hole", path |-> <<e.es[m].x>>]], c)
    [] e.k = "list" ->
         Bracketed("[", Commas([m \in DOMAIN e.es |-> Exp(e.es[m], 1, c)], c /\ e.es # <<>>), "]")
    [] e.k = "entries" ->
         Bracketed("[", Commas([m \in 1..(Len(e.es) \div 2) |->
                                  Exp(e.es[2 * m - 1], 1, c) \o <<Tok(":")>>
                                    \o Exp(e.es[2 * m], 1, c)], c), "]")
    [] e.k = "record" -> <<Tok("record")>> \o Bracketed("{", Fields(e.xs, e.es, c), "}")
    [] e.k = "construct" -> Word(e.c) \o Bracketed("{", Fields(e.xs, e.es, c), "}")
    [] e.k = "field" -> Exp(e.e, 8, c) \o <<Tok(".")>> \o Word(e.x)
    [] e.k = "question" -> Exp(e.e, 8, c) \o <<Tok("?")>>
    [] e.k = "call" ->
         Exp(e.e, 8, c)
           \o Bracketed("(", Commas([m \in DOMAIN e.es |-> Exp(e.es[m], 1, c)],
                                    c /\ e.es # <<>>), ")")
    [] e.k = "block" -> Blk(e.bl, c)
    [] e.k = "if" -> <<Tok("if")>> \o HeadOf(e.e, c) \o Blk(e.bl, c) \o <<Tok("else")>>
                       \o Exp(e.alt, 8, c)
    [] e.k = "fn" -> <<Tok("fn")>> \o ParamTokens(e.ps, c) \o Annotated("->", e.ann)
                       \o Blk(e.bl, c)
    [] e.k = "match" ->
         <<Tok("match")>> \o HeadOf(e.e, c)
           \o Bracketed("{", Commas([m \in DOMAIN e.es |-> PatternTokens(e.pats[m])
                                       \o <<Tok("=>")>> \o Exp(e.es[m], 1, c)], c), "}")
    [] e.k = "unary" -> <<Tok(e.op)>> \o Exp(e.e, 7, c)
    [] e.k = "binary" -> Exp(e.e, BinaryLevel(e.op), c) \o <<Tok(e.op)>>
                           \o Exp(e.alt, BinaryLevel(e.op) + 1, c)
Exp(e, level, c) ==
  IF LevelOfNode(e) < level \/ (c /\ level > 1 /\ e.k = "binary") THEN Bracketed("(", Node(e, c), ")") ELSE Node(e, c)

Blk(bl, c) ==
  Bracketed("{", FlattenSeq([m \in DOMAIN bl.ss |-> Stm(bl.ss[m], c)])
                   \o FlattenSeq([m \in DOMAIN bl.tail |-> Exp(bl.tail[m], 1, c)]), "}")

Stm(s, c) ==
  CASE s.k = "let" -> <<Tok("let")>> \o Word(s.x) \o Annotated(":", s.ann) \o <<Tok("=")>>
                        \o Exp(s.e, 1, c) \o <<Tok(";")>>
    [] s.k = "letelse" ->
         <<Tok("let")>> \o VariantTokens(s.v, s.x) \o Annotated(":", s.ann) \o <<Tok("=")>>
           \o (IF EndsInBrace(s.e) THEN Bracketed("(", Exp(s.e, 1, c), ")") ELSE Exp(s.e, 1, c))
           \o <<Tok("else")>> \o VariantTokens(s.w, s.y) \o <<Tok("=>")>> \o Exp(s.alt, 1, c)
           \o <<Tok(";")>>
    [] s.k = "fndef" -> <<Tok("fn")>> \o Word(s.x) \o ParamTokens(s.ps, c)
                          \o Annotated("->", s.ann) \o Blk(s.bl, c)
    [] s.k = "handler" ->
         (IF s.h = "webhook" THEN <<Tok("webhook")>> ELSE Word(s.h) \o Quoted(s.s))
           \o <<Tok("fn")>> \o Word(s.x) \o ParamTokens(s.ps, c) \o Annotated("->", s.ann)
           \o Blk(s.bl, c)
    [] s.k = "do" -> Exp(s.e, 1, c) \o <<Tok(";")>>

TokensOf(ss, c) == FlattenSeq([m \in DOMAIN ss |-> Stm(ss[m], c)]) \o <<Tok("eof")>>

(* A comment before token i, at the end of the line before or on its own. *)
Comment(name, doc, inline) == [c |-> name, doc |-> doc, inline |-> inline]
Commented(ts, i, comments) == [ts EXCEPT ![i].pre = comments, ![i].gap = "line"]
=============================================================================

------------------------------- MODULE Parser -------------------------------
(***************************************************************************)
(* The recursive-descent parser (crates/krit/src/parser.rs) over the       *)
(* tokens of one file.  A token is a record: k its kind (an operator or a  *)
(* keyword is its own kind; otherwise id, int, str, tmpl or eof), w its    *)
(* width, gap what separates it from the token before (touch, space or     *)
(* line) and pre the comments between the two.                             *)
(* The state p is the parser's: the cursor i, the nesting depth d, the     *)
(* else-if links c, the peak structural depth, whether a construction is   *)
(* allowed, the speculations open, the type tokens seen and the code of    *)
(* the first diagnostic; v is the last value parsed.  A step on a failed   *)
(* state does nothing, as the code returns its first diagnostic.           *)
(* Every node carries the tokens it spans, from and to.                    *)
(***************************************************************************)
EXTENDS Syntax, TLC, FiniteSets, SequencesExt

CONSTANTS MaxNestingDepth,       \* MAX_NESTING_DEPTH
          MaxStructuralDepth     \* MAX_STRUCTURAL_DEPTH

Start == [i |-> 1, d |-> 0, c |-> 0, peak |-> 0, cons |-> TRUE, spec |-> 0,
          types |-> {}, commas |-> {}, code |-> "", v |-> <<>>]
Failed(p) == p.code # ""
Fail(p, code) == IF Failed(p) THEN p ELSE [p EXCEPT !.code = code]

(* Tokens: the current kind, the kind at a position, one consumed. *)
At(ts, p, k) == ~Failed(p) /\ ts[p.i].k = k
KindAt(ts, i) == IF i \in DOMAIN ts THEN ts[i].k ELSE "none"
IsWord(ts, i, x) == KindAt(ts, i) = "id" /\ ts[i].x = x
Advance(ts, p) == IF Failed(p) \/ ts[p.i].k = "eof" THEN p ELSE [p EXCEPT !.i = @ + 1]
Expect(ts, p, k) == IF At(ts, p, k) THEN Advance(ts, p) ELSE Fail(p, "K1002")
Span(n, from, to) == [from |-> from, to |-> to] @@ n
Give(p, n, from, to) == IF Failed(p) THEN p ELSE [p EXCEPT !.v = Span(n, from, to)]

(* Depth limits.  A structural level is a nesting level or an else-if link. *)
Larger(m, n) == IF m > n THEN m ELSE n
Level(p) == p.d + p.c
Reach(p, depth) ==
  IF depth > MaxStructuralDepth THEN Fail(p, "K1005")
  ELSE IF Failed(p) THEN p ELSE [p EXCEPT !.peak = Larger(@, depth)]
Enter(p) ==
  LET q == IF Failed(p) THEN p ELSE [p EXCEPT !.d = @ + 1]
  IN IF q.d > MaxNestingDepth THEN Fail(q, "K1005") ELSE Reach(q, Level(q))
EnterChainLink(p) == LET q == [p EXCEPT !.c = @ + 1] IN Reach(q, Level(q))
Leave(q, p) == [q EXCEPT !.d = p.d, !.cons = p.cons]

RECURSIVE EnterLevels(_, _)
EnterLevels(p, n) == IF n = 0 THEN p ELSE EnterLevels(Enter(p), n - 1)

(* What may start an operand, and what may only start one. *)
StartsOperandOnly == {"id", "int", "str", "tmpl", "true", "false", "record", "if", "match",
                      "fn", "!"}
StartsExpression == StartsOperandOnly \cup {"(", "[", "{", "-"}
Openers == {"(", "[", "{"}
Closers == {")", "]", "}"}

SameLine(ts, i) == ts[i].gap # "line" /\ ts[i].pre = <<>>
FollowsAsOperand(ts, i) ==
  /\ i \in DOMAIN ts /\ SameLine(ts, i)
  /\ ts[i].k \in StartsOperandOnly \/ (ts[i].k = "[" /\ ts[i].gap # "touch")

(* Words that are keywords of other languages, with the code each reports. *)
HabitOf(x) ==
  CASE x = "return" -> "K1101"
    [] x \in {"for", "while", "loop", "do"} -> "K1102"
    [] x \in {"mut", "var", "const"} -> "K1103"
    [] x \in {"struct", "class", "impl", "trait", "interface"} -> "K1104"
    [] x \in {"import", "use", "require", "from"} -> "K1105"
    [] x \in {"async", "await"} -> "K1106"
    [] x \in {"try", "catch", "throw", "raise", "except", "finally"} -> "K1107"
    [] x \in {"switch", "case", "default"} -> "K1111"
    [] OTHER -> ""

(* The parenthesis that closes the one at open, or 0.                      *)
MatchingParen(ts, open, stops) ==
  LET count(k, j) == Cardinality({m \in open..j : ts[m].k = k})
      closed == {j \in open..Len(ts) : ts[j].k = ")" /\ count("(", j) = count(")", j)}
      close == CHOOSE j \in closed : \A m \in closed : j <= m
  IN IF closed = {} THEN 0
     ELSE IF \E m \in open..close : ts[m].k \in stops THEN 0 ELSE close

ArrowAfterGroup(ts, open) ==
  LET close == MatchingParen(ts, open, {";"})
  IN close # 0 /\ KindAt(ts, close + 1) = "=>"

(* A habit word in expression position, at i; one that starts a statement. *)
WordHabit(ts, i) ==
  IF \/ FollowsAsOperand(ts, i + 1)
     \/ KindAt(ts, i + 1) = "(" /\ ArrowAfterGroup(ts, i + 1)
  THEN HabitOf(ts[i].x) ELSE ""
StatementHabit(ts, i) ==
  LET close == MatchingParen(ts, i + 1, {"{", "}"})
  IN IF /\ ts[i].k = "id"
        /\ \/ KindAt(ts, i + 1) \in {"{", ":"}
           \/ KindAt(ts, i + 1) = "(" /\ close # 0 /\ KindAt(ts, close + 1) = "{"
     THEN HabitOf(ts[i].x) ELSE ""
ElseReturn(ts, p) ==
  LET word == IF At(ts, p, "{") THEN p.i + 1 ELSE p.i
  IN IF ~Failed(p) /\ IsWord(ts, word, "return") /\ FollowsAsOperand(ts, word + 1)
     THEN Fail(p, "K1112") ELSE p
AssignmentAfter(ts, p) == IF At(ts, p, "=") THEN Fail(p, "K1103") ELSE p

(* x += 1, x++ and x-- leave an operand missing at token i. *)
MutationOperator(ts, i) ==
  \/ /\ i > 1 /\ ts[i].gap = "touch"
     /\ \/ ts[i].k = "=" /\ ts[i - 1].k \in {"+", "-", "*", "/", "%"}
        \/ ts[i].k = "+" /\ ts[i - 1].k = "+"
  \/ /\ i > 2 /\ ts[i].k # "=" /\ ts[i - 1].k = "-" /\ ts[i - 2].k = "-"
     /\ ts[i - 1].gap = "touch"

(* The questions for which a later colon would end the first branch of a   *)
(* conditional operator, found in one pass over the bracket levels.        *)
TernaryColons(ts) ==
  LET level(list) == [questions |-> {}, list |-> list, key |-> list]
      step(s, i) ==
        LET k == ts[i].k
            n == Len(s.levels)
            top == s.levels[n]
            put(l) == [s EXCEPT !.levels[n] = l]
            forgotten == put([top EXCEPT !.questions = {}])
        IN CASE k = "?" -> put([top EXCEPT !.questions = @ \cup {i}])
             [] k \in Openers -> [s EXCEPT !.levels = Append(@, level(k = "["))]
             [] k \in Closers -> IF n > 1 THEN [s EXCEPT !.levels = Front(@)] ELSE forgotten
             [] k = ":" ->
                  [put([top EXCEPT !.questions = {}, !.key = FALSE]) EXCEPT !.found =
                     @ \cup (IF ~top.key /\ \E q \in top.questions :
                                              KindAt(ts, q + 1) \in StartsExpression
                             THEN top.questions ELSE {})]
             [] k = "," -> put([top EXCEPT !.questions = {}, !.key = top.list])
             [] k \in {";", "let"} -> forgotten
             [] OTHER -> s
  IN FoldLeft(step, [found |-> {}, levels |-> <<level(FALSE)>>], [i \in DOMAIN ts |-> i]).found

(* The doc comment of the item at token i: the /// lines directly before.  *)
DocComment(ts, i) ==
  LET pre == ts[i].pre
      attached == {j \in DOMAIN pre : \A m \in j..Len(pre) : pre[m].doc /\ ~pre[m].inline}
  IN [m \in 1..Cardinality(attached) |-> pre[Len(pre) - Cardinality(attached) + m].c]

-----------------------------------------------------------------------------

(* Names. *)
Identifier(ts, p) ==
  IF At(ts, p, "id") THEN Advance(ts, [p EXCEPT !.v = ts[p.i].x]) ELSE Fail(p, "K1002")
ReservedNames == {"print", "println", "ai_invoke", "Some", "None", "Ok", "Err", "json_encode",
                  "json_decode", "config_string", "http_request", "log_info", "log_error",
                  "secret"}
BindingName(ts, p) ==
  LET q == Identifier(ts, p)
  IN IF Failed(q) THEN q
     ELSE IF q.v = "mut" /\ At(ts, q, "id") THEN Fail(q, "K1103")
     ELSE IF q.v \in ReservedNames THEN Fail(q, "K2002") ELSE q

(* Faulty variant: sums and products bind alike.                           *)
LevelsMerged ==
  <<{"||"}, {"&&"}, {"==", "!="}, {"<", "<=", ">", ">="}, {"+", "-", "*", "/", "%"}>>

(* Levels of binary operators, loosest first; all associate to the left.   *)
Levels == <<{"||"}, {"&&"}, {"==", "!="}, {"<", "<=", ">", ">="}, {"+", "-"}, {"*", "/", "%"}>>

PlainTypes == {"Int", "Bool", "String", "Unit", "HttpHeader", "HttpRequest", "HttpResponse",
               "LogField", "QueueJob", "ScheduleEvent", "DatabaseTransaction", "Secret"}
Variants == {"Some", "None", "Ok", "Err"}
ContractRecords == {"HttpRequest", "HttpResponse", "HttpHeader", "LogField"}

RECURSIVE Type(_, _), Items(_, _, _, _, _), Chain(_, _, _), UnaryExpression(_, _),
          PostfixLinks(_, _, _, _), BlockStatements(_, _, _), IfLink(_, _), Pattern(_, _)

Expression(ts, p) == Chain(ts, p, 1)

(* A type; the tokens of every type are remembered, and the comma between  *)
(* the two types of a Result.                                              *)
Type(ts, p) ==
  LET x == IF At(ts, p, "id") THEN ts[p.i].x ELSE ""
      q == Advance(ts, p)
      less == Expect(ts, q, "<")
      first == Type(ts, Enter(less))
      comma == Expect(ts, first, ",")
      second == Type(ts, comma)
      open == Expect(ts, q, "{")
      fields == Items(ts, Enter(open), "typefield", "}", <<>>)
      ended(r, t) ==
        IF Failed(r) THEN r
        ELSE [Leave(r, p) EXCEPT !.v = t, !.types = @ \cup (p.i..(r.i - 1))]
      ofFields(r) == [k |-> "Record", open |-> FALSE,
                      fs |-> [y \in {r.v[m].x : m \in DOMAIN r.v} |->
                                (CHOOSE m \in DOMAIN r.v : r.v[m].x = y)]]
  IN CASE Failed(p) -> p
       [] x \in PlainTypes -> ended(q, [k |-> x])
       [] x \in {"List", "Option"} ->
            ended(Expect(ts, first, ">"), [k |-> x, a |-> <<first.v>>])
       [] x = "Result" ->
            LET r == Expect(ts, second, ">")
            IN IF Failed(r) THEN r
               ELSE ended([r EXCEPT !.commas = @ \cup {first.i}],
                          [k |-> x, a |-> <<first.v, second.v>>])
       [] x = "Record" ->
            LET r == Expect(ts, fields, "}")
            IN IF Failed(r) THEN r
               ELSE ended(r, [ofFields(r) EXCEPT !.fs = [y \in DOMAIN @ |-> r.v[@[y]].t]])
       [] OTHER -> Fail(p, "K1002")

OptionalType(ts, p, before) ==
  IF At(ts, p, before)
  THEN LET q == Type(ts, Advance(ts, p)) IN IF Failed(q) THEN q ELSE [q EXCEPT !.v = <<@>>]
  ELSE IF Failed(p) THEN p ELSE [p EXCEPT !.v = <<>>]

(* One item of a comma-separated group, given the items before it. *)
Parameter(ts, p, before) ==
  LET name == BindingName(ts, p)
      ann == OptionalType(ts, name, ":")
  IN IF Failed(name) THEN name
     ELSE IF name.v # "_" /\ \E m \in DOMAIN before : before[m].x = name.v
     THEN Fail(name, "K2002")
     ELSE IF Failed(ann) THEN ann ELSE [ann EXCEPT !.v = Param(name.v, ann.v)]

Element(ts, p, before) ==
  LET key == Expression(ts, p)
      value == Expression(ts, Advance(ts, key))
  IN CASE Failed(key) -> key
       [] At(ts, key, ":") ->
            IF before # <<>> /\ Len(before[1]) = 1 THEN Fail(key, "K1001")
            ELSE IF Failed(value) THEN value ELSE [value EXCEPT !.v = <<key.v, value.v>>]
       [] OTHER -> IF before # <<>> /\ Len(before[1]) = 2 THEN Fail(key, "K1001")
                   ELSE [key EXCEPT !.v = <<key.v>>]

RecordField(ts, p, before) ==
  LET name == Identifier(ts, p)
      value == Expression(ts, Expect(ts, name, ":"))
  IN IF Failed(name) THEN name
     ELSE IF \E m \in DOMAIN before : before[m].x = name.v THEN Fail(name, "K2002")
     ELSE IF Failed(value) THEN value ELSE [value EXCEPT !.v = [x |-> name.v, e |-> value.v]]

TypeField(ts, p, before) ==
  LET name == Identifier(ts, p)
      type == Type(ts, Expect(ts, name, ":"))
  IN IF Failed(name) THEN name
     ELSE IF \E m \in DOMAIN before : before[m].x = name.v THEN Fail(name, "K2002")
     ELSE IF Failed(type) THEN type ELSE [type EXCEPT !.v = [x |-> name.v, t |-> type.v]]

ConstructionField(ts, p) ==
  LET name == Identifier(ts, p)
      value == IF At(ts, name, ":") THEN Expression(ts, Advance(ts, name))
               ELSE IF At(ts, name, ",") \/ At(ts, name, "}")
               THEN Give(name, Var(name.v), p.i, p.i)
               ELSE Fail(name, "K1002")
  IN IF Failed(value) THEN value
     ELSE [value EXCEPT !.v = [x |-> name.v, at |-> p.i, e |-> value.v]]

RECURSIVE ConstructorDepth(_)
ConstructorDepth(pat) ==
  IF CatchAll(pat) THEN 0
  ELSE 1 + (IF pat.k = "variant" /\ pat.ps # <<>> THEN ConstructorDepth(pat.ps[1]) ELSE 0)

(* An arm's value nests one level per pattern nested in its pattern.       *)
Arm(ts, p) ==
  LET pat == Pattern(ts, p)
      arrow == Expect(ts, pat, "=>")
      deep == ConstructorDepth(pat.v)
      value == Expression(ts, EnterLevels(arrow, IF deep = 0 THEN 0 ELSE deep - 1))
  IN CASE At(ts, p, "eof") -> Fail(p, "K1002")
       [] Failed(arrow) -> arrow
       [] Failed(value) -> value
       [] OTHER -> [Leave(value, p) EXCEPT !.v = [p |-> pat.v, e |-> value.v]]

Item(ts, p, kind, before) ==
  CASE kind = "argument" -> Expression(ts, p)
    [] kind = "parameter" -> Parameter(ts, p, before)
    [] kind = "element" -> Element(ts, p, before)
    [] kind = "field" -> RecordField(ts, p, before)
    [] kind = "typefield" -> TypeField(ts, p, before)
    [] kind = "construction" -> ConstructionField(ts, p)
    [] kind = "arm" -> Arm(ts, p)

(* The items up to, but not including, the closing token; the last may be  *)
(* followed by a comma.                                                    *)
Items(ts, p, kind, close, before) ==
  IF Failed(p) THEN p
  ELSE IF At(ts, p, close) THEN [p EXCEPT !.v = before]
  ELSE LET q == Item(ts, p, kind, before)
       IN IF Failed(q) THEN q
          ELSE IF At(ts, q, ",")
          THEN Items(ts, Advance(ts, q), kind, close, Append(before, q.v))
          ELSE [q EXCEPT !.v = Append(before, q.v)]

(* A group of items with its closing token, one level deeper. *)
Group(ts, p, kind, close) ==
  LET q == Expect(ts, Items(ts, [Enter(p) EXCEPT !.cons = TRUE], kind, close, <<>>), close)
  IN IF Failed(q) THEN q ELSE Leave(q, p)

Parameters(ts, p) == Expect(ts, Items(ts, Expect(ts, p, "("), "parameter", ")", <<>>), ")")

-----------------------------------------------------------------------------

(* Operands joined by binary operators no looser than the level given; the *)
(* right operand of one stops at the next that binds as loosely.  The tree *)
(* nests to the left, so the chain measures each operand and checks the    *)
(* depth of the tree it builds.  All levels of one chain start at the same *)
(* depth, so one loop does for the six of the code.                        *)
LevelOf(k) == IF \E l \in DOMAIN Levels : k \in Levels[l]
              THEN CHOOSE l \in DOMAIN Levels : k \in Levels[l] ELSE 0

RECURSIVE ChainLinks(_, _, _, _, _)
ChainLinks(ts, p, level, base, height) ==
  LET own == LevelOf(ts[p.i].k)
      right == Chain(ts, [Advance(ts, p) EXCEPT !.peak = base], own + 1)
      higher == 1 + Larger(height, right.peak - base)
      joined == Give(Reach(right, base + higher), Binary(ts[p.i].k, p.v, right.v),
                     p.v.from, right.v.to)
  IN CASE Failed(p) -> p
       [] own = 0 \/ own < level -> p
       [] Failed(right) -> right
       [] OTHER -> ChainLinks(ts, joined, level, base, higher)

Chain(ts, p, level) ==
  LET base == Level(p)
      first == UnaryExpression(ts, [p EXCEPT !.peak = base])
      q == ChainLinks(ts, first, level, base, first.peak - base)
  IN IF Failed(p) THEN p
     ELSE IF Failed(first) THEN first ELSE [q EXCEPT !.peak = Larger(@, p.peak)]

(* Why the ? just consumed is not the postfix operator, or nothing. *)
TernaryAfter(ts, p) ==
  LET branch == Expression(ts, Enter([p EXCEPT !.spec = @ + 1]))
  IN CASE ~Failed(branch) -> (IF At(ts, branch, ":") THEN "K1110" ELSE "")
       [] branch.code \in {"K1005", "K1110"} -> branch.code
       [] OTHER -> (IF p.spec = 0 /\ (p.i - 1) \in TernaryColons(ts) THEN "K1110" ELSE "")
QuestionMisuse(ts, p) ==
  LET next == ts[p.i].k
      ternary == TernaryAfter(ts, p)
  IN CASE next \notin StartsExpression -> ""
       [] next \notin StartsOperandOnly ->
            (IF (p.i - 1) \in TernaryColons(ts) THEN "K1110" ELSE "")
       [] ternary # "" -> ternary
       [] OTHER -> (IF SameLine(ts, p.i) THEN "K1001" ELSE "")

(* Calls, field accesses and postfix ?: each link opens a level for the    *)
(* rest of the chain.                                                      *)
PostfixLinks(ts, p, base, height) ==
  LET q == Advance(ts, p)
      from == p.v.from
      inside == Enter(q)
      args == Items(ts, [inside EXCEPT !.cons = TRUE, !.peak = Level(inside)],
                    "argument", ")", <<>>)
      higher == 1 + Larger(height, args.peak - Level(inside))
      called == [Reach([args EXCEPT !.peak = Larger(@, inside.peak)], base + higher)
                   EXCEPT !.cons = p.cons]
      closed == Expect(ts, called, ")")
      link == Reach(inside, base + height + 1)
      named == Identifier(ts, link)
  IN CASE Failed(p) -> p
       [] At(ts, p, "(") ->
            PostfixLinks(ts, Give(closed, Call(p.v, closed.v) @@ [open |-> p.i], from, called.i),
                         base, higher)
       [] At(ts, p, ".") ->
            PostfixLinks(ts, Give(named, Field(p.v, named.v), from, q.i), base, height + 1)
       [] At(ts, p, "[") /\ ts[p.i].gap = "touch" -> Fail(p, "K1108")
       [] At(ts, p, "?") ->
            LET misuse == QuestionMisuse(ts, q)
            IN IF misuse # "" THEN Fail(q, misuse)
               ELSE PostfixLinks(ts, Give(link, Question(p.v), from, p.i), base, height + 1)
       [] OTHER -> p

Block1(ts, p) ==
  LET open == Expect(ts, p, "{")
      body == BlockStatements(ts, [Enter(open) EXCEPT !.cons = TRUE], <<>>)
  IN IF Failed(body) THEN body
     ELSE Give(Leave(body, p), body.v, p.i, body.i - 1)

(* Codes that explain the construct they report: a depth limit and the     *)
(* habits of other languages.                                              *)
Settled == {"K1005", "K1101", "K1102", "K1103", "K1104", "K1105", "K1106", "K1107", "K1108",
            "K1109", "K1110", "K1111", "K1112"}

(* Parenthesised expressions leave no node, but their span. *)
Parenthesized(ts, p) ==
  LET open == p.i - 1
      q == Expression(ts, [Enter(p) EXCEPT !.cons = TRUE])
      closed(r, n) == IF At(ts, r, "=>") THEN Fail(r, "K1109") ELSE Give(r, n, open, r.i - 1)
  IN CASE Failed(p) -> p
       [] At(ts, p, ")") -> closed(Advance(ts, p), UnitE)
       [] At(ts, q, ")") -> closed(Advance(ts, Leave(q, p)), q.v)
       [] q.code \in Settled -> q
       [] ArrowAfterGroup(ts, open) -> [p EXCEPT !.code = "K1109"]
       [] OTHER -> Fail(q, "K1002")

RECURSIVE Hole(_, _, _, _)
Hole(p, path, n, e) ==
  IF n > Len(path) \/ Failed(p) THEN [p EXCEPT !.v = e]
  ELSE LET q == Enter(p)
       IN Hole(Reach(q, Level(q)), path, n + 1, Field(e, path[n]))
Interpolation(p, token) ==
  LET q == Enter(p)
      holes == [m \in DOMAIN token.parts |->
                  IF token.parts[m].k = "hole"
                  THEN Hole(q, token.parts[m].path, 2, Var(token.parts[m].path[1]))
                  ELSE [q EXCEPT !.v = StrE(token.parts[m].s)]]
      bad == {m \in DOMAIN holes : Failed(holes[m])}
      peak == FoldLeft(LAMBDA n, h : Larger(n, h.peak), q.peak, holes)
  IN IF Failed(q) THEN q
     ELSE IF bad # {} THEN holes[CHOOSE m \in bad : \A j \in bad : m <= j]
     ELSE [p EXCEPT !.peak = peak, !.v = Interp([m \in DOMAIN holes |-> holes[m].v])]

ListLiteral(ts, p) ==
  LET q == Group(ts, p, "element", "]")
      entries == ~Failed(q) /\ q.v # <<>> /\ Len(q.v[1]) = 2
  IN IF At(ts, p, ":") /\ KindAt(ts, p.i + 1) = "]" THEN Fail(Enter(p), "K1001")
     ELSE IF Failed(q) THEN q
     ELSE Give(q, IF entries THEN Entries(FlattenSeq(q.v)) ELSE ListE(FlattenSeq(q.v)),
               p.i - 1, q.i - 1)

RecordLiteral(ts, p) ==
  LET q == Expect(ts, Items(ts, Expect(ts, [Enter(p) EXCEPT !.cons = TRUE], "{"),
                            "field", "}", <<>>), "}")
  IN IF Failed(q) THEN q
     ELSE Give(Leave(q, p), RecordE([m \in DOMAIN q.v |-> q.v[m].x], [m \in DOMAIN q.v |-> q.v[m].e]),
               p.i - 1, q.i - 1)

Construction(ts, p, contract) ==
  LET q == Group(ts, Expect(ts, p, "{"), "construction", "}")
  IN IF Failed(q) THEN q
     ELSE Give(q, Construct(contract, [m \in DOMAIN q.v |-> q.v[m].x],
                            [m \in DOMAIN q.v |-> q.v[m].e])
                    @@ [at |-> [m \in DOMAIN q.v |-> q.v[m].at]], p.i - 1, q.i - 1)

(* A construction written directly as a condition or a subject. *)
RestrictedConstruction(ts, p) ==
  KindAt(ts, p.i + 1) = "id" /\ KindAt(ts, p.i + 2) \in {":", ","}

(* An if and its whole else-if chain, after the if; links stay at the      *)
(* nesting level of the first.                                             *)
IfLink(ts, p) ==
  LET condition == Expression(ts, [Enter(p) EXCEPT !.cons = FALSE])
      consequent == Block1(ts, Leave(condition, p))
      else == ElseReturn(ts, Expect(ts, consequent, "else"))
      linked == IfLink(ts, EnterChainLink(Advance(ts, else)))
      block == Block1(ts, else)
      alternative == IF Failed(block) THEN block
                     ELSE Give(block, BlockE(block.v), block.v.from, block.v.to)
      joined(r) == IF Failed(r) THEN r
                   ELSE Give(r, If(condition.v, consequent.v, r.v), p.i - 1, r.v.to)
  IN CASE Failed(p) -> p
       [] Failed(condition) -> condition
       [] Failed(else) -> else
       [] At(ts, else, "if") -> joined(linked)
       [] At(ts, else, "{") -> joined(alternative)
       [] OTHER -> Fail(else, "K1002")

FunctionTail(ts, p) ==
  LET ps == Parameters(ts, p)
      ann == OptionalType(ts, ps, "->")
      body == Block1(ts, ann)
  IN IF Failed(body) THEN body ELSE [body EXCEPT !.v = <<ps.v, ann.v, body.v>>]

FunctionExpression(ts, p) ==
  LET q == FunctionTail(ts, p)
  IN IF Failed(q) THEN q ELSE Give(q, Fn(q.v[1], q.v[2], q.v[3]), p.i - 1, q.i - 1)

MatchExpression(ts, p) ==
  LET subject == Expression(ts, [Enter(p) EXCEPT !.cons = FALSE])
      arms == Group(ts, Expect(ts, Leave(subject, p), "{"), "arm", "}")
  IN IF Failed(subject) THEN subject ELSE IF Failed(arms) THEN arms
     ELSE IF arms.v = <<>> THEN Fail(arms, "K1003")
     ELSE Give(arms, Match(subject.v, [m \in DOMAIN arms.v |-> arms.v[m].p],
                           [m \in DOMAIN arms.v |-> arms.v[m].e]), p.i - 1, arms.i - 1)

Name(ts, p) ==        \* p is past the identifier
  LET x == ts[p.i - 1].x
  IN CASE At(ts, p, "=>") -> Fail(p, "K1109")
       [] WordHabit(ts, p.i - 1) # "" -> Fail(p, WordHabit(ts, p.i - 1))
       [] x \in ContractRecords /\ At(ts, p, "{") /\ p.cons -> Construction(ts, p, x)
       [] x \in ContractRecords /\ At(ts, p, "{") /\ RestrictedConstruction(ts, p) ->
            Fail(p, "K1001")
       [] OTHER -> Give(p, Var(x), p.i - 1, p.i - 1)

Primary(ts, p) ==
  LET token == ts[p.i]
      q == Advance(ts, p)
      block == Block1(ts, p)
  IN CASE Failed(p) -> p
       [] token.k = "int" -> Give(q, IntE(token.n), p.i, p.i)
       [] token.k = "str" -> Give(q, StrE(token.s), p.i, p.i)
       [] token.k = "tmpl" ->
            LET r == Interpolation(q, token) IN IF Failed(r) THEN r ELSE Give(r, r.v, p.i, p.i)
       [] token.k \in {"true", "false"} -> Give(q, BoolE(token.k = "true"), p.i, p.i)
       [] token.k = "id" -> Name(ts, q)
       [] token.k = "(" -> Parenthesized(ts, q)
       [] token.k = "[" -> ListLiteral(ts, q)
       [] token.k = "record" -> RecordLiteral(ts, q)
       [] token.k = "{" -> IF Failed(block) THEN block
                           ELSE Give(block, BlockE(block.v), block.v.from, block.v.to)
       [] token.k = "if" ->
            LET r == IfLink(ts, q) IN IF Failed(r) THEN r ELSE [r EXCEPT !.c = p.c]
       [] token.k = "match" -> MatchExpression(ts, q)
       [] token.k = "fn" -> FunctionExpression(ts, q)
       [] OTHER -> Fail(p, IF MutationOperator(ts, p.i) THEN "K1103" ELSE "K1001")

UnaryExpression(ts, p) ==
  LET q == UnaryExpression(ts, Enter(Advance(ts, p)))
      base == Level(p)
      first == Primary(ts, [p EXCEPT !.peak = base])
      links == PostfixLinks(ts, first, base, first.peak - base)
  IN CASE Failed(p) -> p
       [] At(ts, p, "!") \/ At(ts, p, "-") ->
            IF Failed(q) THEN q ELSE Give(Leave(q, p), Unary(ts[p.i].k, q.v), p.i, q.v.to)
       [] OTHER -> IF Failed(links) THEN links
                   ELSE [links EXCEPT !.d = p.d, !.peak = Larger(@, p.peak)]

-----------------------------------------------------------------------------

(* Patterns of a match. *)
PatternPart(ts, p) ==
  IF At(ts, p, "id") /\ ts[p.i].x = "_" THEN Give(Advance(ts, p), Wildcard, p.i, p.i)
  ELSE IF At(ts, p, "id") /\ ts[p.i].x \notin Variants
  THEN LET q == BindingName(ts, p) IN IF Failed(q) THEN q ELSE Give(q, Binder(q.v), p.i, p.i)
  ELSE Fail(p, "K1003")

ListPattern(ts, p) ==
  LET q == Advance(ts, p)
      head == PatternPart(ts, q)
      tail == PatternPart(ts, Advance(ts, Advance(ts, head)))
  IN CASE At(ts, q, "]") -> Give(Advance(ts, q), EmptyP, p.i, q.i)
       [] Failed(head) -> head
       [] ~(At(ts, head, ",") /\ KindAt(ts, head.i + 1) = "..") -> Fail(head, "K1003")
       [] Failed(tail) -> tail
       [] head.v.k = "binder" /\ tail.v.k = "binder" /\ head.v.x = tail.v.x -> Fail(tail, "K2002")
       [] ~At(ts, tail, "]") -> Fail(tail, "K1003")
       [] OTHER -> Give(Advance(ts, tail), ConsP(head.v, tail.v), p.i, tail.i)

Pattern(ts, p) ==
  LET x == IF At(ts, p, "id") THEN ts[p.i].x ELSE ""
      q == Advance(ts, p)
      payload == Pattern(ts, Enter(Advance(ts, q)))
      closed == Expect(ts, payload, ")")
  IN CASE Failed(p) -> p
       [] At(ts, p, "[") -> ListPattern(ts, p)
       [] ~At(ts, p, "id") -> Fail(p, "K1003")
       [] x = "None" -> IF At(ts, q, "(") THEN Fail(q, "K1003")
                        ELSE Give(q, VariantP(x, <<>>), p.i, p.i)
       [] x \in Variants ->
            IF ~At(ts, q, "(") THEN Fail(q, "K1003")
            ELSE IF Failed(closed) THEN closed
            ELSE Give(Leave(closed, p), VariantP(x, <<payload.v>>), p.i, payload.i)
       [] x # "_" /\ KindAt(ts, q.i) = "(" -> Fail(p, "K1003")
       [] OTHER -> PatternPart(ts, p)

(* The pattern of a let-else: a variant and the name it binds. *)
AtVariantPattern(ts, p) ==
  /\ At(ts, p, "id")
  /\ \/ ts[p.i].x = "None"
     \/ ts[p.i].x \in Variants /\ KindAt(ts, p.i + 1) = "("
VariantPattern(ts, p) ==
  LET x == IF At(ts, p, "id") THEN ts[p.i].x ELSE ""
      q == Advance(ts, p)
      inside == Advance(ts, q)
      name == BindingName(ts, inside)
      closed == Expect(ts, name, ")")
  IN CASE Failed(p) -> p
       [] x \notin Variants -> Fail(p, "K1003")
       [] x = "None" -> IF At(ts, q, "(") THEN Fail(q, "K1003") ELSE [q EXCEPT !.v = <<x, "">>]
       [] ~At(ts, q, "(") -> Fail(q, "K1003")
       [] AtVariantPattern(ts, inside) \/ At(ts, inside, "[") -> Fail(inside, "K3014")
       [] OTHER -> IF Failed(closed) THEN closed ELSE [closed EXCEPT !.v = <<x, name.v>>]

-----------------------------------------------------------------------------

(* Statements. *)
LetElseStatement(ts, p, start) ==
  LET pat == VariantPattern(ts, p)
      ann == OptionalType(ts, pat, ":")
      value == AssignmentAfter(ts, Expression(ts, Expect(ts, ann, "=")))
      else == ElseReturn(ts, Advance(ts, value))
      other == VariantPattern(ts, Enter(else))
      arm == Expression(ts, Expect(ts, other, "=>"))
      end == Expect(ts, Leave(arm, p), ";")
  IN CASE Failed(value) -> value
       [] ~At(ts, value, "else") -> Fail(value, "K1002")
       [] ts[value.i - 1].k = "}" -> Fail(value, "K3014")
       [] Failed(else) -> else
       [] At(ts, else, "{") -> Fail(else, "K1003")
       [] Failed(arm) -> arm
       [] Failed(end) -> end
       [] OTHER ->
            Give(end, LetElse(pat.v[1], pat.v[2], ann.v, value.v, other.v[1], other.v[2], arm.v)
                        @@ [else |-> value.i, pattern |-> <<p.i, pat.i - 1>>], start, arm.i)

LetDeclaration(ts, p) ==
  LET q == Advance(ts, p)
      name == BindingName(ts, q)
      ann == OptionalType(ts, name, ":")
      value == AssignmentAfter(ts, Expression(ts, Expect(ts, ann, "=")))
      end == Expect(ts, value, ";")
  IN IF AtVariantPattern(ts, q) THEN LetElseStatement(ts, q, p.i)
     ELSE IF Failed(end) THEN end
     ELSE Give(end, Let(name.v, ann.v, value.v), p.i, value.i)

FunctionDeclaration(ts, p) ==
  LET name == BindingName(ts, Advance(ts, p))
      tail == FunctionTail(ts, name)
  IN IF Failed(tail) THEN tail
     ELSE Give(tail, FnDef(name.v, tail.v[1], tail.v[2], tail.v[3])
                       @@ [doc |-> DocComment(ts, p.i)], p.i, tail.i - 1)

(* queue and schedule introduce a handler only before a name and fn. *)
EntrypointKeyword(ts, i) ==
  /\ IsWord(ts, i, "queue") \/ IsWord(ts, i, "schedule")
  /\ KindAt(ts, i + 1) \in {"str", "tmpl"} /\ KindAt(ts, i + 2) = "fn"
NestedEntrypointKeyword(ts, i) == ts[i].k = "webhook" \/ EntrypointKeyword(ts, i)

Entrypoint(ts, p) ==
  LET webhook == ts[p.i].k = "webhook"
      named == IF webhook THEN Advance(ts, p)
               ELSE IF KindAt(ts, p.i + 1) = "str" THEN Advance(ts, Advance(ts, p))
               ELSE Fail(p, "K1002")
      name == BindingName(ts, Expect(ts, named, "fn"))
      tail == FunctionTail(ts, name)
  IN IF Failed(tail) THEN tail
     ELSE Give(tail, Handler(IF webhook THEN "webhook" ELSE ts[p.i].x,
                             IF webhook THEN "" ELSE ts[p.i + 1].s, name.v,
                             tail.v[1], tail.v[2], tail.v[3])
                       @@ [doc |-> DocComment(ts, p.i)], p.i, tail.i - 1)

AtDeclaration(ts, p) == At(ts, p, "let") \/ (At(ts, p, "fn") /\ KindAt(ts, p.i + 1) = "id")

ExpressionHere(ts, p) ==
  IF StatementHabit(ts, p.i) # "" THEN Fail(p, StatementHabit(ts, p.i))
  ELSE AssignmentAfter(ts, Expression(ts, p))

Statement(ts, p) ==
  LET q == ExpressionHere(ts, p)
      end == Expect(ts, q, ";")
  IN CASE NestedEntrypointKeyword(ts, p.i) -> Fail(p, "K1004")
       [] At(ts, p, "let") -> LetDeclaration(ts, p)
       [] AtDeclaration(ts, p) -> FunctionDeclaration(ts, p)
       [] OTHER -> IF Failed(end) THEN end ELSE Give(end, Do(q.v), p.i, q.i)

(* The statements of a block and its tail, through the closing brace. *)
BlockStatements(ts, p, before) ==
  LET declared == Statement(ts, p)
      q == ExpressionHere(ts, p)
      closed(r, tail) == [Expect(ts, r, "}") EXCEPT !.v = Block(before, tail)]
  IN CASE Failed(p) -> p
       [] At(ts, p, "}") -> closed(p, <<>>)
       [] At(ts, p, "eof") -> Fail(p, "K1002")
       [] NestedEntrypointKeyword(ts, p.i) -> Fail(p, "K1004")
       [] AtDeclaration(ts, p) ->
            IF Failed(declared) THEN declared
            ELSE BlockStatements(ts, declared, Append(before, declared.v))
       [] Failed(q) -> q
       [] At(ts, q, ";") ->
            BlockStatements(ts, Advance(ts, q), Append(before, Span(Do(q.v), p.i, q.i)))
       [] At(ts, q, "}") -> closed(q, <<q.v>>)
       [] OTHER -> Fail(q, "K1002")

RECURSIVE ProgramStatements(_, _, _)
ProgramStatements(ts, p, before) ==
  LET q == IF NestedEntrypointKeyword(ts, p.i) THEN Entrypoint(ts, p) ELSE Statement(ts, p)
      second == q.v.k = "handler" /\ \E m \in DOMAIN before : before[m].k = "handler"
  IN CASE At(ts, p, "eof") -> [p EXCEPT !.v = before]
       [] Failed(q) -> q
       [] second -> Fail(q, "K2002")
       [] OTHER -> ProgramStatements(ts, q, Append(before, q.v))

(* What parse returns: the diagnostic, the statements, and the tokens of   *)
(* types with the commas between the two types of a Result.                *)
Parse(ts) ==
  LET p == ProgramStatements(ts, Start, <<>>)
  IN [code |-> p.code, program |-> IF Failed(p) THEN <<>> ELSE p.v,
      types |-> p.types, commas |-> p.commas]

(* A program without the tokens its nodes span. *)
RECURSIVE Bare(_)
Bare(n) ==
  [x \in DOMAIN n \ {"from", "to", "open", "at", "else", "pattern", "doc"} |->
     CASE x \in {"e", "alt", "bl", "h", "t"} /\ ~(n.k = "handler" /\ x = "h") -> Bare(n[x])
       [] x \in {"es", "ss", "tail", "pats"} \/ (x = "ps" /\ n.k = "variant") ->
            [m \in DOMAIN n[x] |-> Bare(n[x][m])]
       [] OTHER -> n[x]]
BareProgram(ss) == [m \in DOMAIN ss |-> Bare(ss[m])]
=============================================================================

----------------------------- MODULE Formatter -----------------------------
(***************************************************************************)
(* The formatter (crates/krit/src/formatter.rs): one pass over the tokens  *)
(* of a file that parses, which decides where lines break, drops and adds  *)
(* trailing commas, writes a construction's field x: x as x, and keeps     *)
(* every comment.  What it writes is a sequence of tokens again, each with *)
(* the gap and the comments before it and the line breaks and column it    *)
(* starts at; the text of a token is as wide as its w says.                *)
(* x is what is known of the input before the pass, f the pass's state.    *)
(***************************************************************************)
EXTENDS Parser, FiniteSetsExt

CONSTANT LineWidth            \* FORMAT_LINE_WIDTH

Indentation == 4

-----------------------------------------------------------------------------

(* Facts of the syntax tree (SyntaxCollector). *)
Children(n) ==
  UNION {CASE x \in {"e", "alt", "bl"} -> {n[x]}
           [] x \in {"es", "ss", "tail"} -> {n[x][m] : m \in DOMAIN n[x]}
           [] OTHER -> {} : x \in DOMAIN n}

(* The chain that ends with a binary operation: its spine of operations of *)
(* one level that are not in parentheses.                                  *)
RECURSIVE Spine(_, _)
Spine(n, root) ==
  IF /\ n.k = "binary" /\ LevelOf(n.op) = LevelOf(root.op)
     /\ n = root \/ n.from = n.e.from
  THEN LET rest == Spine(n.e, root)
       IN [rest EXCEPT !.ops = Append(@, n.e.to + 1), !.operands = @ \cup {n.alt}]
  ELSE [first |-> n.from, ops |-> <<>>, operands |-> {n}]

RECURSIVE PatternGroups(_)
PatternGroups(pat) ==
  CASE CatchAll(pat) -> {}
    [] pat.k = "variant" -> (IF pat.ps = <<>> THEN {}
                             ELSE {<<pat.from + 1, pat.to>>} \cup PatternGroups(pat.ps[1]))
    [] OTHER -> {<<pat.from, pat.to>>}

NoFacts == [blocks |-> {}, calls |-> {}, patterns |-> {}, arms |-> {}, puns |-> {},
            chains |-> {}, breaks |-> {}]
Merge(g, h) == [x \in DOMAIN NoFacts |-> g[x] \cup h[x]]

NodeFacts(n) ==
  LET here == DOMAIN n
      k == IF "ss" \in here THEN "body" ELSE n.k
      own == {m \in DOMAIN n.es : /\ n.es[m].k = "var" /\ n.es[m].x = n.xs[m]
                                  /\ n.es[m].from = n.es[m].to /\ n.es[m].from # n.at[m]}
      chain == Spine(n, n)
  IN CASE k = "body" -> [NoFacts EXCEPT !.blocks = {<<n.from, n.to>>},
                                        !.breaks = {<<n.ss[m].to, 1>> : m \in DOMAIN n.ss}]
       [] k = "letelse" ->
            [NoFacts EXCEPT !.arms = {<<n.else, n.to>>},
                            !.patterns = IF n.x = "" THEN {}
                                         ELSE {<<n.pattern[1] + 1, n.pattern[2]>>}]
       [] k = "call" -> [NoFacts EXCEPT !.calls = {<<n.open, n.to>>}]
       [] k = "match" ->
            [NoFacts EXCEPT !.patterns = UNION {PatternGroups(n.pats[m]) : m \in DOMAIN n.pats}]
       [] k = "construct" -> [NoFacts EXCEPT !.puns = {<<n.at[m], n.es[m].from>> : m \in own}]
       [] k = "binary" ->
            [NoFacts EXCEPT !.chains = {[first |-> chain.first, last |-> n.alt.to,
                                         ops |-> chain.ops]}]
       [] OTHER -> NoFacts

RECURSIVE Facts(_)
Facts(n) ==
  LET below == IF "k" \in DOMAIN n /\ n.k = "binary" THEN Spine(n, n).operands ELSE Children(n)
  IN FoldSet(LAMBDA c, acc : Merge(acc, Facts(c)), NodeFacts(n), below)

(* Blank lines separate declarations, and lets from expressions. *)
TopLevelBreak(s, t) ==
  IF /\ {s.k, t.k} \cap {"fndef", "handler"} = {}
     /\ {s.k, t.k} \subseteq {"let", "letelse"} \/ {s.k, t.k} = {"do"}
  THEN 1 ELSE 2

ProgramFacts(ss) ==
  LET top == {<<ss[m].to, IF m = Len(ss) THEN 1 ELSE TopLevelBreak(ss[m], ss[m + 1])>> :
                m \in DOMAIN ss}
  IN FoldSet(LAMBDA s, acc : Merge(acc, Facts(s)), [NoFacts EXCEPT !.breaks = top], Range(ss))

-----------------------------------------------------------------------------

(* Delimited groups (build_groups). *)
Pairs(ts) ==
  LET nest == [i \in DOMAIN ts |-> Cardinality({j \in 1..i : ts[j].k \in Openers})
                                    - Cardinality({j \in 1..(i - 1) : ts[j].k \in Closers})]
      closes(o) == {c \in (o + 1)..Len(ts) : ts[c].k \in Closers /\ nest[c] = nest[o]}
  IN {<<o, Min(closes(o))>> : o \in {i \in DOMAIN ts : ts[i].k \in Openers}}

(* Faulty variant: the comma that one line would drop counts for its width.*)
FlatWidthWritten(ts, i, through, unrendered) ==
  MapThenSumSet(LAMBDA j : ts[j].w + 1, i..through)

RECURSIVE FlatWidth(_, _, _, _)
FlatWidth(ts, i, through, unrendered) ==
  IF i > through THEN 0
  ELSE (IF i \in unrendered THEN 0 ELSE ts[i].w + 1) + FlatWidth(ts, i + 1, through, unrendered)

(* A comment stands between tokens i and j. *)
CommentBetween(ts, i, j) == \E m \in (i + 1)..j : ts[m].pre # <<>>

TopLevelArrow(ts, o, c) ==
  \E m \in (o + 1)..(c - 1) :
    /\ ts[m].k = "=>"
    /\ Cardinality({j \in (o + 1)..m : ts[j].k \in Openers})
         = Cardinality({j \in (o + 1)..m : ts[j].k \in Closers})

ClassifyGroup(ts, facts, o, c) ==
  LET isPattern == KindAt(ts, c + 1) = "=>" \/ <<o, c>> \in facts.patterns
      isParameters == \/ KindAt(ts, o - 1) = "fn"
                      \/ KindAt(ts, o - 2) = "fn" /\ KindAt(ts, o - 1) = "id"
  IN CASE ts[o].k = "{" -> (IF <<o, c>> \in facts.blocks THEN "block"
                            ELSE IF TopLevelArrow(ts, o, c) THEN "match" ELSE "braced")
       [] isPattern -> "pattern"
       [] ts[o].k = "[" -> "list"
       [] isParameters -> "parameters"
       [] <<o, c>> \in facts.calls -> "call"
       [] OTHER -> "grouping"

(* Faulty variant: parentheses that group take a trailing comma too. *)
AllowsTrailingCommaGrouped(kind) == kind # "block"
AllowsTrailingComma(kind) == kind \in {"match", "braced", "list", "parameters", "call"}

(* The colon and the value of a field written punned; a comment between    *)
(* keeps the field as it is.                                               *)
PunnedTokens(ts, puns) ==
  UNION {IF CommentBetween(ts, q[1], q[2]) \/ ts[q[2] - 1].k # ":" THEN {}
         ELSE {q[2] - 1, q[2]} : q \in puns}

BuildGroups(ts, facts, omitted) ==
  LET pairs == Pairs(ts)
      closeOf == [o \in {q[1] : q \in pairs} |-> (CHOOSE q \in pairs : q[1] = o)[2]]
      kind == [o \in DOMAIN closeOf |-> ClassifyGroup(ts, facts, o, closeOf[o])]
      trailing == {closeOf[o] - 1 : o \in {m \in DOMAIN kind : AllowsTrailingComma(kind[m])
                                                     /\ ts[closeOf[m] - 1].k = ","}}
      flat(o) == FlatWidth(ts, o, closeOf[o], omitted \cup trailing)
      content(o) == closeOf[o] > o + 1 \/ CommentBetween(ts, o, closeOf[o])
  IN [o \in DOMAIN closeOf |->
        [close |-> closeOf[o], kind |-> kind[o], content |-> content(o), flat |-> flat(o),
         forced |-> content(o) /\ (CommentBetween(ts, o, closeOf[o])
                                     \/ kind[o] \in {"block", "match"})]]

Context(ts, parsed) ==
  LET facts == ProgramFacts(parsed.program)
      omitted == PunnedTokens(ts, facts.puns)
      groups == BuildGroups(ts, facts, omitted)
      ends == {groups[o].close : o \in DOMAIN groups}
  IN [ts |-> ts, types |-> parsed.types, commas |-> parsed.commas, chains |-> facts.chains,
      breaks |-> facts.breaks, arms |-> facts.arms, omitted |-> omitted, groups |-> groups,
      opener |-> [c \in ends |-> CHOOSE o \in DOMAIN groups : groups[o].close = c]]

-----------------------------------------------------------------------------

(* Spacing of two tokens on one line; open is TRUE when the group that the *)
(* brace belongs to is written over several lines.                         *)
Words == {"id", "int", "str", "tmpl", "let", "fn", "webhook", "if", "else", "match", "record",
          "true", "false"}
Operators == {"=", "==", "!", "!=", "<", "<=", ">", ">=", "+", "-", "*", "/", "%", "&&", "||",
              "=>", "->"}
EndsExpression == {"id", "int", "str", "tmpl", "true", "false", ")", "]", "}", "?"}

IsUnary(ts, i) == \/ ts[i].k = "!"
                  \/ ts[i].k = "-" /\ KindAt(ts, i - 1) \notin EndsExpression

NeedsSpace(x, i, j, multiline) ==
  LET ts == x.ts
      a == ts[i].k
      b == ts[j].k
      generic(m) == m \in x.types /\ ts[m].k \in {"<", ">"}
      padded(o) == ~multiline /\ x.groups[o].kind = "braced"
  IN CASE b \in {")", "]", ",", ";", ".", ":", "?"} \/ a \in {".", ".."} -> FALSE
       [] generic(j) \/ (generic(i) /\ a = "<") -> FALSE
       [] b = "}" -> padded(x.opener[j]) /\ a # "{"
       [] a \in {"(", "["} -> FALSE
       [] a = "{" -> padded(i)
       [] a \in {",", ":"} -> TRUE
       [] b = "(" -> /\ x.groups[j].kind = "grouping"
                     /\ a \in Words \/ (a \in Operators /\ ~IsUnary(ts, i))
       [] b = "[" -> a \in {"if", "match"} \cup Operators
       [] b = "{" -> TRUE
       [] b \in Operators /\ IsUnary(ts, j) -> a \notin Operators \/ ~IsUnary(ts, i)
       [] b \in Operators -> TRUE
       [] a \in Operators -> ~IsUnary(ts, i)
       [] OTHER -> a \in Words \cup {")", "]", "}", "?"} /\ b \in Words

-----------------------------------------------------------------------------

(* The writer. *)
StartOfFile == [out |-> <<>>, pre |-> <<>>, told |-> 0, nl |-> 0, col |-> 0, indent |-> 0,
                lineStart |-> TRUE, lineIndent |-> 0, pending |-> 0, prev |-> 0,
                active |-> <<>>, closing |-> <<>>, armEnds |-> <<>>, broken |-> {},
                deeper |-> [c \in {} |-> 0]]

EnsureNewlines(f, n) ==
  [f EXCEPT !.nl = Larger(@, n), !.col = 0, !.lineStart = TRUE]
ApplyPendingBreak(f) ==
  IF f.pending = 0 THEN f ELSE [EnsureNewlines(f, f.pending) EXCEPT !.pending = 0]
RequestBreak(f, n) == [f EXCEPT !.pending = Larger(@, n)]

(* Text of width w is written: where it starts, and what follows it. *)
Place(f, space) ==
  [gap |-> IF f.lineStart THEN "line" ELSE IF space THEN "space" ELSE "touch",
   lines |-> f.nl,
   at |-> IF f.lineStart THEN f.indent * Indentation
          ELSE IF space THEN f.col + 1 ELSE f.col]
Written(f, place, w) ==
  [f EXCEPT !.nl = 0, !.col = place.at + w, !.lineStart = FALSE,
            !.lineIndent = IF f.lineStart THEN f.indent ELSE @]

WriteToken(f, token, space) ==
  LET place == Place(f, space)
      g == Written(f, place, token.w)
      block == token.k = "tmpl" /\ token.block
      level == IF f.lineStart THEN g.lineIndent ELSE g.lineIndent + 1
  IN [g EXCEPT !.out = Append(@, place @@ [pre |-> f.pre] @@ token), !.pre = <<>>,
               !.col = IF block THEN level * Indentation + 3 ELSE @]

EmitComment(f, comment) ==
  LET inline == comment.inline /\ ~f.lineStart
      g == IF inline THEN f
           ELSE LET h == ApplyPendingBreak(f) IN IF h.lineStart THEN h ELSE EnsureNewlines(h, 1)
      noted == [c |-> comment.c, doc |-> comment.doc, inline |-> inline, lines |-> g.nl]
      h == [Written(g, Place(g, inline), 0) EXCEPT !.pre = Append(@, noted)]
  IN IF inline THEN [EnsureNewlines(h, Larger(f.pending, 1)) EXCEPT !.pending = 0]
     ELSE EnsureNewlines(h, 1)

(* The comments before token i that are still to be written. *)
EmitCommentsBefore(x, f, i) ==
  IF i <= f.told THEN f
  ELSE [FoldLeft(EmitComment, f, x.ts[i].pre) EXCEPT !.told = i]

-----------------------------------------------------------------------------

ChainOf(x, i) == {c \in x.chains : i \in Range(c.ops)}
StartingAt(x, i) == {c \in x.chains : c.first = i}

(* Whether the trailing comma at i is dropped on one line. *)
DropsTrailingComma(x, i) ==
  /\ x.ts[i].k = "," /\ (i + 1) \in DOMAIN x.opener
  /\ AllowsTrailingComma(x.groups[x.opener[i + 1]].kind)

(* A group too wide for its line breaks the chain measured, or one within  *)
(* it that holds the group.                                                *)
BreaksAChain(x, i, measured) ==
  \E m \in measured : \E c \in x.chains :
    /\ m.first <= c.first /\ c.last <= m.last
    /\ c.first <= i /\ i <= c.last
    /\ Len(c.ops) > 1 \/ (x.ts[i].k = "(" /\ i > Last(c.ops))

(* The widest column the line reaches when the tokens from i through the   *)
(* given one are as unbroken as they can be (line_end).                    *)
RECURSIVE LineEnd(_, _, _, _, _, _, _, _)
LineEnd(x, f, i, through, column, prev, measured, widest) ==
  LET ts == x.ts
      ended(c) == Larger(widest, c)
      after == i > through
      openers == IF i \in DOMAIN x.opener
                 THEN {g \in Range(f.active) : g.open = x.opener[i] /\ g.multiline} ELSE {}
      comma == /\ \E g \in openers : AllowsTrailingComma(g.kind)
               /\ prev # 0 /\ ts[prev].k # ","
      space == prev # 0 /\ NeedsSpace(x, prev, i, FALSE)
      col == column + (IF space THEN 1 ELSE 0) + ts[i].w
      mayBreak == \/ i \in DOMAIN x.groups
                  \/ ts[i].k = "," /\ i \notin x.commas
                  \/ ts[i].k \in {";", "else"}
                  \/ \E b \in x.breaks : b[1] = i
                  \/ ts[i].k = "tmpl" /\ ts[i].block
      lineLevel == IF f.lineStart THEN f.indent ELSE f.lineIndent
      level == IF prev = 0 /\ f.lineStart THEN lineLevel ELSE lineLevel + 1
      group == x.groups[i]
      tooWide == group.content /\ col + group.flat > LineWidth
      on(j, c, p, wide) == LineEnd(x, f, j, through, c, p, measured, wide)
  IN CASE column > LineWidth \/ i > Len(ts) -> ended(column)
       [] ts[i].k = "eof" \/ (prev # 0 /\ CommentBetween(ts, prev, i)) -> ended(column)
       [] after /\ ChainOf(x, i) \cap f.broken # {} -> ended(column)
       [] after /\ openers # {} -> ended(IF comma THEN column + 1 ELSE column)
       [] i \in x.omitted \/ (~after /\ DropsTrailingComma(x, i)) ->
            on(i + 1, column, prev, widest)
       [] after -> IF mayBreak THEN ended(col) ELSE on(i + 1, col, i, widest)
       [] ts[i].k = "tmpl" /\ ts[i].block ->
            IF col > LineWidth THEN ended(col)
            ELSE on(i + 1, level * Indentation + 3, i, ended(col))
       [] i \in DOMAIN x.groups ->
            IF tooWide /\ ~group.forced /\ BreaksAChain(x, i, measured) THEN LineWidth + 1
            ELSE IF ~(group.forced \/ tooWide) THEN on(i + 1, col, i, widest)
            ELSE IF col > LineWidth THEN ended(col)
            ELSE on(group.close + 1, f.indent * Indentation + ts[group.close].w, group.close,
                    ended(col))
       [] OTHER -> on(i + 1, col, i, widest)

InOneLine(f) == f.active # <<>> /\ ~Last(f.active).multiline
MultilineGroup(f, o) ==
  \/ \E g \in Range(f.closing) : g.open = o /\ g.multiline
  \/ /\ ~\E g \in Range(f.closing) : g.open = o
     /\ \E g \in Range(f.active) : g.open = o /\ g.multiline

SpaceBefore(x, f, i) ==
  LET o == IF x.ts[f.prev].k = "{" THEN f.prev ELSE IF x.ts[i].k = "}" THEN x.opener[i] ELSE 0
  IN ~f.lineStart /\ f.prev # 0 /\ NeedsSpace(x, f.prev, i, MultilineGroup(f, o))

(* A comment in the chain outside the groups within it. *)
ChainHasComment(x, c) ==
  LET depth(i) == Cardinality({m \in c.first..i : x.ts[m].k \in Openers})
                    - Cardinality({m \in c.first..i : x.ts[m].k \in Closers})
  IN \E i \in c.first..(c.last - 1) : depth(i) <= 0 /\ x.ts[i + 1].pre # <<>>

(* The chains that start at i, outermost first, break or stay on the line. *)
DecideChains(x, f, i) ==
  LET g == ApplyPendingBreak(f)
      column == IF g.lineStart THEN g.indent * Indentation
                ELSE IF SpaceBefore(x, g, i) THEN g.col + 1 ELSE g.col
      outermost == SetToSortSeq(StartingAt(x, i), LAMBDA c, e : c.last > e.last)
      decide(h, c) ==
        IF ChainHasComment(x, c) \/ LineEnd(x, h, i, c.last, column, 0, {c}, 0) > LineWidth
        THEN [h EXCEPT !.broken = @ \cup {c}] ELSE h
  IN IF StartingAt(x, i) = {} \/ InOneLine(f) THEN f ELSE FoldLeft(decide, g, outermost)

(* The first operator of a broken chain indents its continuation lines. *)
BreakBeforeOperator(x, f, i) ==
  LET c == CHOOSE d \in ChainOf(x, i) : TRUE
      holders == {d \in StartingAt(x, c.first) \cap f.broken : d.last > c.last}
      extra == 1 + Cardinality(holders)
      indented == IF Head(c.ops) # i THEN f
                  ELSE [f EXCEPT !.indent = @ + extra, !.deeper = (c :> extra) @@ @]
  IN IF ChainOf(x, i) \cap f.broken = {} THEN f ELSE RequestBreak(indented, 1)

EndChains(x, f, i) ==
  LET ended == {c \in f.broken : c.last = i /\ c \in DOMAIN f.deeper}
      indent == FoldSet(LAMBDA c, n : n + f.deeper[c], 0, ended)
      g == [f EXCEPT !.indent = IF @ < indent THEN 0 ELSE @ - indent]
      body == /\ KindAt(x.ts, i + 1) = "{" /\ x.groups[i + 1].kind \in {"block", "match"}
  IN IF indent = 0 THEN f ELSE IF body THEN RequestBreak(g, 1) ELSE g

OpenGroup(x, f, i) ==
  LET group == x.groups[i]
      wraps == /\ group.kind # "pattern" /\ ~InOneLine(f)
               /\ LineEnd(x, f, i + 1, group.close, f.col, i, {}, 0) > LineWidth
      multiline == group.content /\ (group.forced \/ f.col + group.flat > LineWidth \/ wraps)
      g == [f EXCEPT !.active = Append(@, [open |-> i, close |-> group.close,
                                           kind |-> group.kind, multiline |-> multiline])]
  IN IF multiline THEN RequestBreak([g EXCEPT !.indent = @ + 1], 1) ELSE g

CloseGroup(f) ==
  LET group == Last(f.active)
      g == [f EXCEPT !.active = Front(@), !.closing = <<group>>]
  IN IF group.multiline
     THEN RequestBreak([g EXCEPT !.indent = IF @ = 0 THEN 0 ELSE @ - 1], 1) ELSE g

InsertTrailingComma(x, f, i) ==
  LET group == Last(f.active)
      g == ApplyPendingBreak(f)
      comma == [k |-> ",", w |-> 1]
  IN IF /\ f.active # <<>> /\ group.close = i /\ group.multiline
        /\ AllowsTrailingComma(group.kind)
        /\ f.prev > group.open /\ f.prev < group.close
        /\ x.ts[i - 1].k # ","
     THEN RequestBreak(WriteToken(g, comma, FALSE), 1) ELSE f

SkipsTrailingComma(x, f, i) ==
  /\ x.ts[i].k = "," /\ f.active # <<>>
  /\ ~Last(f.active).multiline /\ AllowsTrailingComma(Last(f.active).kind)
  /\ Last(f.active).close = i + 1

(* Whether the arm of a let-else does not fit the rest of the line.        *)
RECURSIVE ArmColumn(_, _, _, _, _)
ArmColumn(x, i, end, column, prev) ==
  LET col == column + x.ts[i].w + (IF NeedsSpace(x, prev, i, FALSE) THEN 1 ELSE 0)
      group == x.groups[i]
  IN CASE i > end -> column
       [] i \in x.omitted \/ DropsTrailingComma(x, i) -> ArmColumn(x, i + 1, end, column, prev)
       [] i \in DOMAIN x.groups /\ (group.forced \/ col + group.flat > LineWidth) ->
            LineWidth + 1
       [] OTHER -> ArmColumn(x, i + 1, end, col, i)
ArmBreaks(x, f, else, end) ==
  \/ CommentBetween(x.ts, else, end)
  \/ ArmColumn(x, else + 1, end, f.col, else) > LineWidth

RequestBreakAfter(x, f, i) ==
  LET arm == {a \in x.arms : a[1] = i}
      end == (CHOOSE a \in arm : TRUE)[2]
      armEnded == f.armEnds # <<>> /\ Last(f.armEnds) = i
      g == IF armEnded THEN [f EXCEPT !.armEnds = Front(@), !.indent = IF @ = 0 THEN 0 ELSE @ - 1]
           ELSE f
      ending == {b \in x.breaks : b[1] = i}
      itemEnd == x.ts[i].k = "," /\ i \notin x.commas /\ f.active # <<>> /\ ~InOneLine(f)
  IN CASE arm # {} ->
            IF ArmBreaks(x, f, i, end)
            THEN RequestBreak([f EXCEPT !.indent = @ + 1, !.armEnds = Append(@, end)], 1)
            ELSE f
       [] ending # {} -> RequestBreak(g, (CHOOSE b \in ending : TRUE)[2])
       [] x.ts[i].k = ";" \/ itemEnd -> RequestBreak(g, 1)
       [] OTHER -> g

(* One token of the input (the body of Formatter::format). *)
FormatToken(x, f, i) ==
  LET closes == i \in DOMAIN x.opener
      comma == IF closes THEN InsertTrailingComma(x, f, i) ELSE f
      broken == BreakBeforeOperator(x, comma, i)
      leads == ChainOf(x, i) \cap comma.broken # {}
      here == EmitCommentsBefore(x, broken, i)
      told == IF leads THEN EmitCommentsBefore(x, here, i + 1) ELSE here
      closed == IF closes THEN CloseGroup(told) ELSE told
      decided == ApplyPendingBreak(DecideChains(x, closed, i))
      token == [WriteToken(decided, x.ts[i], SpaceBefore(x, decided, i))
                  EXCEPT !.prev = i, !.closing = <<>>]
      opened == IF i \in DOMAIN x.groups THEN OpenGroup(x, token, i) ELSE token
      end == EmitCommentsBefore(x, f, i)
  IN IF x.ts[i].k = "eof"
     THEN [end EXCEPT !.out = Append(@, [x.ts[i] EXCEPT !.pre = end.pre, !.gap = "line"])]
     ELSE IF i \in x.omitted \/ SkipsTrailingComma(x, told, i) THEN told
     ELSE EndChains(x, RequestBreakAfter(x, opened, i), i)

(* What format_source writes for tokens that parse: the end of the file    *)
(* writes the last comments.                                               *)
RECURSIVE FormatFrom(_, _, _)
FormatFrom(x, f, i) ==
  IF f.told = Len(x.ts) THEN f.out ELSE FormatFrom(x, FormatToken(x, f, i), i + 1)
Format(ts, parsed) == FormatFrom(Context(ts, parsed), StartOfFile, 1)
=============================================================================

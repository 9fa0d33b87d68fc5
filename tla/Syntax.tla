------------------------------- MODULE Syntax -------------------------------
(***************************************************************************)
(* The abstract syntax of Krit programs (crates/krit/src/ast.rs): every    *)
(* node the parser builds, as a record tagged by its kind k.  A span is    *)
(* left out: where the code looks a node up by its span, the models use    *)
(* the node's path from the root.  A string literal is a sequence of       *)
(* bytes; names, fields and types stay symbolic.                           *)
(***************************************************************************)
EXTENDS Integers, Sequences

(* Expressions (ExpressionKind).  A field of a node has one kind of value  *)
(* wherever it occurs: n an integer, b a Boolean, s bytes, x a name, e an  *)
(* expression, es a sequence of expressions, bl a block.                   *)
IntE(n) == [k |-> "int", n |-> n]
BoolE(b) == [k |-> "bool", b |-> b]
StrE(s) == [k |-> "str", s |-> s]
UnitE == [k |-> "unit"]
Var(x) == [k |-> "var", x |-> x]
ListE(es) == [k |-> "list", es |-> es]
RecordE(xs, es) == [k |-> "record", xs |-> xs, es |-> es]
Entries(es) == [k |-> "entries", es |-> es]        \* key, value, key, value...
Construct(c, xs, es) == [k |-> "construct", c |-> c, xs |-> xs, es |-> es]
Interp(es) == [k |-> "interp", es |-> es]      \* text parts are string literals
Field(e, x) == [k |-> "field", e |-> e, x |-> x]
BlockE(bl) == [k |-> "block", bl |-> bl]
If(e, bl, alt) == [k |-> "if", e |-> e, bl |-> bl, alt |-> alt]
Fn(ps, ann, bl) == [k |-> "fn", ps |-> ps, ann |-> ann, bl |-> bl]
Call(e, es) == [k |-> "call", e |-> e, es |-> es]
Question(e) == [k |-> "question", e |-> e]
Match(e, pats, es) == [k |-> "match", e |-> e, pats |-> pats, es |-> es]
Unary(op, e) == [k |-> "unary", op |-> op, e |-> e]
Binary(op, l, r) == [k |-> "binary", op |-> op, e |-> l, alt |-> r]

(* A block: its statements and, when it has one, its tail expression.      *)
Block(ss, tail) == [ss |-> ss, tail |-> tail]
Only(e) == Block(<<>>, <<e>>)

(* Statements (StatementKind).  A parameter and a let carry the sequence   *)
(* of their annotations: empty, or one type.  A handler is a webhook, a    *)
(* queue consumer or a schedule handler.                                   *)
Let(x, ann, e) == [k |-> "let", x |-> x, ann |-> ann, e |-> e]
LetElse(v, x, ann, e, w, y, alt) ==     \* let v(x): ann = e else w(y) => alt
  [k |-> "letelse", v |-> v, x |-> x, ann |-> ann, e |-> e, w |-> w, y |-> y, alt |-> alt]
FnDef(x, ps, ann, bl) == [k |-> "fndef", x |-> x, ps |-> ps, ann |-> ann, bl |-> bl]
Handler(h, s, x, ps, ann, bl) ==     \* s: the name of its queue or schedule
  [k |-> "handler", h |-> h, s |-> s, x |-> x, ps |-> ps, ann |-> ann, bl |-> bl]
Do(e) == [k |-> "do", e |-> e]
Param(x, ann) == [x |-> x, ann |-> ann]

(* Patterns (PatternKind): paths of constructors that end in a name, the   *)
(* wildcard, an empty list or a list's head and tail.                      *)
Binder(x) == [k |-> "binder", x |-> x]
Wildcard == [k |-> "wild"]
VariantP(v, ps) == [k |-> "variant", v |-> v, ps |-> ps]   \* ps: <<>> or one pattern
EmptyP == [k |-> "empty"]
ConsP(h, t) == [k |-> "cons", h |-> h, t |-> t]

CatchAll(p) == p.k \in {"binder", "wild"}
BinderName(p) == IF p.k = "binder" THEN p.x ELSE "_"

(* Variants: two families of two (VariantName::family and ::complement).   *)
Family(v) == IF v \in {"Some", "None"} THEN "option" ELSE "result"
Complement(v) == CASE v = "Some" -> "None" [] v = "None" -> "Some"
                   [] v = "Ok" -> "Err"    [] v = "Err" -> "Ok"

(* The contract records a construction may name, with their fields in      *)
(* order and the default of each field that may be left out.               *)
Contract(c) ==
  CASE c = "HttpRequest" ->
         <<[x |-> "method", default |-> ""], [x |-> "path", default |-> ""],
           [x |-> "query", default |-> "text"], [x |-> "headers", default |-> "list"],
           [x |-> "body", default |-> "text"]>>
    [] c = "HttpResponse" ->
         <<[x |-> "status", default |-> ""], [x |-> "headers", default |-> "list"],
           [x |-> "body", default |-> "text"]>>
    [] OTHER -> <<[x |-> "name", default |-> ""], [x |-> "value", default |-> ""]>>

(* The fields a construction writes: known, once each, and every field     *)
(* without a default (check_construction_fields).                          *)
ConstructionFieldsFit(c, xs) ==
  LET known == {Contract(c)[i].x : i \in DOMAIN Contract(c)}
      required == {Contract(c)[i].x : i \in {j \in DOMAIN Contract(c) :
                                               Contract(c)[j].default = ""}}
  IN /\ \A i \in DOMAIN xs : xs[i] \in known
     /\ \A i, j \in DOMAIN xs : xs[i] = xs[j] => i = j
     /\ \A x \in required : \E i \in DOMAIN xs : xs[i] = x

(* Built-in functions: the pure ones, the output ones, and those that ask  *)
(* the host for an effect, with the number of arguments each takes.  The   *)
(* conversions to and from JSON text and URL text are left out.            *)
PureBuiltins == {"Some", "Ok", "Err", "int_to_string", "string_byte_len", "string_is_empty",
                 "string_contains", "string_starts_with", "string_ends_with"}
OutputBuiltins == {"print", "println"}
ServiceBuiltins == {"ai_invoke", "config_string", "secret", "http_request", "log_info",
                    "log_error", "queue_publish"}
StateBuiltins == {"state_get", "state_put", "state_delete", "checkpoint_get",
                  "checkpoint_put", "replay_http", "replay_ai"}
ResourceBuiltins == {"object_get", "object_put", "object_delete", "cache_get", "cache_put",
                     "cache_delete", "search_query", "vector_search"}
DatabaseBuiltins == {"db_begin_read", "db_begin_write", "db_query", "db_execute",
                     "db_commit", "db_rollback"}
HostBuiltins == ServiceBuiltins \cup StateBuiltins \cup ResourceBuiltins
                  \cup DatabaseBuiltins
Builtins == PureBuiltins \cup OutputBuiltins \cup HostBuiltins

BuiltinArity(x) ==
  CASE x \in {"replay_http", "replay_ai", "cache_put"} -> 4
    [] x \in {"http_request", "state_put", "checkpoint_put", "object_put", "db_query",
              "db_execute", "search_query", "vector_search"} -> 3
    [] x \in {"ai_invoke", "log_info", "log_error", "state_get", "state_delete",
              "checkpoint_get", "queue_publish", "object_get", "object_delete",
              "cache_get", "cache_delete", "string_contains", "string_starts_with",
              "string_ends_with"} -> 2
    [] OTHER -> 1

(* Names of host resources: lower-case letters, digits, dots and hyphens   *)
(* (and underscores in a configuration key), no separator first, last or   *)
(* doubled.                                                                *)
CanonicalName(s, underscore) ==
  LET separators == {45, 46, 95}
  IN /\ Len(s) \in 1..64
     /\ s[1] \notin separators /\ s[Len(s)] \notin separators
     /\ \A i \in 1..(Len(s) - 1) : s[i] \in separators => s[i + 1] # s[i]
     /\ \A i \in DOMAIN s : s[i] \in (97..122) \cup (48..57) \cup {45, 46}
                                       \cup (IF underscore THEN {95} ELSE {})
=============================================================================

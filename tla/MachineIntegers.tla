-------------------------- MODULE MachineIntegers --------------------------
(***************************************************************************)
(* The integers of the language, twice: as the evaluator computes them     *)
(* with Rust's checked operations (crates/krit/src/evaluator.rs), and as   *)
(* the code generator has WebAssembly compute them, with operations that   *)
(* wrap around and a test for the overflow beside each                     *)
(* (crates/krit-wasm/src/compiler.rs).  The width is a parameter: max is   *)
(* i64::MAX, and a word is a number from -max - 1 to max.                  *)
(***************************************************************************)
EXTENDS Integers

MinOf(max) == -max - 1
Word(max) == MinOf(max)..max
IntegerOperators == {"+", "-", "*", "/", "%"}

Magnitude(a) == IF a < 0 THEN -a ELSE a

(* Division rounds towards zero, in Rust as in i64.div_s. *)
Quotient(a, b) ==
  LET q == Magnitude(a) \div Magnitude(b) IN IF (a < 0) <=> (b < 0) THEN q ELSE -q
Remainder(a, b) == a - b * Quotient(a, b)

-----------------------------------------------------------------------------
(* The evaluator: a value, or the diagnostic.                              *)

Number(n) == [code |-> "", n |-> n]
NoNumber(code) == [code |-> code, n |-> 0]
CheckedInteger(max, n) == IF n \in Word(max) THEN Number(n) ELSE NoNumber("K4005")

(* i64::checked_rem also refuses MIN % -1, whose quotient overflows.       *)
CheckedBinary(max, op, l, r) ==
  IF op = "+" THEN CheckedInteger(max, l + r)
  ELSE IF op = "-" THEN CheckedInteger(max, l - r)
  ELSE IF op = "*" THEN CheckedInteger(max, l * r)
  ELSE IF r = 0 THEN NoNumber("K4004")
  ELSE IF Quotient(l, r) \notin Word(max) THEN NoNumber("K4005")
  ELSE Number(IF op = "/" THEN Quotient(l, r) ELSE Remainder(l, r))

-----------------------------------------------------------------------------
(* The component: the word an operation leaves, and whether it traps.      *)

Wrap(max, n) == ((n - MinOf(max)) % (2 * (max + 1))) + MinOf(max)

(* The exclusive or of two words is negative when their signs differ.      *)
SignsDiffer(a, b) == ~((a < 0) <=> (b < 0))

(* i64.div_s traps on zero and on MIN / -1, i64.rem_s on zero alone.       *)
DivTraps(max, a, b) == b = 0 \/ (a = MinOf(max) /\ b = -1)

(* encode_binary: the word an operation leaves.                            *)
CompiledWord(max, op, l, r) ==
  IF op = "+" THEN Wrap(max, l + r)
  ELSE IF op = "-" THEN Wrap(max, l - r)
  ELSE IF op = "*" THEN Wrap(max, l * r)
  ELSE IF op = "/" THEN Quotient(l, r)
  ELSE Remainder(l, r)

(* The tests beside them: of the signs for sums and differences, which are *)
(* stored by then; of the product divided again; of the operands.          *)
CompiledTraps(max, op, l, r) ==
  LET word == CompiledWord(max, op, l, r)
  IN IF op = "+" THEN SignsDiffer(l, word) /\ SignsDiffer(r, word)
     ELSE IF op = "-" THEN SignsDiffer(l, r) /\ SignsDiffer(l, word)
     ELSE IF op = "*" THEN r # 0 /\ (DivTraps(max, word, r) \/ Quotient(word, r) # l)
     ELSE IF op = "/" THEN DivTraps(max, l, r)
     ELSE (l = MinOf(max) /\ r = -1) \/ r = 0

(* encode_unary: the one word without a negative is tested for first.      *)
NegationTraps(max, n) == n = MinOf(max)
CompiledNegation(max, n) == Wrap(max, 0 - n)
=============================================================================

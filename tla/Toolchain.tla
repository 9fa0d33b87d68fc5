----------------------------- MODULE Toolchain -----------------------------
(***************************************************************************)
(* The compiler's stages over one source file: parsing, analysis, then     *)
(* either direct execution (krit run) or lowering, verification, the       *)
(* support check, code generation and the execution of the component       *)
(* (krit build), and the formatter (krit fmt, or the editor's formatting   *)
(* request) that rewrites the file.  A variable holds what its stage       *)
(* returned for the file as it is, <<>> before it ran; the two tails       *)
(* interleave, as the commands are independent.  The stages are parameters *)
(* of the pipeline: MCToolchain gives them the models of the code.         *)
(***************************************************************************)
EXTENDS Naturals, Sequences, SequencesExt

CONSTANTS Files,                 \* [tokens, meant, formats]: what a user wrote, <<the
                                 \* program>> it means or <<>>, the requests to format it
          Parser(_),             \* Parser!Parse, with the program and its docs by themselves
          Formatter(_, _),       \* Formatter!Format
          Printer(_),            \* the tokens of a program, as MCSource writes it
          MaxFormats,            \* the formatting requests of a file that has any
          Remarks(_),            \* the comments of a token sequence, in order
          Analyzer(_),           \* Analysis!Analyze
          Interpreter(_),        \* Evaluator!Execute
          Lowerer(_, _),         \* Lowering!Lower
          Verifier(_),           \* CoreVerifier!Verify
          SupportChecker(_),     \* WasmSupport!CheckModule
          Generator(_, _),       \* WasmBackend!Encodes
          Engine(_, _, _),       \* WasmBackend!RunModule
          Hosts                  \* limits and cancellations a component may run under

VARIABLES source,       \* the tokens of the file
          meant,        \* <<the program the user means>>, or <<>>
          formats,      \* the formatting requests still to come
          original,     \* <<program, docs, comments>> of the file as first written
          parsed,       \* what parse returns for the file
          analysis,     \* what analyze returns
          run,          \* how direct execution ends
          core,         \* the lowered module and the verifier's verdict
          checked,      \* what check_module returns
          artifact,     \* whether emission succeeded
          execution     \* how the component's run ends

file == <<source, meant, formats, original>>
vars == <<file, parsed, analysis, run, core, checked, artifact, execution>>

Pending == <<>>
Init ==
  /\ \E f \in Files : source = f.tokens /\ meant = f.meant /\ formats = f.formats
  /\ original = <<>>
  /\ parsed = Pending /\ analysis = Pending /\ run = Pending /\ core = Pending
  /\ checked = Pending /\ artifact = Pending /\ execution = Pending

Readable == parsed # Pending /\ parsed[1].code = ""
Accepted == analysis # Pending /\ analysis[1].code = ""

ParseProgram ==
  /\ parsed = Pending
  /\ parsed' = <<Parser(source)>>
  /\ original' = IF original = <<>> /\ parsed'[1].code = ""
                 THEN <<parsed'[1].program, parsed'[1].docs, Remarks(source)>> ELSE original
  /\ UNCHANGED <<source, meant, formats, analysis, run, core, checked, artifact, execution>>

(* format_source parses what it formats and refuses what does not parse.   *)
FormatSource ==
  /\ Readable /\ formats > 0
  /\ source' = Formatter(source, parsed[1])
  /\ formats' = formats - 1
  /\ parsed' = Pending /\ analysis' = Pending /\ run' = Pending /\ core' = Pending
  /\ checked' = Pending /\ artifact' = Pending /\ execution' = Pending
  /\ UNCHANGED <<meant, original>>

AnalyzeProgram ==
  /\ Readable /\ analysis = Pending
  /\ analysis' = <<Analyzer(parsed[1].program)>>
  /\ UNCHANGED <<file, parsed, run, core, checked, artifact, execution>>

EvaluateProgram ==
  /\ Accepted /\ run = Pending
  /\ run' = <<Interpreter(parsed[1].program)>>
  /\ UNCHANGED <<file, parsed, analysis, core, checked, artifact, execution>>

LowerProgram ==
  /\ Accepted /\ core = Pending
  /\ core' = LET module == Lowerer(parsed[1].program, analysis[1])
             IN <<module, ~module.err /\ Verifier(module)>>
  /\ UNCHANGED <<file, parsed, analysis, run, checked, artifact, execution>>

CheckSupport ==
  /\ core # Pending /\ checked = Pending
  /\ core[2]
  /\ checked' = <<SupportChecker(core[1])>>
  /\ UNCHANGED <<file, parsed, analysis, run, core, artifact, execution>>

(* Module programs build under policy 1, which is the generator modelled.  *)
EmitComponent ==
  /\ checked # Pending /\ artifact = Pending
  /\ checked[1].ok /\ ~checked[1].hook
  /\ artifact' = <<Generator(core[1], checked[1])>>
  /\ UNCHANGED <<file, parsed, analysis, run, core, checked, execution>>

RunComponent ==
  /\ artifact # Pending /\ execution = Pending
  /\ artifact[1]
  /\ \E host \in Hosts : execution' = <<Engine(core[1], checked[1], host)>>
  /\ UNCHANGED <<file, parsed, analysis, run, core, checked, artifact>>

Next == \/ ParseProgram \/ FormatSource \/ AnalyzeProgram \/ EvaluateProgram \/ LowerProgram
        \/ CheckSupport \/ EmitComponent \/ RunComponent

Spec == Init /\ [][Next]_vars

-----------------------------------------------------------------------------

(* A file has one reading.  What is written with the fewest parentheses    *)
(* the grammar allows parses to the program that was meant, and whatever   *)
(* parses, damaged files too, parses to itself when it is written anew     *)
(* that way: precedence, postfix links, the speculative patterns and the   *)
(* record-or-block rules of parser.rs agree with each other.               *)
OneReading ==
  parsed # Pending =>
    /\ meant # <<>> => parsed[1].code = "" /\ parsed[1].program = meant[1]
    /\ parsed[1].code = "" => LET again == Parser(Printer(parsed[1].program))
                              IN again.code = "" /\ again.program = parsed[1].program

(* Formatting keeps the program, what each doc comment documents, and      *)
(* every comment in its order (the promise of krit fmt), however often it  *)
(* runs.                                                                   *)
FormatKeepsProgram ==
  original # <<>> =>
    /\ parsed # Pending => Readable /\ parsed[1].program = original[1] /\ parsed[1].docs = original[2]
    /\ Remarks(source) = original[3]

(* Only the first request changes a file: formatting what has been         *)
(* formatted changes nothing.                                              *)
FormatStable == [][source' # source => formats = MaxFormats]_vars

(* An accepted program fails at run time only where no type can tell:      *)
(* division by zero, integer overflow, a depth limit, or a host effect the *)
(* evaluator does not perform (the K4001, K4002, K4003, K4006, K2001 and   *)
(* K3012 arms of evaluator.rs are unreachable after analyze).              *)
AcceptedRunsSafely ==
  (run # Pending) => run[1].code \in {"", "K4004", "K4005", "K4010", "K5003"}

(* What a program does is in the effects analysis reports for it, through  *)
(* closures, higher-order calls and branches alike: output under           *)
(* io.stdout, a refused host call under some other effect.                 *)
EffectsCoverRun ==
  (run # Pending) =>
    /\ run[1].out # <<>> => "io.stdout" \in analysis[1].d
    /\ run[1].code = "K5003" => analysis[1].d \ {"io.stdout"} # {}

(* Lowering an accepted program succeeds and the verifier agrees with      *)
(* analysis about every type, effect and scope of the result.              *)
LoweringVerifies == (core # Pending) => core[2]

(* Emission never fails once the support check has passed. *)
SupportedEncodes == (artifact # Pending) => artifact[1]

(* The component does what direct execution does.  What the host has        *)
(* buffered is the output of the evaluator, in its order, up to the point   *)
(* where the shorter of the two stops: the host ends a component for its    *)
(* cancellation, its call limit or its output limit (HostState::write), the *)
(* engine for its stack, the evaluator for its depth.  When none of them    *)
(* does, the outputs are equal and the component traps exactly where the    *)
(* evaluator fails.                                                         *)
ComponentAgrees ==
  (execution # Pending /\ run # Pending) =>
    LET component == execution[1]
        ended == component.t \in {"ok", "trap"}
        deep == run[1].code = "K4010"
    IN /\ IsPrefix(component.out, run[1].out) \/ IsPrefix(run[1].out, component.out)
       /\ ~deep => IsPrefix(component.out, run[1].out)
       /\ ended => IsPrefix(run[1].out, component.out)
       /\ ended /\ ~deep => (component.t = "trap") = (run[1].code \in {"K4004", "K4005"})
=============================================================================

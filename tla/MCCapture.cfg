SPECIFICATION Spec
CONSTANTS
  MaxInt = 3
  MaxTypeHeight = 6
  Origins <- MCOrigins
  MaxCoreBlockDepth = 8
  MaxFrames = 6
  MaxCallDepth = 5
  MaxEvaluationDepth = 40
  MaxValueDepth = 3
  MaxNestingDepth = 12
  MaxStructuralDepth = 14
  LineWidth = 20
  MaxFormats = 2
  Files <- CaptureFiles
  Parser <- MCParser
  Formatter <- MCFormatter
  Printer <- MCPrinter
  Remarks <- MCRemarks
  Analyzer <- MCAnalyzer
  Interpreter <- MCInterpreter
  Lowerer <- MCLowerer
  Verifier <- MCVerifier
  SupportChecker <- MCSupportChecker
  Generator <- MCGenerator
  Engine <- MCEngine
  Hosts <- MCHosts
INVARIANT
  SupportedEncodes
CHECK_DEADLOCK FALSE

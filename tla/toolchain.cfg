CONSTANTS
  Running = {"decompiler", "tail calls", "program", "names", "text", "types", "components"}
  Lambdas <- RightLambdas
  Programs <- MCPrograms
  OneProgram <- MCOneProgram
  BitOr <- MCBitOr
  Half = 4
  Arity = 2
  Values = {0, 1, 2}
  OneLambda <- MCOneLambda
  Sources <- MCSources
  OneSource <- MCOneSource
  Units <- MCUnits
  OneUnit <- MCOneUnit
  MaxCalls = 4
  Identifiers = {"x", "y", "c", "checked"}
  Numbers = {"1"}
  OtherLiterals = {"null"}
  MaxTemplateDepth = 2
  Texts <- MCTexts
  OneText <- MCOneText
  TypedPrograms <- MCTyped
  OneTyped <- MCOneTyped
  Files <- MCFiles
  OneFile <- MCOneFile
  JsxNames = {"n", "m", "nn", "a", "id", "size", "x", "width", "style", "color", "background", "onClick", "gui", "mount", "z"}
  TagNames = {"Window", "Text", "Button", "Image", "Pointer", "Main", "Other"}
  OnNames = {"onClick"}
  Contents <- MCContents
  Counts <- MCCounts
  Colours = {"#6", "#8"}
  PartsOfWords <- MCPartsOfWords
  MaxSignals = 2
  MaxHandlers = 2
  MaxShown = 2
CHECK_DEADLOCK FALSE
SPECIFICATION ToolchainSpec
INVARIANTS
  DominanceExact StackFits ArmsMeetAtMerge FlagMeansDeadCode
  LivenessExact OneDefinitionArrives ConstantsAreComputed
  CirclesAreFound StopsOnlyForUnset NamesKeepTheirMeaning
  TokensAreRead TreeIsRead WordsHaveTheirTypes WindowShowsFile
PROPERTY CallsByValue

SPECIFICATION CompilerSpec
CONSTANTS
  Paths = {"main", "a", "b", "config"}
  Names = {"main.cra", "a.cra", "b.cra", "config.cra"}
  ConfigName = "config.cra"
  Projects <- MCProjects
  MaximumImportedModules = 2
  MaximumImportDepth = 3
  MaximumProjectSourceFiles = 3
  MaximumProjectSourceBytes = 200
  MaximumParseRecursionDepth = 8
  Maximum = 7
  MaximumCallDepth = 3
  MaximumResponseBytes = 40
  MaximumJsonDepth = 2
  MaximumAbiInt = 3
  MaximumArgumentCount = 2
  MaximumPathCount = 2
  MaximumStringBytes = 10
  Sources <- MCSources
  ReadEntry <- ReadJson
  ArgumentValues <- MCArguments
  Responses = {"0", "1"}
  MaximumInvocations = 2
INVARIANTS
  ImportsComeFirst
  ParserInvertsWriting
  ComputesWhatItSays
  AcceptedProgramsDoNotGoWrong
  ValuesHaveTheirType
  OperationsSeeAllGlobals
PROPERTIES
  LinkingIsDecided
CHECK_DEADLOCK FALSE

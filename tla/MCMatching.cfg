CONSTANTS
  Modules <- MCModules
  Constants <- MCConstants
  Scrutinees <- MCScrutinees
  Arms <- MCArms
  Places = {"middle", "loop", "tail"}
  Data = {"0", "1"}
  MaxArms = 3
SPECIFICATION Spec
INVARIANTS
  AcceptedMatchesCompile
  TheWrittenArmRuns
  ExhaustivenessIsReal
CHECK_DEADLOCK FALSE

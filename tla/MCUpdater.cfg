SPECIFICATION Spec
CONSTANTS
  engine = engine
  codec = codec
  Bin = Bin
  NoFile = NoFile
  Libs <- MCLibs
  Introduced = {codec}
  MaxAttempts = 3
  MaxCrashes = 2
INVARIANTS
  BinarySurvives
  BinaryIsLast
  FailureIsClean

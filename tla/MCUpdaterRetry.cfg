SPECIFICATION Spec
CONSTANTS
  engine = engine
  codec = codec
  Bin = Bin
  NoFile = NoFile
  Libs <- NoLibs
  Introduced = {}
  MaxAttempts = 2
  MaxCrashes = 0
INVARIANT
  RetryKeepsBinary

SPECIFICATION Spec
CONSTANTS
  Levels  = {1, 2, 3}
  Endgame = {3}
  Items   = {i1}
  Modes   = {FALSE, TRUE}
  Strikes <- Harmless
INVARIANTS TypeOK CrashRecoverable NeverTricked FilesAreFlagged NoStaleFiles
PROPERTIES SaveKept Atomically

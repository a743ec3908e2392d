SPECIFICATION Spec
CONSTANTS
  Entries = {e1, e2, e3, e4, e5}
  Limits = {0, 1, 4}
  Offsets = {0, 4, 5, 7, 8, 9, 15, 16, 17}
  DefaultLimit = 2
  MaxLimit = 3
  Half = 8
SYMMETRY Symmetry
INVARIANTS
  NothingMissed
  RepeatsAreCommits
  TruncationOnlyBeyond

\* Two clients, one object, two outputs, five calls.
SPECIFICATION Spec
CONSTANTS
  Clients = {d1, d2}
  Keys = {k1}
  States = {s1, s2}
  Nobody = Nobody
  MaxCalls = 5
SYMMETRY Symmetry
INVARIANTS
  SavedIsReadBack
  NothingIsForgotten
CHECK_DEADLOCK FALSE

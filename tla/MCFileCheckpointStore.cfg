\* Two processes, two keys, two outputs; a pickle is two writes long.
SPECIFICATION Spec
CONSTANTS
  Savers = {d1, d2}
  Keys = {k1, k2}
  States = {s1, s2}
  Blocks = 2
  NoFile = NoFile
  Missing = Missing
  Hole = Hole
  Nobody = Nobody
SYMMETRY Symmetry
INVARIANTS
  IntactUnlessDamaged
  MixedOnlyByOverlap

CONSTANTS
  s1 = s1
  s2 = s2
  Slab <- MCSlab
  PerSlab = 4
  CpuPartial = 2
  MinPartial = 0
  Word = 1073741824
  Word0 <- MCAny
SPECIFICATION Spec
INVARIANTS
  FreeNotLive
  SlabOnce
PROPERTY
  ChainsEnd
SYMMETRY Alike
CHECK_DEADLOCK FALSE

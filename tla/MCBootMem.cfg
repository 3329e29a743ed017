CONSTANTS
  MemMaps <- MCMemMaps
  Kernels <- MCKernels
  Word = 1073741824
SPECIFICATION Spec
INVARIANTS MapKept ZonesFitBuddy Addressable

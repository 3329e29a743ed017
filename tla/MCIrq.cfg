CONSTANTS
  Line <- MCLine
  Spurious <- MCSpurious
  Action <- MCAction
  SaShirq <- MCShirq
  SaInt <- MCInt
  Program <- MCProgram
  MaxEdges <- MCEdges
SPECIFICATION Spec
INVARIANTS NoSelfDeadlock NeverNull NoReentry EoiPaired
PROPERTY EdgesServed

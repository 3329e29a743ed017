CONSTANTS
  Line <- MCBootLine
  Spurious <- MCSpurious7
  Action <- MCAction
  SaShirq <- MCShirq
  SaInt <- MCInt
  Program <- Boot
  MaxEdges <- MCTwice
SPECIFICATION Spec
INVARIANT SpuriousHarmless

CONSTANTS
  MaxPfn = 22
  Described = 24
  MaxOrder = 4
  Size <- MCSize
  Zone <- MCZone
  Base <- MCBase
  Spanned <- MCSpanned
  ZoneOf <- MCZoneOf
  AllocZone = 1
  Layouts <- MCLayouts
  Junk <- MCZeroed
SPECIFICATION Spec
INVARIANTS TypeOK FreeDisjoint ReservedKept SameOrderDisjoint NoLeak Coalesced
  StaleOrderHarmless

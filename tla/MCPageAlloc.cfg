CONSTANTS
  MaxPfn = 12
  Described = 12
  MaxOrder = 4
  Size <- MCSize
  Zone <- MCZone
  Base <- MCBase
  Spanned <- MCSpanned
  ZoneOf <- MCZoneOf
  AllocZone = 1
  Layouts <- MCLayouts
  Junk <- MCZeroed
  MaxLive = 8
SPECIFICATION Spec
INVARIANTS ListsSound
PROPERTY ImplementsBuddy

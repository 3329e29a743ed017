CONSTANTS
  Directive <- MCDirective
  MaxLen = 2
  Buf = 5
  Top = 27
  Sizes <- MCSizes
  Width = 2
  Height = 1
  Ring = 6
  MaxLap = 2
  TmpBuf = 6
  Printed <- MCPrinted
SPECIFICATION ConsoleSpec
INVARIANTS NumberField Terminated
  TextInRing KeyPrintsItsLetter RingInOrder
PROPERTY FlushEnds
CHECK_DEADLOCK FALSE

CONSTANTS
  Irq <- MCIrq
  Exception <- MCException
  MaxDepth = 3
SPECIFICATION Spec
INVARIANTS FrameIsPtRegs NeverAstray
PROPERTY ContextRestored
CHECK_DEADLOCK FALSE

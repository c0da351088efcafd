CONSTANTS
  ByteBits = 3
  Width <- MCWidth
  Garbage = {2048, 4095}
  Ops <- MCOps
  Mem <- MCMem
  Regs <- MCRegs
  CFA = 100
  ParamValues = {7}
  Ids = {1, 2, 3, 4}
  MaxOps = 4
SPECIFICATION Spec
PROPERTY
  AbsSucceeds
CHECK_DEADLOCK FALSE

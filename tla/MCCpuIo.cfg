SPECIFICATION CpuSpec
CONSTANTS
  Word <- MCWord
  Zero = 0
  Byte <- MCByte
  LowByte <- MCLowByte
  IoByte <- MCIoByte
  Merge <- MCMerge
  ZeroByte = 0
  RxByte = {1, 2}
  Us <- MCUs
  Reg <- MCReg
  RESET_PC = 64
  BiosWord <- MCBiosWord
  DmemWord <- MCRamWord
  ImemWord <- MCRamWord
  BiosIndex <- MCBiosIndex
  DmemIndex <- MCRamIndex
  ImemIndex <- MCRamIndex
  BiosImages <- MCBiosImages
  Region <- MCRegion
  IoReg <- MCIoReg
  Decode <- MCDecode
  Plus4 <- MCPlus4
  Add <- MCAdd
  Sub <- MCSub
  Arith <- MCArith
  BranchTaken <- MCBranchTaken
  LoadControl <- MCLoadControl
  StoreLanes <- MCStoreLanes
  StoreData <- MCStoreData
  IoStatus <- MCIoStatus
  Inc <- MCInc
  Programs <- IoPrograms
INVARIANTS
  OnePerCycle
PROPERTY
  ImplementsIsa

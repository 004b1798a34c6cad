SPECIFICATION Spec
CONSTANTS
  ByteBits = 2
  MaxCode = 3
  Literals = 2
  LenBase <- MCLenBase
  LenExtra <- MCLenExtra
  DistBase <- MCDistBase
  DistExtra <- MCDistExtra
  FixedLit <- MCFixedLit
  FixedDist <- MCFixedDist
  MaxOutput = 5
  Word = 6
  Chunk = 2
  NativeLiterals = 5
  AllLiterals = 6
  Inputs <- MCInputs
  MCBytes = 6
INVARIANTS TypeOK PlanCarriedOut
PROPERTIES ImplementsInflate Further

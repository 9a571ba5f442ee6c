CONSTANTS
  WordBits <- MC_WordBits
  Int8Inputs <- MC_Int8Inputs
  Int4Inputs <- MC_Int4Inputs
  SeedInputs <- MC_SeedInputs
  Float8Inputs <- MC_Float8Inputs
  CanonicalNaN <- MC_CanonicalNaN
  MaxHashes <- MC_MaxHashes
SPECIFICATION HSpec
INVARIANTS
  CrossTypeHashAlike
  FloatHashAlike
  ExtendedAgreesAtSeedZero

CONSTANTS
  Inputs <- Builds
  Units <- UnitsOf
  Sha1 <- Digest
SPECIFICATION Spec
INVARIANTS ProductVersionRead ValidatedMetadataFits ContractsCover OneIdentity
CHECK_DEADLOCK FALSE

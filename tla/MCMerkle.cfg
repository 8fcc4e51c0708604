\* Every tree of 0 to 6 leaves over two values, and every update on it.
\* Six leaves give layers 6, 3, 2, 1: an odd layer above an even one, so
\* both the leaf-layer and an inner padding slot occur; five give 5, 3, 2, 1.
CONSTANTS
  v1 = v1
  v2 = v2
  v3 = v3
  Values = {v1, v2}
  MaxLeaves = 6
SPECIFICATION Spec
INVARIANTS
  TypeOK
  UpdateAgreesWithNew
  ProofsVerify
  VerifyBindsLeaf

\* Whether a root determines its leaf sequence, over trees of up to four
\* leaves: expected to fail on an odd leaf count.
CONSTANTS
  v1 = v1
  v2 = v2
  v3 = v3
  Values = {v1, v2}
  MaxLeaves = 4
SPECIFICATION Spec
INVARIANTS
  RootBindsLeaves

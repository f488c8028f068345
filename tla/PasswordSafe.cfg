CONSTANTS
  s1 = s1
  s2 = s2
  s3 = s3
  Slots <- MCSlots
  Page <- MCPage
  Words = {w1, w2}
  Zero = zero
  Mess = mess
  Blank = blank
  None = none
  MaxKeys = 2
SPECIFICATION Spec
SYMMETRY MCSymmetry
INVARIANTS TypeOK StoredIsRead OldIsForgotten

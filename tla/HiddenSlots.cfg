CONSTANTS
  Slots = {0, 1}
  Passwords = {p, q}
  MaxDraws = 4
  MaxVolumes = 2
SYMMETRY MCPasswords
VIEW MCView
SPECIFICATION HiddenSpec
INVARIANTS HiddenTypeOK
PROPERTIES OpensWhatWasSet VolumesAreKept

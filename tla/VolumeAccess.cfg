CONSTANTS
  HiddenSlots = {h1, h2}
  Crypted = crypted
  Plain = plain
  Dummy = dummy
  None = none
  MaxSectors = 2
  HostPolls = TRUE
SPECIFICATION AccessSpec
INVARIANTS AccessTypeOK OpenVolumeHasItsKey TransfersFit
PROPERTIES UncryptedComesBack

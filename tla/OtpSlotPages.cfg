CONSTANTS
  config = config
  straddling = straddling
  second = second
  Cells <- MCCells
  Config = config
  HotpSlots = {second}
  NPages = 2
  On <- MCOn
  Names = {n}
  Secrets = {x}
  FF = FF
  Junk = Junk
  Keep = Keep
  Lost = Lost
  None = None
  All = All
SPECIFICATION Spec
INVARIANTS TypeOK BackupIsSound
PROPERTIES ErasedIsForgotten RefinesTable

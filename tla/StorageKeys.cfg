CONSTANTS
  MaxKeys = 2
  Pins = {default, pin}
  Default = default
  NoPin = none
  Salts = {s1, s2, s3}
SYMMETRY MCSalts
SPECIFICATION Spec
INVARIANTS TypeOK UpdatePinIsKept
PROPERTIES ConfirmedKeyIsKept KeysComeTogether

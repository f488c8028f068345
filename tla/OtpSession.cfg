CONSTANTS
  hotp0 = hotp0
  reserved = reserved
  totp0 = totp0
  Hotp = {hotp0, reserved}
  Totp = {totp0, last}
  First = hotp0
  Reserved = reserved
  Last = last
  Invalid = invalid
  PageNo <- MCPageNo
  NPages = 2
  Keys = {numlock}
  Typed = {hotp0}
  Passwords = {zero, pw}
  Zero = zero
  Names = {n}
  Secrets = {x}
  FF = FF
  Empty = Empty
  None = None
VIEW MCView
SPECIFICATION Spec
INVARIANTS TypeOK CounterIsNotOlder
PROPERTIES Authorized WritesAreRight

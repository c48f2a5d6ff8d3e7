\* A physical BAR of 8 MiB: each explicit BAR has 256 KiB of a 1 MiB window.
CONSTANTS
  Alice = Alice
  Bob = Bob
  Users = {Alice, Bob}
  Index <- IndexDef
  Fields <- FieldsDef
  BadFields <- BadFieldsDef
  Addresses <- AddressesDef
  LogSize = 18
  Cropped = 16
SPECIFICATION Spec
INVARIANTS TypeOK OwnCommands OwnData
\* A panic ends a user's process.
CHECK_DEADLOCK FALSE

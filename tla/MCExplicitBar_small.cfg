\* A physical BAR of 256 KiB: each explicit BAR has 8 KiB of a 32 KiB window.
CONSTANTS
  Alice = Alice
  Bob = Bob
  Users = {Alice}
  Index <- IndexDef
  Fields <- FieldsDef
  BadFields <- BadFieldsDef
  Addresses <- AddressesDef
  LogSize = 13
  Cropped = 16
SPECIFICATION Spec
INVARIANTS AddressKept
\* A panic ends a user's process.
CHECK_DEADLOCK FALSE

---------------------------- MODULE MCExplicitBar ----------------------------
(* Small instances of ExplicitBar.                                         *)
EXTENDS ExplicitBar

CONSTANTS Alice, Bob

\* Two users with indices of their own.
IndexDef == [u \in Users |-> IF u = Alice THEN 1 ELSE 3]

\* An XPB address of RFPC 0 with bit 14 set, and the top bit alone.
AddressesDef == {{2, 14, 19, 27}, {47}}
FieldsDef == {"signal", "masters", "signal and masters"}
BadFieldsDef == {"signal and masters"}
=============================================================================

-------------------------- MODULE BarConfigProofs ---------------------------
(***************************************************************************)
(* Proofs about BarConfig: for every size of the window, island and 48-bit *)
(* address, and whatever a handle has accessed before, the device makes of *)
(* the configuration words and the offset the command that was asked for.  *)
(***************************************************************************)
EXTENDS BarConfig, TLAPS

-----------------------------------------------------------------------------
(* Bits and fields                                                         *)

LEMMA InMove ==
  ASSUME NEW x, x \subseteq Nat, NEW from \in Nat, NEW width \in Nat, NEW to \in Nat, NEW i
  PROVE  i \in Move(x, from, width, to) <=>
           i \in Nat /\ to <= i /\ i < to + width /\ i - to + from \in x
<1>1. ASSUME i \in Move(x, from, width, to)
      PROVE  i \in Nat /\ to <= i /\ i < to + width /\ i - to + from \in x
  <2>1. PICK b \in x \intersect (from .. from + width - 1) : i = b - from + to
    BY <1>1 DEF Move
  <2>2. b \in Nat /\ from <= b /\ b < from + width /\ i - to + from = b
    BY <2>1
  <2> QED
    BY <2>1, <2>2
<1>2. ASSUME i \in Nat, to <= i, i < to + width, i - to + from \in x
      PROVE  i \in Move(x, from, width, to)
  <2> DEFINE b == i - to + from
  <2>1. b \in x \intersect (from .. from + width - 1) /\ i = b - from + to
    BY <1>2
  <2> QED
    BY <2>1 DEF Move
<1> QED
  BY <1>1, <1>2

\* The bits of a number that is small enough are low ones.
LEMMA LowBits ==
  /\ \A n \in 0 .. 1 : Bits(n) \subseteq 0 .. 0
  /\ \A n \in 0 .. 3 : Bits(n) \subseteq 0 .. 1
  /\ \A n \in 0 .. 15 : Bits(n) \subseteq 0 .. 3
  /\ \A n \in 0 .. 63 : Bits(n) \subseteq 0 .. 5
  /\ \A n \in 0 .. 127 : Bits(n) \subseteq 0 .. 6
<1>1. ASSUME NEW n \in 0 .. 1 PROVE 1 \notin Bits(n)
  <2>1. 1 \in Bits(n) => (n \div 2^1) % 2 = 1
    BY DEF Bits
  <2>2. 2^1 = 2
    OBVIOUS
  <2>3. (n \div 2) % 2 # 1
    OBVIOUS
  <2> QED
    BY <2>1, <2>2, <2>3
<1>2. ASSUME NEW n \in 0 .. 3 PROVE 2 \notin Bits(n)
  <2>1. 2 \in Bits(n) => (n \div 2^2) % 2 = 1
    BY DEF Bits
  <2>2. 2^2 = 4
    OBVIOUS
  <2>3. (n \div 4) % 2 # 1
    OBVIOUS
  <2> QED
    BY <2>1, <2>2, <2>3
<1>3. ASSUME NEW n \in 0 .. 3 PROVE 3 \notin Bits(n)
  <2>1. 3 \in Bits(n) => (n \div 2^3) % 2 = 1
    BY DEF Bits
  <2>2. 2^3 = 8
    OBVIOUS
  <2>3. (n \div 8) % 2 # 1
    OBVIOUS
  <2> QED
    BY <2>1, <2>2, <2>3
<1>4. ASSUME NEW n \in 0 .. 15 PROVE 4 \notin Bits(n)
  <2>1. 4 \in Bits(n) => (n \div 2^4) % 2 = 1
    BY DEF Bits
  <2>2. 2^4 = 16
    OBVIOUS
  <2>3. (n \div 16) % 2 # 1
    OBVIOUS
  <2> QED
    BY <2>1, <2>2, <2>3
<1>5. ASSUME NEW n \in 0 .. 15 PROVE 5 \notin Bits(n)
  <2>1. 5 \in Bits(n) => (n \div 2^5) % 2 = 1
    BY DEF Bits
  <2>2. 2^5 = 32
    OBVIOUS
  <2>3. (n \div 32) % 2 # 1
    OBVIOUS
  <2> QED
    BY <2>1, <2>2, <2>3
<1>6. ASSUME NEW n \in 0 .. 63 PROVE 6 \notin Bits(n)
  <2>1. 6 \in Bits(n) => (n \div 2^6) % 2 = 1
    BY DEF Bits
  <2>2. 2^6 = 64
    OBVIOUS
  <2>3. (n \div 64) % 2 # 1
    OBVIOUS
  <2> QED
    BY <2>1, <2>2, <2>3
<1>7. ASSUME NEW n \in 0 .. 127 PROVE 7 \notin Bits(n)
  <2>1. 7 \in Bits(n) => (n \div 2^7) % 2 = 1
    BY DEF Bits
  <2>2. 2^7 = 128
    OBVIOUS
  <2>3. (n \div 128) % 2 # 1
    OBVIOUS
  <2> QED
    BY <2>1, <2>2, <2>3
<1>8. \A n : Bits(n) \subseteq 0 .. 7
  BY DEF Bits
<1>9. /\ \A n \in 0 .. 1 : n \in 0 .. 3
      /\ \A n \in 0 .. 3 : n \in 0 .. 15
      /\ \A n \in 0 .. 15 : n \in 0 .. 63
      /\ \A n \in 0 .. 63 : n \in 0 .. 127
  OBVIOUS
<1>10. \A b \in 0 .. 7 : b \in {0, 1, 2, 3, 4, 5, 6, 7}
  OBVIOUS
<1> QED
  BY <1>1, <1>2, <1>3, <1>4, <1>5, <1>6, <1>7, <1>8, <1>9, <1>10

-----------------------------------------------------------------------------
(* The words and what the device makes of them                             *)

CommandType ==
  [island : SUBSET (0 .. 6), target : SUBSET (0 .. 3), action : SUBSET (0 .. 5),
   token : SUBSET (0 .. 1), len : SUBSET (0 .. 1), address : SUBSET Nat]

Served == MapType \ {"Explicit"}

\* Bit j of the fields at 12, 8 and 0 of register 0: of the command, or of the base address.
At12(map, c, base, j) == IF map = "General" THEN j + 44 \in base ELSE j \in c.target
At8(map, c, base, j) == CASE map \in {"Fixed", "Bulk"} -> j \in c.token
                          [] map = "Target" -> j + 46 \in base
                          [] map = "General" -> j + 42 \in base
At0(map, c, base, j) == CASE map = "Fixed" -> j \in c.action
                          [] map = "Bulk" -> j + 42 \in base
                          [] map = "Target" -> j + 40 \in base
                          [] map = "General" -> j + 36 \in base

LEMMA Maps ==
  /\ Map["Fixed"] = {} /\ Map["Bulk"] = {0} /\ Map["Target"] = {1} /\ Map["General"] = {0, 1}
  /\ Map["Explicit"] = {2} /\ MapType = {"Fixed", "Bulk", "Target", "General", "Explicit"}
  /\ Served = {"Fixed", "Bulk", "Target", "General"}
  BY DEF Map, MapType, Served

\* The fields of register 0 do not overlap.
LEMMA InWord0 ==
  ASSUME NEW map \in Served, NEW c \in CommandType, NEW base, base \subseteq 0 .. 47, NEW i
  PROVE  i \in Word0(map, c, base) <=>
           /\ i \in Nat
           /\ \/ i = 31
              \/ i \in 24 .. 30 /\ i - 24 \in c.island
              \/ i \in 20 .. 22 /\ i - 20 \in Map[map]
              \/ i \in 16 .. 17 /\ i - 16 \in c.len
              \/ i \in 12 .. 15 /\ At12(map, c, base, i - 12)
              \/ i \in 8 .. 9 /\ At8(map, c, base, i - 8)
              \/ i \in 0 .. 5 /\ At0(map, c, base, i)
<1>1. /\ c.island \subseteq Nat /\ c.target \subseteq Nat /\ c.action \subseteq Nat
      /\ c.token \subseteq Nat /\ c.len \subseteq Nat /\ base \subseteq Nat /\ Map[map] \subseteq Nat
  BY Maps DEF CommandType
<1>2. /\ i \in Move(Map[map], 0, 3, 20) <=> i \in 20 .. 22 /\ i - 20 \in Map[map]
      /\ i \in Move(c.len, 0, 2, 16) <=> i \in 16 .. 17 /\ i - 16 \in c.len
      /\ i \in Move(c.island, 0, 7, 24) <=> i \in 24 .. 30 /\ i - 24 \in c.island
  <2>1. /\ i \in Move(Map[map], 0, 3, 20) <=>
             i \in Nat /\ 20 <= i /\ i < 20 + 3 /\ i - 20 + 0 \in Map[map]
        /\ i \in Move(c.len, 0, 2, 16) <=>
             i \in Nat /\ 16 <= i /\ i < 16 + 2 /\ i - 16 + 0 \in c.len
        /\ i \in Move(c.island, 0, 7, 24) <=>
             i \in Nat /\ 24 <= i /\ i < 24 + 7 /\ i - 24 + 0 \in c.island
    BY <1>1, InMove
  <2> QED
    BY <2>1
<1>3. /\ i \in Move(c.target, 0, 4, 12) <=> i \in 12 .. 15 /\ i - 12 \in c.target
      /\ i \in Move(c.token, 0, 2, 8) <=> i \in 8 .. 9 /\ i - 8 \in c.token
      /\ i \in Move(c.action, 0, 6, 0) <=> i \in 0 .. 5 /\ i \in c.action
  <2>1. /\ i \in Move(c.target, 0, 4, 12) <=>
             i \in Nat /\ 12 <= i /\ i < 12 + 4 /\ i - 12 + 0 \in c.target
        /\ i \in Move(c.token, 0, 2, 8) <=> i \in Nat /\ 8 <= i /\ i < 8 + 2 /\ i - 8 + 0 \in c.token
        /\ i \in Move(c.action, 0, 6, 0) <=> i \in Nat /\ 0 <= i /\ i < 0 + 6 /\ i - 0 + 0 \in c.action
    BY <1>1, InMove
  <2> QED
    BY <2>1
<1>4. /\ i \in Move(base, 44, 4, 12) <=> i \in 12 .. 15 /\ i - 12 + 44 \in base
      /\ i \in Move(base, 46, 2, 8) <=> i \in 8 .. 9 /\ i - 8 + 46 \in base
      /\ i \in Move(base, 42, 2, 8) <=> i \in 8 .. 9 /\ i - 8 + 42 \in base
      /\ i \in Move(base, 42, 6, 0) <=> i \in 0 .. 5 /\ i + 42 \in base
      /\ i \in Move(base, 40, 6, 0) <=> i \in 0 .. 5 /\ i + 40 \in base
      /\ i \in Move(base, 36, 6, 0) <=> i \in 0 .. 5 /\ i + 36 \in base
  <2>1. /\ i \in Move(base, 44, 4, 12) <=> i \in Nat /\ 12 <= i /\ i < 12 + 4 /\ i - 12 + 44 \in base
        /\ i \in Move(base, 46, 2, 8) <=> i \in Nat /\ 8 <= i /\ i < 8 + 2 /\ i - 8 + 46 \in base
        /\ i \in Move(base, 42, 2, 8) <=> i \in Nat /\ 8 <= i /\ i < 8 + 2 /\ i - 8 + 42 \in base
        /\ i \in Move(base, 42, 6, 0) <=> i \in Nat /\ 0 <= i /\ i < 0 + 6 /\ i - 0 + 42 \in base
        /\ i \in Move(base, 40, 6, 0) <=> i \in Nat /\ 0 <= i /\ i < 0 + 6 /\ i - 0 + 40 \in base
        /\ i \in Move(base, 36, 6, 0) <=> i \in Nat /\ 0 <= i /\ i < 0 + 6 /\ i - 0 + 36 \in base
    BY <1>1, InMove
  <2> QED
    BY <2>1
<1>5. CASE map = "Fixed"
  BY <1>2, <1>3, <1>4, <1>5 DEF Word0, At12, At8, At0
<1>6. CASE map = "Bulk"
  BY <1>2, <1>3, <1>4, <1>6 DEF Word0, At12, At8, At0
<1>7. CASE map = "Target"
  BY <1>2, <1>3, <1>4, <1>7 DEF Word0, At12, At8, At0
<1>8. CASE map = "General"
  BY <1>2, <1>3, <1>4, <1>8 DEF Word0, At12, At8, At0
<1> QED
  BY <1>5, <1>6, <1>7, <1>8, Maps

\* One position of register 0 after the other.
LEMMA Word0At ==
  ASSUME NEW map \in Served, NEW c \in CommandType, NEW base, base \subseteq 0 .. 47, NEW i
  PROVE  /\ i \in 24 .. 30 => (i \in Word0(map, c, base) <=> i - 24 \in c.island)
         /\ i \in 20 .. 22 => (i \in Word0(map, c, base) <=> i - 20 \in Map[map])
         /\ i \in 16 .. 17 => (i \in Word0(map, c, base) <=> i - 16 \in c.len)
         /\ i \in 12 .. 15 => (i \in Word0(map, c, base) <=> At12(map, c, base, i - 12))
         /\ i \in 8 .. 9 => (i \in Word0(map, c, base) <=> At8(map, c, base, i - 8))
         /\ i \in 0 .. 5 => (i \in Word0(map, c, base) <=> At0(map, c, base, i))
<1> DEFINE In == i \in Word0(map, c, base)
<1>0. In <=> /\ i \in Nat
             /\ \/ i = 31
                \/ i \in 24 .. 30 /\ i - 24 \in c.island
                \/ i \in 20 .. 22 /\ i - 20 \in Map[map]
                \/ i \in 16 .. 17 /\ i - 16 \in c.len
                \/ i \in 12 .. 15 /\ At12(map, c, base, i - 12)
                \/ i \in 8 .. 9 /\ At8(map, c, base, i - 8)
                \/ i \in 0 .. 5 /\ At0(map, c, base, i)
  BY InWord0
<1> HIDE DEF In
<1>1. i \in 24 .. 30 => (In <=> i - 24 \in c.island)
  BY <1>0
<1>2. i \in 20 .. 22 => (In <=> i - 20 \in Map[map])
  BY <1>0
<1>3. i \in 16 .. 17 => (In <=> i - 16 \in c.len)
  BY <1>0
<1>4. i \in 12 .. 15 => (In <=> At12(map, c, base, i - 12))
  BY <1>0
<1>5. i \in 8 .. 9 => (In <=> At8(map, c, base, i - 8))
  BY <1>0
<1>6. i \in 0 .. 5 => (In <=> At0(map, c, base, i))
  BY <1>0
<1> QED
  BY <1>1, <1>2, <1>3, <1>4, <1>5, <1>6 DEF In

LEMMA Field ==
  ASSUME NEW map \in Served, NEW c \in CommandType, NEW base, base \subseteq 0 .. 47, NEW i
  PROVE  /\ i \in 0 .. 6 => (i + 24 \in Word0(map, c, base) <=> i \in c.island)
         /\ i \in 0 .. 2 => (i + 20 \in Word0(map, c, base) <=> i \in Map[map])
         /\ i \in 0 .. 1 => (i + 16 \in Word0(map, c, base) <=> i \in c.len)
         /\ i \in 0 .. 3 => (i + 12 \in Word0(map, c, base) <=> At12(map, c, base, i))
         /\ i \in 0 .. 1 => (i + 8 \in Word0(map, c, base) <=> At8(map, c, base, i))
         /\ i \in 0 .. 5 => (i \in Word0(map, c, base) <=> At0(map, c, base, i))
<1>1. ASSUME i \in 0 .. 6 PROVE i + 24 \in Word0(map, c, base) <=> i \in c.island
  <2> DEFINE j == i + 24
  <2>1. j \in 24 .. 30 /\ j - 24 = i
    BY <1>1
  <2> HIDE DEF j
  <2>2. j \in Word0(map, c, base) <=> i \in c.island
    BY <2>1, Word0At
  <2> QED
    BY <2>2 DEF j
<1>2. ASSUME i \in 0 .. 2 PROVE i + 20 \in Word0(map, c, base) <=> i \in Map[map]
  <2> DEFINE j == i + 20
  <2>1. j \in 20 .. 22 /\ j - 20 = i
    BY <1>2
  <2> HIDE DEF j
  <2>2. j \in Word0(map, c, base) <=> i \in Map[map]
    BY <2>1, Word0At
  <2> QED
    BY <2>2 DEF j
<1>3. ASSUME i \in 0 .. 1 PROVE i + 16 \in Word0(map, c, base) <=> i \in c.len
  <2> DEFINE j == i + 16
  <2>1. j \in 16 .. 17 /\ j - 16 = i
    BY <1>3
  <2> HIDE DEF j
  <2>2. j \in Word0(map, c, base) <=> i \in c.len
    BY <2>1, Word0At
  <2> QED
    BY <2>2 DEF j
<1>4. ASSUME i \in 0 .. 3 PROVE i + 12 \in Word0(map, c, base) <=> At12(map, c, base, i)
  <2> DEFINE j == i + 12
  <2>1. j \in 12 .. 15 /\ j - 12 = i
    BY <1>4
  <2> HIDE DEF j
  <2>2. j \in Word0(map, c, base) <=> At12(map, c, base, i)
    BY <2>1, Word0At
  <2> QED
    BY <2>2 DEF j
<1>5. ASSUME i \in 0 .. 1 PROVE i + 8 \in Word0(map, c, base) <=> At8(map, c, base, i)
  <2> DEFINE j == i + 8
  <2>1. j \in 8 .. 9 /\ j - 8 = i
    BY <1>5
  <2> HIDE DEF j
  <2>2. j \in Word0(map, c, base) <=> At8(map, c, base, i)
    BY <2>1, Word0At
  <2> QED
    BY <2>2 DEF j
<1> QED
  BY <1>1, <1>2, <1>3, <1>4, <1>5, Word0At

\* What the device takes out of a register.
LEMMA Extracted ==
  ASSUME NEW r, r \subseteq Nat, NEW i
  PROVE  /\ i \in Move(r, 24, 7, 0) <=> i \in 0 .. 6 /\ i + 24 \in r
         /\ i \in Move(r, 20, 3, 0) <=> i \in 0 .. 2 /\ i + 20 \in r
         /\ i \in Move(r, 16, 2, 0) <=> i \in 0 .. 1 /\ i + 16 \in r
         /\ i \in Move(r, 12, 4, 0) <=> i \in 0 .. 3 /\ i + 12 \in r
         /\ i \in Move(r, 8, 2, 0) <=> i \in 0 .. 1 /\ i + 8 \in r
         /\ i \in Move(r, 0, 6, 0) <=> i \in 0 .. 5 /\ i \in r
<1>1. i \in Move(r, 24, 7, 0) <=> i \in 0 .. 6 /\ i + 24 \in r
  <2>1. i \in Move(r, 24, 7, 0) <=> i \in Nat /\ 0 <= i /\ i < 0 + 7 /\ i - 0 + 24 \in r
    BY InMove
  <2>2. i \in Nat => i - 0 + 24 = i + 24 /\ i + 0 = i
    OBVIOUS
  <2> QED
    BY <2>1, <2>2
<1>2. i \in Move(r, 20, 3, 0) <=> i \in 0 .. 2 /\ i + 20 \in r
  <2>1. i \in Move(r, 20, 3, 0) <=> i \in Nat /\ 0 <= i /\ i < 0 + 3 /\ i - 0 + 20 \in r
    BY InMove
  <2>2. i \in Nat => i - 0 + 20 = i + 20 /\ i + 0 = i
    OBVIOUS
  <2> QED
    BY <2>1, <2>2
<1>3. i \in Move(r, 16, 2, 0) <=> i \in 0 .. 1 /\ i + 16 \in r
  <2>1. i \in Move(r, 16, 2, 0) <=> i \in Nat /\ 0 <= i /\ i < 0 + 2 /\ i - 0 + 16 \in r
    BY InMove
  <2>2. i \in Nat => i - 0 + 16 = i + 16 /\ i + 0 = i
    OBVIOUS
  <2> QED
    BY <2>1, <2>2
<1>4. i \in Move(r, 12, 4, 0) <=> i \in 0 .. 3 /\ i + 12 \in r
  <2>1. i \in Move(r, 12, 4, 0) <=> i \in Nat /\ 0 <= i /\ i < 0 + 4 /\ i - 0 + 12 \in r
    BY InMove
  <2>2. i \in Nat => i - 0 + 12 = i + 12 /\ i + 0 = i
    OBVIOUS
  <2> QED
    BY <2>1, <2>2
<1>5. i \in Move(r, 8, 2, 0) <=> i \in 0 .. 1 /\ i + 8 \in r
  <2>1. i \in Move(r, 8, 2, 0) <=> i \in Nat /\ 0 <= i /\ i < 0 + 2 /\ i - 0 + 8 \in r
    BY InMove
  <2>2. i \in Nat => i - 0 + 8 = i + 8 /\ i + 0 = i
    OBVIOUS
  <2> QED
    BY <2>1, <2>2
<1>6. i \in Move(r, 0, 6, 0) <=> i \in 0 .. 5 /\ i \in r
  <2>1. i \in Move(r, 0, 6, 0) <=> i \in Nat /\ 0 <= i /\ i < 0 + 6 /\ i - 0 + 0 \in r
    BY InMove
  <2>2. i \in Nat => i - 0 + 0 = i + 0 /\ i + 0 = i
    OBVIOUS
  <2> QED
    BY <2>1, <2>2
<1> QED
  BY <1>1, <1>2, <1>3, <1>4, <1>5, <1>6

LEMMA InWord1 ==
  ASSUME NEW map \in Served, NEW base, base \subseteq 0 .. 47, NEW i
  PROVE  i \in Word1(map, base) <=>
           i \in 0 .. 31 /\ i + (48 - base_addr_width[map]) \in base
<1>1. base \subseteq Nat /\ 48 - base_addr_width[map] \in Nat
  BY Maps DEF base_addr_width
<1>2. i \in Move(base, 48 - base_addr_width[map], 32, 0) <=>
        i \in Nat /\ 0 <= i /\ i < 0 + 32 /\ i - 0 + (48 - base_addr_width[map]) \in base
  BY <1>1, InMove
<1> QED
  BY <1>2 DEF Word1, Served

\* The map type is read back from register 0.
LEMMA MapDecoded ==
  ASSUME NEW map \in Served, NEW c \in CommandType, NEW base, base \subseteq 0 .. 47
  PROVE  Move(Word0(map, c, base), 20, 3, 0) = Map[map]
<1> DEFINE f == Move(Word0(map, c, base), 20, 3, 0)
<1>1. Word0(map, c, base) \subseteq Nat
  BY InWord0
<1>2. \A i : i \in f <=> i \in 0 .. 2 /\ i \in Map[map]
  <2> SUFFICES ASSUME NEW i PROVE i \in f <=> i \in 0 .. 2 /\ i \in Map[map]
    OBVIOUS
  <2>1. i \in f <=> i \in 0 .. 2 /\ i + 20 \in Word0(map, c, base)
    BY <1>1, Extracted
  <2>2. i \in 0 .. 2 => (i + 20 \in Word0(map, c, base) <=> i \in Map[map])
    BY Field
  <2> HIDE DEF f
  <2> QED
    BY <2>1, <2>2
<1> HIDE DEF f
<1>3. f = Map[map]
  <2>1. \A i : i \in Map[map] => i \in 0 .. 2
    BY Maps
  <2>2. \A i : i \in f <=> i \in Map[map]
    BY <1>2, <2>1
  <2> QED
    BY <2>2
<1> QED
  BY <1>3 DEF f

LEMMA FieldsDecoded ==
  ASSUME NEW map \in Served, NEW c \in CommandType, NEW base, base \subseteq 0 .. 47
  PROVE  LET r0 == Word0(map, c, base)
         IN  /\ Move(r0, 24, 7, 0) = c.island
             /\ Move(r0, 16, 2, 0) = c.len
             /\ map # "General" => Move(r0, 12, 4, 0) = c.target
             /\ map \in {"Fixed", "Bulk"} => Move(r0, 8, 2, 0) = c.token
             /\ map = "Fixed" => Move(r0, 0, 6, 0) = c.action
<1> DEFINE r0 == Word0(map, c, base)
<1>1. r0 \subseteq Nat
  BY InWord0
<1>2. /\ c.island \subseteq 0 .. 6 /\ c.len \subseteq 0 .. 1 /\ c.target \subseteq 0 .. 3
      /\ c.token \subseteq 0 .. 1 /\ c.action \subseteq 0 .. 5
  BY DEF CommandType
<1>3. \A i : /\ i \in 0 .. 6 => (i + 24 \in r0 <=> i \in c.island)
             /\ i \in 0 .. 1 => (i + 16 \in r0 <=> i \in c.len)
             /\ i \in 0 .. 3 => (i + 12 \in r0 <=> At12(map, c, base, i))
             /\ i \in 0 .. 1 => (i + 8 \in r0 <=> At8(map, c, base, i))
             /\ i \in 0 .. 5 => (i \in r0 <=> At0(map, c, base, i))
  BY Field
<1> HIDE DEF r0
<1>4. \A i : /\ i \in Move(r0, 24, 7, 0) <=> i \in 0 .. 6 /\ i + 24 \in r0
             /\ i \in Move(r0, 16, 2, 0) <=> i \in 0 .. 1 /\ i + 16 \in r0
             /\ i \in Move(r0, 12, 4, 0) <=> i \in 0 .. 3 /\ i + 12 \in r0
             /\ i \in Move(r0, 8, 2, 0) <=> i \in 0 .. 1 /\ i + 8 \in r0
             /\ i \in Move(r0, 0, 6, 0) <=> i \in 0 .. 5 /\ i \in r0
  BY <1>1, Extracted
<1>5. Move(r0, 24, 7, 0) = c.island
  BY <1>2, <1>3, <1>4
<1>6. Move(r0, 16, 2, 0) = c.len
  BY <1>2, <1>3, <1>4
<1>7. map # "General" => Move(r0, 12, 4, 0) = c.target
  BY <1>2, <1>3, <1>4 DEF At12
<1>8. map \in {"Fixed", "Bulk"} => Move(r0, 8, 2, 0) = c.token
  BY <1>2, <1>3, <1>4 DEF At8
<1>9. map = "Fixed" => Move(r0, 0, 6, 0) = c.action
  BY <1>2, <1>3, <1>4 DEF At0
<1> QED
  BY <1>5, <1>6, <1>7, <1>8, <1>9 DEF r0

\* Where the device puts the pieces of the base address.
LEMMA Piece1 ==
  ASSUME NEW map \in Served, NEW base, base \subseteq 0 .. 47,
         NEW low \in Nat, low = 48 - base_addr_width[map], NEW i
  PROVE  i \in Move(Word1(map, base), 0, 32, low) <=> i \in low .. low + 31 /\ i \in base
<1> DEFINE r == Word1(map, base)
<1>1. r \subseteq Nat /\ \A j : j \in r <=> j \in 0 .. 31 /\ j + low \in base
  <2>1. \A j : j \in r <=> j \in 0 .. 31 /\ j + (48 - base_addr_width[map]) \in base
    BY InWord1
  <2> HIDE DEF r
  <2> QED
    BY <2>1
<1> HIDE DEF r
<1>2. i \in Move(r, 0, 32, low) <=> i \in Nat /\ low <= i /\ i < low + 32 /\ i - low + 0 \in r
  BY <1>1, InMove
<1>3. i \in Nat /\ low <= i /\ i < low + 32 <=> i \in low .. low + 31
  OBVIOUS
<1>4. i \in low .. low + 31 => i - low + 0 \in 0 .. 31 /\ i - low + 0 + low = i
  OBVIOUS
<1>5. i \in low .. low + 31 => (i - low + 0 \in r <=> i \in base)
  BY <1>1, <1>4
<1>6. i \in Move(r, 0, 32, low) <=> i \in low .. low + 31 /\ i \in base
  BY <1>2, <1>3, <1>5
<1> QED
  BY <1>6 DEF r

LEMMA Piece0 ==
  ASSUME NEW map \in Served, NEW c \in CommandType, NEW base, base \subseteq 0 .. 47,
         NEW to \in Nat, NEW i
  PROVE  LET r0 == Word0(map, c, base)
         IN  /\ i \in Move(r0, 0, 6, to) <=> i \in to .. to + 5 /\ At0(map, c, base, i - to)
             /\ i \in Move(r0, 8, 2, to) <=> i \in to .. to + 1 /\ At8(map, c, base, i - to)
             /\ i \in Move(r0, 12, 4, to) <=> i \in to .. to + 3 /\ At12(map, c, base, i - to)
<1> DEFINE r == Word0(map, c, base)
           j == i - to
<1>1. r \subseteq Nat
  BY InWord0
<1>2. /\ j \in 0 .. 3 => (j + 12 \in r <=> At12(map, c, base, j))
      /\ j \in 0 .. 1 => (j + 8 \in r <=> At8(map, c, base, j))
      /\ j \in 0 .. 5 => (j \in r <=> At0(map, c, base, j))
  <2> HIDE DEF j
  <2> QED
    BY Field
<1>3. /\ i \in to .. to + 3 => j \in 0 .. 3
      /\ i \in to .. to + 1 => j \in 0 .. 1
      /\ i \in to .. to + 5 => j \in 0 .. 5 /\ j + 0 = j
  OBVIOUS
<1>4. /\ i \in Nat /\ to <= i /\ i < to + 6 <=> i \in to .. to + 5
      /\ i \in Nat /\ to <= i /\ i < to + 2 <=> i \in to .. to + 1
      /\ i \in Nat /\ to <= i /\ i < to + 4 <=> i \in to .. to + 3
  OBVIOUS
<1>5. /\ i \in Move(r, 0, 6, to) <=> i \in Nat /\ to <= i /\ i < to + 6 /\ j + 0 \in r
      /\ i \in Move(r, 8, 2, to) <=> i \in Nat /\ to <= i /\ i < to + 2 /\ j + 8 \in r
      /\ i \in Move(r, 12, 4, to) <=> i \in Nat /\ to <= i /\ i < to + 4 /\ j + 12 \in r
  <2> HIDE DEF r
  <2>1. 0 \in Nat /\ 6 \in Nat /\ 8 \in Nat /\ 2 \in Nat /\ 12 \in Nat /\ 4 \in Nat
    OBVIOUS
  <2>2. i \in Move(r, 0, 6, to) <=> i \in Nat /\ to <= i /\ i < to + 6 /\ i - to + 0 \in r
    BY <1>1, <2>1, InMove
  <2>3. i \in Move(r, 8, 2, to) <=> i \in Nat /\ to <= i /\ i < to + 2 /\ i - to + 8 \in r
    BY <1>1, <2>1, InMove
  <2>4. i \in Move(r, 12, 4, to) <=> i \in Nat /\ to <= i /\ i < to + 4 /\ i - to + 12 \in r
    BY <1>1, <2>1, InMove
  <2> QED
    BY <2>2, <2>3, <2>4
<1> HIDE DEF r, j
<1>6. /\ i \in Move(r, 0, 6, to) <=> i \in to .. to + 5 /\ At0(map, c, base, j)
      /\ i \in Move(r, 8, 2, to) <=> i \in to .. to + 1 /\ At8(map, c, base, j)
      /\ i \in Move(r, 12, 4, to) <=> i \in to .. to + 3 /\ At12(map, c, base, j)
  BY <1>2, <1>3, <1>4, <1>5
<1> QED
  BY <1>6 DEF r, j

\* The address of the device's command.
Joined(map, r0, r1, off) ==
  LET low == 48 - base_addr_width[map]
  IN  Move(r1, 0, 32, low) \union off
        \union (IF map # "Fixed" THEN Move(r0, 0, 6, low + 32) ELSE {})
        \union (IF map \in {"Target", "General"} THEN Move(r0, 8, 2, low + 38) ELSE {})
        \union (IF map = "General" THEN Move(r0, 12, 4, low + 40) ELSE {})

\* What the device makes of its registers if it takes them to be of a map type.
DecodedAs(map) ==
  [island |-> Move(reg.r0, 24, 7, 0), len |-> Move(reg.r0, 16, 2, 0),
   target |-> IF map = "General" THEN {} ELSE Move(reg.r0, 12, 4, 0),
   token |-> IF map \in {"Fixed", "Bulk"} THEN Move(reg.r0, 8, 2, 0) ELSE {},
   action |-> IF map = "Fixed" THEN Move(reg.r0, 0, 6, 0) ELSE {},
   address |-> Joined(map, reg.r0, reg.r1, offset)]

LEMMA AddressDecoded ==
  ASSUME NEW map \in Served, NEW c \in CommandType, NEW base, base \subseteq 0 .. 47,
         \A b \in base : b >= 48 - base_addr_width[map]
  PROVE  \A i : i \in Joined(map, Word0(map, c, base), Word1(map, base), {}) <=> i \in base
<1> SUFFICES ASSUME NEW i
             PROVE  i \in Joined(map, Word0(map, c, base), Word1(map, base), {}) <=> i \in base
  OBVIOUS
<1> DEFINE r0 == Word0(map, c, base)
           r1 == Word1(map, base)
<1>0. i \in base => i \in 0 .. 47 /\ i >= 48 - base_addr_width[map]
  OBVIOUS
<1>1. CASE map = "Fixed"
  <2>1. base_addr_width[map] = 32
    BY <1>1 DEF base_addr_width
  <2>2. i \in Move(r1, 0, 32, 16) <=> i \in 16 .. 47 /\ i \in base
    <3>1. 16 \in Nat /\ 16 = 48 - base_addr_width[map] /\ 16 + 31 = 47
      BY <2>1
    <3>2. i \in Move(r1, 0, 32, 16) <=> i \in 16 .. 16 + 31 /\ i \in base
      BY <3>1, Piece1
    <3> QED
      BY <3>2
  <2>3. Joined(map, r0, r1, {}) = Move(r1, 0, 32, 16)
    BY <1>1, <2>1 DEF Joined
  <2> QED
    BY <1>0, <2>1, <2>2, <2>3
<1>2. CASE map = "Bulk"
  <2>1. base_addr_width[map] = 38
    BY <1>2 DEF base_addr_width
  <2>2. i \in Move(r1, 0, 32, 10) <=> i \in 10 .. 41 /\ i \in base
    <3>1. 10 \in Nat /\ 10 = 48 - base_addr_width[map] /\ 10 + 31 = 41
      BY <2>1
    <3>2. i \in Move(r1, 0, 32, 10) <=> i \in 10 .. 10 + 31 /\ i \in base
      BY <3>1, Piece1
    <3> QED
      BY <3>2
  <2>3. i \in Move(r0, 0, 6, 42) <=> i \in 42 .. 47 /\ i \in base
    <3>1. i \in Move(r0, 0, 6, 42) <=> i \in 42 .. 42 + 5 /\ At0(map, c, base, i - 42)
      BY Piece0
    <3>2. i \in 42 .. 47 => i - 42 + 42 = i
      OBVIOUS
    <3> QED
      BY <1>2, <3>1, <3>2 DEF At0
  <2>4. Joined(map, r0, r1, {}) = Move(r1, 0, 32, 10) \union Move(r0, 0, 6, 42)
    BY <1>2, <2>1 DEF Joined
  <2> QED
    BY <1>0, <2>1, <2>2, <2>3, <2>4
<1>3. CASE map = "Target"
  <2>1. base_addr_width[map] = 40
    BY <1>3 DEF base_addr_width
  <2>2. i \in Move(r1, 0, 32, 8) <=> i \in 8 .. 39 /\ i \in base
    <3>1. 8 \in Nat /\ 8 = 48 - base_addr_width[map] /\ 8 + 31 = 39
      BY <2>1
    <3>2. i \in Move(r1, 0, 32, 8) <=> i \in 8 .. 8 + 31 /\ i \in base
      BY <3>1, Piece1
    <3> QED
      BY <3>2
  <2>3. i \in Move(r0, 0, 6, 40) <=> i \in 40 .. 45 /\ i \in base
    <3>1. i \in Move(r0, 0, 6, 40) <=> i \in 40 .. 40 + 5 /\ At0(map, c, base, i - 40)
      BY Piece0
    <3>2. i \in 40 .. 45 => i - 40 + 40 = i
      OBVIOUS
    <3> QED
      BY <1>3, <3>1, <3>2 DEF At0
  <2>4. i \in Move(r0, 8, 2, 46) <=> i \in 46 .. 47 /\ i \in base
    <3>1. i \in Move(r0, 8, 2, 46) <=> i \in 46 .. 46 + 1 /\ At8(map, c, base, i - 46)
      BY Piece0
    <3>2. i \in 46 .. 47 => i - 46 + 46 = i
      OBVIOUS
    <3> QED
      BY <1>3, <3>1, <3>2 DEF At8
  <2>5. Joined(map, r0, r1, {}) =
          Move(r1, 0, 32, 8) \union Move(r0, 0, 6, 40) \union Move(r0, 8, 2, 46)
    BY <1>3, <2>1 DEF Joined
  <2> QED
    BY <1>0, <2>1, <2>2, <2>3, <2>4, <2>5
<1>4. CASE map = "General"
  <2>1. base_addr_width[map] = 44
    BY <1>4 DEF base_addr_width
  <2>2. i \in Move(r1, 0, 32, 4) <=> i \in 4 .. 35 /\ i \in base
    <3>1. 4 \in Nat /\ 4 = 48 - base_addr_width[map] /\ 4 + 31 = 35
      BY <2>1
    <3>2. i \in Move(r1, 0, 32, 4) <=> i \in 4 .. 4 + 31 /\ i \in base
      BY <3>1, Piece1
    <3> QED
      BY <3>2
  <2>3. i \in Move(r0, 0, 6, 36) <=> i \in 36 .. 41 /\ i \in base
    <3>1. i \in Move(r0, 0, 6, 36) <=> i \in 36 .. 36 + 5 /\ At0(map, c, base, i - 36)
      BY Piece0
    <3>2. i \in 36 .. 41 => i - 36 + 36 = i
      OBVIOUS
    <3> QED
      BY <1>4, <3>1, <3>2 DEF At0
  <2>4. i \in Move(r0, 8, 2, 42) <=> i \in 42 .. 43 /\ i \in base
    <3>1. i \in Move(r0, 8, 2, 42) <=> i \in 42 .. 42 + 1 /\ At8(map, c, base, i - 42)
      BY Piece0
    <3>2. i \in 42 .. 43 => i - 42 + 42 = i
      OBVIOUS
    <3> QED
      BY <1>4, <3>1, <3>2 DEF At8
  <2>5. i \in Move(r0, 12, 4, 44) <=> i \in 44 .. 47 /\ i \in base
    <3>1. i \in Move(r0, 12, 4, 44) <=> i \in 44 .. 44 + 3 /\ At12(map, c, base, i - 44)
      BY Piece0
    <3>2. i \in 44 .. 47 => i - 44 + 44 = i
      OBVIOUS
    <3> QED
      BY <1>4, <3>1, <3>2 DEF At12
  <2>6. Joined(map, r0, r1, {}) =
          Move(r1, 0, 32, 4) \union Move(r0, 0, 6, 36) \union Move(r0, 8, 2, 42)
            \union Move(r0, 12, 4, 44)
    BY <1>4, <2>1 DEF Joined
  <2> QED
    BY <1>0, <2>1, <2>2, <2>3, <2>4, <2>5, <2>6
<1> QED
  BY <1>1, <1>2, <1>3, <1>4, Maps

-----------------------------------------------------------------------------
(* The sequences of calls                                                  *)

WordsType == [r0 : SUBSET (0 .. 31), r1 : SUBSET (0 .. 31)]

\* The registers are those of the last call, and the cache is theirs or fresh.
IInv ==
  /\ log2_bar_size \in Sizes /\ exp_bar_map \in MapType /\ request \in CommandType
  /\ outcome \in {"none", "ok", "panic"} /\ offset \subseteq request.address
  /\ reg \in WordsType /\ cached \in {Zero, reg}
  /\ outcome = "ok" /\ exp_bar_map # "Explicit" =>
       \E base \in SUBSET (0 .. 47) :
         /\ base \subseteq request.address /\ offset = request.address \ base
         /\ \A b \in base : b >= 48 - base_addr_width[exp_bar_map]
         /\ reg = Words(exp_bar_map, request, base)

\* The commands the callers make fit in their fields.
LEMMA BitsFit ==
  /\ \A n \in 0 .. 127 : Bits(n) \in SUBSET (0 .. 6)
  /\ \A n \in 0 .. 15 : Bits(n) \in SUBSET (0 .. 3)
  /\ \A n \in 0 .. 63 : Bits(n) \in SUBSET (0 .. 5)
  /\ \A n \in 0 .. 3 : Bits(n) \in SUBSET (0 .. 1)
  BY LowBits

LEMMA NoRequestFits == NoRequest \in CommandType /\ NoRequest.address = {}
<1>1. /\ Bits(0) \in SUBSET (0 .. 6) /\ Bits(0) \in SUBSET (0 .. 3)
      /\ Bits(0) \in SUBSET (0 .. 5) /\ Bits(0) \in SUBSET (0 .. 1)
  BY BitsFit
<1>2. Command(0, 0, 0, 0, 0, {}) \in CommandType
  BY <1>1 DEF Command, CommandType
<1> QED
  BY <1>2 DEF NoRequest, Command

LEMMA XpbFits ==
  ASSUME NEW island \in Islands, NEW address, NEW xpbm \in BOOLEAN
  PROVE  /\ XpbRequest(island, address, xpbm) \in CommandType
         /\ XpbRequest(island, address, xpbm).address \subseteq 0 .. 47
<1> DEFINE moved == Move(Bits(island), 0, 7, 24)
           a == (address \intersect 0 .. 23) \union moved \union (IF xpbm THEN {31} ELSE {})
           k == IF xpbm THEN ChipExec ELSE island
<1>1. moved \subseteq 0 .. 47
  <2>1. Bits(island) \subseteq Nat
    BY DEF Bits
  <2>2. \A i : i \in moved <=> i \in Nat /\ 24 <= i /\ i < 24 + 7 /\ i - 24 + 0 \in Bits(island)
    BY <2>1, InMove
  <2> HIDE DEF moved
  <2> QED
    BY <2>2
<1>2. a \subseteq 0 .. 47
  <2> HIDE DEF moved
  <2>1. \A i \in 0 .. 23 : i \in 0 .. 47
    OBVIOUS
  <2>2. (IF xpbm THEN {31} ELSE {}) \subseteq 0 .. 47
    OBVIOUS
  <2> QED
    BY <1>1, <2>1, <2>2
<1>3. k \in 0 .. 127 /\ Ct \in 0 .. 15
  BY IslandsAssumption DEF ChipExec, Ct
<1>4. a \in SUBSET Nat
  <2> HIDE DEF a
  <2> QED
    BY <1>2
<1>5. XpbRequest(island, address, xpbm) = Command(k, Ct, 0, 0, 0, a)
  BY DEF XpbRequest
<1> HIDE DEF a, k
<1>6. Command(k, Ct, 0, 0, 0, a) \in CommandType
  <2>1. /\ Bits(k) \in SUBSET (0 .. 6) /\ Bits(Ct) \in SUBSET (0 .. 3)
        /\ Bits(0) \in SUBSET (0 .. 5) /\ Bits(0) \in SUBSET (0 .. 1)
    BY <1>3, BitsFit
  <2> QED
    BY <1>4, <2>1 DEF Command, CommandType
<1>7. Command(k, Ct, 0, 0, 0, a).address = a
  BY DEF Command
<1> QED
  BY <1>2, <1>5, <1>6, <1>7

LEMMA MemFits ==
  ASSUME NEW island \in Islands, NEW engine \in Engine, NEW address \in CppAddrs,
         NEW action \in {read_command[engine], write_command[engine]}
  PROVE  /\ MemRequest(island, engine, action, address) \in CommandType
         /\ MemRequest(island, engine, action, address).address = address
<1> DEFINE t == IF engine = "Cls" THEN Cls ELSE Mem
<1>1. engine \in {"Atomic32", "Bulk32", "Bulk64", "Cls"}
  BY DEF Engine, cpp_length
<1>2. action \in 0 .. 63 /\ cpp_length[engine] \in 0 .. 3
  BY <1>1 DEF read_command, write_command, cpp_length
<1>3. t \in 0 .. 15
  BY DEF Cls, Mem
<1>4. MemRequest(island, engine, action, address) =
        Command(island, t, action, 0, cpp_length[engine], address)
  BY DEF MemRequest
<1> HIDE DEF t
<1>5. address \in SUBSET Nat /\ island \in 0 .. 127
  <2>1. address \in SUBSET (0 .. 63)
    BY AddressAssumption
  <2>2. island \in 0 .. 127
    BY IslandsAssumption
  <2> QED
    BY <2>1, <2>2
<1>6. Command(island, t, action, 0, cpp_length[engine], address) \in CommandType
  <2> DEFINE l == cpp_length[engine]
  <2>1. /\ Bits(island) \in SUBSET (0 .. 6) /\ Bits(t) \in SUBSET (0 .. 3)
        /\ Bits(action) \in SUBSET (0 .. 5) /\ Bits(0) \in SUBSET (0 .. 1)
        /\ Bits(l) \in SUBSET (0 .. 1)
    BY <1>2, <1>3, <1>5, BitsFit
  <2> HIDE DEF l
  <2>2. Command(island, t, action, 0, l, address) \in CommandType
    BY <1>5, <2>1 DEF Command, CommandType
  <2> QED
    BY <2>2 DEF l
<1> QED
  BY <1>4, <1>6 DEF Command

LEMMA BaseFits ==
  ASSUME IInv, NEW address
  PROVE  Base(address) \in SUBSET (0 .. 47) /\ Base(address) \subseteq address
  BY SizesAssumption DEF IInv, Base

LEMMA WordsFit ==
  ASSUME NEW map \in MapType, NEW c \in CommandType, NEW base \in SUBSET (0 .. 47)
  PROVE  Words(map, c, base) \in WordsType /\ Words(map, c, base) # Zero
<1>1. 31 \in Word0(map, c, base)
  BY DEF Word0
<1>2. CASE map \in Served
  <2>1. \A i : i \in Word0(map, c, base) => i \in 0 .. 31
    BY <1>2, InWord0
  <2>2. \A i : i \in Word1(map, base) => i \in 0 .. 31
    BY <1>2, InWord1
  <2> QED
    BY <1>1, <2>1, <2>2 DEF Words, WordsType, Zero
<1>3. CASE map = "Explicit"
  <2>1. \A i : i \in Move({2}, 0, 3, 20) <=> i \in Nat /\ 20 <= i /\ i < 20 + 3 /\ i - 20 + 0 \in {2}
    BY InMove
  <2>2. Word0(map, c, base) = {31} \union Move({2}, 0, 3, 20) /\ Word1(map, base) = {}
    BY <1>3, Maps DEF Word0, Word1
  <2>3. \A i : i \in Word0(map, c, base) => i \in 0 .. 31
    BY <2>1, <2>2
  <2> QED
    BY <1>1, <2>2, <2>3 DEF Words, WordsType, Zero
<1> QED
  BY <1>2, <1>3 DEF Served

\* A call that is not refused leaves its own words in the registers: the write is
\* skipped only when they are there.
LEMMA ConfigureStep ==
  ASSUME IInv, NEW map \in MapType, NEW c \in CommandType, NEW base \in SUBSET (0 .. 47),
         base \subseteq c.address, Configure(map, c, base)
  PROVE  IInv'
<1>1. /\ exp_bar_map' = map /\ request' = c /\ offset' = c.address \ base
      /\ log2_bar_size' = log2_bar_size
  BY DEF Configure
<1>2. CASE Refused(map, base)
  <2>1. outcome' = "panic" /\ cached' = cached /\ reg' = reg
    BY <1>2 DEF Configure
  <2> QED
    BY <1>1, <2>1 DEF IInv
<1>3. CASE ~Refused(map, base)
  <2> DEFINE w == Words(map, c, base)
  <2>1. outcome' = "ok" /\ cached' = w /\ reg' = IF cached = w THEN reg ELSE w
    BY <1>3 DEF Configure
  <2>2. w \in WordsType /\ w # Zero
    BY WordsFit
  <2>3. reg' = w
    BY <2>1, <2>2 DEF IInv
  <2>4. map # "Explicit" => \A b \in base : b >= 48 - base_addr_width[map]
    <3> SUFFICES ASSUME map # "Explicit", NEW b \in base PROVE b >= 48 - base_addr_width[map]
      OBVIOUS
    <3>1. ~(b < 48 - base_addr_width[map])
      BY <1>3 DEF Refused
    <3>2. base_addr_width[map] \in Nat /\ b \in Nat
      BY Maps DEF base_addr_width
    <3> QED
      BY <3>1, <3>2
  <2> QED
    BY <1>1, <2>1, <2>2, <2>3, <2>4 DEF IInv
<1> QED
  BY <1>2, <1>3

LEMMA InitIInv == Init => IInv
<1> SUFFICES ASSUME Init PROVE IInv
  OBVIOUS
<1>1. Zero \in WordsType
  BY DEF Zero, WordsType
<1> QED
  BY <1>1, NoRequestFits, Maps DEF Init, IInv

LEMMA NextIInv == IInv /\ [Next]_vars => IInv'
<1> SUFFICES ASSUME IInv, [Next]_vars PROVE IInv'
  OBVIOUS
<1>1. CASE New
  <2>1. /\ exp_bar_map' = "Fixed" /\ cached' = Zero /\ request' = NoRequest /\ offset' = {}
        /\ outcome' = "none" /\ log2_bar_size' = log2_bar_size /\ reg' = reg
    BY <1>1 DEF New
  <2> QED
    BY <2>1, NoRequestFits, Maps DEF IInv
<1>2. ASSUME NEW i \in Islands, NEW a \in XpbAddrs, NEW g \in BOOLEAN, XpbAccess(i, a, g)
      PROVE  IInv'
  <2> DEFINE c == XpbRequest(i, a, g)
  <2>1. c \in CommandType /\ Configure("Bulk", c, Base(c.address))
    BY <1>2, XpbFits DEF XpbAccess
  <2> HIDE DEF c
  <2> QED
    BY <2>1, ConfigureStep, BaseFits, Maps
<1>3. ASSUME NEW i \in Islands, NEW e \in Engine, NEW a \in CppAddrs, MemAccess(i, e, a)
      PROVE  IInv'
  <2>1. PICK action \in {read_command[e], write_command[e]} :
          Configure("Fixed", MemRequest(i, e, action, a), Base(a))
    BY <1>3 DEF MemAccess
  <2> DEFINE c == MemRequest(i, e, action, a)
  <2>2. c \in CommandType /\ c.address = a
    BY MemFits
  <2> HIDE DEF c
  <2> QED
    BY <2>1, <2>2, ConfigureStep, BaseFits, Maps DEF c
<1>4. ASSUME NEW m \in MapType \ {"Explicit"}, NEW i \in Islands, NEW a \in CppAddrs,
             CppAccess(m, i, a)
      PROVE  IInv'
  <2> DEFINE c == Command(i, Mem, 42, 2, 3, a)
  <2>1. c \in CommandType /\ c.address = a
    <3>1. /\ Bits(i) \in SUBSET (0 .. 6) /\ Bits(Mem) \in SUBSET (0 .. 3)
          /\ Bits(42) \in SUBSET (0 .. 5) /\ Bits(2) \in SUBSET (0 .. 1)
          /\ Bits(3) \in SUBSET (0 .. 1)
      BY IslandsAssumption, BitsFit DEF Mem
    <3>2. c \in CommandType
      <4>1. a \in SUBSET (0 .. 63)
        BY AddressAssumption
      <4> QED
        BY <3>1, <4>1 DEF Command, CommandType
    <3> QED
      BY <3>2 DEF Command
  <2>2. Configure(m, c, Base(a))
    BY <1>4 DEF CppAccess
  <2> HIDE DEF c
  <2> QED
    BY <2>1, <2>2, ConfigureStep, BaseFits
<1>5. CASE TriggerBar
  <2>1. Configure("Explicit", NoRequest, {}) /\ {} \in SUBSET (0 .. 47)
    BY <1>5 DEF TriggerBar
  <2> QED
    BY <2>1, ConfigureStep, NoRequestFits, Maps
<1>6. CASE DataBar
  <2> DEFINE c == [NoRequest EXCEPT !.address = SramBase]
  <2>1. SramBase \in SUBSET (0 .. 47) /\ SramBase \in SUBSET Nat
    BY DEF SramBase
  <2>2. c \in CommandType /\ c.address = SramBase
    BY <2>1, NoRequestFits DEF CommandType
  <2>3. Configure("General", c, SramBase)
    BY <1>6 DEF DataBar
  <2> HIDE DEF c
  <2> QED
    BY <2>1, <2>2, <2>3, ConfigureStep, Maps
<1>7. CASE UNCHANGED vars
  BY <1>7 DEF vars, IInv
<1> QED
  BY <1>1, <1>2, <1>3, <1>4, <1>5, <1>6, <1>7 DEF Next

LEMMA Invariance == Spec => []IInv
  BY InitIInv, NextIInv, PTL DEF Spec

\* Every variable has its type, and the words fit in 32 bits, for every address.
THEOREM TypeCorrect == Spec => []TypeOK
<1>1. IInv => TypeOK
  <2>1. Zero \in WordsType
    BY DEF Zero, WordsType
  <2> QED
    BY <2>1 DEF IInv, TypeOK, WordsType
<1> QED
  BY <1>1, Invariance, PTL

\* The device gets the command that was asked for, whatever was accessed before.
THEOREM DeviceDecodes == Spec => []DeviceDecodesRequest
<1>1. IInv => DeviceDecodesRequest
  <2> SUFFICES ASSUME IInv, outcome = "ok", exp_bar_map # "Explicit"
               PROVE  Decoded = Carried(exp_bar_map, request)
    BY DEF DeviceDecodesRequest
  <2> DEFINE m == exp_bar_map
             c == request
  <2>1. PICK base \in SUBSET (0 .. 47) :
          /\ base \subseteq c.address /\ offset = c.address \ base
          /\ \A b \in base : b >= 48 - base_addr_width[m]
          /\ reg = Words(m, c, base)
    BY DEF IInv
  <2>2. m \in Served /\ c \in CommandType
    BY DEF IInv, Served
  <2>3. reg.r0 = Word0(m, c, base) /\ reg.r1 = Word1(m, base)
    BY <2>1 DEF Words
  <2>4. (CHOOSE n \in MapType : Map[n] = Move(reg.r0, 20, 3, 0)) = m
    <3>1. Move(Word0(m, c, base), 20, 3, 0) = Map[m]
      BY <2>2, MapDecoded
    <3>2. m \in MapType /\ \A n \in MapType : Map[n] = Map[m] => n = m
      BY <2>2, Maps DEF Served
    <3> DEFINE f == Move(reg.r0, 20, 3, 0)
    <3>3. f = Map[m]
      BY <2>3, <3>1
    <3> HIDE DEF f
    <3>4. (CHOOSE n \in MapType : Map[n] = f) = m
      BY <3>2, <3>3
    <3> QED
      BY <3>4 DEF f
  <2>5. Joined(m, reg.r0, reg.r1, offset) = c.address
    <3>1. \A i : i \in Joined(m, reg.r0, reg.r1, {}) <=> i \in base
      BY <2>1, <2>2, <2>3, AddressDecoded
    <3>2. \A i : i \in Joined(m, reg.r0, reg.r1, offset) <=>
                   i \in Joined(m, reg.r0, reg.r1, {}) \/ i \in offset
      BY DEF Joined
    <3>3. \A i : i \in Joined(m, reg.r0, reg.r1, offset) <=> i \in c.address
      BY <2>1, <3>1, <3>2
    <3> QED
      BY <3>3 DEF Joined
  <2>6. /\ Move(reg.r0, 24, 7, 0) = c.island /\ Move(reg.r0, 16, 2, 0) = c.len
        /\ m # "General" => Move(reg.r0, 12, 4, 0) = c.target
        /\ m \in {"Fixed", "Bulk"} => Move(reg.r0, 8, 2, 0) = c.token
        /\ m = "Fixed" => Move(reg.r0, 0, 6, 0) = c.action
    <3> HIDE DEF m, c
    <3>1. ASSUME NEW r, r = Word0(m, c, base)
          PROVE  /\ Move(r, 24, 7, 0) = c.island /\ Move(r, 16, 2, 0) = c.len
                 /\ m # "General" => Move(r, 12, 4, 0) = c.target
                 /\ m \in {"Fixed", "Bulk"} => Move(r, 8, 2, 0) = c.token
                 /\ m = "Fixed" => Move(r, 0, 6, 0) = c.action
      BY <2>2, <3>1, FieldsDecoded
    <3> QED
      BY <2>3, <3>1
  <2> DEFINE t == IF m = "General" THEN {} ELSE c.target
             k == IF m \in {"Fixed", "Bulk"} THEN c.token ELSE {}
             a == IF m = "Fixed" THEN c.action ELSE {}
  <2>7. Decoded = [island |-> c.island, len |-> c.len, target |-> t, token |-> k, action |-> a,
                   address |-> c.address]
    <3>1. Decoded = DecodedAs(CHOOSE n \in MapType : Map[n] = Move(reg.r0, 20, 3, 0))
      BY DEF Decoded, DecodedAs, Joined
    <3>2. Decoded = DecodedAs(m)
      BY <2>4, <3>1
    <3> QED
      BY <2>5, <2>6, <3>2 DEF DecodedAs
  <2>8. Carried(m, c) = [island |-> c.island, len |-> c.len, target |-> t, token |-> k,
                         action |-> a, address |-> c.address]
    <3>1. Carried(m, c) = [c EXCEPT !.target = t, !.token = k, !.action = a]
      BY DEF Carried
    <3> HIDE DEF t, k, a, c
    <3>2. c = [island |-> c.island, target |-> c.target, action |-> c.action,
               token |-> c.token, len |-> c.len, address |-> c.address]
      BY <2>2 DEF CommandType
    <3> QED
      BY <3>1, <3>2
  <2> QED
    BY <2>7, <2>8
<1> QED
  BY <1>1, Invariance, PTL

\* A window of at least 64 KiB serves every 48-bit address, in a release build.
THEOREM AllAddressesServed == ASSUME ~DebugBuild PROVE Spec => []EveryAddressServed
<1>1. Init => EveryAddressServed
  BY DEF Init, EveryAddressServed
<1>2. ASSUME IInv, NEW map \in MapType, NEW c, NEW base \in SUBSET (0 .. 47),
             Configure(map, c, base),
             log2_bar_size >= 16 => \A b \in base : b >= 48 - base_addr_width[map]
      PROVE  EveryAddressServed'
  <2> SUFFICES ASSUME log2_bar_size >= 16 PROVE ~Refused(map, base)
    BY <1>2 DEF EveryAddressServed, Configure
  <2>1. map # "Explicit" => base_addr_width[map] \in Nat
    BY Maps DEF base_addr_width
  <2> QED
    BY <1>2, <2>1 DEF Refused
<1>3. ASSUME IInv, NEW map \in Served, NEW address, log2_bar_size >= 16
      PROVE  \A b \in Base(address) : b >= 48 - base_addr_width[map]
  <2>1. 48 - base_addr_width[map] <= 16 /\ 48 - base_addr_width[map] \in Nat
    BY Maps DEF base_addr_width
  <2>2. \A b \in Base(address) : b \in Nat /\ b >= 16
    BY <1>3, SizesAssumption DEF Base, IInv
  <2> QED
    BY <2>1, <2>2
<1>4. ASSUME IInv, EveryAddressServed, [Next]_vars PROVE EveryAddressServed'
  <2>1. CASE New
    BY <2>1 DEF New, EveryAddressServed
  <2>2. ASSUME NEW map \in Served, NEW c, NEW address, Configure(map, c, Base(address))
        PROVE  EveryAddressServed'
    BY <1>2, <1>3, <1>4, <2>2, BaseFits DEF Served
  <2>3. CASE TriggerBar
    BY <1>2, <1>4, <2>3, Maps DEF TriggerBar
  <2>4. CASE DataBar
    <3>1. SramBase \in SUBSET (0 .. 47) /\ \A b \in SramBase : b >= 48 - base_addr_width["General"]
      BY DEF SramBase, base_addr_width
    <3> QED
      BY <1>2, <1>4, <2>4, <3>1, Maps DEF DataBar
  <2>5. CASE UNCHANGED vars
    BY <1>4, <2>5 DEF vars, EveryAddressServed
  <2>6. "Bulk" \in Served /\ "Fixed" \in Served
    BY Maps
  <2> QED
    BY <1>4, <2>1, <2>2, <2>3, <2>4, <2>5, <2>6 DEF Next, XpbAccess, MemAccess, CppAccess, Served
<1> QED
  BY <1>1, <1>4, Invariance, PTL DEF Spec
=============================================================================

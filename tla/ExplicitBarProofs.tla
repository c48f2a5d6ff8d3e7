-------------------------- MODULE ExplicitBarProofs --------------------------
(***************************************************************************)
(* Proofs about ExplicitBar: users whose indices differ, any number of     *)
(* commands and addresses, and windows that cover the bits cfg3 has no     *)
(* room for, run their own commands on their own data.                     *)
(***************************************************************************)
EXTENDS ExplicitBar, TLAPS

\* Nothing in the library gives users their indices: each must have one of its own.
DistinctIndices == \A u, v \in Users : Index[u] = Index[v] => u = v

\* The window of an explicit BAR has 64 KiB or more, cfg3 32 of 48 address bits.
WideWindow == 16 <= Cropped /\ Cropped <= LogSize

Word == Fields \union {"none"}
PCs == {"idle", "csr1", "csr2", "csr3", "csr4", "pull", "trigger", "push", "done", "panicked"}
Bits == SUBSET (0 .. 31)

\* What the updates of the registers and of the users' states rely on.
Shape == /\ pc \in [Users -> PCs]
         /\ csr \in [0 .. 3 -> [words : [1 .. 3 -> Word], base : Bits]]
         /\ DOMAIN sram = 0 .. 3 /\ DOMAIN asked = Users
         /\ DOMAIN ran = Users /\ DOMAIN got = Users

\* How far the registers of a user hold the command it asks for.
Written(u) ==
  LET c == csr[Index[u]]
      f == asked[u].fields
      past(S) == pc[u] \in S \union {"pull", "trigger"}
  IN /\ past({"csr2", "csr3", "csr4"}) => c.words[1] = f
     /\ past({"csr3", "csr4"}) => c.words[2] = f
     /\ past({"csr4"}) => c.words[3] = f
     /\ past({}) => c.base = Shifted(Base(asked[u].addr))

\* Its data is in the transfer memory when it triggers, the device's once it has.
Transferred(u) ==
  /\ pc[u] = "trigger" /\ asked[u].pull # "none" => sram[Index[u]] = DataOf(u)
  /\ pc[u] = "push" => sram[Index[u]] = PushData(AskedOf(u))

UserInv(u) ==
  /\ pc[u] \notin {"idle", "panicked"} => asked[u] \in Command
  /\ pc[u] = "pull" => asked[u].pull # "none"
  /\ pc[u] = "push" => asked[u].push \in {"sram", "long"}
  /\ Written(u) /\ Transferred(u)
  /\ pc[u] \in {"push", "done"} => ran[u] = AskedOf(u)
  /\ pc[u] = "done" /\ asked[u].push # "none" => got[u] = PushData(AskedOf(u))

IInv == Shape /\ \A u \in Users : UserInv(u)

USE IndexAssumption, FieldAssumption, AddressAssumption, SizeAssumption

-----------------------------------------------------------------------------
\* The base that cfg3 can hold and the offset together are the address.
LEMMA AddressWhole ==
  ASSUME WideWindow, NEW a \in Addresses
  PROVE  {b + Cropped : b \in Shifted(Base(a))} \union Offset(a) = a
  <1> DEFINE back == {b + Cropped : b \in Shifted(Base(a))}
  <1>1. \A x \in a : x \in Int
    OBVIOUS
  <1>2. ASSUME NEW x \in a PROVE x \in back \union Offset(a)
    <2>1. CASE x < LogSize
      BY <2>1 DEF Offset
    <2>2. CASE x >= LogSize
      <3>1. x - Cropped \in Shifted(Base(a)) /\ (x - Cropped) + Cropped = x
        BY <2>2, <1>1 DEF Base, Shifted, WideWindow
      <3> QED
        BY <3>1
    <2> QED
      BY <2>1, <2>2, <1>1
  <1>3. \A b \in Shifted(Base(a)) : b + Cropped \in a
    BY <1>1 DEF Base, Shifted
  <1>4. back \subseteq a
    BY <1>3
  <1> QED
    BY <1>2, <1>4 DEF Offset

\* What the device runs for a user that has written all its registers.
LEMMA ExecutedIsAsked ==
  ASSUME WideWindow, IInv, NEW u \in Users, pc[u] = "trigger"
  PROVE  Executed(Index[u], Offset(asked[u].addr), asked[u].pull # "none") = AskedOf(u)
  <1> DEFINE c == csr[Index[u]]
  <1>1. asked[u] \in Command /\ Written(u) /\ Transferred(u)
    BY DEF IInv, UserInv
  <1>2. Uniform(c.words) = asked[u].fields
    BY <1>1 DEF Written, Uniform
  <1>3. {b + Cropped : b \in c.base} \union Offset(asked[u].addr) = asked[u].addr
    <2>1. c.base = Shifted(Base(asked[u].addr))
      BY <1>1 DEF Written
    <2>2. asked[u].addr \in Addresses
      BY <1>1 DEF Command
    <2> HIDE DEF c
    <2> QED
      BY <2>1, <2>2, AddressWhole
  <1>4. (IF asked[u].pull # "none" THEN sram[Index[u]] ELSE NoData)
        = (IF asked[u].pull = "none" THEN NoData ELSE DataOf(u))
    BY <1>1 DEF Transferred
  <1> QED
    BY <1>2, <1>3, <1>4 DEF Executed, AskedOf

\* A user whose own state and registers a step leaves alone keeps its invariant.
LEMMA Untouched ==
  ASSUME NEW v \in Users, UserInv(v),
         pc'[v] = pc[v], asked'[v] = asked[v], ran'[v] = ran[v], got'[v] = got[v],
         csr'[Index[v]] = csr[Index[v]], sram'[Index[v]] = sram[Index[v]]
  PROVE  UserInv(v)'
  BY DEF UserInv, Written, Transferred, DataOf, AskedOf, PushData

\* Steps of one user touch nothing another one's invariant speaks of.
LEMMA OthersUntouched ==
  ASSUME DistinctIndices, IInv, NEW u \in Users, User(u), NEW v \in Users, v # u
  PROVE  UserInv(v)'
  <1>1. Index[u] # Index[v] /\ Index[u] \in 0 .. 3 /\ Index[v] \in 0 .. 3
    BY DEF DistinctIndices
  <1>2. /\ pc'[v] = pc[v] /\ asked'[v] = asked[v] /\ ran'[v] = ran[v] /\ got'[v] = got[v]
        /\ csr'[Index[v]] = csr[Index[v]] /\ sram'[Index[v]] = sram[Index[v]]
    <2> USE <1>1 DEF IInv, Shape, Goto
    <2>1. CASE \E c \in Command : Configure(u, c)
      BY <2>1 DEF Configure
    <2>2. CASE expl_bar_config_write(u)
      BY <2>2 DEF expl_bar_config_write, Write, csr_offset
    <2>3. CASE write_data(u)
      BY <2>3 DEF write_data, sram_data_offset
    <2>4. CASE TooLong(u)
      BY <2>4 DEF TooLong
    <2>5. CASE trigger(u)
      BY <2>5 DEF trigger
    <2>6. CASE read_data(u)
      BY <2>6 DEF read_data
    <2>7. CASE Return(u)
      BY <2>7 DEF Return
    <2> QED
      BY <2>1, <2>2, <2>3, <2>4, <2>5, <2>6, <2>7 DEF User
  <1> QED
    BY <1>2, Untouched DEF IInv

-----------------------------------------------------------------------------
\* Registers, states and domains keep their shapes.
LEMMA ShapeStep ==
  ASSUME WideWindow, IInv, NEW u \in Users, User(u)
  PROVE  Shape'
  <1>1. asked[u].fields \in Fields \/ pc[u] \in {"idle", "panicked"}
    BY DEF IInv, UserInv, Command
  <1>2. ASSUME pc[u] \notin {"idle", "panicked"}
        PROVE  Shifted(Base(asked[u].addr)) \in Bits
    <2>1. asked[u].addr \in SUBSET (0 .. 47)
      BY <1>2 DEF IInv, UserInv, Command
    <2>2. \A x \in Base(asked[u].addr) : x \in 0 .. 47
      BY <2>1 DEF Base
    <2> QED
      BY <2>2 DEF Shifted, Bits, WideWindow
  <1> USE DEF IInv, Shape, Goto, PCs
  <1>3. CASE \E c \in Command : Configure(u, c)
    BY <1>3 DEF Configure
  <1>4. CASE expl_bar_config_write(u)
    <2>1. ASSUME NEW n \in 1 .. 3, NEW from \in {"csr1", "csr2", "csr3"},
                 NEW to \in PCs, Write(u, n, from, to)
          PROVE  Shape'
      BY <2>1, <1>1 DEF Write, csr_offset, Word
    <2>2. ASSUME NEW to \in PCs, Write(u, 4, "csr4", to)
          PROVE  Shape'
      <3>1. /\ pc[u] = "csr4" /\ Index[u] \in 0 .. 3
            /\ Shifted(Base(asked[u].addr)) \in Bits
        BY <2>2, <1>2 DEF Write
      <3> QED
        BY <2>2, <3>1 DEF Write, csr_offset
    <2> HIDE DEF IInv, Shape, Goto
    <2>3. \/ \E n \in 1 .. 3, from \in {"csr1", "csr2", "csr3"}, to \in PCs : Write(u, n, from, to)
          \/ \E to \in PCs : Write(u, 4, "csr4", to)
      BY <1>4 DEF expl_bar_config_write
    <2> QED
      BY <2>1, <2>2, <2>3
  <1>5. CASE write_data(u)
    BY <1>5 DEF write_data, sram_data_offset
  <1>6. CASE TooLong(u)
    BY <1>6 DEF TooLong
  <1>7. CASE trigger(u)
    BY <1>7 DEF trigger, AfterTrigger
  <1>8. CASE read_data(u)
    BY <1>8 DEF read_data
  <1>9. CASE Return(u)
    BY <1>9 DEF Return
  <1> QED
    BY <1>3, <1>4, <1>5, <1>6, <1>7, <1>8, <1>9 DEF User

\* A register that is written holds the command, and the ones before it still do.
LEMMA WriteStep ==
  ASSUME WideWindow, IInv, NEW u \in Users, expl_bar_config_write(u)
  PROVE  UserInv(u)'
  <1> DEFINE i == Index[u]
             f == asked[u].fields
  <1>1. /\ asked[u] \in Command /\ asked' = asked
        /\ pc[u] \notin {"push", "done", "trigger", "pull", "idle", "panicked"}
    BY DEF expl_bar_config_write, Write, Goto, IInv, UserInv
  <1>2. ASSUME NEW n \in 1 .. 3, NEW from, NEW to, Write(u, n, from, to)
        PROVE  /\ csr'[i].words[n] = f
               /\ \A m \in 1 .. 3 : m # n => csr'[i].words[m] = csr[i].words[m]
    BY <1>2 DEF Write, csr_offset, IInv, Shape
  <1> USE <1>1 DEF UserInv, Written, Transferred
  <1>3. CASE Write(u, 1, "csr1", "csr2")
    <2>1. pc'[u] = "csr2"
      BY <1>3 DEF Write, Goto, IInv, Shape
    <2> QED
      BY <2>1, <1>2, <1>3
  <1>4. CASE Write(u, 2, "csr2", "csr3")
    <2>1. pc[u] = "csr2" /\ pc'[u] = "csr3" /\ csr[i].words[1] = f
      BY <1>4 DEF Write, Goto, IInv, Shape
    <2> QED
      BY <2>1, <1>2, <1>4
  <1>5. CASE Write(u, 3, "csr3", "csr4")
    <2>1. pc[u] = "csr3" /\ pc'[u] = "csr4" /\ csr[i].words[1] = f /\ csr[i].words[2] = f
      BY <1>5 DEF Write, Goto, IInv, Shape
    <2> QED
      BY <2>1, <1>2, <1>5
  <1>6. CASE Write(u, 4, "csr4", IF asked[u].pull = "none" THEN "trigger" ELSE "pull")
    <2>1. /\ pc[u] = "csr4" /\ pc'[u] = IF asked[u].pull = "none" THEN "trigger" ELSE "pull"
          /\ csr[i].words[1] = f /\ csr[i].words[2] = f /\ csr[i].words[3] = f
      BY <1>6 DEF Write, Goto, IInv, Shape
    <2>2. /\ csr'[i].words = csr[i].words
          /\ csr'[i].base = Shifted(Base(asked[u].addr))
      BY <1>6 DEF Write, csr_offset, IInv, Shape
    <2> QED
      BY <2>1, <2>2
  <1> QED
    BY <1>3, <1>4, <1>5, <1>6 DEF expl_bar_config_write

\* A user's own step keeps its invariant.
LEMMA OwnStep ==
  ASSUME WideWindow, IInv, NEW u \in Users, User(u)
  PROVE  UserInv(u)'
  <1>1. CASE \E c \in Command : Configure(u, c)
    BY <1>1 DEF Configure, Goto, IInv, Shape, UserInv, Written, Transferred
  <1>2. CASE expl_bar_config_write(u)
    BY <1>2, WriteStep
  <1>3. CASE write_data(u)
    <2>1. /\ pc[u] = "pull" /\ pc'[u] = "trigger" /\ sram'[Index[u]] = DataOf(u)
          /\ asked' = asked /\ csr' = csr
      BY <1>3 DEF write_data, sram_data_offset, Goto, IInv, Shape
    <2> QED
      BY <2>1 DEF UserInv, Written, Transferred, IInv, DataOf
  <1>4. CASE TooLong(u)
    BY <1>4 DEF TooLong, Goto, IInv, Shape, UserInv, Written, Transferred
  <1>5. CASE trigger(u)
    <2>1. asked[u] \in Command /\ pc[u] = "trigger"
      BY <1>5 DEF trigger, Goto, IInv, UserInv
    <2>2. ran'[u] = AskedOf(u)
      BY <1>5, <2>1, ExecutedIsAsked DEF trigger, IInv, Shape
    <2>3. /\ asked[u].push = "direct" => got'[u] = PushData(AskedOf(u))
          /\ asked[u].push \in {"sram", "long"} => sram'[Index[u]] = PushData(AskedOf(u))
      BY <1>5, <2>1, ExecutedIsAsked DEF trigger, IInv, Shape
    <2>4. /\ asked' = asked
          /\ pc'[u] = IF asked[u].push \in {"sram", "long"} THEN "push" ELSE "done"
      BY <1>5 DEF trigger, Goto, AfterTrigger, IInv, Shape
    <2>5. AskedOf(u)' = AskedOf(u)
      BY <2>4 DEF AskedOf, DataOf
    <2> QED
      BY <2>1, <2>2, <2>3, <2>4, <2>5
      DEF UserInv, Written, Transferred, Command, Push, PushData
  <1>6. CASE read_data(u)
    <2>1. /\ pc[u] = "push" /\ pc'[u] = "done" /\ asked' = asked /\ ran' = ran
          /\ got'[u] = sram[Index[u]]
      BY <1>6 DEF read_data, sram_data_offset, Goto, IInv, Shape
    <2>2. AskedOf(u)' = AskedOf(u)
      BY <2>1 DEF AskedOf, DataOf
    <2> QED
      BY <2>1, <2>2 DEF UserInv, Written, Transferred, PushData, IInv
  <1>7. CASE Return(u)
    BY <1>7 DEF Return, Goto, IInv, Shape, UserInv, Written, Transferred
  <1> QED
    BY <1>1, <1>2, <1>3, <1>4, <1>5, <1>6, <1>7 DEF User

LEMMA InitIInv == Init => IInv
  BY DEF Init, IInv, Shape, UserInv, Written, Transferred, Zero, Word, Bits, PCs

LEMMA NextIInv ==
  ASSUME DistinctIndices, WideWindow, IInv, [Next]_vars
  PROVE  IInv'
  <1>1. ASSUME NEW u \in Users, User(u)
        PROVE  IInv'
    <2>1. \A v \in Users : UserInv(v)'
      BY <1>1, OwnStep, OthersUntouched
    <2> QED
      BY <1>1, <2>1, ShapeStep DEF IInv
  <1>2. CASE UNCHANGED vars
    BY <1>2 DEF vars, IInv, Shape, UserInv, Written, Transferred, AskedOf, DataOf, PushData
  <1> QED
    BY <1>1, <1>2 DEF Next

\* Every user runs its own command on its own data, although the registers of a BAR
\* are written one by one while other users write theirs.
THEOREM CommandsAreOwn ==
  ASSUME DistinctIndices, WideWindow PROVE Spec => []OwnCommands
  <1>1. IInv => OwnCommands
    BY DEF IInv, UserInv, OwnCommands
  <1> QED
    BY <1>1, InitIInv, NextIInv, PTL DEF Spec

\* Every user gets the data that the device made of its own command, through the
\* transfer memory that all indices share or directly.
THEOREM DataIsOwn ==
  ASSUME DistinctIndices, WideWindow PROVE Spec => []OwnData
  <1>1. IInv => OwnData
    BY DEF IInv, UserInv, OwnData
  <1> QED
    BY <1>1, InitIInv, NextIInv, PTL DEF Spec

\* Every variable has its type, and only commands that move data get to the steps
\* that move it.
THEOREM TypeCorrect ==
  ASSUME DistinctIndices, WideWindow PROVE Spec => []TypeOK
  <1>1. IInv => TypeOK
    BY DEF IInv, Shape, UserInv, TypeOK, PCs, Bits
  <1> QED
    BY <1>1, InitIInv, NextIInv, PTL DEF Spec
=============================================================================

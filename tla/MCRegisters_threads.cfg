\* A thread whose number is different in hexadecimal.
CONSTANTS
  First <- FirstCore
  Thread = {10, 16}
  Written <- TableEnds
  Value = {300}
  MaxWrites = 1
  Contents <- Distinct
SPECIFICATION RegSpec
INVARIANTS AnswersAsDescribed

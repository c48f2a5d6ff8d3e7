\* All reads, and writes at the ends of the tables, on the first core and two threads.
CONSTANTS
  First <- FirstCore
  Thread = {0, 8}
  Written <- TableEnds
  Value = {300, 16000}
  MaxWrites = 1
  Contents <- Distinct
SPECIFICATION RegSpec
INVARIANTS RegTypeOK AnswersAsDescribed WriteReaches
PROPERTIES OnlyNamedChanges

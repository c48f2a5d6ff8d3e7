\* Writing mhartid, the example of the README.
CONSTANTS
  First <- FirstCore
  Thread = {0}
  Written <- ReadmeWrites
  Value = {300}
  MaxWrites = 1
  Contents <- Distinct
SPECIFICATION RegSpec
INVARIANTS AnswersAsDescribed

SPECIFICATION FairSpec
CONSTANTS
  Page = 2
  MaxFile = 7
INVARIANTS TerminatorFits WholeFile Released
PROPERTY ReadReturns

SPECIFICATION LiveSpec
CONSTANTS
  Calls = {c1, c2, c3}
  NoCall = NoCall
INVARIANTS MutualExclusion TicketsInLine
PROPERTIES ImplementsLease WaitersAreServed

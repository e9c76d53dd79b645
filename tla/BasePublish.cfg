\* Two invocations on one machine or on two, one fault besides images that do not pass.
SPECIFICATION FairSpec
CONSTANTS
  one = one
  two = two
  here = here
  there = there
  Old = old
  Proc = {one, two}
  Machine = {here, there}
  ArgvBudget = 12
  Settings <- TheSettings
  Homes <- TheHomes
  Commands <- TheCommands
  Available <- TheAvailable
  MaxFault = 1
INVARIANTS CapsFitTheHost EverySourceIsFormatted
  ReportsArePublished PublishedWasSmoked FailuresStayApart
PROPERTIES CommandsEnd

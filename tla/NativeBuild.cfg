\* Two invocations on one project, one edit, one fault.
SPECIFICATION FairSpec
CONSTANTS
  one = one
  two = two
  Proc = {one, two}
  Hosts <- TheHosts
  Projects <- TheProjects
  Inode = {1, 2, 3, 4, 5, 6, 7, 8}
  Ways <- TheWays
  Attempts = 2
  MaxVersion = 2
  MaxFault = 1
INVARIANTS RunsWhatItBuilt BuildsWithItsToolchain
PROPERTIES ImagesAreKept StableNameStays Converges

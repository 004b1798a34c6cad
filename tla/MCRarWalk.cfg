\* Every archive of two blocks and a main header, with every damage.
SPECIFICATION FairSpec
CONSTANTS
  MaxBlocks = 2
  Sniff = 20
  Archives <- MCArchives
INVARIANTS OwnData SoundMembersRead EndNoteMeansAll
PROPERTY WalkEnds
CHECK_DEADLOCK FALSE

CONSTANTS
  DTLHDRDATALEN = 1
  DTSLOTDATALEN = 2
  DirEntry <- MCDirEntry
SPECIFICATION Spec
INVARIANTS TypeOK OutputFits NameGathered WholeCharacters AsciiExact

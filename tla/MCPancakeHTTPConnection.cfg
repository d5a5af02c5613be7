\* Two clients in a process that a signal may end at any time.
CONSTANTS
  Client = {c1, c2}
  Architecture = "LinuxPoll"
  BufferMin = 2
  BufferMax = 3
  FileSizes = {0, 1, 3, 4}
SPECIFICATION FairSpec
INVARIANTS
  TimersMatch
  HandlersMatch
  NobodyForgotten
  NothingLeft
  AnswersInOrder
  ReadingDisabled
  StopsClean
PROPERTIES
  NoKeepAliveInShutdown
  ShutdownCompletes
CHECK_DEADLOCK FALSE

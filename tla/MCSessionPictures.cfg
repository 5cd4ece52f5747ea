CONSTANTS
  main = main
  other = other
  Actor = {main, other}
  Inode = {1, 2, 3}
  NoFile = NoFile
  Nobody = Nobody
  None = None
  Leftover = Leftover
  Attempts = 4
  MaxIterations = 2
  MaxResumes = 1
  MaxPics = 1
  KeepPics = 1
  MaxLines = 24
  Plans <- MCPicturePlans
SPECIFICATION Spec
INVARIANT IndexKeepsPictures
CHECK_DEADLOCK FALSE

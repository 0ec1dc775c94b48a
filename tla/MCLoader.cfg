SPECIFICATION Spec
CONSTANTS
  FS_MAX_OPEN_FILES = 3
  HostFile = {"program", "short", "no start", "vm"}
  DlxFile = {"dlx"}
  HostFd = {2, 3, 4}
  CHUNK = 9
  INFO = 7
  HEADER = 2
  Contents <- MCContents
INVARIANTS
  ImageFollowsFile
PROPERTIES
  LoadsGiveBack
  ProgramsAreRead

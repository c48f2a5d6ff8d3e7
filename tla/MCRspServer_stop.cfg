\* Ctrl-C while the client says nothing.
CONSTANTS
  Cmd = {"query"}
  MayClose = FALSE
  MayStop = TRUE
SPECIFICATION FairSpec
PROPERTIES StopHonoured
\* The server ends, and so does the client.
CHECK_DEADLOCK FALSE

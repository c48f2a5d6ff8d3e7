\* A client that goes away.
CONSTANTS
  Cmd = {"query", "noack"}
  MayClose = TRUE
  MayStop = FALSE
SPECIFICATION FairSpec
PROPERTIES CloseNoticed
\* The server ends, and so does the client.
CHECK_DEADLOCK FALSE

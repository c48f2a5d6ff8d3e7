\* All requests, a client that may go away, Ctrl-C at any time.
CONSTANTS
  Cmd = {"query", "noack", "detach", "kill", "panic"}
  MayClose = TRUE
  MayStop = TRUE
SPECIFICATION FairSpec
INVARIANTS TypeOK InStep AckModesAgree
PROPERTIES StopsUnlessBlocked RequestsAnswered
\* The server ends, and so does the client.
CHECK_DEADLOCK FALSE

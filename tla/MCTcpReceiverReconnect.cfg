\* After a successful reconnect nobody receives.
CONSTANTS
  Fds = {f1}
  NoFd = NoFd
  Sizes = {1}
  MaxLines = 1
  MAX_BUFFER_SIZE = 1
  HandlerMayThrow = FALSE
SPECIFICATION FairSpec
PROPERTY ConnectedIsServed

SPECIFICATION Spec
CONSTANTS
  MaxFd = 3
  Clients = {"secure_channel"}
PROPERTY ResponseOrError

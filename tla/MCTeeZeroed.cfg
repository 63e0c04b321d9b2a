SPECIFICATION Spec
CONSTANTS
  MaxFd = 3
  Clients = {"send_to_sep"}
PROPERTY AppFilesKept

SPECIFICATION Spec
CONSTANTS
  MaxFd = 3
  Clients = {"hwk_keyid_ops", "hwk_keyid_pass_ops", "hwk_crypto", "pass_to_fw"}
INVARIANTS HandlesLive ClosesOnlyOpened
PROPERTIES ContextClosedLast KeepsCallPromise

SPECIFICATION Spec
CONSTANTS
  MaxFd = 3
  Clients = {"hwk_ss_wipe", "hwk_keyid_ops", "hwk_dbg", "hwk_keyid_pass_ops", "hwk_crypto", "tee_create_disk_enc_key", "tee_verify_disk_enc_masterkey", "pass_to_fw", "send_to_sep", "secure_channel", "tee_load_applet", "tee_unload_applet"}
INVARIANTS TypeOK NothingLeft BufferOwned

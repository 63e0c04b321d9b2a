------------------------------- MODULE TeeCall -------------------------------
(***************************************************************************)
(* What a library call that talks to an applet promises its caller: it     *)
(* runs the applet command at most once, says "ok" only if the command     *)
(* ran, and leaves the caller's own files alone.  It may say "error" of a  *)
(* command that ran, because the answer can get lost: then the caller      *)
(* cannot tell, and asking again may run the command again.                *)
(***************************************************************************)
CONSTANTS Clients, Files

VARIABLES
  files,      \* files the process has open for itself
  call,       \* library call under way, or "none"
  ran,        \* how often the applet command of this call has run
  answer      \* result of the last call

callVars == <<files, call, ran, answer>>

CallInit == /\ files \in SUBSET Files
            /\ call = "none"
            /\ ran = 0
            /\ answer = "none"

Start(c) == /\ call = "none"
            /\ call' = c
            /\ ran' = 0
            /\ answer' = "none"
            /\ UNCHANGED files

RunCommand == /\ call # "none"
              /\ ran = 0
              /\ ran' = 1
              /\ UNCHANGED <<files, call>>
              /\ answer' = answer

Finish == /\ call # "none"
          /\ call' = "none"
          /\ answer' \in IF ran = 0 THEN {"error"} ELSE {"ok", "error"}
          /\ UNCHANGED <<files, ran>>

Refuse == /\ call = "none"
          /\ answer' = "error"
          /\ ran' = 0
          /\ UNCHANGED <<files, call>>

(* Between two calls the process opens and closes files as it likes.       *)
FilesChange == /\ call = "none"
               /\ files' \in SUBSET Files
               /\ UNCHANGED <<call, ran, answer>>

CallNext == (\E c \in Clients : Start(c)) \/ RunCommand \/ Finish \/ Refuse \/ FilesChange

CallSpec == CallInit /\ [][CallNext]_callVars
=============================================================================

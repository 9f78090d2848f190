----------------------------- MODULE ProcessTable -----------------------------
(* The processes of the program on one host, for the modules about files.   *)
CONSTANTS
  Processes,  \* started one after another or at once
  UserOf,     \* the user each of them runs as
  NoArgs      \* those started without an argument

SameUser(p, q) == UserOf[p] = UserOf[q]

===============================================================================

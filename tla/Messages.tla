------------------------------ MODULE Messages ------------------------------
(***************************************************************************)
(* The messages that travel on the internal broadcast channel of the       *)
(* server (server_lib/structs.rs, `Message`), and the rule by which a      *)
(* connection handler decides whether one is meant for its client          *)
(* (connection_handling/utils.rs, `write_branch`).                         *)
(*                                                                         *)
(* The text of a message is left out.  What is kept of it is whether it    *)
(* `fits` in one packet: `prepare_packet` refuses more than 1010 bytes,    *)
(* and the handlers and id_record put a prefix ("nick: ", "master: ")      *)
(* before a text that was already as long as a packet allows.              *)
(***************************************************************************)
CONSTANTS
  Conns,   \* the connections (client socket addresses) the server may accept
  Master   \* the server's own address: the sender of what the admin types

ASSUME MasterIsNoConn == Master \notin Conns

Message == [kind : {"Broadcast", "Personal"}, address : Conns \cup {Master},
            fits : BOOLEAN]

Broadcast(address, fits) == [kind |-> "Broadcast", address |-> address, fits |-> fits]

Personal(address) == [kind |-> "Personal", address |-> address, fits |-> TRUE]

\* `write_branch`: a Broadcast goes to everybody but its sender, a Personal
\* message to nobody but its addressee.
MeantFor(c, m) == IF m.kind = "Broadcast" THEN m.address # c ELSE m.address = c
=============================================================================

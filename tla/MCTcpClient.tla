---------------------------- MODULE MCTcpClient -----------------------------
(* Instances of TcpClient for model checking. *)
EXTENDS TcpClient
=============================================================================

---------------------------- MODULE MCTcpServer ----------------------------
(* Addresses of the connections of small instances of TcpServer.            *)
EXTENDS TcpServer

\* All connections come from one address.
OneIp == [c \in Conns |-> CHOOSE ip \in Ips : TRUE]

=============================================================================

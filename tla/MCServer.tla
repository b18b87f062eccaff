------------------------------ MODULE MCServer ------------------------------
(* TLC instances of HttpServer.                                            *)
EXTENDS HttpServer, TLC

Connections == Permutations(Conn)
=============================================================================

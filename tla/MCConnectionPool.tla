-------------------------- MODULE MCConnectionPool --------------------------
(* A small instance of ConnectionPool.                                     *)
EXTENDS ConnectionPool, TLC
=============================================================================

----------------------------- MODULE MCProcess -----------------------------
(* Small instances of Process for TLC.                                     *)
EXTENDS Process

CONSTANTS h1, h2, s1, s2

(* A node of a cluster over Redis and Postgres, and a node alone.          *)
Deployments ==
    {[backend |-> "redis", store |-> "postgres", ring |-> TRUE, raft |-> TRUE, grpc |-> TRUE],
     [backend |-> "memory", store |-> "static", ring |-> FALSE, raft |-> FALSE, grpc |-> FALSE]}

RedisAnswers == [known : BOOLEAN, noeviction : BOOLEAN, limited : BOOLEAN]
=============================================================================

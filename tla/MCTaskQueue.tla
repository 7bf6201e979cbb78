---------------------------- MODULE MCTaskQueue ----------------------------
(***************************************************************************)
(* Values for the constants of TaskQueue on small instances: every agent   *)
(* runs on one runtime, every chat session belongs to one agent.           *)
(***************************************************************************)
EXTENDS TaskQueue

MCRuntimeOf == [a \in Agent |-> CHOOSE r \in Runtime : TRUE]
MCChatAgent == [c \in Chat |-> CHOOSE a \in Agent : TRUE]
Serial == [a \in Agent |-> 1]
Parallel == [a \in Agent |-> 2]
=============================================================================

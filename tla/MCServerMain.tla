---------------------------- MODULE MCServerMain ----------------------------
(***************************************************************************)
(* TLC instance of ServerMain: one thread stands for those that the        *)
(* connection manager starts, and the client that pauses its threads has   *)
(* two of them.                                                            *)
(***************************************************************************)
EXTENDS ServerMain

CONSTANT worker

MCWorkThreads == <<worker>>

MCUsed == {listener, worker}
=============================================================================

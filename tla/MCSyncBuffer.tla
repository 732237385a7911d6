---------------------------- MODULE MCSyncBuffer ----------------------------
(* SyncBuffer for TLC: replies of one and of two bytes.                    *)
EXTENDS SyncBuffer

MCLength == {1, 2}
MCThread == {"session", "worker"}
MCKinds == {"recursive", "plain"}
=============================================================================

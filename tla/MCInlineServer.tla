--------------------------- MODULE MCInlineServer ---------------------------
(* InlineServer for TLC.                                                   *)
EXTENDS InlineServer

CONSTANTS
  Busy,  \* the clients that send
  Rounds \* how many rounds they make

MCMaxRounds == [c \in Conn |-> IF c \in Busy THEN Rounds ELSE 0]
=============================================================================

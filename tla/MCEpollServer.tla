--------------------------- MODULE MCEpollServer ----------------------------
(***************************************************************************)
(* TLC instances of EpollServer: the peers that ask, and how often.  The   *)
(* others only connect and hang up.                                        *)
(***************************************************************************)
EXTENDS EpollServer

CONSTANTS
  Asking,   \* connections whose peers send requests
  Requests  \* the number of requests each of those sends

ASSUME BenchAssumption == Asking \subseteq Conn /\ Requests \in Nat

MCMaxRequests == [c \in Conn |-> IF c \in Asking THEN Requests ELSE 0]
=============================================================================

----------------------------- MODULE TcpClient -----------------------------
(***************************************************************************)
(* The demo client: in a loop it sends a request A and a request B and     *)
(* then receives, once and whatever has come, which may be one answer or   *)
(* several.  It ends when it is killed; the servers never close first, so  *)
(* that the end of its loop, recv returning 0, is not modelled.            *)
(*                                                                         *)
(* What is on its way is where the network has brought it: requests have   *)
(* reached the socket of the server, answers that of the client.           *)
(***************************************************************************)
EXTENDS Naturals

CONSTANTS
  Conn,      \* the connections; each client makes one
  Mortal,    \* the clients that may be killed
  MaxRounds, \* bound: how many rounds each client makes
  MaxKilled  \* bound: a client is killed in one of its first rounds

ASSUME ClientAssumption ==
  Mortal \subseteq Conn /\ MaxRounds \in [Conn -> Nat] /\ MaxKilled \in Nat

VARIABLES
  client,    \* where the client is; "gone": killed
  rounds,
  requests, answers,
  received   \* how many answers the client has taken

clientVars == <<client, rounds, requests, answers, received>>

ClientInit ==
  /\ client = [c \in Conn |-> "connect"]
  /\ rounds = [c \in Conn |-> 0]
  /\ requests = [c \in Conn |-> 0] /\ answers = [c \in Conn |-> 0]
  /\ received = [c \in Conn |-> 0]

Connect(c) ==
  /\ client[c] = "connect"
  /\ client' = [client EXCEPT ![c] = "sendA"]
  /\ UNCHANGED <<rounds, requests, answers, received>>

SendRequest(c, from, to) ==
  /\ client[c] = from
  /\ client' = [client EXCEPT ![c] = to]
  /\ requests' = [requests EXCEPT ![c] = @ + 1]
  /\ UNCHANGED <<rounds, answers, received>>

SendA(c) == rounds[c] < MaxRounds[c] /\ SendRequest(c, "sendA", "sendB")
SendB(c) == SendRequest(c, "sendB", "recv")

Receive(c) ==
  /\ client[c] = "recv" /\ answers[c] > 0
  /\ client' = [client EXCEPT ![c] = "sendA"]
  /\ rounds' = [rounds EXCEPT ![c] = @ + 1]
  /\ received' = [received EXCEPT ![c] = @ + answers[c]]
  /\ answers' = [answers EXCEPT ![c] = 0]
  /\ UNCHANGED requests

Killed(c) ==
  /\ c \in Mortal /\ rounds[c] < MaxKilled
  /\ client[c] \notin {"connect", "gone"}
  /\ client' = [client EXCEPT ![c] = "gone"]
  /\ UNCHANGED <<rounds, requests, answers, received>>

ClientStep(c) == Connect(c) \/ SendA(c) \/ SendB(c) \/ Receive(c)
Client == \E c \in Conn : ClientStep(c) \/ Killed(c)

\* How many requests the client has sent.
Asked(c) ==
  2 * rounds[c] + (CASE client[c] = "sendB" -> 1
                     [] client[c] = "recv" -> 2
                     [] OTHER -> 0)
=============================================================================

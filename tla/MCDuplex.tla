------------------------------ MODULE MCDuplex ------------------------------
(* An instance of Duplex for TLC: a server and two clients.                *)
EXTENDS Duplex, TLC

CONSTANTS server, c1, c2,
  hello, reply,   \* c1 to the server, and what its handler sends back
  offer, accept,  \* a single frame from the server to c1, and what its handler sends back
  ask, answer,    \* a request of c1 and its answer
  hail            \* c2 to the server

TwoClients == {c1, c2}
Seven == {hello, reply, offer, accept, ask, answer, hail}
Six   == Seven \ {offer}

Sender == [m \in Seven |-> CASE m \in {hello, accept, ask} -> c1 [] m = hail -> c2 [] OTHER -> server]
Receiver == [m \in Seven |-> IF m \in {reply, offer, answer} THEN c1 ELSE server]
Kinds == [m \in Seven |-> CASE m = ask -> "REQUEST" [] m = answer -> "RESPONSE" [] OTHER -> "MESSAGE"]
Causes == [m \in Seven |->
  CASE m = reply -> hello [] m = accept -> offer [] m = answer -> ask [] OTHER -> None]
=============================================================================

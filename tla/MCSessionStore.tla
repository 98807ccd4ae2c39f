--------------------------- MODULE MCSessionStore ---------------------------
(* Model values for SessionStore: the keys of two clients, one of them also *)
(* with keys of a width the server does not pack at, every kind of call.    *)
EXTENDS SessionStore

CONSTANTS alice, bob, setup1

MCKeys(sk, width, derived) ==
  [sk |-> sk, seed |-> setup1, width |-> width, digits |-> 3, derived |-> derived]
ServerPP == [width |-> 2, digits |-> 3]

MCRequests ==
  {[op |-> "register", keys |-> MCKeys(alice, 2, TRUE)],
   [op |-> "register_server_side", keys |-> MCKeys(bob, 2, FALSE), pp |-> ServerPP],
   [op |-> "register_server_side", keys |-> MCKeys(bob, 4, FALSE), pp |-> ServerPP],
   [op |-> "get", handle |-> 0],
   [op |-> "get", handle |-> 1],
   [op |-> "len"]}
=============================================================================

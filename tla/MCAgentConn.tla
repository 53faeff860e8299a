----------------------------- MODULE MCAgentConn -----------------------------
(* Instances of AgentConn for TLC. *)
EXTENDS AgentConn

CONSTANTS
  s1, s2,         \* addresses of the server
  t1              \* the address of a tunnel

One == << s1 >>
Two == << s1, s2 >>
=============================================================================

--------------------------- MODULE MCAgentEvents ---------------------------
(* Instances of AgentEvents for TLC: commands are model values. *)
EXTENDS AgentEvents, TLC

CONSTANTS c1, c2, c3  \* commands

\* Coalescing keys: c1 and c2 are pings of one task, c3 has no key.
PingKey == [c \in Commands |-> IF c \in {c1, c2} THEN 1 ELSE 0]
PlainKey == [c \in Commands |-> 0]
=============================================================================

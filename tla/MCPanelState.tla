----------------------------- MODULE MCPanelState -----------------------------
(***************************************************************************)
(* What the panel keeps in memory, for TLC: the samples of reports, the     *)
(* session cache, and the commands and sockets of a node around a rotation  *)
(* of its token.  They share no state: a behaviour is one of the component  *)
(* that its first state chooses, the others rest.                           *)
(***************************************************************************)
EXTENDS MetricIngest, SessionCache, MCAgentEvents

VARIABLE component  \* the component of the behaviour

\* Around the rotation: two sockets beside pulls or beside reports, or one socket
\* beside both.
Slices == {"pulls", "reports", "calls"}
Resting == CASE component = "pulls" -> UNCHANGED call["report"]
             [] component = "reports" -> UNCHANGED call["pull"]
             [] component = "calls" -> UNCHANGED socket[2]

AnyInit ==
    /\ IngestInit /\ SessionInit /\ Init
    /\ component \in {"ingest", "sessions"} \cup Slices

AnyNext ==
    /\ UNCHANGED component
    /\ \/ component = "ingest" /\ IngestNext /\ UNCHANGED <<sessionVars, vars>>
       \/ component = "sessions" /\ SessionNext /\ UNCHANGED <<ingestVars, vars>>
       \/ component \in Slices /\ Next /\ Resting /\ UNCHANGED <<ingestVars, sessionVars>>

AnySpec == AnyInit /\ [][AnyNext]_<<ingestVars, sessionVars, vars, component>>

Symmetric == Permutations(SessionTokens) \cup Permutations(Requests)
=============================================================================

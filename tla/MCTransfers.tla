----------------------------- MODULE MCTransfers -----------------------------
(***************************************************************************)
(* What passes between browsers, the panel and an agent, for TLC: archive   *)
(* uploads, uploads to an agent, a terminal session, and the commands of    *)
(* AgentEvents over each of their two ways to the agent.  They share no     *)
(* state here: a behaviour is one of the component that its first state     *)
(* chooses, the others rest.                                                *)
(***************************************************************************)
EXTENDS UploadStore, RemoteUpload, TerminalSessions, MCAgentEvents

VARIABLE component  \* the component of the behaviour

\* "post" is the POST fallback with the commands and faults of the
\* configuration.  In "restart" its agent also restarts, and c1 or c2, and c3
\* are dispatched.  In "push" those are pushed over two successive sockets,
\* with dropped links and failed token lookups.
Components == {"store", "remote", "terminal", "post", "restart", "push"}

Restarted == INSTANCE AgentEvents WITH FaultKinds <- {"call", "restart"}

Push == INSTANCE AgentEvents WITH
    MaxConns <- 2, MayPost <- FALSE, FaultKinds <- {"drop", "lookup"}

EachInit ==
    /\ StoreInit /\ RemoteInit /\ TerminalInit
    /\ component \in Components
    /\ IF component = "push" THEN Push!Init ELSE Init

OneOfPair == \E c \in {c1, c2} : dispatch'[c].pc = "new"

EachNext ==
    /\ UNCHANGED component
    /\ \/ component = "store" /\ StoreNext /\ UNCHANGED <<remoteVars, terminalVars, vars>>
       \/ component = "remote" /\ RemoteNext /\ UNCHANGED <<storeVars, terminalVars, vars>>
       \/ component = "terminal" /\ TerminalNext /\ UNCHANGED <<storeVars, remoteVars, vars>>
       \/ /\ \/ component = "post" /\ Next
             \/ component = "restart" /\ Restarted!Next /\ OneOfPair
             \/ component = "push" /\ Push!Next /\ OneOfPair
          /\ UNCHANGED <<storeVars, remoteVars, terminalVars>>

EachSpec ==
    EachInit
    /\ [][EachNext]_<<storeVars, remoteVars, terminalVars, vars, component>>

\* The configurations name archives, requests, browsers and the two commands
\* that share a key by the same values.
Symmetric == Permutations(Browsers) \cup Permutations(AgentConns)
=============================================================================

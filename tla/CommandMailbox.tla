-------------------------- MODULE CommandMailbox --------------------------
(***************************************************************************)
(* What one node's command queue promises (web/agent/v2_events.go): an      *)
(* accepted command stays pending until it was handed to the node and the   *)
(* hand-over was acknowledged, until a newer command replaces it or crowds  *)
(* it out, until it expires, or until the node's credential is retired.     *)
(* A command is accepted at most once, and never after it was handed over.  *)
(***************************************************************************)
EXTENDS Integers, FiniteSets

CONSTANTS
    Commands,  \* the commands dispatched to the node
    Key,       \* [Commands -> keys]: a newer command replaces one of its key
    NoKey,     \* the key that replaces nothing
    Limit,     \* commands the mailbox holds
    Lapses     \* TRUE when a command may expire

VARIABLES
    epoch,     \* the credential generation of the node
    accepted,  \* commands taken into the mailbox so far
    pending,   \* commands in the mailbox
    handed     \* commands handed to the node

vars == <<epoch, accepted, pending, handed>>

Init == epoch = 0 /\ accepted = {} /\ pending = {} /\ handed = {}

\* EnqueueV2Event: d is displaced by the newer c.
Displaces(c, d) == \/ Key[c] # NoKey /\ Key[d] = Key[c]
                   \/ Cardinality(pending) >= Limit

Accept(c) ==
    /\ c \notin accepted \union handed
    /\ accepted' = accepted \union {c}
    /\ c \in pending' /\ pending' \subseteq pending \union {c}
    /\ \A d \in pending \ pending' : Displaces(c, d)
    /\ UNCHANGED <<epoch, handed>>

\* A socket write, or a POST answer that reached the agent.
HandOver(S) == handed' = handed \union S /\ UNCHANGED <<epoch, accepted, pending>>

\* AckV2Events: only what was handed over is settled.
Settle(S) ==
    /\ S \subseteq pending \intersect handed
    /\ pending' = pending \ S
    /\ UNCHANGED <<epoch, accepted, handed>>

Lapse(c) == Lapses /\ pending' = pending \ {c} /\ UNCHANGED <<epoch, accepted, handed>>

\* DeleteV2EventQueue, at a rotation.
Retire == epoch' = epoch + 1 /\ pending' = {} /\ UNCHANGED <<accepted, handed>>

Next == \/ \E c \in Commands : Accept(c) \/ Lapse(c)
        \/ \E S \in SUBSET Commands : HandOver(S) \/ Settle(S)
        \/ Retire

Spec == Init /\ [][Next]_vars
=============================================================================

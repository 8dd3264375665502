------------------------- MODULE MaintenanceWindow -------------------------
(***************************************************************************)
(* The suppression rule of internal/maintenance/window.go: whether a node  *)
(* is inside a maintenance window at an instant, when a suppressed alert   *)
(* becomes deliverable, and how long after that it is still worth sending. *)
(*                                                                         *)
(* A window is [start, end, clients]; an empty set of clients covers every *)
(* node.  Instants are natural numbers.                                    *)
(***************************************************************************)
EXTENDS Integers

CONSTANT MaxDeferral     \* how long after deliverAt a deferred alert is still sent

ASSUME MaxDeferralAssumption == MaxDeferral \in Nat

Covers(w, client) == w.clients = {} \/ client \in w.clients

\* Half open: the end of one window is the beginning of the next.
Contains(w, at, client) == Covers(w, client) /\ w.start <= at /\ at < w.end

OpenWindows(at, client, ws) == {w \in ws : Contains(w, at, client)}

Suppressed(at, client, ws) == OpenWindows(at, client, ws) # {}

\* When a suppressed alert becomes deliverable: the end of the soonest-ending
\* open window.  One instant for a stored (finite) schedule, none when no
\* window is open.
DeliverAt(at, client, ws) ==
    LET open == OpenWindows(at, client, ws)
    IN  {w.end : w \in {u \in open : \A v \in open : u.end <= v.end}}

ShouldDeliverDeferred(at, deliverAt) ==
    deliverAt <= at /\ at - deliverAt <= MaxDeferral

LaterOf(a, b) == IF a > b THEN a ELSE b

=============================================================================

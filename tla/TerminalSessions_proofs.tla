----------------------- MODULE TerminalSessions_proofs -----------------------
(***************************************************************************)
(* A terminal session for any number of connections of the browser and of   *)
(* the agent, and any number of mishaps: what ends a session, what ends a   *)
(* shell, and what never takes down a pair that lives.                      *)
(***************************************************************************)
EXTENDS TerminalSessions, SequenceTheorems, TLAPS

-----------------------------------------------------------------------------
(* The inductive invariant. *)

PanelTyped ==
    /\ termSession \in {"none", "open", "gone"}
    /\ browserEnd \in Browsers \cup {NoEnd} /\ agentEnd \in AgentConns \cup {NoEnd}
    /\ forwarding \in BOOLEAN /\ cleanup \in BOOLEAN /\ cleanupFired \in BOOLEAN
    /\ browserStage \in [Browsers -> {"idle", "created", "returned", "offline", "join", "over"}]
    /\ agentStage \in [AgentConns -> {"idle", "checked", "join", "over"}]
    /\ forwarder \in [Pairs -> {"none", "start", "run", "failed", "done", "void"}]
    /\ termRequests \in Nat /\ mishaps \in 0..MaxMishaps

\* Only an open session has ends; they are connections that have come that far.
EndsOK ==
    /\ termSession # "open" => browserEnd = NoEnd /\ agentEnd = NoEnd
    /\ browserEnd # NoEnd => browserStage[browserEnd] # "idle"
    /\ agentEnd # NoEnd => agentStage[agentEnd] \in {"join", "over"}
    /\ cleanup => ~Paired

WireOK ==
    closing \subseteq InUse \ ended /\ ended \subseteq InUse /\ told \subseteq AgentConns

\* A connection of the agent that was attached is the session's, or it has ended or
\* somebody is about to close it.
AttachedKnown ==
    \A a \in AgentConns : agentStage[a] \in {"join", "over"} =>
        a = agentEnd \/ a \in ended \cup closing

\* A forwarder fails for a connection that has ended, or with the session; the one
\* of the session's pair goes on while the session says that it forwards.
ForwardOK ==
    /\ termSession = "none" => ~forwarding /\ \A p \in Pairs : forwarder[p] = "none"
    /\ \A b \in Browsers, a \in AgentConns : forwarder[<<b, a>>] = "failed" =>
         termSession = "gone" \/ {b, a} \cap ended # {}
    /\ termSession = "open" /\ forwarding =>
         Paired /\ forwarder[<<browserEnd, agentEnd>>] \in {"start", "run", "failed"}

PanelInv == PanelTyped /\ EndsOK /\ AttachedKnown /\ ForwardOK /\ SessionWillEnd

\* The agent's tables; a shell has a connection that dialled.
AgentTyped ==
    /\ dial \in [AgentConns -> {"none", "dialled", "making", "reading", "over"}]
    /\ shells \in Nat /\ current \in 0..shells /\ shellOf \in [AgentConns -> 0..shells]
    /\ shellConn \in [1..shells -> AgentConns \cup {NoEnd}]
    /\ shellTimer \in [1..shells -> {"none", "armed", "fired"}]
    /\ leaving \subseteq 1..shells /\ removed \subseteq 1..shells
    /\ 1..shells = ({current} \ {0}) \cup leaving \cup removed
    /\ current \notin leaving \cup removed
    /\ timerFired \subseteq 1..shells
    /\ \A a \in AgentConns : dial[a] = "reading" => shellOf[a] # 0

Dialled ==
    /\ \A a \in AgentConns : dial[a] # "none" => agentStage[a] # "idle"
    /\ \A s \in 1..shells : shellConn[s] # NoEnd => agentStage[shellConn[s]] # "idle"

\* The current shell has a timer, a callback or a reader; a timer that fired has a
\* callback.
CurrentEnds ==
    current # 0 =>
        /\ \/ current \in timerFired \/ shellTimer[current] = "armed"
           \/ /\ shellConn[current] # NoEnd
              /\ dial[shellConn[current]] = "reading" /\ shellOf[shellConn[current]] = current
        /\ shellTimer[current] = "fired" => current \in timerFired

AgentInv == AgentTyped /\ CurrentEnds

TerminalInv == PanelInv /\ WireOK /\ AgentInv /\ Dialled

ForwarderStages == {"none", "start", "run", "failed", "done", "void"}

-----------------------------------------------------------------------------
(* Lemmas about the operators of the panel, and of a list that grows. *)

LEMMA Appended ==
    ASSUME NEW S, NEW n \in Nat, NEW f \in [1..n -> S], NEW e \in S
    PROVE  /\ Append(f, e) \in [1..(n + 1) -> S] /\ Append(f, e)[n + 1] = e
           /\ \A s \in 1..n : Append(f, e)[s] = f[s]
<1>1. f \in Seq(S) /\ Len(f) = n
  OBVIOUS
<1>2. /\ Append(f, e) \in Seq(S) /\ Len(Append(f, e)) = n + 1
      /\ \A s \in 1..n : Append(f, e)[s] = f[s]
      /\ Append(f, e)[n + 1] = e
  BY <1>1, AppendProperties
<1> QED
  BY <1>2, LenProperties

\* A forwarder moves alone.
LEMMA ForwarderMoves ==
    ASSUME PanelTyped, NEW b \in Browsers, NEW a \in AgentConns, NEW s \in ForwarderStages,
           ForwarderGoes(b, a, s)
    PROVE  /\ forwarder' \in [Pairs -> ForwarderStages] /\ forwarder'[<<b, a>>] = s
           /\ \A c \in Browsers, d \in AgentConns :
                c # b \/ d # a => forwarder'[<<c, d>>] = forwarder[<<c, d>>]
<1>1. <<b, a>> \in Pairs /\ \A c \in Browsers, d \in AgentConns : <<c, d>> \in Pairs
  BY DEF Pairs
<1>2. forwarder \in [Pairs -> ForwarderStages]
  BY DEF PanelTyped, ForwarderStages
<1>3. forwarder' = [forwarder EXCEPT ![<<b, a>>] = s]
  BY DEF ForwarderGoes
<1> QED
  BY <1>1, <1>2, <1>3

\* The ends of the session are in use, and only an open session has any.
LEMMA EndsInUse ==
    ASSUME TerminalInv
    PROVE  /\ SessionEnds \subseteq InUse \ ended
           /\ termSession # "open" => SessionEnds = {}
<1>1. browserEnd = NoEnd \/ browserEnd \in InUse
  BY DEF TerminalInv, PanelInv, PanelTyped, EndsOK, InUse
<1>2. agentEnd = NoEnd \/ agentEnd \in InUse
  BY DEF TerminalInv, PanelInv, PanelTyped, EndsOK, InUse
<1>3. termSession # "open" => browserEnd = NoEnd /\ agentEnd = NoEnd
  BY DEF TerminalInv, PanelInv, EndsOK
<1> QED
  BY <1>1, <1>2, <1>3 DEF SessionEnds

\* What is about to be closed grows by connections that are in use.
LEMMA WireGrows ==
    ASSUME TerminalInv, InUse \subseteq InUse', ended' = ended,
           closing' \subseteq closing \cup (InUse' \ ended), told' \subseteq AgentConns
    PROVE  WireOK'
BY DEF TerminalInv, WireOK

\* The agent rests, and no connection goes back to where it was not in use.
LEMMA AgentRests ==
    ASSUME TerminalInv, UNCHANGED agentTerm,
           \A a \in AgentConns : agentStage[a] # "idle" => agentStage'[a] # "idle"
    PROVE  AgentInv' /\ Dialled'
<1>1. UNCHANGED <<dial, shellOf, shells, current, shellConn, shellTimer, timerFired,
                  leaving, removed>>
  BY DEF agentTerm
<1>2. AgentInv'
  BY <1>1 DEF TerminalInv, AgentInv, AgentTyped, CurrentEnds
<1>3. Dialled'
  BY <1>1 DEF TerminalInv, Dialled, AgentInv, AgentTyped
<1> QED
  BY <1>2, <1>3

\* The panel rests while connections are closed and end.
LEMMA PanelRests ==
    ASSUME TerminalInv, UNCHANGED panelTerm, mishaps' \in 0..MaxMishaps,
           ended \subseteq ended', ended \cup closing \subseteq ended' \cup closing'
    PROVE  PanelInv'
<1>1. UNCHANGED <<termSession, browserEnd, agentEnd, forwarding, cleanup, cleanupFired,
                  browserStage, agentStage, forwarder, termRequests>>
  BY DEF panelTerm
<1>2. PanelTyped' /\ EndsOK' /\ SessionWillEnd'
  BY <1>1 DEF TerminalInv, PanelInv, PanelTyped, EndsOK, SessionWillEnd, Paired
<1>3. AttachedKnown'
  BY <1>1 DEF TerminalInv, PanelInv, AttachedKnown
<1>4. ForwardOK'
  BY <1>1 DEF TerminalInv, PanelInv, ForwardOK, Paired
<1> QED
  BY <1>2, <1>3, <1>4 DEF PanelInv

\* A mishap is counted, or none happens.
LEMMA Mishaps ==
    ASSUME TerminalInv, Mishap \/ UNCHANGED mishaps
    PROVE  mishaps' \in 0..MaxMishaps
BY MishapsAreFinite DEF TerminalInv, PanelInv, PanelTyped, Mishap

\* The session is removed: everything it must have seen to is seen to.
LEMMA RemovedKeeps ==
    ASSUME TerminalInv, RemoveSession, UNCHANGED <<forwarding, ended, agentStage>>,
           cleanup' => cleanup,
           \A b \in Browsers : browserStage[b] # "idle" => browserStage'[b] # "idle",
           forwarder' = forwarder \/ termSession # "none",
           told' \subseteq AgentConns
    PROVE  /\ termSession' \in {"none", "gone"} /\ browserEnd' = NoEnd /\ agentEnd' = NoEnd
           /\ EndsOK' /\ AttachedKnown' /\ ForwardOK' /\ SessionWillEnd' /\ WireOK'
<1>1. /\ termSession' \in {"none", "gone"} /\ browserEnd' = NoEnd /\ agentEnd' = NoEnd
      /\ termSession' = "none" => termSession = "none"
      /\ closing' = closing \cup SessionEnds
  BY EndsInUse DEF RemoveSession, TerminalInv, PanelInv, PanelTyped, EndsOK
<1>2. EndsOK' /\ SessionWillEnd'
  BY <1>1 DEF EndsOK, SessionWillEnd, Paired
<1>3. AttachedKnown'
  <2>1. agentEnd \in AgentConns => agentEnd \in ended \cup closing'
    BY <1>1, NoEndIsNone DEF SessionEnds
  <2> QED
    BY <1>1, <2>1 DEF TerminalInv, PanelInv, AttachedKnown
<1>4. ForwardOK'
  BY <1>1 DEF TerminalInv, PanelInv, ForwardOK
<1>5. WireOK'
  <2>1. InUse \subseteq InUse'
    BY DEF InUse
  <2> QED
    BY <1>1, <2>1, EndsInUse, WireGrows
<1> QED
  BY <1>1, <1>2, <1>3, <1>4, <1>5

\* The session is suspended, or it is not the pair's: then its forwarder goes on.
LEMMA SuspendKeeps ==
    ASSUME TerminalInv, NEW b \in Browsers \cup {NoEnd}, NEW a \in AgentConns \cup {NoEnd},
           Suspend(b, a), UNCHANGED <<browserStage, agentStage, ended, told>>,
           \/ forwarder' = forwarder
           \/ b \in Browsers /\ a \in AgentConns /\ forwarder[<<b, a>>] # "none"
              /\ ForwarderGoes(b, a, "done")
    PROVE  /\ termSession' = termSession /\ browserEnd' \in Browsers \cup {NoEnd}
           /\ agentEnd' \in AgentConns \cup {NoEnd}
           /\ forwarding' \in BOOLEAN /\ cleanup' \in BOOLEAN /\ cleanupFired' = cleanupFired
           /\ forwarder' \in [Pairs -> ForwarderStages]
           /\ EndsOK' /\ AttachedKnown' /\ ForwardOK' /\ SessionWillEnd' /\ WireOK'
<1> USE DEF TerminalInv, PanelInv
<1>1. /\ forwarder' \in [Pairs -> ForwarderStages]
      /\ \A c \in Browsers, d \in AgentConns :
           \/ forwarder'[<<c, d>>] = forwarder[<<c, d>>]
           \/ /\ c = b /\ d = a /\ forwarder'[<<c, d>>] = "done"
              /\ forwarder[<<c, d>>] # "none"
  <2>1. CASE forwarder' = forwarder
    BY <2>1 DEF PanelTyped, ForwarderStages
  <2>2. CASE /\ b \in Browsers /\ a \in AgentConns /\ forwarder[<<b, a>>] # "none"
             /\ ForwarderGoes(b, a, "done")
    <3>1. /\ forwarder' \in [Pairs -> ForwarderStages] /\ forwarder'[<<b, a>>] = "done"
          /\ \A c \in Browsers, d \in AgentConns :
               c # b \/ d # a => forwarder'[<<c, d>>] = forwarder[<<c, d>>]
      BY <2>2, ForwarderMoves DEF ForwarderStages
    <3> QED
      BY <2>2, <3>1
  <2> QED
    BY <2>1, <2>2
<1>2. termSession = "none" => forwarder' = forwarder
  BY DEF ForwardOK, Pairs
<1>3. CASE Suspended /\ termSession = "open"
  <2>1. /\ termSession' = "open" /\ browserEnd' = NoEnd /\ agentEnd' = NoEnd
        /\ forwarding' = FALSE /\ cleanup' = TRUE /\ cleanupFired' = cleanupFired
        /\ closing' = closing \cup SessionEnds
    BY <1>3 DEF Suspended
  <2>2. EndsOK' /\ SessionWillEnd'
    BY <2>1 DEF EndsOK, SessionWillEnd, Paired
  <2>3. AttachedKnown'
    <3>1. agentEnd \in AgentConns => agentEnd \in ended \cup closing'
      BY <2>1, NoEndIsNone DEF SessionEnds
    <3> QED
      BY <2>1, <3>1 DEF AttachedKnown
  <2>4. ForwardOK'
    <3>1. \A c \in Browsers, d \in AgentConns : forwarder'[<<c, d>>] = "failed" =>
            termSession = "gone" \/ {c, d} \cap ended # {}
      BY <1>1 DEF ForwardOK
    <3> QED
      BY <1>3, <2>1, <3>1 DEF ForwardOK
  <2>5. WireOK'
    BY <2>1, EndsInUse, WireGrows DEF InUse, WireOK
  <2> QED
    BY <1>1, <1>3, <2>1, <2>2, <2>3, <2>4, <2>5
<1>4. CASE /\ UNCHANGED <<termSession, browserEnd, agentEnd, forwarding, cleanup,
                          cleanupFired, closing>>
           /\ ~(termSession = "open" /\ b \in {NoEnd, browserEnd} /\ a \in {NoEnd, agentEnd})
  <2>1. EndsOK' /\ AttachedKnown'
    BY <1>4 DEF EndsOK, AttachedKnown, Paired
  <2>2. termSession = "open" /\ Paired =>
          forwarder'[<<browserEnd, agentEnd>>] = forwarder[<<browserEnd, agentEnd>>]
    BY <1>1, <1>4 DEF PanelTyped, Paired
  <2>3. SessionWillEnd'
    BY <1>4, <2>2 DEF SessionWillEnd, Paired
  <2>4. ForwardOK'
    <3>1. termSession' = "none" => ~forwarding' /\ \A p \in Pairs : forwarder'[p] = "none"
      BY <1>2, <1>4 DEF ForwardOK
    <3>2. \A c \in Browsers, d \in AgentConns : forwarder'[<<c, d>>] = "failed" =>
            termSession' = "gone" \/ {c, d} \cap ended' # {}
      BY <1>1, <1>4 DEF ForwardOK
    <3>3. termSession' = "open" /\ forwarding' =>
            Paired' /\ forwarder'[<<browserEnd', agentEnd'>>] \in {"start", "run", "failed"}
      BY <1>4, <2>2 DEF ForwardOK, Paired
    <3> QED
      BY <3>1, <3>2, <3>3 DEF ForwardOK
  <2>5. WireOK'
    BY <1>4 DEF WireOK, InUse
  <2> QED
    BY <1>1, <1>4, <2>1, <2>3, <2>4, <2>5 DEF PanelTyped
<1> QED
  BY <1>3, <1>4 DEF Suspend

\* A handler ends: the session forwards, if it has both its ends.
LEMMA JoinKeeps ==
    ASSUME TerminalInv, MaybeStartForwarding,
           UNCHANGED <<termSession, browserEnd, agentEnd, cleanup, cleanupFired,
                       termRequests, wireTerm, agentTerm, mishaps>>,
           browserStage' \in
             [Browsers -> {"idle", "created", "returned", "offline", "join", "over"}],
           agentStage' \in [AgentConns -> {"idle", "checked", "join", "over"}],
           \A b \in Browsers : browserStage[b] # "idle" => browserStage'[b] # "idle",
           \A a \in AgentConns :
             /\ agentStage[a] # "idle" => agentStage'[a] # "idle"
             /\ agentStage'[a] \in {"join", "over"} <=> agentStage[a] \in {"join", "over"}
    PROVE  TerminalInv'
<1> USE DEF TerminalInv, PanelInv
<1>1. UNCHANGED <<termSession, browserEnd, agentEnd, cleanup, cleanupFired,
                  termRequests, closing, ended, told, mishaps>>
  BY DEF wireTerm
<1> DEFINE starts == termSession = "open" /\ Paired /\ ~forwarding
<1>2. /\ forwarder' \in [Pairs -> ForwarderStages] /\ forwarding' \in BOOLEAN
      /\ starts => /\ forwarding' = TRUE
                   /\ forwarder'[<<browserEnd, agentEnd>>] = "start"
                   /\ \A c \in Browsers, d \in AgentConns : c # browserEnd \/ d # agentEnd =>
                        forwarder'[<<c, d>>] = forwarder[<<c, d>>]
      /\ ~starts => forwarding' = forwarding /\ forwarder' = forwarder
  <2>1. CASE starts
    <3>1. browserEnd \in Browsers /\ agentEnd \in AgentConns
      BY <2>1 DEF PanelTyped, Paired
    <3>2. forwarding' = TRUE /\ ForwarderGoes(browserEnd, agentEnd, "start")
      BY <2>1 DEF MaybeStartForwarding
    <3> QED
      BY <2>1, <3>1, <3>2, ForwarderMoves DEF ForwarderStages
  <2>2. CASE ~starts
    BY <2>2 DEF MaybeStartForwarding, PanelTyped, ForwarderStages
  <2> QED
    BY <2>1, <2>2
<1>3. PanelTyped'
  BY <1>1, <1>2 DEF PanelTyped, ForwarderStages
<1>4. EndsOK' /\ AttachedKnown'
  BY <1>1 DEF PanelTyped, EndsOK, AttachedKnown, Paired
<1>5. ForwardOK'
  <2>1. CASE starts
    <3>1. \A c \in Browsers, d \in AgentConns : forwarder'[<<c, d>>] = "failed" =>
            termSession = "gone" \/ {c, d} \cap ended # {}
      BY <1>2, <2>1 DEF ForwardOK
    <3> QED
      BY <1>1, <1>2, <2>1, <3>1 DEF ForwardOK, Paired
  <2>2. CASE ~starts
    BY <1>1, <1>2, <2>2 DEF ForwardOK, Paired
  <2> QED
    BY <2>1, <2>2
<1>6. SessionWillEnd'
  <2> SUFFICES ASSUME termSession = "open", ~cleanup, ~cleanupFired
               PROVE  /\ Paired
                      /\ forwarder'[<<browserEnd, agentEnd>>] \in {"start", "run", "failed"}
    BY <1>1 DEF SessionWillEnd, Paired
  <2>1. Paired
    BY DEF SessionWillEnd
  <2> QED
    BY <1>2, <2>1 DEF ForwardOK
<1>7. WireOK'
  BY <1>1 DEF WireOK, InUse
<1> QED
  BY <1>3, <1>4, <1>5, <1>6, <1>7, AgentRests

-----------------------------------------------------------------------------
(* RequestTerminal and EstablishConnection. *)

LEMMA OpenTerminalKeeps ==
    ASSUME TerminalInv, NEW b \in Browsers, OpenTerminal(b)
    PROVE  TerminalInv'
<1> USE DEF TerminalInv, PanelInv
<1>1. /\ termSession = "none" /\ termSession' = "open" /\ browserEnd' = b /\ cleanup' = TRUE
      /\ browserStage' = [browserStage EXCEPT ![b] = "created"]
      /\ agentEnd = NoEnd /\ forwarding = FALSE
      /\ UNCHANGED <<agentEnd, forwarding, cleanupFired, agentStage, forwarder,
                     termRequests, closing, ended, told, agentTerm, mishaps>>
  BY DEF OpenTerminal, BrowserGoes, wireTerm, EndsOK, ForwardOK, PanelTyped
<1>2. PanelTyped'
  BY <1>1 DEF PanelTyped
<1>3. EndsOK' /\ AttachedKnown' /\ SessionWillEnd'
  BY <1>1 DEF EndsOK, AttachedKnown, SessionWillEnd, PanelTyped, Paired
<1>4. ForwardOK'
  BY <1>1 DEF ForwardOK, Pairs
<1>5. WireOK'
  BY <1>1 DEF WireOK, InUse, PanelTyped
<1> QED
  BY <1>1, <1>2, <1>3, <1>4, <1>5, AgentRests

LEMMA AttachBrowserKeeps ==
    ASSUME TerminalInv, NEW b \in Browsers, AttachBrowser(b)
    PROVE  TerminalInv'
<1> USE DEF TerminalInv, PanelInv
<1>1. UNCHANGED <<termSession, agentEnd, cleanupFired, agentStage, forwarder,
                  termRequests, ended, told, agentTerm, mishaps>>
  BY DEF AttachBrowser
<1>2. CASE termSession = "open"
  <2>1. /\ browserEnd' = b /\ forwarding' = FALSE /\ cleanup' = (cleanup /\ agentEnd = NoEnd)
        /\ closing' = closing \cup (({browserEnd} \ {NoEnd}) \ ended)
        /\ browserStage' = [browserStage EXCEPT ![b] = "returned"]
    BY <1>2 DEF AttachBrowser, StopCleanup, BrowserGoes
  <2>2. cleanup' \in BOOLEAN
    BY <2>1, Zenon
  <2>3. PanelTyped'
    BY <1>1, <2>1, <2>2 DEF PanelTyped
  <2>4. EndsOK' /\ AttachedKnown'
    BY <1>1, <1>2, <2>1 DEF EndsOK, AttachedKnown, PanelTyped, Paired
  <2>5. SessionWillEnd'
    <3>1. browserStage'[b] = "returned" /\ b # NoEnd
      BY <2>1, NoEndIsNone DEF PanelTyped
    <3> QED
      BY <1>1, <1>2, <2>1, <3>1 DEF SessionWillEnd, Paired
  <2>6. ForwardOK'
    BY <1>1, <1>2, <2>1 DEF ForwardOK
  <2>7. WireOK'
    <3>1. InUse \subseteq InUse'
      BY <1>1, <2>1 DEF InUse, PanelTyped
    <3>2. ({browserEnd} \ {NoEnd}) \ ended \subseteq InUse \ ended
      BY EndsInUse DEF SessionEnds
    <3> QED
      BY <1>1, <2>1, <3>1, <3>2, WireGrows DEF WireOK
  <2> QED
    BY <1>1, <2>3, <2>4, <2>5, <2>6, <2>7, AgentRests
<1>3. CASE termSession # "open"
  <2>1. /\ closing' = closing \cup {b} /\ UNCHANGED <<browserEnd, forwarding, cleanup>>
        /\ browserStage' = [browserStage EXCEPT ![b] = "over"] /\ browserStage[b] = "idle"
    BY <1>3 DEF AttachBrowser, BrowserGoes
  <2>2. PanelTyped'
    BY <1>1, <2>1 DEF PanelTyped
  <2>3. EndsOK' /\ AttachedKnown' /\ SessionWillEnd'
    BY <1>1, <1>3, <2>1 DEF EndsOK, AttachedKnown, SessionWillEnd, PanelTyped, Paired
  <2>4. ForwardOK'
    BY <1>1, <1>3, <2>1 DEF ForwardOK, Paired
  <2>5. WireOK'
    <3>1. InUse' = InUse \cup {b}
      BY <1>1, <2>1 DEF InUse, PanelTyped
    <3>2. b \notin InUse
      BY <2>1, ConnectionsDiffer DEF InUse
    <3> QED
      BY <1>1, <2>1, <3>1, <3>2 DEF WireOK
  <2> QED
    BY <1>1, <2>2, <2>3, <2>4, <2>5, AgentRests
<1> QED
  BY <1>2, <1>3

LEMMA DispatchTerminalKeeps ==
    ASSUME TerminalInv, NEW b \in Browsers, DispatchTerminal(b)
    PROVE  TerminalInv'
<1> USE DEF TerminalInv, PanelInv
<1>1. /\ UNCHANGED <<termSession, browserEnd, agentEnd, forwarding, cleanup, cleanupFired,
                     agentStage, forwarder, closing, ended, told, agentTerm>>
      /\ termRequests' \in Nat
  BY DEF DispatchTerminal, wireTerm, PanelTyped
<1>2. PICK s \in {"join", "over", "offline"} :
        /\ browserStage' = [browserStage EXCEPT ![b] = s]
        /\ browserStage[b] = "returned" => s # "over"
        /\ browserStage[b] \in {"created", "returned"}
  BY DEF DispatchTerminal, BrowserGoes
<1>3. mishaps' \in 0..MaxMishaps
  BY Mishaps DEF DispatchTerminal
<1>4. PanelTyped'
  BY <1>1, <1>2, <1>3 DEF PanelTyped
<1>5. EndsOK' /\ AttachedKnown'
  BY <1>1, <1>2 DEF EndsOK, AttachedKnown, PanelTyped, Paired
<1>6. SessionWillEnd'
  <2>1. \A c \in Browsers : browserStage[c] \in {"returned", "offline", "join"}
          => browserStage'[c] \in {"returned", "offline", "join"}
    BY <1>2 DEF PanelTyped
  <2> QED
    BY <1>1, <2>1 DEF SessionWillEnd, Paired
<1>7. ForwardOK'
  BY <1>1 DEF ForwardOK, Paired
<1>8. WireOK'
  BY <1>1, <1>2 DEF WireOK, InUse, PanelTyped
<1> QED
  BY <1>1, <1>4, <1>5, <1>6, <1>7, <1>8, AgentRests

LEMMA AgentOfflineKeeps ==
    ASSUME TerminalInv, NEW b \in Browsers, AgentOffline(b)
    PROVE  TerminalInv'
<1> USE DEF TerminalInv, PanelInv
<1>1. /\ RemoveSession /\ cleanup' = (cleanup /\ termSession # "open")
      /\ browserStage' = [browserStage EXCEPT ![b] = "over"]
      /\ UNCHANGED <<forwarding, cleanupFired, agentStage, forwarder, termRequests, ended,
                     told, agentTerm, mishaps>>
  BY DEF AgentOffline, CloseSession, BrowserGoes
<1>2. cleanup' \in BOOLEAN /\ (cleanup' => cleanup)
  BY <1>1, Zenon
<1>3. \A c \in Browsers : browserStage[c] # "idle" => browserStage'[c] # "idle"
  BY <1>1 DEF PanelTyped
<1>4. /\ termSession' \in {"none", "gone"} /\ browserEnd' = NoEnd /\ agentEnd' = NoEnd
      /\ EndsOK' /\ AttachedKnown' /\ ForwardOK' /\ SessionWillEnd' /\ WireOK'
  BY <1>1, <1>2, <1>3, RemovedKeeps DEF WireOK
<1>5. PanelTyped'
  BY <1>1, <1>2, <1>4 DEF PanelTyped
<1> QED
  BY <1>1, <1>4, <1>5, AgentRests

LEMMA BrowserJoinsKeeps ==
    ASSUME TerminalInv, NEW b \in Browsers, BrowserJoins(b)
    PROVE  TerminalInv'
<1>1. browserStage' = [browserStage EXCEPT ![b] = "over"] /\ UNCHANGED agentStage
  BY DEF BrowserJoins, BrowserGoes
<1>2. /\ browserStage' \in
           [Browsers -> {"idle", "created", "returned", "offline", "join", "over"}]
      /\ agentStage' \in [AgentConns -> {"idle", "checked", "join", "over"}]
      /\ \A c \in Browsers : browserStage[c] # "idle" => browserStage'[c] # "idle"
  BY <1>1 DEF TerminalInv, PanelInv, PanelTyped
<1> QED
  BY <1>1, <1>2, JoinKeeps DEF BrowserJoins

LEMMA AgentJoinsKeeps ==
    ASSUME TerminalInv, NEW a \in AgentConns, AgentJoins(a)
    PROVE  TerminalInv'
<1>1. /\ agentStage[a] = "join" /\ agentStage' = [agentStage EXCEPT ![a] = "over"]
      /\ UNCHANGED browserStage
  BY DEF AgentJoins, AgentGoes
<1>2. /\ browserStage' \in
           [Browsers -> {"idle", "created", "returned", "offline", "join", "over"}]
      /\ agentStage' \in [AgentConns -> {"idle", "checked", "join", "over"}]
      /\ \A c \in AgentConns :
           /\ agentStage[c] # "idle" => agentStage'[c] # "idle"
           /\ agentStage'[c] \in {"join", "over"} <=> agentStage[c] \in {"join", "over"}
  BY <1>1 DEF TerminalInv, PanelInv, PanelTyped
<1> QED
  BY <1>1, <1>2, JoinKeeps DEF AgentJoins

\* The request arrives and is refused, or the agent's connection is checked.
LEMMA DialTerminalKeeps ==
    ASSUME TerminalInv, NEW a \in AgentConns, DialTerminal(a)
    PROVE  TerminalInv'
<1> USE DEF TerminalInv, PanelInv
<1>1. /\ agentStage[a] = "idle" /\ termRequests' \in Nat
      /\ UNCHANGED <<termSession, browserEnd, agentEnd, forwarding, cleanup, cleanupFired,
                     browserStage, forwarder, closing, ended, told, shellOf, shells,
                     current, shellConn, shellTimer, timerFired, leaving, removed, mishaps>>
  BY DEF DialTerminal, wireTerm, PanelTyped
<1>2. \/ /\ agentStage' = [agentStage EXCEPT ![a] = "checked"]
         /\ dial' = [dial EXCEPT ![a] = "dialled"]
      \/ UNCHANGED <<agentStage, dial>>
  BY DEF DialTerminal, AgentGoes
<1>3. /\ agentStage' \in [AgentConns -> {"idle", "checked", "join", "over"}]
      /\ \A c \in AgentConns :
           /\ agentStage[c] # "idle" => agentStage'[c] = agentStage[c]
           /\ agentStage'[c] \in {"join", "over"} => agentStage[c] \in {"join", "over"}
  BY <1>1, <1>2 DEF PanelTyped
<1>4. PanelTyped'
  BY <1>1, <1>3 DEF PanelTyped
<1>5. EndsOK' /\ AttachedKnown'
  BY <1>1, <1>3 DEF EndsOK, AttachedKnown, PanelTyped, Paired
<1>6. SessionWillEnd'
  BY <1>1, <1>3 DEF SessionWillEnd, Paired
<1>7. ForwardOK'
  BY <1>1 DEF ForwardOK, Paired
<1>8. WireOK'
  BY <1>1, <1>3 DEF WireOK, InUse
<1>9. AgentTyped'
  BY <1>1, <1>2 DEF AgentInv, AgentTyped
<1>10. Dialled'
  BY <1>1, <1>2, <1>3 DEF Dialled, AgentInv, AgentTyped, PanelTyped
<1>11. CurrentEnds'
  <2>1. dial[a] = "none"
    BY <1>1 DEF Dialled
  <2>2. \A c \in AgentConns : dial[c] = "reading" => dial'[c] = "reading"
    BY <1>2, <2>1 DEF AgentInv, AgentTyped
  <2>3. current # 0 => shellConn[current] \in AgentConns \cup {NoEnd}
    BY DEF AgentInv, AgentTyped
  <2> QED
    BY <1>1, <2>2, <2>3 DEF AgentInv, CurrentEnds
<1> QED
  BY <1>4, <1>5, <1>6, <1>7, <1>8, <1>9, <1>10, <1>11 DEF AgentInv

LEMMA AttachAgentKeeps ==
    ASSUME TerminalInv, NEW a \in AgentConns, AttachAgent(a)
    PROVE  TerminalInv'
<1> USE DEF TerminalInv, PanelInv
<1>1. /\ agentStage[a] = "checked" /\ termSession = "open"
      /\ agentEnd' = a /\ forwarding' = FALSE /\ cleanup' = (cleanup /\ browserEnd = NoEnd)
      /\ closing' = closing \cup (({agentEnd} \ {NoEnd}) \ ended)
      /\ agentStage' = [agentStage EXCEPT ![a] = "join"]
      /\ UNCHANGED <<termSession, browserEnd, cleanupFired, browserStage, forwarder,
                     termRequests, ended, told, agentTerm, mishaps>>
  BY DEF AttachAgent, StopCleanup, AgentGoes
<1>2. cleanup' \in BOOLEAN
  BY <1>1, Zenon
<1>3. PanelTyped'
  BY <1>1, <1>2 DEF PanelTyped
<1>4. /\ agentStage'[a] = "join" /\ a # NoEnd
      /\ \A c \in AgentConns \ {a} : agentStage'[c] = agentStage[c]
  BY <1>1, NoEndIsNone DEF PanelTyped
<1>5. EndsOK'
  BY <1>1, <1>4 DEF EndsOK, Paired
<1>6. AttachedKnown'
  BY <1>1, <1>4, NoEndIsNone DEF AttachedKnown
<1>7. SessionWillEnd'
  BY <1>1, <1>4 DEF SessionWillEnd, Paired
<1>8. ForwardOK'
  BY <1>1 DEF ForwardOK
<1>9. WireOK'
  <2>1. InUse \subseteq InUse'
    BY <1>1, <1>4 DEF InUse
  <2>2. ({agentEnd} \ {NoEnd}) \ ended \subseteq InUse \ ended
    BY EndsInUse DEF SessionEnds
  <2> QED
    BY <1>1, <2>1, <2>2, WireGrows DEF WireOK
<1> QED
  BY <1>1, <1>3, <1>4, <1>5, <1>6, <1>7, <1>8, <1>9, AgentRests

LEMMA RefuseAgentKeeps ==
    ASSUME TerminalInv, NEW a \in AgentConns, RefuseAgent(a)
    PROVE  TerminalInv'
<1> USE DEF TerminalInv, PanelInv
<1>1. /\ agentStage[a] = "checked" /\ closing' = closing \cup ({a} \ ended)
      /\ agentStage' = [agentStage EXCEPT ![a] = "over"]
      /\ UNCHANGED <<termSession, browserEnd, agentEnd, forwarding, cleanup, cleanupFired,
                     browserStage, forwarder, termRequests, ended, told, agentTerm, mishaps>>
  BY DEF RefuseAgent, AgentGoes
<1>2. PanelTyped'
  BY <1>1 DEF PanelTyped
<1>3. /\ agentStage'[a] = "over" /\ \A c \in AgentConns \ {a} : agentStage'[c] = agentStage[c]
  BY <1>1 DEF PanelTyped
<1>4. EndsOK' /\ AttachedKnown'
  BY <1>1, <1>3 DEF EndsOK, AttachedKnown, PanelTyped, Paired
<1>5. SessionWillEnd'
  BY <1>1, <1>3 DEF SessionWillEnd, Paired
<1>6. ForwardOK'
  BY <1>1 DEF ForwardOK, Paired
<1>7. WireOK'
  <2>1. InUse \subseteq InUse' /\ a \in InUse'
    BY <1>1, <1>3 DEF InUse
  <2> QED
    BY <1>1, <2>1, WireGrows DEF WireOK
<1> QED
  BY <1>1, <1>2, <1>3, <1>4, <1>5, <1>6, <1>7, AgentRests

-----------------------------------------------------------------------------
(* ForwardTerminal, the cleanup and the connections. *)

\* A forwarder of the session's pair starts to read; any other does not.
LEMMA ForwarderStartsKeeps ==
    ASSUME TerminalInv, NEW b \in Browsers, NEW a \in AgentConns, ForwarderStarts(b, a)
    PROVE  TerminalInv'
<1> USE DEF TerminalInv, PanelInv
<1> DEFINE pair == termSession = "open" /\ browserEnd = b /\ agentEnd = a
<1>1. /\ forwarder[<<b, a>>] = "start"
      /\ ForwarderGoes(b, a, IF pair THEN "run" ELSE "void")
      /\ UNCHANGED <<termSession, browserEnd, agentEnd, forwarding, cleanup, cleanupFired,
                     browserStage, agentStage, termRequests, closing, ended, told, agentTerm,
                     mishaps>>
  BY DEF ForwarderStarts, wireTerm
<1>2. /\ forwarder' \in [Pairs -> ForwarderStages]
      /\ forwarder'[<<b, a>>] = (IF pair THEN "run" ELSE "void")
      /\ \A c \in Browsers, d \in AgentConns :
           c # b \/ d # a => forwarder'[<<c, d>>] = forwarder[<<c, d>>]
  BY <1>1, ForwarderMoves DEF ForwarderStages
<1>3. PanelTyped'
  BY <1>1, <1>2 DEF PanelTyped, ForwarderStages
<1>4. EndsOK' /\ AttachedKnown' /\ WireOK'
  BY <1>1 DEF EndsOK, AttachedKnown, WireOK, InUse, Paired
<1>5. termSession = "open" /\ Paired
        /\ forwarder[<<browserEnd, agentEnd>>] \in {"start", "run", "failed"}
      => forwarder'[<<browserEnd, agentEnd>>] \in {"start", "run", "failed"}
  BY <1>2 DEF PanelTyped, Paired
<1>6. SessionWillEnd'
  BY <1>1, <1>5 DEF SessionWillEnd, Paired
<1>7. termSession # "none"
  BY <1>1 DEF ForwardOK, Pairs
<1>8. \A c \in Browsers, d \in AgentConns : forwarder'[<<c, d>>] = "failed" =>
        termSession = "gone" \/ {c, d} \cap ended # {}
  BY <1>2 DEF ForwardOK
<1>9. ForwardOK'
  BY <1>1, <1>5, <1>7, <1>8 DEF ForwardOK, Paired
<1> QED
  BY <1>1, <1>3, <1>4, <1>6, <1>9, AgentRests

LEMMA ForwarderErrsKeeps ==
    ASSUME TerminalInv, NEW b \in Browsers, NEW a \in AgentConns, ForwarderErrs(b, a)
    PROVE  TerminalInv'
<1> USE DEF TerminalInv, PanelInv
<1>1. /\ forwarder[<<b, a>>] = "run" /\ {b, a} \cap ended # {}
      /\ ForwarderGoes(b, a, "failed")
      /\ UNCHANGED <<termSession, browserEnd, agentEnd, forwarding, cleanup, cleanupFired,
                     browserStage, agentStage, termRequests, closing, ended, told, agentTerm,
                     mishaps>>
  BY DEF ForwarderErrs, wireTerm
<1>2. /\ forwarder' \in [Pairs -> ForwarderStages] /\ forwarder'[<<b, a>>] = "failed"
      /\ \A c \in Browsers, d \in AgentConns :
           c # b \/ d # a => forwarder'[<<c, d>>] = forwarder[<<c, d>>]
  BY <1>1, ForwarderMoves DEF ForwarderStages
<1>3. PanelTyped'
  BY <1>1, <1>2 DEF PanelTyped, ForwarderStages
<1>4. EndsOK' /\ AttachedKnown' /\ WireOK'
  BY <1>1 DEF EndsOK, AttachedKnown, WireOK, InUse, Paired
<1>5. termSession = "open" /\ Paired
        /\ forwarder[<<browserEnd, agentEnd>>] \in {"start", "run", "failed"}
      => forwarder'[<<browserEnd, agentEnd>>] \in {"start", "run", "failed"}
  BY <1>2 DEF PanelTyped, Paired
<1>6. SessionWillEnd'
  BY <1>1, <1>5 DEF SessionWillEnd, Paired
<1>7. termSession # "none"
  BY <1>1 DEF ForwardOK, Pairs
<1>8. \A c \in Browsers, d \in AgentConns : forwarder'[<<c, d>>] = "failed" =>
        termSession = "gone" \/ {c, d} \cap ended # {}
  BY <1>1, <1>2 DEF ForwardOK
<1>9. ForwardOK'
  BY <1>1, <1>5, <1>7, <1>8 DEF ForwardOK, Paired
<1> QED
  BY <1>1, <1>3, <1>4, <1>6, <1>9, AgentRests

LEMMA ForwarderClosesKeeps ==
    ASSUME TerminalInv, NEW b \in Browsers, NEW a \in AgentConns, ForwarderCloses(b, a)
    PROVE  TerminalInv'
<1> USE DEF TerminalInv, PanelInv
<1>1. /\ RemoveSession /\ cleanup' = (cleanup /\ termSession # "open")
      /\ forwarder[<<b, a>>] = "run" /\ ForwarderGoes(b, a, "failed")
      /\ told' = told \/ told' = told \cup {a}
      /\ UNCHANGED <<forwarding, cleanupFired, browserStage, agentStage, termRequests, ended,
                     agentTerm>>
  BY DEF ForwarderCloses, CloseSession
<1>2. cleanup' \in BOOLEAN /\ (cleanup' => cleanup)
  BY <1>1, Zenon
<1>3. termSession # "none" /\ told' \subseteq AgentConns
  BY <1>1 DEF ForwardOK, Pairs, WireOK
<1>4. /\ termSession' \in {"none", "gone"} /\ browserEnd' = NoEnd /\ agentEnd' = NoEnd
      /\ EndsOK' /\ AttachedKnown' /\ ForwardOK' /\ SessionWillEnd' /\ WireOK'
  BY <1>1, <1>2, <1>3, RemovedKeeps
<1>5. forwarder' \in [Pairs -> ForwarderStages]
  BY <1>1, ForwarderMoves DEF ForwarderStages
<1>6. mishaps' \in 0..MaxMishaps
  BY Mishaps DEF ForwarderCloses
<1>7. PanelTyped'
  BY <1>1, <1>2, <1>4, <1>5, <1>6 DEF PanelTyped, ForwarderStages
<1> QED
  BY <1>1, <1>4, <1>7, AgentRests

\* What an old pair leaves behind suspends the session only while it is its pair.
LEMMA SuspensionKeeps ==
    ASSUME TerminalInv, NEW b \in Browsers, NEW a \in AgentConns,
           \/ ForwarderSuspends(b, a)
           \/ BrowserCloseHandler(b, a) \/ AgentCloseHandler(b, a)
    PROVE  TerminalInv'
<1> USE DEF TerminalInv, PanelInv
<1>1. UNCHANGED <<browserStage, agentStage, termRequests, ended, told, agentTerm, mishaps>>
  BY DEF ForwarderSuspends, BrowserCloseHandler, AgentCloseHandler
<1>2. /\ termSession' = termSession /\ browserEnd' \in Browsers \cup {NoEnd}
      /\ agentEnd' \in AgentConns \cup {NoEnd}
      /\ forwarding' \in BOOLEAN /\ cleanup' \in BOOLEAN /\ cleanupFired' = cleanupFired
      /\ forwarder' \in [Pairs -> ForwarderStages]
      /\ EndsOK' /\ AttachedKnown' /\ ForwardOK' /\ SessionWillEnd' /\ WireOK'
  <2>1. CASE ForwarderSuspends(b, a)
    <3>1. Suspend(b, a) /\ forwarder[<<b, a>>] # "none" /\ ForwarderGoes(b, a, "done")
      BY <2>1 DEF ForwarderSuspends
    <3> QED
      BY <1>1, <3>1, SuspendKeeps
  <2>2. CASE BrowserCloseHandler(b, a)
    <3>1. Suspend(b, NoEnd) /\ forwarder' = forwarder
      BY <2>2 DEF BrowserCloseHandler
    <3> QED
      BY <1>1, <3>1, SuspendKeeps
  <2>3. CASE AgentCloseHandler(b, a)
    <3>1. Suspend(NoEnd, a) /\ forwarder' = forwarder
      BY <2>3 DEF AgentCloseHandler
    <3> QED
      BY <1>1, <3>1, SuspendKeeps
  <2> QED
    BY <2>1, <2>2, <2>3
<1>3. PanelTyped'
  BY <1>1, <1>2 DEF PanelTyped, ForwarderStages
<1> QED
  BY <1>1, <1>2, <1>3, AgentRests

LEMMA CleanupFiresKeeps ==
    ASSUME TerminalInv, CleanupFires
    PROVE  TerminalInv'
<1> USE DEF TerminalInv, PanelInv
<1>1. /\ cleanup' = FALSE /\ cleanupFired' = TRUE
      /\ UNCHANGED <<termSession, browserEnd, agentEnd, forwarding, browserStage, agentStage,
                     forwarder, termRequests, closing, ended, told, agentTerm>>
  BY DEF CleanupFires, wireTerm
<1>2. mishaps' \in 0..MaxMishaps
  BY Mishaps DEF CleanupFires
<1>3. PanelTyped'
  BY <1>1, <1>2 DEF PanelTyped
<1>4. EndsOK' /\ AttachedKnown' /\ ForwardOK' /\ SessionWillEnd' /\ WireOK'
  BY <1>1 DEF EndsOK, AttachedKnown, ForwardOK, SessionWillEnd, WireOK, InUse, Paired
<1> QED
  BY <1>1, <1>3, <1>4, AgentRests

\* The callback of the cleanup, and CloseClientSessions.
LEMMA SessionGoesKeeps ==
    ASSUME TerminalInv, CleanupRuns \/ CloseClientSessions
    PROVE  TerminalInv'
<1> USE DEF TerminalInv, PanelInv
<1>1. /\ RemoveSession
      /\ cleanup' = cleanup \/ cleanup' = (cleanup /\ termSession # "open")
      /\ cleanupFired' = cleanupFired \/ cleanupFired' = FALSE
      /\ UNCHANGED <<forwarding, browserStage, agentStage, forwarder, termRequests, ended,
                     told, agentTerm>>
  BY DEF CleanupRuns, CloseClientSessions, CloseSession
<1>2. /\ cleanup' \in BOOLEAN /\ (cleanup' => cleanup) /\ cleanupFired' \in BOOLEAN
  <2>1. cleanup' \in BOOLEAN /\ (cleanup' => cleanup)
    <3>1. CASE cleanup' = cleanup
      BY <3>1 DEF PanelTyped
    <3>2. CASE cleanup' = (cleanup /\ termSession # "open")
      BY <3>2, Zenon
    <3> QED
      BY <1>1, <3>1, <3>2
  <2>2. cleanupFired' \in BOOLEAN
    BY <1>1 DEF PanelTyped
  <2> QED
    BY <2>1, <2>2
<1>3. mishaps' \in 0..MaxMishaps
  BY Mishaps DEF CleanupRuns, CloseClientSessions
<1>4. /\ termSession' \in {"none", "gone"} /\ browserEnd' = NoEnd /\ agentEnd' = NoEnd
      /\ EndsOK' /\ AttachedKnown' /\ ForwardOK' /\ SessionWillEnd' /\ WireOK'
  BY <1>1, <1>2, RemovedKeeps DEF WireOK
<1>5. PanelTyped'
  BY <1>1, <1>2, <1>3, <1>4 DEF PanelTyped
<1> QED
  BY <1>1, <1>4, <1>5, AgentRests

LEMMA ConnectionEndsKeeps ==
    ASSUME TerminalInv, NEW c \in Browsers \cup AgentConns, ConnectionEnds(c)
    PROVE  TerminalInv'
<1>1. /\ c \in InUse /\ ended' = ended \cup {c} /\ closing' = closing \ {c}
      /\ UNCHANGED <<panelTerm, told, agentTerm>>
  BY DEF ConnectionEnds
<1>2. mishaps' \in 0..MaxMishaps
  BY Mishaps DEF ConnectionEnds
<1>3. PanelInv'
  BY <1>1, <1>2, PanelRests
<1>4. WireOK'
  BY <1>1 DEF TerminalInv, WireOK, InUse, panelTerm
<1>5. AgentInv' /\ Dialled'
  BY <1>1, AgentRests DEF panelTerm
<1> QED
  BY <1>3, <1>4, <1>5 DEF TerminalInv

-----------------------------------------------------------------------------
(* The agent. *)

\* What an agent's step keeps of the panel: its connections may be about to close.
LEMMA AgentStep ==
    ASSUME TerminalInv, UNCHANGED <<panelTerm, ended, told>>, Mishap \/ UNCHANGED mishaps,
           \/ UNCHANGED closing
           \/ \E c \in AgentConns \cup {NoEnd} :
                /\ c # NoEnd => agentStage[c] # "idle"
                /\ closing' = closing \cup (({c} \ {NoEnd}) \ ended)
    PROVE  PanelInv' /\ WireOK'
<1>1. PanelInv'
  BY Mishaps, PanelRests
<1>2. InUse' = InUse
  BY DEF InUse, panelTerm
<1>3. closing' \subseteq closing \cup (InUse' \ ended)
  BY <1>2 DEF InUse
<1>4. WireOK'
  BY <1>2, <1>3, WireGrows DEF TerminalInv, WireOK
<1> QED
  BY <1>1, <1>4

\* The current shell changes hands.
LEMMA TakeKeeps ==
    ASSUME TerminalInv, NEW a \in AgentConns, dial[a] \in {"dialled", "making"},
           current # 0, Take(a, current),
           UNCHANGED <<panelTerm, ended, told, shells, current, timerFired, leaving, removed,
                       mishaps>>
    PROVE  TerminalInv'
<1> DEFINE s == current
<1>1. /\ s \in 1..shells /\ shells \in Nat /\ agentStage[a] # "idle"
      /\ shellConn[s] \in AgentConns \cup {NoEnd}
      /\ shellConn[s] # NoEnd => agentStage[shellConn[s]] # "idle"
  BY DEF TerminalInv, AgentInv, AgentTyped, Dialled
<1>2. /\ dial' = [dial EXCEPT ![a] = "reading"] /\ shellOf' = [shellOf EXCEPT ![a] = s]
      /\ shellConn' = [shellConn EXCEPT ![s] = a]
      /\ shellTimer' = [shellTimer EXCEPT ![s] = "none"]
      /\ closing' = closing \cup (({shellConn[s]} \ {NoEnd}) \ ended)
  BY DEF Take, DialGoes
<1>3. PanelInv' /\ WireOK'
  BY <1>1, <1>2, AgentStep
<1>4. AgentTyped'
  BY <1>1, <1>2 DEF TerminalInv, AgentInv, AgentTyped
<1>5. CurrentEnds'
  BY <1>1, <1>2, NoEndIsNone DEF TerminalInv, AgentInv, AgentTyped, CurrentEnds
<1>6. Dialled'
  BY <1>1, <1>2 DEF TerminalInv, AgentInv, AgentTyped, Dialled, panelTerm
<1> QED
  BY <1>3, <1>4, <1>5, <1>6 DEF TerminalInv, AgentInv

LEMMA AcquireShellKeeps ==
    ASSUME TerminalInv, NEW a \in AgentConns, AcquireShell(a)
    PROVE  TerminalInv'
<1>1. CASE current # 0
  BY <1>1, TakeKeeps DEF AcquireShell
<1>2. CASE current = 0
  <2>1. /\ dial[a] = "dialled" /\ dial' = [dial EXCEPT ![a] = "making"]
        /\ UNCHANGED <<panelTerm, closing, ended, told, shellOf, shells, current, shellConn,
                       shellTimer, timerFired, leaving, removed, mishaps>>
    BY <1>2 DEF AcquireShell, DialGoes
  <2>2. PanelInv' /\ WireOK'
    BY <2>1, AgentStep
  <2>3. AgentTyped'
    BY <2>1 DEF TerminalInv, AgentInv, AgentTyped
  <2>4. CurrentEnds'
    BY <1>2, <2>1 DEF CurrentEnds
  <2>5. Dialled'
    BY <2>1 DEF TerminalInv, AgentInv, AgentTyped, Dialled, panelTerm
  <2> QED
    BY <2>2, <2>3, <2>4, <2>5 DEF TerminalInv, AgentInv
<1> QED
  BY <1>1, <1>2

LEMMA AcquireMadeKeeps ==
    ASSUME TerminalInv, NEW a \in AgentConns, AcquireMade(a)
    PROVE  TerminalInv'
<1>1. CASE current # 0
  BY <1>1, TakeKeeps DEF AcquireMade
<1>2. CASE current = 0
  <2> DEFINE n == shells + 1
  <2>1. /\ dial[a] = "making" /\ shells' = n /\ current' = n
        /\ dial' = [dial EXCEPT ![a] = "reading"] /\ shellOf' = [shellOf EXCEPT ![a] = n]
        /\ shellConn' = Append(shellConn, a) /\ shellTimer' = Append(shellTimer, "none")
        /\ UNCHANGED <<panelTerm, closing, ended, told, timerFired, leaving, removed, mishaps>>
    BY <1>2 DEF AcquireMade, DialGoes
  <2>2. /\ shells \in Nat /\ n \in Nat /\ n # 0 /\ 1..n = (1..shells) \cup {n} /\ n \notin 1..shells
        /\ 0..shells \subseteq 0..n /\ agentStage[a] # "idle"
    BY <2>1 DEF TerminalInv, AgentInv, AgentTyped, Dialled
  <2>3. /\ shellConn' \in [1..n -> AgentConns \cup {NoEnd}] /\ shellConn'[n] = a
        /\ \A s \in 1..shells : shellConn'[s] = shellConn[s]
    <3> DEFINE S == AgentConns \cup {NoEnd}
    <3>1. shellConn \in [1..shells -> S] /\ a \in S /\ shells \in Nat
      BY DEF TerminalInv, AgentInv, AgentTyped
    <3> HIDE DEF S
    <3>2. /\ Append(shellConn, a) \in [1..(shells + 1) -> S]
          /\ Append(shellConn, a)[shells + 1] = a
          /\ \A s \in 1..shells : Append(shellConn, a)[s] = shellConn[s]
      BY <3>1, Appended
    <3> QED
      BY <2>1, <3>2 DEF S
  <2>4. /\ shellTimer' \in [1..n -> {"none", "armed", "fired"}] /\ shellTimer'[n] = "none"
        /\ \A s \in 1..shells : shellTimer'[s] = shellTimer[s]
    <3> DEFINE S == {"none", "armed", "fired"}
               e == "none"
    <3>1. shellTimer \in [1..shells -> S] /\ e \in S /\ shells \in Nat
      BY DEF TerminalInv, AgentInv, AgentTyped
    <3> HIDE DEF S, e
    <3>2. /\ Append(shellTimer, e) \in [1..(shells + 1) -> S]
          /\ Append(shellTimer, e)[shells + 1] = e
          /\ \A s \in 1..shells : Append(shellTimer, e)[s] = shellTimer[s]
      BY <3>1, Appended
    <3> QED
      BY <2>1, <3>2 DEF S, e
  <2>5. PanelInv' /\ WireOK'
    BY <2>1, AgentStep
  <2>6. AgentTyped'
    <3>1. /\ dial' \in [AgentConns -> {"none", "dialled", "making", "reading", "over"}]
          /\ shellOf' \in [AgentConns -> 0..n]
          /\ \A c \in AgentConns : dial'[c] = "reading" => shellOf'[c] # 0
      BY <2>1, <2>2 DEF TerminalInv, AgentInv, AgentTyped
    <3>2. /\ leaving \subseteq 1..n /\ removed \subseteq 1..n /\ timerFired \subseteq 1..n
          /\ n \notin leaving \cup removed
          /\ 1..n = ({n} \ {0}) \cup leaving \cup removed
      BY <1>2, <2>2 DEF TerminalInv, AgentInv, AgentTyped
    <3> QED
      BY <2>1, <2>2, <2>3, <2>4, <3>1, <3>2 DEF AgentTyped
  <2>7. CurrentEnds'
    BY <2>1, <2>2, <2>3, <2>4, NoEndIsNone DEF TerminalInv, AgentInv, AgentTyped, CurrentEnds
  <2>8. Dialled'
    BY <2>1, <2>2, <2>3 DEF TerminalInv, AgentInv, AgentTyped, Dialled, panelTerm
  <2> QED
    BY <2>5, <2>6, <2>7, <2>8 DEF TerminalInv, AgentInv
<1> QED
  BY <1>1, <1>2

\* A shell is detached: it keeps its connection, or it has none and a timer.
LEMMA Detaches ==
    ASSUME TerminalInv, NEW s \in 1..shells, NEW a \in AgentConns, Detach(s, a)
    PROVE  /\ shellConn' \in [1..shells -> AgentConns \cup {NoEnd}]
           /\ shellTimer' \in [1..shells -> {"none", "armed", "fired"}]
           /\ \A t \in 1..shells :
                \/ shellConn'[t] = shellConn[t] /\ shellTimer'[t] = shellTimer[t]
                \/ /\ t = s /\ t \notin removed /\ shellConn[t] = a /\ shellConn'[t] = NoEnd
                   /\ shellTimer'[t] = (IF shellTimer[t] = "none" THEN "armed"
                                        ELSE shellTimer[t])
           /\ s \notin removed => shellConn'[s] # a
<1>1. /\ shellConn \in [1..shells -> AgentConns \cup {NoEnd}]
      /\ shellTimer \in [1..shells -> {"none", "armed", "fired"}]
  BY DEF TerminalInv, AgentInv, AgentTyped
<1>2. CASE s \in removed \/ shellConn[s] # a
  BY <1>1, <1>2 DEF Detach
<1>3. CASE ~(s \in removed \/ shellConn[s] # a)
  BY <1>1, <1>3, NoEndIsNone DEF Detach
<1> QED
  BY <1>2, <1>3

\* A shell that is detached ends by its timer, or by the callback of a fired one.
LEMMA DetachedEnds ==
    ASSUME TerminalInv, NEW s \in 1..shells, NEW a \in AgentConns, Detach(s, a),
           UNCHANGED <<shellOf, shells, current, timerFired, leaving, removed>>,
           \A c \in AgentConns : dial'[c] # dial[c] => c = a /\ dial[a] = "reading" /\ shellOf[a] = s
    PROVE  CurrentEnds'
<1> SUFFICES ASSUME current # 0 PROVE CurrentEnds'
  BY DEF CurrentEnds
<1> DEFINE t == current
<1>1. /\ t \in 1..shells /\ t \notin removed
      /\ shellTimer[t] \in {"none", "armed", "fired"}
      /\ shellTimer[t] = "fired" => t \in timerFired
      /\ \/ t \in timerFired \/ shellTimer[t] = "armed"
         \/ shellConn[t] # NoEnd /\ dial[shellConn[t]] = "reading" /\ shellOf[shellConn[t]] = t
      /\ shellConn[t] \in AgentConns \cup {NoEnd}
  BY DEF TerminalInv, AgentInv, AgentTyped, CurrentEnds
<1>2. CASE shellConn'[t] # shellConn[t] \/ shellTimer'[t] # shellTimer[t]
  <2>1. shellTimer'[t] = (IF shellTimer[t] = "none" THEN "armed" ELSE shellTimer[t])
    BY <1>1, <1>2, Detaches
  <2> QED
    BY <1>1, <2>1 DEF CurrentEnds
<1>3. CASE shellConn'[t] = shellConn[t] /\ shellTimer'[t] = shellTimer[t]
  <2>1. CASE t \in timerFired \/ shellTimer[t] = "armed"
    BY <1>1, <1>3, <2>1 DEF CurrentEnds
  <2>2. CASE /\ shellConn[t] # NoEnd /\ dial[shellConn[t]] = "reading"
             /\ shellOf[shellConn[t]] = t
    <3>1. dial'[shellConn[t]] = "reading"
      <4>1. shellConn[t] # a \/ shellOf[a] # s
        <5>1. s = t => shellConn'[s] # a
          BY <1>1, Detaches
        <5> QED
          BY <1>3, <2>2, <5>1
      <4> QED
        BY <1>1, <2>2, <4>1
    <3> QED
      BY <1>1, <1>3, <2>2, <3>1 DEF CurrentEnds
  <2> QED
    BY <1>1, <2>1, <2>2
<1> QED
  BY <1>2, <1>3

LEMMA InputEndsKeeps ==
    ASSUME TerminalInv, NEW a \in AgentConns, InputEnds(a)
    PROVE  TerminalInv'
<1> DEFINE s == shellOf[a]
<1>1. /\ dial[a] = "reading" /\ dial' = [dial EXCEPT ![a] = "over"] /\ Detach(s, a)
      /\ UNCHANGED <<panelTerm, closing, ended, told, shellOf, shells, current, timerFired,
                     leaving, removed, mishaps>>
  BY DEF InputEnds, DialGoes, wireTerm
<1>2. s \in 1..shells
  BY <1>1 DEF TerminalInv, AgentInv, AgentTyped
<1>3. PanelInv' /\ WireOK'
  BY <1>1, AgentStep
<1>4. /\ dial' \in [AgentConns -> {"none", "dialled", "making", "reading", "over"}]
      /\ \A c \in AgentConns : /\ dial'[c] # dial[c] => c = a
                               /\ dial'[c] = "reading" => dial[c] = "reading"
                               /\ dial'[c] # "none" => dial[c] # "none"
  BY <1>1 DEF TerminalInv, AgentInv, AgentTyped
<1>5. AgentTyped'
  BY <1>1, <1>2, <1>4, Detaches DEF TerminalInv, AgentInv, AgentTyped
<1>6. CurrentEnds'
  BY <1>1, <1>2, <1>4, DetachedEnds
<1>7. Dialled'
  <2>1. \A t \in 1..shells : shellConn'[t] = shellConn[t] \/ shellConn'[t] = NoEnd
    BY <1>1, <1>2, Detaches
  <2> QED
    BY <1>1, <1>4, <2>1 DEF TerminalInv, Dialled, panelTerm
<1> QED
  BY <1>3, <1>5, <1>6, <1>7 DEF TerminalInv, AgentInv

LEMMA OutputFailsKeeps ==
    ASSUME TerminalInv, NEW s \in 1..shells, OutputFails(s)
    PROVE  TerminalInv'
<1> DEFINE a == shellConn[s]
<1>1. /\ a \in ended /\ Detach(s, a)
      /\ UNCHANGED <<panelTerm, closing, ended, told, dial, shellOf, shells, current,
                     timerFired, leaving, removed, mishaps>>
  BY DEF OutputFails, wireTerm
<1>2. a \in AgentConns
  BY <1>1, NoEndIsNone DEF TerminalInv, AgentInv, AgentTyped, WireOK, InUse
<1>3. PanelInv' /\ WireOK'
  BY <1>1, AgentStep
<1>4. AgentTyped'
  BY <1>1, <1>2, Detaches DEF TerminalInv, AgentInv, AgentTyped
<1>5. CurrentEnds'
  BY <1>1, <1>2, DetachedEnds
<1>6. Dialled'
  <2>1. \A t \in 1..shells : shellConn'[t] = shellConn[t] \/ shellConn'[t] = NoEnd
    BY <1>1, <1>2, Detaches
  <2> QED
    BY <1>1, <2>1 DEF TerminalInv, Dialled, panelTerm
<1> QED
  BY <1>3, <1>4, <1>5, <1>6 DEF TerminalInv, AgentInv

\* A shell leaves the table: what is left of the agent's invariant holds of none.
LEMMA LeavesKeeps ==
    ASSUME TerminalInv, NEW s \in 1..shells, LeaveSessions(s),
           UNCHANGED <<panelTerm, shellOf, shells, shellConn, removed>>,
           \A c \in AgentConns :
             dial'[c] # dial[c] => /\ dial[c] = "reading" /\ dial'[c] = "over"
                                   /\ shellOf[c] = s,
           dial' \in [AgentConns -> {"none", "dialled", "making", "reading", "over"}],
           shellTimer' \in [1..shells -> {"none", "armed", "fired"}],
           timerFired' \subseteq 1..shells,
           current # 0 /\ current # s =>
             /\ shellTimer'[current] = shellTimer[current]
             /\ current \in timerFired <=> current \in timerFired'
    PROVE  AgentInv' /\ Dialled'
<1>1. AgentTyped'
  BY DEF LeaveSessions, TerminalInv, AgentInv, AgentTyped
<1>2. CurrentEnds'
  <2>1. CASE current = s
    BY <2>1 DEF LeaveSessions, CurrentEnds
  <2>2. CASE current # s
    <3> SUFFICES ASSUME current # 0 PROVE CurrentEnds'
      BY <2>2 DEF LeaveSessions, CurrentEnds
    <3>1. current' = current
      BY <2>2 DEF LeaveSessions
    <3>2. /\ current \in timerFired' \/ shellTimer'[current] = "armed"
             \/ /\ shellConn[current] # NoEnd
                /\ dial[shellConn[current]] = "reading" /\ shellOf[shellConn[current]] = current
          /\ shellTimer'[current] = "fired" => current \in timerFired'
      BY <2>2 DEF TerminalInv, AgentInv, CurrentEnds
    <3>3. shellConn[current] # NoEnd /\ dial[shellConn[current]] = "reading"
            /\ shellOf[shellConn[current]] = current
          => dial'[shellConn[current]] = "reading"
      BY <2>2 DEF TerminalInv, AgentInv, AgentTyped
    <3> QED
      BY <3>1, <3>2, <3>3 DEF CurrentEnds
  <2> QED
    BY <2>1, <2>2
<1>3. Dialled'
  BY DEF TerminalInv, Dialled, panelTerm, AgentInv, AgentTyped
<1> QED
  BY <1>1, <1>2, <1>3 DEF AgentInv

LEMMA CloseReceivedKeeps ==
    ASSUME TerminalInv, NEW a \in AgentConns, CloseReceived(a)
    PROVE  TerminalInv'
<1>1. /\ dial[a] = "reading" /\ dial' = [dial EXCEPT ![a] = "over"]
      /\ LeaveSessions(shellOf[a]) /\ closing' = closing \cup ({a} \ ended)
      /\ UNCHANGED <<panelTerm, ended, told, shellOf, shells, shellConn, shellTimer,
                     timerFired, removed, mishaps>>
  BY DEF CloseReceived, DialGoes
<1>2. shellOf[a] \in 1..shells /\ agentStage[a] # "idle"
  BY <1>1 DEF TerminalInv, AgentInv, AgentTyped, Dialled
<1>3. /\ dial' \in [AgentConns -> {"none", "dialled", "making", "reading", "over"}]
      /\ \A c \in AgentConns : dial'[c] # dial[c] => c = a /\ dial'[c] = "over"
  BY <1>1 DEF TerminalInv, AgentInv, AgentTyped
<1>4. PanelInv' /\ WireOK'
  BY <1>1, <1>2, NoEndIsNone, AgentStep
<1>5. /\ shellTimer \in [1..shells -> {"none", "armed", "fired"}]
      /\ timerFired \subseteq 1..shells
  BY DEF TerminalInv, AgentInv, AgentTyped
<1>6. AgentInv' /\ Dialled'
  BY <1>1, <1>2, <1>3, <1>5, LeavesKeeps
<1> QED
  BY <1>4, <1>6 DEF TerminalInv

LEMMA ShellExitsKeeps ==
    ASSUME TerminalInv, NEW s \in 1..shells, ShellExits(s)
    PROVE  TerminalInv'
<1>1. /\ LeaveSessions(s)
      /\ UNCHANGED <<panelTerm, closing, ended, told, dial, shellOf, shells, shellConn,
                     shellTimer, timerFired, removed>>
  BY DEF ShellExits, wireTerm
<1>2. PanelInv' /\ WireOK'
  BY <1>1, AgentStep DEF ShellExits
<1>3. AgentInv' /\ Dialled'
  BY <1>1, LeavesKeeps DEF TerminalInv, AgentInv, AgentTyped
<1> QED
  BY <1>2, <1>3 DEF TerminalInv

LEMMA ShellTimerFiresKeeps ==
    ASSUME TerminalInv, NEW s \in 1..shells, ShellTimerFires(s)
    PROVE  TerminalInv'
<1>1. /\ shellTimer' = [shellTimer EXCEPT ![s] = "fired"]
      /\ timerFired' = timerFired \cup {s}
      /\ UNCHANGED <<panelTerm, closing, ended, told, dial, shellOf, shells, current,
                     shellConn, leaving, removed>>
  BY DEF ShellTimerFires, wireTerm
<1>2. PanelInv' /\ WireOK'
  BY <1>1, AgentStep DEF ShellTimerFires
<1>3. AgentTyped'
  BY <1>1 DEF TerminalInv, AgentInv, AgentTyped
<1>4. CurrentEnds'
  BY <1>1 DEF TerminalInv, AgentInv, AgentTyped, CurrentEnds
<1>5. Dialled'
  BY <1>1 DEF TerminalInv, Dialled, panelTerm
<1> QED
  BY <1>2, <1>3, <1>4, <1>5 DEF TerminalInv, AgentInv

LEMMA ShellTimerRunsKeeps ==
    ASSUME TerminalInv, NEW s \in 1..shells, ShellTimerRuns(s)
    PROVE  TerminalInv'
<1>1. /\ LeaveSessions(s) /\ timerFired' = timerFired \ {s}
      /\ UNCHANGED <<panelTerm, closing, ended, told, dial, shellOf, shells, shellConn,
                     shellTimer, removed, mishaps>>
  BY DEF ShellTimerRuns, wireTerm
<1>2. PanelInv' /\ WireOK'
  BY <1>1, AgentStep
<1>3. AgentInv' /\ Dialled'
  BY <1>1, LeavesKeeps DEF TerminalInv, AgentInv, AgentTyped
<1> QED
  BY <1>2, <1>3 DEF TerminalInv

LEMMA CloseShellKeeps ==
    ASSUME TerminalInv, NEW s \in 1..shells, CloseShell(s)
    PROVE  TerminalInv'
<1>1. /\ s \in leaving /\ leaving' = leaving \ {s} /\ removed' = removed \cup {s}
      /\ shellTimer' = [shellTimer EXCEPT ![s] = "none"]
      /\ closing' = closing \cup (({shellConn[s]} \ {NoEnd}) \ ended)
      /\ shellConn' = [shellConn EXCEPT ![s] = NoEnd]
      /\ UNCHANGED <<panelTerm, ended, told, dial, shellOf, shells, current, timerFired,
                     mishaps>>
  BY DEF CloseShell
<1>2. /\ shellConn[s] \in AgentConns \cup {NoEnd} /\ current # s
      /\ shellConn[s] # NoEnd => agentStage[shellConn[s]] # "idle"
  BY <1>1 DEF TerminalInv, AgentInv, AgentTyped, Dialled
<1>3. PanelInv' /\ WireOK'
  BY <1>1, <1>2, AgentStep
<1>4. AgentTyped'
  BY <1>1, <1>2 DEF TerminalInv, AgentInv, AgentTyped
<1>5. CurrentEnds'
  BY <1>1, <1>2 DEF TerminalInv, AgentInv, AgentTyped, CurrentEnds
<1>6. Dialled'
  BY <1>1 DEF TerminalInv, AgentInv, AgentTyped, Dialled, panelTerm
<1> QED
  BY <1>3, <1>4, <1>5, <1>6 DEF TerminalInv, AgentInv

-----------------------------------------------------------------------------
(* The invariant, and the theorems. *)

LEMMA InitTerminalInv == TerminalInit => TerminalInv
<1> SUFFICES ASSUME TerminalInit PROVE TerminalInv
  OBVIOUS
<1>1. forwarding \in BOOLEAN /\ cleanup \in BOOLEAN /\ cleanupFired \in BOOLEAN
  BY DEF TerminalInit
<1>2. PanelTyped
  BY <1>1, MishapsAreFinite DEF TerminalInit, PanelTyped
<1>3. EndsOK /\ AttachedKnown /\ ForwardOK /\ SessionWillEnd
  BY NoEndIsNone DEF TerminalInit, EndsOK, AttachedKnown, ForwardOK, SessionWillEnd, Paired, Pairs
<1>4. WireOK
  BY DEF TerminalInit, WireOK
<1>5. AgentTyped
  BY DEF TerminalInit, AgentTyped
<1>6. CurrentEnds /\ Dialled
  BY DEF TerminalInit, CurrentEnds, Dialled
<1> QED
  BY <1>2, <1>3, <1>4, <1>5, <1>6 DEF TerminalInv, PanelInv, AgentInv

LEMMA NextTerminalInv == TerminalInv /\ [TerminalNext]_terminalVars => TerminalInv'
<1> SUFFICES ASSUME TerminalInv, [TerminalNext]_terminalVars PROVE TerminalInv'
  OBVIOUS
<1>1. ASSUME NEW b \in Browsers,
             \/ OpenTerminal(b) \/ AttachBrowser(b) \/ DispatchTerminal(b)
             \/ AgentOffline(b) \/ BrowserJoins(b)
      PROVE  TerminalInv'
  BY <1>1, OpenTerminalKeeps, AttachBrowserKeeps, DispatchTerminalKeeps, AgentOfflineKeeps,
     BrowserJoinsKeeps
<1>2. ASSUME NEW a \in AgentConns,
             \/ DialTerminal(a) \/ AttachAgent(a) \/ RefuseAgent(a) \/ AgentJoins(a)
             \/ AcquireShell(a) \/ AcquireMade(a) \/ InputEnds(a) \/ CloseReceived(a)
      PROVE  TerminalInv'
  BY <1>2, DialTerminalKeeps, AttachAgentKeeps, RefuseAgentKeeps, AgentJoinsKeeps,
     AcquireShellKeeps, AcquireMadeKeeps, InputEndsKeeps, CloseReceivedKeeps
<1>3. ASSUME NEW b \in Browsers, NEW a \in AgentConns,
             \/ ForwarderStarts(b, a) \/ ForwarderErrs(b, a) \/ ForwarderCloses(b, a)
             \/ ForwarderSuspends(b, a) \/ BrowserCloseHandler(b, a) \/ AgentCloseHandler(b, a)
      PROVE  TerminalInv'
  BY <1>3, ForwarderStartsKeeps, ForwarderErrsKeeps, ForwarderClosesKeeps, SuspensionKeeps
<1>4. ASSUME CleanupFires \/ CleanupRuns \/ CloseClientSessions
      PROVE  TerminalInv'
  BY <1>4, CleanupFiresKeeps, SessionGoesKeeps
<1>5. ASSUME NEW c \in Browsers \cup AgentConns, ConnectionEnds(c)
      PROVE  TerminalInv'
  BY <1>5, ConnectionEndsKeeps
<1>6. ASSUME NEW s \in 1..shells,
             \/ OutputFails(s) \/ ShellExits(s) \/ ShellTimerFires(s)
             \/ ShellTimerRuns(s) \/ CloseShell(s)
      PROVE  TerminalInv'
  BY <1>6, OutputFailsKeeps, ShellExitsKeeps, ShellTimerFiresKeeps, ShellTimerRunsKeeps,
     CloseShellKeeps
<1>7. CASE UNCHANGED terminalVars
  <2>1. UNCHANGED <<panelTerm, agentTerm, closing, ended, told, mishaps>>
    BY <1>7 DEF terminalVars, wireTerm
  <2>2. PanelInv' /\ WireOK'
    BY <2>1, AgentStep
  <2>3. AgentInv' /\ Dialled'
    BY <2>1, AgentRests DEF panelTerm
  <2> QED
    BY <2>2, <2>3 DEF TerminalInv
<1> QED
  BY <1>1, <1>2, <1>3, <1>4, <1>5, <1>6, <1>7 DEF TerminalNext

THEOREM TerminalInvariant == TerminalSpec => []TerminalInv
  BY InitTerminalInv, NextTerminalInv, PTL DEF TerminalSpec

\* The state of a terminal keeps its shape, for any number of connections and shells.
THEOREM TerminalTypes == TerminalSpec => []TerminalTypeOK
<1>1. TerminalInv => TerminalTypeOK
  <2> SUFFICES ASSUME TerminalInv PROVE TerminalTypeOK
    OBVIOUS
  <2>1. termSession # "open" => SessionEnds = {}
    BY EndsInUse
  <2>2. {forwarding, cleanup, cleanupFired} \subseteq BOOLEAN
    BY DEF TerminalInv, PanelInv, PanelTyped
  <2> QED
    BY <2>1, <2>2 DEF TerminalInv, PanelInv, PanelTyped, EndsOK, WireOK, AgentInv, AgentTyped,
                      TerminalTypeOK
<1> QED
  BY <1>1, TerminalInvariant, PTL

\* A session never stays in the panel's table with nothing that will end it: neither
\* for lost ends nor for agents that go offline half-way, however often they return.
THEOREM SessionsEnd == TerminalSpec => []SessionWillEnd
<1>1. TerminalInv => SessionWillEnd
  BY DEF TerminalInv, PanelInv
<1> QED
  BY <1>1, TerminalInvariant, PTL

\* A shell in the agent's table always has a timer, a fired callback or a reader,
\* whichever of its threads detaches it and whichever connection takes it over.
THEOREM ShellsEnd == TerminalSpec => []ShellWillEnd
<1>1. TerminalInv => ShellWillEnd
  BY DEF TerminalInv, AgentInv, AgentTyped, CurrentEnds, ShellWillEnd
<1> QED
  BY <1>1, TerminalInvariant, PTL

\* Once the panel has dropped the session, every shell is detached or its connection
\* is closed, about to be closed, or not attached yet and will be refused.
THEOREM NoShellIsLeft == TerminalSpec => []NoShellWithoutSession
<1>1. TerminalInv => NoShellWithoutSession
  <2> SUFFICES ASSUME TerminalInv, termSession = "gone", NEW s \in 1..shells,
                      shellConn[s] # NoEnd
               PROVE  \/ shellConn[s] \in ended \cup closing
                      \/ shellConn[s] \in {a \in AgentConns : agentStage[a] = "checked"}
    BY DEF NoShellWithoutSession
  <2>1. shellConn[s] \in AgentConns /\ agentStage[shellConn[s]] # "idle"
    BY DEF TerminalInv, AgentInv, AgentTyped, Dialled
  <2>2. agentEnd = NoEnd
    BY DEF TerminalInv, PanelInv, EndsOK
  <2> QED
    BY <2>1, <2>2 DEF TerminalInv, PanelInv, PanelTyped, AttachedKnown
<1> QED
  BY <1>1, TerminalInvariant, PTL

\* No step of an older pair, of its forwarder, its readers or its close handlers,
\* suspends a session whose two ends both live.
THEOREM LivePairStays == TerminalSpec => LivePairKept
<1>1. ASSUME TerminalInv, [TerminalNext]_terminalVars
      PROVE  [termSession = "open" /\ Paired /\ {browserEnd, agentEnd} \cap (ended \cup closing) = {}
                => termSession' = "gone" \/ (browserEnd' # NoEnd /\ agentEnd' # NoEnd)]_terminalVars
  <2> SUFFICES ASSUME termSession = "open", Paired, TerminalNext,
                      {browserEnd, agentEnd} \cap (ended \cup closing) = {}
               PROVE  termSession' = "gone" \/ (browserEnd' # NoEnd /\ agentEnd' # NoEnd)
    BY <1>1
  <2> USE DEF Paired
  <2>1. ASSUME UNCHANGED <<browserEnd, agentEnd>> PROVE browserEnd' # NoEnd /\ agentEnd' # NoEnd
    BY <2>1
  <2>2. ASSUME RemoveSession PROVE termSession' = "gone"
    BY <2>2 DEF RemoveSession
  <2>3. ASSUME NEW b \in Browsers,
               \/ OpenTerminal(b) \/ AttachBrowser(b) \/ DispatchTerminal(b)
               \/ AgentOffline(b) \/ BrowserJoins(b)
        PROVE  termSession' = "gone" \/ (browserEnd' # NoEnd /\ agentEnd' # NoEnd)
    BY <2>1, <2>2, <2>3, NoEndIsNone
       DEF OpenTerminal, AttachBrowser, DispatchTerminal, AgentOffline, CloseSession,
           BrowserJoins
  <2>4. ASSUME NEW a \in AgentConns,
               \/ DialTerminal(a) \/ AttachAgent(a) \/ RefuseAgent(a) \/ AgentJoins(a)
        PROVE  browserEnd' # NoEnd /\ agentEnd' # NoEnd
    BY <2>1, <2>4, NoEndIsNone DEF DialTerminal, AttachAgent, RefuseAgent, AgentJoins
  <2>5. ASSUME NEW a \in AgentConns,
               AcquireShell(a) \/ AcquireMade(a) \/ InputEnds(a) \/ CloseReceived(a)
        PROVE  browserEnd' # NoEnd /\ agentEnd' # NoEnd
    BY <2>1, <2>5 DEF AcquireShell, AcquireMade, InputEnds, CloseReceived, panelTerm
  <2>6. ASSUME NEW b \in Browsers, NEW a \in AgentConns,
               ForwarderStarts(b, a) \/ ForwarderErrs(b, a) \/ ForwarderCloses(b, a)
        PROVE  termSession' = "gone" \/ (browserEnd' # NoEnd /\ agentEnd' # NoEnd)
    BY <2>1, <2>2, <2>6 DEF ForwarderStarts, ForwarderErrs, ForwarderCloses, CloseSession
  <2>7. ASSUME NEW b \in Browsers, NEW a \in AgentConns, ForwarderSuspends(b, a)
        PROVE  browserEnd' # NoEnd /\ agentEnd' # NoEnd
    <3>1. {b, a} \cap ended # {}
      BY <1>1, <2>7 DEF ForwarderSuspends, TerminalInv, PanelInv, ForwardOK
    <3>2. b # browserEnd \/ a # agentEnd
      BY <3>1
    <3>3. b # NoEnd /\ a # NoEnd
      BY NoEndIsNone
    <3> QED
      BY <2>1, <2>7, <3>2, <3>3 DEF ForwarderSuspends, Suspend
  <2>8. ASSUME NEW b \in Browsers, NEW a \in AgentConns,
               BrowserCloseHandler(b, a) \/ AgentCloseHandler(b, a)
        PROVE  browserEnd' # NoEnd /\ agentEnd' # NoEnd
    BY <2>8 DEF BrowserCloseHandler, AgentCloseHandler
  <2>9. ASSUME CleanupFires \/ CleanupRuns \/ CloseClientSessions
        PROVE  termSession' = "gone" \/ (browserEnd' # NoEnd /\ agentEnd' # NoEnd)
    BY <2>1, <2>2, <2>9 DEF CleanupFires, CleanupRuns, CloseClientSessions, CloseSession
  <2>10. ASSUME NEW c \in Browsers \cup AgentConns, ConnectionEnds(c)
         PROVE  browserEnd' # NoEnd /\ agentEnd' # NoEnd
    BY <2>1, <2>10 DEF ConnectionEnds, panelTerm
  <2>11. ASSUME NEW s \in 1..shells,
                \/ OutputFails(s) \/ ShellExits(s) \/ ShellTimerFires(s)
                \/ ShellTimerRuns(s) \/ CloseShell(s)
         PROVE  browserEnd' # NoEnd /\ agentEnd' # NoEnd
    BY <2>1, <2>11 DEF OutputFails, ShellExits, ShellTimerFires, ShellTimerRuns, CloseShell,
                       panelTerm
  <2> QED
    BY <2>3, <2>4, <2>5, <2>6, <2>7, <2>8, <2>9, <2>10, <2>11 DEF TerminalNext
<1> QED
  BY <1>1, TerminalInvariant, PTL DEF TerminalSpec, LivePairKept
=============================================================================

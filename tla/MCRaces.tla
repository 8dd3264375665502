------------------------------- MODULE MCRaces -------------------------------
(***************************************************************************)
(* What must hold in any order, in one instance for TLC: the alerts of      *)
(* OfflineNotifier with every goroutine free, the history that an upgrade   *)
(* carries over, of RebuiltHistory, and the data that a restore or an       *)
(* upgrade puts at stake, of DataRestore.  They share no state: a behaviour *)
(* is one of the component that its first state chooses, the others rest.   *)
(***************************************************************************)
EXTENDS MCOfflineNotifier, RebuiltHistory, DataRestore

VARIABLE component  \* the component of the behaviour

\* Where the upgrade of the store rests: one point in the old tables.
OnePoint == legacy = LegacyTables({0}, 0, 0, 0, 0)

\* Where the panel's data rests: the first version on its own data.
OwnData == running = 1 /\ data.marker = 1

OneInit ==
    /\ Init /\ HistoryInit /\ RestoreInit
    /\ \/ component = "alerts" /\ OnePoint /\ OwnData
       \/ component = "history" /\ windows = {} /\ OwnData
       \/ component = "restore" /\ windows = {} /\ OnePoint

OneNext ==
    /\ UNCHANGED component
    /\ \/ component = "alerts" /\ Next /\ UNCHANGED <<rebuiltVars, restoreVars>>
       \/ component = "history" /\ HistoryNext /\ UNCHANGED <<vars, restoreVars>>
       \/ component = "restore" /\ RestoreNext /\ UNCHANGED <<vars, rebuiltVars>>

OneSpec == OneInit /\ [][OneNext]_<<vars, rebuiltVars, restoreVars, component>>
=============================================================================

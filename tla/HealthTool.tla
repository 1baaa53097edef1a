----------------------------- MODULE HealthTool -----------------------------
(***************************************************************************)
(* bindhome-health-tool: three reports of the server, on the recovery of   *)
(* the registry, on hardware that is not documented and on direct          *)
(* references, are loaded together and shown, with a count of what is to   *)
(* be done or the words that nothing is.                                   *)
(*                                                                         *)
(* Of a report it matters whether it has something to do, and when it was  *)
(* made.  Making a report and receiving it are one step.  What the tool    *)
(* shows of the panel's own data is left out, and so is the revision in    *)
(* the report on hardware, which module Panel has.                         *)
(***************************************************************************)
EXTENDS Integers, Sequences, FiniteSets, SequencesExt

CONSTANTS
  MaxTime,        \* bound: changes of what is reported
  MaxLoads        \* bound: loads under way

Reports == {"recovery", "hardware", "references"}

VARIABLES
  todo, time,                 \* the server: which reports have something; changes so far
  loads,                      \* answers that are awaited, by load
  connected, loading, error,
  shown                       \* the reports

server == <<todo, time>>
tool == <<loads, connected, loading, error, shown>>
vars == <<server, tool>>

NoReports == [r \in Reports |-> [todo |-> FALSE, at |-> 0]]

Init ==
  /\ todo \in [Reports -> BOOLEAN] /\ time = 0
  /\ loads = <<>> /\ connected = FALSE /\ loading = FALSE /\ error = FALSE
  /\ shown = NoReports

-----------------------------------------------------------------------------
(***************************************************************************)
(* The server.                                                             *)
(***************************************************************************)

\* The registry fails to load or is restored; hardware comes and goes; so do references.
Change(r) ==
  /\ time < MaxTime /\ time' = time + 1
  /\ todo' = [todo EXCEPT ![r] = ~@]
  /\ UNCHANGED tool

-----------------------------------------------------------------------------
(***************************************************************************)
(* _refreshSupplementalHealth.                                             *)
(***************************************************************************)

MayLoad == ~loading /\ Len(loads) < MaxLoads

Load(who) ==
  IF MayLoad
    THEN /\ loading' = TRUE /\ error' = FALSE
         /\ loads' = Append(loads, [by |-> who, awaited |-> Reports, failed |-> FALSE,
                                  got |-> NoReports])
    ELSE UNCHANGED <<loads, loading, error>>

Connect ==
  /\ ~connected /\ connected' = TRUE /\ Load("view")
  /\ UNCHANGED <<server, shown>>

Disconnect ==
  /\ connected /\ connected' = FALSE
  /\ UNCHANGED <<server, loads, loading, error, shown>>

\* The button, which is disabled during a load.
Refresh ==
  /\ connected /\ ~loading /\ Load("user")
  /\ UNCHANGED <<server, connected, shown>>

\* Home Assistant gives the panel a new hass, as it does whenever a state changes.
HassUpdated ==
  /\ connected /\ Load("hass")
  /\ UNCHANGED <<server, connected, shown>>

\* The reports on hardware and references need the registry; any may fail otherwise.
Reported(l, r) ==
  /\ r \in loads[l].awaited
  /\ loads' = [loads EXCEPT ![l].awaited = @ \ {r},
                            ![l].got[r] = [todo |-> todo[r], at |-> time]]
  /\ r # "recovery" => ~todo["recovery"]

NotReported(l, r) ==
  /\ r \in loads[l].awaited
  /\ loads' = [loads EXCEPT ![l].awaited = @ \ {r}, ![l].failed = TRUE]

Answer ==
  /\ \E l \in DOMAIN loads, r \in Reports : Reported(l, r) \/ NotReported(l, r)
  /\ UNCHANGED <<server, connected, loading, error, shown>>

Released(l) == FALSE

AllThere(l) == loads[l].awaited = {} /\ ~loads[l].failed

Show(l) ==
  /\ AllThere(l)
  /\ shown' = loads[l].got
  /\ UNCHANGED error

\* The first error ends a load; the other answers are dropped.
Fail(l) ==
  /\ loads[l].failed
  /\ error' = TRUE
  /\ UNCHANGED <<shown>>

Settle ==
  /\ \E l \in DOMAIN loads :
       /\ Show(l) \/ Fail(l)
       /\ loading' = Released(l)
       /\ loads' = RemoveAt(loads, l)
  /\ UNCHANGED <<server, connected>>

Next ==
  \/ \E r \in Reports : Change(r)
  \/ Connect \/ Disconnect \/ Refresh \/ HassUpdated
  \/ Answer \/ Settle

Spec == Init /\ [][Next]_vars

-----------------------------------------------------------------------------
(***************************************************************************)
(* Properties.                                                             *)
(***************************************************************************)

\* The state has the shapes the code gives it; one load is under way while the flag is set.
TypeOK ==
  /\ todo \in [Reports -> BOOLEAN] /\ time \in 0..MaxTime
  /\ \A l \in DOMAIN loads :
       loads[l] \in [by : {"view", "user", "hass"}, awaited : SUBSET Reports, failed : BOOLEAN,
                     got : [Reports -> [todo : BOOLEAN, at : 0..time]]]
  /\ Len(loads) = IF loading THEN 1 ELSE 0
  /\ connected \in BOOLEAN /\ loading \in BOOLEAN /\ error \in BOOLEAN
  /\ shown \in [Reports -> [todo : BOOLEAN, at : 0..time]]

\* A report is never replaced by an older one, though loads are started by the user, by the
\* view and by Home Assistant (health-tool.js _refreshSupplementalHealth).
ReportsNeverGoBack == [][\A r \in Reports : shown'[r].at >= shown[r].at]_vars

=============================================================================

------------------------------ MODULE AddView ------------------------------
(***************************************************************************)
(* bindhome-add-view: its modes, and the form that adds one asset.         *)
(*                                                                         *)
(* Opening the view anew is another session, and resets it.  The code      *)
(* compares a submission's operation and session with the current ones;    *)
(* here a request is "own" until either moves on.  History: a request is   *)
(* "here" until the form it was submitted from is left, "current" until    *)
(* the session it was submitted in is over.                                *)
(***************************************************************************)
EXTENDS Integers, Sequences, FiniteSets, SequencesExt

CONSTANTS
  Presets, Areas,
  None,
  MaxCreated,     \* bound: assets the server accepts
  MaxPending      \* bound: requests under way

AddAssumption == None \notin Presets \cup Areas

VARIABLES
  created,        \* the server: how many it has accepted
  pending,        \* requests under way, oldest first
  mode, preset, area,             \* the view and its draft
  saving, error, sync, committed

form == <<preset, area, saving, error, sync, committed>>
vars == <<created, pending, mode, form>>

Modes == {"single", "bulk", "import"}

Init ==
  /\ created = 0 /\ pending = <<>>
  /\ mode = "single" /\ preset = None /\ area = None
  /\ saving = FALSE /\ error = FALSE /\ sync = FALSE /\ committed = FALSE

Disowned(q) == [n \in DOMAIN q |-> [q[n] EXCEPT !.own = FALSE]]

Left(q) == [n \in DOMAIN q |-> [q[n] EXCEPT !.here = FALSE]]

SessionOver(q) == [n \in DOMAIN q |-> [q[n] EXCEPT !.current = FALSE]]

\* Another session, with the room it was opened from, if any.
NewSession(context) ==
  /\ mode' = "single" /\ preset' = None /\ area' = context
  /\ saving' = FALSE /\ error' = FALSE /\ sync' = FALSE /\ committed' = FALSE
  /\ pending' = SessionOver(Left(Disowned(pending)))
  /\ UNCHANGED created

\* The other modes put the preset away, and nothing else.
SetMode(m) ==
  /\ m # mode /\ mode' = m
  /\ IF m = "single" THEN UNCHANGED <<preset, pending>>
     ELSE preset' = None /\ pending' = Left(pending)
  /\ UNCHANGED <<created, area, saving, error, sync, committed>>

Choose(p) ==
  /\ mode = "single" /\ preset = None
  /\ preset' = p /\ error' = FALSE /\ sync' = FALSE /\ committed' = FALSE
  /\ UNCHANGED <<created, pending, mode, area, saving>>

Cancel ==
  /\ preset # None /\ ~saving
  /\ preset' = None /\ error' = FALSE /\ sync' = FALSE /\ committed' = FALSE
  /\ pending' = Left(pending)
  /\ UNCHANGED <<created, mode, area, saving>>

SelectArea(a) ==
  /\ preset # None /\ a # area /\ area' = a
  /\ UNCHANGED <<created, pending, mode, preset, saving, error, sync, committed>>

Submittable == ~saving /\ ~committed

Submit ==
  /\ preset # None /\ Submittable /\ Len(pending) < MaxPending
  /\ saving' = TRUE /\ error' = FALSE /\ sync' = FALSE
  /\ pending' = Append(Disowned(pending),
                       [stage |-> "create", own |-> TRUE, here |-> TRUE, current |-> TRUE])
  /\ UNCHANGED <<created, mode, preset, area, committed>>

Without(n) == RemoveAt(pending, n)

\* onCreated follows, for the current operation only: it reads the assets and opens the new one.
Accept(n) ==
  /\ pending[n].stage = "create" /\ created < MaxCreated
  /\ created' = created + 1
  /\ IF pending[n].own
     THEN /\ committed' = TRUE /\ saving' = FALSE
          /\ pending' = [pending EXCEPT ![n].stage = "refresh"]
     ELSE pending' = Without(n) /\ UNCHANGED <<committed, saving>>
  /\ UNCHANGED <<mode, preset, area, error, sync>>

Released == FALSE

Refuse(n) ==
  /\ pending[n].stage = "create"
  /\ pending' = Without(n)
  /\ IF pending[n].own THEN error' = TRUE /\ saving' = Released ELSE UNCHANGED <<error, saving>>
  /\ UNCHANGED <<created, mode, preset, area, sync, committed>>

Refreshed(n, ok) ==
  /\ pending[n].stage = "refresh"
  /\ pending' = Without(n)
  /\ sync' = (sync \/ (pending[n].own /\ ~ok))
  /\ UNCHANGED <<created, mode, preset, area, saving, error, committed>>

\* Answers come in any order: the reads of one submission may overtake the next one's answer.
Answer(n) ==
  /\ n \in DOMAIN pending
  /\ Accept(n) \/ Refuse(n) \/ \E ok \in BOOLEAN : Refreshed(n, ok)

Next ==
  \/ \E a \in Areas \cup {None} : NewSession(a) \/ SelectArea(a)
  \/ \E m \in Modes : SetMode(m)
  \/ \E p \in Presets : Choose(p)
  \/ Cancel \/ Submit
  \/ \E n \in 1..MaxPending : Answer(n)

Spec == Init /\ [][Next]_vars

-----------------------------------------------------------------------------
(***************************************************************************)
(* Properties.                                                             *)
(***************************************************************************)

\* The state has the shapes the code gives it.
TypeOK ==
  /\ created \in 0..MaxCreated /\ mode \in Modes
  /\ preset \in Presets \cup {None} /\ area \in Areas \cup {None}
  /\ {saving, error, sync, committed} \subseteq BOOLEAN
  /\ \A n \in DOMAIN pending : pending[n].stage \in {"create", "refresh"}

\* A form adds one asset: after its submission was accepted, or while it is under way, it
\* is not submitted again (add-view.js _submit).
AddsOnce == Cardinality({n \in DOMAIN pending : pending[n].here}) <= 1

\* What is decided late for a session that is over changes nothing of the current one
\* (add-view.js _submit, willUpdate).  Within a session it may: a form that is chosen after
\* another was left through a mode is marked by the answer to that other one, as committed
\* or in error.
SessionKept ==
  [][\A n \in DOMAIN pending : ~pending[n].current /\ Answer(n) => UNCHANGED <<mode, form>>]_vars

=============================================================================

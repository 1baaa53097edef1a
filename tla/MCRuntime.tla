----------------------------- MODULE MCRuntime -----------------------------
(***************************************************************************)
(* The integration at work in one run: the life of its config entry and of *)
(* its file, the logical lights it keeps, and the replacement of hardware. *)
(* A behaviour is of one part, the others rest in an initial state.        *)
(***************************************************************************)
EXTENDS Lifecycle

CONSTANTS
  \* LightRuntime
  Light, Device, Plain, Name, Room, MaxWaiting,
  Scope        \* bound: of each part, what of them is used

VARIABLES
  part,
  \* LightRuntime
  represented, bound, room, entity, known, rooms, index, staleBindings, staleAreas, lights,
  adding, asset, resolved, followed, metadata, waiting, removing, snapshot, silent,
  \* Replacement
  name, fits, bindings, revision, plans, queue, committing

lightVars ==
  <<represented, bound, room, entity, known, rooms, index, staleBindings, staleAreas, lights,
    adding, asset, resolved, followed, metadata, waiting, removing, snapshot, silent>>
replacementVars == <<name, fits, bindings, revision, plans, queue, committing>>
PartVars == <<part, vars, lightVars, replacementVars>>

Lights == INSTANCE LightRuntime

Client == INSTANCE Replacement WITH
  Keys <- {"k"}, Hardware <- {"e", "f"}, Names <- {"m", "n"}, Clients <- {"c"},
  MaxRevision <- 1, MaxQueue <- 1, saving <- committing

ASSUME RuntimeAssumption == Lights!LightRuntimeAssumption /\ Client!ReplacementAssumption

\* The part of two lights, one of them perhaps of the other, or of a plain entity; and that of
\* one light and a device in two rooms.
MCScope ==
  [p \in {"life", "lights", "devices", "client"} |->
     IF p = "devices"
     THEN [lights |-> {"l1"}, targets |-> {"l1", "d1"}, names |-> {"n1", "n2", "n3"},
           rooms |-> {"r1", "r2"}]
     ELSE [lights |-> {"l1", "l2"}, targets |-> {"l1", "l2", "p1"}, names |-> {"n1", "n2", "n3"},
           rooms |-> {"r1"}]]

-----------------------------------------------------------------------------
Parts == {"life", "lights", "devices", "client"}

\* What is outside the scope of the part stays as it is at first: other lights unbound and in
\* the one room that stays, other devices under a name that nothing in the scope takes.
InScope ==
  LET scope == Scope[part] IN
    /\ represented \subseteq scope.lights
    /\ \A a \in Light : /\ bound[a] \in {None} \cup IF a \in scope.lights THEN scope.targets ELSE {}
                        /\ room[a] \in scope.rooms
                        /\ a \notin scope.lights => room[a] = "r1"
    /\ Plain \ known \subseteq scope.targets /\ Room \ rooms \subseteq scope.rooms
    /\ \A e \in Lights!Entry : IF e \in scope.lights \cup scope.targets
                               THEN entity[e] \in scope.names \cup {None}
                               ELSE e \in Device => entity[e] \notin scope.names \cup {None}

PartInit ==
  /\ part \in Parts
  /\ Init /\ (part # "life" => file = Missing)
  /\ Lights!Init /\ InScope
  /\ Client!Init
  /\ name = [e \in {"e", "f"} |-> IF e = "e" THEN "m" ELSE None]

PartNext ==
  \/ part = "life" /\ Next /\ UNCHANGED <<part, lightVars, replacementVars>>
  \/ /\ part \in {"lights", "devices"} /\ Lights!Next /\ UNCHANGED part /\ InScope'
     /\ UNCHANGED <<vars, replacementVars>>
  \/ /\ part = "client" /\ Client!Next
     /\ UNCHANGED <<part, vars, lightVars>>

\* The event loop runs its tasks, each set-up step, reconciliation and save among them.
Runs ==
  \/ part = "life" /\ (Read \/ Canonicalize \/ ClearRecovery \/ Loaded)
     /\ UNCHANGED <<part, lightVars, replacementVars>>
  \/ part \in {"lights", "devices"} /\ (Lights!Begin \/ Lights!Finish)
     /\ UNCHANGED <<part, vars, replacementVars>>
  \/ part = "client" /\ (Client!Wake \/ Client!Saved \/ Client!SaveFailed)
     /\ UNCHANGED <<part, vars, lightVars>>

\* The tasks of one light, that add it and remove it.
Tends(a) ==
  /\ part \in {"lights", "devices"}
  /\ Lights!RemoveLight(a) \/ \E n \in Name : Lights!Add(a, n)
  /\ UNCHANGED <<part, vars, replacementVars>> /\ InScope'

PartSpec ==
  /\ PartInit /\ [][PartNext]_PartVars
  /\ WF_PartVars(Runs) /\ \A a \in Light : WF_PartVars(Tends(a))

-----------------------------------------------------------------------------
\* Whatever commits, renames and removals come between the awaits of a reconciliation, when it
\* has settled there is a light exactly for each representation (light.py async_reconcile) and
\* each follows what its binding resolves to (refresh_binding_subscription); and at every
\* moment the index has no name that another entry has (binding_events.py), and a bound entry
\* or an area that is gone is reported (integrity_repairs.py).
LightsSettle ==
  /\ Lights!TypeOK /\ Lights!LightsAgree /\ Lights!LightsFollow
  /\ Lights!IndexTrue /\ Lights!RemovalReported /\ Lights!AreasReported

Pending == entry = "setup" \/ Client!Sent("c")

\* Every set-up ends, loaded or not, and every replacement is answered (__init__.py
\* async_setup_entry, manager.py async_set_binding); and while other commits keep coming, a
\* light whose representation stays is shown in the end, and one whose representation is gone
\* is not (light.py async_reconcile).
OperationsEnd ==
  /\ Pending ~> ~Pending
  /\ <>[]("l1" \in represented) => <>[]("l1" \in lights \ adding)
  /\ <>[]("l1" \notin represented) => <>[]("l1" \notin lights)
=============================================================================

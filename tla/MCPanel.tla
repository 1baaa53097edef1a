------------------------------ MODULE MCPanel -------------------------------
(***************************************************************************)
(* The panel's element in one run: its data layer, with failures and       *)
(* reloads of the config entry, with neither but more commits, with two    *)
(* requests of its controls under way at a time, or with a panel that is   *)
(* left; and the shell, in a house without floors, or only its tree, where *)
(* rooms may be on floors that the panel has not read.  A behaviour is of  *)
(* one part; the others rest in an initial state.                          *)
(*                                                                         *)
(* What the controls refresh after a mutation: the connection editor the   *)
(* bindings, the relation editors the topology, the human editor the       *)
(* assets, the delete control all three, the bulk workflow brings a list.  *)
(***************************************************************************)
EXTENDS Panel

CONSTANTS Assets, Areas, Floors, Queries, NoArea, StaleArea, Gone, Junk, MaxBack, MaxSessions

VARIABLES
  part, admin, pinned, screen, session, room, location, back, handing, where, areas, floorOf,
  floors, creating, onboarding, dismissed

AllFollow == {<<"bindings">>, <<"topology">>, <<"assets">>,
              <<"bindings", "topology", "assets">>, <<"list">>}
FewFollow == {<<"bindings">>, <<"list">>}

Steady == INSTANCE Panel WITH
  MaxContent <- 2, MaxSubscription <- 1, MaxFailures <- 0, Reloads <- FALSE, Follow <- AllFollow

Leaving == INSTANCE Panel WITH
  MaxSubscription <- 2, MaxFailures <- 0, Reloads <- FALSE

Busy == INSTANCE Panel WITH
  MaxContent <- 2, MaxSubscription <- 0, MaxFailures <- 0, MaxWaiting <- 2, Reloads <- FALSE, Follow <- {<<"list">>}

Shell == INSTANCE Shell WITH Floors <- {}
Tree == INSTANCE Shell

ASSUME ShellConstants == Tree!ShellAssumption

shellVars == <<admin, pinned, screen, session, room, location, back, handing, where, areas,
               floorOf, floors, creating, onboarding, dismissed>>
PartVars == <<part, vars, shellVars>>

ShellRests ==
  /\ admin /\ dismissed /\ location = Junk /\ areas = {} /\ floors = {}
  /\ where = [x \in Assets |-> None]

PartInit ==
  /\ part \in {"faults", "steady", "busy", "left", "shell", "tree"}
  /\ Init /\ Tree!Init
  /\ part = "shell" => floors = {}
  /\ part = "tree" => admin /\ dismissed
  /\ part \in {"shell", "tree"} \/ ShellRests

\* What concerns the tree: it is read, walked, and an asset is moved or searched for.
TreeNext ==
  \/ Tree!HandOver \/ Tree!Back \/ Tree!Refresh
  \/ Tree!SelectArea \/ Tree!SelectAsset \/ Tree!LeaveAsset \/ Tree!OpenFound
  \/ \E r \in Areas \cup {None} : Tree!HumanAssetCommitted(r)
  \/ \E view \in {"home", "search"} : Tree!Navigate(view)

PartNext ==
  \/ part = "faults" /\ Next /\ UNCHANGED <<part, shellVars>>
  \/ part = "steady" /\ Steady!Next /\ UNCHANGED <<part, shellVars>>
  \/ part = "busy" /\ Busy!Next /\ UNCHANGED <<part, shellVars>>
  \/ part = "left" /\ Leaving!Next /\ UNCHANGED <<part, shellVars>>
  \/ part = "shell" /\ Shell!Next /\ UNCHANGED <<part, vars>>
  \/ part = "tree" /\ TreeNext /\ UNCHANGED <<part, vars>>

\* The server answers, what else a load awaits arrives, the socket delivers, and changes of
\* hass come.
Served ==
  \/ part = "steady" /\ Steady!Serve
  \/ part = "busy" /\ Busy!Serve
  \/ part = "left" /\ Leaving!Serve
  \/ part = "faults" /\ Serve
Placed ==
  \/ part = "steady" /\ Steady!PlacesArrive
  \/ part = "busy" /\ Busy!PlacesArrive
  \/ part = "left" /\ Leaving!PlacesArrive
  \/ part = "faults" /\ PlacesArrive

PartSpec ==
  /\ PartInit /\ [][PartNext]_PartVars
  /\ WF_vars(Served) /\ WF_vars(Placed)
  /\ WF_vars(part \notin {"shell", "tree"} /\ Receive)
  /\ WF_vars(part \notin {"shell", "tree"} /\ EnsureSubscription)
  /\ WF_vars(part \notin {"shell", "tree"} /\ FirstHass)

-----------------------------------------------------------------------------
\* Every load ends, with data, with an error, or superseded (bindhome-panel.js _load); and the
\* shell shows the screen of the address, the tools only to administrators, and opens an asset
\* where it is listed (_applyRoute, _commitRoute, _openAsset), whatever data, rights and addresses do.
ScreensSettle ==
  /\ LoadEnds
  /\ []Tree!TypeOK /\ []Tree!ScreenOfUrl /\ []Tree!AdminOnly
  /\ Tree!OpensWhereListed
=============================================================================

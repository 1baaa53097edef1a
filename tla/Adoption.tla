------------------------------ MODULE Adoption ------------------------------
(***************************************************************************)
(* Hardware adoption: BindHome hides the hardware entity behind a binding  *)
(* after the user consented, records what the visibility was, and restores *)
(* it when the last owning binding lets go.  The records live in the       *)
(* registry, the visibility in Home Assistant's Entity Registry; a commit  *)
(* moves the first durably and then brings the second along, best effort,  *)
(* while users change visibility and entities come and go at any time.     *)
(*                                                                         *)
(* Module Manager shows that mutations run one at a time; here one is      *)
(* under way or none is.                                                   *)
(***************************************************************************)
EXTENDS Registry

VARIABLES
  disk,     \* the registry in the storage file
  up,       \* the config entry is loaded
  live,     \* manager.registry
  busy,     \* a mutation is under way
  staged,   \* its staged registry
  written,  \* its file is in place, visibility is not synchronised yet
  backup,   \* the registry in the user's exported backup
  hider,    \* hidden_by of every Entity Registry entry, kept for its return if it is gone
  gone,     \* entries that are removed now
  ours      \* entries hidden by BindHome that nobody touched since (see MissedBy)

vars == <<disk, up, live, busy, staged, written, backup, hider, gone, ours>>

Init ==
  /\ disk = EmptyRegistry /\ live = EmptyRegistry
  /\ staged = EmptyRegistry /\ backup = EmptyRegistry
  /\ up = FALSE /\ busy = FALSE /\ written = FALSE
  /\ hider \in [RegistryId -> Hider]
  /\ gone = {} /\ ours = {}

-----------------------------------------------------------------------------
(***************************************************************************)
(* The transition of visibility between two committed registries.          *)
(***************************************************************************)

\* The records of g in old that hid it, when new has none.
Ended(old, new, g) ==
  {x \in old.adoptions :
     x.registry = g /\ x.changed /\ \A y \in new.adoptions : y.registry # g}

\* Mutant: a release writes the recorded visibility over whatever is there now.
ToRestoreAlways(old, new) == {g \in RegistryId \ gone : Ended(old, new, g) # {}}

ToRestore(old, new) ==
  {g \in RegistryId \ gone : hider[g] = "integration" /\ Ended(old, new, g) # {}}

\* Only an entry that still has the visibility of the consent is hidden.
ToHide(old, new) ==
  {g \in RegistryId \ gone :
     hider[g] # "integration" /\ \E x \in Ended(new, old, g) : hider[g] = x.previous}

Synchronised(old, new) ==
  [g \in RegistryId |->
     IF g \in ToRestore(old, new) THEN (CHOOSE x \in Ended(old, new, g) : TRUE).previous
     ELSE IF g \in ToHide(old, new) THEN "integration"
     ELSE hider[g]]

-----------------------------------------------------------------------------
(***************************************************************************)
(* Mutations.                                                              *)
(***************************************************************************)

\* Consent reads the visibility when it is staged, not when it is committed.
Adopt(s) ==
  \E b \in live.bindings :
    b.registry \in RegistryId \ gone /\ Consent(live, s, b, hider[b.registry])

Stage ==
  /\ up /\ ~busy
  /\ \/ EditAssets(live, staged')
     \/ EditRelations(live, staged')
     \/ EditBindings(live, staged')
     \/ EditRepresentations(live, staged')
     \/ Adopt(staged')
     \/ Revert(live, staged')
  /\ busy' = TRUE
  /\ UNCHANGED <<disk, up, live, written, backup, hider, gone, ours>>

Export ==
  /\ up
  /\ backup' = live
  /\ UNCHANGED <<disk, up, live, busy, staged, written, hider, gone, ours>>

\* The whole registry is replaced, with the bindings enriched as at load.
Restore ==
  /\ up /\ ~busy
  /\ \E entry \in [EntityId -> (RegistryId \ gone) \cup {Unregistered}] :
       staged' = Enrich(backup, entry)
  /\ busy' = TRUE
  /\ UNCHANGED <<disk, up, live, written, backup, hider, gone, ours>>

WriteFile ==
  /\ busy /\ ~written
  /\ disk' = staged
  /\ written' = TRUE
  /\ UNCHANGED <<up, live, busy, staged, backup, hider, gone, ours>>

Settle == busy' = FALSE /\ staged' = EmptyRegistry /\ written' = FALSE

WriteError ==
  /\ busy /\ ~written
  /\ Settle
  /\ UNCHANGED <<disk, up, live, backup, hider, gone, ours>>

\* Releases the commit cannot carry out: their entry is gone, and comes back hidden.
MissedBy(old, new) == {g \in gone : Ended(old, new, g) # {}}

Publish ==
  /\ busy /\ written
  /\ live' = staged
  /\ hider' = Synchronised(live, staged)
  /\ ours' = (ours \ (ToRestore(live, staged) \cup MissedBy(live, staged)))
               \cup ToHide(live, staged)
  /\ Settle
  /\ UNCHANGED <<disk, up, backup, gone>>

\* A crash between the rename and the synchronisation misses the releases of the file.
Crash ==
  /\ up
  /\ up' = FALSE
  /\ live' = EmptyRegistry
  /\ ours' = ours \ {g \in RegistryId : written /\ Ended(live, staged, g) # {}}
  /\ Settle
  /\ UNCHANGED <<disk, backup, hider, gone>>

\* Setup synchronises nothing: adoptions are not reasserted.
Start ==
  /\ ~up
  /\ up' = TRUE
  /\ \E entry \in [EntityId -> (RegistryId \ gone) \cup {Unregistered}] :
       disk' = Enrich(disk, entry)
  /\ live' = disk'
  /\ UNCHANGED <<busy, staged, written, backup, hider, gone, ours>>

-----------------------------------------------------------------------------
(***************************************************************************)
(* Home Assistant and its user.                                            *)
(***************************************************************************)

UserSets(g, h) ==
  /\ g \notin gone
  /\ hider' = [hider EXCEPT ![g] = h]
  /\ ours' = ours \ {g}
  /\ UNCHANGED <<disk, up, live, busy, staged, written, backup, gone>>

Vanish(g) ==
  /\ gone' = gone \cup {g}
  /\ UNCHANGED <<disk, up, live, busy, staged, written, backup, hider, ours>>

Return(g) ==
  /\ gone' = gone \ {g}
  /\ UNCHANGED <<disk, up, live, busy, staged, written, backup, hider, ours>>

OrdinaryNext ==
  \/ Stage \/ WriteFile \/ WriteError \/ Publish \/ Crash \/ Start
  \/ \E g \in RegistryId : Vanish(g) \/ Return(g) \/ \E h \in {"none", "user"} : UserSets(g, h)

Next == OrdinaryNext \/ Export \/ Restore

\* Without backups, and with them.
OrdinarySpec == Init /\ [][OrdinaryNext]_vars
Spec == Init /\ [][Next]_vars

-----------------------------------------------------------------------------
(***************************************************************************)
(* Properties.                                                             *)
(***************************************************************************)

\* The state has the shapes the code gives it.
TypeOK ==
  /\ {disk, live, staged, backup} \subseteq RegistryType
  /\ {up, busy, written} \subseteq BOOLEAN
  /\ hider \in [RegistryId -> Hider]
  /\ gone \subseteq RegistryId /\ ours \subseteq RegistryId

\* What the process works with, or will when it starts.
Current == IF up THEN live ELSE disk

\* Adoption is reversible: an entity that BindHome hid, and that nobody touched since, has
\* a record that will restore it when its last owner goes.  Retargets, removals, shared
\* owners, failed writes and restarts lose none; only a release while the entity is gone
\* and a crash between the rename and the synchronisation do (adoption.py,
\* sync_adoption_visibility_transition).
NothingLeftHidden ==
  \A g \in ours : \E x \in Current.adoptions : x.registry = g /\ x.changed

\* A commit changes no visibility but its own: it hides only what is visible, and shows
\* again only what BindHome hid and nobody touched since; what a user decided after the
\* consent stands (adoption.py, sync_adoption_visibility_transition).
OwnHidingOnly ==
  live' # live =>
    \A g \in RegistryId :
      \/ hider'[g] = hider[g]
      \/ hider[g] = "none" /\ hider'[g] = "integration"
      \/ g \in ours /\ hider'[g] = "none"

UndoesOnlyOwnHiding == [][OwnHidingOnly]_vars
=============================================================================

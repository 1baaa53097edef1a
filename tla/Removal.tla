------------------------------ MODULE Removal -------------------------------
(***************************************************************************)
(* Removing the config entry (async_remove_entry): the entry is unloaded,  *)
(* another manager reads the file, and clears all adoptions in one         *)
(* transaction, so that what BindHome hid is shown again.  A mutation that *)
(* is under way in the old manager is not waited for and goes on.  Home    *)
(* Assistant removes the entry whether or not the clearing succeeds.       *)
(***************************************************************************)
EXTENDS Adoption

VARIABLES
  removal,  \* how far the removal is
  theirs,   \* the registry its manager has read
  trouble   \* history: what the removal met

rvars == <<vars, removal, theirs, trouble>>

Phase == {"no", "unloaded", "staged", "written", "done"}

RInit == Init /\ removal = "no" /\ theirs = EmptyRegistry /\ trouble = {}

-----------------------------------------------------------------------------
Unload ==
  /\ up /\ removal = "no"
  /\ removal' = "unloaded"
  /\ trouble' = trouble \cup (IF busy THEN {"pending"} ELSE {})
  /\ UNCHANGED <<vars, theirs>>

\* Its manager enriches the bindings of the file, and saves them if that changes any.
Load ==
  /\ removal = "unloaded"
  /\ \E entry \in [EntityId -> (RegistryId \ gone) \cup {Unregistered}] :
       disk' = Enrich(disk, entry)
  /\ theirs' = disk'
  /\ removal' = IF theirs'.adoptions = {} THEN "done" ELSE "staged"
  /\ UNCHANGED <<up, live, busy, staged, written, backup, hider, gone, ours, trouble>>

LoadError ==
  /\ removal = "unloaded"
  /\ removal' = "done" /\ trouble' = trouble \cup {"failed"}
  /\ UNCHANGED <<vars, theirs>>

Cleared == [theirs EXCEPT !.adoptions = {}]

WriteCleared ==
  /\ removal = "staged"
  /\ disk' = Cleared
  /\ removal' = "written"
  /\ UNCHANGED <<up, live, busy, staged, written, backup, hider, gone, ours, theirs, trouble>>

WriteClearedError ==
  /\ removal = "staged"
  /\ removal' = "done" /\ trouble' = trouble \cup {"failed"}
  /\ UNCHANGED <<vars, theirs>>

\* Mutant: whoever hid the hardware, it is shown.
ShowAll ==
  /\ removal = "written"
  /\ hider' = [g \in RegistryId |-> IF Ended(theirs, Cleared, g) # {} THEN "none" ELSE hider[g]]
  /\ ours' = {}
  /\ removal' = "done"
  /\ UNCHANGED <<disk, up, live, busy, staged, written, backup, gone, theirs, trouble>>

Show ==
  /\ removal = "written"
  /\ hider' = Synchronised(theirs, Cleared)
  /\ ours' = ours \ (ToRestore(theirs, Cleared) \cup MissedBy(theirs, Cleared))
  /\ removal' = "done"
  /\ UNCHANGED <<disk, up, live, busy, staged, written, backup, gone, theirs, trouble>>

-----------------------------------------------------------------------------
\* What the manager of the entry does: nothing new once it is unloaded, but what
\* it has begun.
OldManager ==
  /\ \/ removal = "no" /\ (Stage \/ Start)
     \/ WriteFile \/ WriteError \/ Publish
  /\ UNCHANGED <<removal, theirs, trouble>>

\* The entry is still there after a crash, unless it was removed.
Restarted ==
  /\ Crash
  /\ removal' = IF removal = "done" THEN "done" ELSE "no"
  /\ trouble' = trouble \cup (IF removal = "written" THEN {"failed"} ELSE {})
  /\ UNCHANGED theirs

User ==
  /\ \E g \in RegistryId : Vanish(g) \/ Return(g) \/ \E h \in {"none", "user"} : UserSets(g, h)
  /\ UNCHANGED <<removal, theirs, trouble>>

RNext ==
  \/ OldManager \/ Restarted \/ User
  \/ Unload \/ Load \/ LoadError \/ WriteCleared \/ WriteClearedError \/ Show

RSpec == RInit /\ [][RNext]_rvars

-----------------------------------------------------------------------------
RTypeOK ==
  /\ TypeOK /\ removal \in Phase /\ theirs \in RegistryType /\ trouble \subseteq {"pending", "failed"}
  /\ removal \in {"staged", "written"} => theirs.adoptions # {}

\* When no mutation was under way and nothing failed, nothing is left hidden by
\* BindHome once the entry is removed, but for hardware that was absent
\* (__init__.py:85).
CalmRemovalShowsAll == removal = "done" /\ trouble = {} => ours = {}

\* Such a removal shows only what BindHome hid and nobody touched since
\* (adoption.py:69).
RemovalShowsOnlyOwn ==
  [][Show /\ trouble = {} => \A g \in RegistryId : hider'[g] # hider[g] => g \in ours /\ hider'[g] = "none"]_rvars

=============================================================================

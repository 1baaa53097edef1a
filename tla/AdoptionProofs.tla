--------------------------- MODULE AdoptionProofs ---------------------------
(***************************************************************************)
(* Adoption is reversible and undoes only itself, for any number of        *)
(* bindings and entities, as long as no backup is restored.  The inductive *)
(* invariant ties visibility to the records: what BindHome hid has a       *)
(* record in the current registry (NothingLeftHidden), a pending mutation  *)
(* rewrites no snapshot of the live registry, and the file is the live     *)
(* registry or, between the rename and the synchronisation, the staged     *)
(* one.                                                                    *)
(*                                                                         *)
(* And a removal of the entry that meets neither a pending mutation nor a  *)
(* fault shows again all that BindHome hid, and nothing else.  Guided      *)
(* replacement of hardware follows, and the editor that asks for it.       *)
(***************************************************************************)
EXTENDS MCAdoption, RegistryProofs, SequenceTheorems

\* Whoever hid an entity found it visible.
RestoresVisible(r) == \A x \in r.adoptions : x.changed => x.previous = "none"

Sound(r) == Consistent(r) /\ RestoresVisible(r)

\* What a record changed and is hidden now, BindHome hid.
OwnsWhatItHid(r) ==
  \A x \in r.adoptions : x.changed /\ hider[x.registry] = "integration" => x.registry \in ours

IInv ==
  /\ TypeOK
  /\ Sound(disk) /\ Sound(live) /\ Sound(staged)
  /\ OwnsWhatItHid(disk) /\ OwnsWhatItHid(live) /\ OwnsWhatItHid(staged)
  /\ written => busy
  /\ busy => up
  /\ busy => KeepsSnapshots(live, staged)
  /\ up => disk = IF written THEN staged ELSE live
  /\ \A g \in ours : hider[g] = "integration"
  /\ NothingLeftHidden

-----------------------------------------------------------------------------
(***************************************************************************)
(* Registries.                                                             *)
(***************************************************************************)

\* The registry of an empty store is sound.
LEMMA EmptySound == EmptyRegistry \in RegistryType /\ Sound(EmptyRegistry)
BY DEF EmptyRegistry, RegistryType, Sound, RestoresVisible, Consistent, UniqueAssets,
  UniqueRelations, RelationsConnectAssets, UniqueBindings, BindingsUseCapabilities,
  RepresentationsBacked, UniqueAdoptions, AdoptionsOwned

\* Enrichment touches bindings only.
LEMMA EnrichKeepsSound ==
  ASSUME NEW r \in RegistryType, Sound(r),
         NEW entry \in [EntityId -> RegistryId \cup {Unregistered}]
  PROVE  /\ Enrich(r, entry) \in RegistryType
         /\ Sound(Enrich(r, entry))
         /\ Enrich(r, entry).adoptions = r.adoptions
<1>1. Enrich(r, entry).adoptions = r.adoptions
  BY DEF Enrich, RegistryType
<1> QED
  BY <1>1, EnrichKeepsConsistency DEF Sound, RestoresVisible

\* What is staged is sound again, keeps the live snapshots, and claims to hide nothing
\* that was hidden before.
LEMMA StageKeepsSound ==
  ASSUME TypeOK, Sound(live), Stage
  PROVE  /\ staged' \in RegistryType /\ Sound(staged') /\ KeepsSnapshots(live, staged')
         /\ OwnsWhatItHid(live) =>
              \A x \in staged'.adoptions :
                x.changed /\ hider[x.registry] = "integration" => x.registry \in ours
<1>1. CASE Adopt(staged')
  <2>1. PICK b \in live.bindings :
          b.registry \in RegistryId \ gone /\ Consent(live, staged', b, hider[b.registry])
    BY <1>1 DEF Adopt
  <2> DEFINE h == hider[b.registry]
  <2>2. h \in Hider
    BY <2>1 DEF TypeOK
  <2> HIDE DEF h
  <2>3. Consent(live, staged', b, h)
    BY <2>1 DEF h
  <2>4. Edit(live, staged')
    BY <2>2, <2>3 DEF Edit, EditAdoptions
  <2>5. staged' \in RegistryType /\ Consistent(staged') /\ KeepsSnapshots(live, staged')
    BY <2>4, EditKeepsConsistency, EditKeepsSnapshots DEF Sound, TypeOK
  <2>6. CASE Inherits(live, staged')
    BY <2>5, <2>6 DEF Inherits, SameSnapshot, Sound, RestoresVisible, OwnsWhatItHid
  <2>7. CASE staged'.adoptions = live.adoptions \cup {NewAdoption(b, h)}
    <3>1. /\ NewAdoption(b, h).registry = b.registry
          /\ NewAdoption(b, h).previous = h
          /\ NewAdoption(b, h).changed <=> h = "none"
      BY DEF NewAdoption
    <3> HIDE DEF NewAdoption
    <3> QED
      BY <2>5, <2>7, <3>1 DEF h, Sound, RestoresVisible, OwnsWhatItHid
  <2>8. Inherits(live, staged') \/ staged'.adoptions = live.adoptions \cup {NewAdoption(b, h)}
    BY <2>2, <2>3, ConsentOpens DEF TypeOK
  <2> QED
    BY <2>6, <2>7, <2>8
<1>2. CASE ~Adopt(staged')
  <2>1. Inherits(live, staged')
    BY <1>2, EditInherits DEF Stage, TypeOK
  <2>2. Edit(live, staged')
    BY <1>2 DEF Stage, Edit, EditAdoptions
  <2>3. staged' \in RegistryType /\ Consistent(staged') /\ KeepsSnapshots(live, staged')
    BY <2>2, EditKeepsConsistency, EditKeepsSnapshots DEF Sound, TypeOK
  <2> QED
    BY <2>1, <2>3 DEF Inherits, SameSnapshot, Sound, RestoresVisible, OwnsWhatItHid
<1> QED
  BY <1>1, <1>2

-----------------------------------------------------------------------------
(***************************************************************************)
(* The synchronisation.                                                    *)
(***************************************************************************)

\* The visibilities, for the provers.
LEMMA HiderType == Hider = {"none", "integration", "user"}
BY DEF Hider

\* The records of adopted entities that a transition restores say "visible".
LEMMA RestoringShows ==
  ASSUME NEW r, RestoresVisible(r), NEW s, NEW g \in ToRestore(r, s)
  PROVE  (CHOOSE x \in Ended(r, s, g) : TRUE).previous = "none"
BY DEF ToRestore, Ended, RestoresVisible

\* An entity is hidden only if it is visible and then has a record.
LEMMA HidingIsRecorded ==
  ASSUME NEW r, NEW s, RestoresVisible(s), NEW g \in ToHide(r, s)
  PROVE  /\ hider[g] = "none"
         /\ \E x \in s.adoptions : x.registry = g /\ x.changed
BY DEF ToHide, Ended, RestoresVisible

\* The visibility of each entity after the synchronisation.
LEMMA SynchronisedValue ==
  ASSUME NEW r, NEW s, RestoresVisible(r), NEW g \in RegistryId
  PROVE  /\ g \in ToRestore(r, s) => Synchronised(r, s)[g] = "none"
         /\ g \in ToHide(r, s) => Synchronised(r, s)[g] = "integration"
         /\ g \notin ToRestore(r, s) \cup ToHide(r, s) => Synchronised(r, s)[g] = hider[g]
<1>1. ToRestore(r, s) \cap ToHide(r, s) = {}
  BY DEF ToRestore, ToHide
<1> QED
  BY <1>1, RestoringShows DEF Synchronised

-----------------------------------------------------------------------------
(***************************************************************************)
(* The invariant.                                                          *)
(***************************************************************************)

\* The invariant holds before the first start.
LEMMA InitEstablishes == Init => IInv
<1> SUFFICES ASSUME Init
             PROVE  IInv
  OBVIOUS
<1>1. TypeOK
  BY EmptySound DEF Init, TypeOK
<1>2. OwnsWhatItHid(EmptyRegistry)
  BY DEF OwnsWhatItHid, EmptyRegistry
<1> QED
  BY <1>1, <1>2, EmptySound DEF Init, IInv, NothingLeftHidden, Current

\* The synchronisation hides and shows exactly what the new records say.
LEMMA PublishPreserves == IInv /\ Publish => IInv'
<1> SUFFICES ASSUME IInv, Publish
             PROVE  IInv'
  OBVIOUS
<1> USE DEF IInv
<1>1. /\ live' = staged
      /\ staged' = EmptyRegistry
      /\ ~busy' /\ ~written' /\ busy' \in BOOLEAN /\ written' \in BOOLEAN
      /\ disk' = disk /\ up' = up /\ backup' = backup /\ gone' = gone
      /\ hider' = Synchronised(live, staged)
      /\ ours' = (ours \ (ToRestore(live, staged) \cup MissedBy(live, staged)))
                   \cup ToHide(live, staged)
      /\ busy /\ up /\ disk = staged
  BY DEF Publish, Settle
<1>2. Synchronised(live, staged) \in [RegistryId -> Hider]
  <2>1. \A g \in RegistryId : Synchronised(live, staged)[g] \in Hider
    BY SynchronisedValue, HiderType DEF Sound, TypeOK
  <2> QED
    BY <2>1 DEF Synchronised
<1>3. TypeOK'
  <2>1. ToHide(live, staged) \subseteq RegistryId
    BY DEF ToHide
  <2> QED
    BY <1>1, <1>2, <2>1, EmptySound DEF TypeOK
<1>4. \A g \in ours' : hider'[g] = "integration"
  BY <1>1, SynchronisedValue DEF Sound, TypeOK, ToHide
<1>5. NothingLeftHidden'
  <2> SUFFICES ASSUME NEW g \in ours'
               PROVE  \E x \in staged.adoptions : x.registry = g /\ x.changed
    BY <1>1 DEF NothingLeftHidden, Current
  <2>1. CASE g \in ToHide(live, staged)
    BY <2>1, HidingIsRecorded DEF Sound
  <2>2. CASE g \notin ToHide(live, staged)
    <3>1. g \in ours /\ g \notin ToRestore(live, staged) /\ g \notin MissedBy(live, staged)
      BY <1>1, <2>2
    <3>2. PICK x \in live.adoptions : x.registry = g /\ x.changed
      BY <1>1, <3>1 DEF NothingLeftHidden, Current
    <3>3. Ended(live, staged, g) = {}
      BY <3>1 DEF ToRestore, MissedBy, TypeOK
    <3>4. PICK y \in staged.adoptions : y.registry = g
      BY <3>2, <3>3 DEF Ended
    <3> QED
      BY <1>1, <3>2, <3>4 DEF KeepsSnapshots
  <2> QED
    BY <2>1, <2>2
<1>6. \A x \in staged.adoptions :
        x.changed /\ hider'[x.registry] = "integration" => x.registry \in ours'
  <2> SUFFICES ASSUME NEW x \in staged.adoptions, x.changed,
                      hider'[x.registry] = "integration"
               PROVE  x.registry \in ours'
    OBVIOUS
  <2> DEFINE g == x.registry
  <2>1. g \in RegistryId
    BY DEF TypeOK, RegistryType, Adoption
  <2>2. CASE g \in ToHide(live, staged)
    BY <1>1, <2>2
  <2>3. CASE g \notin ToHide(live, staged)
    <3>1. g \notin ToRestore(live, staged) /\ g \notin MissedBy(live, staged)
      BY DEF ToRestore, MissedBy, Ended
    <3>2. hider[g] = "integration"
      BY <1>1, <2>1, <2>3, <3>1, SynchronisedValue DEF Sound
    <3> QED
      BY <1>1, <3>1, <3>2 DEF OwnsWhatItHid
  <2> QED
    BY <2>2, <2>3
<1> QED
  BY <1>1, <1>3, <1>4, <1>5, <1>6, EmptySound DEF OwnsWhatItHid, EmptyRegistry

\* A crash loses a release only if the file already dropped its record.
LEMMA CrashPreserves == IInv /\ Crash => IInv'
<1> SUFFICES ASSUME IInv, Crash
             PROVE  IInv'
  OBVIOUS
<1> USE DEF IInv
<1>1. /\ up /\ ~up' /\ live' = EmptyRegistry /\ staged' = EmptyRegistry
      /\ ~busy' /\ ~written' /\ busy' \in BOOLEAN /\ written' \in BOOLEAN /\ up' \in BOOLEAN
      /\ disk' = disk /\ backup' = backup /\ hider' = hider /\ gone' = gone
      /\ ours' = ours \ {g \in RegistryId : written /\ Ended(live, staged, g) # {}}
  BY DEF Crash, Settle
<1>2. TypeOK'
  BY <1>1, EmptySound DEF TypeOK
<1>3. NothingLeftHidden'
  <2> SUFFICES ASSUME NEW g \in ours'
               PROVE  \E x \in disk.adoptions : x.registry = g /\ x.changed
    BY <1>1 DEF NothingLeftHidden, Current
  <2>1. PICK x \in live.adoptions : x.registry = g /\ x.changed
    BY <1>1 DEF NothingLeftHidden, Current
  <2>2. CASE ~written
    BY <1>1, <2>1, <2>2
  <2>3. CASE written
    <3>1. Ended(live, staged, g) = {}
      BY <1>1, <2>3 DEF TypeOK
    <3>2. PICK y \in staged.adoptions : y.registry = g
      BY <2>1, <3>1 DEF Ended
    <3> QED
      BY <1>1, <2>1, <2>3, <3>2 DEF KeepsSnapshots
  <2> QED
    BY <2>2, <2>3
<1>4. \A x \in disk.adoptions :
        x.changed /\ hider[x.registry] = "integration" => x.registry \in ours'
  <2> SUFFICES ASSUME NEW x \in disk.adoptions, x.changed, hider[x.registry] = "integration"
               PROVE  x.registry \in ours'
    OBVIOUS
  <2>1. x.registry \in ours
    BY DEF OwnsWhatItHid
  <2>2. written => Ended(live, staged, x.registry) = {}
    BY <1>1 DEF Ended
  <2> QED
    BY <1>1, <2>1, <2>2
<1> QED
  BY <1>1, <1>2, <1>3, <1>4, EmptySound DEF OwnsWhatItHid, EmptyRegistry

\* Every step keeps the invariant.
LEMMA StepPreserves == IInv /\ [OrdinaryNext]_vars => IInv'
<1> SUFFICES ASSUME IInv, [OrdinaryNext]_vars
             PROVE  IInv'
  OBVIOUS
<1> USE DEF IInv
<1>1. CASE Stage
  <2>1. /\ staged' \in RegistryType /\ Sound(staged') /\ KeepsSnapshots(live, staged')
        /\ \A x \in staged'.adoptions :
             x.changed /\ hider[x.registry] = "integration" => x.registry \in ours
    BY <1>1, StageKeepsSound
  <2>2. /\ ~busy /\ up /\ busy' /\ busy' \in BOOLEAN
        /\ UNCHANGED <<disk, up, live, written, backup, hider, gone, ours>>
    BY <1>1 DEF Stage
  <2> QED
    BY <2>1, <2>2 DEF TypeOK, NothingLeftHidden, Current, OwnsWhatItHid
<1>2. CASE WriteFile
  BY <1>2 DEF WriteFile, TypeOK, NothingLeftHidden, Current, OwnsWhatItHid
<1>3. CASE WriteError
  <2>1. /\ ~busy' /\ ~written' /\ busy' \in BOOLEAN /\ written' \in BOOLEAN
        /\ staged' = EmptyRegistry /\ ~written
        /\ UNCHANGED <<disk, up, live, backup, hider, gone, ours>>
    BY <1>3 DEF WriteError, Settle
  <2>2. TypeOK'
    BY <2>1, EmptySound DEF TypeOK
  <2>3. OwnsWhatItHid(EmptyRegistry)
    BY DEF OwnsWhatItHid, EmptyRegistry
  <2> QED
    BY <2>1, <2>2, <2>3, EmptySound DEF NothingLeftHidden, Current, OwnsWhatItHid
<1>4. CASE Start
  <2>1. PICK entry \in [EntityId -> RegistryId \cup {Unregistered}] : disk' = Enrich(disk, entry)
    BY <1>4 DEF Start
  <2>2. disk' \in RegistryType /\ Sound(disk') /\ disk'.adoptions = disk.adoptions
    BY <2>1, EnrichKeepsSound DEF TypeOK
  <2>3. /\ ~up /\ up' /\ up' \in BOOLEAN /\ live' = disk'
        /\ UNCHANGED <<busy, staged, written, backup, hider, gone, ours>>
    BY <1>4 DEF Start
  <2> QED
    BY <2>2, <2>3 DEF TypeOK, NothingLeftHidden, Current, OwnsWhatItHid
<1>5. ASSUME NEW g \in RegistryId, Vanish(g) \/ Return(g)
      PROVE  IInv'
  BY <1>5 DEF Vanish, Return, TypeOK, NothingLeftHidden, Current, OwnsWhatItHid
<1>6. ASSUME NEW g \in RegistryId, NEW h \in {"none", "user"}, UserSets(g, h)
      PROVE  IInv'
  <2>1. TypeOK'
    BY <1>6, HiderType DEF UserSets, TypeOK
  <2> QED
    BY <1>6, <2>1 DEF UserSets, TypeOK, NothingLeftHidden, Current, OwnsWhatItHid
<1>7. CASE UNCHANGED vars
  BY <1>7 DEF vars, TypeOK, NothingLeftHidden, Current, OwnsWhatItHid
<1> QED
  BY <1>1, <1>2, <1>3, <1>4, <1>5, <1>6, <1>7, PublishPreserves, CrashPreserves
  DEF OrdinaryNext

-----------------------------------------------------------------------------
(***************************************************************************)
(* Theorems.                                                               *)
(***************************************************************************)

\* The inductive invariant holds in every reachable state.
THEOREM Invariance == OrdinarySpec => []IInv
<1> QED
  BY InitEstablishes, StepPreserves, PTL DEF OrdinarySpec

\* Registries, visibility and the ghost keep their shapes.
THEOREM TypeCorrect == OrdinarySpec => []TypeOK
<1>1. IInv => TypeOK
  BY DEF IInv
<1> QED
  BY <1>1, Invariance, PTL

\* Every entity BindHome hid, and nobody touched since, can still be shown again
\* (adoption.py, sync_adoption_visibility_transition).
THEOREM AdoptionIsReversible == OrdinarySpec => []NothingLeftHidden
<1>1. IInv => NothingLeftHidden
  BY DEF IInv
<1> QED
  BY <1>1, Invariance, PTL

\* A commit hides what is visible and shows again what BindHome hid, and nothing else.
LEMMA OwnHiding == ASSUME IInv, [OrdinaryNext]_vars PROVE OwnHidingOnly
<1> SUFFICES ASSUME OrdinaryNext, live' # live, NEW g \in RegistryId
             PROVE  \/ hider'[g] = hider[g]
                    \/ hider[g] = "none" /\ hider'[g] = "integration"
                    \/ g \in ours /\ hider'[g] = "none"
  BY DEF vars, OwnHidingOnly
<1>1. CASE ~Publish
  BY <1>1 DEF OrdinaryNext, Stage, WriteFile, WriteError, Crash, Start, UserSets, Vanish, Return
<1>2. CASE Publish
  <2>1. hider' = Synchronised(live, staged)
    BY <1>2 DEF Publish
  <2>2. CASE g \in ToHide(live, staged)
    BY <2>1, <2>2, HidingIsRecorded, SynchronisedValue DEF IInv, Sound
  <2>3. CASE g \in ToRestore(live, staged)
    <3>1. g \in ours
      BY <2>3 DEF ToRestore, Ended, IInv, OwnsWhatItHid
    <3> QED
      BY <2>1, <2>3, <3>1, SynchronisedValue DEF IInv, Sound
  <2>4. CASE g \notin ToRestore(live, staged) \cup ToHide(live, staged)
    BY <2>1, <2>4, SynchronisedValue DEF IInv, Sound
  <2> QED
    BY <2>2, <2>3, <2>4
<1> QED
  BY <1>1, <1>2

\* No commit changes a visibility that a user decided after the consent
\* (adoption.py, sync_adoption_visibility_transition).
THEOREM UserDecisionsStand == OrdinarySpec => UndoesOnlyOwnHiding
<1>1. IInv /\ [OrdinaryNext]_vars => [OwnHidingOnly]_vars
  BY OwnHiding
<1> QED
  BY <1>1, Invariance, PTL DEF OrdinarySpec, UndoesOnlyOwnHiding

-----------------------------------------------------------------------------
(***************************************************************************)
(* Removal of the entry.                                                   *)
(***************************************************************************)

RSound == Sound(disk) /\ Sound(live) /\ Sound(staged) /\ Sound(theirs)

\* What the removal's manager has read is enough to show all that BindHome hid.
Recorded ==
  \A g \in ours :
    hider[g] = "integration" /\ \E x \in theirs.adoptions : x.registry = g /\ x.changed

\* The inductive invariant of removals: until the file is read they are like any other time
\* but for the mutations; then the records are those that were read, until they are used.
RInv ==
  /\ RTypeOK /\ RSound
  /\ trouble = {} =>
       /\ removal \in {"no", "unloaded"} => IInv
       /\ removal # "no" => ~busy /\ ~written
       /\ removal = "staged" => disk = theirs
       /\ removal \in {"staged", "written"} => OwnsWhatItHid(theirs) /\ Recorded
       /\ removal = "done" => ours = {}

\* A registry without adoptions is as sound.
LEMMA ClearedSound ==
  ASSUME theirs \in RegistryType, Sound(theirs)
  PROVE  /\ Cleared \in RegistryType /\ Sound(Cleared) /\ Cleared.adoptions = {}
         /\ RestoresVisible(theirs)
<1>1. /\ Cleared \in RegistryType /\ Cleared.adoptions = {}
      /\ Cleared.assets = theirs.assets /\ Cleared.relations = theirs.relations
      /\ Cleared.bindings = theirs.bindings
      /\ Cleared.representations = theirs.representations
  BY DEF Cleared, RegistryType
<1>2. Consistent(Cleared)
  <2>1. UniqueAssets(Cleared) /\ UniqueRelations(Cleared) /\ RelationsConnectAssets(Cleared)
    BY <1>1 DEF Sound, Consistent, UniqueAssets, UniqueRelations, RelationsConnectAssets
  <2>2. UniqueBindings(Cleared) /\ BindingsUseCapabilities(Cleared)
    BY <1>1 DEF Sound, Consistent, UniqueBindings, BindingsUseCapabilities, Bindable
  <2>3. RepresentationsBacked(Cleared)
    BY <1>1 DEF Sound, Consistent, RepresentationsBacked
  <2>4. UniqueAdoptions(Cleared) /\ AdoptionsOwned(Cleared)
    BY <1>1 DEF UniqueAdoptions, AdoptionsOwned
  <2> QED
    BY <2>1, <2>2, <2>3, <2>4 DEF Consistent
<1> QED
  BY <1>1, <1>2 DEF Sound, RestoresVisible

\* The shapes of the state and the soundness of its registries need nothing else.
LEMMA SoundStep ==
  ASSUME TypeOK, Sound(disk), Sound(live), Sound(staged), OrdinaryNext
  PROVE  TypeOK' /\ Sound(disk)' /\ Sound(live)' /\ Sound(staged)'
<1>1. CASE Stage
  BY <1>1, StageKeepsSound DEF Stage, TypeOK
<1>2. CASE WriteFile
  BY <1>2 DEF WriteFile, TypeOK
<1>3. CASE WriteError
  BY <1>3, EmptySound DEF WriteError, Settle, TypeOK
<1>4. CASE Publish
  <2>1. Synchronised(live, staged) \in [RegistryId -> Hider]
    <3>1. \A g \in RegistryId : Synchronised(live, staged)[g] \in Hider
      BY SynchronisedValue, HiderType DEF Sound, TypeOK
    <3> QED
      BY <3>1 DEF Synchronised
  <2>2. ToHide(live, staged) \subseteq RegistryId
    BY DEF ToHide
  <2> QED
    BY <1>4, <2>1, <2>2, EmptySound DEF Publish, Settle, TypeOK
<1>5. CASE Crash
  BY <1>5, EmptySound DEF Crash, Settle, TypeOK
<1>6. CASE Start
  <2>1. PICK entry \in [EntityId -> RegistryId \cup {Unregistered}] : disk' = Enrich(disk, entry)
    BY <1>6 DEF Start
  <2> QED
    BY <1>6, <2>1, EnrichKeepsSound DEF Start, TypeOK
<1>7. ASSUME NEW g \in RegistryId, Vanish(g) \/ Return(g)
      PROVE  TypeOK' /\ Sound(disk)' /\ Sound(live)' /\ Sound(staged)'
  BY <1>7 DEF Vanish, Return, TypeOK
<1>8. ASSUME NEW g \in RegistryId, NEW h \in {"none", "user"}, UserSets(g, h)
      PROVE  TypeOK' /\ Sound(disk)' /\ Sound(live)' /\ Sound(staged)'
  BY <1>8, HiderType DEF UserSets, TypeOK
<1> QED
  BY <1>1, <1>2, <1>3, <1>4, <1>5, <1>6, <1>7, <1>8 DEF OrdinaryNext

\* What the removal's manager reads.
LEMMA LoadReads ==
  ASSUME RTypeOK, Sound(disk), Load
  PROVE  /\ disk' \in RegistryType /\ Sound(disk)' /\ disk'.adoptions = disk.adoptions
         /\ theirs' = disk'
<1>1. PICK entry \in [EntityId -> RegistryId \cup {Unregistered}] : disk' = Enrich(disk, entry)
  BY DEF Load
<1> QED
  BY <1>1, EnrichKeepsSound DEF Load, RTypeOK, TypeOK

\* Every step of a removal, and of what goes on meanwhile, keeps the invariant.
LEMMA RemovalStep == RInv /\ [RNext]_rvars => RInv'
<1> SUFFICES ASSUME RInv, [RNext]_rvars
             PROVE  RInv'
  OBVIOUS
<1>0. RTypeOK /\ TypeOK /\ RSound /\ Sound(disk) /\ Sound(live) /\ Sound(staged) /\ Sound(theirs)
  BY DEF RInv, RTypeOK, RSound
<1>1. CASE Unload
  <2>1. /\ removal = "no" /\ removal' = "unloaded" /\ UNCHANGED <<vars, theirs>>
        /\ trouble' = trouble \cup (IF busy THEN {"pending"} ELSE {})
    BY <1>1 DEF Unload
  <2>2. RTypeOK' /\ RSound'
    BY <1>0, <2>1 DEF RTypeOK, RSound, TypeOK, Phase, vars
  <2>3. trouble' = {} => trouble = {} /\ ~busy
    BY <2>1
  <2>4. trouble' = {} => IInv'
    BY <2>1, <2>3 DEF RInv, IInv, vars, TypeOK, OwnsWhatItHid, NothingLeftHidden, Current
  <2>5. trouble' = {} => ~busy' /\ ~written'
    BY <2>1, <2>3 DEF RInv, IInv, vars
  <2> QED
    BY <2>1, <2>2, <2>4, <2>5 DEF RInv
<1>2. CASE Load
  <2>1. /\ disk' \in RegistryType /\ Sound(disk)' /\ disk'.adoptions = disk.adoptions
        /\ theirs' = disk'
    BY <1>0, <1>2, LoadReads
  <2>2. /\ removal = "unloaded"
        /\ removal' = IF theirs'.adoptions = {} THEN "done" ELSE "staged"
        /\ UNCHANGED <<up, live, busy, staged, written, backup, hider, gone, ours, trouble>>
    BY <1>2 DEF Load
  <2>3. RTypeOK' /\ RSound'
    BY <1>0, <2>1, <2>2 DEF RTypeOK, RSound, TypeOK, Phase
  <2>4. ASSUME trouble' = {}
        PROVE  /\ ~busy' /\ ~written'
               /\ OwnsWhatItHid(theirs)' /\ Recorded'
    <3>1. IInv /\ ~busy /\ ~written
      BY <2>2, <2>4 DEF RInv
    <3>2. Current.adoptions = theirs'.adoptions
      BY <2>1, <3>1 DEF Current, IInv
    <3>3. \A g \in ours : hider[g] = "integration" /\
            \E x \in theirs'.adoptions : x.registry = g /\ x.changed
      BY <3>1, <3>2 DEF IInv, NothingLeftHidden
    <3>4. \A x \in theirs'.adoptions :
            x.changed /\ hider[x.registry] = "integration" => x.registry \in ours
      BY <2>1, <3>1 DEF IInv, OwnsWhatItHid
    <3> QED
      BY <2>2, <3>1, <3>3, <3>4 DEF Recorded, OwnsWhatItHid
  <2>5. trouble' = {} /\ removal' = "done" => ours' = {}
    BY <2>2, <2>4 DEF Recorded
  <2> QED
    BY <2>1, <2>2, <2>3, <2>4, <2>5 DEF RInv
<1>3. CASE LoadError \/ WriteClearedError
  BY <1>0, <1>3
     DEF LoadError, WriteClearedError, RInv, RTypeOK, RSound, Phase, vars, TypeOK
<1>4. CASE WriteCleared
  <2>1. Cleared \in RegistryType /\ Sound(Cleared)
    BY <1>0, ClearedSound DEF RTypeOK
  <2>2. RTypeOK' /\ RSound'
    BY <1>0, <1>4, <2>1 DEF WriteCleared, RTypeOK, RSound, TypeOK, Phase
  <2> QED
    BY <1>4, <2>2 DEF WriteCleared, RInv, Recorded, OwnsWhatItHid
<1>5. CASE Show
  <2>1. /\ hider' = Synchronised(theirs, Cleared)
        /\ ours' = ours \ (ToRestore(theirs, Cleared) \cup MissedBy(theirs, Cleared))
        /\ removal = "written" /\ removal' = "done"
        /\ UNCHANGED <<disk, up, live, busy, staged, written, backup, gone, theirs, trouble>>
    BY <1>5 DEF Show
  <2>2. Synchronised(theirs, Cleared) \in [RegistryId -> Hider]
    <3>1. \A g \in RegistryId : Synchronised(theirs, Cleared)[g] \in Hider
      BY <1>0, ClearedSound, SynchronisedValue, HiderType DEF Sound, RTypeOK, TypeOK
    <3> QED
      BY <3>1 DEF Synchronised
  <2>3. RTypeOK' /\ RSound'
    BY <1>0, <2>1, <2>2 DEF RTypeOK, RSound, TypeOK, Phase
  <2>4. ASSUME trouble = {}, NEW g \in ours
        PROVE  g \in ToRestore(theirs, Cleared) \cup MissedBy(theirs, Cleared)
    <3>1. hider[g] = "integration" /\ \E x \in theirs.adoptions : x.registry = g /\ x.changed
      BY <2>1, <2>4 DEF RInv, Recorded
    <3>2. Ended(theirs, Cleared, g) # {}
      BY <1>0, <3>1, ClearedSound DEF Ended, RTypeOK
    <3> QED
      BY <1>0, <3>1, <3>2 DEF ToRestore, MissedBy, TypeOK
  <2>5. trouble' = {} => ours' = {}
    BY <2>1, <2>4
  <2> QED
    BY <2>1, <2>3, <2>5 DEF RInv
<1>6. CASE OldManager
  <2>1. /\ OrdinaryNext /\ UNCHANGED <<removal, theirs, trouble>>
        /\ removal = "no" \/ busy
    BY <1>6 DEF OldManager, OrdinaryNext, WriteFile, WriteError, Publish
  <2>2. RTypeOK' /\ RSound'
    BY <1>0, <2>1, SoundStep DEF RTypeOK, RSound
  <2>3. trouble' = {} => removal = "no" /\ IInv'
    BY <2>1, StepPreserves DEF RInv
  <2> QED
    BY <2>1, <2>2, <2>3 DEF RInv
<1>7. CASE Restarted
  <2>1. /\ Crash /\ UNCHANGED theirs
        /\ removal' = IF removal = "done" THEN "done" ELSE "no"
        /\ trouble' = trouble \cup (IF removal = "written" THEN {"failed"} ELSE {})
    BY <1>7 DEF Restarted
  <2>2. TypeOK' /\ Sound(disk)' /\ Sound(live)' /\ Sound(staged)'
    BY <1>0, <2>1, SoundStep DEF OrdinaryNext
  <2>3. RTypeOK' /\ RSound'
    BY <1>0, <2>1, <2>2 DEF RTypeOK, RSound, Phase
  <2>4. ASSUME trouble' = {}, removal \in {"no", "unloaded"}
        PROVE  IInv'
    BY <2>1, <2>4, CrashPreserves DEF RInv
  <2>5. ASSUME trouble' = {}, removal = "staged"
        PROVE  IInv'
    <3>1. disk = theirs /\ OwnsWhatItHid(theirs) /\ Recorded /\ ~written
      BY <2>1, <2>5 DEF RInv
    <3>2. /\ ~up' /\ ~busy' /\ ~written' /\ live' = EmptyRegistry /\ staged' = EmptyRegistry
          /\ UNCHANGED <<disk, hider>> /\ ours' = ours
      BY <2>1, <3>1 DEF Crash, Settle
    <3> QED
      BY <2>2, <3>1, <3>2, EmptySound
         DEF IInv, OwnsWhatItHid, NothingLeftHidden, Current, Recorded, EmptyRegistry
  <2>6. trouble' = {} => removal # "written" /\ trouble = {}
    BY <2>1
  <2>7. trouble' = {} /\ removal = "done" => ours' = {} /\ ~busy' /\ ~written'
    BY <2>1 DEF RInv, Crash, Settle
  <2> QED
    BY <1>0, <2>1, <2>3, <2>4, <2>5, <2>6, <2>7 DEF RInv, RTypeOK, Phase
<1>8. CASE User
  <2>1. OrdinaryNext /\ UNCHANGED <<removal, theirs, trouble>>
    BY <1>8 DEF User, OrdinaryNext
  <2>2. RTypeOK' /\ RSound'
    BY <1>0, <2>1, SoundStep DEF RTypeOK, RSound
  <2>3. IInv => IInv'
    BY <2>1, StepPreserves
  <2>4. /\ UNCHANGED <<disk, busy, written>> /\ ours' \subseteq ours
        /\ \A g \in ours' : hider'[g] = hider[g]
        /\ \A g \in RegistryId : hider'[g] = "integration" => hider[g] = "integration"
        /\ \A g \in RegistryId : hider'[g] = "integration" /\ g \in ours => g \in ours'
    BY <1>0, <1>8 DEF User, Vanish, Return, UserSets, TypeOK
  <2>5. OwnsWhatItHid(theirs) => OwnsWhatItHid(theirs)'
    <3>1. \A x \in theirs.adoptions : x.registry \in RegistryId
      BY <1>0 DEF RTypeOK, RegistryType, Adoption
    <3> QED
      BY <2>1, <2>4, <3>1 DEF OwnsWhatItHid
  <2>6. Recorded => Recorded'
    BY <2>1, <2>4 DEF Recorded
  <2> QED
    BY <2>1, <2>2, <2>3, <2>4, <2>5, <2>6 DEF RInv
<1>9. CASE UNCHANGED rvars
  BY <1>9 DEF RInv, RTypeOK, RSound, rvars, vars, TypeOK, IInv, OwnsWhatItHid, NothingLeftHidden,
    Current, Recorded
<1> QED
  BY <1>1, <1>2, <1>3, <1>4, <1>5, <1>6, <1>7, <1>8, <1>9 DEF RNext

\* And it holds at first.
LEMMA RemovalInit == RInit => RInv
<1>1. SUFFICES ASSUME RInit PROVE RInv OBVIOUS
<1>2. IInv BY <1>1, InitEstablishes DEF RInit
<1> QED BY <1>1, <1>2, EmptySound DEF RInit, RInv, RTypeOK, RSound, Phase, IInv

\* The invariant of removals holds in every reachable state.
THEOREM RemovalInvariance == RSpec => []RInv
<1> QED
  BY RemovalInit, RemovalStep, PTL DEF RSpec

\* When no mutation was under way and nothing failed, nothing is left hidden by BindHome once
\* the entry is removed, but for hardware that was absent (__init__.py async_remove_entry).
THEOREM RemovalShowsAll == RSpec => []CalmRemovalShowsAll
<1>1. RInv => CalmRemovalShowsAll
  BY DEF RInv, CalmRemovalShowsAll
<1> QED
  BY <1>1, RemovalInvariance, PTL

\* What such a removal may show.
ShowsOnlyOwn ==
  Show /\ trouble = {} =>
    \A g \in RegistryId : hider'[g] # hider[g] => g \in ours /\ hider'[g] = "none"

\* Showing the records that were read touches only what BindHome hid.
LEMMA RemovalShows == ASSUME RInv PROVE ShowsOnlyOwn
<1> SUFFICES ASSUME Show, trouble = {}, NEW g \in RegistryId, hider'[g] # hider[g]
             PROVE  g \in ours /\ hider'[g] = "none"
  BY DEF ShowsOnlyOwn
<1>1. /\ removal = "written" /\ OwnsWhatItHid(theirs)
      /\ theirs \in RegistryType /\ Sound(theirs)
      /\ hider' = Synchronised(theirs, Cleared)
  BY DEF Show, RInv, RTypeOK, RSound
<1>2. ToHide(theirs, Cleared) = {}
  BY <1>1, ClearedSound DEF ToHide, Ended
<1>3. g \in ToRestore(theirs, Cleared)
  BY <1>1, <1>2, ClearedSound, SynchronisedValue
<1>4. hider'[g] = "none"
  BY <1>1, <1>3, ClearedSound, SynchronisedValue
<1>5. g \in ours
  BY <1>1, <1>3 DEF ToRestore, Ended, OwnsWhatItHid
<1> QED
  BY <1>4, <1>5

\* Such a removal shows only what BindHome hid and nobody touched since (adoption.py
\* sync_adoption_visibility_transition).
THEOREM RemovalUndoesOnlyOwn == RSpec => RemovalShowsOnlyOwn
<1>1. RInv /\ [RNext]_rvars => [ShowsOnlyOwn]_rvars
  BY RemovalShows
<1> QED
  BY <1>1, RemovalInvariance, PTL DEF RSpec, RemovalShowsOnlyOwn, ShowsOnlyOwn

-----------------------------------------------------------------------------
(***************************************************************************)
(* Guided replacement of hardware, module Replacement.  A plan and a       *)
(* request carry a revision along with what it said of the connection; one *)
(* that is behind promises nothing, and only one that is not behind gets   *)
(* the lock.                                                               *)
(***************************************************************************)

\* What was said to be there when a revision was read is there while it is the current one.
Stands(key, basis, current) == basis = revision => bindings[key] = current

PlansStand ==
  \A c \in Clients : plans[c] # None =>
    Stands(plans[c].key, plans[c].revision, plans[c].current)

Carries(r) ==
  r.plan # None =>
    /\ r.revision = r.plan.revision /\ r.key = r.plan.key
    /\ Stands(r.key, r.revision, r.plan.current)

\* The inductive invariant: requests that wait may be out of date, the one with the lock is
\* not.
ReplacementInv ==
  /\ Hw!TypeOK /\ PlansStand
  /\ \A i \in DOMAIN queue : Carries(queue[i])
  /\ saving # None => Carries(saving) /\ (saving.plan # None => saving.revision = revision)

\* A request that is begun is either refused or holds the lock for what it named.
LEMMA BeginHolds ==
  ASSUME Hw!ReplacementAssumption, Hw!TypeOK, NEW r \in Hw!Requests, Carries(r), Hw!Begin(r),
         UNCHANGED <<bindings, revision>>
  PROVE  saving' # None =>
           /\ saving' \in Hw!Requests' /\ saving'.target # None
           /\ Carries(saving)' /\ (saving'.plan # None => saving'.revision = revision')
<1>1. CASE Hw!Releases(r) BY <1>1 DEF Hw!Releases
<1>2. CASE Hw!Accepts(r) /\ saving' = [r EXCEPT !.target = CHOOSE e \in Hw!Named(r.name) : TRUE]
  <2> DEFINE e == CHOOSE e \in Hw!Named(r.name) : TRUE
  <2>1. e \in Hardware /\ e # None
    BY <1>2 DEF Hw!Accepts, Hw!Named, Hw!Present, Hw!ReplacementAssumption
  <2>2. Hw!Requests' = Hw!Requests
    BY DEF Hw!Requests
  <2> HIDE DEF e
  <2>3. /\ saving' \in Hw!Requests /\ saving'.target = e
        /\ saving'.plan = r.plan /\ saving'.revision = r.revision /\ saving'.key = r.key
    BY <1>2, <2>1 DEF Hw!Requests, e
  <2>4. r.plan # None => r.revision = revision
    BY <1>2 DEF Hw!Accepts, Carries, Hw!Requests, Hw!TypeOK, Hw!ReplacementAssumption
  <2> QED BY <2>1, <2>2, <2>3, <2>4 DEF Carries, Stands
<1> QED BY <1>1, <1>2 DEF Hw!Begin

\* Asking for the lock keeps the promises of those that wait for it.
LEMMA AcquireHolds ==
  ASSUME Hw!ReplacementAssumption, ReplacementInv, NEW r \in Hw!Requests, Carries(r), Hw!Acquire(r),
         UNCHANGED <<Hw!entries, bindings, revision>>, PlansStand',
         plans' \in [Clients -> Hw!Plans \cup {None}]
  PROVE  ReplacementInv'
<1> USE DEF ReplacementInv
<1>0. Hw!Requests' = Hw!Requests /\ Hw!Plans' = Hw!Plans
  BY DEF Hw!Requests, Hw!Plans
<1>1. CASE saving = None /\ queue = <<>>
  <2>1. Hw!Begin(r) /\ queue' = queue BY <1>1 DEF Hw!Acquire
  <2> QED BY <1>0, <1>1, <2>1, BeginHolds DEF Hw!TypeOK, Hw!entries, Hw!Present
<1>2. CASE ~(saving = None /\ queue = <<>>)
  <2>1. queue' = Append(queue, r) /\ saving' = saving BY <1>2 DEF Hw!Acquire
  <2>2. /\ queue' \in Seq(Hw!Requests)
        /\ \A i \in DOMAIN queue' : queue'[i] = r \/ (i \in DOMAIN queue /\ queue'[i] = queue[i])
    BY <2>1 DEF Hw!TypeOK
  <2>3. Hw!TypeOK' BY <1>0, <2>1, <2>2 DEF Hw!TypeOK, Hw!entries, Hw!Present
  <2>4. \A i \in DOMAIN queue' : Carries(queue[i])'
    BY <2>2 DEF Carries, Stands
  <2> QED BY <2>1, <2>3, <2>4 DEF Carries, Stands
<1> QED BY <1>1, <1>2

\* Every step keeps the invariant.
LEMMA ReplacementStep ==
  ASSUME Hw!ReplacementAssumption, ReplacementInv, [Hw!Next]_(Hw!vars) PROVE ReplacementInv'
<1> USE DEF ReplacementInv
<1>1. ASSUME NEW e \in Hardware, NEW n \in Names \cup {None}, Hw!Rename(e, n) PROVE ReplacementInv'
  <2>1. /\ name' \in [Hardware -> Names \cup {None}]
        /\ \A f, g \in Hardware : name'[f] # None /\ name'[f] = name'[g] => f = g
    BY <1>1 DEF Hw!Rename, Hw!Free, Hw!TypeOK, Hw!Present
  <2>2. Hw!TypeOK' BY <1>1, <2>1 DEF Hw!Rename, Hw!lock, Hw!TypeOK, Hw!Present, Hw!Requests,
                                     Hw!Plans
  <2> QED BY <1>1, <2>2 DEF Hw!Rename, Hw!lock, PlansStand, Carries, Stands
<1>2. ASSUME NEW e \in Hardware, Hw!Refit(e) PROVE ReplacementInv'
  <2>1. Hw!TypeOK' BY <1>2 DEF Hw!Refit, Hw!lock, Hw!TypeOK, Hw!Present, Hw!Requests, Hw!Plans
  <2> QED BY <1>2, <2>1 DEF Hw!Refit, Hw!lock, PlansStand, Carries, Stands
<1>3. ASSUME NEW c \in Clients, NEW k \in Keys, Hw!Review(c, k) PROVE ReplacementInv'
  <2> DEFINE p == [key |-> k, revision |-> revision, current |-> bindings[k],
                   names |-> [e \in Hw!Candidates(k) |-> name[e]]]
  <2>1. /\ plans' = [plans EXCEPT ![c] = p]
        /\ UNCHANGED <<name, fits, bindings, revision, queue, saving>>
    BY <1>3 DEF Hw!Review, Hw!entries, Hw!lock
  <2>2. [e \in Hw!Candidates(k) |-> name[e]] \in [Hw!Candidates(k) -> Names]
    BY DEF Hw!Candidates, Hw!Present, Hw!TypeOK
  <2>3. p \in Hw!Plans
    <3>1. Hw!Candidates(k) \in SUBSET Hardware BY DEF Hw!Candidates, Hw!Present
    <3>2. p.names \in UNION {[D -> Names] : D \in SUBSET Hardware} BY <2>2, <3>1
    <3> QED BY <3>2 DEF Hw!Plans, Hw!TypeOK
  <2>4. p.key = k /\ p.revision = revision /\ p.current = bindings[k]
    OBVIOUS
  <2> HIDE DEF p
  <2>5. plans' \in [Clients -> Hw!Plans \cup {None}] BY <2>1, <2>3 DEF Hw!TypeOK
  <2>6. Hw!TypeOK' BY <2>1, <2>5 DEF Hw!TypeOK, Hw!Present, Hw!Requests, Hw!Plans
  <2>7. PlansStand' BY <2>1, <2>4 DEF PlansStand, Stands, Hw!TypeOK
  <2> QED BY <2>1, <2>6, <2>7 DEF Carries, Stands
<1>4. ASSUME NEW c \in Clients, NEW e \in Hardware, Hw!Replace(c, e) PROVE ReplacementInv'
  <2> DEFINE p == plans[c]
  <2> DEFINE r == Hw!Request(c, [p EXCEPT !.names = e], p.key, p.names[e], p.revision)
  <2>1. /\ p \in Hw!Plans /\ e \in DOMAIN p.names /\ Stands(p.key, p.revision, p.current)
        /\ plans' = [plans EXCEPT ![c] = None] /\ UNCHANGED <<Hw!entries, bindings, revision>>
    BY <1>4 DEF Hw!Replace, Hw!TypeOK, PlansStand
  <2>2. p.names[e] \in Names BY <2>1 DEF Hw!Plans
  <2>3. PlansStand' /\ plans' \in [Clients -> Hw!Plans \cup {None}]
    BY <2>1 DEF PlansStand, Stands, Hw!TypeOK
  <2>4. CASE Hw!Acquire(r)
    <3>1. [p EXCEPT !.names = e] \in
            [key : Keys, revision : 0..revision, current : Hw!Bindings, names : Hardware]
      BY <2>1 DEF Hw!Plans
    <3>2. r \in Hw!Requests
      BY <2>1, <2>2, <3>1 DEF Hw!Request, Hw!Requests, Hw!Plans
    <3>3. Carries(r)
      BY <2>1 DEF Carries, Hw!Request, Hw!Plans
    <3> HIDE DEF r
    <3> QED BY <2>1, <2>3, <2>4, <3>2, <3>3, AcquireHolds
  <2>5. CASE UNCHANGED Hw!lock
    <3>1. Hw!TypeOK' BY <2>1, <2>3, <2>5 DEF Hw!lock, Hw!entries, Hw!TypeOK, Hw!Present,
                                             Hw!Requests, Hw!Plans
    <3> QED BY <2>1, <2>3, <2>5, <3>1 DEF Hw!lock, Carries, Stands
  <2> QED BY <1>4, <2>4, <2>5 DEF Hw!Replace
<1>5. ASSUME NEW k \in Keys, NEW n \in Names, Hw!Set(k, n) PROVE ReplacementInv'
  <2> DEFINE r == Hw!Request(None, None, k, n, None)
  <2>1. r \in Hw!Requests /\ Carries(r) BY DEF Hw!Request, Hw!Requests, Carries
  <2>2. Hw!Acquire(r) /\ UNCHANGED <<Hw!entries, bindings, revision, plans>> BY <1>5 DEF Hw!Set
  <2>3. PlansStand' /\ plans' \in [Clients -> Hw!Plans \cup {None}]
    BY <2>2 DEF PlansStand, Stands, Hw!TypeOK
  <2> HIDE DEF r
  <2> QED BY <2>1, <2>2, <2>3, AcquireHolds
<1>6. CASE Hw!Wake
  <2>1. /\ queue # <<>> /\ queue' = Tail(queue) /\ Hw!Begin(Head(queue))
        /\ UNCHANGED <<name, fits, bindings, revision, plans>>
    BY <1>6 DEF Hw!Wake, Hw!entries
  <2>2. Head(queue) \in Hw!Requests /\ Carries(Head(queue)) /\ queue' \in Seq(Hw!Requests)
        /\ \A i \in DOMAIN queue' : i + 1 \in DOMAIN queue /\ queue'[i] = queue[i + 1]
    BY <2>1 DEF Hw!TypeOK
  <2>3. saving' # None =>
           /\ saving' \in Hw!Requests' /\ saving'.target # None
           /\ Carries(saving)' /\ (saving'.plan # None => saving'.revision = revision')
    BY <2>1, <2>2, BeginHolds
  <2>4. Hw!TypeOK' BY <2>1, <2>2, <2>3 DEF Hw!TypeOK, Hw!Present, Hw!Requests, Hw!Plans
  <2>5. \A i \in DOMAIN queue' : Carries(queue[i])' BY <2>1, <2>2 DEF Carries, Stands
  <2> QED BY <2>1, <2>3, <2>4, <2>5 DEF PlansStand, Stands
<1>7. CASE Hw!Saved
  <2> DEFINE b == [target |-> saving.target, name |-> saving.name]
  <2>1. /\ saving # None /\ revision < MaxRevision /\ revision' = revision + 1 /\ saving' = None
        /\ bindings' = [bindings EXCEPT ![saving.key] = b]
        /\ UNCHANGED <<name, fits, plans, queue>>
    BY <1>7 DEF Hw!Saved, Hw!entries
  <2>2. /\ revision \in 0..MaxRevision /\ revision' \in 0..MaxRevision
        /\ 0..revision \subseteq 0..revision'
    BY <2>1 DEF Hw!TypeOK, Hw!ReplacementAssumption
  <2>3. Hw!Requests \subseteq Hw!Requests' /\ Hw!Plans \subseteq Hw!Plans'
    BY <2>2 DEF Hw!Requests, Hw!Plans
  <2>4. bindings' \in [Keys -> Hw!Bindings]
    BY <2>1 DEF Hw!TypeOK, Hw!Bindings, Hw!Requests
  <2>5. queue' \in Seq(Hw!Requests') BY <2>1, <2>3 DEF Hw!TypeOK
  <2>6. Hw!TypeOK' BY <2>1, <2>2, <2>3, <2>4, <2>5 DEF Hw!TypeOK, Hw!Present
\* Whatever was read before is out of date.
  <2>7. PlansStand'
    BY <2>1, <2>2 DEF PlansStand, Stands, Hw!TypeOK, Hw!Plans, Hw!ReplacementAssumption
  <2>8. ASSUME NEW i \in DOMAIN queue' PROVE Carries(queue[i])'
    <3>1. queue'[i] = queue[i] /\ queue[i] \in Hw!Requests /\ Carries(queue[i])
      BY <2>1 DEF Hw!TypeOK
    <3>2. queue[i].plan # None => queue[i].plan.revision \in 0..revision
      BY <3>1 DEF Hw!Requests
    <3>3. queue[i].plan # None => queue[i].plan.revision # revision'
      BY <2>1, <2>2, <3>2
    <3> QED BY <3>1, <3>3 DEF Carries, Stands
  <2> QED BY <2>1, <2>6, <2>7, <2>8
<1>8. CASE Hw!SaveFailed
  <2>1. Hw!TypeOK' BY <1>8 DEF Hw!SaveFailed, Hw!entries, Hw!TypeOK, Hw!Present, Hw!Requests,
                               Hw!Plans
  <2> QED BY <1>8, <2>1 DEF Hw!SaveFailed, Hw!entries, PlansStand, Carries, Stands
<1>9. CASE UNCHANGED Hw!vars
  <2>1. Hw!TypeOK' BY <1>9 DEF Hw!vars, Hw!entries, Hw!lock, Hw!TypeOK, Hw!Present, Hw!Requests,
                               Hw!Plans
  <2> QED BY <1>9, <2>1 DEF Hw!vars, Hw!entries, Hw!lock, PlansStand, Carries, Stands
<1> QED BY <1>1, <1>2, <1>3, <1>4, <1>5, <1>6, <1>7, <1>8, <1>9 DEF Hw!Next

\* And it holds at first.
LEMMA ReplacementInit == ASSUME Hw!ReplacementAssumption, Hw!Init PROVE ReplacementInv
<1>1. bindings \in [Keys -> Hw!Bindings] /\ plans \in [Clients -> Hw!Plans \cup {None}]
  BY DEF Hw!Init, Hw!Bindings
<1>2. fits \in [Hardware -> BOOLEAN] /\ queue \in Seq(Hw!Requests) BY DEF Hw!Init
<1>3. \A e, f \in Hw!Present : name[e] = name[f] => e = f BY DEF Hw!Init, Hw!Present
<1>4. Hw!TypeOK BY <1>1, <1>2, <1>3 DEF Hw!Init, Hw!TypeOK, Hw!ReplacementAssumption
<1> QED BY <1>4 DEF Hw!Init, ReplacementInv, PlansStand

\* The inductive invariant of replacements (replacement.py): for any number of keys, clients
\* and requests that wait.
THEOREM ReplacementInvariance == ASSUME Hw!ReplacementAssumption PROVE Hw!Spec => []ReplacementInv
<1>1. Hw!Init => ReplacementInv BY ReplacementInit
<1>2. ReplacementInv /\ [Hw!Next]_(Hw!vars) => ReplacementInv' BY ReplacementStep
<1> QED BY <1>1, <1>2, PTL DEF Hw!Spec

\* What the request with the lock replaces is what it named.
LEMMA ReplacesNamed ==
  ASSUME ReplacementInv
  PROVE  [Hw!Replacement(saving) /\ bindings' # bindings
            => bindings[saving.key] = saving.plan.current]_(Hw!vars)
BY DEF ReplacementInv, Hw!Replacement, Carries, Stands

\* What is bound is not among the candidates.
LEMMA CandidatesFree == ASSUME Hw!TypeOK PROVE Hw!CandidatesUnused
BY DEF Hw!TypeOK, Hw!CandidatesUnused, Hw!Candidates, Hw!Present, Hw!CurrentName,
       Hw!BoundElsewhere

\* What a replacement takes the place of is what its plan said is there, however long it
\* waited for the lock (replacement.py, async_replace_binding).
THEOREM ReplacesAsReviewed == ASSUME Hw!ReplacementAssumption PROVE Hw!Spec => Hw!ReplacesReviewed
<1>1. ReplacementInv
        => [Hw!Replacement(saving) /\ bindings' # bindings
              => bindings[saving.key] = saving.plan.current]_(Hw!vars)
  BY ReplacesNamed
<1> QED BY <1>1, ReplacementInvariance, PTL DEF Hw!Spec, Hw!ReplacesReviewed

\* No candidate is in use, by the key itself or by another asset, whatever was renamed or
\* removed since it was bound (replacement.py, replacement_candidates).
THEOREM CandidatesAreUnused ==
  ASSUME Hw!ReplacementAssumption PROVE Hw!Spec => []Hw!CandidatesUnused
<1>1. ReplacementInv => Hw!CandidatesUnused BY CandidatesFree DEF ReplacementInv
<1> QED BY <1>1, ReplacementInvariance, PTL

-----------------------------------------------------------------------------
(***************************************************************************)
(* The parts of the run, module MCAdoption.  A behaviour of one part is a  *)
(* behaviour of removals, in which nothing is removed but in its own part, *)
(* or one of replacements; the variables of the other rest.                *)
(***************************************************************************)

PartInv == RInv /\ ReplacementInv /\ (part # "removal" => Kept)

\* What adoption does is what a manager does that nobody unloads.
LEMMA AdoptionStep ==
  ASSUME Kept, OrdinaryNext, UNCHANGED <<removal, theirs, trouble>>
  PROVE  RNext
<1>1. CASE Stage \/ Start \/ WriteFile \/ WriteError \/ Publish
  BY <1>1 DEF RNext, OldManager, Kept
<1>2. CASE Crash
  BY <1>2 DEF RNext, Restarted, Kept
<1>3. CASE \E g \in RegistryId : Vanish(g) \/ Return(g) \/ \E h \in {"none", "user"} : UserSets(g, h)
  BY <1>3 DEF RNext, User
<1> QED BY <1>1, <1>2, <1>3 DEF OrdinaryNext

\* Every step of the run is one of removals and one of replacements, or leaves them alone.
LEMMA PartSteps ==
  ASSUME PartInv, [PartNext]_PartVars
  PROVE  [RNext]_rvars /\ [Hw!Next]_(Hw!vars) /\ (part' # "removal" => Kept')
<1>1. CASE part = "adoption" /\ OrdinaryNext
             /\ UNCHANGED <<part, removal, theirs, trouble, replacementVars>>
  <2>1. RNext BY <1>1, AdoptionStep DEF PartInv
  <2> QED BY <1>1, <2>1 DEF PartInv, Kept, replacementVars, Hw!vars, Hw!entries, Hw!lock
<1>2. CASE part = "removal" /\ RNext /\ UNCHANGED <<part, replacementVars>>
  BY <1>2 DEF replacementVars, Hw!vars, Hw!entries, Hw!lock
<1>3. CASE Hw!Next /\ UNCHANGED <<part, rvars>>
  BY <1>3 DEF PartInv, Kept, rvars
<1>4. CASE UNCHANGED PartVars
  BY <1>4 DEF PartInv, Kept, PartVars, rvars, replacementVars, Hw!vars, Hw!entries, Hw!lock
<1> QED BY <1>1, <1>2, <1>3, <1>4 DEF PartNext

\* The invariants of both hold in every state of the run.
LEMMA AdoptionPart == PartSpec => []PartInv
<1>1. PartInit => PartInv
  BY RemovalInit, ReplacementInit, ReplacementConstants DEF PartInit, PartInv, Kept, RInit
<1>2. PartInv /\ [PartNext]_PartVars => PartInv'
  BY PartSteps, RemovalStep, ReplacementStep, ReplacementConstants DEF PartInv
<1> QED BY <1>1, <1>2, PTL DEF PartSpec

\* While the entry stays, what BindHome hid and nobody touched since has a record that will
\* restore it, be there retargets, shared owners, failed writes or crashes (adoption.py,
\* sync_adoption_visibility_transition).
THEOREM HidingsStayRecorded == PartSpec => []HidingsRecorded
<1>1. PartInv => HidingsRecorded
  BY DEF PartInv, RInv, IInv, HidingsRecorded, Kept
<1> QED BY <1>1, AdoptionPart, PTL

\* And no commit changes a visibility that a user decided after the consent (adoption.py,
\* sync_adoption_visibility_transition).
THEOREM CommitsUndoOnlyOwn == PartSpec => CommitsUndoOwn
<1>1. ASSUME PartInv, [PartNext]_PartVars, Kept PROVE OwnHidingOnly
  <2>1. [RNext]_rvars /\ IInv BY <1>1, PartSteps DEF PartInv, RInv, Kept
  <2>2. [OrdinaryNext]_vars \/ live' = live
    BY <1>1, <2>1 DEF RNext, rvars, Kept, OldManager, Restarted, User, Unload, Load, LoadError,
       WriteCleared, WriteClearedError, Show, OrdinaryNext, vars
  <2> QED BY <2>1, <2>2, OwnHiding DEF OwnHidingOnly
<1>2. PartInv /\ [PartNext]_PartVars => [Kept => OwnHidingOnly]_PartVars BY <1>1
<1> QED BY <1>2, AdoptionPart, PTL DEF PartSpec, CommitsUndoOwn

\* A removal that meets no mutation under way and no fault shows again all that BindHome hid,
\* but for hardware that was absent, and nothing else (__init__.py async_remove_entry).
THEOREM RemovalReversesAdoption == PartSpec => RemovalReverses
<1>1. PartInv => CalmRemovalShowsAll
  BY DEF PartInv, RInv, CalmRemovalShowsAll
<1>2. PartInv => ShowsOnlyOwn
  BY RemovalShows DEF PartInv
<1>3. PartInv /\ [PartNext]_PartVars => [ShowsOnlyOwn]_rvars BY <1>2
<1> QED BY <1>1, <1>3, AdoptionPart, PTL DEF PartSpec, RemovalReverses, RemovalShowsOnlyOwn, ShowsOnlyOwn

\* No candidate for a replacement is in use, and what a replacement takes the place of is what
\* its plan said is there, for any number of keys and clients, however long a request waited
\* (replacement.py, replacement_candidates and async_replace_binding).
THEOREM ReplacementsAsReviewed == PartSpec => ReplacementReviewed
<1>1. PartInv => Hw!TypeOK BY DEF PartInv, ReplacementInv
<1>2. Hw!TypeOK => Hw!CandidatesUnused BY CandidatesFree
<1>3. PartInv
        => [Hw!Replacement(saving) /\ bindings' # bindings
              => bindings[saving.key] = saving.plan.current]_(Hw!vars)
  BY ReplacesNamed DEF PartInv
<1> QED BY <1>1, <1>2, <1>3, AdoptionPart, PTL DEF ReplacementReviewed, Hw!ReplacesReviewed

-----------------------------------------------------------------------------
(***************************************************************************)
(* The editor of a connection, module Connection.  The messages under way  *)
(* carry the argument, and what may wait depends on what has been          *)
(* committed since: a plan names the target that is bound, unless a later  *)
(* commit has made it stale, and an own answer is for the identity on show.*)
(***************************************************************************)

CONSTANTS Identities, Registered, Running, MaxWaiting

VARIABLES
  bound, ids, toServer, toPanel, status, statusIds, basis, identity, editing, selected, mode, error, success,
  confirmDisconnect, confirmReplacement, plan, loading, disconnected

Co == INSTANCE Connection

\* What a queue of messages holds after the first is taken.
LEMMA TailHolds ==
  ASSUME NEW S, NEW q \in Seq(S), q # <<>>
  PROVE  /\ Head(q) \in S /\ Head(q) = q[1] /\ 1 \in DOMAIN q
         /\ Tail(q) \in Seq(S) /\ Len(Tail(q)) = Len(q) - 1 /\ Len(q) \in Nat
         /\ \A n \in DOMAIN Tail(q) : n + 1 \in DOMAIN q /\ Tail(q)[n] = q[n + 1]
OBVIOUS

\* The plans that say what is bound, if nothing has been committed since they were made.
Standing ==
  {p \in Co!Plan : p.revision <= revision /\ (p.revision = revision => bound[p.identity] = p.target)}

\* The requests that may wait: one of the editor's own is for the connection on show, and a
\* replacement names the target that is there, if nothing has been committed since.
Asked ==
  {m \in Co!Request :
     /\ m.own => m.identity = identity /\ (m.type \in Co!Mutation => ~loading)
     /\ m.revision <= revision
     /\ m.type = "replace" /\ m.revision = revision => bound[m.identity] = m.target}

\* The answers that may wait.
Answered ==
  {m \in Co!Response :
     /\ m.own => m.type # "followed" /\ m.identity = identity /\ (m.type = "done" => ~loading)
     /\ m.type = "plan" => m.plan.identity = m.identity /\ m.plan \in Standing
     /\ m.type \in {"done", "refreshed", "followed"} => m.revision <= revision}

QueuesHold == toServer \in Seq(Asked) /\ toPanel \in Seq(Answered)

\* The inductive invariant.
ConnectionInv ==
  /\ Co!TypeOK /\ QueuesHold /\ Co!PickerOfIdentity
  /\ plan # None => plan \in Standing

\* A queue whose messages are all in another set.
LEMMA SeqInto ==
  ASSUME NEW S, NEW T, NEW q \in Seq(S), \A m \in S : m \in T PROVE q \in Seq(T)
<1>1. q = [n \in 1..Len(q) |-> q[n]] /\ Len(q) \in Nat /\ \A n \in 1..Len(q) : q[n] \in T
  OBVIOUS
<1> QED BY <1>1, IsASeq

LEMMA SeqDisowned ==
  ASSUME NEW S, NEW T, NEW q \in Seq(S), \A m \in S : [m EXCEPT !.own = FALSE] \in T
  PROVE  Co!Disown(q) \in Seq(T)
<1>1. DOMAIN q = 1..Len(q) /\ Len(q) \in Nat /\ \A n \in 1..Len(q) : [q[n] EXCEPT !.own = FALSE] \in T
  OBVIOUS
<1> QED BY <1>1, IsASeq DEF Co!Disown

\* The fields of an answer, by its type.
LEMMA ResponseFields ==
  ASSUME NEW m \in Co!Response
  PROVE  /\ m.own \in BOOLEAN
         /\ m.type \in {"plan", "done", "refused", "refreshed", "followed"}
         /\ m.type = "plan" => m.identity \in Identities /\ m.plan \in Co!Plan
         /\ m.type = "done" => /\ m.identity \in Identities /\ m.of \in Co!Mutation
                               /\ m.id \in Nat /\ m.revision \in Nat
         /\ m.type = "refused" => m.identity \in Identities /\ m.of \in Co!Mutation \cup {"plan"}
         /\ m.type = "refreshed" => /\ m.identity \in Identities /\ m.ok \in BOOLEAN
                                    /\ m.status \in Co!Bindings /\ m.ids \in Co!Ids
                                    /\ m.revision \in Nat
         /\ m.type = "followed" => m.status \in Co!Bindings /\ m.ids \in Co!Ids /\ m.revision \in Nat
BY DEF Co!Response

\* A message that is not the editor's own any more says what it said.
LEMMA DisownResponse ==
  ASSUME NEW m \in Answered, UNCHANGED Co!server
  PROVE  [m EXCEPT !.own = FALSE] \in Answered'
<1> DEFINE d == [m EXCEPT !.own = FALSE]
<1>0. m \in Co!Response /\ Standing' = Standing
  BY DEF Answered, Standing, Co!server
<1>1. CASE m.type = "plan"
  <2>1. d \in Co!Response BY <1>0, <1>1 DEF Co!Response
  <2>2. d.own = FALSE /\ d.type = "plan" /\ d.identity = m.identity /\ d.plan = m.plan
    BY <1>0, <1>1 DEF Co!Response
  <2> HIDE DEF d
  <2>3. d \in Answered' BY <1>0, <1>1, <2>1, <2>2 DEF Answered
  <2> QED BY <2>3 DEF d
<1>2. CASE m.type \in {"done", "refreshed", "followed"}
  <2>1. d \in Co!Response BY <1>0, <1>2 DEF Co!Response
  <2>2. d.own = FALSE /\ d.type = m.type /\ d.revision = m.revision
    BY <1>0, <1>2 DEF Co!Response
  <2> HIDE DEF d
  <2>3. d \in Answered' BY <1>2, <2>1, <2>2 DEF Answered, Co!server
  <2> QED BY <2>3 DEF d
<1>3. CASE m.type = "refused"
  <2>1. d \in Co!Response BY <1>0, <1>3 DEF Co!Response
  <2>2. d.own = FALSE /\ d.type = "refused"
    BY <1>0, <1>3 DEF Co!Response
  <2> HIDE DEF d
  <2>3. d \in Answered' BY <2>1, <2>2 DEF Answered
  <2> QED BY <2>3 DEF d
<1> QED BY <1>0, <1>1, <1>2, <1>3, ResponseFields

\* Same, of a request.
LEMMA DisownRequest ==
  ASSUME NEW m \in Asked, UNCHANGED Co!server
  PROVE  [m EXCEPT !.own = FALSE] \in Asked'
<1> DEFINE d == [m EXCEPT !.own = FALSE]
<1>1. m \in Co!Request /\ d \in Co!Request BY DEF Co!Request, Asked
<1>2. /\ d.own = FALSE /\ d.type = m.type /\ d.identity = m.identity
      /\ d.revision = m.revision /\ d.target = m.target
  BY <1>1 DEF Co!Request
<1> HIDE DEF d
<1>3. d \in Asked' BY <1>1, <1>2 DEF Asked, Co!server
<1> QED BY <1>3 DEF d

\* Another operation, or another connection: what is under way is not the editor's own.
LEMMA QueuesDisowned ==
  ASSUME QueuesHold, UNCHANGED Co!server
  PROVE  Co!Disown(toServer) \in Seq(Asked') /\ Co!Disown(toPanel) \in Seq(Answered')
BY DisownRequest, DisownResponse, SeqDisowned DEF QueuesHold

\* A new operation takes the others from the editor and keeps what they say.
LEMMA Begun ==
  ASSUME QueuesHold, UNCHANGED Co!server, UNCHANGED identity, Co!TypeOK,
         NEW type \in Co!Mutation \cup {"plan"}, NEW entity \in Co!Catalogue \cup {None},
         NEW id \in Nat, NEW base \in Nat, NEW target \in Co!Catalogue \cup {None},
         Co!Begin(type, entity, id, base, target), base <= revision,
         type = "replace" /\ base = revision => bound[identity] = target,
         type \in Co!Mutation => ~loading'
  PROVE  QueuesHold'
<1> DEFINE a == Co!Asks(identity, type, entity, id, base, target)
<1>1. a \in Co!Request BY DEF Co!Asks, Co!Request, Co!TypeOK
<1>2. a \in Asked' BY <1>1 DEF Co!Asks, Asked, Co!server
<1> HIDE DEF a
<1>3. toServer' = Append(Co!Disown(toServer), a) BY DEF Co!Begin, a
<1>4. toServer' \in Seq(Asked')
  BY <1>2, <1>3, QueuesDisowned
<1> QED BY <1>4, QueuesDisowned DEF QueuesHold, Co!Begin

\* Where nothing is sent, the messages stand as they stood.
LEMMA AskedStands ==
  ASSUME Co!TypeOK, UNCHANGED identity, loading' => loading,
         UNCHANGED Co!server \/ revision' = revision + 1
  PROVE  \A m \in Asked : m \in Asked'
BY DEF Asked, Co!Request, Co!TypeOK, Co!server

LEMMA StandingStay ==
  ASSUME Co!TypeOK, UNCHANGED Co!server \/ revision' = revision + 1
  PROVE  \A p \in Standing : p \in Standing'
BY DEF Standing, Co!Plan, Co!TypeOK, Co!server

LEMMA AnsweredStands ==
  ASSUME Co!TypeOK, UNCHANGED identity, loading' => loading,
         UNCHANGED Co!server \/ revision' = revision + 1
  PROVE  \A m \in Answered : m \in Answered'
<1> SUFFICES ASSUME NEW m \in Answered PROVE m \in Answered'
  OBVIOUS
<1>1. m.type \in {"done", "refreshed", "followed"} => m.revision <= revision'
  BY ResponseFields DEF Answered, Co!TypeOK, Co!server
<1> QED BY <1>1, StandingStay DEF Answered

LEMMA QueuesStand ==
  ASSUME QueuesHold, Co!TypeOK, UNCHANGED <<identity, Co!socket>>, loading' => loading,
         UNCHANGED Co!server \/ revision' = revision + 1
  PROVE  QueuesHold'
BY AskedStands, AnsweredStands, SeqInto DEF QueuesHold, Co!socket

\* A commit gives one capability another target, and perhaps another id.
LEMMA Bound ==
  ASSUME Co!TypeOK, NEW i \in Identities, NEW e \in Co!Catalogue \cup {None}, Co!BindTo(i, e)
  PROVE  bound' \in Co!Bindings /\ ids' \in Co!Ids /\ revision' = revision + 1 /\ revision < MaxRevision
BY DEF Co!BindTo, Co!TypeOK, Co!Bindings, Co!Ids

\* The server's steps: an answer to the first request.
LEMMA ServeStep == ASSUME Co!ConnectionAssumption, ConnectionInv, Co!Serve PROVE ConnectionInv'
<1> DEFINE m == Head(toServer)
<1>1. m \in Asked /\ m \in Co!Request /\ Tail(toServer) \in Seq(Asked)
  BY TailHolds DEF Co!Serve, ConnectionInv, QueuesHold, Asked
<1>2. \/ UNCHANGED Co!server
      \/ revision' = revision + 1 /\ bound' \in Co!Bindings /\ ids' \in Co!Ids /\ revision < MaxRevision
  <2>1. CASE Co!ServePlan(m) BY <2>1 DEF Co!ServePlan
  <2>2. CASE Co!ServeMutation(m)
    BY <1>1, <2>2, Bound DEF Co!ServeMutation, Co!Request, ConnectionInv
  <2>3. CASE Co!ServeRefresh(m) BY <2>3 DEF Co!ServeRefresh
  <2> QED BY <2>1, <2>2, <2>3 DEF Co!Serve
<1>3. /\ m.identity \in Identities /\ m.own \in BOOLEAN /\ (m.own => m.identity = identity)
      /\ m.type \in Co!Mutation => m.id \in Nat /\ (m.own => ~loading)
  BY <1>1 DEF Co!Request, Asked
<1>4. UNCHANGED <<identity, loading, editing, selected, plan, Co!data, Co!editor>>
  BY DEF Co!Serve, Co!editor, Co!picker
<1>5. PICK a \in Answered' : toPanel' = Append(toPanel, a)
  <2>1. CASE Co!ServePlan(m)
    <3> DEFINE p == [identity |-> m.identity, target |-> bound[m.identity],
                     revision |-> revision, candidates |-> Co!CandidatesFor(m.identity)]
               x == [type |-> "plan", own |-> m.own, identity |-> m.identity, plan |-> p]
               y == [type |-> "refused", own |-> m.own, identity |-> m.identity, of |-> "plan"]
    <3>1. p \in Co!Plan /\ p \in Standing' /\ p.identity = m.identity
      BY <2>1, <1>3
         DEF Co!ServePlan, Co!server, Co!Plan, Standing, Co!CandidatesFor, ConnectionInv,
             Co!TypeOK, Co!Bindings
    <3>2. toPanel' = Append(toPanel, x) \/ toPanel' = Append(toPanel, y)
      BY <2>1 DEF Co!ServePlan, Co!Answer
    <3> HIDE DEF p
    <3>3. x \in Co!Response /\ y \in Co!Response
      BY <1>3, <3>1 DEF Co!Response
    <3>4. x \in Answered' /\ y \in Answered'
      BY <1>3, <1>4, <3>1, <3>3 DEF Answered
    <3> QED BY <3>2, <3>4
  <2>2. CASE Co!ServeMutation(m)
    <3> DEFINE x == [type |-> "done", own |-> m.own, identity |-> m.identity, of |-> m.type,
                     id |-> m.id, revision |-> revision']
               y == [type |-> "refused", own |-> m.own, identity |-> m.identity, of |-> m.type]
    <3>1. toPanel' = Append(toPanel, x) \/ toPanel' = Append(toPanel, y)
      BY <2>2 DEF Co!ServeMutation, Co!Answer
    <3>2. revision' \in Nat /\ m.type \in Co!Mutation
      BY <1>2, <2>2 DEF ConnectionInv, Co!TypeOK, Co!server, Co!ServeMutation
    <3>3. x \in Co!Response /\ y \in Co!Response
      BY <1>3, <3>2 DEF Co!Response
    <3>4. x \in Answered' /\ y \in Answered'
      BY <1>3, <1>4, <3>2, <3>3 DEF Answered
    <3> QED BY <3>1, <3>4
  <2>3. CASE Co!ServeRefresh(m)
    <3>1. PICK ok \in BOOLEAN :
            toPanel' = Append(toPanel, [type |-> "refreshed", own |-> m.own, ok |-> ok,
                       identity |-> m.identity, status |-> bound, ids |-> ids,
                       revision |-> revision])
      BY <2>3 DEF Co!ServeRefresh, Co!Answer
    <3> DEFINE x == [type |-> "refreshed", own |-> m.own, ok |-> ok,
                     identity |-> m.identity, status |-> bound, ids |-> ids,
                     revision |-> revision]
    <3>2. x \in Co!Response
      BY <1>3 DEF Co!Response, ConnectionInv, Co!TypeOK
    <3>3. x \in Answered'
      BY <1>3, <1>4, <2>3, <3>2 DEF Answered, Co!ServeRefresh, Co!server, ConnectionInv,
                                    Co!TypeOK
    <3> QED BY <3>1, <3>3
  <2> QED BY <2>1, <2>2, <2>3 DEF Co!Serve
<1>6. QueuesHold'
  <2>1. Tail(toServer) \in Seq(Asked')
    BY <1>1, <1>2, <1>4, AskedStands, SeqInto DEF ConnectionInv
  <2>2. toPanel \in Seq(Answered')
    BY <1>2, <1>4, AnsweredStands, SeqInto DEF ConnectionInv, QueuesHold
  <2> QED BY <1>5, <2>1, <2>2 DEF QueuesHold, Co!Serve
<1>7. Co!TypeOK' /\ Co!PickerOfIdentity'
  BY <1>2, <1>4 DEF ConnectionInv, Co!TypeOK, Co!PickerOfIdentity, Co!editor, Co!picker,
                    Co!data, Co!server,
                    Co!ConnectionAssumption
<1> QED BY <1>2, <1>4, <1>6, <1>7, StandingStay DEF ConnectionInv

LEMMA OtherStep ==
  ASSUME Co!ConnectionAssumption, ConnectionInv, Co!OtherCommit \/ Co!Follow PROVE ConnectionInv'
<1>1. CASE Co!OtherCommit
  <2>1. /\ bound' \in Co!Bindings /\ ids' \in Co!Ids
        /\ revision' = revision + 1 /\ revision' \in 0..MaxRevision
    BY <1>1, Bound DEF Co!OtherCommit, ConnectionInv, Co!TypeOK, Co!ConnectionAssumption
  <2>2. QueuesHold'
    BY <1>1, <2>1, QueuesStand DEF Co!OtherCommit, ConnectionInv, Co!editor, Co!picker
  <2>3. Co!TypeOK' /\ Co!PickerOfIdentity' /\ plan' = plan
    BY <1>1, <2>1 DEF Co!OtherCommit, ConnectionInv, Co!TypeOK, Co!PickerOfIdentity, Co!editor,
                      Co!picker, Co!data
  <2> QED BY <2>1, <2>2, <2>3, StandingStay DEF ConnectionInv
<1>2. CASE Co!Follow
  <2> DEFINE x == [type |-> "followed", own |-> FALSE, status |-> bound, ids |-> ids,
                   revision |-> revision]
  <2>1. x \in Co!Response
    BY DEF Co!Response, ConnectionInv, Co!TypeOK
  <2>2. x \in Answered'
    BY <1>2, <2>1 DEF Answered, Co!Follow, Co!server, ConnectionInv, Co!TypeOK
  <2>3. toPanel' = Append(toPanel, x) /\ toServer' = toServer /\ UNCHANGED <<Co!server, identity, loading>>
    BY <1>2 DEF Co!Follow, Co!Answer, Co!editor, Co!picker
  <2>4. toPanel \in Seq(Answered') /\ toServer \in Seq(Asked')
    BY <2>3, AnsweredStands, AskedStands, SeqInto DEF ConnectionInv, QueuesHold
  <2>5. QueuesHold'
    BY <2>2, <2>3, <2>4 DEF QueuesHold
  <2> QED BY <1>2, <2>5 DEF Co!Follow, ConnectionInv, Co!TypeOK, Co!PickerOfIdentity, Standing,
                            Co!editor,
                            Co!picker, Co!data, Co!server
<1> QED BY <1>1, <1>2

\* The user's steps.
LEMMA UserStep ==
  ASSUME Co!ConnectionAssumption, ConnectionInv,
         \/ \E i \in Identities : Co!ChangeIdentity(i)
         \/ Co!BeginEdit \/ Co!CancelEdit \/ (\E e \in Co!Catalogue : Co!Select(e))
         \/ Co!ChangeSelection \/ Co!Review \/ Co!SaveReplacement \/ Co!SaveUnplanned \/ Co!SaveNew
         \/ (\E yes \in BOOLEAN : Co!AskDisconnect(yes))
         \/ Co!Disconnect
  PROVE  ConnectionInv'
<1> USE DEF ConnectionInv
<1>0. revision \in Nat /\ basis \in Nat /\ basis <= revision
  BY DEF Co!TypeOK
<1>1. ASSUME NEW i \in Identities, Co!ChangeIdentity(i) PROVE ConnectionInv'
  <2>1. QueuesHold'
    BY <1>1, QueuesDisowned DEF Co!ChangeIdentity, QueuesHold
  <2>2. Co!TypeOK' BY <1>1 DEF Co!ChangeIdentity, Co!Reset, Co!TypeOK, Co!server, Co!data
  <2> QED BY <1>1, <2>1, <2>2 DEF Co!ChangeIdentity, Co!Reset, Co!PickerOfIdentity
<1>2. CASE Co!BeginEdit
  <2>1. QueuesHold'
    <3>1. CASE Co!ReplacementMode
      BY <1>0, <1>2, <3>1, Begun DEF Co!BeginEdit, Co!Mutation
    <3>2. CASE ~Co!ReplacementMode
      BY <1>2, <3>2, QueuesStand DEF Co!BeginEdit
    <3> QED BY <3>1, <3>2
  <2> QED BY <1>2, <2>1 DEF Co!BeginEdit, Co!TypeOK, Co!PickerOfIdentity, Standing, Co!server,
                            Co!data
<1>3. CASE Co!CancelEdit
  <2>1. QueuesHold' BY <1>3, QueuesStand DEF Co!CancelEdit
  <2> QED BY <1>3, <2>1 DEF Co!CancelEdit, Co!TypeOK, Co!PickerOfIdentity, Co!server, Co!data
<1>4. ASSUME NEW e \in Co!Catalogue, Co!Select(e) PROVE ConnectionInv'
  <2>1. QueuesHold' BY <1>4, QueuesStand DEF Co!Select
  <2> QED BY <1>4, <2>1
          DEF Co!Select, Co!Picking, Co!TypeOK, Co!PickerOfIdentity, Standing, Co!server, Co!data
<1>5. CASE Co!ChangeSelection \/ Co!Review \/ \E yes \in BOOLEAN : Co!AskDisconnect(yes)
  <2>1. UNCHANGED <<Co!server, Co!socket, Co!data, identity, editing, selected, plan, loading, saving, error,
                    success, disconnected>>
    BY <1>5 DEF Co!ChangeSelection, Co!Review, Co!AskDisconnect, Co!picker
  <2>2. /\ confirmDisconnect' \in BOOLEAN /\ confirmReplacement' \in BOOLEAN
        /\ mode' \in {"search", "selected"}
    BY <1>5 DEF Co!ChangeSelection, Co!Review, Co!AskDisconnect, Co!picker, Co!TypeOK
  <2>3. QueuesHold' BY <2>1, QueuesStand
  <2> QED BY <2>1, <2>2, <2>3
          DEF Co!TypeOK, Co!PickerOfIdentity, Standing, Co!server, Co!data
<1>6. CASE Co!SaveReplacement
  <2>1. /\ plan.target \in Co!Catalogue \cup {None} /\ plan.revision \in Nat
        /\ plan.revision <= revision /\ selected \in Co!Catalogue \cup {None}
        /\ plan.revision = revision => bound[identity] = plan.target
    BY <1>6 DEF Co!SaveReplacement, Co!TypeOK, Co!Plan, Standing, Co!PickerOfIdentity
  <2>2. QueuesHold'
    BY <1>6, <2>1, Begun DEF Co!SaveReplacement, Co!Commit, Co!AtReview, Co!Picking, Co!picker,
                             Co!Mutation
  <2> QED BY <1>6, <2>2
          DEF Co!SaveReplacement, Co!Commit, Co!TypeOK, Co!PickerOfIdentity, Standing,
              Co!server, Co!data, Co!picker
<1>7. CASE Co!SaveUnplanned
  <2>1. QueuesHold'
    BY <1>7, QueuesDisowned DEF Co!SaveUnplanned, QueuesHold
  <2> QED BY <1>7, <2>1
          DEF Co!SaveUnplanned, Co!TypeOK, Co!PickerOfIdentity, Standing, Co!server, Co!data,
              Co!picker
<1>8. CASE Co!SaveNew
  <2>1. selected \in Co!Catalogue \cup {None} BY DEF Co!TypeOK
  <2>2. QueuesHold'
    BY <1>0, <1>8, <2>1, Begun DEF Co!SaveNew, Co!Commit, Co!Picking, Co!picker, Co!Mutation
  <2> QED BY <1>8, <2>2
          DEF Co!SaveNew, Co!Commit, Co!TypeOK, Co!PickerOfIdentity, Standing, Co!server,
              Co!data, Co!picker
<1>9. CASE Co!Disconnect
  <2>1. statusIds[identity] \in Nat /\ status[identity] \in Co!Catalogue \cup {None}
    BY DEF Co!TypeOK, Co!Ids, Co!Bindings
  <2>2. ~loading' BY <1>9 DEF Co!Disconnect, Co!picker, Co!PickerOfIdentity
  <2>3. QueuesHold'
    BY <1>0, <1>9, <2>1, <2>2, Begun DEF Co!Disconnect, Co!Commit, Co!Mutation
  <2> QED BY <1>9, <2>3
          DEF Co!Disconnect, Co!Commit, Co!TypeOK, Co!PickerOfIdentity, Standing, Co!server,
              Co!data, Co!picker
<1> QED BY <1>1, <1>2, <1>3, <1>4, <1>5, <1>6, <1>7, <1>8, <1>9

\* The editor takes an answer.
LEMMA AnswerStep == ASSUME Co!ConnectionAssumption, ConnectionInv, Co!Receive PROVE ConnectionInv'
<1> USE DEF ConnectionInv
<1> DEFINE m == Head(toPanel)
<1>1. m \in Answered /\ m \in Co!Response /\ Tail(toPanel) \in Seq(Answered) /\ toPanel' = Tail(toPanel)
  BY TailHolds DEF Co!Receive, QueuesHold, Answered
<1>2. UNCHANGED Co!server /\ revision \in Nat /\ basis \in Nat /\ basis <= revision
  BY DEF Co!Receive, Co!TypeOK
<1>q. ASSUME UNCHANGED identity, loading' => loading
      PROVE  toPanel' \in Seq(Answered') /\ toServer \in Seq(Asked')
  BY <1>1, <1>2, <1>q, AskedStands, AnsweredStands, SeqInto DEF QueuesHold
<1>3. CASE Co!ReceivePlan(m)
  <2>1. QueuesHold' BY <1>3, <1>q DEF Co!ReceivePlan, QueuesHold
  <2>2. m.plan \in Co!Plan /\ m.plan \in Standing /\ m.plan.revision \in Nat /\ m.plan.revision <= revision
        /\ m.plan.identity = m.identity
    BY <1>1, <1>3, ResponseFields DEF Co!ReceivePlan, Co!Plan, Answered, Standing
  <2>3. CASE m.own
    <3>1. plan' = m.plan /\ loading' = FALSE BY <1>3, <2>3 DEF Co!ReceivePlan
    <3>2. plan' \in Standing' /\ plan'.identity = identity'
      BY <1>1, <1>2, <1>3, <2>2, <2>3, <3>1 DEF Co!ReceivePlan, Answered, Standing, Co!server
    <3> HIDE DEF m
    <3>5. basis' \in 0..revision' BY <1>2, <1>3, <2>2 DEF Co!ReceivePlan, Co!server
    <3>3. Co!TypeOK' BY <1>2, <1>3, <2>2, <3>1, <3>5 DEF Co!ReceivePlan, Co!TypeOK, Co!server
    <3>4. Co!PickerOfIdentity' BY <1>3, <3>1, <3>2 DEF Co!ReceivePlan, Co!PickerOfIdentity
    <3> QED BY <2>1, <3>2, <3>3, <3>4
  <2>4. CASE ~m.own
    <3> HIDE DEF m
    <3> QED BY <1>2, <1>3, <2>1, <2>2, <2>4 DEF Co!ReceivePlan, Co!TypeOK, Co!PickerOfIdentity,
                                                Standing, Co!server
  <2> QED BY <2>3, <2>4
<1>4. CASE Co!ReceiveDone(m)
  <2>1. /\ m.revision \in Nat /\ m.revision <= revision /\ m.identity \in Identities
        /\ m.id \in Nat /\ (m.own => ~loading /\ m.identity = identity)
    BY <1>1, <1>4, ResponseFields DEF Co!ReceiveDone, Answered
  <2>2. basis' = m.revision /\ UNCHANGED <<status, statusIds, identity, error>>
    BY <1>4 DEF Co!ReceiveDone, Co!Read
  <2>5. basis' \in 0..revision' BY <1>2, <2>1, <2>2 DEF Co!server
  <2>3. CASE ~m.own
    <3>1. QueuesHold' BY <1>4, <1>q, <2>2, <2>3 DEF Co!ReceiveDone, Co!picker, QueuesHold
    <3> HIDE DEF m
    <3>3. UNCHANGED <<Co!picker, success, confirmDisconnect, disconnected>> /\ saving' = FALSE
      BY <1>4, <2>3 DEF Co!ReceiveDone, Co!Released
    <3>2. Co!TypeOK' BY <1>2, <2>2, <2>5, <3>3 DEF Co!TypeOK, Co!server, Co!picker
    <3> QED BY <1>2, <1>4, <2>2, <2>3, <3>1, <3>2
            DEF Co!ReceiveDone, Co!PickerOfIdentity, Standing, Co!server, Co!picker
  <2>4. CASE m.own
    <3> DEFINE a == Co!Asks(m.identity, "refresh", None, 0, basis, None)
    <3> HIDE DEF m
    <3>1. a \in Co!Request
      BY <1>2, <2>1 DEF Co!Asks, Co!Request
    <3>2. a \in Asked'
      BY <1>2, <2>1, <2>2, <2>4, <3>1 DEF Co!Asks, Asked, Co!Mutation, Co!server
    <3>3. toServer' = Append(toServer, a) BY <1>4, <2>4 DEF Co!ReceiveDone
    <3>4. ~loading' BY <1>4, <2>1, <2>4 DEF Co!ReceiveDone, Co!picker
    <3> HIDE DEF a
    <3>5. QueuesHold' BY <1>q, <2>2, <3>2, <3>3, <3>4 DEF QueuesHold
    <3>6. CASE m.of = "delete"
      <4>2. /\ UNCHANGED <<Co!picker, success, saving>> /\ confirmDisconnect' = FALSE
            /\ disconnected' = m.id
        BY <1>4, <2>4, <3>6 DEF Co!ReceiveDone, Co!CommittedId
      <4>1. Co!TypeOK' BY <1>2, <2>1, <2>2, <2>5, <4>2 DEF Co!TypeOK, Co!server, Co!picker
      <4> QED BY <1>2, <1>4, <2>2, <2>4, <3>5, <3>6, <4>1
              DEF Co!ReceiveDone, Co!PickerOfIdentity, Standing, Co!server, Co!picker
    <3>7. CASE m.of # "delete"
      <4>2. /\ UNCHANGED <<mode, loading, confirmDisconnect, disconnected, saving>>
            /\ success' \in BOOLEAN /\ editing' = FALSE /\ selected' = None
            /\ confirmReplacement' = FALSE /\ plan' = None
        BY <1>4, <2>4, <3>7 DEF Co!ReceiveDone, Co!ReplacementMode
      <4>1. Co!TypeOK' BY <1>2, <2>1, <2>2, <2>5, <4>2 DEF Co!TypeOK, Co!server
      <4> QED BY <1>4, <2>1, <2>4, <3>5, <3>7, <4>1 DEF Co!ReceiveDone, Co!PickerOfIdentity
    <3> QED BY <3>6, <3>7
  <2> QED BY <2>3, <2>4
<1>5. CASE Co!ReceiveRefused(m)
  <2>1. UNCHANGED <<Co!data, toServer, identity, editing, selected, mode, confirmReplacement, plan,
                    success, disconnected>> /\ (loading' => loading) /\ loading' \in BOOLEAN
        /\ saving' \in BOOLEAN /\ confirmDisconnect' \in BOOLEAN
        /\ error' \in Identities \cup {None}
    BY <1>1, <1>5, ResponseFields DEF Co!ReceiveRefused, Co!Heard, Co!Released, Co!TypeOK
  <2>2. QueuesHold' BY <1>q, <2>1 DEF QueuesHold
  <2> QED BY <1>2, <2>1, <2>2 DEF Co!TypeOK, Co!PickerOfIdentity, Standing, Co!server, Co!data
<1>6. CASE Co!ReceiveRefreshed(m)
  <2>1. QueuesHold' BY <1>6, <1>q DEF Co!ReceiveRefreshed, Co!picker, QueuesHold
  <2>2. /\ m.status \in Co!Bindings /\ m.ids \in Co!Ids
        /\ m.revision \in Nat /\ m.revision <= revision
        /\ m.identity \in Identities
    BY <1>1, <1>6, ResponseFields DEF Co!ReceiveRefreshed, Answered
  <2> HIDE DEF m
  <2>4. /\ basis' \in 0..revision' /\ status' \in Co!Bindings /\ statusIds' \in Co!Ids
        /\ saving' = FALSE
        /\ error' \in Identities \cup {None}
        /\ UNCHANGED <<identity, Co!picker, success, confirmDisconnect, disconnected>>
    BY <1>2, <1>6, <2>2 DEF Co!ReceiveRefreshed, Co!Read, Co!Show, Co!Released, Co!TypeOK, Co!server,
                            Co!data
  <2>3. Co!TypeOK' BY <1>2, <2>4 DEF Co!TypeOK, Co!server, Co!picker
  <2> QED BY <1>2, <1>6, <2>1, <2>3
          DEF Co!ReceiveRefreshed, Co!PickerOfIdentity, Standing, Co!server, Co!picker
<1>7. CASE Co!ReceiveFollowed(m)
  <2>1. QueuesHold' BY <1>7, <1>q DEF Co!ReceiveFollowed, Co!picker, QueuesHold
  <2>2. /\ m.status \in Co!Bindings /\ m.ids \in Co!Ids
        /\ m.revision \in Nat /\ m.revision <= revision
    BY <1>1, <1>7, ResponseFields DEF Co!ReceiveFollowed, Answered
  <2> HIDE DEF m
  <2> QED BY <1>2, <1>7, <2>1, <2>2
          DEF Co!ReceiveFollowed, Co!Read, Co!Show, Co!TypeOK, Co!PickerOfIdentity, Standing, Co!server,
              Co!picker
<1> QED BY <1>3, <1>4, <1>5, <1>6, <1>7 DEF Co!Receive

LEMMA ConnectionStep ==
  ASSUME Co!ConnectionAssumption, ConnectionInv, [Co!Next]_(Co!vars) PROVE ConnectionInv'
<1>1. CASE Co!Serve BY <1>1, ServeStep
<1>2. CASE Co!OtherCommit \/ Co!Follow BY <1>2, OtherStep
<1>3. CASE Co!Receive BY <1>3, AnswerStep
<1>4. CASE UNCHANGED Co!vars
  BY <1>4, QueuesStand DEF ConnectionInv, Co!TypeOK, Co!PickerOfIdentity, Standing, Co!vars,
                           Co!server,
                           Co!socket, Co!data, Co!editor, Co!picker
<1> QED BY <1>1, <1>2, <1>3, <1>4, UserStep DEF Co!Next

LEMMA ConnectionInit == ASSUME Co!ConnectionAssumption, Co!Init PROVE ConnectionInv
<1>1. QueuesHold BY DEF Co!Init, QueuesHold
<1>2. revision \in 0..MaxRevision /\ basis \in 0..revision
  BY DEF Co!Init, Co!ConnectionAssumption
<1>3. Co!TypeOK BY <1>2 DEF Co!Init, Co!TypeOK, Co!Ids
<1> QED BY <1>1, <1>3 DEF Co!Init, ConnectionInv, Co!PickerOfIdentity

\* The invariant of the connection editor, whatever is connected and whoever commits.
THEOREM ConnectionInvariance == ASSUME Co!ConnectionAssumption PROVE Co!Spec => []ConnectionInv
<1>1. Co!Init => ConnectionInv BY ConnectionInit
<1>2. ConnectionInv /\ [Co!Next]_(Co!vars) => ConnectionInv' BY ConnectionStep
<1> QED BY <1>1, <1>2, PTL DEF Co!Spec

\* No plan or selection made for one connection is left when another is shown, however late
\* an answer is (primary-connection-editor.js, willUpdate and _operation).
THEOREM PickerIsOfIdentity == ASSUME Co!ConnectionAssumption PROVE Co!Spec => []Co!PickerOfIdentity
<1>1. ConnectionInv => Co!PickerOfIdentity BY DEF ConnectionInv
<1> QED BY <1>1, ConnectionInvariance, PTL

\* Disowning takes nothing out of a queue.
LEMMA DisownLen == ASSUME NEW S, NEW q \in Seq(S) PROVE Len(Co!Disown(q)) = Len(q)
<1>1. DOMAIN q = 1..Len(q) /\ Len(q) \in Nat OBVIOUS
<1> QED BY <1>1, LenProperties DEF Co!Disown

\* A replacement is committed only over the target its plan was made for
\* (primary-connection-editor.js, _save).
THEOREM ReplacesReviewedTarget ==
  ASSUME Co!ConnectionAssumption PROVE Co!Spec => Co!ReplacesWhatWasReviewed
<1>1. ASSUME ConnectionInv, [Co!Next]_(Co!vars), Len(toServer') < Len(toServer), bound' # bound
      PROVE  LET m == Head(toServer) IN m.type = "replace" => bound[m.identity] = m.target
  <2>1. CASE Co!Serve
    <3> DEFINE m == Head(toServer)
    <3>1. m \in Asked
      BY <1>1, <2>1, TailHolds DEF Co!Serve, ConnectionInv, QueuesHold
    <3>2. Co!ServeMutation(m)
      BY <1>1, <2>1 DEF Co!Serve, Co!ServePlan, Co!ServeRefresh, Co!server
    <3>3. m.revision = revision
      BY <1>1, <3>2 DEF Co!ServeMutation, Co!Committable, Co!server
    <3> QED BY <3>1, <3>3 DEF Asked
  <2>2. CASE Co!OtherCommit
    BY <1>1, <2>2, TailHolds DEF Co!OtherCommit, Co!socket, ConnectionInv, QueuesHold
  <2>3. bound' = bound \/ Co!Serve \/ Co!OtherCommit
    BY <1>1 DEF Co!Next, Co!Follow, Co!Receive, Co!ChangeIdentity, Co!BeginEdit, Co!CancelEdit,
                Co!Select,
                Co!ChangeSelection, Co!Review, Co!SaveReplacement, Co!SaveUnplanned, Co!SaveNew,
                Co!AskDisconnect,
                Co!Disconnect, Co!vars, Co!server
  <2> QED BY <1>1, <2>1, <2>2, <2>3
<1> QED BY <1>1, ConnectionInvariance, PTL DEF Co!Spec, Co!ReplacesWhatWasReviewed

\* A refused save that its user has left behind shows no error to another connection
\* (primary-connection-editor.js, _save).
THEOREM RefusalsStayHome == ASSUME Co!ConnectionAssumption PROVE Co!Spec => Co!RefusalStaysHome
<1>1. ASSUME ConnectionInv, [Co!Next]_(Co!vars), Len(toPanel') < Len(toPanel),
             Head(toPanel).type = "refused", error' # error
      PROVE  error' = identity
  <2>1. CASE Co!Receive
    <3> DEFINE m == Head(toPanel)
    <3>1. m \in Answered /\ Co!ReceiveRefused(m)
      BY <1>1, <2>1, TailHolds
         DEF Co!Receive, Co!ReceivePlan, Co!ReceiveDone, Co!ReceiveRefreshed,
             Co!ReceiveFollowed, ConnectionInv,
             QueuesHold
    <3> QED BY <1>1, <3>1 DEF Co!ReceiveRefused, Co!Heard, Answered
  <2>2. Len(toPanel) \in Nat /\ Len(Co!Disown(toPanel)) = Len(toPanel)
        /\ \A a : Len(Append(toPanel, a)) = Len(toPanel) + 1
    <3>1. toPanel \in Seq(Answered) BY <1>1 DEF ConnectionInv, QueuesHold
    <3> QED BY <3>1, DisownLen
  <2>3. \/ toPanel' = toPanel \/ toPanel' = Co!Disown(toPanel) \/ Co!Receive
        \/ \E a : toPanel' = Append(toPanel, a)
    <3>1. Co!Serve => \E a : toPanel' = Append(toPanel, a)
      BY DEF Co!Serve, Co!ServePlan, Co!ServeMutation, Co!ServeRefresh, Co!Answer
    <3>2. Co!Follow => \E a : toPanel' = Append(toPanel, a)
      BY DEF Co!Follow, Co!Answer
    <3> QED BY <1>1, <3>1, <3>2
            DEF Co!Next, Co!OtherCommit, Co!ChangeIdentity, Co!BeginEdit, Co!CancelEdit,
                Co!Select,
                Co!ChangeSelection, Co!Review, Co!SaveReplacement, Co!SaveUnplanned, Co!SaveNew,
                Co!AskDisconnect,
                Co!Disconnect, Co!vars, Co!socket, Co!Commit, Co!Begin
  <2> QED BY <1>1, <2>1, <2>2, <2>3
<1> QED BY <1>1, ConnectionInvariance, PTL DEF Co!Spec, Co!RefusalStaysHome
=============================================================================

--------------------------- MODULE LifecycleProofs ----------------------------
(***************************************************************************)
(* What holds of the config entry for any changes, administrators and      *)
(* number of starts; and of the lights it runs.                            *)
(***************************************************************************)
EXTENDS MCRuntime, TLAPS

\* Every step keeps the shapes of the state.
LEMMA TypeStep ==
  ASSUME TypeOK, [Next]_vars PROVE TypeOK'
<1> USE LifecycleAssumption DEF TypeOK, Registries, Registry, Unreadable, Missing, vars,
      process, setup, manager, repair
<1>1. CASE Start
  <2>1. starts' \in 0..MaxStarts /\ up' \in BOOLEAN
    BY <1>1 DEF Start
  <2>2. entry' = "setup" /\ step' = "read" /\ existed' \in BOOLEAN /\ readWell' = FALSE
    BY <1>1 DEF Start, Begin
  <2> QED BY <1>1, <2>1, <2>2 DEF Start, Begin
<1>2. CASE Stop BY <1>2 DEF Stop
<1>3. CASE Damage BY <1>3 DEF Damage
<1>4. CASE Read
  <2>1. CASE ReadCorrupt BY <1>4, <2>1 DEF Read, ReadCorrupt, Fail, Recorded
  <2>2. CASE ReadRegistry
    <3>1. data' \in SUBSET (Changes \cup Admins \cup {Identity})
      BY <2>2 DEF ReadRegistry
    <3>2. step' \in {"ready", "save"} BY <2>2 DEF ReadRegistry
    <3> QED BY <1>4, <2>2, <3>1, <3>2 DEF Read, ReadRegistry
  <2>3. CASE ReadNewer BY <1>4, <2>3 DEF Read, ReadNewer, Fail, Recorded
  <2>4. CASE ReadNothing
    <3>1. /\ data' \in Registries /\ step' \in {None, "ready"}
          /\ entry' \in {entry, "error"} /\ recovery' \in BOOLEAN /\ issue' \in BOOLEAN
      BY <2>4 DEF ReadNothing, Fail, Recorded
    <3> QED BY <1>4, <2>4, <3>1 DEF Read, ReadNothing
  <2> QED BY <1>4, <2>1, <2>2, <2>3, <2>4 DEF Read
<1>5. CASE Canonicalize
  <2>1. file' = file \/ file' = Registry(data)
    BY <1>5 DEF Canonicalize
  <2>2. /\ step' \in {"ready", None} /\ entry' \in {entry, "error"}
        /\ recovery' \in BOOLEAN /\ issue' \in BOOLEAN
    BY <1>5 DEF Canonicalize, Fail, Recorded
  <2> QED BY <1>5, <2>1, <2>2 DEF Canonicalize
<1>6. CASE ClearRecovery \/ Loaded BY <1>6 DEF ClearRecovery, Loaded, Cleared
<1>7. CASE ReloadByHand BY <1>7 DEF ReloadByHand, Reload, Begin
<1>8. CASE Commit BY <1>8 DEF Commit
<1>9. CASE Saved BY <1>9 DEF Saved
<1>10. CASE OldSaved BY <1>10 DEF OldSaved
<1>11. ASSUME NEW a \in Admins, RestoreRecovery(a) PROVE TypeOK'
  BY <1>11 DEF RestoreRecovery
<1>12. ASSUME NEW a \in Admins, RestoreSaved(a) PROVE TypeOK'
  <2>1. file' = file \/ file' = Registry({a})
    BY <1>12 DEF RestoreSaved
  <2>2. restore' \in [Admins -> {None, "saving", "saved", "reloading"}]
    BY <1>12 DEF RestoreSaved
  <2> QED BY <1>12, <2>1, <2>2 DEF RestoreSaved
<1>13. ASSUME NEW a \in Admins, RestoreReload(a) PROVE TypeOK'
  BY <1>13 DEF RestoreReload, Reload, Begin
<1>14. ASSUME NEW a \in Admins, RestoreAnswered(a) PROVE TypeOK'
  BY <1>14 DEF RestoreAnswered
<1>15. CASE UNCHANGED vars BY <1>15
<1> QED BY <1>1, <1>2, <1>3, <1>4, <1>5, <1>6, <1>7, <1>8, <1>9, <1>10, <1>11, <1>12,
          <1>13, <1>14, <1>15 DEF Next

\* The state of the config entry has the shapes the code gives it.
THEOREM TypeCorrect == Spec => []TypeOK
<1>1. Init => TypeOK
  <2> SUFFICES ASSUME Init PROVE TypeOK
    OBVIOUS
  <2>1. file \in [kind : {"missing", "registry"}, changes : {{}, {Identity}}]
    BY DEF Init, Registry, Unreadable, Missing
  <2>2. {} \in Registries /\ {Identity} \in Registries
    BY DEF Registries
  <2>3. restore \in [Admins -> {None, "saving", "saved", "reloading"}]
    BY DEF Init
  <2>4. starts \in 0..MaxStarts /\ {saving, oldSaving} \subseteq Registries \cup {None}
    BY LifecycleAssumption DEF Init
  <2>5. /\ up \in BOOLEAN /\ recovery \in BOOLEAN /\ issue \in BOOLEAN
        /\ existed \in BOOLEAN /\ readWell \in BOOLEAN /\ overtaken \in BOOLEAN
    BY DEF Init
  <2>6. entry = "unloaded" /\ step = None /\ live = {} /\ data = {}
    BY DEF Init
  <2> QED BY <2>1, <2>2, <2>3, <2>4, <2>5, <2>6 DEF TypeOK
<1> QED BY <1>1, TypeStep, PTL DEF Spec

\* When a set-up has ended, the repair issue and the recovery status tell whether it could read a
\* registry (async_setup_entry, recovery.py): only a set-up writes them, and the end of the
\* process, which forgets the status, takes the entry's state along.
THEOREM RepairAgrees == Spec => []RepairTells
<1> DEFINE Told == /\ RepairTells
                   /\ step # None => entry = "setup"
                   /\ step \in {"read", "save", "ready"} => ~readWell
                   /\ step = "platforms" => readWell /\ ~issue /\ ~recovery
<1>1. Init => Told BY LifecycleAssumption DEF Init, RepairTells
<1>2. TypeOK /\ Told /\ [Next]_vars => Told'
  <2> SUFFICES ASSUME TypeOK, Told, [Next]_vars PROVE Told'
    OBVIOUS
  <2>1. CASE UNCHANGED <<entry, step, readWell, issue, recovery>>
    BY <2>1 DEF RepairTells
  <2>2. CASE Begin
    BY <2>2, LifecycleAssumption DEF RepairTells, Begin
  <2>3. CASE Stop
    BY <2>3, LifecycleAssumption DEF RepairTells, Stop
  <2>4. CASE Read
    <3>1. step = "read" /\ readWell' = readWell
      BY <2>4 DEF Read
    <3>2. CASE Fail
      BY <3>1, <3>2, LifecycleAssumption DEF RepairTells, Fail, Recorded
    <3>3. CASE UNCHANGED <<entry, repair>> /\ step' \in {"save", "ready"}
      BY <3>1, <3>3, LifecycleAssumption DEF RepairTells, repair
    <3> QED BY <2>4, <3>2, <3>3 DEF Read, ReadCorrupt, ReadRegistry, ReadNewer, ReadNothing
  <2>5. CASE Canonicalize
    <3>1. step = "save" /\ readWell' = readWell
      BY <2>5 DEF Canonicalize
    <3>2. CASE Fail
      BY <3>1, <3>2, LifecycleAssumption DEF RepairTells, Fail, Recorded
    <3>3. CASE UNCHANGED <<entry, repair>> /\ step' = "ready"
      BY <3>1, <3>3, LifecycleAssumption DEF RepairTells, repair
    <3> QED BY <2>5, <3>2, <3>3 DEF Canonicalize
  <2>6. CASE ClearRecovery
    BY <2>6, LifecycleAssumption DEF RepairTells, ClearRecovery, Cleared
  <2>7. CASE Loaded
    BY <2>7, LifecycleAssumption DEF RepairTells, Loaded, repair
  <2> QED
    BY <2>1, <2>2, <2>3, <2>4, <2>5, <2>6, <2>7
       DEF Next, vars, process, setup, manager, repair, Start, Damage, ReloadByHand, Reload, Commit,
           Saved, OldSaved, RestoreRecovery, RestoreSaved, RestoreReload, RestoreAnswered
<1> QED BY <1>1, <1>2, TypeCorrect, PTL DEF Spec

-----------------------------------------------------------------------------
(***************************************************************************)
(* A file in a newer schema comes from outside a running process, whose    *)
(* end takes every save that is under way along.  No manager is loaded     *)
(* from it, so that none is saving while it is there.                      *)
(***************************************************************************)

NothingSaving == saving = None /\ oldSaving = None

Quiet == entry # "loaded" /\ step \notin {"save", "ready", "platforms"} /\ NothingSaving

\* The inductive invariant: without a process, and over a newer file, nothing is at work
\* that would write.
QuietInv ==
  /\ ~up => Quiet /\ step = None
  /\ file.kind = "newer" => Quiet

\* Each step keeps it.
LEMMA QuietStep ==
  ASSUME QuietInv, [Next]_vars PROVE QuietInv'
<1> USE LifecycleAssumption DEF QuietInv, Quiet, NothingSaving, vars, process, setup,
      manager, repair, Registry, Unreadable, Missing
<1>1. CASE Start BY <1>1 DEF Start, Begin
<1>2. CASE Stop BY <1>2 DEF Stop
<1>3. CASE Damage BY <1>3 DEF Damage
<1>4. CASE Read
  BY <1>4 DEF Read, ReadCorrupt, ReadRegistry, Readable, ReadNewer, ReadNothing, Fail
<1>5. CASE Canonicalize BY <1>5 DEF Canonicalize, Fail
<1>6. CASE ClearRecovery \/ Loaded BY <1>6 DEF ClearRecovery, Loaded
<1>7. CASE ReloadByHand BY <1>7 DEF ReloadByHand, Reload, Begin
<1>8. CASE Commit BY <1>8 DEF Commit
<1>9. CASE Saved BY <1>9 DEF Saved
<1>10. CASE OldSaved BY <1>10 DEF OldSaved
<1>11. ASSUME NEW a \in Admins, RestoreRecovery(a) PROVE QuietInv'
  BY <1>11 DEF RestoreRecovery
<1>12. ASSUME NEW a \in Admins, RestoreSaved(a) PROVE QuietInv'
  BY <1>12 DEF RestoreSaved
<1>13. ASSUME NEW a \in Admins, RestoreReload(a) PROVE QuietInv'
  BY <1>13 DEF RestoreReload, Reload, Begin
<1>14. ASSUME NEW a \in Admins, RestoreAnswered(a) PROVE QuietInv'
  BY <1>14 DEF RestoreAnswered
<1>15. CASE UNCHANGED vars BY <1>15
<1> QED BY <1>1, <1>2, <1>3, <1>4, <1>5, <1>6, <1>7, <1>8, <1>9, <1>10, <1>11, <1>12,
          <1>13, <1>14, <1>15 DEF Next

\* A file in a schema that is not understood is replaced by a restore and by nothing else
\* (store.py async_load): not by a set-up, nor by a commit that outlives its manager.
THEOREM NewerFileKept == Spec => NewerKept
<1>1. Init => QuietInv
  BY LifecycleAssumption DEF Init, QuietInv, Quiet, NothingSaving, Registry, Missing, Unreadable
<1>2. QuietInv /\ [Next]_vars
        => [file.kind = "newer" /\ file' # file => \E a \in Admins : RestoreSaved(a)]_vars
  <2> SUFFICES ASSUME QuietInv, Next, file.kind = "newer", file' # file
               PROVE \E a \in Admins : RestoreSaved(a)
    BY DEF vars
  <2> QED
    BY DEF QuietInv, Quiet, NothingSaving, Next, process, setup, manager, repair, Start,
           Stop, Damage, Begin, Read, ReadCorrupt, ReadRegistry, Readable, ReadNewer, ReadNothing,
           Canonicalize, ClearRecovery, Loaded, ReloadByHand, Reload, Commit, Saved, OldSaved, RestoreRecovery,
           RestoreSaved, RestoreReload, RestoreAnswered
<1> QED BY <1>1, <1>2, QuietStep, PTL DEF Spec, NewerKept

-----------------------------------------------------------------------------
(***************************************************************************)
(* What a set-up is about to load, and what is loaded, is what the file    *)
(* says, while no save of another manager is under way and no restore has  *)
(* written what it is still to load.                                       *)
(***************************************************************************)

NoneSaved == \A a \in Admins : restore[a] # "saved"

Reflects(changes) ==
  file \in {Registry(changes)} \cup (IF changes = {} THEN {Missing} ELSE {})

\* The inductive invariant, next to the types and QuietInv, by which nothing is loaded while
\* the file may be damaged.
StoredInv ==
  /\ file.kind = "missing" => file = Missing
  /\ step # None => entry = "setup"
  /\ ~overtaken => oldSaving = None
  /\ ~overtaken /\ NoneSaved /\ step = "ready" => Reflects(data)
  /\ ~overtaken /\ NoneSaved /\ (entry = "loaded" \/ step = "platforms") => Reflects(live)

\* Each step keeps it.
LEMMA StoredStep ==
  ASSUME TypeOK, QuietInv, StoredInv, [Next]_vars PROVE StoredInv'
<1> USE LifecycleAssumption DEF StoredInv, Reflects, NoneSaved, vars, process, setup,
      manager, repair, Registry, Unreadable, Missing
<1>0. /\ restore \in [Admins -> {None, "saving", "saved", "reloading"}]
      /\ file \in [kind : {"missing", "corrupt", "newer", "registry"}, changes : Registries]
  BY DEF TypeOK
<1>1. CASE Start BY <1>1 DEF Start, Begin, QuietInv, Quiet
<1>2. CASE Stop BY <1>2 DEF Stop
<1>3. CASE Damage BY <1>3 DEF Damage, QuietInv, Quiet
<1>4. CASE Read
  <2>1. CASE ReadCorrupt BY <1>4, <2>1 DEF Read, ReadCorrupt, Fail
  <2>2. CASE ReadRegistry BY <1>0, <1>4, <2>2 DEF Read, ReadRegistry, Readable
  <2>3. CASE ReadNewer BY <1>4, <2>3 DEF Read, ReadNewer, Fail
  <2>4. CASE ReadNothing BY <1>4, <2>4 DEF Read, ReadNothing, Fail
  <2> QED BY <1>4, <2>1, <2>2, <2>3, <2>4 DEF Read
<1>5. CASE Canonicalize BY <1>5 DEF Canonicalize, Fail
<1>6. CASE ClearRecovery \/ Loaded BY <1>6 DEF ClearRecovery, Loaded
<1>7. CASE ReloadByHand BY <1>7 DEF ReloadByHand, Reload, Begin
<1>8. CASE Commit BY <1>8 DEF Commit
<1>9. CASE Saved BY <1>9 DEF Saved
<1>10. CASE OldSaved BY <1>10 DEF OldSaved
<1>11. ASSUME NEW a \in Admins, RestoreRecovery(a) PROVE StoredInv'
  <2>1. NoneSaved' => NoneSaved BY <1>0, <1>11 DEF RestoreRecovery
  <2> QED BY <1>11, <2>1 DEF RestoreRecovery
<1>12. ASSUME NEW a \in Admins, RestoreSaved(a) PROVE StoredInv'
  <2>1. CASE file' = Registry({a}) /\ restore' = [restore EXCEPT ![a] = "saved"]
    <3>1. ~NoneSaved' BY <1>0, <2>1
    <3> QED BY <1>12, <2>1, <3>1 DEF RestoreSaved
  <2>2. CASE restore' = [restore EXCEPT ![a] = None] /\ UNCHANGED file
    <3>1. NoneSaved' => NoneSaved BY <1>0, <1>12, <2>2 DEF RestoreSaved
    <3> QED BY <1>12, <2>2, <3>1 DEF RestoreSaved
  <2> QED BY <1>12, <2>1, <2>2 DEF RestoreSaved
<1>13. ASSUME NEW a \in Admins, RestoreReload(a) PROVE StoredInv'
  BY <1>13 DEF RestoreReload, Reload, Begin
<1>14. ASSUME NEW a \in Admins, RestoreAnswered(a) PROVE StoredInv'
  <2>1. NoneSaved' => NoneSaved BY <1>0, <1>14 DEF RestoreAnswered
  <2> QED BY <1>14, <2>1 DEF RestoreAnswered
<1>15. CASE UNCHANGED vars BY <1>15
<1> QED BY <1>1, <1>2, <1>3, <1>4, <1>5, <1>6, <1>7, <1>8, <1>9, <1>10, <1>11, <1>12,
          <1>13, <1>14, <1>15 DEF Next

\* When the loaded manager saves nothing, the file is what it shows, so that the next start
\* finds every acknowledged change (manager.py, store.py, backup_websocket.py): for any
\* number of administrators who restore at once, and wherever processes end.
THEOREM AcknowledgedIsStored == Spec => []LiveIsStored
<1>1. Init => QuietInv /\ StoredInv
  BY LifecycleAssumption
     DEF Init, QuietInv, Quiet, NothingSaving, StoredInv, Registry, Missing, Unreadable
<1>2. StoredInv => LiveIsStored
  BY DEF StoredInv, NoneSaved, Reflects, LiveIsStored
<1> QED BY <1>1, <1>2, TypeCorrect, QuietStep, StoredStep, PTL DEF Spec

-----------------------------------------------------------------------------
(***************************************************************************)
(* What runs while the entry is loaded, module LightRuntime: the logical   *)
(* lights, the index of binding targets and the repair issues.             *)
(*                                                                         *)
(* Nothing is proved here of one of the three alone.  Lights follow        *)
(* renames because the index names every bound entry, the index stays true *)
(* because two entries never have one name, and a light has an entry       *)
(* exactly when Home Assistant has added it; what a reconciliation is to   *)
(* leave is promised only while no other waits for the lock.               *)
(***************************************************************************)

Shown == lights \ adding

\* What the registry wants of a light.
Wanted(a) == IF a \in represented THEN room[a] ELSE None

\* A light Home Assistant has is one with an entry, and the entry has the light's metadata.
EntriesOK ==
  /\ \A a \in Light : entity[a] # None <=> a \in Shown
  /\ \A a \in Light : metadata[a] = IF a \in Shown THEN asset[a] ELSE None

\* The index has the names of the bound entries, but for new ones.
IndexOK ==
  /\ Lights!IndexTrue
  /\ \A t \in Lights!Bound \cap Lights!Entry : t \in silent \/ index[t] = entity[t]

ReportsOK == Lights!RemovalReported /\ Lights!AreasReported

\* The reconciliation that nothing waits for will leave what the registry wants.
ReconcileOK ==
  /\ ~Lights!Idle => lights \ removing \subseteq Lights!Eligible(snapshot)
  /\ waiting = 0 =>
       IF Lights!Idle THEN lights = represented /\ \A a \in lights : asset[a] = room[a]
       ELSE \A a \in Light : snapshot[a] = Wanted(a)

FollowOK ==
  Lights!Idle /\ waiting = 0 =>
    \A a \in Shown : resolved[a] = bound[a]
                       /\ (bound[a] \in silent \/ followed[a] = Lights!Resolves(bound[a]))

LightInv ==
  /\ Lights!LightRuntimeAssumption
  /\ Lights!TypeOK /\ EntriesOK /\ IndexOK /\ ReportsOK /\ ReconcileOK /\ FollowOK

LightCommit ==
  \E a \in Light : \/ Lights!SetRepresentation(a) \/ Lights!RemoveRepresentation(a)
                   \/ Lights!RemoveBinding(a)
                   \/ \E r \in Room : Lights!UpdateAsset(a, r)
                   \/ \E t \in Lights!Target : Lights!SetBinding(a, t)

-----------------------------------------------------------------------------
\* Whatever is committed, registry and signals come in one step.
LEMMA CommitShape ==
  ASSUME LightInv, LightCommit
  PROVE  /\ Lights!Committed
         /\ represented' \subseteq Light /\ bound' \in [Light -> Lights!Target \cup {None}]
         /\ room' \in [Light -> Room]
<1> USE DEF LightInv, Lights!TypeOK
<1>1. ASSUME NEW a \in Light, Lights!SetRepresentation(a) \/ Lights!RemoveRepresentation(a)
      PROVE  Lights!Committed /\ represented' \subseteq Light /\ UNCHANGED <<bound, room>>
  BY <1>1 DEF Lights!SetRepresentation, Lights!RemoveRepresentation
<1>2. ASSUME NEW a \in Light, Lights!RemoveBinding(a)
      PROVE  /\ Lights!Committed /\ UNCHANGED <<represented, room>>
             /\ bound' \in [Light -> Lights!Target \cup {None}]
  BY <1>2 DEF Lights!RemoveBinding
<1>3. ASSUME NEW a \in Light, NEW r \in Room, Lights!UpdateAsset(a, r)
      PROVE  Lights!Committed /\ UNCHANGED <<represented, bound>> /\ room' \in [Light -> Room]
  BY <1>3 DEF Lights!UpdateAsset
<1>4. ASSUME NEW a \in Light, NEW t \in Lights!Target, Lights!SetBinding(a, t)
      PROVE  /\ Lights!Committed /\ UNCHANGED <<represented, room>>
             /\ bound' \in [Light -> Lights!Target \cup {None}]
  BY <1>4 DEF Lights!SetBinding
<1> QED BY <1>1, <1>2, <1>3, <1>4 DEF LightCommit

\* After a commit all listeners but the reconciliation, which waits, know of it.
LEMMA CommitInv == ASSUME LightInv, LightCommit PROVE LightInv'
<1> USE DEF LightInv
<1>1. /\ waiting < MaxWaiting /\ waiting' = waiting + 1
      /\ UNCHANGED <<entity, known, rooms, Lights!runtime, removing, snapshot>>
      /\ Lights!RefreshTargets /\ Lights!RefreshRepairs /\ silent' = {}
  BY CommitShape DEF Lights!Committed
<1>2. Lights!TypeOK'
  <2>1. waiting' \in 0..MaxWaiting
    BY <1>1 DEF Lights!TypeOK, Lights!LightRuntimeAssumption
  <2>2. index' \in [Lights!Entry -> Name \cup {None}]
    BY <1>1 DEF Lights!TypeOK, Lights!RefreshTargets
  <2>3. {staleBindings', staleAreas'} \subseteq BOOLEAN
    BY <1>1 DEF Lights!RefreshRepairs, Lights!BindingsBroken, Lights!AreasMissing
  <2> QED BY <1>1, <2>1, <2>2, <2>3, CommitShape DEF Lights!TypeOK, Lights!Idle, Lights!runtime
<1>3. EntriesOK'
  BY <1>1 DEF EntriesOK, Shown, Lights!runtime
<1>4. IndexOK'
  BY <1>1 DEF IndexOK, Lights!IndexTrue, Lights!RefreshTargets
<1>5. ReportsOK'
  BY <1>1 DEF ReportsOK, Lights!RefreshRepairs, Lights!RemovalReported, Lights!AreasReported,
              Lights!BindingsBroken
<1>6. ReconcileOK' /\ FollowOK'
  <2>1. waiting' # 0
    BY <1>1 DEF Lights!TypeOK
  <2> QED BY <1>1, <2>1 DEF ReconcileOK, FollowOK, Lights!Idle, Lights!Eligible, Lights!runtime
<1> QED BY <1>2, <1>3, <1>4, <1>5, <1>6 DEF Lights!LightRuntimeAssumption

-----------------------------------------------------------------------------
\* The entry that had a name is the only one an event about it affects, and is
\* affected if it is bound and not new.
LEMMA AffectedOne ==
  ASSUME LightInv, NEW e \in Lights!Entry, entity[e] # None
  PROVE  /\ Lights!Affected(entity[e]) \subseteq {e}
         /\ e \in Lights!Bound => e \in silent \/ e \in Lights!Affected(entity[e])
         /\ e \notin Lights!Affected(entity[e]) => index[e] = None
BY DEF LightInv, Lights!TypeOK, IndexOK, Lights!IndexTrue, Lights!Affected

\* An entry gets another name, or loses the one it had.
Renamed(e, n) ==
  /\ n \in Name \cup {None} /\ (n = None => e \in Device) /\ (n # None => Lights!Free(n))
  /\ entity' = [entity EXCEPT ![e] = n]
  /\ UNCHANGED <<Lights!outside, silent>>
  /\ Lights!FollowName(entity[e])

\* What a subscription is told it follows.
LEMMA ResolvesType ==
  ASSUME LightInv, NEW t \in Lights!Target \cup {None}
  PROVE  Lights!Resolves(t) \in Name \cup Plain \cup {None}
BY DEF LightInv, Lights!TypeOK, Lights!Resolves, Lights!Target, Lights!LightRuntimeAssumption

\* The index, the issues and the lights follow a bound entry to its new name, and notice
\* when it has none (binding_events.py, _handle_rename and _handle_remove).
LEMMA RenamedInv ==
  ASSUME LightInv, NEW e \in Lights!Entry, entity[e] # None, NEW n, Renamed(e, n)
  PROVE  LightInv'
<1> USE DEF LightInv
<1> DEFINE A == Lights!Affected(entity[e])
<1>1. /\ UNCHANGED <<Lights!registry, known, rooms, lights, adding, asset, metadata,
                    Lights!reconciling, silent>>
      /\ n \in Name \cup {None} /\ (n = None => e \in Device) /\ (n # None => Lights!Free(n))
      /\ entity' = [entity EXCEPT ![e] = n]
      /\ index' = [x \in Lights!Entry |-> IF x \in A THEN entity'[x] ELSE index[x]]
      /\ IF A = {} THEN UNCHANGED Lights!issues ELSE Lights!RefreshRepairs
      /\ Lights!Resubscribe(Lights!Listening(A))
  BY DEF Renamed, Lights!FollowName, Lights!outside
<1>2. /\ entity' \in [Lights!Entry -> Name \cup {None}] /\ entity'[e] = n
      /\ \A x \in Lights!Entry : x # e => entity'[x] = entity[x]
      /\ \A d, x \in Lights!Entry : entity'[d] # None /\ entity'[d] = entity'[x] => d = x
  BY <1>1 DEF Lights!TypeOK, Lights!Free
<1>3. /\ A \subseteq {e} /\ (e \in Lights!Bound => e \in silent \/ e \in A)
      /\ (e \notin A => index[e] = None)
  BY AffectedOne
<1> HIDE DEF A
<1>4. Lights!Bound' = Lights!Bound /\ UNCHANGED <<represented, bound, room, waiting, removing,
                                                  snapshot>>
  BY <1>1 DEF Lights!Bound, Lights!registry, Lights!reconciling
<1>5. Lights!TypeOK'
  <2>1. index' \in [Lights!Entry -> Name \cup {None}]
    BY <1>1, <1>2 DEF Lights!TypeOK
  <2>2. {staleBindings', staleAreas'} \subseteq BOOLEAN
    BY <1>1 DEF Lights!TypeOK, Lights!issues, Lights!RefreshRepairs, Lights!BindingsBroken,
                Lights!AreasMissing
  <2>3. /\ resolved' \in [Light -> Lights!Target \cup {None}]
        /\ followed' \in [Light -> Name \cup Plain \cup {None}]
    <3>1. \A a \in Light : Lights!Resolves(bound[a])' \in Name \cup Plain \cup {None}
      BY <1>2, <1>4 DEF Lights!TypeOK, Lights!Resolves, Lights!Target, Lights!LightRuntimeAssumption
    <3> QED BY <1>1, <1>4, <3>1 DEF Lights!Resubscribe, Lights!TypeOK
  <2> QED BY <1>1, <1>2, <1>4, <2>1, <2>2, <2>3 DEF Lights!TypeOK, Lights!Idle
<1>6. EntriesOK'
  <2>1. \A a \in Light : entity'[a] # None <=> entity[a] # None
    BY <1>1, <1>2 DEF Lights!TypeOK, Lights!Entry, Lights!LightRuntimeAssumption
  <2> QED BY <1>1, <2>1 DEF EntriesOK, Shown
<1>7. IndexOK'
  BY <1>1, <1>2, <1>3, <1>4 DEF IndexOK, Lights!IndexTrue
<1>8. ReportsOK'
  <2>1. CASE A # {}
    BY <1>1, <2>1 DEF ReportsOK, Lights!RefreshRepairs, Lights!RemovalReported,
                      Lights!AreasReported, Lights!BindingsBroken
  <2>2. CASE A = {}
    <3>1. \A t \in Lights!Bound \cap Lights!Entry : t \notin silent => entity'[t] = entity[t]
      BY <1>2, <1>3, <2>2
    <3> QED BY <1>1, <1>4, <2>2, <3>1
            DEF ReportsOK, Lights!RemovalReported, Lights!AreasReported, Lights!AreasMissing,
                Lights!issues, Lights!Broken, Lights!Target,
                Lights!LightRuntimeAssumption
  <2> QED BY <2>1, <2>2
<1>9. ReconcileOK'
  BY <1>1, <1>4 DEF ReconcileOK, Lights!Idle, Wanted
<1>10. FollowOK'
  <2> SUFFICES ASSUME Lights!Idle, waiting = 0, NEW a \in Shown
               PROVE  resolved'[a] = bound'[a]
                        /\ (bound'[a] \in silent' \/ followed'[a] = Lights!Resolves(bound[a])')
    BY <1>1, <1>4 DEF FollowOK, Lights!Idle, Shown
  <2>1. /\ a \in Light /\ resolved[a] = bound[a]
        /\ (bound[a] \in silent \/ followed[a] = Lights!Resolves(bound[a]))
    BY DEF FollowOK, Lights!TypeOK, Shown
  <2>2. resolved'[a] = bound'[a]
    BY <1>1, <1>4, <2>1 DEF Lights!Resubscribe
  <2>3. CASE a \in Lights!Listening(A)
    BY <1>1, <2>1, <2>2, <2>3 DEF Lights!Resubscribe
  <2>4. CASE a \notin Lights!Listening(A)
    <3>1. bound[a] \notin A
      BY <2>1, <2>4 DEF Lights!Listening, Shown
    <3>2. followed'[a] = followed[a]
      BY <1>1, <2>1, <2>4 DEF Lights!Resubscribe
    <3>3. bound[a] = e => e \in silent
      BY <1>3, <2>1, <3>1 DEF Lights!Bound, Lights!LightRuntimeAssumption, Lights!Target
    <3>4. bound[a] # e => Lights!Resolves(bound[a])' = Lights!Resolves(bound[a])
      BY <1>2, <1>4 DEF Lights!Resolves
    <3> QED BY <1>1, <1>4, <2>1, <2>2, <3>2, <3>3, <3>4
  <2> QED BY <2>3, <2>4
<1> QED BY <1>5, <1>6, <1>7, <1>8, <1>9, <1>10 DEF Lights!LightRuntimeAssumption

\* An entry that is back has no name in the index, and the new ones are told apart.
LEMMA CreatedInv ==
  ASSUME LightInv, NEW d \in Device, NEW n \in Name, Lights!CreateEntry(d, n)
  PROVE  LightInv'
<1> USE DEF LightInv
<1>1. /\ UNCHANGED <<represented, bound, room, known, rooms, lights, adding, asset, metadata,
                     waiting, removing, snapshot, index, staleBindings, staleAreas,
                     resolved, followed>>
      /\ entity[d] = None /\ Lights!Free(n) /\ silent' = silent \cup {d} /\ d \in Lights!Entry
      /\ d \notin Light
      /\ entity' = [entity EXCEPT ![d] = n]
  BY DEF Lights!CreateEntry, Lights!outside, Lights!registry, Lights!reconciling, Lights!issues,
         Lights!Entry, Lights!LightRuntimeAssumption
<1>2. /\ entity' \in [Lights!Entry -> Name \cup {None}] /\ entity'[d] = n /\ n # None
      /\ \A x \in Lights!Entry : x # d => entity'[x] = entity[x]
      /\ \A e, x \in Lights!Entry : entity'[e] # None /\ entity'[e] = entity'[x] => e = x
  BY <1>1 DEF Lights!TypeOK, Lights!Free, Lights!LightRuntimeAssumption
<1>3. Lights!TypeOK'
  BY <1>1, <1>2 DEF Lights!TypeOK, Lights!Idle
<1>4. EntriesOK'
  <2>1. \A a \in Light : entity'[a] = entity[a]
    BY <1>1, <1>2 DEF Lights!Entry
  <2> QED BY <1>1, <2>1 DEF EntriesOK, Shown
<1>5. IndexOK'
  BY <1>1, <1>2 DEF IndexOK, Lights!IndexTrue, Lights!Bound
<1>6. ReportsOK'
  BY <1>1, <1>2 DEF ReportsOK, Lights!RemovalReported, Lights!AreasReported, Lights!AreasMissing,
                    Lights!Broken, Lights!Bound
<1>7. ReconcileOK'
  BY <1>1 DEF ReconcileOK, Lights!Idle, Wanted, Lights!Eligible
<1>8. FollowOK'
  <2>1. \A t : t # d => Lights!Resolves(t)' = Lights!Resolves(t)
    BY <1>2 DEF Lights!Resolves
  <2> QED BY <1>1, <2>1 DEF FollowOK, Lights!Idle, Shown
<1> QED BY <1>3, <1>4, <1>5, <1>6, <1>7, <1>8 DEF Lights!LightRuntimeAssumption

\* Only lights that follow a plain entity resolve their bindings anew.
LEMMA PlainInv == ASSUME LightInv, NEW p \in Plain, Lights!PlainChanges(p) PROVE LightInv'
<1> USE DEF LightInv
<1>1. /\ UNCHANGED <<represented, bound, room, entity, rooms, index, staleBindings, staleAreas,
                     lights, adding, asset, followed, metadata, waiting, removing, snapshot,
                     silent>>
      /\ known' \subseteq Plain
      /\ \A a \in Light : resolved'[a] = bound[a] \/ resolved'[a] = resolved[a]
      /\ resolved' \in [Light -> Lights!Target \cup {None}]
  BY DEF Lights!PlainChanges, Lights!TypeOK, Lights!registry, Lights!reconciling, Lights!issues
<1>2. Lights!TypeOK' BY <1>1 DEF Lights!TypeOK, Lights!Idle
<1>3. EntriesOK' BY <1>1 DEF EntriesOK, Shown
<1>4. IndexOK' BY <1>1 DEF IndexOK, Lights!IndexTrue, Lights!Bound
<1>5. ReportsOK'
  BY <1>1 DEF ReportsOK, Lights!RemovalReported, Lights!AreasReported, Lights!AreasMissing,
              Lights!Broken, Lights!Bound,
              Lights!Entry, Lights!LightRuntimeAssumption
<1>6. ReconcileOK' BY <1>1 DEF ReconcileOK, Lights!Idle, Wanted, Lights!Eligible
<1>7. FollowOK'
  BY <1>1 DEF FollowOK, Lights!Idle, Shown, Lights!Resolves, Lights!TypeOK
<1> QED BY <1>2, <1>3, <1>4, <1>5, <1>6, <1>7 DEF Lights!LightRuntimeAssumption

\* An area comes or goes, and only the issue about areas is concerned.
LEMMA RoomInv == ASSUME LightInv, NEW r \in Room, Lights!RoomChanges(r) PROVE LightInv'
<1> USE DEF LightInv
<1>1. /\ UNCHANGED <<represented, bound, room, entity, known, index, Lights!runtime, waiting,
                     removing, snapshot, silent>>
      /\ rooms' \subseteq Room /\ Lights!RefreshRepairs
  BY DEF Lights!RoomChanges, Lights!TypeOK, Lights!registry, Lights!reconciling
<1>2. Lights!TypeOK'
  <2>1. {staleBindings', staleAreas'} \subseteq BOOLEAN
    BY <1>1 DEF Lights!RefreshRepairs, Lights!BindingsBroken, Lights!AreasMissing
  <2> QED BY <1>1, <2>1 DEF Lights!TypeOK, Lights!Idle, Lights!runtime
<1>3. EntriesOK' BY <1>1 DEF EntriesOK, Shown, Lights!runtime
<1>4. IndexOK' BY <1>1 DEF IndexOK, Lights!IndexTrue, Lights!Bound
<1>5. ReportsOK'
  BY <1>1 DEF ReportsOK, Lights!RefreshRepairs, Lights!RemovalReported, Lights!AreasReported,
              Lights!BindingsBroken
<1>6. ReconcileOK' BY <1>1 DEF ReconcileOK, Lights!Idle, Wanted, Lights!Eligible, Lights!runtime
<1>7. FollowOK' BY <1>1 DEF FollowOK, Lights!Idle, Shown, Lights!Resolves, Lights!runtime
<1> QED BY <1>2, <1>3, <1>4, <1>5, <1>6, <1>7 DEF Lights!LightRuntimeAssumption

\* A light that resolves its binding anew keeps what it follows.
LEMMA ResolveInv == ASSUME LightInv, NEW a \in Light, Lights!Resolve(a) PROVE LightInv'
<1> USE DEF LightInv
<1>1. /\ UNCHANGED <<represented, bound, room, entity, known, rooms, index, staleBindings,
                     staleAreas, lights, adding, asset, followed, metadata, waiting, removing,
                     snapshot, silent>>
      /\ resolved' = [resolved EXCEPT ![a] = bound[a]]
  BY DEF Lights!Resolve, Lights!outside, Lights!registry, Lights!reconciling, Lights!issues
<1>2. Lights!TypeOK' BY <1>1 DEF Lights!TypeOK, Lights!Idle
<1>3. EntriesOK' BY <1>1 DEF EntriesOK, Shown
<1>4. IndexOK' BY <1>1 DEF IndexOK, Lights!IndexTrue, Lights!Bound
<1>5. ReportsOK' BY <1>1 DEF ReportsOK, Lights!RemovalReported, Lights!AreasReported,
                             Lights!AreasMissing, Lights!Broken, Lights!Bound
<1>6. ReconcileOK' BY <1>1 DEF ReconcileOK, Lights!Idle, Wanted, Lights!Eligible
<1>7. FollowOK' BY <1>1 DEF FollowOK, Lights!Idle, Shown, Lights!Resolves, Lights!TypeOK
<1> QED BY <1>2, <1>3, <1>4, <1>5, <1>6, <1>7 DEF Lights!LightRuntimeAssumption

-----------------------------------------------------------------------------
\* A reconciliation settles on a snapshot that keeps every light there is.
LEMMA SettleInv ==
  ASSUME LightInv, NEW s \in [Light -> Room \cup {None}], lights \subseteq Lights!Eligible(s),
         Lights!Settle(s, lights), waiting' \in 0..MaxWaiting,
         waiting' = 0 => \A a \in Light : s[a] = Wanted(a),
         UNCHANGED <<Lights!registry, entity, known, rooms, index, Lights!issues, silent>>,
         snapshot' \in [Light -> Room \cup {None}]
  PROVE  LightInv'
<1> USE DEF LightInv
<1> DEFINE new == Lights!Eligible(s) \ lights
<1>1. /\ UNCHANGED <<represented, bound, room, entity, known, rooms, index, staleBindings,
                     staleAreas, silent>>
      /\ asset' = [a \in Light |-> IF a \in Lights!Eligible(s) THEN s[a] ELSE asset[a]]
      /\ metadata' = [a \in Light |-> IF a \in lights /\ entity[a] # None
                                      THEN s[a] ELSE metadata[a]]
      /\ Lights!Resubscribe(lights)
      /\ lights' = Lights!Eligible(s) /\ adding' = adding \cup new /\ removing' = None
  <2>1. lights \cap Lights!Eligible(s) = lights /\ lights \cup new = Lights!Eligible(s)
    OBVIOUS
  <2> QED BY <2>1 DEF Lights!Settle, Lights!registry, Lights!issues
<1>2. /\ new \subseteq Light /\ Lights!Eligible(s) \subseteq Light
      /\ adding \subseteq lights /\ lights \subseteq Light
      /\ Lights!Idle' /\ lights' \ adding' = Shown
  BY <1>1 DEF Lights!TypeOK, Lights!Eligible, Lights!Idle, Shown
<1>3. Lights!TypeOK'
  <2>1. /\ resolved' \in [Light -> Lights!Target \cup {None}]
        /\ followed' \in [Light -> Name \cup Plain \cup {None}]
    <3>1. \A a \in Light : Lights!Resolves(bound[a])' \in Name \cup Plain \cup {None}
      BY <1>1 DEF Lights!TypeOK, Lights!Resolves, Lights!Target, Lights!LightRuntimeAssumption
    <3> QED BY <1>1, <3>1 DEF Lights!Resubscribe, Lights!TypeOK
  <2> QED BY <1>1, <1>2, <2>1 DEF Lights!TypeOK, Lights!Eligible
<1>4. EntriesOK'
  BY <1>1, <1>2 DEF EntriesOK, Shown
<1>5. IndexOK' BY <1>1 DEF IndexOK, Lights!IndexTrue, Lights!Bound
<1>6. ReportsOK' BY <1>1 DEF ReportsOK, Lights!RemovalReported, Lights!AreasReported,
                             Lights!AreasMissing, Lights!Broken, Lights!Bound
<1>7. ReconcileOK'
  <2> SUFFICES ASSUME waiting' = 0
               PROVE  lights' = represented /\ \A a \in lights' : asset'[a] = room[a]
    BY <1>1, <1>2 DEF ReconcileOK
  <2>1. \A a \in Light : s[a] = Wanted(a)
    OBVIOUS
  <2> QED BY <1>1, <2>1 DEF Lights!Eligible, Wanted, Lights!TypeOK, Lights!LightRuntimeAssumption
<1>8. FollowOK'
  BY <1>1, <1>2 DEF FollowOK, Lights!Resubscribe, Shown
<1> QED BY <1>3, <1>4, <1>5, <1>6, <1>7, <1>8 DEF Lights!LightRuntimeAssumption

\* The task that gets the lock settles at once, or takes a snapshot and removes first.
LEMMA BeginInv == ASSUME LightInv, Lights!Begin PROVE LightInv'
<1> USE DEF LightInv
<1> DEFINE eligible == [a \in Light |-> IF a \in represented THEN room[a] ELSE None]
<1>1. /\ Lights!Idle /\ waiting > 0 /\ waiting' = waiting - 1
      /\ UNCHANGED <<Lights!registry, entity, known, rooms, index, Lights!issues, silent>>
  BY DEF Lights!Begin
<1>2. /\ eligible \in [Light -> Room \cup {None}] /\ \A a \in Light : eligible[a] = Wanted(a)
      /\ Lights!Eligible(eligible) = represented /\ waiting' \in 0..MaxWaiting
  BY <1>1 DEF Lights!TypeOK, Wanted, Lights!Eligible, Lights!LightRuntimeAssumption
<1>3. CASE lights \subseteq represented
  <2>1. Lights!Settle(eligible, lights) /\ UNCHANGED snapshot
    BY <1>3 DEF Lights!Begin
  <2>2. snapshot' \in [Light -> Room \cup {None}]
    BY <2>1 DEF Lights!TypeOK
  <2> HIDE DEF eligible
  <2> QED BY <1>1, <1>2, <1>3, <2>1, <2>2, SettleInv
<1>4. CASE ~(lights \subseteq represented)
  <2>1. snapshot' = eligible /\ removing' = lights \ represented /\ UNCHANGED Lights!runtime
    BY <1>4 DEF Lights!Begin
  <2> HIDE DEF eligible
  <2>2. ~Lights!Idle'
    BY <2>1 DEF Lights!Idle, Lights!TypeOK, Lights!LightRuntimeAssumption
  <2>3. Lights!TypeOK'
    BY <1>1, <1>2, <2>1 DEF Lights!TypeOK, Lights!runtime, Lights!registry, Lights!issues
  <2>4. EntriesOK' BY <1>1, <2>1 DEF EntriesOK, Shown, Lights!runtime
  <2>5. IndexOK' BY <1>1 DEF IndexOK, Lights!IndexTrue, Lights!Bound, Lights!registry
  <2>6. ReportsOK'
    BY <1>1 DEF ReportsOK, Lights!RemovalReported, Lights!AreasReported, Lights!AreasMissing,
                Lights!Broken, Lights!Bound, Lights!registry, Lights!issues
  <2>7. ReconcileOK'
    BY <1>1, <1>2, <2>1, <2>2 DEF ReconcileOK, Wanted, Lights!runtime, Lights!registry
  <2>8. FollowOK' BY <2>2 DEF FollowOK
  <2> QED BY <2>3, <2>4, <2>5, <2>6, <2>7, <2>8 DEF Lights!LightRuntimeAssumption
<1> QED BY <1>3, <1>4

\* The snapshot is what the registry wants, or another reconciliation waits.
LEMMA FinishInv == ASSUME LightInv, Lights!Finish PROVE LightInv'
<1> USE DEF LightInv
<1>1. /\ ~Lights!Idle /\ removing = {} /\ Lights!Settle(snapshot, lights)
      /\ snapshot' = Lights!NoSnapshot
      /\ waiting' = waiting
      /\ UNCHANGED <<Lights!registry, entity, known, rooms, index, Lights!issues, silent>>
  BY DEF Lights!Finish
<1>2. /\ snapshot \in [Light -> Room \cup {None}] /\ lights \subseteq Lights!Eligible(snapshot)
      /\ waiting' \in 0..MaxWaiting /\ (waiting' = 0 => \A a \in Light : snapshot[a] = Wanted(a))
      /\ snapshot' \in [Light -> Room \cup {None}]
  BY <1>1 DEF Lights!TypeOK, ReconcileOK, Lights!NoSnapshot
<1> QED BY <1>1, <1>2, SettleInv

\* A light goes with its entry, and those that followed it hear of it.
LEMMA RemoveInv == ASSUME LightInv, NEW a \in Light, Lights!RemoveLight(a) PROVE LightInv'
<1> USE DEF LightInv
<1> DEFINE A == Lights!Affected(entity[a])
<1>1. /\ ~Lights!Idle /\ a \in removing /\ removing \subseteq lights /\ a \in Lights!Entry
      /\ UNCHANGED <<represented, bound, room, known, rooms, waiting, snapshot, silent>>
      /\ entity' = [entity EXCEPT ![a] = None]
      /\ metadata' = [metadata EXCEPT ![a] = None]
      /\ index' = [e \in Lights!Entry |-> IF e \in A THEN entity'[e] ELSE index[e]]
      /\ IF A = {} THEN UNCHANGED Lights!issues ELSE Lights!RefreshRepairs
      /\ lights' = lights \ {a} /\ adding' = adding \ {a} /\ removing' = removing \ {a}
      /\ asset' = [asset EXCEPT ![a] = None]
  BY DEF Lights!RemoveLight, Lights!registry, Lights!TypeOK, Lights!Entry
<1>2. /\ entity' \in [Lights!Entry -> Name \cup {None}] /\ entity'[a] = None
      /\ \A x \in Lights!Entry : x # a => entity'[x] = entity[x]
      /\ \A d, x \in Lights!Entry : entity'[d] # None /\ entity'[d] = entity'[x] => d = x
  BY <1>1 DEF Lights!TypeOK
<1>3. A \subseteq {a} /\ (entity[a] # None /\ a \in Lights!Bound => a \in silent \/ a \in A)
      /\ (a \notin A => index[a] = None)
  <2>1. CASE entity[a] # None BY <1>1, <2>1, AffectedOne
  <2>2. CASE entity[a] = None BY <1>1, <2>2 DEF Lights!Affected, IndexOK, Lights!IndexTrue
  <2> QED BY <2>1, <2>2
<1>4. ~Lights!Idle'
  BY <1>1 DEF Lights!Idle, Lights!TypeOK, Lights!LightRuntimeAssumption
<1>5. Lights!TypeOK'
  <2>1. index' \in [Lights!Entry -> Name \cup {None}]
    BY <1>1, <1>2 DEF Lights!TypeOK
  <2>2. {staleBindings', staleAreas'} \subseteq BOOLEAN
    BY <1>1 DEF Lights!TypeOK, Lights!issues, Lights!RefreshRepairs, Lights!BindingsBroken,
                Lights!AreasMissing
  <2>3. /\ resolved' \in [Light -> Lights!Target \cup {None}]
        /\ followed' \in [Light -> Name \cup Plain \cup {None}]
    <3>1. \A l \in Light : Lights!Resolves(bound[l])' \in Name \cup Plain \cup {None}
      BY <1>1, <1>2 DEF Lights!TypeOK, Lights!Resolves, Lights!Target, Lights!LightRuntimeAssumption
    <3> QED BY <1>1, <3>1 DEF Lights!RemoveLight, Lights!TypeOK
  <2> QED BY <1>1, <1>2, <2>1, <2>2, <2>3 DEF Lights!TypeOK
<1>6. EntriesOK'
  <2>1. \A l \in Light : l # a => entity'[l] = entity[l]
    BY <1>2 DEF Lights!Entry
  <2> QED BY <1>1, <1>2, <2>1 DEF EntriesOK, Shown, Lights!TypeOK
<1>7. IndexOK'
  BY <1>1, <1>2, <1>3 DEF IndexOK, Lights!IndexTrue, Lights!Bound
<1>8. ReportsOK'
  <2>1. CASE A # {}
    BY <1>1, <2>1 DEF ReportsOK, Lights!RefreshRepairs, Lights!RemovalReported,
                      Lights!AreasReported, Lights!BindingsBroken
  <2>2. CASE A = {}
    <3>1. \A t \in Lights!Bound \cap Lights!Entry : t \notin silent => entity'[t] = entity[t]
      BY <1>2, <1>3, <2>2
    <3> QED BY <1>1, <2>2, <3>1
            DEF ReportsOK, Lights!RemovalReported, Lights!AreasReported, Lights!AreasMissing,
                Lights!issues, Lights!Broken, Lights!Bound,
                Lights!Target, Lights!LightRuntimeAssumption
  <2> QED BY <2>1, <2>2
<1>9. ReconcileOK'
  BY <1>1, <1>4 DEF ReconcileOK, Lights!Idle, Wanted, Lights!Eligible
<1>10. FollowOK' BY <1>4 DEF FollowOK
<1> QED BY <1>5, <1>6, <1>7, <1>8, <1>9, <1>10 DEF Lights!LightRuntimeAssumption

\* A light that Home Assistant adds has the metadata it was handed over with.
LEMMA AddInv == ASSUME LightInv, NEW a \in Light, NEW n \in Name, Lights!Add(a, n) PROVE LightInv'
<1> USE DEF LightInv
<1>1. /\ a \in adding /\ Lights!Free(n) /\ a \in Lights!Entry
      /\ UNCHANGED <<represented, bound, room, known, rooms, index, staleBindings, staleAreas,
                     lights, asset, waiting, removing, snapshot>>
      /\ entity' = [entity EXCEPT ![a] = n]
      /\ metadata' = [metadata EXCEPT ![a] = asset[a]]
      /\ Lights!Resubscribe({a}) /\ adding' = adding \ {a} /\ silent' = silent \cup {a}
  BY DEF Lights!Add, Lights!registry, Lights!issues, Lights!reconciling, Lights!Entry
<1>2. entity[a] = None
  BY <1>1 DEF EntriesOK, Shown
<1>3. /\ entity' \in [Lights!Entry -> Name \cup {None}] /\ entity'[a] = n /\ n # None
      /\ \A x \in Lights!Entry : x # a => entity'[x] = entity[x]
      /\ \A d, x \in Lights!Entry : entity'[d] # None /\ entity'[d] = entity'[x] => d = x
  BY <1>1 DEF Lights!TypeOK, Lights!Free, Lights!LightRuntimeAssumption
<1>4. Lights!TypeOK'
  <2>1. /\ resolved' \in [Light -> Lights!Target \cup {None}]
        /\ followed' \in [Light -> Name \cup Plain \cup {None}]
    <3>1. \A l \in Light : Lights!Resolves(bound[l])' \in Name \cup Plain \cup {None}
      BY <1>1, <1>3 DEF Lights!TypeOK, Lights!Resolves, Lights!Target, Lights!LightRuntimeAssumption
    <3> QED BY <1>1, <3>1 DEF Lights!Resubscribe, Lights!TypeOK
  <2> QED BY <1>1, <1>3, <2>1 DEF Lights!TypeOK, Lights!Idle
<1>5. EntriesOK'
  <2>1. \A l \in Light : l # a => entity'[l] = entity[l]
    BY <1>3 DEF Lights!Entry
  <2> QED BY <1>1, <1>3, <2>1 DEF EntriesOK, Shown, Lights!TypeOK
<1>6. IndexOK' BY <1>1, <1>2, <1>3 DEF IndexOK, Lights!IndexTrue, Lights!Bound
<1>7. ReportsOK'
  BY <1>1, <1>3 DEF ReportsOK, Lights!RemovalReported, Lights!AreasReported, Lights!AreasMissing,
                    Lights!Broken, Lights!Bound
<1>8. ReconcileOK' BY <1>1 DEF ReconcileOK, Lights!Idle, Wanted, Lights!Eligible
<1>9. FollowOK'
  <2> SUFFICES ASSUME Lights!Idle, waiting = 0, NEW l \in Light, l \in Shown'
               PROVE  resolved'[l] = bound[l]
                        /\ (bound[l] \in silent' \/ followed'[l] = Lights!Resolves(bound[l])')
    BY <1>1, <1>4 DEF FollowOK, Lights!Idle, Shown, Lights!TypeOK
  <2>1. CASE l = a BY <1>1, <2>1 DEF Lights!Resubscribe
  <2>2. CASE l # a
    <3>1. /\ l \in Shown /\ resolved'[l] = resolved[l] /\ followed'[l] = followed[l]
      BY <1>1, <2>2 DEF Lights!Resubscribe, Shown
    <3>2. bound[l] # a => Lights!Resolves(bound[l])' = Lights!Resolves(bound[l])
      BY <1>1, <1>3 DEF Lights!Resolves
    <3> QED BY <1>1, <3>1, <3>2 DEF FollowOK
  <2> QED BY <2>1, <2>2
<1> QED BY <1>4, <1>5, <1>6, <1>7, <1>8, <1>9 DEF Lights!LightRuntimeAssumption

-----------------------------------------------------------------------------
\* Each step of the runtime keeps the invariant.
LEMMA LightStep == ASSUME LightInv, [Lights!Next]_(Lights!vars) PROVE LightInv'
<1>1. CASE Lights!Reconcile
  BY <1>1, BeginInv, FinishInv, RemoveInv, AddInv DEF Lights!Reconcile
<1>2. CASE LightCommit BY <1>2, CommitInv
<1>3. ASSUME NEW e \in Lights!Entry, NEW n \in Name, Lights!Rename(e, n) PROVE LightInv'
  <2>1. entity[e] # None /\ Renamed(e, n)
    BY <1>3 DEF Lights!Rename, Renamed, LightInv, Lights!LightRuntimeAssumption
  <2> QED BY <2>1, RenamedInv
<1>4. ASSUME NEW d \in Device, Lights!RemoveEntry(d) PROVE LightInv'
  <2>1. d \in Lights!Entry /\ entity[d] # None /\ Renamed(d, None)
    BY <1>4 DEF Lights!RemoveEntry, Renamed, Lights!Entry
  <2> QED BY <2>1, RenamedInv
<1>5. CASE UNCHANGED Lights!vars
  <2>1. UNCHANGED <<represented, bound, room, entity, known, rooms, index, staleBindings,
                    staleAreas, lights, adding, asset, resolved, followed, metadata, waiting,
                    removing, snapshot, silent>>
    BY <1>5 DEF Lights!vars, Lights!registry, Lights!issues, Lights!runtime, Lights!reconciling
  <2> USE DEF LightInv
  <2>2. Lights!TypeOK' BY <2>1 DEF Lights!TypeOK, Lights!Idle
  <2>3. EntriesOK' BY <2>1 DEF EntriesOK, Shown
  <2>4. IndexOK' BY <2>1 DEF IndexOK, Lights!IndexTrue, Lights!Bound
  <2>5. ReportsOK' BY <2>1 DEF ReportsOK, Lights!RemovalReported, Lights!AreasReported,
                               Lights!AreasMissing, Lights!Broken, Lights!Bound
  <2>6. ReconcileOK' BY <2>1 DEF ReconcileOK, Lights!Idle, Wanted, Lights!Eligible
  <2>7. FollowOK' BY <2>1 DEF FollowOK, Lights!Idle, Shown, Lights!Resolves
  <2> QED BY <2>2, <2>3, <2>4, <2>5, <2>6, <2>7 DEF Lights!LightRuntimeAssumption
<1> QED BY <1>1, <1>2, <1>3, <1>4, <1>5, CreatedInv, PlainInv, RoomInv, ResolveInv
           DEF Lights!Next, LightCommit

\* And it holds when the platform is set up.
LEMMA LightInit == ASSUME Lights!LightRuntimeAssumption, Lights!Init PROVE LightInv
<1>1. Lights!TypeOK
  <2>1. /\ asset = [a \in Light |-> None] /\ resolved = asset /\ followed = asset
        /\ metadata = asset /\ snapshot = asset
    BY DEF Lights!Init
  <2>2. \A d, e \in Lights!Entry : entity[d] # None /\ entity[d] = entity[e] => d = e
    BY DEF Lights!Init, Lights!Entry
  <2>3. /\ represented \subseteq Light /\ bound \in [Light -> Lights!Target \cup {None}]
        /\ room \in [Light -> Room] /\ rooms \subseteq Room /\ known \subseteq Plain
        /\ entity \in [Lights!Entry -> Name \cup {None}]
        /\ index \in [Lights!Entry -> Name \cup {None}]
        /\ {staleBindings, staleAreas} \subseteq BOOLEAN
    BY DEF Lights!Init
  <2> QED BY <2>1, <2>2, <2>3 DEF Lights!Init, Lights!TypeOK, Lights!Idle,
                                  Lights!LightRuntimeAssumption
<1>2. EntriesOK BY DEF Lights!Init, EntriesOK, Shown
<1>3. IndexOK BY DEF Lights!Init, IndexOK, Lights!IndexTrue, Lights!Bound, Lights!Entry,
                     Lights!Target, Lights!LightRuntimeAssumption
<1>4. ReportsOK
  BY DEF Lights!Init, ReportsOK, Lights!RemovalReported, Lights!AreasReported,
         Lights!AreasMissing, Lights!Bound,
         Lights!Entry, Lights!Target,
         Lights!LightRuntimeAssumption
<1>5. ReconcileOK /\ FollowOK BY DEF Lights!Init, ReconcileOK, FollowOK, Shown, Lights!Idle
<1> QED BY <1>1, <1>2, <1>3, <1>4, <1>5 DEF LightInv

\* The inductive invariant of the lights, their index and their repair issues (light.py,
\* binding_events.py, integrity_repairs.py): for any number of lights and commits.
THEOREM LightInvariance == ASSUME Lights!LightRuntimeAssumption PROVE Lights!Spec => []LightInv
<1>1. Lights!Init => LightInv BY LightInit
<1>2. LightInv /\ [Lights!Next]_(Lights!vars) => LightInv' BY LightStep
<1> QED BY <1>1, <1>2, PTL DEF Lights!Spec

\* A behaviour of the run is one of the lights, or leaves them as they are set up.
LEMMA LightPart == PartSpec => []LightInv
<1>1. PartInit => LightInv BY LightInit, RuntimeAssumption DEF PartInit
<1>2. ASSUME LightInv, [PartNext]_PartVars PROVE LightInv'
  <2>1. [Lights!Next]_(Lights!vars)
    BY <1>2 DEF PartNext, PartVars, lightVars, Lights!vars, Lights!registry, Lights!issues,
                Lights!runtime, Lights!reconciling
  <2> QED BY <1>2, <2>1, LightStep
<1> QED BY <1>1, <1>2, PTL DEF PartSpec

\* However commits fall into the awaits of reconciliations, when all have ended there is a
\* light, with its entry and the metadata of its asset, exactly for every representation
\* (light.py, async_reconcile); and it follows the entity its binding resolves to, wherever
\* renames, removals and commits fell (refresh_binding_subscription), entries that were
\* created since the last commit excepted.  At every moment the index names entries as Home
\* Assistant does, an entry that went is reported, and the issue about areas tells of missing
\* ones (binding_events.py, integrity_repairs.py).
THEOREM LightsSettled == PartSpec => []LightsSettle
<1>1. ASSUME LightInv PROVE Lights!LightsAgree
  BY <1>1 DEF LightInv, ReconcileOK, EntriesOK, Lights!LightsAgree, Lights!Settled, Shown,
              Lights!TypeOK
<1>2. ASSUME LightInv PROVE Lights!LightsFollow
  BY <1>2 DEF LightInv, FollowOK, ReconcileOK, Lights!LightsFollow, Lights!Settled, Shown,
              Lights!TypeOK
<1>3. LightInv => LightsSettle
  BY <1>1, <1>2 DEF LightInv, LightsSettle, IndexOK, ReportsOK
<1> QED BY <1>3, LightPart, PTL
=============================================================================

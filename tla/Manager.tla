------------------------------ MODULE Manager -------------------------------
(***************************************************************************)
(* The transactional manager: class BindHomeManager, the mutation lock and *)
(* the store behind it, for one Home Assistant process after another.      *)
(*                                                                         *)
(* asyncio runs one task at a time, so a step here is what a task does     *)
(* between two awaits.  A mutation awaits twice: for the lock, which       *)
(* asyncio grants in arrival order, and for the store, which writes a new  *)
(* file and renames it over the old one in an executor thread.  All that   *)
(* follows the write (live registry, revision, visibility, signal, reply)  *)
(* is one step.                                                            *)
(*                                                                         *)
(* A client reads the registry with its revision and may base a call on    *)
(* it.  It keeps both when the process ends: the panel holds its revision  *)
(* by connection, and the connection outlives restarts and entry reloads,  *)
(* while the next manager counts from 0 again.  A partial asset update is  *)
(* completed with the asset's current fields when it arrives, before it    *)
(* waits for the lock.                                                     *)
(***************************************************************************)
EXTENDS Registry, Integers, Sequences

CONSTANTS
  Client,      \* tasks that call the manager
  Nobody,      \* the lock is free
  NoCall,      \* the client awaits no answer
  NoPatch,     \* the call is a complete command
  NoRevision,  \* the call states no expected revision
  NotRead,     \* the client has read nothing yet
  MaxRevision  \* bound: commits per process

ASSUME ManagerAssumption == Nobody \notin Client /\ NoRevision \notin Nat

VARIABLES
  disk,      \* the registry in the storage file
  up,        \* the config entry is loaded
  live,      \* manager.registry
  revision,  \* manager._revision
  queue,     \* clients waiting for the mutation lock
  holder,    \* the client in the lock, awaiting the store
  staged,    \* its staged registry
  written,   \* its file is in place, the task has not resumed
  call,      \* what each client has asked for and not been answered
  seen       \* what each client last read, and whether from the manager now in charge

vars == <<disk, up, live, revision, queue, holder, staged, written, call, seen>>

Patch == [asset : Asset, named : {"code", "capabilities"}]
Call == [expected : Nat \cup {NoRevision}, patch : Patch \cup {NoPatch}]
Snapshot == [revision : Nat, registry : RegistryType, current : BOOLEAN]

ASSUME CallAssumption == NoCall \notin Call

Init ==
  /\ disk = EmptyRegistry
  /\ up = FALSE
  /\ live = EmptyRegistry
  /\ revision = 0
  /\ queue = <<>>
  /\ holder = Nobody
  /\ staged = EmptyRegistry
  /\ written = FALSE
  /\ call = [c \in Client |-> NoCall]
  /\ seen = [c \in Client |-> NotRead]

-----------------------------------------------------------------------------
(***************************************************************************)
(* Clients.                                                                *)
(***************************************************************************)

Idle(c) == up /\ call[c] = NoCall

Read(c) ==
  /\ Idle(c)
  /\ seen' = [seen EXCEPT ![c] =
                 [revision |-> revision, registry |-> live, current |-> TRUE]]
  /\ UNCHANGED <<disk, up, live, revision, queue, holder, staged, written, call>>

\* A panel bases its calls on what it last read, of whichever manager; other callers may
\* state no revision.
Expected(c) == {NoRevision} \cup (IF seen[c] = NotRead THEN {} ELSE {seen[c].revision})

\* The bound on revision, counting the commits that waiting calls may make.
Room ==
  revision + Len(queue) + (IF holder = Nobody THEN 0 ELSE 1) < MaxRevision

Enqueue(c, patch) ==
  /\ Idle(c)
  /\ Room
  /\ \E e \in Expected(c) : call' = [call EXCEPT ![c] = [expected |-> e, patch |-> patch]]
  /\ queue' = Append(queue, c)
  /\ UNCHANGED <<disk, up, live, revision, holder, staged, written, seen>>

Submit(c) == Enqueue(c, NoPatch)

Named(p, old) ==
  IF p.named = "code" THEN p.asset.capabilities = old.capabilities
                      ELSE p.asset.code = old.code

SubmitPatch(c) ==
  \E existing \in live.assets, p \in Patch :
    p.asset.id = existing.id /\ Named(p, existing) /\ Enqueue(c, p)

-----------------------------------------------------------------------------
(***************************************************************************)
(* The mutation, under the lock.                                           *)
(***************************************************************************)

Turn(c) == up /\ holder = Nobody /\ queue # <<>> /\ Head(queue) = c

\* Mutants: the expected revision is never compared; or update_asset omits to pass it.
FreshAlways(c) == call[c] # NoCall
FreshUnlessPatch(c) == call[c].patch # NoPatch \/ call[c].expected \in {NoRevision, revision}

Fresh(c) == call[c].expected \in {NoRevision, revision}

Accepts(c, s) ==
  \/ call[c].patch = NoPatch /\ Edit(live, s)
  \/ /\ call[c].patch # NoPatch
     /\ \E old \in live.assets :
          CanUpdateAsset(live, old, call[c].patch.asset)
            /\ s = UpdateAsset(live, old, call[c].patch.asset)

\* Mutant: the command edits the live registry and the write follows.
StageInPlace(c) ==
  /\ Turn(c)
  /\ Fresh(c)
  /\ Accepts(c, staged')
  /\ live' = staged'
  /\ holder' = c
  /\ queue' = Tail(queue)
  /\ UNCHANGED <<disk, up, revision, written, call, seen>>

Stage(c) ==
  /\ Turn(c)
  /\ Fresh(c)
  /\ Accepts(c, staged')
  /\ holder' = c
  /\ queue' = Tail(queue)
  /\ UNCHANGED <<disk, up, live, revision, written, call, seen>>

\* Mutant: a refusal leaves the lock and forgets the caller.
RefuseSilently(c) ==
  /\ Turn(c)
  /\ queue' = Tail(queue)
  /\ UNCHANGED <<disk, up, live, revision, holder, staged, written, call, seen>>

\* A conflict, or a command the registry does not accept: nothing is written.
Refuse(c) ==
  /\ Turn(c)
  /\ Fresh(c) /\ call[c].patch # NoPatch =>
       \A old \in live.assets : ~CanUpdateAsset(live, old, call[c].patch.asset)
  /\ queue' = Tail(queue)
  /\ call' = [call EXCEPT ![c] = NoCall]
  /\ UNCHANGED <<disk, up, live, revision, holder, staged, written, seen>>

WriteFile ==
  /\ holder # Nobody /\ ~written
  /\ disk' = staged
  /\ written' = TRUE
  /\ UNCHANGED <<up, live, revision, queue, holder, staged, call, seen>>

Answer(c) ==
  /\ holder' = Nobody
  /\ staged' = EmptyRegistry
  /\ written' = FALSE
  /\ call' = [call EXCEPT ![c] = NoCall]

WriteErrorLate(c) ==
  /\ holder = c
  /\ Answer(c)
  /\ UNCHANGED <<disk, up, live, revision, queue, seen>>

WriteError(c) ==
  /\ holder = c /\ ~written
  /\ Answer(c)
  /\ UNCHANGED <<disk, up, live, revision, queue, seen>>

\* Mutant: the registry is replaced under its old revision.
PublishUnnumbered(c) ==
  /\ holder = c /\ written
  /\ live' = staged
  /\ Answer(c)
  /\ UNCHANGED <<disk, up, revision, queue, seen>>

Publish(c) ==
  /\ holder = c /\ written
  /\ live' = staged
  /\ revision' = revision + 1
  /\ Answer(c)
  /\ UNCHANGED <<disk, up, queue, seen>>

-----------------------------------------------------------------------------
(***************************************************************************)
(* The process.                                                            *)
(***************************************************************************)

Outdated(s) == IF s = NotRead THEN NotRead ELSE [s EXCEPT !.current = FALSE]

Crash ==
  /\ up
  /\ up' = FALSE
  /\ live' = EmptyRegistry
  /\ revision' = 0
  /\ queue' = <<>>
  /\ holder' = Nobody
  /\ staged' = EmptyRegistry
  /\ written' = FALSE
  /\ call' = [c \in Client |-> NoCall]
  /\ seen' = [c \in Client |-> Outdated(seen[c])]
  /\ UNCHANGED disk

\* Setup serves nobody before the load, and its write of enriched targets, is done.
Start ==
  /\ ~up
  /\ up' = TRUE
  /\ \E entry \in [EntityId -> RegistryId \cup {Unregistered}] :
       disk' = Enrich(disk, entry)
  /\ live' = disk'
  /\ revision' = 0
  /\ UNCHANGED <<queue, holder, staged, written, call, seen>>

Serve == WriteFile \/ \E c \in Client : Stage(c) \/ Refuse(c) \/ WriteError(c) \/ Publish(c)

Next ==
  \/ Serve
  \/ \E c \in Client : Read(c) \/ Submit(c) \/ SubmitPatch(c)
  \/ Crash
  \/ Start

Spec == Init /\ [][Next]_vars

\* The event loop and the executor keep running: the lock is granted, writes end.
FairSpec == Spec /\ WF_vars(Serve)

-----------------------------------------------------------------------------
(***************************************************************************)
(* Properties.                                                             *)
(***************************************************************************)

\* The state has the shapes the code gives it.
TypeOK ==
  /\ disk \in RegistryType /\ live \in RegistryType /\ staged \in RegistryType
  /\ up \in BOOLEAN /\ written \in BOOLEAN
  /\ revision \in Nat
  /\ queue \in Seq(Client)
  /\ holder \in Client \cup {Nobody}
  /\ call \in [Client -> Call \cup {NoCall}]
  /\ seen \in [Client -> Snapshot \cup {NotRead}]

\* Persist before publish: what readers see in memory is the file's content, except
\* for the instant between the rename and the task's next step, when the file is ahead
\* by exactly the staged commit; a failed write leaves both as they were
\* (manager.py, _async_commit_staged_registry).
DurableBeforeVisible == up => disk = IF written THEN staged ELSE live

\* What the client read, it read from the manager in charge.
UpToDate(c) == seen[c] # NotRead /\ seen[c].current

\* Optimistic concurrency: a call that states a revision of the manager in charge is
\* staged only on the very registry its client read, however many commits and failures
\* lie between the read and the lock (manager.py, _assert_expected_revision).
NoSilentOverwrite ==
  \A c \in Client :
    holder = c /\ call[c].expected # NoRevision /\ UpToDate(c) => seen[c].registry = live

\* The same, also for a revision that the client read before a restart: what the product
\* contract says of every stale mutation of a panel.  It does not hold: README.md.
StaleNeverStaged ==
  \A c \in Client :
    holder = c /\ call[c].expected # NoRevision => seen[c].registry = live

\* While one manager is in charge a revision names one content: a client that read from
\* it and whose revision is current has current data.
RevisionNamesContent ==
  \A c \in Client :
    UpToDate(c) /\ seen[c].revision = revision => up /\ seen[c].registry = live

\* A staged partial update leaves the field it does not name as it is now.
KeepsOtherField(c) ==
  holder = c /\ call[c].patch # NoPatch =>
    \A old \in live.assets : old.id = call[c].patch.asset.id => Named(call[c].patch, old)

\* A partial update that states a revision of the manager in charge changes only what it
\* names, although its other fields were read before it waited for the lock
\* (websocket.py, ws_asset_update).
GuardedPatchKeepsOtherFields ==
  \A c \in Client :
    call[c] # NoCall /\ call[c].expected # NoRevision /\ UpToDate(c) => KeepsOtherField(c)

\* The same, for every partial update: what the test of the command says of it.
PatchKeepsOtherFields == \A c \in Client : KeepsOtherField(c)

\* Every call is answered or its process ends: no failure keeps the lock, no caller
\* starves behind others (transaction.py, BindHomeMutationLock).
Answered == \A c \in Client : call[c] # NoCall ~> call[c] = NoCall

\* The manager implements the atomic registry: the rename is the moment of effect.
Atomic == INSTANCE AtomicRegistry WITH
  registry <- disk,
  phase <- [c \in Client |-> IF holder = c /\ written THEN "applied"
                             ELSE IF call[c] # NoCall THEN "called" ELSE "idle"]

\* A success is answered after the command's one durable effect, a failure after none,
\* in every interleaving of clients, write errors and crashes.
ImplementsAtomicRegistry == Atomic!Spec
=============================================================================

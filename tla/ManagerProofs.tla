--------------------------- MODULE ManagerProofs ----------------------------
(***************************************************************************)
(* The safety of the manager for any number of clients, commits and        *)
(* crashes, and that it implements the atomic registry.  The inductive     *)
(* invariant says who waits, what the lock holder has staged, and what a   *)
(* revision read from the manager in charge can mean.                      *)
(***************************************************************************)
EXTENDS Manager, RegistryProofs

\* Without a process there is nobody to serve.
DownInv ==
  ~up => /\ queue = <<>>
         /\ holder = Nobody
         /\ call = [c \in Client |-> NoCall]
         /\ \A c \in Client : ~UpToDate(c)

\* Who waits has asked, waits once, and is not in the lock.
QueueInv ==
  /\ \A i \in 1..Len(queue) : call[queue[i]] # NoCall /\ queue[i] # holder
  /\ \A i, j \in 1..Len(queue) : i # j => queue[i] # queue[j]

\* Only the holder's file can be in place; until it is, what is staged is an edit of
\* what is live.
LockInv ==
  /\ holder = Nobody => ~written
  /\ holder # Nobody => call[holder] # NoCall
  /\ holder # Nobody /\ ~written => Edit(live, staged)

\* A revision of the manager in charge is not ahead, and is current only with current
\* content; one of a former manager may be anything.
SeenInv ==
  \A c \in Client : UpToDate(c) =>
    /\ up
    /\ seen[c].revision <= revision
    /\ seen[c].revision = revision => seen[c].registry = live

\* The revision a call states is the one its client read; the holder's is current.
ExpectedInv ==
  /\ \A c \in Client : call[c] # NoCall /\ call[c].expected # NoRevision =>
       seen[c] # NotRead /\ call[c].expected = seen[c].revision
  /\ holder # Nobody => call[holder].expected \in {NoRevision, revision}

\* A partial update based on the current revision was completed from current fields.
PatchInv ==
  \A c \in Client :
    UpToDate(c) /\ call[c] # NoCall /\ call[c].expected = revision /\ call[c].patch # NoPatch =>
      \A old \in live.assets : old.id = call[c].patch.asset.id => Named(call[c].patch, old)

ContentInv == Consistent(disk) /\ Consistent(live) /\ Consistent(staged)

IInv ==
  /\ TypeOK
  /\ DurableBeforeVisible
  /\ DownInv
  /\ QueueInv
  /\ LockInv
  /\ SeenInv
  /\ ExpectedInv
  /\ PatchInv
  /\ ContentInv

\* The registry of an empty store is consistent.
LEMMA EmptyConsistent == EmptyRegistry \in RegistryType /\ Consistent(EmptyRegistry)
BY DEF EmptyRegistry, RegistryType, Consistent, UniqueAssets, UniqueRelations,
  RelationsConnectAssets, UniqueBindings, BindingsUseCapabilities,
  RepresentationsBacked, UniqueAdoptions, AdoptionsOwned

\* The invariant holds initially.
LEMMA IInvHoldsInitially == Init => IInv
<1> SUFFICES ASSUME Init
             PROVE  IInv
  OBVIOUS
<1> USE EmptyConsistent DEF Init
<1>1. TypeOK
  <2>1. queue \in Seq(Client) /\ up \in BOOLEAN /\ written \in BOOLEAN
    <3>1. queue \in Seq(Client)
      OBVIOUS
    <3>2. up \in BOOLEAN
      OBVIOUS
    <3>3. written \in BOOLEAN
      OBVIOUS
    <3> QED
      BY <3>1, <3>2, <3>3
  <2>2. disk \in RegistryType /\ live \in RegistryType /\ staged \in RegistryType
    OBVIOUS
  <2>3. call \in [Client -> Call \cup {NoCall}] /\ seen \in [Client -> Snapshot \cup {NotRead}]
    OBVIOUS
  <2> QED
    BY <2>1, <2>2, <2>3 DEF TypeOK
<1>2. DurableBeforeVisible /\ DownInv /\ QueueInv /\ LockInv /\ SeenInv /\ ContentInv
  BY DEF UpToDate, DurableBeforeVisible, DownInv, QueueInv, LockInv, SeenInv, ContentInv
<1>3. ExpectedInv /\ PatchInv
  BY DEF UpToDate, ExpectedInv, PatchInv
<1> QED
  BY <1>1, <1>2, <1>3 DEF IInv

\* What a call stages is the result of a command of the registry.
LEMMA AcceptsEdits ==
  ASSUME NEW c \in Client, NEW s, call[c] \in Call, Accepts(c, s)
  PROVE  Edit(live, s)
<1>1. CASE call[c].patch = NoPatch
  BY <1>1 DEF Accepts
<1>2. CASE call[c].patch # NoPatch
  <2>1. call[c].patch.asset \in Asset
    BY <1>2 DEF Call, Patch
  <2> QED
    BY <1>2, <2>1 DEF Accepts, Edit, EditAssets
<1> QED
  BY <1>1, <1>2

-----------------------------------------------------------------------------
(***************************************************************************)
(* Each action preserves the invariant.                                    *)
(***************************************************************************)

\* Reading keeps the invariant.
LEMMA ReadKeepsIInv ==
  ASSUME IInv, NEW c \in Client, Read(c)
  PROVE  IInv'
<1> USE DEF IInv, Read, Idle
<1>1. TypeOK'
  BY DEF TypeOK, Snapshot
<1>2. SeenInv'
  BY DEF UpToDate, SeenInv, TypeOK
<1>3. ExpectedInv'
  BY DEF ExpectedInv, TypeOK
<1>4. PatchInv'
  <2>1. call[c] = NoCall /\ call' = call /\ \A k \in Client : k # c => seen'[k] = seen[k]
    BY DEF TypeOK
  <2> QED
    BY <2>1 DEF PatchInv, Named, UpToDate
<1> QED
  BY <1>1, <1>2, <1>3, <1>4 DEF DurableBeforeVisible, DownInv, QueueInv, LockInv, ContentInv

\* A caller that joins the queue was in no other place.
LEMMA EnqueueKeepsIInv ==
  ASSUME IInv, NEW c \in Client, NEW p \in Patch \cup {NoPatch}, Enqueue(c, p),
         p # NoPatch => \E existing \in live.assets :
                          p.asset.id = existing.id /\ Named(p, existing)
  PROVE  IInv'
<1>1. PICK e \in Expected(c) : call' = [call EXCEPT ![c] = [expected |-> e, patch |-> p]]
  BY DEF Enqueue
<1>2. e \in Nat \cup {NoRevision}
  BY DEF Expected, IInv, TypeOK, Snapshot
<1>3. TypeOK'
  BY <1>1, <1>2 DEF IInv, TypeOK, Enqueue, Call
<1>4. call[c] = NoCall /\ call'[c] # NoCall /\ \A k \in Client : k # c => call'[k] = call[k]
  BY <1>1, <1>2, CallAssumption DEF IInv, TypeOK, Enqueue, Idle, Call
<1>5. QueueInv'
  <2>1. /\ queue' = Append(queue, c)
        /\ queue \in Seq(Client)
        /\ holder' = holder
    BY DEF IInv, TypeOK, Enqueue
  <2>2. c # holder /\ \A i \in 1..Len(queue) : queue[i] # c /\ queue[i] # holder
    BY <1>4, ManagerAssumption DEF IInv, QueueInv, LockInv
  <2>3. \A i \in 1..Len(queue') :
          IF i = Len(queue) + 1 THEN queue'[i] = c
                                ELSE i \in 1..Len(queue) /\ queue'[i] = queue[i]
    BY <2>1
  <2>4. \A i \in 1..Len(queue') : call'[queue'[i]] # NoCall /\ queue'[i] # holder'
    BY <1>4, <2>1, <2>2, <2>3 DEF IInv, QueueInv
  <2>5. \A i, j \in 1..Len(queue') : i # j => queue'[i] # queue'[j]
    BY <2>1, <2>2, <2>3 DEF IInv, QueueInv
  <2> QED
    BY <2>4, <2>5 DEF QueueInv
<1>6. LockInv'
  BY <1>4 DEF LockInv, IInv, TypeOK, Enqueue
<1>7. ExpectedInv'
  BY <1>1, <1>4 DEF ExpectedInv, LockInv, IInv, TypeOK, Enqueue, Expected
<1>8. PatchInv'
  <2>1. \A a, b \in live.assets : a.id = b.id => a = b
    BY DEF IInv, ContentInv, Consistent, UniqueAssets, Clash
  <2>2. p # NoPatch => \A old \in live.assets : old.id = p.asset.id => Named(p, old)
    BY <2>1
  <2>3. call'[c].patch = p
    BY <1>1 DEF IInv, TypeOK
  <2> QED
    BY <1>4, <2>2, <2>3 DEF PatchInv, IInv, Enqueue, UpToDate
<1> QED
  BY <1>3, <1>5, <1>6, <1>7, <1>8 DEF UpToDate, IInv, Enqueue, Idle, DurableBeforeVisible, DownInv, SeenInv,
    ContentInv

\* Staging keeps the invariant: a call with the current revision was read from live.
LEMMA StageKeepsIInv ==
  ASSUME IInv, NEW c \in Client, Stage(c)
  PROVE  IInv'
<1>1. /\ holder = Nobody /\ ~written /\ up
      /\ queue # <<>> /\ c = Head(queue) /\ c = queue[1] /\ call[c] # NoCall
  BY DEF Stage, Turn, IInv, LockInv, QueueInv, TypeOK
<1>2. call[c] \in Call
  BY <1>1 DEF IInv, TypeOK
<1>3. Edit(live, staged')
  BY <1>2, AcceptsEdits DEF Stage
<1>4. staged' \in RegistryType /\ Consistent(staged')
  BY <1>3, EditKeepsConsistency DEF IInv, TypeOK, ContentInv
<1>5. TypeOK'
  BY <1>1, <1>4 DEF IInv, TypeOK, Stage
<1>6. QueueInv'
  BY <1>1 DEF IInv, TypeOK, QueueInv, Stage
<1>7. LockInv'
  BY <1>1, <1>3 DEF IInv, LockInv, Stage
<1>8. ExpectedInv'
  BY DEF IInv, ExpectedInv, Stage, Fresh
<1>9. DurableBeforeVisible' /\ ContentInv'
  BY <1>1, <1>4 DEF IInv, DurableBeforeVisible, ContentInv, Stage
<1> QED
  BY <1>1, <1>5, <1>6, <1>7, <1>8, <1>9 DEF UpToDate, IInv, DownInv, SeenInv, PatchInv, Named, Stage

\* A refusal keeps the invariant.
LEMMA RefuseKeepsIInv ==
  ASSUME IInv, NEW c \in Client, Refuse(c)
  PROVE  IInv'
<1>1. /\ holder = Nobody /\ ~written /\ up
      /\ queue # <<>> /\ c = Head(queue) /\ c = queue[1]
      /\ call' = [call EXCEPT ![c] = NoCall]
  BY DEF Refuse, Turn, IInv, LockInv, TypeOK
<1>2. \A k \in Client : call'[k] = IF k = c THEN NoCall ELSE call[k]
  BY <1>1 DEF IInv, TypeOK
<1>3. TypeOK'
  BY <1>1 DEF IInv, TypeOK, Refuse
<1>4. QueueInv'
  BY <1>1, <1>2 DEF IInv, TypeOK, QueueInv, Refuse
<1>5. LockInv' /\ ExpectedInv'
  BY <1>1, <1>2 DEF IInv, LockInv, ExpectedInv, Refuse
<1>6. PatchInv'
  BY <1>2 DEF UpToDate, IInv, PatchInv, Refuse, Named
<1> QED
  BY <1>1, <1>3, <1>4, <1>5, <1>6 DEF UpToDate, IInv, DurableBeforeVisible, DownInv, SeenInv, ContentInv,
    Refuse

\* The rename keeps the invariant.
LEMMA WriteFileKeepsIInv ==
  ASSUME IInv, WriteFile
  PROVE  IInv'
<1>1. up
  BY DEF IInv, DownInv, WriteFile
<1> QED
  BY <1>1 DEF UpToDate, IInv, WriteFile, TypeOK, DurableBeforeVisible, DownInv, QueueInv, LockInv, SeenInv,
    ExpectedInv, PatchInv, Named, ContentInv

\* Answering the holder disturbs no waiting caller.
LEMMA AnswerKeepsQueue ==
  ASSUME IInv, NEW c \in Client, holder = c, Answer(c), queue' = queue, up' = up
  PROVE  QueueInv' /\ LockInv' /\ DownInv' /\ ~written' /\ up
<1>1. \A k \in Client : call'[k] = IF k = c THEN NoCall ELSE call[k]
  BY DEF Answer, IInv, TypeOK
<1>2. \A i \in 1..Len(queue) : queue[i] \in Client
  BY DEF IInv, TypeOK
<1>3. c # Nobody
  BY ManagerAssumption
<1>4. up
  BY <1>3 DEF IInv, DownInv
<1>5. QueueInv'
  BY <1>1, <1>2, ManagerAssumption DEF IInv, QueueInv, Answer
<1> QED
  BY <1>4, <1>5 DEF LockInv, DownInv, Answer

\* A failed write keeps the invariant.
LEMMA WriteErrorKeepsIInv ==
  ASSUME IInv, NEW c \in Client, WriteError(c)
  PROVE  IInv'
<1>1. QueueInv' /\ LockInv' /\ DownInv' /\ ~written' /\ up
  BY AnswerKeepsQueue DEF WriteError
<1>2. \A k \in Client : call'[k] = IF k = c THEN NoCall ELSE call[k]
  BY DEF WriteError, Answer, IInv, TypeOK
<1>3. TypeOK'
  BY EmptyConsistent DEF IInv, TypeOK, WriteError, Answer
<1>4. ExpectedInv' /\ PatchInv'
  BY <1>2 DEF UpToDate, IInv, ExpectedInv, PatchInv, Named, WriteError, Answer
<1> QED
  BY <1>1, <1>3, <1>4, EmptyConsistent DEF UpToDate, IInv, DurableBeforeVisible, SeenInv, ContentInv,
    WriteError, Answer

\* A commit moves to a revision that nobody has read yet.
LEMMA PublishKeepsIInv ==
  ASSUME IInv, NEW c \in Client, Publish(c)
  PROVE  IInv'
<1>1. QueueInv' /\ LockInv' /\ DownInv' /\ ~written' /\ up
  BY AnswerKeepsQueue DEF Publish
<1>2. \A k \in Client : call'[k] = IF k = c THEN NoCall ELSE call[k]
  BY DEF Publish, Answer, IInv, TypeOK
<1>3. TypeOK'
  <2>1. revision' \in Nat
    BY DEF IInv, TypeOK, Publish
  <2>2. written' \in BOOLEAN
    BY DEF Publish, Answer
  <2> QED
    BY <2>1, <2>2, EmptyConsistent DEF IInv, TypeOK, Publish, Answer
<1>4. \A k \in Client : UpToDate(k) => seen[k].revision \in Nat /\ seen[k].revision < revision'
  BY DEF UpToDate, IInv, SeenInv, TypeOK, Snapshot, Publish
<1>5. SeenInv'
  BY <1>1, <1>4 DEF UpToDate, IInv, SeenInv, TypeOK, Publish
<1>6. ExpectedInv'
  BY <1>2 DEF IInv, ExpectedInv, Publish, Answer
<1>7. PatchInv'
  <2> SUFFICES ASSUME NEW k \in Client, UpToDate(k)',
                      call'[k] # NoCall, call'[k].expected = revision'
               PROVE  FALSE
    BY DEF PatchInv
  <2>1. k # c /\ call[k] # NoCall /\ call[k].expected = revision'
    BY <1>2
  <2>2. revision' # NoRevision
    BY ManagerAssumption DEF IInv, TypeOK, Publish
  <2>3. UpToDate(k) /\ seen[k].revision = revision'
    BY <2>1, <2>2 DEF IInv, ExpectedInv, UpToDate, Publish
  <2> QED
    BY <1>3, <1>4, <2>3 DEF TypeOK
<1>8. DurableBeforeVisible' /\ ContentInv'
  BY <1>1, EmptyConsistent DEF IInv, DurableBeforeVisible, ContentInv, Publish, Answer
<1> QED
  BY <1>1, <1>3, <1>5, <1>6, <1>7, <1>8 DEF IInv

\* A crash keeps the invariant.
LEMMA CrashKeepsIInv ==
  ASSUME IInv, Crash
  PROVE  IInv'
<1> USE EmptyConsistent DEF IInv, Crash
<1>1. TypeOK'
  <2>1. queue' \in Seq(Client)
    OBVIOUS
  <2>2. up' \in BOOLEAN
    OBVIOUS
  <2>3. written' \in BOOLEAN
    OBVIOUS
  <2>4. seen' \in [Client -> Snapshot \cup {NotRead}]
    BY DEF TypeOK, Snapshot, Outdated
  <2> QED
    BY <2>1, <2>2, <2>3, <2>4 DEF TypeOK
<1>2. DurableBeforeVisible' /\ DownInv' /\ QueueInv' /\ LockInv' /\ SeenInv' /\ ContentInv'
  BY DEF UpToDate, Outdated, DurableBeforeVisible, DownInv, QueueInv, LockInv, SeenInv, ContentInv
<1>3. ExpectedInv' /\ PatchInv'
  BY DEF UpToDate, Outdated, ExpectedInv, PatchInv
<1> QED
  BY <1>1, <1>2, <1>3

\* A start keeps the invariant.
LEMMA StartKeepsIInv ==
  ASSUME IInv, Start
  PROVE  IInv'
<1>1. disk' \in RegistryType /\ Consistent(disk') /\ live' = disk'
  BY EnrichKeepsConsistency DEF Start, IInv, TypeOK, ContentInv
<1>2. /\ ~up /\ up' /\ revision' = 0
      /\ UNCHANGED <<queue, holder, staged, written, call, seen>>
  BY DEF Start
<1>3. /\ queue = <<>> /\ holder = Nobody /\ ~written
      /\ call = [k \in Client |-> NoCall] /\ \A k \in Client : ~UpToDate(k)
  BY <1>2 DEF IInv, DownInv, LockInv
<1>4. TypeOK'
  BY <1>1, <1>2 DEF IInv, TypeOK, Start
<1>5. DurableBeforeVisible' /\ DownInv' /\ QueueInv' /\ LockInv' /\ SeenInv' /\ ContentInv'
  BY <1>1, <1>2, <1>3 DEF UpToDate, IInv, DurableBeforeVisible, DownInv, QueueInv, LockInv, SeenInv, ContentInv
<1>6. ExpectedInv' /\ PatchInv'
  BY <1>2, <1>3 DEF UpToDate, ExpectedInv, PatchInv
<1> QED
  BY <1>4, <1>5, <1>6 DEF IInv

\* Every step keeps the invariant.
LEMMA IInvIsPreserved == IInv /\ [Next]_vars => IInv'
<1> SUFFICES ASSUME IInv, [Next]_vars
             PROVE  IInv'
  OBVIOUS
<1>1. ASSUME NEW c \in Client, SubmitPatch(c)
      PROVE  IInv'
  <2>1. PICK p \in Patch : /\ Enqueue(c, p)
                           /\ \E existing \in live.assets :
                                p.asset.id = existing.id /\ Named(p, existing)
    BY <1>1 DEF SubmitPatch
  <2> QED
    BY <2>1, EnqueueKeepsIInv
<1>2. ASSUME NEW c \in Client, Submit(c)
      PROVE  IInv'
  BY <1>2, EnqueueKeepsIInv DEF Submit
<1>3. CASE UNCHANGED vars
  BY <1>3 DEF UpToDate, vars, IInv, TypeOK, DurableBeforeVisible, DownInv, QueueInv, LockInv, SeenInv,
    ExpectedInv, PatchInv, Named, ContentInv
<1> QED
  BY <1>1, <1>2, <1>3, ReadKeepsIInv, StageKeepsIInv, RefuseKeepsIInv, WriteFileKeepsIInv,
     WriteErrorKeepsIInv, PublishKeepsIInv, CrashKeepsIInv, StartKeepsIInv DEF Next, Serve

\* The inductive invariant of the manager holds in every reachable state (manager.py,
\* transaction.py, store.py).
THEOREM Invariance == Spec => []IInv
<1> QED
  BY IInvHoldsInitially, IInvIsPreserved, PTL DEF Spec

\* The state keeps its shapes.
THEOREM TypeCorrect == Spec => []TypeOK
<1>1. IInv => TypeOK
  BY DEF IInv
<1> QED
  BY <1>1, Invariance, PTL

\* Readers see what the file holds, or what it held until the rename that the waiting
\* task has not yet seen (manager.py, _async_commit_staged_registry).
THEOREM PersistBeforePublish == Spec => []DurableBeforeVisible
<1>1. IInv => DurableBeforeVisible
  BY DEF IInv
<1> QED
  BY <1>1, Invariance, PTL

\* A revision that a client read from the manager in charge is current only if its
\* content is; of one read before a restart nothing is said (manager.py, _adopt).
THEOREM RevisionIsContent == Spec => []RevisionNamesContent
<1>1. IInv => RevisionNamesContent
  BY DEF IInv, SeenInv, RevisionNamesContent
<1> QED
  BY <1>1, Invariance, PTL

\* A call that states a revision of the manager in charge never commits over a change
\* its client has not read; one that states a revision from before a restart may
\* (manager.py, _assert_expected_revision).
THEOREM NoLostUpdate == Spec => []NoSilentOverwrite
<1>1. IInv => NoSilentOverwrite
  BY ManagerAssumption DEF IInv, LockInv, ExpectedInv, SeenInv, NoSilentOverwrite
<1> QED
  BY <1>1, Invariance, PTL

\* A partial update that states a revision of the manager in charge keeps every field it
\* does not name (websocket.py, ws_asset_update).
THEOREM GuardedPatchIsPartial == Spec => []GuardedPatchKeepsOtherFields
<1>1. IInv => GuardedPatchKeepsOtherFields
  BY ManagerAssumption DEF IInv, LockInv, ExpectedInv, PatchInv,
     GuardedPatchKeepsOtherFields, KeepsOtherField
<1> QED
  BY <1>1, Invariance, PTL

-----------------------------------------------------------------------------
(***************************************************************************)
(* The manager implements the atomic registry.                             *)
(***************************************************************************)

Phase == [c \in Client |-> IF holder = c /\ written THEN "applied"
                           ELSE IF call[c] # NoCall THEN "called" ELSE "idle"]

\* How the phases move when one client moves.
LEMMA PhaseStep ==
  ASSUME IInv, NEW c \in Client, NEW from, NEW to,
         Phase[c] = from, Phase' = [Phase EXCEPT ![c] = to]
  PROVE  Atomic!Move(c, from, to)
BY DEF Atomic!Move, Phase

\* A step that leaves file and phases alone is a stutter of the abstract registry.
LEMMA StutterIsNoStep ==
  ASSUME disk' = disk, Phase' = Phase
  PROVE  UNCHANGED Atomic!vars
BY DEF Atomic!vars, Phase

\* Arriving at the lock is the abstract call.
LEMMA EnqueueIsCall ==
  ASSUME IInv, NEW c \in Client, NEW p \in Patch \cup {NoPatch}, Enqueue(c, p)
  PROVE  Atomic!Call(c)
<1>1. PICK e \in Expected(c) : call' = [call EXCEPT ![c] = [expected |-> e, patch |-> p]]
  BY DEF Enqueue
<1>2. e \in Nat \cup {NoRevision}
  BY DEF Expected, IInv, TypeOK, Snapshot
<1>3. call[c] = NoCall /\ call'[c] # NoCall /\ \A k \in Client : k # c => call'[k] = call[k]
  BY <1>1, <1>2, CallAssumption DEF IInv, TypeOK, Enqueue, Idle, Call
<1>4. holder # c /\ holder' = holder /\ written' = written
  BY <1>3, ManagerAssumption DEF IInv, LockInv, Enqueue
<1>5. Phase[c] = "idle" /\ Phase' = [Phase EXCEPT ![c] = "called"]
  BY <1>3, <1>4 DEF Phase
<1> QED
  BY <1>5, PhaseStep DEF Atomic!Call, Enqueue

\* Staging is not visible.
LEMMA StageStutters ==
  ASSUME IInv, NEW c \in Client, Stage(c)
  PROVE  UNCHANGED Atomic!vars
<1>1. ~written /\ ~written' /\ call' = call /\ disk' = disk
  BY DEF IInv, LockInv, Stage, Turn
<1>2. Phase' = Phase
  BY <1>1 DEF Phase
<1> QED
  BY <1>1, <1>2, StutterIsNoStep

\* A refusal is the abstract failure.
LEMMA RefuseIsFail ==
  ASSUME IInv, NEW c \in Client, Refuse(c)
  PROVE  Atomic!Fail(c)
<1>1. ~written /\ ~written' /\ call[c] # NoCall
  BY DEF IInv, LockInv, QueueInv, TypeOK, Refuse, Turn
<1>2. \A k \in Client : call'[k] = IF k = c THEN NoCall ELSE call[k]
  BY DEF IInv, TypeOK, Refuse
<1>3. Phase[c] = "called" /\ Phase' = [Phase EXCEPT ![c] = "idle"]
  BY <1>1, <1>2 DEF Phase
<1> QED
  BY <1>3, PhaseStep DEF Atomic!Fail, Refuse

\* So is a failed write.
LEMMA WriteErrorIsFail ==
  ASSUME IInv, NEW c \in Client, WriteError(c)
  PROVE  Atomic!Fail(c)
<1>1. ~written /\ ~written' /\ call[c] # NoCall
  BY ManagerAssumption DEF IInv, LockInv, WriteError, Answer
<1>2. \A k \in Client : call'[k] = IF k = c THEN NoCall ELSE call[k]
  BY DEF IInv, TypeOK, WriteError, Answer
<1>3. Phase[c] = "called" /\ Phase' = [Phase EXCEPT ![c] = "idle"]
  BY <1>1, <1>2 DEF Phase
<1> QED
  BY <1>3, PhaseStep DEF Atomic!Fail, WriteError

\* Instantiating AtomicRegistry instantiates the commands it extends: the same formulas
\* under a second name.
LEMMA SameCommands ==
  ASSUME NEW r, NEW s, Edit(r, s)
  PROVE  Atomic!Edit(r, s)
<1>1. ASSUME EditAssets(r, s)
      PROVE  Atomic!EditAssets(r, s)
  BY <1>1 DEF EditAssets, CanAddAssets, Clash, AddAssets, Asset, CanUpdateAsset,
    UpdateAsset, CanDeleteAsset, Touches, DeleteAsset, DeleteWithDependencies,
    RemoveBindings, Release, Dependents, Atomic!EditAssets, Atomic!CanAddAssets,
    Atomic!Clash, Atomic!AddAssets, Atomic!Asset, Atomic!CanUpdateAsset,
    Atomic!UpdateAsset, Atomic!CanDeleteAsset, Atomic!Touches, Atomic!DeleteAsset,
    Atomic!DeleteWithDependencies, Atomic!RemoveBindings, Atomic!Release,
    Atomic!Dependents
<1>2. ASSUME EditRelations(r, s)
      PROVE  Atomic!EditRelations(r, s)
  BY <1>2 DEF EditRelations, Relation, CanAddRelation, SameRelation, AddRelation,
    RemoveRelation, Atomic!EditRelations, Atomic!Relation, Atomic!CanAddRelation,
    Atomic!SameRelation, Atomic!AddRelation, Atomic!RemoveRelation
<1>3. ASSUME EditBindings(r, s)
      PROVE  Atomic!EditBindings(r, s)
  BY <1>3 DEF EditBindings, Binding, CanBind, Bindable, SameKey, Bind, CanRebind, Rebind,
    SameTarget, Release, RemoveBindings, Atomic!EditBindings, Atomic!Binding,
    Atomic!CanBind, Atomic!Bindable, Atomic!SameKey, Atomic!Bind, Atomic!CanRebind,
    Atomic!Rebind, Atomic!SameTarget, Atomic!Release, Atomic!RemoveBindings
<1>4. ASSUME EditRepresentations(r, s)
      PROVE  Atomic!EditRepresentations(r, s)
  BY <1>4 DEF EditRepresentations, CanRepresent, Represent, Unrepresent,
    Atomic!EditRepresentations, Atomic!CanRepresent, Atomic!Represent, Atomic!Unrepresent
<1>5. ASSUME EditAdoptions(r, s)
      PROVE  Atomic!EditAdoptions(r, s)
  BY <1>5 DEF EditAdoptions, Consent, Revert, Atomic!Consent, Atomic!Revert, JoinAdoption, Hider, CanOpenAdoption, OpenAdoption,
    NewAdoption, Release, Atomic!EditAdoptions, Atomic!JoinAdoption, Atomic!Hider,
    Atomic!CanOpenAdoption, Atomic!OpenAdoption, Atomic!NewAdoption, Atomic!Release
<1> QED
  BY <1>1, <1>2, <1>3, <1>4, <1>5 DEF Edit, Atomic!Edit

\* The rename is the moment of effect.
LEMMA WriteFileIsApply ==
  ASSUME IInv, WriteFile
  PROVE  \E c \in Client : Atomic!Apply(c)
<1>1. holder \in Client /\ holder' = holder /\ call' = call /\ ~written /\ written'
  BY DEF IInv, TypeOK, WriteFile
<1>2. Atomic!Edit(disk, disk')
  BY SameCommands DEF IInv, LockInv, DownInv, DurableBeforeVisible, WriteFile
<1>3. call[holder] # NoCall
  BY DEF IInv, LockInv, WriteFile
<1>4. Phase[holder] = "called" /\ Phase' = [Phase EXCEPT ![holder] = "applied"]
  BY <1>1, <1>3 DEF Phase
<1>5. Atomic!Move(holder, "called", "applied")
  BY <1>1, <1>4, PhaseStep
<1> QED
  BY <1>1, <1>2, <1>5 DEF Atomic!Apply

\* The commit that follows is the abstract success.
LEMMA PublishIsSucceed ==
  ASSUME IInv, NEW c \in Client, Publish(c)
  PROVE  Atomic!Succeed(c)
<1>1. holder = c /\ written /\ ~written'
  BY DEF Publish, Answer
<1>2. \A k \in Client : call'[k] = IF k = c THEN NoCall ELSE call[k]
  BY DEF IInv, TypeOK, Publish, Answer
<1>3. Phase[c] = "applied" /\ Phase' = [Phase EXCEPT ![c] = "idle"]
  BY <1>1, <1>2 DEF Phase
<1> QED
  BY <1>3, PhaseStep DEF Atomic!Succeed, Publish

\* A crash is the abstract crash.
LEMMA CrashIsCrash ==
  ASSUME IInv, Crash
  PROVE  Atomic!Crash
<1>1. ~written' /\ \A k \in Client : call'[k] = NoCall
  BY DEF Crash
<1>2. Phase' = [c \in Client |-> "idle"]
  BY <1>1 DEF Phase
<1> QED
  BY <1>2 DEF Atomic!Crash, Phase, Crash

\* A start is the abstract load.
LEMMA StartIsLoad ==
  ASSUME IInv, Start
  PROVE  Atomic!Load
<1>1. ~written' /\ \A k \in Client : call'[k] = NoCall
  BY DEF IInv, DownInv, LockInv, Start
<1>2. Phase' = [c \in Client |-> "idle"]
  BY <1>1 DEF Phase
<1> QED
  BY <1>2 DEF Atomic!Load, Atomic!Enrich, Phase, Start, Enrich

\* A success is answered after the command's one durable effect and a failure after
\* none, in every interleaving of clients, write errors, crashes and restarts
\* (manager.py, _transaction and _async_commit_staged_registry).
THEOREM Implementation == Spec => ImplementsAtomicRegistry
<1>1. Init => Atomic!Init
  <2> SUFFICES ASSUME Init
               PROVE  Atomic!Init
    OBVIOUS
  <2>1. Phase = [c \in Client |-> "idle"]
    BY DEF Init, Phase
  <2> QED
    BY <2>1 DEF Init, Atomic!Init, Atomic!EmptyRegistry, EmptyRegistry, Phase
<1>2. IInv /\ [Next]_vars => [Atomic!Next]_(Atomic!vars)
  <2> SUFFICES ASSUME IInv, [Next]_vars
               PROVE  Atomic!Next \/ UNCHANGED Atomic!vars
    OBVIOUS
  <2>1. ASSUME NEW c \in Client, Read(c)
        PROVE  UNCHANGED Atomic!vars
    <3>1. disk' = disk /\ Phase' = Phase
      BY <2>1 DEF Read, Phase
    <3> QED
      BY <3>1, StutterIsNoStep
  <2>2. ASSUME NEW c \in Client, Submit(c) \/ SubmitPatch(c)
        PROVE  Atomic!Call(c)
    BY <2>2, EnqueueIsCall DEF Submit, SubmitPatch
  <2>3. CASE UNCHANGED vars
    <3>1. disk' = disk /\ Phase' = Phase
      BY <2>3 DEF vars, Phase
    <3> QED
      BY <3>1, StutterIsNoStep
  <2> QED
    BY <2>1, <2>2, <2>3, StageStutters, RefuseIsFail, WriteErrorIsFail, WriteFileIsApply,
       PublishIsSucceed, CrashIsCrash, StartIsLoad DEF Next, Serve, Atomic!Next
<1> QED
  BY <1>1, <1>2, Invariance, PTL DEF Spec, Atomic!Spec, ImplementsAtomicRegistry
=============================================================================

----------------------------- MODULE Replacement -----------------------------
(***************************************************************************)
(* The server's side of guided hardware replacement (replacement.py): a    *)
(* plan of candidates is reviewed by a client, and the chosen candidate is *)
(* committed by name, at the revision of the plan, under the mutation lock *)
(* of the manager.                                                         *)
(*                                                                         *)
(* Hardware is an entry of Home Assistant's entity registry: it has a      *)
(* name, or none while it is removed, and it fits or not (it is enabled,   *)
(* not BindHome's own, and compatible with the capability).  Entities      *)
(* without an entry are left out, and so are area and rank, which only     *)
(* order the candidates.  Each key belongs to an asset of its own.         *)
(***************************************************************************)
EXTENDS Integers, Sequences, FiniteSets

CONSTANTS
  Keys,           \* (asset, capability, role)
  Hardware,       \* identities of entries
  Names,          \* entity ids
  Clients,        \* that review and commit
  None,
  MaxRevision,    \* bound: commits
  MaxQueue        \* bound: requests that wait for the lock

ReplacementAssumption ==
  /\ None \notin Keys \cup Hardware \cup Names \cup Clients
  /\ MaxRevision \in Nat /\ None \notin 0..MaxRevision

VARIABLES
  name, fits,     \* Home Assistant: the name of each entry, whether it may be used
  bindings,       \* of each key: the target and the name it had; the live registry
  revision,
  plans,          \* what each client reviews
  queue,          \* requests that wait for the lock
  saving          \* the request that holds it

entries == <<name, fits>>
lock == <<queue, saving>>
vars == <<entries, bindings, revision, plans, lock>>

Init ==
  /\ name \in [Hardware -> Names \cup {None}]
  /\ \A e, f \in Hardware : e # f /\ name[e] = name[f] => name[e] = None
  /\ fits = [e \in Hardware |-> TRUE]
  /\ bindings = [k \in Keys |-> None] /\ revision = 0
  /\ plans = [c \in Clients |-> None]
  /\ queue = <<>> /\ saving = None

-----------------------------------------------------------------------------
(***************************************************************************)
(* Home Assistant.                                                         *)
(***************************************************************************)

Free(n) == \A e \in Hardware : name[e] # n

\* An entry is added, renamed or removed.
Rename(e, n) ==
  /\ n # name[e] /\ (n = None \/ Free(n))
  /\ name' = [name EXCEPT ![e] = n]
  /\ UNCHANGED <<fits, bindings, revision, plans, lock>>

Refit(e) ==
  /\ fits' = [fits EXCEPT ![e] = ~@]
  /\ UNCHANGED <<name, bindings, revision, plans, lock>>

-----------------------------------------------------------------------------
(***************************************************************************)
(* The candidates.                                                         *)
(***************************************************************************)

Present == {e \in Hardware : name[e] # None}

BoundElsewhere(k, e) == \E l \in Keys \ {k} : bindings[l] # None /\ bindings[l].target = e

\* The name the resolver gives the target, or else the one it was bound with.
CurrentName(k) ==
  IF bindings[k] = None THEN None
  ELSE IF name[bindings[k].target] # None THEN name[bindings[k].target]
  ELSE bindings[k].name

Candidates(k) ==
  {e \in Present : fits[e] /\ name[e] # CurrentName(k) /\ ~BoundElsewhere(k, e)}

Review(c, k) ==
  /\ plans[c] = None
  /\ plans' = [plans EXCEPT ![c] =
                 [key |-> k, revision |-> revision, current |-> bindings[k],
                  names |-> [e \in Candidates(k) |-> name[e]]]]
  /\ UNCHANGED <<entries, bindings, revision, lock>>

-----------------------------------------------------------------------------
(***************************************************************************)
(* The lock, and async_set_binding under it.                               *)
(***************************************************************************)

Named(n) == {e \in Present : name[e] = n}

\* Mutant: the revision was checked when the request came, not under the lock.
RevisionChecked(r) == Named(r.name) # {}

Accepts(r) == (r.revision # None => r.revision = revision) /\ Named(r.name) # {}

Releases(r) == saving' = None

Begin(r) ==
  \/ /\ Accepts(r)
     /\ saving' = [r EXCEPT !.target = CHOOSE e \in Named(r.name) : TRUE]
  \/ ~Accepts(r) /\ Releases(r)

\* A lock that is free, and that nobody waits for, is taken at once.
Acquire(r) ==
  IF saving = None /\ queue = <<>> THEN Begin(r) /\ UNCHANGED queue
  ELSE Len(queue) < MaxQueue /\ queue' = Append(queue, r) /\ UNCHANGED saving

Wake ==
  /\ saving = None /\ queue # <<>>
  /\ queue' = Tail(queue) /\ Begin(Head(queue))
  /\ UNCHANGED <<entries, bindings, revision, plans>>

Request(c, plan, k, n, basis) ==
  [client |-> c, plan |-> plan, key |-> k, name |-> n, revision |-> basis, target |-> None]

Sent(c) ==
  \/ saving # None /\ saving.client = c
  \/ \E i \in DOMAIN queue : queue[i].client = c

\* async_replace_binding: the candidates are found again before the lock is asked for.
Replace(c, e) ==
  /\ plans[c] # None /\ ~Sent(c) /\ e \in DOMAIN plans[c].names
  /\ LET plan == plans[c]
         n == plan.names[e]
     IN  IF \E f \in Candidates(plan.key) : name[f] = n
         THEN Acquire(Request(c, [plan EXCEPT !.names = e], plan.key, n, plan.revision))
         ELSE UNCHANGED lock
  /\ plans' = [plans EXCEPT ![c] = None]
  /\ UNCHANGED <<entries, bindings, revision>>

\* Another client sets a binding, with no plan and no basis.
Set(k, n) ==
  /\ Acquire(Request(None, None, k, n, None))
  /\ UNCHANGED <<entries, bindings, revision, plans>>

Saved ==
  /\ saving # None /\ saving.target # None /\ revision < MaxRevision
  /\ bindings' = [bindings EXCEPT ![saving.key] =
                    [target |-> saving.target, name |-> saving.name]]
  /\ revision' = revision + 1 /\ saving' = None
  /\ UNCHANGED <<entries, plans, queue>>

SaveFailed ==
  /\ saving # None /\ saving.target # None
  /\ saving' = None
  /\ UNCHANGED <<entries, bindings, revision, plans, queue>>

Next ==
  \/ \E e \in Hardware, n \in Names \cup {None} : Rename(e, n)
  \/ \E e \in Hardware : Refit(e)
  \/ \E c \in Clients, k \in Keys : Review(c, k)
  \/ \E c \in Clients, e \in Hardware : Replace(c, e)
  \/ \E k \in Keys, n \in Names : Set(k, n)
  \/ Wake \/ Saved \/ SaveFailed

Spec == Init /\ [][Next]_vars

-----------------------------------------------------------------------------
(***************************************************************************)
(* Properties.                                                             *)
(***************************************************************************)

Bindings == [target : Hardware, name : Names] \cup {None}

Plans == [key : Keys, revision : 0..revision, current : Bindings,
          names : UNION {[D -> Names] : D \in SUBSET Hardware}]

Requests ==
  [client : Clients \cup {None}, key : Keys, name : Names, revision : 0..revision \cup {None},
   plan : [key : Keys, revision : 0..revision, current : Bindings, names : Hardware] \cup {None},
   target : Hardware \cup {None}]

\* The state has the shapes the code gives it; two entries never have one name.
TypeOK ==
  /\ name \in [Hardware -> Names \cup {None}] /\ fits \in [Hardware -> BOOLEAN]
  /\ \A e, f \in Present : name[e] = name[f] => e = f
  /\ bindings \in [Keys -> Bindings]
  /\ revision \in 0..MaxRevision
  /\ plans \in [Clients -> Plans \cup {None}]
  /\ queue \in Seq(Requests)
  /\ saving # None => saving \in Requests /\ saving.target # None

\* No candidate is in use, by this key or by another asset, whatever was renamed since it was
\* bound (replacement.py replacement_candidates).
CandidatesUnused ==
  \A k, l \in Keys : \A e \in Candidates(k) : bindings[l] # None => bindings[l].target # e

Replacement(r) == r # None /\ r.plan # None

\* What a replacement takes the place of is what its plan said is there: of two clients that
\* reviewed the same connection one is refused (replacement.py async_replace_binding).
ReplacesReviewed ==
  [][Replacement(saving) /\ bindings' # bindings
       => bindings[saving.key] = saving.plan.current]_vars

=============================================================================

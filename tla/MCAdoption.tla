----------------------------- MODULE MCAdoption -----------------------------
(***************************************************************************)
(* Adoption, the removal of the config entry, and the replacement of       *)
(* hardware in one run.  A behaviour is of one part; replacement has       *)
(* variables of its own, which rest in an initial state in the others.     *)
(* Adoption has one asset whose two bindings may share one hardware entity *)
(* or move between two; with a removal there is at most one binding.       *)
(***************************************************************************)
EXTENDS Removal, Integers, FiniteSets, TLC

CONSTANTS
  b1, b2,      \* bindings
  g1, g2,      \* entries of the Entity Registry
  n1, n2,      \* entity ids
  \* Replacement
  Keys, Hardware, Names, Clients, MaxRevision, MaxQueue,
  k1,          \* one of Keys
  None

VARIABLES
  part,
  \* Replacement
  name, fits, bindings, revision, plans, queue, saving

replacementVars == <<name, fits, bindings, revision, plans, queue, saving>>
PartVars == <<part, rvars, replacementVars>>

MCBatch == {{x} : x \in Asset}
Symmetry == Permutations({g1, g2}) \cup Permutations({n1, n2}) \cup Permutations(Clients)

Hw == INSTANCE Replacement

ASSUME ReplacementConstants == Hw!ReplacementAssumption

-----------------------------------------------------------------------------
Parts == {"adoption", "removal", "keys", "rivals"}

\* Bound: the bindings that a mutation leaves in the removal part.
OneBinding == \A x \in staged.bindings : x.id = b1 /\ x.role = "primary"

\* Bound: a client at a time, or one key.
Active == {c \in Clients : plans[c] # None \/ Hw!Sent(c)}
Requested ==
  {plans[c].key : c \in {d \in Clients : plans[d] # None}}
    \cup {queue[i].key : i \in DOMAIN queue} \cup (IF saving = None THEN {} ELSE {saving.key})

InScope ==
  IF part = "keys" THEN Cardinality(Active) <= 1 /\ revision <= 1 ELSE Requested \subseteq {k1}

PartInit ==
  /\ part \in Parts
  /\ RInit
  /\ part \notin {"adoption", "removal"} => \A g \in RegistryId : hider[g] = "none"
  /\ Hw!Init
  /\ part \notin {"keys", "rivals"} => \A g \in Hardware : name[g] = None

PartNext ==
  \/ /\ part = "adoption" /\ OrdinaryNext
     /\ UNCHANGED <<part, removal, theirs, trouble, replacementVars>>
  \/ /\ part = "removal" /\ RNext /\ OneBinding'
     /\ UNCHANGED <<part, replacementVars>>
  \/ /\ part \in {"keys", "rivals"} /\ UNCHANGED part /\ Hw!Next /\ InScope'
     /\ UNCHANGED rvars

PartSpec == PartInit /\ [][PartNext]_PartVars

\* Adoption alone, with backups that are restored.
RestoreSpec ==
  /\ PartInit /\ part = "adoption"
  /\ [][Next /\ UNCHANGED <<part, removal, theirs, trouble, replacementVars>>]_PartVars

-----------------------------------------------------------------------------
\* As long as the config entry stays.
Kept == removal = "no" /\ trouble = {}

\* Adoption is reversible as long as the config entry stays: what BindHome hid and nobody
\* touched since has a record that will restore it (adoption.py,
\* sync_adoption_visibility_transition).
HidingsRecorded == Kept => NothingLeftHidden

\* And a commit changes no visibility but its own (adoption.py,
\* sync_adoption_visibility_transition).
CommitsUndoOwn == [][Kept => OwnHidingOnly]_PartVars

\* A removal of the entry that meets no mutation and no fault leaves nothing hidden by
\* BindHome, but for hardware that was absent, and shows only what BindHome hid and nobody
\* touched since (__init__.py async_remove_entry, adoption.py
\* sync_adoption_visibility_transition).
RemovalReverses == []CalmRemovalShowsAll /\ RemovalShowsOnlyOwn

\* No candidate for a replacement is in use, whatever was renamed since it was bound, and what
\* a replacement takes the place of is what its plan said is there (replacement.py
\* replacement_candidates, async_replace_binding).
ReplacementReviewed == []Hw!TypeOK /\ []Hw!CandidatesUnused /\ Hw!ReplacesReviewed
=============================================================================

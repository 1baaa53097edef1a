---------------------------- MODULE Composition ----------------------------
(***************************************************************************)
(* Logical lights bound to logical lights.  A binding stores the name its  *)
(* target had and the stable identity of its Entity Registry entry.  The   *)
(* resolver follows the identity; the cycle check and the deletion impact  *)
(* go by the name.  The two agree as long as nothing is renamed and no     *)
(* light is taken away under a binding (StableSpec).                       *)
(*                                                                         *)
(* Commits are atomic here: module Manager is about what lies between.     *)
(* Roles are left out (the contract of a light uses one), and so are       *)
(* targets without an entry, which no logical light is.                    *)
(***************************************************************************)
CONSTANTS
  Light,       \* assets that can be represented as lights
  Device,      \* entries of other integrations
  Capability,
  Controls,    \* the capability a light depends on
  Name,        \* entity ids; every entry is its own suggested name
  NoName,      \* the entry does not exist
  Unbound

ASSUME CompositionAssumption ==
  /\ Light \cup Device \subseteq Name
  /\ Light \cap Device = {}
  /\ Controls \in Capability
  /\ NoName \notin Name

Entry == Light \cup Device
Key == Light \X Capability
Target == [name : Name, entry : Entry]

ASSUME UnboundAssumption == Unbound \notin Target

VARIABLES
  assets,       \* assets not deleted
  represented,  \* assets with a light representation
  entity,       \* Home Assistant's Entity Registry: the name of each entry
  bound         \* the target of each binding key

vars == <<assets, represented, entity, bound>>

Init ==
  /\ assets = Light
  /\ represented = {}
  /\ entity = [e \in Entry |-> IF e \in Device THEN e ELSE NoName]
  /\ bound = [k \in Key |-> Unbound]

Free(n) == \A e \in Entry : entity[e] # n

-----------------------------------------------------------------------------
(***************************************************************************)
(* What the code computes by name.                                         *)
(***************************************************************************)

Dependency(a) == <<a, Controls>>

\* The represented light that now has the name.
NamesLight(n, a) == a \in represented /\ entity[a] = n

\* adjacency, without the edges of the key that is about to be replaced.
NamedEdge(source, k, l) ==
  /\ k # source
  /\ bound[k] # Unbound
  /\ \E a \in represented : NamesLight(bound[k].name, a) /\ l = Dependency(a)

\* A set of keys that the search cannot leave.
Closed(source, S) == \A k \in S, l \in Key : NamedEdge(source, k, l) => l \in S

\* _find_path: every such set with the start in it has the goal in it.
FindPath(start, goal) ==
  \A S \in SUBSET Key : start \in S /\ Closed(goal, S) => goal \in S

\* Mutant: only the binding of a light to itself is refused.
IsCycleDirect(k, n) == \E a \in represented : NamesLight(n, a) /\ Dependency(a) = k

\* Mutant: cycles are looked for between assets, not between keys.
IsCycleOfAssets(k, n) ==
  \E a \in represented : NamesLight(n, a) /\ FindPath(Dependency(a), Dependency(k[1]))

IsCycle(k, n) == \E a \in represented : NamesLight(n, a) /\ FindPath(Dependency(a), k)

\* Mutant: the deletion takes the bindings of the asset only.
NoDependents(a) == {k \in Key : k \in {} /\ a \in represented}

\* Bindings of other assets whose stored name is now the name of asset a's light.
Dependents(a) ==
  {k \in Key : k[1] # a /\ bound[k] # Unbound /\ a \in represented
                 /\ NamesLight(bound[k].name, a)}

-----------------------------------------------------------------------------
(***************************************************************************)
(* Commands and the reconciliation of entities that follows them.          *)
(***************************************************************************)

Represent(a) ==
  /\ a \in assets
  /\ represented' = represented \cup {a}
  /\ UNCHANGED <<assets, entity, bound>>

Unrepresent(a) ==
  /\ a \in represented
  /\ represented' = represented \ {a}
  /\ UNCHANGED <<assets, entity, bound>>

\* An entity gets its suggested name, or another one if that is taken.
AddLight(a) ==
  /\ a \in represented /\ entity[a] = NoName
  /\ \E n \in Name :
       /\ Free(n) /\ (Free(a) => n = a)
       /\ entity' = [entity EXCEPT ![a] = n]
  /\ UNCHANGED <<assets, represented, bound>>

RemoveLight(a) ==
  /\ a \notin represented /\ entity[a] # NoName
  /\ entity' = [entity EXCEPT ![a] = NoName]
  /\ UNCHANGED <<assets, represented, bound>>

\* The user renames an entity in Home Assistant.
Rename(e, n) ==
  /\ entity[e] # NoName /\ Free(n)
  /\ entity' = [entity EXCEPT ![e] = n]
  /\ UNCHANGED <<assets, represented, bound>>

SetBinding(k, e) ==
  /\ k[1] \in assets
  /\ entity[e] # NoName
  /\ ~IsCycle(k, entity[e])
  /\ bound' = [bound EXCEPT ![k] = [name |-> entity[e], entry |-> e]]
  /\ UNCHANGED <<assets, represented, entity>>

RemoveBinding(k) ==
  /\ bound[k] # Unbound
  /\ bound' = [bound EXCEPT ![k] = Unbound]
  /\ UNCHANGED <<assets, represented, entity>>

DeleteAsset(a) ==
  /\ a \in assets
  /\ assets' = assets \ {a}
  /\ represented' = represented \ {a}
  /\ bound' = [k \in Key |-> IF k[1] = a \/ k \in Dependents(a) THEN Unbound ELSE bound[k]]
  /\ UNCHANGED entity

StableNext ==
  \/ \E a \in Light : Represent(a) \/ AddLight(a) \/ RemoveLight(a) \/ DeleteAsset(a)
  \/ \E k \in Key : RemoveBinding(k) \/ \E e \in Entry : SetBinding(k, e)

RenamingNext == StableNext \/ \E e \in Entry, n \in Name : Rename(e, n)

Next == RenamingNext \/ \E a \in Light : Unrepresent(a)

StableSpec == Init /\ [][StableNext]_vars
RenamingSpec == Init /\ [][RenamingNext]_vars
Spec == Init /\ [][Next]_vars

-----------------------------------------------------------------------------
(***************************************************************************)
(* What the resolver follows, and properties.                              *)
(***************************************************************************)

\* The state has its shapes, and only assets are represented.
TypeOK ==
  /\ assets \subseteq Light
  /\ represented \subseteq assets
  /\ entity \in [Entry -> Name \cup {NoName}]
  /\ bound \in [Key -> Target \cup {Unbound}]

\* Binding k now resolves to the light of asset a.
ResolvesTo(k, a) ==
  bound[k] # Unbound /\ bound[k].entry = a /\ a \in represented /\ entity[a] # NoName

Follows(k, l) == \E a \in Light : ResolvesTo(k, a) /\ l = Dependency(a)

\* The functional dependency graph has no cycle: no set of keys in which each one
\* depends on another one of the set.  Each accepted binding was checked on its own, so
\* this fails if any later command changes what an accepted one means
\* (manager.py, _validate_binding_target).
Acyclic ==
  \A S \in SUBSET Key : (\A k \in S : \E l \in S : Follows(k, l)) => S = {}

\* The check refuses nothing else: a refused binding would have closed a functional
\* cycle through its key (product-contract.md, granularity of the check).
RefusesOnlyCycles ==
  \A k \in Key, b \in Light :
    entity[b] # NoName /\ IsCycle(k, entity[b]) =>
      \A S \in SUBSET Key :
        Dependency(b) \in S /\ (\A i \in S \ {k}, l \in Key : Follows(i, l) => l \in S) => k \in S

\* A deletion takes with the asset exactly the bindings of others that resolve to its
\* light: none is left behind without a target, no other binding is lost
\* (deletion.py, build_asset_delete_impact).
DeletesExactlyDependents ==
  \A a \in represented :
    entity[a] # NoName => Dependents(a) = {k \in Key : k[1] # a /\ ResolvesTo(k, a)}
=============================================================================

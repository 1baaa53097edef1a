-------------------------- MODULE CompositionProofs --------------------------
(***************************************************************************)
(* With stable names, checking one binding at a time keeps the functional  *)
(* graph acyclic, for any number of lights and keys.  The check is by name *)
(* and the graph by identity, so the invariant first says that the two     *)
(* agree; the rest is one argument about closed sets of keys.              *)
(*                                                                         *)
(* And what is computed on a snapshot of the registry means what it says,  *)
(* for any consumers, files and graphs: audits of references, files of     *)
(* CSV rows, traversals and shortest paths.                                *)
(***************************************************************************)
EXTENDS MCComposition, TLAPS, Sequences, SequenceTheorems, FiniteSetTheorems, WellFoundedInduction

\* Every existing entity has its own name, and so has every target.
NamesAgree ==
  /\ \A e \in Entry : entity[e] \in {e, NoName}
  /\ \A k \in Key : bound[k] # Unbound => bound[k].name = bound[k].entry

\* While an asset exists, its light exists only with its representation, and stays as
\* long as a binding points at it.
LightsStay ==
  \A a \in assets :
    /\ entity[a] # NoName => a \in represented
    /\ \A k \in Key : bound[k] # Unbound /\ bound[k].entry = a => entity[a] # NoName

IInv == TypeOK /\ NamesAgree /\ LightsStay /\ Acyclic

\* The check sees the functional graph.
LEMMA NamedEdgesAreFollowed ==
  ASSUME TypeOK, NamesAgree, NEW k \in Key, NEW i \in Key, NEW l \in Key
  PROVE  NamedEdge(k, i, l) <=> i # k /\ Follows(i, l)
<1>1. ASSUME bound[i] # Unbound, NEW a \in represented
      PROVE  NamesLight(bound[i].name, a) <=> ResolvesTo(i, a)
  <2>1. /\ bound[i].name \in Name /\ bound[i].name = bound[i].entry
        /\ a \in Entry /\ a \in Name /\ entity[a] \in {a, NoName}
    BY <1>1, CompositionAssumption DEF TypeOK, NamesAgree, Target, Entry
  <2> QED
    BY <1>1, <2>1, CompositionAssumption DEF NamesLight, ResolvesTo
<1>2. \A a : ResolvesTo(i, a) => bound[i] # Unbound /\ a \in represented
  BY DEF ResolvesTo
<1>3. represented \subseteq Light
  BY DEF TypeOK
<1> QED
  BY <1>1, <1>2, <1>3 DEF NamedEdge, Follows

\* Removing edges closes no cycle.
LEMMA LessIsAcyclic ==
  ASSUME Acyclic, \A k, l \in Key : Follows(k, l)' => Follows(k, l)
  PROVE  Acyclic'
BY DEF Acyclic

\* The invariant holds initially.
LEMMA InitInv == Init => IInv
<1> SUFFICES ASSUME Init
             PROVE  IInv
  OBVIOUS
<1>1. TypeOK
  BY CompositionAssumption DEF Init, TypeOK, Entry
<1>2. NamesAgree /\ LightsStay
  BY CompositionAssumption DEF Init, NamesAgree, LightsStay, Entry
<1>3. Acyclic
  BY DEF Init, Acyclic, Follows, ResolvesTo
<1> QED
  BY <1>1, <1>2, <1>3 DEF IInv

-----------------------------------------------------------------------------
(***************************************************************************)
(* Commands that add no dependency.                                        *)
(***************************************************************************)

\* A new representation has no entity yet, so no stored name can mean it.
LEMMA RepresentInv ==
  ASSUME IInv, NEW a \in Light, Represent(a)
  PROVE  IInv'
<1>1. TypeOK' /\ NamesAgree' /\ LightsStay'
  BY DEF IInv, TypeOK, NamesAgree, LightsStay, Represent
<1>2. \A k, l \in Key : Follows(k, l)' => Follows(k, l)
  BY DEF IInv, LightsStay, Follows, ResolvesTo, Represent
<1> QED
  BY <1>1, <1>2, LessIsAcyclic DEF IInv

\* A light takes its own name, which only bindings to it have stored.
LEMMA AddLightInv ==
  ASSUME IInv, NEW a \in Light, AddLight(a)
  PROVE  IInv'
<1>1. a \in Entry /\ a \in Name /\ a # NoName /\ a \in assets /\ entity[a] = NoName
  BY CompositionAssumption DEF IInv, TypeOK, AddLight, Entry
<1>2. Free(a)
  BY <1>1 DEF Free, IInv, NamesAgree
<1>3. entity' = [entity EXCEPT ![a] = a]
  BY <1>2 DEF AddLight
<1>4. TypeOK'
  BY <1>1, <1>3 DEF IInv, TypeOK, AddLight
<1>5. NamesAgree' /\ LightsStay'
  BY <1>1, <1>3 DEF IInv, TypeOK, NamesAgree, LightsStay, AddLight
<1>6. \A k, l \in Key : Follows(k, l)' => Follows(k, l)
  <2>1. \A k \in Key, b \in Light : ResolvesTo(k, b)' => ResolvesTo(k, b)
    BY <1>1, <1>3 DEF IInv, TypeOK, LightsStay, ResolvesTo, AddLight
  <2> QED
    BY <2>1 DEF Follows, Dependency
<1> QED
  BY <1>4, <1>5, <1>6, LessIsAcyclic DEF IInv

\* A light is removed after its representation, when nothing resolves to it.
LEMMA RemoveLightInv ==
  ASSUME IInv, NEW a \in Light, RemoveLight(a)
  PROVE  IInv'
<1>1. a \in Entry /\ a \notin assets
  BY DEF IInv, LightsStay, RemoveLight, Entry
<1>2. TypeOK' /\ NamesAgree'
  BY <1>1 DEF IInv, TypeOK, NamesAgree, RemoveLight
<1>3. LightsStay'
  BY <1>1, CompositionAssumption DEF IInv, TypeOK, LightsStay, RemoveLight, Entry
<1>4. \A k, l \in Key : Follows(k, l)' => Follows(k, l)
  <2>1. \A k \in Key, b \in Light : ResolvesTo(k, b)' => ResolvesTo(k, b)
    BY <1>1 DEF IInv, TypeOK, ResolvesTo, RemoveLight, Entry
  <2> QED
    BY <2>1 DEF Follows, Dependency
<1> QED
  BY <1>2, <1>3, <1>4, LessIsAcyclic DEF IInv

\* Removing a binding removes edges.
LEMMA RemoveBindingInv ==
  ASSUME IInv, NEW k \in Key, RemoveBinding(k)
  PROVE  IInv'
<1>1. \A i \in Key : bound'[i] = IF i = k THEN Unbound ELSE bound[i]
  BY DEF IInv, TypeOK, RemoveBinding
<1>2. TypeOK' /\ NamesAgree' /\ LightsStay'
  BY <1>1 DEF IInv, TypeOK, NamesAgree, LightsStay, RemoveBinding
<1>3. \A i, l \in Key : Follows(i, l)' => Follows(i, l)
  BY <1>1 DEF Follows, ResolvesTo, RemoveBinding
<1> QED
  BY <1>2, <1>3, LessIsAcyclic DEF IInv

\* The deletion removes edges, and all that lead to the asset.
LEMMA DeleteAssetInv ==
  ASSUME IInv, NEW a \in Light, DeleteAsset(a)
  PROVE  IInv'
<1>1. \A i \in Key : bound'[i] = bound[i] \/ bound'[i] = Unbound
  BY DEF DeleteAsset
<1>2. bound' \in [Key -> Target \cup {Unbound}]
  BY DEF IInv, TypeOK, DeleteAsset
<1>3. TypeOK' /\ NamesAgree' /\ LightsStay'
  BY <1>1, <1>2 DEF IInv, TypeOK, NamesAgree, LightsStay, DeleteAsset
<1>4. \A i, l \in Key : Follows(i, l)' => Follows(i, l)
  BY <1>1 DEF Follows, ResolvesTo, DeleteAsset
<1> QED
  BY <1>3, <1>4, LessIsAcyclic DEF IInv

-----------------------------------------------------------------------------
(***************************************************************************)
(* The one that does.                                                      *)
(***************************************************************************)

\* A cycle in the new graph runs through the new edge, and the check saw its way back.
LEMMA SetBindingInv ==
  ASSUME IInv, NEW k \in Key, NEW e \in Entry, SetBinding(k, e)
  PROVE  IInv'
<1>1. e \in Name /\ entity[e] = e
  BY CompositionAssumption DEF IInv, NamesAgree, SetBinding, Entry
<1>2. /\ bound' = [bound EXCEPT ![k] = [name |-> e, entry |-> e]]
      /\ UNCHANGED <<assets, represented, entity>>
  BY <1>1 DEF SetBinding
<1>3. [name |-> e, entry |-> e] \in Target
  BY <1>1 DEF Target
<1>4. \A i \in Key : bound'[i] = IF i = k THEN [name |-> e, entry |-> e] ELSE bound[i]
  BY <1>2 DEF IInv, TypeOK
<1>5. TypeOK'
  BY <1>2, <1>3 DEF IInv, TypeOK
<1>6. NamesAgree'
  BY <1>2, <1>4 DEF IInv, NamesAgree
<1>7. LightsStay'
  BY <1>1, <1>2, <1>4, CompositionAssumption DEF IInv, LightsStay, SetBinding
<1>8. \A i, l \in Key : i # k => (Follows(i, l)' <=> Follows(i, l))
  BY <1>2, <1>4 DEF Follows, ResolvesTo
<1>9. \A l \in Key : Follows(k, l)' => e \in represented /\ l = Dependency(e)
  BY <1>2, <1>4 DEF Follows, ResolvesTo
<1>10. Acyclic'
  <2>1. CASE e \notin represented
    <3>1. \A i, l \in Key : Follows(i, l)' => Follows(i, l)
      BY <1>8, <1>9, <2>1
    <3> QED
      BY <3>1, LessIsAcyclic DEF IInv
  <2>2. CASE e \in represented
    <3>1. ~FindPath(Dependency(e), k)
      BY <1>1, <2>2 DEF SetBinding, IsCycle, NamesLight
    <3>2. PICK C \in SUBSET Key : Dependency(e) \in C /\ Closed(k, C) /\ k \notin C
      BY <3>1 DEF FindPath
    <3>3. \A i \in C, l \in Key : Follows(i, l) => l \in C
      BY <3>2, NamedEdgesAreFollowed DEF IInv, Closed
    <3> SUFFICES ASSUME NEW S \in SUBSET Key,
                        \A i \in S : \E l \in S : Follows(i, l)'
                 PROVE  S = {}
      BY DEF Acyclic
    <3>4. S \cap C = {}
      <4>1. \A i \in S \cap C : \E l \in S \cap C : Follows(i, l)
        BY <1>8, <3>2, <3>3
      <4> QED
        BY <4>1 DEF IInv, Acyclic
    <3>5. k \notin S
      BY <1>9, <3>2, <3>4
    <3>6. \A i \in S : \E l \in S : Follows(i, l)
      BY <1>8, <3>5
    <3> QED
      BY <3>6 DEF IInv, Acyclic
  <2> QED
    BY <2>1, <2>2
<1> QED
  BY <1>5, <1>6, <1>7, <1>10 DEF IInv

\* Every step keeps the invariant.
LEMMA NextInv == IInv /\ [StableNext]_vars => IInv'
<1> SUFFICES ASSUME IInv, [StableNext]_vars
             PROVE  IInv'
  OBVIOUS
<1>1. CASE UNCHANGED vars
  BY <1>1 DEF vars, IInv, TypeOK, NamesAgree, LightsStay, Acyclic, Follows, ResolvesTo
<1> QED
  BY <1>1, RepresentInv, AddLightInv, RemoveLightInv, RemoveBindingInv, DeleteAssetInv,
     SetBindingInv DEF StableNext

\* Under StableSpec names and identities agree and the functional graph is acyclic, in
\* every reachable state (manager.py, _validate_binding_target).
THEOREM Invariance == StableSpec => []IInv
<1> QED
  BY InitInv, NextInv, PTL DEF StableSpec

\* The state keeps its shapes, and only assets are represented, although entities are renamed
\* and representations removed.
THEOREM TypeCorrect == Spec => []TypeOK
<1>1. Init => TypeOK
  BY InitInv DEF IInv
<1>2. TypeOK /\ [Next]_vars => TypeOK'
  <2> SUFFICES ASSUME TypeOK, [Next]_vars
               PROVE  TypeOK'
    OBVIOUS
  <2> USE DEF TypeOK
  <2>1. ASSUME NEW a \in Light, Represent(a) \/ Unrepresent(a) \/ AddLight(a) \/ RemoveLight(a)
        PROVE  TypeOK'
    BY <2>1 DEF Represent, Unrepresent, AddLight, RemoveLight
  <2>2. ASSUME NEW a \in Light, DeleteAsset(a)
        PROVE  TypeOK'
    BY <2>2 DEF DeleteAsset
  <2>3. ASSUME NEW k \in Key, RemoveBinding(k)
        PROVE  TypeOK'
    BY <2>3 DEF RemoveBinding
  <2>4. ASSUME NEW k \in Key, NEW e \in Entry, SetBinding(k, e)
        PROVE  TypeOK'
    <3>1. [name |-> entity[e], entry |-> e] \in Target
      BY <2>4 DEF SetBinding, Target
    <3> QED
      BY <2>4, <3>1 DEF SetBinding
  <2>5. ASSUME NEW e \in Entry, NEW n \in Name, Rename(e, n)
        PROVE  TypeOK'
    BY <2>5 DEF Rename
  <2>6. CASE UNCHANGED vars
    BY <2>6 DEF vars
  <2> QED
    BY <2>1, <2>2, <2>3, <2>4, <2>5, <2>6 DEF Next, RenamingNext, StableNext
<1> QED
  BY <1>1, <1>2, PTL DEF Spec

\* However many lights are composed, created, deleted and rebound, no functional cycle
\* ever closes while names are stable (manager.py, _validate_binding_target).
THEOREM StaysAcyclic == StableSpec => []Acyclic
<1>1. IInv => Acyclic
  BY DEF IInv
<1> QED
  BY <1>1, Invariance, PTL

\* And the check never refuses a binding that closes none.
THEOREM RefusalsAreCycles == StableSpec => []RefusesOnlyCycles
<1>1. ASSUME IInv
      PROVE  RefusesOnlyCycles
  <2> SUFFICES ASSUME NEW k \in Key, NEW b \in Light, entity[b] # NoName, IsCycle(k, entity[b]),
                      NEW S \in SUBSET Key, Dependency(b) \in S,
                      \A i \in S \ {k}, l \in Key : Follows(i, l) => l \in S
               PROVE  k \in S
    BY DEF RefusesOnlyCycles
  <2>1. PICK a \in represented : NamesLight(entity[b], a) /\ FindPath(Dependency(a), k)
    BY DEF IsCycle
  <2>2. a = b
    BY <1>1, <2>1 DEF IInv, TypeOK, NamesAgree, NamesLight, Entry
  <2>3. Closed(k, S)
    BY <1>1, NamedEdgesAreFollowed DEF IInv, Closed
  <2> QED
    BY <2>1, <2>2, <2>3 DEF FindPath
<1> QED
  BY <1>1, Invariance, PTL

\* A deletion takes exactly the bindings that resolve to the light it removes
\* (deletion.py, build_asset_delete_impact).
THEOREM DeletionsAreExact == StableSpec => []DeletesExactlyDependents
<1>1. ASSUME IInv
      PROVE  DeletesExactlyDependents
  <2> SUFFICES ASSUME NEW a \in represented, entity[a] # NoName
               PROVE  Dependents(a) = {k \in Key : k[1] # a /\ ResolvesTo(k, a)}
    BY DEF DeletesExactlyDependents
  <2>1. a \in Entry /\ entity[a] = a
    BY <1>1 DEF IInv, TypeOK, NamesAgree, Entry
  <2>2. \A k \in Key : bound[k] # Unbound => bound[k].name = bound[k].entry
    BY <1>1 DEF IInv, NamesAgree
  <2> QED
    BY <2>1, <2>2 DEF Dependents, NamesLight, ResolvesTo
<1> QED
  BY <1>1, Invariance, PTL

-----------------------------------------------------------------------------
(***************************************************************************)
(* ReferenceAudit: what holds of a report for any keys, names, lights and  *)
(* consumers.  What was found stays justified by the targets the audit     *)
(* began with, and these are the targets of now until something changes.   *)
(***************************************************************************)

Report == [consumer : Audit!Consumers, name : Names, replacement : Audit!Assets \cup {NoName}, rewrite : BOOLEAN]

AuditRecord ==
  [ phase   : {"idle", "loading", "reported"},
    targets : UNION { [D -> SUBSET Audit!Assets] : D \in SUBSET Names },
    left    : SUBSET Dashboards,
    found   : SUBSET Report,
    gaps    : SUBSET (Audit!Kind \cup Dashboards) ]

\* What is said of a reference was found among the targets of the start.
Justified ==
  \A f \in audit.found :
    /\ f.name \in DOMAIN audit.targets
    /\ f.replacement = Audit!Replacement(audit.targets[f.name])
    /\ f.rewrite => f.replacement # NoName

\* Until something changes, these are the targets of now.
TargetsHold == audit.phase # "idle" /\ changes = 0 => audit.targets = Audit!Targets

\* A binding that is as it was is one of the targets.
SteadyKeys ==
  audit.phase # "idle" =>
    \A k \in Keys \cap steady :
      auditBound[k] # NoName => Audit!TargetName(auditBound[k]) \in DOMAIN audit.targets

Reported(c) == \E f \in audit.found : f.consumer = c /\ f.name = uses[c].name

\* A consumer that is as it was is still to be read, or has been, or could not be.
SteadyConsumers ==
  audit.phase # "idle" =>
    \A c \in Audit!Consumers \cap steady :
      \/ c \in audit.left \/ c \in audit.gaps \/ Audit!KindOf(c) \in audit.gaps
      \/ uses[c] = NoName \/ uses[c].name \notin DOMAIN audit.targets \/ Reported(c)

AuditInv ==
  /\ auditBound \in [Keys -> Audit!Binding \cup {NoName}] /\ nameOf \in [Hardware -> Names \cup {NoName}]
  /\ lights \subseteq Audit!Assets /\ changes \in Nat /\ audit \in AuditRecord
  /\ DOMAIN uses = Audit!Consumers /\ \A c \in Audit!Consumers : uses[c] \in Audit!References(c)
  /\ audit.phase = "reported" => audit.left = {}
  /\ Justified /\ TargetsHold /\ SteadyKeys /\ SteadyConsumers

\* One of one option is chosen, or none.
LEMMA ReplacementOK ==
  ASSUME Audit!AuditAssumption, NEW options \in SUBSET Audit!Assets
  PROVE  /\ Audit!Replacement(options) \in Audit!Assets \cup {NoName}
         /\ Audit!Replacement(options) # NoName => options = {Audit!Replacement(options)}
<1>1. IsFiniteSet(options)
  <2>1. IsFiniteSet({AssetOf(k) : k \in Keys})
    <3> DEFINE T == {AssetOf(k) : k \in Keys}
               f == [k \in Keys |-> AssetOf(k)]
    <3>1. f \in Surjection(Keys, T)
      <4>1. f \in [Keys -> T] /\ \A t \in T : \E k \in Keys : f[k] = t
        OBVIOUS
      <4> HIDE DEF f, T
      <4> QED BY <4>1 DEF Surjection
    <3> HIDE DEF f, T
    <3>2. IsFiniteSet(Keys)
      BY DEF Audit!AuditAssumption, Audit!IsFiniteSet, IsFiniteSet
    <3>3. IsFiniteSet(T)
      BY <3>1, <3>2, FS_Surjection
    <3> QED BY <3>3 DEF T
  <2> QED BY <2>1, FS_Subset DEF Audit!Assets
<1>2. CASE Cardinality(options) = 1
  <2>1. PICK a : options = {a}
    BY <1>1, <1>2, FS_Singleton
  <2> QED BY <1>2, <2>1 DEF Audit!Replacement, Audit!AuditAssumption
<1>3. CASE Cardinality(options) # 1
  BY <1>3 DEF Audit!Replacement
<1> QED BY <1>2, <1>3

LEMMA TargetsOK ==
  /\ Audit!Targets \in UNION { [D -> SUBSET Audit!Assets] : D \in SUBSET Names }
  /\ DOMAIN Audit!Targets \subseteq Names
  /\ \A n \in DOMAIN Audit!Targets : Audit!Targets[n] = Audit!LogicalFor(n)
  /\ \A n \in Names : Audit!BoundTo(n) # {} => n \in DOMAIN Audit!Targets
<1> DEFINE D == { m \in Names : Audit!BoundTo(m) # {} }
<1>1. Audit!Targets = [n \in D |-> Audit!LogicalFor(n)]
  BY DEF Audit!Targets
<1>2. \A n \in D : Audit!LogicalFor(n) \in SUBSET Audit!Assets
  BY DEF Audit!LogicalFor, Audit!Assets, Audit!BoundTo
<1>3. D \in SUBSET Names /\ Audit!Targets \in [D -> SUBSET Audit!Assets]
  BY <1>1, <1>2
<1> QED BY <1>1, <1>3

\* What is found of c.
LEMMA FoundOK ==
  ASSUME Audit!AuditAssumption, NEW targets, NEW D \in SUBSET Names, targets \in [D -> SUBSET Audit!Assets],
         NEW c \in Audit!Consumers, uses[c] \in Audit!References(c)
  PROVE  /\ \A f \in Audit!Found(targets, c) :
              /\ f \in Report /\ f.name \in D /\ f.replacement = Audit!Replacement(targets[f.name])
              /\ f.rewrite => f.replacement # NoName
         /\ uses[c] # NoName /\ uses[c].name \in D =>
              \E f \in Audit!Found(targets, c) : f.consumer = c /\ f.name = uses[c].name
<1>1. CASE uses[c] = NoName \/ uses[c].name \notin D
  BY <1>1 DEF Audit!Found
<1>2. CASE uses[c] # NoName /\ uses[c].name \in D
  <2> DEFINE by == Audit!Replacement(targets[uses[c].name])
             f == [ consumer |-> c, name |-> uses[c].name, replacement |-> by,
                    rewrite |-> by # NoName /\ uses[c].match = "direct" /\ c \notin Automations ]
  <2>1. by \in Audit!Assets \cup {NoName}
    BY <1>2, ReplacementOK
  <2>2. Audit!Found(targets, c) = {f}
    BY <1>2 DEF Audit!Found
  <2>3. f \in Report /\ f.name = uses[c].name /\ f.consumer = c /\ f.replacement = by
        /\ (f.rewrite => f.replacement # NoName)
    BY <1>2, <2>1 DEF Report
  <2> HIDE DEF f, by
  <2> QED BY <1>2, <2>2, <2>3 DEF by
<1> QED BY <1>1, <1>2

LEMMA AuditInit == ASSUME Audit!AuditAssumption, Audit!Init PROVE AuditInv
<1>1. audit \in AuditRecord
  <2>1. <<>> \in [{} -> SUBSET Audit!Assets] /\ DOMAIN <<>> = {}
    OBVIOUS
  <2> QED BY <2>1 DEF Audit!Init, Audit!Idle, AuditRecord
<1>2. DOMAIN uses = Audit!Consumers
  BY DEF Audit!Init
<1> QED BY <1>1, <1>2 DEF Audit!Init, Audit!Idle, AuditInv, Justified, TargetsHold, SteadyKeys, SteadyConsumers

\* The audit begins with the targets of now.
LEMMA BeginAudit == ASSUME Audit!AuditAssumption, AuditInv, Audit!Begin PROVE AuditInv'
<1> DEFINE R == { r \in Audit!Reporters : Audit!KindOf(r) \in sources }
           L == { d \in Dashboards : "dashboard" \in sources }
           F == UNION { Audit!Found(Audit!Targets, c) : c \in R }
           G == { k \in Audit!Kind : k \notin sources }
<1>1. /\ audit' = [phase |-> "loading", targets |-> Audit!Targets, left |-> L, found |-> F, gaps |-> G]
      /\ UNCHANGED <<auditBound, nameOf, lights, uses, sources, changes, steady>>
  BY DEF Audit!Begin
<1>2. PICK D \in SUBSET Names : Audit!Targets \in [D -> SUBSET Audit!Assets] /\ DOMAIN Audit!Targets = D
  BY TargetsOK
<1>3. /\ \A f \in F : /\ f \in Report /\ f.name \in D /\ f.replacement = Audit!Replacement(Audit!Targets[f.name])
                      /\ f.rewrite => f.replacement # NoName
      /\ \A c \in R : uses[c] # NoName /\ uses[c].name \in D =>
                        \E f \in F : f.consumer = c /\ f.name = uses[c].name
  <2>1. ASSUME NEW c \in R
        PROVE  /\ \A f \in Audit!Found(Audit!Targets, c) :
                    /\ f \in Report /\ f.name \in D /\ f.replacement = Audit!Replacement(Audit!Targets[f.name])
                    /\ f.rewrite => f.replacement # NoName
               /\ uses[c] # NoName /\ uses[c].name \in D =>
                    \E f \in Audit!Found(Audit!Targets, c) : f.consumer = c /\ f.name = uses[c].name
    <3>1. c \in Audit!Consumers /\ uses[c] \in Audit!References(c)
      BY DEF AuditInv, Audit!Consumers
    <3> QED BY <1>2, <3>1, FoundOK
  <2> QED BY <2>1
<1> HIDE DEF R, L, F, G
<1>4. audit' \in AuditRecord
  <2>1. L \in SUBSET Dashboards /\ G \in SUBSET (Audit!Kind \cup Dashboards) /\ F \in SUBSET Report
    BY <1>3 DEF L, G
  <2> QED BY <1>1, <1>2, <2>1 DEF AuditRecord
<1>5. /\ audit'.phase = "loading" /\ audit'.targets = Audit!Targets /\ audit'.left = L
      /\ audit'.found = F /\ audit'.gaps = G
  BY <1>1
<1>6. Justified'
  <2>1. \A S : Audit!Replacement(S)' = Audit!Replacement(S)
    BY DEF Audit!Replacement
  <2> QED BY <1>2, <1>3, <1>5, <2>1 DEF Justified
<1>7. Audit!Targets' = Audit!Targets
  BY <1>1 DEF Audit!Targets, Audit!BoundTo, Audit!LogicalFor, Audit!TargetName
<1>8. SteadyKeys'
  <2>1. ASSUME NEW k \in Keys, auditBound[k] # NoName PROVE Audit!TargetName(auditBound[k]) \in DOMAIN Audit!Targets
    <3>1. Audit!TargetName(auditBound[k]) \in Names
      BY <2>1 DEF AuditInv, Audit!TargetName, Audit!Binding
    <3> QED BY <2>1, <3>1, TargetsOK DEF Audit!BoundTo
  <2>2. \A k \in Keys : Audit!TargetName(auditBound[k])' = Audit!TargetName(auditBound[k])
    BY <1>1 DEF Audit!TargetName
  <2> QED BY <1>1, <1>5, <2>1, <2>2 DEF SteadyKeys
<1>9. SteadyConsumers'
  <2>1. ASSUME NEW c \in Audit!Consumers
        PROVE  \/ c \in L \/ Audit!KindOf(c) \in G
               \/ uses[c] = NoName \/ uses[c].name \notin D \/ \E f \in F : f.consumer = c /\ f.name = uses[c].name
    <3>1. CASE c \in Audit!Reporters
      <4>1. Audit!KindOf(c) \in Audit!Kind BY DEF Audit!KindOf, Audit!Kind
      <4>2. c \in R \/ Audit!KindOf(c) \in G BY <3>1, <4>1 DEF R, G
      <4> QED BY <1>3, <4>2
    <3>2. CASE c \notin Audit!Reporters
      <4>1. c \in Dashboards /\ Audit!KindOf(c) = "dashboard"
        BY <3>2 DEF Audit!Consumers, Audit!Reporters, Audit!KindOf
      <4> QED BY <4>1 DEF L, G, Audit!Kind
    <3> QED BY <3>1, <3>2
  <2>2. Audit!Consumers' = Audit!Consumers /\ \A c : Audit!KindOf(c)' = Audit!KindOf(c)
    BY DEF Audit!Consumers, Audit!Reporters, Audit!KindOf
  <2> QED BY <1>1, <1>2, <1>5, <2>1, <2>2 DEF SteadyConsumers, Reported
<1>10. TargetsHold'
  BY <1>5, <1>7 DEF TargetsHold
<1> QED BY <1>1, <1>4, <1>5, <1>6, <1>8, <1>9, <1>10 DEF AuditInv, Audit!Binding, Audit!Assets, Audit!References, Audit!Consumers

\* A dashboard is read, or cannot be.
LEMMA LoadAudit == ASSUME Audit!AuditAssumption, AuditInv, NEW d \in Dashboards, Audit!Load(d) PROVE AuditInv'
<1>1. /\ audit.phase = "loading" /\ d \in audit.left /\ audit \in AuditRecord
      /\ UNCHANGED <<auditBound, nameOf, lights, uses, sources, changes, steady>>
      /\ audit'.phase = audit.phase /\ audit'.targets = audit.targets /\ audit'.left = audit.left \ {d}
      /\ \/ audit'.found = audit.found \cup Audit!Found(audit.targets, d) /\ audit'.gaps = audit.gaps
         \/ audit'.found = audit.found /\ audit'.gaps = audit.gaps \cup {d}
      /\ audit' = [ phase |-> audit'.phase, targets |-> audit'.targets, left |-> audit'.left,
                    found |-> audit'.found, gaps |-> audit'.gaps ]
  BY DEF Audit!Load, AuditInv, AuditRecord
<1>2. PICK D \in SUBSET Names : audit.targets \in [D -> SUBSET Audit!Assets] /\ DOMAIN audit.targets = D
  BY <1>1 DEF AuditRecord
<1>3. /\ \A f \in Audit!Found(audit.targets, d) :
           /\ f \in Report /\ f.name \in D /\ f.replacement = Audit!Replacement(audit.targets[f.name])
           /\ f.rewrite => f.replacement # NoName
      /\ uses[d] # NoName /\ uses[d].name \in D =>
           \E f \in Audit!Found(audit.targets, d) : f.consumer = d /\ f.name = uses[d].name
  <2>1. d \in Audit!Consumers /\ uses[d] \in Audit!References(d)
    BY DEF AuditInv, Audit!Consumers
  <2> QED BY <1>2, <2>1, FoundOK
<1>4. audit' \in AuditRecord
  <2>1. /\ audit'.left \in SUBSET Dashboards /\ audit'.gaps \in SUBSET (Audit!Kind \cup Dashboards)
        /\ audit'.found \in SUBSET Report
    BY <1>1, <1>3 DEF AuditRecord
  <2> QED BY <1>1, <2>1 DEF AuditRecord
<1>5. Justified'
  <2>1. \A S : Audit!Replacement(S)' = Audit!Replacement(S)
    BY DEF Audit!Replacement
  <2> QED BY <1>1, <1>2, <1>3, <2>1 DEF AuditInv, Justified
<1>6. Audit!Targets' = Audit!Targets /\ \A b : Audit!TargetName(b)' = Audit!TargetName(b)
  BY <1>1 DEF Audit!Targets, Audit!BoundTo, Audit!LogicalFor, Audit!TargetName
<1>7. TargetsHold' /\ SteadyKeys'
  BY <1>1, <1>6 DEF AuditInv, TargetsHold, SteadyKeys
<1>8. SteadyConsumers'
  <2>1. Audit!Consumers' = Audit!Consumers /\ \A c : Audit!KindOf(c)' = Audit!KindOf(c)
    BY DEF Audit!Consumers, Audit!Reporters, Audit!KindOf
  <2> QED BY <1>1, <1>2, <1>3, <2>1 DEF AuditInv, SteadyConsumers, Reported
<1> QED BY <1>1, <1>4, <1>5, <1>7, <1>8 DEF AuditInv, Audit!Binding, Audit!Assets, Audit!References, Audit!Consumers

\* Everything may change while dashboards are awaited.
LEMMA ChangeAudit ==
  ASSUME Audit!AuditAssumption, AuditInv,
         \/ \E k \in Keys : Audit!Bind(k)
         \/ \E a \in Audit!Assets : Audit!Represent(a)
         \/ \E h \in Hardware : Audit!Rename(h)
         \/ \E c \in Audit!Consumers : Audit!Edit(c)
  PROVE  AuditInv'
<1> USE DEF AuditInv
<1>1. changes' = changes + 1 /\ changes' # 0 /\ changes' \in Nat /\ audit' = audit
  BY DEF Audit!Bind, Audit!Represent, Audit!Rename, Audit!Edit, Audit!Change
<1>2. /\ auditBound' \in [Keys -> Audit!Binding \cup {NoName}] /\ nameOf' \in [Hardware -> Names \cup {NoName}]
      /\ lights' \subseteq Audit!Assets
  <2>1. ASSUME NEW k \in Keys, Audit!Bind(k)
        PROVE  auditBound' \in [Keys -> Audit!Binding \cup {NoName}] /\ UNCHANGED <<nameOf, lights>>
    BY <2>1 DEF Audit!Bind, Audit!Binding
  <2>2. ASSUME NEW h \in Hardware, Audit!Rename(h)
        PROVE  nameOf' \in [Hardware -> Names \cup {NoName}] /\ UNCHANGED <<auditBound, lights>>
    BY <2>2 DEF Audit!Rename
  <2>3. ASSUME NEW a \in Audit!Assets, Audit!Represent(a)
        PROVE  lights' \subseteq Audit!Assets /\ UNCHANGED <<auditBound, nameOf>>
    BY <2>3 DEF Audit!Represent
  <2> QED BY <2>1, <2>2, <2>3 DEF Audit!Edit
<1>3. DOMAIN uses' = Audit!Consumers /\ \A c \in Audit!Consumers : uses'[c] \in Audit!References(c)
  BY DEF Audit!Bind, Audit!Represent, Audit!Rename, Audit!Edit
<1>4. \A k \in Keys \cap steady' :
        /\ k \in steady /\ auditBound'[k] = auditBound[k]
        /\ auditBound[k] # NoName /\ auditBound[k].entry # NoName
             => nameOf'[auditBound[k].entry] = nameOf[auditBound[k].entry]
  <2>1. ASSUME NEW k \in Keys, Audit!Bind(k)
        PROVE  \A l \in Keys \cap steady' : l \in steady /\ auditBound'[l] = auditBound[l] /\ UNCHANGED nameOf
    BY <2>1 DEF Audit!Bind
  <2>2. ASSUME NEW h \in Hardware, Audit!Rename(h)
        PROVE  \A l \in Keys \cap steady' :
                 /\ l \in steady /\ auditBound'[l] = auditBound[l]
                 /\ auditBound[l] # NoName /\ auditBound[l].entry # NoName
                      => nameOf'[auditBound[l].entry] = nameOf[auditBound[l].entry]
    BY <2>2 DEF Audit!Rename, Audit!Binding
  <2>3. CASE (\E a \in Audit!Assets : Audit!Represent(a)) \/ \E c \in Audit!Consumers : Audit!Edit(c)
    BY <2>3 DEF Audit!Represent, Audit!Edit
  <2> QED BY <2>1, <2>2, <2>3
<1>5. SteadyKeys'
  <2>1. ASSUME audit'.phase # "idle", NEW k \in Keys \cap steady', auditBound'[k] # NoName
        PROVE  Audit!TargetName(auditBound[k])' \in DOMAIN audit'.targets
    <3>1. k \in Keys \cap steady /\ auditBound[k] # NoName
          /\ Audit!TargetName(auditBound[k])' = Audit!TargetName(auditBound[k])
      BY <1>4, <2>1 DEF Audit!TargetName
    <3>2. audit.phase # "idle"
      BY <1>1, <2>1
    <3>3. Audit!TargetName(auditBound[k]) \in DOMAIN audit.targets
      BY <3>1, <3>2 DEF SteadyKeys
    <3> QED BY <1>1, <3>1, <3>3
  <2> QED BY <2>1 DEF SteadyKeys
<1>6. \A c \in Audit!Consumers \cap steady' : c \in steady /\ uses'[c] = uses[c]
  BY DEF Audit!Bind, Audit!Represent, Audit!Rename, Audit!Edit
<1>7. Audit!Consumers' = Audit!Consumers /\ \A c : Audit!KindOf(c)' = Audit!KindOf(c)
  BY DEF Audit!Consumers, Audit!Reporters, Audit!KindOf
<1>8. SteadyConsumers'
  BY <1>1, <1>6, <1>7 DEF SteadyConsumers, Reported
<1>9. Justified' /\ TargetsHold'
  <2>1. \A S : Audit!Replacement(S)' = Audit!Replacement(S)
    BY DEF Audit!Replacement
  <2> QED BY <1>1, <2>1 DEF Justified, TargetsHold
<1>10. audit' \in AuditRecord'
  BY <1>1, <1>7 DEF AuditRecord, Report, Audit!Assets, Audit!Kind
<1> QED BY <1>1, <1>2, <1>3, <1>5, <1>7, <1>8, <1>9, <1>10 DEF Audit!Binding, Audit!Assets, Audit!References

LEMMA AuditStep == ASSUME Audit!AuditAssumption, AuditInv, [Audit!Next]_(Audit!vars) PROVE AuditInv'
<1>1. CASE Audit!Report
  <2>1. /\ audit' = [audit EXCEPT !.phase = "reported"] /\ audit.left = {} /\ audit.phase = "loading"
        /\ UNCHANGED <<auditBound, nameOf, lights, uses, sources, changes, steady>>
    BY <1>1 DEF Audit!Report
  <2>2. audit' \in AuditRecord /\ audit'.phase = "reported" /\ audit'.targets = audit.targets
        /\ audit'.left = audit.left /\ audit'.found = audit.found /\ audit'.gaps = audit.gaps
    BY <2>1 DEF AuditInv, AuditRecord
  <2>3. /\ Audit!Targets' = Audit!Targets /\ \A b : Audit!TargetName(b)' = Audit!TargetName(b)
        /\ \A S : Audit!Replacement(S)' = Audit!Replacement(S)
        /\ Audit!Consumers' = Audit!Consumers /\ \A c : Audit!KindOf(c)' = Audit!KindOf(c)
    BY <2>1 DEF Audit!Targets, Audit!BoundTo, Audit!LogicalFor, Audit!TargetName, Audit!Replacement,
                Audit!Consumers, Audit!Reporters, Audit!KindOf
  <2>4. Justified' /\ TargetsHold'
    BY <2>1, <2>2, <2>3 DEF AuditInv, Justified, TargetsHold
  <2>5. SteadyKeys'
    BY <2>1, <2>2, <2>3 DEF AuditInv, SteadyKeys
  <2>6. SteadyConsumers'
    BY <2>1, <2>2, <2>3 DEF AuditInv, SteadyConsumers, Reported
  <2>7. audit' \in AuditRecord'
    BY <2>2, <2>3 DEF AuditRecord, Report, Audit!Assets, Audit!Kind
  <2> QED BY <2>1, <2>2, <2>3, <2>4, <2>5, <2>6, <2>7 DEF AuditInv, Audit!Binding, Audit!Assets, Audit!References
<1>2. CASE UNCHANGED Audit!vars
  BY <1>2 DEF Audit!vars, AuditInv, Justified, TargetsHold, SteadyKeys, SteadyConsumers, Reported, Audit!Targets, Audit!Replacement,
            Audit!BoundTo, Audit!LogicalFor, Audit!TargetName, Audit!Consumers, Audit!Reporters, Audit!KindOf,
            Audit!Binding, Audit!Assets, Audit!References, AuditRecord, Report
<1> QED BY <1>1, <1>2, BeginAudit, LoadAudit, ChangeAudit DEF Audit!Next

LEMMA AuditInvariance == Audit!AuditAssumption => (Audit!Spec => []AuditInv)
<1> SUFFICES ASSUME Audit!AuditAssumption PROVE Audit!Spec => []AuditInv
  OBVIOUS
<1>1. Audit!Init => AuditInv
  BY AuditInit
<1>2. AuditInv /\ [Audit!Next]_(Audit!vars) => AuditInv'
  BY AuditStep
<1> QED BY <1>1, <1>2, PTL DEF Audit!Spec

LEMMA AuditTold ==
  ASSUME Audit!AuditAssumption
  PROVE  AuditInv => Audit!GapsAreTold /\ Audit!NoChoiceBetweenLights
<1>1. AuditInv => Audit!GapsAreTold
  <2> SUFFICES ASSUME AuditInv, audit.phase = "reported", NEW k \in Keys \cap steady,
                      NEW c \in Audit!Consumers \cap steady, auditBound[k] # NoName, uses[c] # NoName,
                      uses[c].name = Audit!TargetName(auditBound[k])
               PROVE  \/ c \in audit.gaps \/ Audit!KindOf(c) \in audit.gaps
                      \/ \E f \in audit.found : f.consumer = c /\ f.name = uses[c].name
    BY DEF Audit!GapsAreTold
  <2> QED BY DEF AuditInv, SteadyKeys, SteadyConsumers, Reported
<1>2. AuditInv => Audit!NoChoiceBetweenLights
  <2> SUFFICES ASSUME AuditInv, audit.phase # "idle", changes = 0,
                      NEW f \in audit.found, NEW k \in Audit!BoundTo(f.name), f.rewrite, AssetOf(k) \in lights
               PROVE  f.replacement = AssetOf(k)
    BY DEF Audit!NoChoiceBetweenLights
  <2>1. /\ f.name \in DOMAIN Audit!Targets /\ f.replacement = Audit!Replacement(Audit!Targets[f.name])
        /\ f.replacement # NoName
    BY DEF AuditInv, Justified, TargetsHold
  <2>2. Audit!Targets[f.name] = Audit!LogicalFor(f.name) /\ Audit!LogicalFor(f.name) \in SUBSET Audit!Assets
    BY <2>1, TargetsOK DEF Audit!LogicalFor, Audit!BoundTo, Audit!Assets
  <2>3. AssetOf(k) \in Audit!LogicalFor(f.name)
    BY DEF Audit!LogicalFor
  <2> QED BY <2>1, <2>2, <2>3, ReplacementOK
<1> QED BY <1>1, <1>2

\* What an audit does not find it says it could not read (reference_audit.py).
THEOREM GapsAreTold == Audit!AuditAssumption => (Audit!Spec => []Audit!GapsAreTold)
<1> SUFFICES ASSUME Audit!AuditAssumption PROVE Audit!Spec => []Audit!GapsAreTold
  OBVIOUS
<1>1. AuditInv => Audit!GapsAreTold
  BY AuditTold
<1> QED BY <1>1, AuditInvariance, PTL

\* No light is chosen for another that shares its hardware (reference_audit.py).
THEOREM LightsNotChosen == Audit!AuditAssumption => (Audit!Spec => []Audit!NoChoiceBetweenLights)
<1> SUFFICES ASSUME Audit!AuditAssumption PROVE Audit!Spec => []Audit!NoChoiceBetweenLights
  OBVIOUS
<1>1. AuditInv => Audit!NoChoiceBetweenLights
  BY AuditTold
<1> QED BY <1>1, AuditInvariance, PTL

-----------------------------------------------------------------------------
(***************************************************************************)
(* CsvBatch: what the rows so far have come to, whether or not some were   *)
(* at fault.                                                               *)
(***************************************************************************)

\* The registry the file is applied to.
RegistryOK ==
  /\ fileAssets = [a \in DOMAIN fileAssets |-> fileAssets[a]] /\ DOMAIN fileAssets \subseteq Ids
  /\ Files!CodesDiffer(fileAssets)
  /\ used \subseteq DOMAIN fileAssets /\ \A a \in used : fileAssets[a].capability

BatchOK ==
  /\ batch = [assets |-> batch.assets, ids |-> batch.ids, codes |-> batch.codes, faults |-> batch.faults]
  /\ batch.assets = [a \in DOMAIN batch.assets |-> batch.assets[a]]
  /\ DOMAIN fileAssets \subseteq DOMAIN batch.assets
  /\ DOMAIN batch.assets \subseteq DOMAIN fileAssets \cup 1..Len(rows)
  /\ Files!CodesDiffer(batch.assets)
  /\ \A a \in used : batch.assets[a].capability

\* What was seen is what the rows have.
SeenOK ==
  /\ \A n \in DOMAIN rows : rows[n].id # NoName => rows[n].id \in batch.ids
  /\ \A i \in batch.ids : i # NoName => \E n \in DOMAIN rows : rows[n].id = i
  /\ \A c \in batch.codes : c # NoName => \E n \in DOMAIN rows : rows[n].code = c

StagedFor(n) == IF rows[n].id = NoName THEN n ELSE rows[n].id

\* The rows of an accepted file, one by one.
RowsMeant ==
  Files!Accepted =>
    /\ DOMAIN batch.assets = DOMAIN fileAssets \cup Files!Created
    /\ \A n \in DOMAIN rows : rows[n].id \in DOMAIN fileAssets \cup {NoName}
    /\ \A m, n \in DOMAIN rows : rows[m].id = rows[n].id /\ rows[m].id # NoName => m = n
    /\ \A n \in DOMAIN rows : batch.assets[StagedFor(n)] = Files!Content(rows[n])
    /\ \A a \in DOMAIN fileAssets \ Files!Updated : batch.assets[a] = fileAssets[a]

BatchInv ==
  /\ rows \in Seq(Files!Rows)
  /\ RegistryOK /\ BatchOK /\ SeenOK /\ RowsMeant /\ Files!AllReported /\ Files!RoundTrip

\* A row that is not at fault, and one that is.
Stages(row, n, id) ==
  /\ row.id # NoName => row.id \notin batch.ids /\ Files!Updatable(batch, row) /\ id = row.id
  /\ row.id = NoName => Files!Creatable(batch, row) /\ id = n
  /\ row.code # NoName => row.code \notin batch.codes
  /\ row.area \in Current \cup {NoName}
  /\ batch'.assets = Files!Staged(batch, row, id) /\ batch'.faults = batch.faults

Faulty(row, n) ==
  /\ \/ row.id # NoName /\ row.id \in batch.ids
     \/ row.code # NoName /\ row.code \in batch.codes
     \/ row.area \notin Current \cup {NoName}
     \/ row.id # NoName /\ ~Files!Updatable(batch, row)
     \/ row.id = NoName /\ ~Files!Creatable(batch, row)
  /\ batch'.assets = batch.assets /\ batch'.faults = batch.faults \cup {n}

LEMMA SeenRecord ==
  ASSUME NEW b, NEW i, NEW c,
         b = [assets |-> b.assets, ids |-> b.ids, codes |-> b.codes, faults |-> b.faults]
  PROVE  [b EXCEPT !.ids = @ \cup {i}, !.codes = @ \cup {c}]
           = [assets |-> b.assets, ids |-> b.ids \cup {i}, codes |-> b.codes \cup {c}, faults |-> b.faults]
<1> DEFINE l == [b EXCEPT !.ids = @ \cup {i}, !.codes = @ \cup {c}]
<1>1. DOMAIN b = {"assets", "ids", "codes", "faults"}
  OBVIOUS
<1>2. DOMAIN l = {"assets", "ids", "codes", "faults"}
  BY <1>1
<1>3. l.ids = b.ids \cup {i}
  BY <1>1
<1>4. l.codes = b.codes \cup {c}
  BY <1>1
<1>5. l.assets = b.assets /\ l.faults = b.faults
  BY <1>1
<1>6. l = [f \in DOMAIN l |-> l[f]]
  OBVIOUS
<1> HIDE DEF l
<1>7. l = [assets |-> l.assets, ids |-> l.ids, codes |-> l.codes, faults |-> l.faults]
  BY <1>2, <1>6
<1> QED BY <1>3, <1>4, <1>5, <1>7 DEF l

LEMMA RowOutcome ==
  ASSUME BatchOK, NEW row, NEW n, batch' = Files!ApplyRow(batch, row, n)
  PROVE  /\ Faulty(row, n) \/ Stages(row, n, IF row.id = NoName THEN n ELSE row.id)
         /\ batch' = [assets |-> batch'.assets, ids |-> batch'.ids, codes |-> batch'.codes,
                      faults |-> batch'.faults]
         /\ batch.ids \subseteq batch'.ids /\ batch'.ids \subseteq batch.ids \cup {row.id}
         /\ row.id # NoName => row.id \in batch'.ids
         /\ batch'.codes \subseteq batch.codes \cup {row.code}
<1> DEFINE seen == [assets |-> batch.assets, ids |-> batch.ids \cup {row.id},
                    codes |-> batch.codes \cup {row.code}, faults |-> batch.faults]
           fault(b) == [assets |-> b.assets, ids |-> b.ids, codes |-> b.codes, faults |-> b.faults \cup {n}]
           staged(id) == [assets |-> Files!Staged(batch, row, id), ids |-> batch.ids \cup {row.id},
                          codes |-> batch.codes \cup {row.code}, faults |-> batch.faults]
           half == [assets |-> batch.assets, ids |-> batch.ids \cup {row.id},
                    codes |-> batch.codes, faults |-> batch.faults]
<1>1. /\ Files!Seen(batch, row) = seen
      /\ Files!Fault(batch, n) = fault(batch)
      /\ Files!Fault(seen, n) = fault(seen)
      /\ [batch EXCEPT !.ids = @ \cup {row.id}] = half
      /\ Files!Fault(half, n) = fault(half)
      /\ \A id : [seen EXCEPT !.assets = Files!Staged(batch, row, id)] = staged(id)
  <2>1. batch = [assets |-> batch.assets, ids |-> batch.ids, codes |-> batch.codes, faults |-> batch.faults]
    BY DEF BatchOK
  <2>2. ASSUME NEW b, b = [assets |-> b.assets, ids |-> b.ids, codes |-> b.codes, faults |-> b.faults]
        PROVE  Files!Fault(b, n) = fault(b)
    BY <2>2 DEF Files!Fault
  <2>3. Files!Seen(batch, row) = seen /\ [batch EXCEPT !.ids = @ \cup {row.id}] = half
    <3>1. Files!Seen(batch, row) = seen
      <4>1. Files!Seen(batch, row) = [batch EXCEPT !.ids = @ \cup {row.id}, !.codes = @ \cup {row.code}]
        BY DEF Files!Seen
      <4> QED BY <2>1, <4>1, SeenRecord
    <3>2. [batch EXCEPT !.ids = @ \cup {row.id}] = half
      BY <2>1
    <3> QED BY <3>1, <3>2
  <2>4. \A id : [seen EXCEPT !.assets = Files!Staged(batch, row, id)] = staged(id)
    OBVIOUS
  <2> QED BY <2>1, <2>2, <2>3, <2>4
<1>2. batch' =
        IF row.id # NoName /\ row.id \in batch.ids THEN fault(batch)
        ELSE IF row.code # NoName /\ row.code \in batch.codes THEN fault(half)
        ELSE IF row.area # NoName /\ row.area \notin Current THEN fault(seen)
        ELSE IF row.id # NoName
          THEN IF Files!Updatable(batch, row) THEN staged(row.id) ELSE fault(seen)
        ELSE IF Files!Creatable(batch, row) THEN staged(n) ELSE fault(seen)
  BY <1>1 DEF Files!ApplyRow
<1> HIDE DEF seen, half
<1>3. CASE row.id # NoName /\ row.id \in batch.ids
  BY <1>2, <1>3 DEF Faulty
<1>4. CASE ~(row.id # NoName /\ row.id \in batch.ids) /\ row.code # NoName /\ row.code \in batch.codes
  BY <1>2, <1>4 DEF Faulty, half
<1>5. CASE /\ ~(row.id # NoName /\ row.id \in batch.ids) /\ ~(row.code # NoName /\ row.code \in batch.codes)
           /\ \/ row.area # NoName /\ row.area \notin Current
              \/ row.id # NoName /\ ~Files!Updatable(batch, row)
              \/ row.id = NoName /\ ~Files!Creatable(batch, row)
  <2>1. batch' = fault(seen)
    BY <1>2, <1>5
  <2> QED BY <1>5, <2>1 DEF Faulty, seen
<1>6. CASE /\ ~(row.id # NoName /\ row.id \in batch.ids) /\ ~(row.code # NoName /\ row.code \in batch.codes)
           /\ ~(row.area # NoName /\ row.area \notin Current)
           /\ row.id # NoName => Files!Updatable(batch, row)
           /\ row.id = NoName => Files!Creatable(batch, row)
  <2>1. batch' = staged(IF row.id = NoName THEN n ELSE row.id)
    BY <1>2, <1>6
  <2> QED BY <1>6, <2>1 DEF Stages
<1> QED BY <1>3, <1>4, <1>5, <1>6

LEMMA BatchStep ==
  ASSUME Files!BatchAssumption, BatchInv, NEW row \in Files!Rows, Files!Turn(row) PROVE BatchInv'
<1>0. PICK n, id : n = Len(rows) + 1 /\ id = IF row.id = NoName THEN n ELSE row.id
  OBVIOUS
<1>1. /\ rows' = Append(rows, row) /\ UNCHANGED <<fileAssets, used>>
      /\ batch' = Files!ApplyRow(batch, row, Len(rows'))
  BY DEF Files!Turn
<1>2. /\ Len(rows') = n /\ Len(rows) \in Nat /\ n \in Nat /\ rows' \in Seq(Files!Rows)
      /\ DOMAIN rows = 1..Len(rows) /\ DOMAIN rows' = 1..n
      /\ DOMAIN rows \subseteq Nat
      /\ \A m \in 1..Len(rows) : rows'[m] = rows[m]
      /\ rows'[n] = row /\ DOMAIN rows' = DOMAIN rows \cup {n} /\ n \notin DOMAIN rows
  BY <1>0, <1>1 DEF BatchInv
<1>3. /\ Faulty(row, n) \/ Stages(row, n, id)
      /\ batch' = [assets |-> batch'.assets, ids |-> batch'.ids, codes |-> batch'.codes, faults |-> batch'.faults]
      /\ batch.ids \subseteq batch'.ids /\ batch'.ids \subseteq batch.ids \cup {row.id}
      /\ row.id # NoName => row.id \in batch'.ids
      /\ batch'.codes \subseteq batch.codes \cup {row.code}
  BY <1>0, <1>1, <1>2, RowOutcome DEF BatchInv
<1>4. /\ row.id \in Ids \cup {NoName} /\ Files!Content(row) = [code |-> row.code, area |-> row.area, capability |-> row.capability]
      /\ NoName \notin Nat /\ \A i \in Ids : i \notin Nat /\ i # NoName
  BY DEF Files!Rows, Files!Content, Files!BatchAssumption
<1>5. /\ DOMAIN fileAssets \subseteq Ids /\ DOMAIN batch.assets \subseteq DOMAIN fileAssets \cup DOMAIN rows
      /\ NoName \notin DOMAIN batch.assets /\ n \notin DOMAIN batch.assets
      /\ n \notin Ids /\ n # NoName
  BY <1>2, <1>4 DEF BatchInv, RegistryOK, BatchOK
<1>6. RegistryOK'
  BY <1>1 DEF BatchInv, RegistryOK, Files!CodesDiffer
<1>7. SeenOK'
  <2>1. \A m \in DOMAIN rows' : rows'[m].id # NoName => rows'[m].id \in batch'.ids
    BY <1>2, <1>3 DEF BatchInv, SeenOK
  <2>2. ASSUME NEW i \in batch'.ids, i # NoName PROVE \E m \in DOMAIN rows' : rows'[m].id = i
    <3>1. CASE i = row.id
      BY <1>2, <3>1
    <3>2. CASE i # row.id
      <4>1. PICK m \in DOMAIN rows : rows[m].id = i
        BY <1>3, <2>2, <3>2 DEF BatchInv, SeenOK
      <4> QED BY <1>2, <4>1
    <3> QED BY <3>1, <3>2
  <2>3. ASSUME NEW c \in batch'.codes, c # NoName PROVE \E m \in DOMAIN rows' : rows'[m].code = c
    <3>1. CASE c = row.code
      BY <1>2, <3>1
    <3>2. CASE c # row.code
      <4>1. PICK m \in DOMAIN rows : rows[m].code = c
        BY <1>3, <2>3, <3>2 DEF BatchInv, SeenOK
      <4> QED BY <1>2, <4>1
    <3> QED BY <3>1, <3>2
  <2> QED BY <2>1, <2>2, <2>3 DEF SeenOK
<1>8. CASE Faulty(row, n)
  <2>1. BatchOK'
    BY <1>1, <1>2, <1>3, <1>8 DEF BatchInv, BatchOK, Faulty, Files!CodesDiffer
  <2>2. ~Files!Accepted'
    BY <1>8 DEF Faulty, Files!Accepted
  <2>3. Files!AllReported'
    BY <1>1, <1>2, <1>8 DEF BatchInv, Faulty, Files!AllReported
  <2>4. Files!RoundTrip'
    <3> SUFFICES ASSUME \A m \in DOMAIN rows' :
                          /\ rows'[m].id \in DOMAIN fileAssets /\ Files!Content(rows'[m]) = fileAssets[rows'[m].id]
                          /\ rows'[m].area \in Current \cup {NoName},
                        \A m, l \in DOMAIN rows' : rows'[m].id = rows'[l].id => m = l
                 PROVE  FALSE
      BY <1>1 DEF Files!RoundTrip, Files!Exported, Files!Content
    <3>1. \A m \in DOMAIN rows : Files!Exported(rows[m]) /\ rows[m].area \in Current \cup {NoName}
      BY <1>2 DEF Files!Exported
    <3>2. \A m, l \in DOMAIN rows : rows[m].id = rows[l].id => m = l
      BY <1>2
    <3>3. batch.assets = fileAssets
      BY <3>1, <3>2 DEF BatchInv, Files!RoundTrip
    <3>4. /\ row.id \in DOMAIN fileAssets /\ Files!Content(row) = fileAssets[row.id]
          /\ row.area \in Current \cup {NoName}
      BY <1>2
    <3>5. \A m \in DOMAIN rows : rows[m].id # row.id
      BY <1>2
    <3>6. row.id # NoName /\ row.id \notin batch.ids
      BY <1>4, <1>5, <3>4, <3>5 DEF BatchInv, SeenOK
    <3>7. row.code = fileAssets[row.id].code /\ row.capability = fileAssets[row.id].capability
      BY <1>4, <3>4
    <3>8. row.code # NoName => row.code \notin batch.codes
      <4> SUFFICES ASSUME row.code # NoName, row.code \in batch.codes PROVE FALSE
        OBVIOUS
      <4>1. PICK m \in DOMAIN rows : rows[m].code = row.code
        BY DEF BatchInv, SeenOK
      <4>2. rows[m].id \in DOMAIN fileAssets /\ fileAssets[rows[m].id].code = row.code
        <5>1. rows[m].id \in DOMAIN fileAssets /\ Files!Content(rows[m]) = fileAssets[rows[m].id]
          BY <3>1 DEF Files!Exported
        <5>2. Files!Content(rows[m]).code = rows[m].code
          BY DEF Files!Content
        <5> QED BY <4>1, <5>1, <5>2
      <4> QED BY <3>4, <3>5, <3>7, <4>2 DEF BatchInv, RegistryOK, Files!CodesDiffer
    <3>9. Files!Updatable(batch, row)
      BY <3>3, <3>4, <3>7 DEF BatchInv, RegistryOK, Files!CodesDiffer, Files!Updatable, Files!HasCode
    <3> QED BY <1>8, <3>4, <3>6, <3>8, <3>9 DEF Faulty
  <2> QED BY <1>2, <1>6, <1>7, <2>1, <2>2, <2>3, <2>4 DEF BatchInv, RowsMeant, Files!Accepted
<1>9. CASE Stages(row, n, id)
  <2>0. /\ DOMAIN batch'.assets = DOMAIN batch.assets \cup {id}
        /\ batch'.assets = [a \in DOMAIN batch'.assets |-> batch'.assets[a]]
        /\ batch'.assets[id] = Files!Content(row)
        /\ \A a \in DOMAIN batch.assets : a # id => batch'.assets[a] = batch.assets[a]
        /\ batch'.faults = batch.faults
        /\ row.id # NoName => /\ row.id \in DOMAIN batch.assets /\ row.id \in used => row.capability
                            /\ row.id \notin batch.ids
        /\ row.area \in Current \cup {NoName}
    BY <1>9 DEF Stages, Files!Staged, Files!Updatable
  <2>1. row.id # NoName => row.id \in DOMAIN fileAssets
    <3>1. row.id # NoName => row.id \in DOMAIN batch.assets
      BY <1>9 DEF Stages, Files!Updatable
    <3> QED BY <1>2, <1>4, <1>5, <3>1
  <2>2. \A a \in DOMAIN batch.assets \ {id} : row.code # NoName => batch.assets[a].code # row.code
    BY <1>5, <1>9 DEF Stages, Files!Updatable, Files!Creatable, Files!HasCode
  <2>3. BatchOK'
    <3>1. Files!CodesDiffer(batch'.assets)
      BY <1>4, <2>0, <2>2 DEF BatchInv, BatchOK, Files!CodesDiffer
    <3>2. \A a \in used' : batch'.assets[a].capability
      <4>1. /\ Files!Content(row).capability = row.capability
            /\ \A a \in used : a \in DOMAIN batch.assets /\ batch.assets[a].capability
        BY <1>4 DEF BatchInv, RegistryOK, BatchOK
      <4>2. ASSUME NEW a \in used, a = id PROVE row.capability
        BY <1>0, <1>5, <2>0, <4>1, <4>2
      <4> QED BY <1>1, <2>0, <4>1, <4>2
    <3>3. /\ DOMAIN fileAssets' \subseteq DOMAIN batch'.assets
          /\ DOMAIN batch'.assets \subseteq DOMAIN fileAssets' \cup 1..Len(rows')
      <4>1. DOMAIN fileAssets \subseteq DOMAIN batch.assets
        BY DEF BatchInv, BatchOK
      <4>2. id \in DOMAIN fileAssets \cup 1..n
        BY <1>0, <1>2, <2>1
      <4> QED BY <1>1, <1>2, <1>5, <2>0, <4>1, <4>2
    <3>4. Files!CodesDiffer(batch.assets)'
      BY <3>1 DEF Files!CodesDiffer
    <3> QED BY <1>3, <2>0, <3>2, <3>3, <3>4 DEF BatchOK
  <2>4. Files!AllReported'
    <3> SUFFICES ASSUME NEW l \in DOMAIN rows',
                        \/ rows'[l].id \notin DOMAIN fileAssets' \cup {NoName}
                        \/ rows'[l].area \notin Current \cup {NoName}
                        \/ \E m \in 1..(l - 1) : rows'[m].id # NoName /\ rows'[m].id = rows'[l].id
                 PROVE  l \in batch'.faults
      BY DEF Files!AllReported
    <3>1. CASE l = n
      <4>1. PICK m \in 1..(n - 1) : rows'[m].id # NoName /\ rows'[m].id = row.id
        BY <1>1, <1>2, <2>0, <2>1, <3>1
      <4>2. m \in DOMAIN rows /\ rows[m].id = row.id
        BY <1>0, <1>2, <4>1
      <4> QED BY <2>0, <4>1, <4>2 DEF BatchInv, SeenOK
    <3>2. CASE l # n
      <4>1. l \in DOMAIN rows /\ \A m \in 1..(l - 1) : m \in 1..Len(rows)
        BY <1>0, <1>2, <3>2
      <4> QED BY <1>1, <1>2, <2>0, <4>1 DEF BatchInv, Files!AllReported
    <3> QED BY <3>1, <3>2
  <2>5. RowsMeant'
    <3> SUFFICES ASSUME Files!Accepted PROVE RowsMeant'
      BY <2>0 DEF RowsMeant, Files!Accepted
    <3>1. /\ DOMAIN batch.assets = DOMAIN fileAssets \cup Files!Created
          /\ \A m \in DOMAIN rows : rows[m].id \in DOMAIN fileAssets \cup {NoName}
          /\ \A m, l \in DOMAIN rows : rows[m].id = rows[l].id /\ rows[m].id # NoName => m = l
          /\ \A m \in DOMAIN rows : batch.assets[StagedFor(m)] = Files!Content(rows[m])
          /\ \A a \in DOMAIN fileAssets \ Files!Updated : batch.assets[a] = fileAssets[a]
      BY DEF BatchInv, RowsMeant
    <3>2. Files!Created' = Files!Created \cup (IF row.id = NoName THEN {n} ELSE {})
      BY <1>2 DEF Files!Created
    <3>3. \A a : a \in Files!Updated' => a \in Files!Updated \/ a = row.id
      BY <1>2 DEF Files!Updated
    <3>4. \A a \in Files!Updated : a \in Files!Updated'
      BY <1>2 DEF Files!Updated
    <3>5. \A m \in DOMAIN rows : rows[m].id # NoName => rows[m].id # row.id
      BY <2>0 DEF BatchInv, SeenOK
    <3>6. \A m \in DOMAIN rows : StagedFor(m)' = StagedFor(m) /\ StagedFor(m) # id /\ StagedFor(m) \in DOMAIN batch.assets
      <4> SUFFICES ASSUME NEW m \in DOMAIN rows
                   PROVE  StagedFor(m)' = StagedFor(m) /\ StagedFor(m) # id /\ StagedFor(m) \in DOMAIN batch.assets
        OBVIOUS
      <4>1. rows'[m] = rows[m] /\ m \in Nat /\ m # n
        BY <1>2
      <4>2. CASE rows[m].id = NoName
        <5>1. StagedFor(m) = m /\ m \in Files!Created
          BY <4>2 DEF StagedFor, Files!Created
        <5> QED BY <1>0, <1>4, <3>1, <4>1, <4>2, <5>1 DEF StagedFor
      <4>3. CASE rows[m].id # NoName
        <5>1. StagedFor(m) = rows[m].id /\ rows[m].id \in DOMAIN fileAssets /\ rows[m].id # row.id
          BY <3>1, <3>5, <4>3 DEF StagedFor
        <5> QED BY <1>0, <1>5, <3>1, <4>1, <4>3, <5>1 DEF StagedFor
      <4> QED BY <4>2, <4>3
    <3>7. StagedFor(n)' = id
      BY <1>0, <1>2 DEF StagedFor
    <3>8. DOMAIN batch'.assets = DOMAIN fileAssets' \cup Files!Created'
      <4>1. DOMAIN batch'.assets = DOMAIN fileAssets \cup Files!Created \cup {id}
        BY <2>0, <3>1
      <4>2. CASE row.id = NoName
        BY <1>0, <1>1, <3>2, <4>1, <4>2
      <4>3. CASE row.id # NoName
        BY <1>0, <1>1, <2>1, <3>2, <4>1, <4>3
      <4> QED BY <4>2, <4>3
    <3>9. \A m \in DOMAIN rows' : rows'[m].id \in DOMAIN fileAssets' \cup {NoName}
      BY <1>1, <1>2, <2>1, <3>1
    <3>10. \A m, l \in DOMAIN rows' : rows'[m].id = rows'[l].id /\ rows'[m].id # NoName => m = l
      BY <1>2, <3>1, <3>5
    <3>11. \A m \in DOMAIN rows' : batch'.assets[StagedFor(m)'] = Files!Content(rows'[m])
      <4> SUFFICES ASSUME NEW m \in DOMAIN rows' PROVE batch'.assets[StagedFor(m)'] = Files!Content(rows'[m])
        OBVIOUS
      <4>1. CASE m = n
        <5>1. rows'[m] = row
          BY <1>2, <4>1
        <5> QED BY <2>0, <3>7, <4>1, <5>1
      <4>2. CASE m # n
        <5>1. m \in DOMAIN rows /\ rows'[m] = rows[m]
          BY <1>2, <4>2
        <5>2. batch'.assets[StagedFor(m)] = batch.assets[StagedFor(m)] /\ StagedFor(m)' = StagedFor(m)
          BY <2>0, <3>6, <5>1
        <5> QED BY <3>1, <5>1, <5>2
      <4> QED BY <4>1, <4>2
    <3>12. \A a \in DOMAIN fileAssets' \ Files!Updated' : batch'.assets[a] = fileAssets'[a]
      <4> SUFFICES ASSUME NEW a \in DOMAIN fileAssets, a \notin Files!Updated' PROVE batch'.assets[a] = fileAssets[a]
        BY <1>1
      <4>1. a # row.id
        BY <1>2, <1>4, <1>5 DEF Files!Updated
      <4>2. a # id /\ a \in DOMAIN batch.assets
        BY <1>0, <1>5, <3>1, <4>1
      <4> QED BY <2>0, <3>1, <3>4, <4>2
    <3> QED BY <3>8, <3>9, <3>10, <3>11, <3>12 DEF RowsMeant, StagedFor, Files!Content
  <2>6. Files!RoundTrip'
    <3> SUFFICES ASSUME \A m \in DOMAIN rows' :
                          /\ rows'[m].id \in DOMAIN fileAssets /\ Files!Content(rows'[m]) = fileAssets[rows'[m].id]
                          /\ rows'[m].area \in Current \cup {NoName},
                        \A m, l \in DOMAIN rows' : rows'[m].id = rows'[l].id => m = l
                 PROVE  Files!Accepted' /\ batch'.assets = fileAssets'
      BY <1>1 DEF Files!RoundTrip, Files!Exported, Files!Content
    <3>1. \A m \in DOMAIN rows : Files!Exported(rows[m]) /\ rows[m].area \in Current \cup {NoName}
      BY <1>2 DEF Files!Exported
    <3>2. \A m, l \in DOMAIN rows : rows[m].id = rows[l].id => m = l
      BY <1>2
    <3>3. Files!Accepted /\ batch.assets = fileAssets
      BY <3>1, <3>2 DEF BatchInv, Files!RoundTrip
    <3>4. row.id \in DOMAIN fileAssets /\ Files!Content(row) = fileAssets[row.id]
      BY <1>2
    <3>5. id = row.id
      BY <1>0, <1>4, <1>5, <3>4
    <3>6. Files!Staged(batch, row, id) = fileAssets
      <4>1. Files!Staged(batch, row, id) =
              [a \in DOMAIN fileAssets \cup {row.id} |-> IF a = row.id THEN Files!Content(row) ELSE fileAssets[a]]
        BY <3>3, <3>5 DEF Files!Staged
      <4>2. DOMAIN fileAssets \cup {row.id} = DOMAIN fileAssets
        BY <3>4
      <4>3. \A a \in DOMAIN fileAssets : (IF a = row.id THEN Files!Content(row) ELSE fileAssets[a]) = fileAssets[a]
        BY <3>4
      <4>4. fileAssets = [a \in DOMAIN fileAssets |-> fileAssets[a]]
        BY DEF BatchInv, RegistryOK
      <4> HIDE DEF Files!Content
      <4> QED BY <4>1, <4>2, <4>3, <4>4
    <3> QED BY <1>1, <1>9, <3>3, <3>6 DEF Stages, Files!Accepted
  <2> QED BY <1>2, <1>6, <1>7, <2>3, <2>4, <2>5, <2>6 DEF BatchInv
<1> QED BY <1>3, <1>8, <1>9

LEMMA BatchInit == ASSUME Files!Init PROVE BatchInv
<1>1. /\ rows = <<>> /\ batch = [assets |-> fileAssets, ids |-> {}, codes |-> {}, faults |-> {}]
      /\ \E known \in SUBSET Ids : fileAssets \in [known -> Files!Contents]
      /\ Files!CodesDiffer(fileAssets)
      /\ used \in SUBSET {a \in DOMAIN fileAssets : fileAssets[a].capability}
  BY DEF Files!Init, Files!Batch
<1>2. RegistryOK
  BY <1>1 DEF RegistryOK
<1>3. rows \in Seq(Files!Rows) /\ DOMAIN rows = {} /\ Len(rows) = 0
  BY <1>1
<1>4. BatchOK
  BY <1>1, <1>2, <1>3 DEF RegistryOK, BatchOK
<1>5. Files!Created = {} /\ Files!Updated = {}
  BY <1>3 DEF Files!Created, Files!Updated
<1>6. SeenOK /\ RowsMeant /\ Files!AllReported /\ Files!RoundTrip
  BY <1>1, <1>3, <1>5 DEF SeenOK, RowsMeant, Files!AllReported, Files!RoundTrip, Files!Accepted
<1> QED BY <1>2, <1>3, <1>4, <1>6 DEF BatchInv

LEMMA BatchNext ==
  ASSUME Files!BatchAssumption, BatchInv, [Files!Next]_(Files!vars)
  PROVE  BatchInv'
<1>1. ASSUME UNCHANGED Files!vars PROVE BatchInv'
  BY <1>1 DEF BatchInv, RegistryOK, BatchOK, SeenOK, RowsMeant, StagedFor, Files!vars, Files!AllReported, Files!RoundTrip,
              Files!Accepted, Files!Created, Files!Updated, Files!CodesDiffer, Files!Content, Files!Exported
<1> QED BY <1>1, BatchStep DEF Files!Next

LEMMA BatchMeans ==
  BatchInv => Files!Parallel /\ Files!CodesStayUnique /\ Files!BindingsStay /\ Files!AllReported /\ Files!RoundTrip
<1>1. ASSUME BatchInv, Files!Accepted PROVE Files!Parallel
  <2>1. /\ DOMAIN batch.assets = DOMAIN fileAssets \cup Files!Created
        /\ \A m, l \in DOMAIN rows : rows[m].id = rows[l].id /\ rows[m].id # NoName => m = l
        /\ \A m \in DOMAIN rows : batch.assets[StagedFor(m)] = Files!Content(rows[m])
        /\ \A a \in DOMAIN fileAssets \ Files!Updated : batch.assets[a] = fileAssets[a]
        /\ batch.assets = [a \in DOMAIN batch.assets |-> batch.assets[a]]
    BY <1>1 DEF BatchInv, RowsMeant, BatchOK
  <2>2. \A a \in Files!Created : batch.assets[a] = Files!Content(rows[a])
    BY <2>1 DEF Files!Created, StagedFor
  <2>3. ASSUME NEW a \in Files!Updated PROVE batch.assets[a] = Files!Content(rows[Files!RowOf(a)])
    <3>1. Files!RowOf(a) \in DOMAIN rows /\ rows[Files!RowOf(a)].id = a /\ a # NoName
      BY <2>3 DEF Files!Updated, Files!RowOf
    <3> HIDE DEF Files!RowOf
    <3> QED BY <2>1, <3>1 DEF StagedFor
  <2>4. batch.assets =
          [a \in DOMAIN fileAssets \cup Files!Created |->
             IF a \in Files!Created THEN Files!Content(rows[a])
             ELSE IF a \in Files!Updated THEN Files!Content(rows[Files!RowOf(a)]) ELSE fileAssets[a]]
    <3> DEFINE f(a) == IF a \in Files!Created THEN Files!Content(rows[a])
                       ELSE IF a \in Files!Updated THEN Files!Content(rows[Files!RowOf(a)]) ELSE fileAssets[a]
    <3>1. ASSUME NEW a \in DOMAIN fileAssets \cup Files!Created PROVE batch.assets[a] = f(a)
      BY <2>1, <2>2, <2>3
    <3> HIDE DEF f
    <3>2. batch.assets = [a \in DOMAIN fileAssets \cup Files!Created |-> f(a)]
      BY <2>1, <3>1
    <3> QED BY <3>2 DEF f
  <2> QED BY <2>4 DEF Files!Parallel
<1>2. BatchInv => Files!Parallel
  BY <1>1 DEF Files!Parallel
<1> QED BY <1>2 DEF BatchInv, BatchOK, Files!CodesStayUnique, Files!BindingsStay

-----------------------------------------------------------------------------
(***************************************************************************)
(* Induction.  The library's theorems of induction take a predicate; that  *)
(* the order of the numbers is well-founded does not, and with a set in    *)
(* the place of the predicate it is enough.                                *)
(***************************************************************************)

\* Every set of natural numbers that has one has a least one.
LEMMA LeastOf ==
  ASSUME NEW S \in SUBSET Nat, S # {}
  PROVE  \E n \in S : \A m \in S : n <= m
<1> DEFINE R == OpToRel(<, Nat)
<1>1. IsWellFoundedOn(R, Nat)
  BY NatLessThanWellFounded
<1>2. \A x, y \in Nat : x < y => <<x, y>> \in R
  BY DEF OpToRel
<1> HIDE DEF R
<1>3. PICK n \in S : \A m \in S : ~ (<<m, n>> \in R)
  BY <1>1, WFMin
<1>4. ASSUME NEW m \in S PROVE n <= m
  <2>1. m \in Nat /\ n \in Nat
    OBVIOUS
  <2>2. ~ (m < n)
    BY <1>2, <1>3, <2>1
  <2> QED BY <2>1, <2>2
<1> QED BY <1>4

\* Induction, for the numbers that are in S.
LEMMA AllOf ==
  ASSUME NEW S, 0 \in S, \A n \in Nat : n \in S => n + 1 \in S
  PROVE  Nat \subseteq S
<1> SUFFICES ASSUME NEW k \in Nat, k \notin S PROVE FALSE
  OBVIOUS
<1> DEFINE T == Nat \ S
<1>1. T \in SUBSET Nat /\ T # {}
  OBVIOUS
<1> HIDE DEF T
<1>2. PICK n \in T : \A m \in T : n <= m
  BY <1>1, LeastOf
<1> USE DEF T
<1>3. n # 0 /\ n - 1 \in Nat
  BY <1>2
<1>4. n - 1 \in S
  BY <1>2, <1>3
<1>5. (n - 1) + 1 \in S
  BY <1>3, <1>4
<1> QED BY <1>2, <1>5

\* R is a strict order of S in which any two compare.
Orders(R, S) ==
  /\ \A x \in S : <<x, x>> \notin R
  /\ \A x, y, z \in S : <<x, y>> \in R /\ <<y, z>> \in R => <<x, z>> \in R
  /\ \A x, y \in S : x = y \/ <<x, y>> \in R \/ <<y, x>> \in R

\* S in the order R.
Sorts(s, R, S) ==
  /\ s \in [1..Cardinality(S) -> S]
  /\ \A i, j \in 1..Cardinality(S) : i < j => <<s[i], s[j]>> \in R

LEMMA FirstOf ==
  ASSUME NEW R, NEW S, IsFiniteSet(S), S # {}, Orders(R, S)
  PROVE  \E x \in S : \A y \in S \ {x} : <<x, y>> \in R
<1> DEFINE Has(A) == \E x \in A : \A y \in A \ {x} : <<x, y>> \in R
           G == {n \in Nat : \A A \in SUBSET S : Cardinality(A) = n + 1 => Has(A)}
<1>1. 0 \in G
  <2> SUFFICES ASSUME NEW A \in SUBSET S, Cardinality(A) = 0 + 1 PROVE Has(A)
    OBVIOUS
  <2>1. IsFiniteSet(A) /\ Cardinality(A) = 1
    BY FS_Subset
  <2>2. PICK x : A = {x}
    BY <2>1, FS_Singleton
  <2> QED BY <2>2
<1>2. ASSUME NEW n \in Nat, n \in G PROVE n + 1 \in G
  <2> SUFFICES ASSUME NEW A \in SUBSET S, Cardinality(A) = (n + 1) + 1 PROVE Has(A)
    OBVIOUS
  <2>1. IsFiniteSet(A) /\ A # {}
    BY FS_Subset, FS_EmptySet
  <2>2. PICK x \in A : TRUE
    BY <2>1
  <2>3. IsFiniteSet(A \ {x}) /\ Cardinality(A \ {x}) = n + 1
    BY <2>1, FS_RemoveElement
  <2>4. Has(A \ {x})
    BY <1>2, <2>3
  <2>5. PICK w \in A \ {x} : \A y \in (A \ {x}) \ {w} : <<w, y>> \in R
    BY <2>4
  <2>6. CASE <<x, w>> \in R
    <3>1. \A y \in A \ {x} : <<x, y>> \in R
      BY <2>5, <2>6 DEF Orders
    <3> QED BY <3>1
  <2>7. CASE <<w, x>> \in R
    <3>1. \A y \in A \ {w} : <<w, y>> \in R
      BY <2>5, <2>7
    <3> QED BY <3>1
  <2> QED BY <2>5, <2>6, <2>7 DEF Orders
<1> HIDE DEF G
<1>3. Nat \subseteq G
  BY <1>1, <1>2, AllOf
<1> USE DEF G
<1>4. Cardinality(S) \in Nat /\ Cardinality(S) # 0
  BY FS_CardinalityType, FS_EmptySet
<1>5. Cardinality(S) - 1 \in G /\ Cardinality(S) = (Cardinality(S) - 1) + 1
  <2>1. Cardinality(S) - 1 \in Nat /\ Cardinality(S) = (Cardinality(S) - 1) + 1
    BY <1>4
  <2> HIDE DEF G
  <2> QED BY <1>3, <2>1
<1>6. Has(S)
  BY <1>5
<1> QED BY <1>6

LEMMA SortExists ==
  ASSUME NEW R, NEW S, IsFiniteSet(S), Orders(R, S)
  PROVE  \E s : Sorts(s, R, S)
<1> DEFINE G == {n \in Nat : \A A \in SUBSET S : Cardinality(A) = n => \E s : Sorts(s, R, A)}
<1>1. 0 \in G
  <2> SUFFICES ASSUME NEW A \in SUBSET S, Cardinality(A) = 0 PROVE \E s : Sorts(s, R, A)
    OBVIOUS
  <2>1. [i \in 1..0 |-> i] \in [1..0 -> A]
    OBVIOUS
  <2>2. Sorts([i \in 1..0 |-> i], R, A)
    BY <2>1 DEF Sorts
  <2> QED BY <2>2
<1>2. ASSUME NEW n \in Nat, n \in G PROVE n + 1 \in G
  <2> SUFFICES ASSUME NEW A \in SUBSET S, Cardinality(A) = n + 1 PROVE \E s : Sorts(s, R, A)
    OBVIOUS
  <2>1. IsFiniteSet(A) /\ A # {}
    BY FS_Subset, FS_EmptySet
  <2>2. Orders(R, A)
    BY DEF Orders
  <2>3. PICK x \in A : \A y \in A \ {x} : <<x, y>> \in R
    BY <2>1, <2>2, FirstOf
  <2>4. IsFiniteSet(A \ {x}) /\ Cardinality(A \ {x}) = n
    BY <2>1, FS_RemoveElement
  <2>5. PICK t : Sorts(t, R, A \ {x})
    BY <1>2, <2>4
  <2>6. /\ t \in [1..n -> A \ {x}]
        /\ \A i, j \in 1..n : i < j => <<t[i], t[j]>> \in R
    BY <2>4, <2>5 DEF Sorts
  <2> DEFINE s == [i \in 1..(n + 1) |-> IF i = 1 THEN x ELSE t[i - 1]]
  <2>7. ASSUME NEW i \in 1..(n + 1) PROVE s[i] \in A /\ (i # 1 => i - 1 \in 1..n /\ s[i] = t[i - 1] /\ t[i - 1] \in A \ {x})
    BY <2>6
  <2>8. s \in [1..(n + 1) -> A]
    BY <2>7
  <2>9. ASSUME NEW i \in 1..(n + 1), NEW j \in 1..(n + 1), i < j PROVE <<s[i], s[j]>> \in R
    <3>1. j # 1 /\ s[j] = t[j - 1] /\ t[j - 1] \in A \ {x} /\ j - 1 \in 1..n
      BY <2>7, <2>9
    <3>2. CASE i = 1
      BY <2>3, <3>1, <3>2
    <3>3. CASE i # 1
      <4>1. i - 1 \in 1..n /\ s[i] = t[i - 1] /\ i - 1 < j - 1
        BY <2>7, <2>9, <3>3
      <4> QED BY <2>6, <3>1, <4>1
    <3> QED BY <3>2, <3>3
  <2> HIDE DEF s
  <2>10. Sorts(s, R, A)
    BY <2>8, <2>9 DEF Sorts
  <2> QED BY <2>10
<1> HIDE DEF G
<1>3. Nat \subseteq G
  BY <1>1, <1>2, AllOf
<1>4. Cardinality(S) \in G
  BY <1>3, FS_CardinalityType
<1> QED BY <1>4 DEF G

\* In order, each is there once.
LEMMA SortsAll ==
  ASSUME NEW R, NEW S, IsFiniteSet(S), Orders(R, S), NEW s, Sorts(s, R, S)
  PROVE  /\ {s[i] : i \in 1..Cardinality(S)} = S
         /\ \A i, j \in 1..Cardinality(S) : s[i] = s[j] => i = j
<1> DEFINE n == Cardinality(S)
           I == 1..n
<1>1. n \in Nat /\ IsFiniteSet(I) /\ Cardinality(I) = n
  BY FS_CardinalityType, FS_Interval
<1>2. \A i, j \in I : s[i] = s[j] => i = j
  <2> SUFFICES ASSUME NEW i \in I, NEW j \in I, s[i] = s[j], i < j PROVE FALSE
    BY <1>1
  <2> QED BY DEF Sorts, Orders
<1>3. s \in Injection(I, S)
  BY <1>2 DEF Sorts, Injection, IsInjective
<1>4. s \in Surjection(I, S)
  BY <1>1, <1>3, FS_Injection
<1> QED BY <1>2, <1>4 DEF Surjection, Sorts

-----------------------------------------------------------------------------
(***************************************************************************)
(* The queue of paths.  E is the set of edges and f where the paths start. *)
(***************************************************************************)

\* The order of words, of equal length, and the order of the search.
Before(p, q) == \E i \in 1..Len(p) : p[i] < q[i] /\ \A j \in 1..i - 1 : p[j] = q[j]
Sooner(p, q) == Len(p) < Len(q) \/ (Len(p) = Len(q) /\ Before(p, q))

LEMMA AppendFacts ==
  ASSUME NEW p \in Seq(Nat), NEW a \in Nat
  PROVE  /\ Append(p, a) \in Seq(Nat) /\ Len(p) \in Nat /\ Len(Append(p, a)) = Len(p) + 1
         /\ Append(p, a) # <<>> /\ Append(p, a)[Len(p) + 1] = a
         /\ \A i \in 1..Len(p) : Append(p, a)[i] = p[i]
         /\ DOMAIN Append(p, a) = 1..(Len(p) + 1)
OBVIOUS

LEMMA SoonerTransitive ==
  ASSUME NEW p \in Seq(Nat), NEW q \in Seq(Nat), NEW r \in Seq(Nat), Sooner(p, q), Sooner(q, r)
  PROVE  Sooner(p, r)
<1>1. CASE Len(p) < Len(q) \/ Len(q) < Len(r)
  <2>1. Len(p) \in Nat /\ Len(q) \in Nat /\ Len(r) \in Nat
    OBVIOUS
  <2>2. Len(p) <= Len(q) /\ Len(q) <= Len(r)
    BY <2>1 DEF Sooner
  <2> QED BY <1>1, <2>1, <2>2 DEF Sooner
<1>2. CASE ~ (Len(p) < Len(q)) /\ ~ (Len(q) < Len(r))
  <2>1. Len(p) = Len(q) /\ Len(q) = Len(r) /\ Before(p, q) /\ Before(q, r)
    BY <1>2 DEF Sooner
  <2>2. PICK i \in 1..Len(p) : p[i] < q[i] /\ \A j \in 1..i - 1 : p[j] = q[j]
    BY <2>1 DEF Before
  <2>3. PICK k \in 1..Len(p) : q[k] < r[k] /\ \A j \in 1..k - 1 : q[j] = r[j]
    BY <2>1 DEF Before
  <2>4. \A j \in 1..Len(p) : p[j] \in Nat /\ q[j] \in Nat /\ r[j] \in Nat
    <3>1. \A t \in Seq(Nat) : \A j \in 1..Len(t) : t[j] \in Nat
      OBVIOUS
    <3> QED BY <2>1, <3>1
  <2>5. CASE i < k
    <3>1. p[i] < r[i] /\ \A j \in 1..i - 1 : p[j] = r[j]
      BY <2>2, <2>3, <2>5
    <3> QED BY <2>1, <3>1 DEF Sooner, Before
  <2>6. CASE k < i
    <3>1. p[k] < r[k] /\ \A j \in 1..k - 1 : p[j] = r[j]
      BY <2>2, <2>3, <2>6
    <3> QED BY <2>1, <3>1 DEF Sooner, Before
  <2>7. CASE k = i
    <3>1. p[k] < q[k] /\ q[k] < r[k] /\ \A j \in 1..k - 1 : p[j] = q[j] /\ q[j] = r[j]
      BY ONLY <2>2, <2>3, <2>7
    <3>2. p[k] < r[k]
      <4>1. p[k] \in Nat /\ q[k] \in Nat /\ r[k] \in Nat
        BY ONLY <2>3, <2>4
      <4>2. \A x, y, z \in Nat : x < y /\ y < z => x < z
        OBVIOUS
      <4> QED BY ONLY <3>1, <4>1, <4>2
    <3>3. \A j \in 1..k - 1 : p[j] = r[j]
      BY ONLY <3>1
    <3> QED BY <2>1, <3>2, <3>3 DEF Sooner, Before
  <2> QED BY <2>5, <2>6, <2>7
<1> QED BY <1>1, <1>2

LEMMA SoonerDiffers ==
  ASSUME NEW p \in Seq(Nat)
  PROVE  ~ Sooner(p, p)
BY DEF Sooner, Before

\* What follows the earlier path is earlier.
LEMMA SoonerAppend ==
  ASSUME NEW p \in Seq(Nat), NEW q \in Seq(Nat), NEW a \in Nat, NEW b \in Nat, Sooner(p, q)
  PROVE  Sooner(Append(p, a), Append(q, b))
<1>1. CASE Len(p) < Len(q)
  BY <1>1 DEF Sooner
<1>2. CASE Len(p) = Len(q) /\ Before(p, q)
  <2>1. PICK i \in 1..Len(p) : p[i] < q[i] /\ \A j \in 1..i - 1 : p[j] = q[j]
    BY <1>2 DEF Before
  <2>2. /\ i \in 1..Len(Append(p, a)) /\ Append(p, a)[i] < Append(q, b)[i]
        /\ \A j \in 1..i - 1 : Append(p, a)[j] = Append(q, b)[j]
    BY <1>2, <2>1
  <2>3. Before(Append(p, a), Append(q, b))
    BY <2>2 DEF Before
  <2>4. Len(Append(p, a)) = Len(Append(q, b))
    BY <1>2, AppendFacts
  <2> QED BY <2>3, <2>4 DEF Sooner
<1> QED BY <1>1, <1>2 DEF Sooner

LEMMA AppendSooner ==
  ASSUME NEW p \in Seq(Nat), NEW a \in Nat, NEW b \in Nat, a < b
  PROVE  Sooner(Append(p, a), Append(p, b))
<1>1. /\ Len(p) + 1 \in 1..Len(Append(p, a))
      /\ Append(p, a)[Len(p) + 1] < Append(p, b)[Len(p) + 1]
      /\ \A j \in 1..(Len(p) + 1) - 1 : Append(p, a)[j] = Append(p, b)[j]
  OBVIOUS
<1>2. Before(Append(p, a), Append(p, b))
  BY <1>1 DEF Before
<1> QED BY <1>2 DEF Sooner

\* Which is the first path to each asset visited, P says; Q is the queue.
Waits(p, Q) == \E i \in DOMAIN Q : Q[i] = p

Ends(P, V, Q, f) ==
  /\ V \subseteq Nat /\ f \in V /\ Q \in Seq(Seq(Nat))
  /\ P \in [V -> Seq(Nat)] /\ P[f] = <<f>>
  /\ \A v \in V : P[v] # <<>> /\ P[v][Len(P[v])] = v /\ P[v][1] = f

Steps(P, V, E) ==
  \A v \in V : \A j \in DOMAIN P[v] :
    /\ P[v][j] \in V /\ Len(P[P[v][j]]) = j
    /\ j > 1 => <<P[v][j - 1], P[v][j]>> \in E

Comes(P, V, Q, E, f) ==
  \A v \in V \ {f} : \E u \in V : ~ Waits(P[u], Q) /\ <<u, v>> \in E /\ P[v] = Append(P[u], v)

Queues(P, V, Q) ==
  /\ \A i \in DOMAIN Q : \E v \in V : Q[i] = P[v]
  /\ \A i, j \in DOMAIN Q : i < j => Sooner(Q[i], Q[j])
  /\ \A u \in V : ~ Waits(P[u], Q) => \A i \in DOMAIN Q : Sooner(P[u], Q[i])

Went(P, V, Q, E) ==
  \A u \in V : ~ Waits(P[u], Q) =>
    \A b \in Nat : <<u, b>> \in E =>
      b \in V /\ (P[b] = Append(P[u], b) \/ Sooner(P[b], Append(P[u], b)))

Tells(P, V, Q, E, f) ==
  Ends(P, V, Q, f) /\ Steps(P, V, E) /\ Comes(P, V, Q, E, f) /\ Queues(P, V, Q) /\ Went(P, V, Q, E)

LEMMA TellsFirst ==
  ASSUME NEW f \in Nat, NEW E
  PROVE  \E P : Tells(P, {f}, <<<<f>>>>, E, f)
<1> DEFINE P == [v \in {f} |-> <<f>>]
           Q == <<<<f>>>>
<1>1. Q \in Seq(Seq(Nat)) /\ DOMAIN Q = {1} /\ Q[1] = <<f>> /\ P[f] = <<f>> /\ <<f>> \in Seq(Nat)
  OBVIOUS
<1>2. Len(<<f>>) = 1 /\ <<f>>[1] = f /\ DOMAIN <<f>> = {1} /\ <<f>> # <<>>
  OBVIOUS
<1>3. P \in [{f} -> Seq(Nat)]
  BY <1>1
<1> HIDE DEF P, Q
<1>4. Waits(P[f], Q)
  BY <1>1 DEF Waits
<1>5. Ends(P, {f}, Q, f)
  BY <1>1, <1>2, <1>3 DEF Ends
<1>6. Steps(P, {f}, E)
  <2>1. DOMAIN P[f] = {1} /\ P[f][1] = f /\ Len(P[f]) = 1
    BY <1>1, <1>2
  <2>2. ~ (1 > 1)
    OBVIOUS
  <2> SUFFICES ASSUME NEW v \in {f}, NEW j \in DOMAIN P[v]
               PROVE  P[v][j] \in {f} /\ Len(P[P[v][j]]) = j /\ ~ (j > 1)
    BY DEF Steps
  <2>3. v = f /\ j = 1
    BY <2>1
  <2> QED BY <2>1, <2>2, <2>3
<1>7. Queues(P, {f}, Q)
  <2>1. \A i, j \in DOMAIN Q : ~ (i < j)
    BY <1>1
  <2> QED BY <1>1, <1>4, <2>1 DEF Queues
<1> QED BY <1>4, <1>5, <1>6, <1>7 DEF Tells, Comes, Went, Q

\* The n members of N, in order.
Lists(s, n, N) ==
  /\ n \in Nat /\ s \in [1..n -> N]
  /\ (\A i, j \in 1..n : i < j => s[i] < s[j]) /\ \A b \in N : \E i \in 1..n : s[i] = b

Lengthens(S, p, s, n) == S = [i \in 1..n |-> Append(p, s[i])]

\* A turn of the loop that does not find what it is for.
LEMMA TellsOn ==
  ASSUME NEW P, NEW V, NEW Q, NEW E, NEW f, Tells(P, V, Q, E, f), Q # <<>>,
         NEW N, N \subseteq Nat,
         \A b \in Nat : b \in N <=> <<Head(Q)[Len(Head(Q))], b>> \in E /\ b \notin V,
         NEW n, NEW s, Lists(s, n, N), NEW S, Lengthens(S, Head(Q), s, n)
  PROVE  \E R : Tells(R, V \cup N, Tail(Q) \o S, E, f)
<1> USE DEF Lists
<1> DEFINE v == Head(Q)[Len(Head(Q))]
<1>a. \A b \in Nat : b \in N <=> <<v, b>> \in E /\ b \notin V
  OBVIOUS
<1> DEFINE h == Head(Q)
           T == Tail(Q) \o S
           m == Len(Q) - 1
           W == V \cup N
           R == [b \in W |-> IF b \in V THEN P[b] ELSE Append(h, b)]
<1>1. /\ Q \in Seq(Seq(Nat)) /\ m \in Nat /\ h = Q[1] /\ 1 \in DOMAIN Q /\ DOMAIN Q = 1..(m + 1)
      /\ h \in Seq(Nat)
  BY DEF Tells, Ends
<1>0. \A b \in N : b \in Nat
  OBVIOUS
<1>2. S \in Seq(Seq(Nat)) /\ Len(S) = n /\ \A i \in 1..n : S[i] = Append(h, s[i]) /\ s[i] \in N
  <2>1. \A i \in 1..n : s[i] \in N /\ Append(h, s[i]) \in Seq(Nat)
    BY <1>0, <1>1, AppendFacts
  <2> QED BY <2>1 DEF Lengthens
<1>3. T \in Seq(Seq(Nat)) /\ Len(T) = m + n /\ DOMAIN T = 1..(m + n)
  <2>1. Tail(Q) \in Seq(Seq(Nat)) /\ Len(Tail(Q)) = m
    BY <1>1
  <2>2. S \in Seq(Seq(Nat)) /\ Len(S) = n
    BY <1>2
  <2>3. T \in Seq(Seq(Nat)) /\ Len(T) = m + n
    BY <2>1, <2>2, ConcatProperties
  <2> QED BY <2>3
<1>4. \A i \in 1..m : T[i] = Q[i + 1] /\ i + 1 \in DOMAIN Q /\ i \in DOMAIN T
  BY <1>1, <1>2
<1>5. \A i \in 1..n : T[m + i] = Append(h, s[i]) /\ m + i \in DOMAIN T /\ s[i] \in N
  <2> SUFFICES ASSUME NEW i \in 1..n PROVE T[m + i] = S[i] /\ m + i \in DOMAIN T
    BY <1>2
  <2> QED BY <1>1, <1>2, <1>3
<1>6. \A k \in DOMAIN T : k \in 1..m \/ \E i \in 1..n : k = m + i
  <2> SUFFICES ASSUME NEW k \in 1..(m + n), k \notin 1..m PROVE k - m \in 1..n /\ k = m + (k - m)
    BY <1>3
  <2> QED BY <1>1
<1> HIDE DEF T, m
<1>7. v \in V /\ P[v] = h /\ v \in Nat /\ h # <<>> /\ Waits(h, Q)
  <2>1. PICK w \in V : h = P[w]
    BY <1>1 DEF Tells, Queues
  <2>2. w = v
    BY <2>1 DEF Tells, Ends
  <2> QED BY <1>1, <2>1, <2>2 DEF Tells, Ends, Waits
<1> HIDE DEF h
<1>8. /\ \A b \in V : R[b] = P[b] /\ b \in W /\ R[b] \in Seq(Nat)
      /\ \A b \in N : R[b] = Append(h, b) /\ b \in W /\ b \notin V /\ R[b] \in Seq(Nat)
      /\ R \in [W -> Seq(Nat)]
  <2>1. \A b \in V : P[b] \in Seq(Nat)
    BY DEF Tells, Ends
  <2>2. \A b \in N : Append(h, b) \in Seq(Nat) /\ b \notin V
    BY <1>0, <1>1, AppendFacts
  <2> QED BY <2>1, <2>2
<1> HIDE DEF R, W
<1>9. \A b \in N : Len(R[b]) = Len(h) + 1 /\ R[b][Len(R[b])] = b /\ R[b] # <<>> /\ R[b][1] = f
  <2> SUFFICES ASSUME NEW b \in N PROVE Len(Append(h, b)) = Len(h) + 1 /\ Append(h, b)[Len(h) + 1] = b
                                          /\ Append(h, b) # <<>> /\ Append(h, b)[1] = h[1]
    <3>1. h[1] = f
      BY <1>7 DEF Tells, Ends
    <3> SUFFICES ASSUME NEW b \in N
                 PROVE  Len(R[b]) = Len(h) + 1 /\ R[b][Len(R[b])] = b /\ R[b] # <<>> /\ R[b][1] = f
      OBVIOUS
    <3>2. R[b] = Append(h, b)
      BY <1>8
    <3> QED BY <3>1, <3>2
  <2>1. 1 \in 1..Len(h)
    BY <1>1, <1>7
  <2>2. b \in Nat /\ h \in Seq(Nat)
    BY <1>0, <1>1
  <2> HIDE DEF Lists
  <2> QED BY <2>1, <2>2, AppendFacts
<1>10. \A b \in N : Waits(R[b], T)
  <2> SUFFICES ASSUME NEW b \in N PROVE \E k \in DOMAIN T : T[k] = Append(h, b)
    BY <1>8 DEF Waits
  <2>1. PICK i \in 1..n : s[i] = b
    OBVIOUS
  <2> QED BY <1>5, <2>1
<1>11. \A i \in 1..n : ~ \E u \in V : P[u] = Append(h, s[i])
  <2> SUFFICES ASSUME NEW i \in 1..n, NEW u \in V, P[u] = Append(h, s[i]) PROVE FALSE
    OBVIOUS
  <2>1. s[i] \in N /\ s[i] \notin V
    BY <1>5, <1>8
  <2>2. P[u][Len(P[u])] = s[i]
    BY <1>0, <1>1, <2>1, AppendFacts
  <2>3. P[u][Len(P[u])] = u
    BY DEF Tells, Ends
  <2> QED BY <2>1, <2>2, <2>3
\* Who waits now.
<1>12. \A u \in V : Waits(R[u], T) <=> Waits(P[u], Q) /\ u # v
  <2> SUFFICES ASSUME NEW u \in V PROVE Waits(P[u], T) <=> Waits(P[u], Q) /\ u # v
    BY <1>8
  <2>1. ASSUME Waits(P[u], T) PROVE Waits(P[u], Q) /\ u # v
    <3>1. PICK k \in DOMAIN T : T[k] = P[u]
      BY <2>1 DEF Waits
    <3>2. k \in 1..m
      BY <1>5, <1>6, <1>11, <3>1
    <3>3. k + 1 \in DOMAIN Q /\ Q[k + 1] = P[u] /\ 1 < k + 1
      BY <1>1, <1>4, <3>1, <3>2
    <3>4. Sooner(h, Q[k + 1])
      BY <1>1, <3>3 DEF Tells, Queues
    <3>5. u # v
      BY <1>7, <3>3, <3>4, SoonerDiffers DEF Tells, Ends
    <3> QED BY <3>3, <3>5 DEF Waits
  <2>2. ASSUME Waits(P[u], Q), u # v PROVE Waits(P[u], T)
    <3>1. PICK k \in DOMAIN Q : Q[k] = P[u]
      BY <2>2 DEF Waits
    <3>2. k # 1
      BY <1>1, <1>7, <2>2, <3>1 DEF Tells, Ends
    <3>3. k - 1 \in 1..m /\ k = (k - 1) + 1
      BY <1>1, <3>1, <3>2
    <3>4. T[k - 1] = Q[k] /\ k - 1 \in DOMAIN T
      BY <1>4, <3>3
    <3> QED BY <3>1, <3>4 DEF Waits
  <2> QED BY <2>1, <2>2
<1>13. Ends(R, W, T, f)
  BY <1>3, <1>8, <1>9 DEF Tells, Ends, W
<1>14. Steps(R, W, E)
  <2> SUFFICES ASSUME NEW w \in W, NEW j \in DOMAIN R[w]
               PROVE  /\ R[w][j] \in W /\ Len(R[R[w][j]]) = j
                      /\ j > 1 => <<R[w][j - 1], R[w][j]>> \in E
    BY DEF Steps
  <2>1. CASE w \in V
    <3>1. R[w] = P[w]
      BY <1>8, <2>1
    <3>2. P[w][j] \in V /\ Len(P[P[w][j]]) = j /\ (j > 1 => <<P[w][j - 1], P[w][j]>> \in E)
      BY <2>1, <3>1 DEF Tells, Steps
    <3> QED BY <1>8, <3>1, <3>2
  <2>2. CASE w \in N
    <3>1. R[w] = Append(h, w) /\ w \in Nat
      BY <1>0, <1>8, <2>2
    <3>2. DOMAIN R[w] = 1..(Len(h) + 1) /\ \A k \in 1..Len(h) : R[w][k] = h[k]
      BY <1>1, <3>1, AppendFacts
    <3>3. R[w][Len(h) + 1] = w /\ Len(R[w]) = Len(h) + 1 /\ w \in W
      BY <1>1, <1>8, <2>2, <3>1, AppendFacts
    <3>7. Len(h) \in Nat
      BY <1>1
    <3>4. CASE j \in 1..Len(h)
      <4>1. /\ h[j] \in V /\ Len(P[h[j]]) = j
            /\ j > 1 => <<h[j - 1], h[j]>> \in E
        BY SMTT(30), <1>1, <1>7, <3>4 DEF Tells, Steps
      <4>2. j > 1 => j - 1 \in 1..Len(h)
        BY <3>4
      <4> QED BY <1>8, <3>2, <3>4, <4>1, <4>2
    <3>5. CASE j = Len(h) + 1
      <4>1. h[Len(h)] = v /\ Len(h) \in 1..Len(h)
        BY <1>1, <1>7 DEF Tells, Ends
      <4>2. <<v, w>> \in E
        BY <2>2
      <4>3. R[w][j] = w /\ R[w][j - 1] = v /\ Len(R[w]) = j
        BY <3>2, <3>3, <3>5, <3>7, <4>1
      <4> QED BY <3>3, <4>2, <4>3
    <3> QED BY <3>2, <3>4, <3>5, <3>7
  <2> QED BY <2>1, <2>2 DEF W
<1>15. Comes(R, W, T, E, f)
  <2> SUFFICES ASSUME NEW w \in W \ {f}
               PROVE  \E u \in W : ~ Waits(R[u], T) /\ <<u, w>> \in E /\ R[w] = Append(R[u], w)
    BY DEF Comes
  <2>1. CASE w \in V
    <3>1. PICK u \in V : ~ Waits(P[u], Q) /\ <<u, w>> \in E /\ P[w] = Append(P[u], w)
      BY <2>1 DEF Tells, Comes
    <3> QED BY <1>8, <1>12, <2>1, <3>1
  <2>2. CASE w \in N
    <3>1. ~ Waits(R[v], T) /\ <<v, w>> \in E /\ R[w] = Append(R[v], w) /\ v \in W
      BY <1>7, <1>8, <1>12, <2>2
    <3> QED BY <3>1
  <2> QED BY <2>1, <2>2 DEF W
<1>16. \A u \in V : ~ Waits(R[u], T) => u = v \/ (~ Waits(P[u], Q) /\ Sooner(P[u], h))
  BY <1>1, <1>12 DEF Tells, Queues
\* An older path in the queue comes before those that are new.
<1>17. \A k \in 1..m, i \in 1..n : Sooner(T[k], Append(h, s[i]))
  <2> SUFFICES ASSUME NEW k \in 1..m, NEW i \in 1..n, NEW q \in Seq(Nat), q = Q[k + 1]
               PROVE Sooner(q, Append(h, s[i]))
    BY <1>1, <1>4
  <2>1. PICK w \in V : q = P[w]
    BY <1>4 DEF Tells, Queues
  <2>2. CASE w = f
    <3>1. Len(q) = 1 /\ Len(Append(h, s[i])) > 1
      <4>1. q = <<f>>
        BY <2>1, <2>2 DEF Tells, Ends
      <4>2. Len(h) > 0 /\ s[i] \in Nat
        <5>1. Len(h) > 0
          BY <1>1, <1>7
        <5> QED BY <1>0, <1>5, <5>1
      <4>3. Len(Append(h, s[i])) = Len(h) + 1
        BY <1>1, <4>2, AppendFacts
      <4> QED BY <4>1, <4>2, <4>3
    <3> QED BY <3>1 DEF Sooner
  <2>3. CASE w # f
    <3>1. PICK u \in V : ~ Waits(P[u], Q) /\ P[w] = Append(P[u], w)
      BY <2>3 DEF Tells, Comes
    <3>2. Sooner(P[u], h) /\ P[u] \in Seq(Nat) /\ w \in Nat
      BY <1>1, <3>1 DEF Tells, Queues, Ends
    <3>3. s[i] \in Nat
      BY <1>5
    <3> QED BY <1>1, <2>1, <3>1, <3>2, <3>3, SoonerAppend
  <2> QED BY <2>2, <2>3
<1>18. Queues(R, W, T)
  <2>1. \A k \in DOMAIN T : \E w \in W : T[k] = R[w]
    <3> SUFFICES ASSUME NEW k \in DOMAIN T PROVE \E w \in W : T[k] = R[w]
      OBVIOUS
    <3>1. CASE k \in 1..m
      <4>1. PICK w \in V : Q[k + 1] = P[w]
        BY <1>4, <3>1 DEF Tells, Queues
      <4> QED BY <1>4, <1>8, <3>1, <4>1
    <3>2. CASE \E i \in 1..n : k = m + i
      <4>1. PICK i \in 1..n : k = m + i
        BY <3>2
      <4>2. T[k] = R[s[i]] /\ s[i] \in W
        BY <1>5, <1>8, <4>1
      <4> QED BY <4>2
    <3> QED BY <1>6, <3>1, <3>2
  <2>2. ASSUME NEW k \in DOMAIN T, NEW l \in DOMAIN T, k < l PROVE Sooner(T[k], T[l])
    <3>1. CASE k \in 1..m /\ l \in 1..m
      <4>1. k + 1 \in DOMAIN Q /\ l + 1 \in DOMAIN Q /\ k + 1 < l + 1 /\ T[k] = Q[k + 1] /\ T[l] = Q[l + 1]
        <5>1. k + 1 < l + 1
          BY <1>1, <2>2, <3>1
        <5> QED BY <1>4, <3>1, <5>1
      <4> QED BY <4>1 DEF Tells, Queues
    <3>2. CASE k \in 1..m /\ \E i \in 1..n : l = m + i
      BY <1>5, <1>17, <3>2
    <3>3. CASE (\E i \in 1..n : k = m + i) /\ \E i \in 1..n : l = m + i
      <4>1. PICK i \in 1..n : k = m + i
        BY <3>3
      <4>2. PICK j \in 1..n : l = m + j
        BY <3>3
      <4>3. i < j
        BY <1>1, <2>2, <4>1, <4>2
      <4>4. s[i] < s[j] /\ s[i] \in Nat /\ s[j] \in Nat
        BY <1>5, <4>3
      <4>5. Sooner(Append(h, s[i]), Append(h, s[j]))
        BY <1>1, <4>4, AppendSooner
      <4>6. T[k] = Append(h, s[i]) /\ T[l] = Append(h, s[j])
        BY <1>5, <4>1, <4>2
      <4> QED BY ONLY <4>5, <4>6
    <3>4. CASE (\E i \in 1..n : k = m + i) /\ l \in 1..m
      BY <1>1, <2>2, <3>4
    <3> QED BY <1>6, <3>1, <3>2, <3>3, <3>4
  <2>3. ASSUME NEW u \in W, ~ Waits(R[u], T), NEW k \in DOMAIN T PROVE Sooner(R[u], T[k])
    <3>1. u \in V
      BY <1>10, <2>3 DEF W
    <3>2. u = v \/ (~ Waits(P[u], Q) /\ Sooner(P[u], h))
      BY <1>16, <2>3, <3>1
    <3>3. CASE k \in 1..m
      <4>1. T[k] = Q[k + 1] /\ k + 1 \in DOMAIN Q /\ 1 < k + 1
        BY <1>1, <1>4, <3>3
      <4>2. CASE u = v
        <5>1. R[u] = Q[1]
          BY <1>1, <1>7, <1>8, <4>2
        <5>2. Sooner(Q[1], Q[k + 1])
          BY <1>1, <4>1 DEF Tells, Queues
        <5> QED BY <4>1, <5>1, <5>2
      <4>3. CASE ~ Waits(P[u], Q)
        BY <1>8, <3>1, <4>1, <4>3 DEF Tells, Queues
      <4> QED BY <3>2, <4>2, <4>3
    <3>4. CASE \E i \in 1..n : k = m + i
      <4>1. PICK i \in 1..n : k = m + i
        BY <3>4
      <4>2. T[k] = Append(h, s[i]) /\ s[i] \in Nat /\ Sooner(h, Append(h, s[i])) /\ Append(h, s[i]) \in Seq(Nat)
        <5>1. T[k] = Append(h, s[i]) /\ s[i] \in Nat
          BY <1>0, <1>5, <4>1
        <5>2. Len(h) < Len(Append(h, s[i])) /\ Append(h, s[i]) \in Seq(Nat)
          BY <1>1, <5>1, AppendFacts
        <5> QED BY <5>1, <5>2 DEF Sooner
      <4>3. CASE u = v
        BY <1>7, <1>8, <4>2, <4>3
      <4>4. CASE Sooner(P[u], h)
        <5>1. P[u] \in Seq(Nat) /\ R[u] = P[u]
          BY <1>8, <3>1
        <5>2. Sooner(P[u], Append(h, s[i]))
          BY <1>1, <4>2, <4>4, <5>1, SoonerTransitive
        <5> QED BY <4>2, <5>1, <5>2
      <4> QED BY <3>2, <4>3, <4>4
    <3> QED BY <1>6, <3>3, <3>4
  <2> QED BY <2>1, <2>2, <2>3 DEF Queues
<1>19. Went(R, W, T, E)
  <2> SUFFICES ASSUME NEW u \in W, ~ Waits(R[u], T), NEW b \in Nat, <<u, b>> \in E
               PROVE  b \in W /\ (R[b] = Append(R[u], b) \/ Sooner(R[b], Append(R[u], b)))
    BY DEF Went
  <2>1. u \in V
    BY <1>10 DEF W
  <2>2. CASE u # v
    <3>1. ~ Waits(P[u], Q)
      BY <1>16, <2>1, <2>2
    <3> QED BY <1>8, <2>1, <3>1 DEF Tells, Went
  <2>3. CASE u = v /\ b \notin V
    BY <1>7, <1>8, <2>3
  <2>4. CASE u = v /\ b \in V
    <3>1. R[b] = P[b] /\ P[b] \in Seq(Nat) /\ R[u] = h /\ b \in W
      BY <1>7, <1>8, <2>4 DEF Tells, Ends
    <3>2. CASE b = f
      <4>1. Len(P[b]) = 1 /\ Len(Append(h, b)) > 1
        <5>1. P[b] = <<f>>
          BY <3>2 DEF Tells, Ends
        <5>2. Len(h) > 0 /\ Len(Append(h, b)) = Len(h) + 1
          BY <1>1, <1>7, AppendFacts
        <5> QED BY <5>1, <5>2
      <4> QED BY <3>1, <4>1 DEF Sooner
    <3>3. CASE b # f
      <4>1. PICK w \in V : ~ Waits(P[w], Q) /\ P[b] = Append(P[w], b)
        BY <2>4, <3>3 DEF Tells, Comes
      <4>2. Sooner(P[w], h) /\ P[w] \in Seq(Nat)
        BY <1>1, <4>1 DEF Tells, Queues, Ends
      <4> QED BY <1>1, <3>1, <4>1, <4>2, SoonerAppend
    <3> QED BY <3>2, <3>3
  <2> QED BY <2>2, <2>3, <2>4
<1>20. Tells(R, W, T, E, f)
  BY <1>13, <1>14, <1>15, <1>18, <1>19 DEF Tells
<1> QED BY <1>20 DEF W, T

LEMMA PrefixGrows ==
  ASSUME NEW q \in Seq(Nat), NEW i \in Nat, i + 1 \in 1..Len(q), i > 0
  PROVE  /\ SubSeq(q, 1, i) \in Seq(Nat) /\ Len(SubSeq(q, 1, i)) = i
         /\ SubSeq(q, 1, i + 1) = Append(SubSeq(q, 1, i), q[i + 1])
         /\ q[i] \in Nat /\ q[i + 1] \in Nat /\ i \in 1..Len(q)
<1>1. SubSeq(q, 1, i) \in Seq(Nat) /\ Len(SubSeq(q, 1, i)) = i /\ \A j \in 1..i : SubSeq(q, 1, i)[j] = q[j]
  OBVIOUS
<1>2. SubSeq(q, 1, i + 1) \in Seq(Nat) /\ Len(SubSeq(q, 1, i + 1)) = i + 1
      /\ \A j \in 1..(i + 1) : SubSeq(q, 1, i + 1)[j] = q[j]
  OBVIOUS
<1>3. q[i] \in Nat /\ q[i + 1] \in Nat
  OBVIOUS
<1> DEFINE a == Append(SubSeq(q, 1, i), q[i + 1])
<1>4. a \in Seq(Nat) /\ Len(a) = i + 1 /\ a[i + 1] = q[i + 1] /\ \A j \in 1..i : a[j] = q[j]
  BY <1>1, <1>3, AppendFacts
<1>5. \A j \in 1..(i + 1) : SubSeq(q, 1, i + 1)[j] = a[j]
  BY <1>2, <1>4
<1> HIDE DEF a
<1>6. SubSeq(q, 1, i + 1) = a
  BY <1>2, <1>4, <1>5, SeqEqual
<1> QED BY <1>1, <1>3, <1>6 DEF a

\* A queue of paths with a position in it has a first path.
LEMMA HeadOfSome ==
  ASSUME NEW Q \in Seq(Seq(Nat)), NEW j \in DOMAIN Q
  PROVE  Q # <<>> /\ 1 \in DOMAIN Q /\ Head(Q) = Q[1] /\ Q[1] \in Seq(Nat) /\ j \in Nat /\ j >= 1
<1>1. Len(Q) \in Nat /\ DOMAIN Q = 1..Len(Q)
  OBVIOUS
<1>2. j \in Nat /\ j >= 1 /\ 1 \in DOMAIN Q
  BY <1>1
<1>3. Q # <<>> /\ Q[1] \in Seq(Nat)
  BY <1>2
<1> QED BY <1>2, <1>3

\* A path that goes on from the assets visited goes on from one that waits, and what the search
\* takes next is before it.
LEMMA FirstOfPaths ==
  ASSUME NEW P, NEW V, NEW Q, NEW E, NEW f, Tells(P, V, Q, E, f), NEW to \in Nat, to \notin V,
         NEW q \in Seq(Nat), q # <<>>, q[1] = f, q[Len(q)] = to,
         \A i \in 1..Len(q) - 1 : <<q[i], q[i + 1]>> \in E
  PROVE  /\ Q # <<>>
         /\ \/ Append(Head(Q), to) = q
            \/ Sooner(Append(Head(Q), to), q)
<1> DEFINE Done(i) == q[i] \in V /\ ~ Waits(P[q[i]], Q)
           Good(i) == q[i] \in V /\ (P[q[i]] = SubSeq(q, 1, i) \/ Sooner(P[q[i]], SubSeq(q, 1, i)))
           S == {i \in Nat : i \in 1..Len(q) /\ ~ Done(i)}
<1>1. Len(q) \in 1..Len(q) /\ Len(q) \in Nat
  OBVIOUS
<1>2. Len(q) \in S /\ S \in SUBSET Nat /\ S # {}
  BY <1>1
<1> HIDE DEF S
<1>3. PICK k \in S : \A i \in S : k <= i
  BY <1>2, LeastOf
<1>4. k \in 1..Len(q) /\ ~ Done(k) /\ \A i \in 1..Len(q) : i < k => Done(i)
  BY <1>1, <1>3 DEF S
<1> HIDE DEF Done
<1>5. \A i \in 1..k : Good(i)
  <2> DEFINE B == {i \in Nat : i \in 1..k /\ ~ Good(i)}
  <2> SUFFICES ASSUME B # {} PROVE FALSE
    <3>1. \A i \in 1..k : i \in Nat
      OBVIOUS
    <3> QED BY <3>1
  <2>1. B \in SUBSET Nat
    OBVIOUS
  <2>2. PICK l \in B : \A i \in B : l <= i
    BY <2>1, LeastOf
  <2>3. l \in 1..k /\ l \in Nat /\ ~ Good(l)
    OBVIOUS
  <2>4. \A i \in 1..k : i < l => Good(i)
    BY <1>4, <2>2, <2>3
  <2> HIDE DEF B
  <2>5. CASE l = 1
    <3>1. SubSeq(q, 1, 1) = <<f>>
      <4>1. SubSeq(q, 1, 1) \in Seq(Nat) /\ Len(SubSeq(q, 1, 1)) = 1 /\ SubSeq(q, 1, 1)[1] = f
        BY <1>1
      <4> HIDE DEF S
      <4>2. f \in Nat
        BY DEF Tells, Ends
      <4>3. Len(<<f>>) = 1 /\ <<f>> \in Seq(Nat) /\ <<f>>[1] = f
        BY <4>2
      <4>4. \A t \in 1..1 : t = 1
        OBVIOUS
      <4> QED BY <4>1, <4>3, <4>4, SeqEqual
    <3>2. f \in V /\ P[f] = <<f>>
      BY DEF Tells, Ends
    <3> QED BY <2>3, <2>5, <3>1, <3>2
  <2>6. CASE l # 1
    <3>1. PICK i \in Nat : l = i + 1 /\ i > 0 /\ i \in 1..k /\ i \in 1..Len(q) /\ i < k /\ i + 1 \in 1..Len(q)
      <4>1. l - 1 \in Nat /\ l = (l - 1) + 1 /\ l - 1 > 0 /\ l - 1 \in 1..k /\ l - 1 < k
        BY <1>4, <2>3, <2>6
      <4> QED BY <1>1, <1>4, <2>3, <4>1
    <3>2. Good(i) /\ Done(i)
      BY <1>4, <2>4, <3>1
    <3>3. <<q[i], q[i + 1]>> \in E /\ q[i + 1] \in Nat /\ q[i] \in Nat
      BY <3>1
    <3> DEFINE a == q[i]
               b == q[i + 1]
    <3>4. a \in V /\ b \in V /\ (P[b] = Append(P[a], b) \/ Sooner(P[b], Append(P[a], b)))
      BY <3>2, <3>3 DEF Done, Tells, Went
    <3>5. /\ SubSeq(q, 1, i) \in Seq(Nat) /\ SubSeq(q, 1, i + 1) = Append(SubSeq(q, 1, i), b)
          /\ P[a] \in Seq(Nat) /\ P[b] \in Seq(Nat)
      BY <3>1, <3>4, PrefixGrows DEF Tells, Ends
    <3>6. Append(P[a], b) = SubSeq(q, 1, i + 1) \/ Sooner(Append(P[a], b), SubSeq(q, 1, i + 1))
      <4>1. CASE P[a] = SubSeq(q, 1, i)
        BY <3>5, <4>1
      <4>2. CASE Sooner(P[a], SubSeq(q, 1, i))
        BY <3>3, <3>5, <4>2, SoonerAppend
      <4> QED BY <3>2, <4>1, <4>2
    <3>7. Append(P[a], b) \in Seq(Nat) /\ SubSeq(q, 1, i + 1) \in Seq(Nat)
      BY <3>3, <3>5, AppendFacts
    <3>8. Good(i + 1)
      BY <3>4, <3>5, <3>6, <3>7, SoonerTransitive
    <3> QED BY <2>3, <3>1, <3>8
  <2> QED BY <2>5, <2>6
<1>6. Good(k) /\ k \in Nat /\ k > 0
  BY <1>1, <1>4, <1>5
<1>7. PICK j \in DOMAIN Q : Q[j] = P[q[k]]
  BY <1>4, <1>6 DEF Done, Waits
<1>8. Q \in Seq(Seq(Nat)) /\ Q # <<>> /\ 1 \in DOMAIN Q /\ Head(Q) = Q[1] /\ Q[1] \in Seq(Nat) /\ j \in Nat /\ j >= 1
  <2>1. Q \in Seq(Seq(Nat))
    BY ZenonT(30) DEF Tells, Ends
  <2> QED BY ONLY <1>7, <2>1, HeadOfSome
<1>9. k + 1 \in 1..Len(q)
  <2>1. k # Len(q)
    BY <1>6
  <2> QED BY <1>1, <1>4, <2>1
<1> DEFINE h == Head(Q)
           s == SubSeq(q, 1, k)
<1>10. h = P[q[k]] \/ Sooner(h, P[q[k]])
  BY <1>7, <1>8 DEF Tells, Queues
<1>11. s \in Seq(Nat) /\ Len(s) = k /\ P[q[k]] \in Seq(Nat)
  BY <1>6, <1>9, PrefixGrows DEF Tells, Ends
<1>12. h = s \/ Sooner(h, s)
  BY <1>6, <1>8, <1>10, <1>11, SoonerTransitive
<1>13. Len(Append(h, to)) = Len(h) + 1 /\ Len(h) \in Nat
  BY <1>8, AppendFacts
<1>14. Len(h) <= k
  BY <1>11, <1>12 DEF Sooner
<1>15. CASE Len(h) + 1 < Len(q)
  BY <1>8, <1>13, <1>15 DEF Sooner
<1>16. CASE ~ (Len(h) + 1 < Len(q))
  <2>1. k + 1 = Len(q) /\ Len(h) = k
    BY <1>1, <1>6, <1>9, <1>13, <1>14, <1>16
  <2>2. q = SubSeq(q, 1, Len(q))
    OBVIOUS
  <2>3. q = Append(s, to)
    BY <1>6, <1>9, <2>1, <2>2, PrefixGrows
  <2>4. CASE h = s
    BY <1>8, <2>3, <2>4
  <2>5. CASE Sooner(h, s)
    BY <1>8, <1>11, <2>3, <2>5, SoonerAppend
  <2> QED BY <1>12, <2>4, <2>5
<1> QED BY <1>15, <1>16

\* And the path that is taken is one, without loops.
\* A path without loops from f to to, through V.
Leading(p, V, E, f, to) ==
  /\ p \in Seq(Nat) /\ p # <<>> /\ p[1] = f /\ p[Len(p)] = to
  /\ \A i \in 1..Len(p) : p[i] \in V
  /\ \A i \in 1..Len(p) - 1 : <<p[i], p[i + 1]>> \in E
  /\ \A i, j \in 1..Len(p) : p[i] = p[j] => i = j

LEMMA TakenIsPath ==
  ASSUME NEW P, NEW V, NEW Q, NEW E, NEW f, Tells(P, V, Q, E, f), Q # <<>>,
         NEW to \in Nat, to \notin V, <<Head(Q)[Len(Head(Q))], to>> \in E
  PROVE  Leading(Append(Head(Q), to), V \cup {to}, E, f, to)
<1> SUFFICES ASSUME NEW p, p = Append(Head(Q), to) PROVE Leading(p, V \cup {to}, E, f, to)
  OBVIOUS
<1> SUFFICES /\ p \in Seq(Nat) /\ p # <<>> /\ p[1] = f /\ p[Len(p)] = to
             /\ \A i \in 1..Len(p) : p[i] \in V \cup {to}
             /\ \A i \in 1..Len(p) - 1 : <<p[i], p[i + 1]>> \in E
             /\ \A i, j \in 1..Len(p) : p[i] = p[j] => i = j
  BY DEF Leading
<1> DEFINE h == Head(Q)
<1>1. Q \in Seq(Seq(Nat)) /\ 1 \in DOMAIN Q /\ h = Q[1] /\ h \in Seq(Nat)
  BY DEF Tells, Ends
<1>2. PICK v \in V : h = P[v]
  BY <1>1 DEF Tells, Queues
<1>3. h # <<>> /\ h[1] = f
  BY <1>2 DEF Tells, Ends
<1>4. \A j \in 1..Len(h) : h[j] \in V /\ Len(P[h[j]]) = j /\ (j > 1 => <<h[j - 1], h[j]>> \in E)
  <2>1. DOMAIN h = 1..Len(h)
    BY <1>1
  <2> HIDE DEF h
  <2> QED BY <1>2, <2>1 DEF Tells, Steps
<1>5. p = Append(h, to) /\ <<h[Len(h)], to>> \in E
  OBVIOUS
<1> HIDE DEF h
<1>6. /\ p \in Seq(Nat) /\ p # <<>> /\ Len(p) = Len(h) + 1 /\ p[Len(h) + 1] = to /\ Len(h) \in Nat
      /\ \A i \in 1..Len(h) : p[i] = h[i]
  <2>1. /\ Append(h, to) \in Seq(Nat) /\ Append(h, to) # <<>> /\ Len(Append(h, to)) = Len(h) + 1
        /\ Append(h, to)[Len(h) + 1] = to /\ Len(h) \in Nat
        /\ \A i \in 1..Len(h) : Append(h, to)[i] = h[i]
    BY <1>1, AppendFacts
  <2> QED BY <1>5, <2>1
<1>7. Len(h) > 0
  BY <1>1, <1>3
<1>8. p[1] = f /\ p[Len(p)] = to
  BY <1>3, <1>6, <1>7
<1>9. ASSUME NEW i \in 1..Len(p) PROVE p[i] \in V \cup {to} /\ (i \notin 1..Len(h) => i = Len(h) + 1)
  <2>1. i \in 1..Len(h) \/ i = Len(h) + 1
    BY <1>6
  <2> QED BY <1>4, <1>6, <2>1
<1>10. ASSUME NEW i \in 1..Len(p) - 1 PROVE <<p[i], p[i + 1]>> \in E
  <2>1. i \in 1..Len(h)
    BY <1>6
  <2>2. CASE i = Len(h)
    BY <1>5, <1>6, <2>1, <2>2
  <2>3. CASE i # Len(h)
    <3>1. i + 1 \in 1..Len(h) /\ i + 1 > 1 /\ (i + 1) - 1 = i
      BY <1>6, <2>1, <2>3
    <3>2. <<h[(i + 1) - 1], h[i + 1]>> \in E
      BY <1>4, <3>1
    <3> QED BY <1>6, <2>1, <3>1, <3>2
  <2> QED BY <2>2, <2>3
<1>11. ASSUME NEW i \in 1..Len(p), NEW j \in 1..Len(p), p[i] = p[j] PROVE i = j
  <2>1. CASE i \in 1..Len(h) /\ j \in 1..Len(h)
    BY <1>4, <1>6, <1>11, <2>1
  <2>2. CASE i \notin 1..Len(h) /\ j \notin 1..Len(h)
    BY <1>9, <2>2
  <2>3. CASE i \in 1..Len(h) /\ j \notin 1..Len(h)
    <3>1. p[i] \in V
      BY <1>4, <1>6, <2>3
    <3>2. p[j] = to
      BY <1>6, <1>9, <2>3
    <3> QED BY <1>11, <3>1, <3>2
  <2>4. CASE i \notin 1..Len(h) /\ j \in 1..Len(h)
    <3>1. p[j] \in V
      BY <1>4, <1>6, <2>4
    <3>2. p[i] = to
      BY <1>6, <1>9, <2>4
    <3> QED BY <1>11, <3>1, <3>2
  <2> QED BY <2>1, <2>2, <2>3, <2>4
<1> QED BY <1>6, <1>8, <1>9, <1>10, <1>11

-----------------------------------------------------------------------------
(***************************************************************************)
(* The queue of assets with their depths.  F is what was found, D the      *)
(* depths that are too deep.                                               *)
(***************************************************************************)

Hit(a, d) == [asset |-> a, depth |-> d]

Found(F, V, f) ==
  /\ V \subseteq Nat /\ f \in V /\ Hit(f, 0) \in F
  /\ \A h \in F : h.asset \in V /\ h.depth \in Nat /\ h = Hit(h.asset, h.depth)
  /\ \A v \in V : \E h \in F : h.asset = v
  /\ \A h, g \in F : h.asset = g.asset => h = g

Rows(F, Q) ==
  /\ \A i \in DOMAIN Q : Q[i] \in F
  /\ \A i, j \in DOMAIN Q : i < j => Q[i] # Q[j] /\ Q[i].depth <= Q[j].depth
  /\ \A g \in F : ~ Waits(g, Q) => \A i \in DOMAIN Q : g.depth <= Q[i].depth

Sprung(F, Q, E, f, D) ==
  \A h \in F \ {Hit(f, 0)} : \E g \in F :
    ~ Waits(g, Q) /\ <<g.asset, h.asset>> \in E /\ h.depth = g.depth + 1 /\ g.depth \notin D

Spread(F, Q, E, D) ==
  \A g \in F : ~ Waits(g, Q) /\ g.depth \notin D =>
    \A b \in Nat : <<g.asset, b>> \in E => \E h \in F : h.asset = b /\ h.depth <= g.depth + 1

\* A path by which h was found.
Way(p, h, F, E, f) ==
  /\ p \in Seq(Nat) /\ Len(p) = h.depth + 1 /\ p[1] = f /\ p[Len(p)] = h.asset
  /\ \A j \in 1..Len(p) : Hit(p[j], j - 1) \in F /\ (j > 1 => <<p[j - 1], p[j]>> \in E)

Search(F, V, Q, E, f, D) ==
  /\ Found(F, V, f) /\ Rows(F, Q) /\ Sprung(F, Q, E, f, D) /\ Spread(F, Q, E, D)
  /\ \A h \in F : \E p : Way(p, h, F, E, f)

LEMMA SearchFirst ==
  ASSUME NEW f \in Nat, NEW E, NEW D
  PROVE  Search({Hit(f, 0)}, {f}, <<Hit(f, 0)>>, E, f, D)
<1> DEFINE h == Hit(f, 0)
           Q == <<h>>
<1>1. h.asset = f /\ h.depth = 0 /\ h = Hit(h.asset, h.depth) /\ DOMAIN Q = {1} /\ Q[1] = h
  BY DEF Hit
<1>2. Found({h}, {f}, f)
  BY <1>1 DEF Found
<1>3. Waits(h, Q)
  BY <1>1 DEF Waits
<1>4. Rows({h}, Q)
  BY <1>1, <1>3 DEF Rows
<1>5. Sprung({h}, Q, E, f, D) /\ Spread({h}, Q, E, D)
  BY <1>1, <1>3 DEF Sprung, Spread
<1>6. Way(<<f>>, h, {h}, E, f)
  BY <1>1 DEF Way
<1> QED BY <1>2, <1>4, <1>5, <1>6 DEF Search

Reaches(S, c, s, n) == S = [i \in 1..n |-> Hit(s[i], c.depth + 1)]

\* A turn of the loop.
LEMMA SearchOn ==
  ASSUME NEW F, NEW V, NEW Q \in Seq(F), NEW E, NEW f, NEW D, Search(F, V, Q, E, f, D), Q # <<>>,
         NEW c, c = Head(Q), NEW N, N \subseteq Nat,
         \A b \in Nat : b \in N <=> c.depth \notin D /\ <<c.asset, b>> \in E /\ b \notin V,
         NEW n, NEW s, Lists(s, n, N), NEW S, Reaches(S, c, s, n),
         NEW G, G = F \cup {S[i] : i \in 1..n}
  PROVE  Tail(Q) \o S \in Seq(G) /\ Search(G, V \cup N, Tail(Q) \o S, E, f, D)
<1> USE DEF Lists, Reaches
<1> DEFINE T == Tail(Q) \o S
           m == Len(Q) - 1
           W == V \cup N
           d == c.depth
<1>0. \A b \in N : b \in Nat /\ b \notin V /\ d \notin D /\ <<c.asset, b>> \in E
  OBVIOUS
<1>1. m \in Nat /\ c = Q[1] /\ 1 \in DOMAIN Q /\ DOMAIN Q = 1..(m + 1) /\ c \in F
  OBVIOUS
<1>2. Len(S) = n /\ DOMAIN S = 1..n /\ \A i \in 1..n : S[i] = Hit(s[i], d + 1) /\ s[i] \in N /\ S[i] \in G
  OBVIOUS
<1>3. \A h \in F : h \in G
  OBVIOUS
<1>4. \A h \in G : h \in F \/ \E i \in 1..n : h = S[i]
  OBVIOUS
<1> HIDE DEF W
<1>5. T \in Seq(G) /\ Len(T) = m + n /\ DOMAIN T = 1..(m + n)
  <2>1. S \in Seq(G)
    <3>1. \A i \in 1..n : Hit(s[i], c.depth + 1) \in G
      BY <1>2
    <3> HIDE DEF Hit
    <3>2. S \in [1..n -> G]
      BY <3>1
    <3> QED BY <3>2
  <2>2. Tail(Q) \in Seq(G) /\ Len(Tail(Q)) = m
    BY <1>3
  <2> QED BY <2>1, <2>2, <1>2
<1>6. \A i \in 1..m : T[i] = Q[i + 1] /\ i + 1 \in DOMAIN Q /\ i \in DOMAIN T /\ 1 < i + 1
  BY <1>1, <1>2
<1>7. \A i \in 1..n : T[m + i] = S[i] /\ m + i \in DOMAIN T
  BY <1>1, <1>2, <1>5
<1>8. \A k \in DOMAIN T : k \in 1..m \/ \E i \in 1..n : k = m + i
  <2> SUFFICES ASSUME NEW k \in 1..(m + n), k \notin 1..m PROVE k - m \in 1..n /\ k = m + (k - m)
    BY <1>5
  <2> QED BY <1>1
<1> HIDE DEF T, m
<1>9. c.asset \in V /\ c.asset \in Nat /\ d \in Nat /\ Waits(c, Q)
  BY <1>1 DEF Search, Found, Waits
<1> HIDE DEF d
<1>10. \A i \in 1..n : S[i].asset = s[i] /\ S[i].depth = d + 1 /\ S[i] \notin F /\ S[i] = Hit(S[i].asset, S[i].depth)
  <2> SUFFICES ASSUME NEW i \in 1..n PROVE S[i].asset = s[i] /\ S[i].depth = d + 1 /\ S[i] \notin F
    BY <1>2 DEF Hit
  <2>1. S[i].asset = s[i] /\ S[i].depth = d + 1
    BY <1>2 DEF Hit
  <2>2. s[i] \notin V
    BY <1>0, <1>2
  <2> QED BY <2>1, <2>2 DEF Search, Found
<1> DEFINE Gone(g) == ~ Waits(g, Q)
<1>11. \A g \in F : Waits(g, T) <=> Waits(g, Q) /\ g # c
  <2> SUFFICES ASSUME NEW g \in F PROVE Waits(g, T) <=> Waits(g, Q) /\ g # c
    OBVIOUS
  <2>1. ASSUME Waits(g, T) PROVE Waits(g, Q) /\ g # c
    <3>1. PICK k \in DOMAIN T : T[k] = g
      BY <2>1 DEF Waits
    <3>2. k \in 1..m
      BY <1>7, <1>8, <1>10, <3>1
    <3>3. k + 1 \in DOMAIN Q /\ Q[k + 1] = g /\ 1 < k + 1
      BY <1>6, <3>1, <3>2
    <3>4. Q[1] # Q[k + 1]
      BY <1>1, <3>3 DEF Search, Rows
    <3> QED BY <1>1, <3>3, <3>4 DEF Waits
  <2>2. ASSUME Waits(g, Q), g # c PROVE Waits(g, T)
    <3>1. PICK k \in DOMAIN Q : Q[k] = g
      BY <2>2 DEF Waits
    <3>2. k # 1
      BY <1>1, <2>2, <3>1
    <3>3. k - 1 \in 1..m /\ k = (k - 1) + 1
      BY <1>1, <3>1, <3>2
    <3>4. T[k - 1] = Q[k] /\ k - 1 \in DOMAIN T
      BY <1>6, <3>3
    <3> QED BY <3>1, <3>4 DEF Waits
  <2> QED BY <2>1, <2>2
<1>12. \A i \in 1..n : Waits(S[i], T)
  BY <1>7 DEF Waits
<1>13. \A g \in G : ~ Waits(g, T) => g \in F /\ (g = c \/ ~ Waits(g, Q)) /\ g.depth \in Nat /\ g.depth <= d
  <2> SUFFICES ASSUME NEW g \in G, ~ Waits(g, T) PROVE g \in F /\ (g = c \/ ~ Waits(g, Q)) /\ g.depth \in Nat /\ g.depth <= d
    OBVIOUS
  <2>1. g \in F /\ (g = c \/ ~ Waits(g, Q))
    BY <1>4, <1>11, <1>12
  <2>2. g.depth \in Nat
    BY <2>1 DEF Search, Found
  <2>3. CASE g = c
    BY <1>9, <2>1, <2>2, <2>3 DEF d
  <2>4. CASE ~ Waits(g, Q)
    <3>1. g.depth <= Q[1].depth
      BY <1>1, <2>1, <2>4 DEF Search, Rows
    <3> QED BY <1>1, <2>1, <2>2, <3>1 DEF d
  <2> QED BY <2>1, <2>3, <2>4
\* Nothing is two steps ahead.
<1>14. \A h \in F : h.depth \in Nat /\ h.depth <= d + 1
  <2> SUFFICES ASSUME NEW h \in F PROVE h.depth \in Nat /\ h.depth <= d + 1
    OBVIOUS
  <2>1. h.depth \in Nat
    BY DEF Search, Found
  <2>2. CASE h = Hit(f, 0)
    <3>1. h.depth = 0
      BY <2>2 DEF Hit
    <3> QED BY <1>9, <3>1
  <2>3. CASE h # Hit(f, 0)
    <3>1. PICK g \in F : ~ Waits(g, Q) /\ h.depth = g.depth + 1
      BY <2>3 DEF Search, Sprung
    <3>2. g.depth <= d /\ g.depth \in Nat
      BY <1>3, <1>11, <1>13, <3>1
    <3> QED BY <1>9, <2>1, <3>1, <3>2
  <2> QED BY <2>2, <2>3
<1>15. Found(G, W, f)
  <2>1. W \subseteq Nat /\ f \in W /\ Hit(f, 0) \in G
    BY <1>0, <1>3 DEF Search, Found, W
  <2>2. \A h \in G : h.asset \in W /\ h.depth \in Nat /\ h = Hit(h.asset, h.depth)
    <3> SUFFICES ASSUME NEW h \in G PROVE h.asset \in W /\ h.depth \in Nat /\ h = Hit(h.asset, h.depth)
      OBVIOUS
    <3>1. CASE h \in F
      BY <3>1 DEF Search, Found, W
    <3>2. CASE \E i \in 1..n : h = S[i]
      <4>1. PICK i \in 1..n : h = S[i]
        BY <3>2
      <4>2. h.asset \in N /\ h.depth = d + 1 /\ h = Hit(h.asset, h.depth)
        BY <1>2, <1>10, <4>1
      <4> QED BY <1>9, <4>2 DEF W
    <3> QED BY <1>4, <3>1, <3>2
  <2>3. \A v \in W : \E h \in G : h.asset = v
    <3> SUFFICES ASSUME NEW v \in W PROVE \E h \in G : h.asset = v
      OBVIOUS
    <3>1. CASE v \in V
      BY <1>3, <3>1 DEF Search, Found
    <3>2. CASE v \in N
      <4>1. PICK i \in 1..n : s[i] = v
        BY <3>2
      <4> QED BY <1>2, <1>10, <4>1
    <3> QED BY <3>1, <3>2 DEF W
  <2>4. ASSUME NEW h \in G, NEW g \in G, h.asset = g.asset PROVE h = g
    <3>1. CASE h \in F /\ g \in F
      BY <2>4, <3>1 DEF Search, Found
    <3>2. \A a \in F, i \in 1..n : a.asset # S[i].asset
      <4> SUFFICES ASSUME NEW a \in F, NEW i \in 1..n PROVE a.asset # s[i]
        BY <1>10
      <4>1. a.asset \in V /\ s[i] \notin V
        BY <1>0, <1>2 DEF Search, Found
      <4> QED BY <4>1
    <3>3. CASE (\E i \in 1..n : h = S[i]) /\ \E i \in 1..n : g = S[i]
      <4>1. h.depth = d + 1 /\ g.depth = d + 1 /\ h = Hit(h.asset, h.depth) /\ g = Hit(g.asset, g.depth)
        BY <1>10, <3>3
      <4> QED BY <2>4, <4>1
    <3> QED BY <1>4, <2>4, <3>1, <3>2, <3>3
  <2> QED BY <2>1, <2>2, <2>3, <2>4 DEF Found
<1>16. Rows(G, T)
  <2>1. \A k \in DOMAIN T : T[k] \in G
    BY <1>5
  <2>2. ASSUME NEW k \in DOMAIN T, NEW l \in DOMAIN T, k < l PROVE T[k] # T[l] /\ T[k].depth <= T[l].depth
    <3>1. CASE k \in 1..m /\ l \in 1..m
      <4>1. k + 1 \in DOMAIN Q /\ l + 1 \in DOMAIN Q /\ T[k] = Q[k + 1] /\ T[l] = Q[l + 1]
        BY <1>6, <3>1
      <4>2. k + 1 < l + 1
        BY <1>1, <2>2, <3>1
      <4> QED BY <4>1, <4>2 DEF Search, Rows
    <3>2. CASE k \in 1..m /\ \E i \in 1..n : l = m + i
      <4>1. PICK i \in 1..n : l = m + i
        BY <3>2
      <4>2. T[k] \in F /\ T[l] \notin F /\ T[l].depth = d + 1
        BY <1>6, <1>7, <1>10, <3>2, <4>1 DEF Search, Rows
      <4> QED BY <1>14, <4>2
    <3>3. CASE (\E i \in 1..n : k = m + i) /\ \E i \in 1..n : l = m + i
      <4>1. PICK i \in 1..n : k = m + i
        BY <3>3
      <4>2. PICK j \in 1..n : l = m + j
        BY <3>3
      <4>3. i < j
        BY <1>1, <2>2, <4>1, <4>2
      <4>4. s[i] < s[j] /\ s[i] \in Nat /\ s[j] \in Nat
        BY <1>0, <1>2, <4>3
      <4>5. T[k].asset = s[i] /\ T[l].asset = s[j] /\ T[k].depth = d + 1 /\ T[l].depth = d + 1
        BY <1>7, <1>10, <4>1, <4>2
      <4> QED BY <1>9, <4>4, <4>5
    <3>4. CASE (\E i \in 1..n : k = m + i) /\ l \in 1..m
      BY <1>1, <2>2, <3>4
    <3> QED BY <1>8, <3>1, <3>2, <3>3, <3>4
  <2>3. ASSUME NEW g \in G, ~ Waits(g, T), NEW k \in DOMAIN T PROVE g.depth <= T[k].depth
    <3>1. g \in F /\ (g = c \/ ~ Waits(g, Q)) /\ g.depth \in Nat /\ g.depth <= d
      BY <1>13, <2>3
    <3>2. CASE k \in 1..m
      <4>1. k + 1 \in DOMAIN Q /\ T[k] = Q[k + 1] /\ 1 < k + 1
        BY <1>6, <3>2
      <4>2. CASE g = c
        BY <1>1, <4>1, <4>2 DEF Search, Rows
      <4>3. CASE ~ Waits(g, Q)
        BY <3>1, <4>1, <4>3 DEF Search, Rows
      <4> QED BY <3>1, <4>2, <4>3
    <3>3. CASE \E i \in 1..n : k = m + i
      <4>1. T[k].depth = d + 1
        BY <1>7, <1>10, <3>3
      <4> QED BY <1>9, <3>1, <4>1
    <3> QED BY <1>8, <3>2, <3>3
  <2> QED BY <2>1, <2>2, <2>3 DEF Rows
<1>17. Sprung(G, T, E, f, D)
  <2> SUFFICES ASSUME NEW h \in G \ {Hit(f, 0)}
               PROVE  \E g \in G : ~ Waits(g, T) /\ <<g.asset, h.asset>> \in E /\ h.depth = g.depth + 1 /\ g.depth \notin D
    BY DEF Sprung
  <2>1. CASE h \in F
    <3>1. PICK g \in F : ~ Waits(g, Q) /\ <<g.asset, h.asset>> \in E /\ h.depth = g.depth + 1 /\ g.depth \notin D
      BY <2>1 DEF Search, Sprung
    <3> QED BY <1>3, <1>11, <3>1
  <2>2. CASE \E i \in 1..n : h = S[i]
    <3>1. PICK i \in 1..n : h = S[i]
      BY <2>2
    <3>2. h.asset \in N /\ h.depth = d + 1
      BY <1>2, <1>10, <3>1
    <3>3. <<c.asset, h.asset>> \in E /\ c.depth \notin D /\ ~ Waits(c, T) /\ c \in G
      BY <1>0, <1>1, <1>3, <1>11, <3>2 DEF d
    <3> QED BY <3>2, <3>3 DEF d
  <2> QED BY <1>4, <2>1, <2>2
<1>18. Spread(G, T, E, D)
  <2> SUFFICES ASSUME NEW g \in G, ~ Waits(g, T), g.depth \notin D, NEW b \in Nat, <<g.asset, b>> \in E
               PROVE  \E h \in G : h.asset = b /\ h.depth <= g.depth + 1
    BY DEF Spread
  <2>1. g \in F /\ (g = c \/ ~ Waits(g, Q))
    BY <1>13
  <2>2. CASE ~ Waits(g, Q)
    <3>1. PICK h \in F : h.asset = b /\ h.depth <= g.depth + 1
      BY <2>1, <2>2 DEF Search, Spread
    <3> QED BY <1>3, <3>1
  <2>3. CASE g = c /\ b \in V
    <3>1. PICK h \in F : h.asset = b
      BY <2>3 DEF Search, Found
    <3> QED BY <1>3, <1>14, <2>3, <3>1 DEF d
  <2>4. CASE g = c /\ b \notin V
    <3>1. b \in N
      BY <2>4
    <3>2. PICK i \in 1..n : s[i] = b
      BY <3>1
    <3>3. S[i] \in G /\ S[i].asset = b /\ S[i].depth = g.depth + 1
      BY <1>2, <1>10, <2>4, <3>2 DEF d
    <3> QED BY <1>9, <2>4, <3>3 DEF d
  <2> QED BY <2>1, <2>2, <2>3, <2>4
<1>19. \A h \in F : \A p : Way(p, h, F, E, f) => Way(p, h, G, E, f)
  BY <1>3 DEF Way
<1>20. \A h \in G : \E p : Way(p, h, G, E, f)
  <2> SUFFICES ASSUME NEW h \in G PROVE \E p : Way(p, h, G, E, f)
    OBVIOUS
  <2>1. CASE h \in F
    BY <1>19, <2>1 DEF Search
  <2>2. CASE \E i \in 1..n : h = S[i]
    <3>1. h.asset \in N /\ h.depth = d + 1 /\ h.asset \in Nat /\ h = Hit(h.asset, d + 1)
      <4>1. PICK i \in 1..n : h = S[i]
        BY <2>2
      <4>2. h.asset \in N /\ h.depth = d + 1 /\ h = Hit(h.asset, h.depth)
        BY <1>2, <1>10, <4>1
      <4> QED BY <1>0, <4>2
    <3>2. <<c.asset, h.asset>> \in E
      BY <1>0, <3>1
    <3>3. PICK p : Way(p, c, F, E, f)
      BY <1>1 DEF Search
    <3>4. p \in Seq(Nat) /\ Len(p) = d + 1 /\ p[1] = f /\ p[d + 1] = c.asset
      BY <3>3 DEF Way, d
    <3>5. \A j \in 1..d + 1 : Hit(p[j], j - 1) \in G /\ (j > 1 => <<p[j - 1], p[j]>> \in E)
      BY <1>3, <3>3, <3>4 DEF Way
    <3> DEFINE r == Append(p, h.asset)
    <3>6. r \in Seq(Nat) /\ Len(r) = d + 2 /\ r[d + 2] = h.asset /\ \A j \in 1..d + 1 : r[j] = p[j]
      BY <1>9, <3>1, <3>4, AppendFacts
    <3> HIDE DEF r
    <3>7. r[1] = f /\ r[d + 1] = c.asset
      BY <1>9, <3>4, <3>6
    <3>8. ASSUME NEW j \in 1..d + 2 PROVE Hit(r[j], j - 1) \in G /\ (j > 1 => <<r[j - 1], r[j]>> \in E)
      <4>1. CASE j \in 1..d + 1
        <5>1. j > 1 => j - 1 \in 1..d + 1
          BY <1>9, <4>1
        <5> QED BY <3>5, <3>6, <4>1, <5>1
      <4>2. CASE j = d + 2
        <5>1. j - 1 = d + 1
          BY <1>9, <4>2
        <5> QED BY <3>1, <3>2, <3>6, <3>7, <4>2, <5>1
      <4> QED BY <1>9, <4>1, <4>2
    <3>9. Way(r, h, G, E, f)
      <4>1. h.depth + 1 = d + 2
        BY <1>9, <3>1
      <4> QED BY <3>6, <3>7, <3>8, <4>1 DEF Way
    <3> QED BY <3>9
  <2> QED BY <1>4, <2>1, <2>2
<1>21. Search(G, W, T, E, f, D)
  BY <1>15, <1>16, <1>17, <1>18, <1>20 DEF Search
<1> QED BY <1>5, <1>21 DEF W, T

\* When nothing is left, an asset that a path leads to has been found, and not deeper.
LEMMA SearchEnds ==
  ASSUME NEW F, NEW V, NEW E, NEW f, NEW D, Search(F, V, <<>>, E, f, D),
         \A d, e \in Nat : d \in D /\ d <= e => e \in D,
         NEW q \in Seq(Nat), q # <<>>, q[1] = f, Len(q) = 1 \/ Len(q) - 2 \notin D,
         \A i \in 1..Len(q) - 1 : <<q[i], q[i + 1]>> \in E
  PROVE  \E h \in F : h.asset = q[Len(q)] /\ h.depth < Len(q)
<1> DEFINE Good(i) == \E h \in F : h.asset = q[i] /\ h.depth < i
           B == {i \in Nat : i \in 1..Len(q) /\ ~ Good(i)}
<1>1. Len(q) \in Nat /\ Len(q) \in 1..Len(q)
  OBVIOUS
<1> SUFFICES ASSUME B # {} PROVE FALSE
  BY <1>1
<1>2. B \in SUBSET Nat
  OBVIOUS
<1>3. PICK k \in B : \A i \in B : k <= i
  BY <1>2, LeastOf
<1>4. k \in 1..Len(q) /\ k \in Nat /\ ~ Good(k)
  OBVIOUS
<1>5. \A i \in 1..Len(q) : i < k => Good(i)
  BY <1>3, <1>4
<1> HIDE DEF B
<1>6. k # 1
  <2>1. Hit(f, 0) \in F /\ Hit(f, 0).asset = f /\ Hit(f, 0).depth = 0
    BY DEF Search, Found, Hit
  <2>2. Good(1)
    BY <2>1
  <2> QED BY <1>4, <2>2
<1>7. PICK i \in Nat : k = i + 1 /\ i \in 1..Len(q) /\ i \in 1..Len(q) - 1 /\ i < k
  <2>1. k - 1 \in Nat /\ k = (k - 1) + 1 /\ k - 1 \in 1..Len(q) /\ k - 1 \in 1..Len(q) - 1 /\ k - 1 < k
    BY <1>1, <1>4, <1>6
  <2> QED BY <2>1
<1>8. PICK h \in F : h.asset = q[i] /\ h.depth < i
  BY <1>5, <1>7
<1>9. h.depth \in Nat
  BY DEF Search, Found
<1>10. h.depth \notin D
  <2>1. Len(q) - 2 \in Nat /\ h.depth <= Len(q) - 2 /\ Len(q) # 1
    BY <1>1, <1>7, <1>8, <1>9
  <2> QED BY <1>9, <2>1
<1>11. ~ Waits(h, <<>>)
  BY DEF Waits
<1>12. <<q[i], q[k]>> \in E /\ q[k] \in Nat
  BY <1>4, <1>7
<1>13. PICK g \in F : g.asset = q[k] /\ g.depth <= h.depth + 1
  BY <1>8, <1>10, <1>11, <1>12 DEF Search, Spread
<1>14. g.depth \in Nat
  BY DEF Search, Found
<1> QED BY <1>4, <1>7, <1>8, <1>9, <1>13, <1>14

\* Ways have no loops, and are within the depth.
LEMMA WaysAreSimple ==
  ASSUME NEW F, NEW V, NEW Q, NEW E, NEW f, NEW D, Search(F, V, Q, E, f, D),
         NEW h \in F, NEW p, Way(p, h, F, E, f)
  PROVE  /\ \A i, j \in 1..Len(p) : p[i] = p[j] => i = j
         /\ \A i \in 1..Len(p) : p[i] \in V
<1>1. \A i \in 1..Len(p) : Hit(p[i], i - 1) \in F
  BY DEF Way
<1>2. \A i \in 1..Len(p) : Hit(p[i], i - 1).asset = p[i] /\ Hit(p[i], i - 1).depth = i - 1
  BY DEF Hit
<1>3. \A i \in 1..Len(p) : p[i] \in V
  BY <1>1, <1>2 DEF Search, Found
<1>4. ASSUME NEW i \in 1..Len(p), NEW j \in 1..Len(p), p[i] = p[j] PROVE i = j
  <2>1. Hit(p[i], i - 1) = Hit(p[j], j - 1)
    BY <1>1, <1>2, <1>4 DEF Search, Found
  <2>2. i - 1 = j - 1
    BY <1>2, <2>1
  <2> QED BY <2>2
<1> QED BY <1>3, <1>4

-----------------------------------------------------------------------------
(***************************************************************************)
(* Query: what visited, queue and hits are at every turn.                  *)
(***************************************************************************)

Edges == { e \in Nodes \X Nodes : Graph!Leads(e[1], e[2]) }

Beyond == { d \in Nat : Graph!TooDeep(d) }

FoundSoFar == {Hit(query.from, 0)} \cup { hits[i] : i \in DOMAIN hits }

QueryOK ==
  /\ relations \subseteq Graph!Relation /\ query \in Graph!Traversal \cup Graph!PathQuery
  /\ visited \subseteq Nodes

PathOK ==
  query.kind = "path" =>
    /\ hits = <<>>
    /\ \/ query.from = query.to /\ queue = <<>> /\ answer = <<query.from>>
       \/ /\ query.from # query.to /\ query.to \notin visited
          /\ \E P : Tells(P, visited, queue, Edges, query.from)
          /\ answer # NoName =>
               IF queue = <<>> THEN answer = <<>>
               ELSE /\ answer = Append(Head(queue), query.to)
                    /\ <<Head(queue)[Len(Head(queue))], query.to>> \in Edges

SortedHits ==
  CHOOSE s \in Graph!Reordered(hits) : \A i, j \in DOMAIN s : i < j => ~ Graph!ByDepthThenId(s[j], s[i])

HitsOK ==
  query.kind = "traverse" =>
    /\ queue \in Seq(FoundSoFar) /\ hits \in Seq([asset : Nodes, depth : Nat])
    /\ Search(FoundSoFar, visited, queue, Edges, query.from, Beyond)
    /\ \A i, j \in DOMAIN hits : i # j => hits[i] # hits[j]
    /\ \A i \in DOMAIN hits : hits[i].depth > 0
    /\ answer # NoName => queue = <<>> /\ answer = SortedHits

GraphInv == QueryOK /\ PathOK /\ HitsOK

\* The library's operators are the same in the instance.
LEMMA SameLibrary ==
  ASSUME NEW S
  PROVE  /\ Graph!IsFiniteSet(S) <=> IsFiniteSet(S)
         /\ Graph!Cardinality(S) = Cardinality(S)
BY DEF Graph!IsFiniteSet, IsFiniteSet, Graph!Cardinality, Cardinality

LEMMA NodesAreNumbers == Nodes \subseteq Nat /\ IsFiniteSet(Nodes)
BY PartsAssumption, SameLibrary DEF Graph!QueryAssumption

LEMMA QueryFields ==
  ASSUME QueryOK
  PROVE  /\ query.from \in Nodes /\ query.direction \in {"outgoing", "incoming", "any"}
         /\ query.kind \in {"traverse", "path"}
         /\ query.kind = "path" => query.to \in Nodes
         /\ query.kind = "traverse" => query.depth \in Depths
BY DEF QueryOK, Graph!Traversal, Graph!PathQuery, Graph!Directions

LEMMA EdgesLead ==
  ASSUME QueryOK
  PROVE  /\ Edges \subseteq Nodes \X Nodes
         /\ \A a, b : <<a, b>> \in Edges <=> Graph!Leads(a, b)
         /\ \A a \in Nodes : Graph!Adjacent(a) \subseteq Nodes
         /\ \A a \in Nodes : \A b : b \in Graph!Adjacent(a) <=> <<a, b>> \in Edges
<1>1. \A r \in relations : r.source \in Nodes /\ r.target \in Nodes
  BY DEF QueryOK, Graph!Relation
<1>2. \A a, b : Graph!Leads(a, b) => a \in Nodes /\ b \in Nodes
  BY <1>1 DEF Graph!Leads
<1>3. \A a, b : <<a, b>> \in Edges <=> Graph!Leads(a, b)
  BY <1>2 DEF Edges
<1>4. \A a, b : b \in Graph!Adjacent(a) <=> Graph!Leads(a, b)
  <2> SUFFICES ASSUME NEW a, NEW b PROVE b \in Graph!Adjacent(a) <=> Graph!Leads(a, b)
    OBVIOUS
  <2>1. query.direction \in {"outgoing", "incoming", "any"}
    BY QueryFields
  <2> DEFINE W(r) == query.types = {} \/ r.type \in query.types
  <2>2. b \in Graph!Adjacent(a) <=>
          \/ query.direction \in {"outgoing", "any"} /\ \E r \in relations : W(r) /\ r.source = a /\ r.target = b
          \/ query.direction \in {"incoming", "any"} /\ \E r \in relations : W(r) /\ r.target = a /\ r.source = b
    BY DEF Graph!Adjacent, Graph!Wanted
  <2>3. Graph!Leads(a, b) <=>
          \E r \in relations : W(r) /\ \/ query.direction # "incoming" /\ a = r.source /\ b = r.target
                                       \/ query.direction # "outgoing" /\ a = r.target /\ b = r.source
    BY DEF Graph!Leads
  <2> QED BY <2>1, <2>2, <2>3
<1> QED BY <1>2, <1>3, <1>4 DEF Edges

LEMMA InOrderOK ==
  ASSUME NEW S \in SUBSET Nodes
  PROVE  Lists(Graph!InOrder(S), Cardinality(S), S)
<1> DEFINE R == { e \in Nat \X Nat : e[1] < e[2] }
           n == Cardinality(S)
<1>1. IsFiniteSet(S) /\ S \subseteq Nat /\ n \in Nat
  BY NodesAreNumbers, FS_Subset, FS_CardinalityType
<1>2. \A x, y : <<x, y>> \in R <=> x \in Nat /\ y \in Nat /\ x < y
  OBVIOUS
<1> HIDE DEF R
<1>3. Orders(R, S)
  BY <1>1, <1>2 DEF Orders
<1>4. PICK t : Sorts(t, R, S)
  BY <1>1, <1>3, SortExists
<1>5. t \in [1..n -> S] /\ \A i, j \in DOMAIN t : i < j => t[i] < t[j]
  BY <1>2, <1>4 DEF Sorts
<1> DEFINE s == Graph!InOrder(S)
<1>6. s \in [1..n -> S] /\ \A i, j \in DOMAIN s : i < j => s[i] < s[j]
  <2>1. n = Graph!Cardinality(S)
    BY SameLibrary
  <2> HIDE DEF n
  <2> QED BY <1>5, <2>1 DEF Graph!InOrder
<1> HIDE DEF s
<1>7. Sorts(s, R, S)
  BY <1>1, <1>2, <1>6 DEF Sorts
<1>8. {s[i] : i \in 1..n} = S
  BY <1>1, <1>3, <1>7, SortsAll
<1> QED BY <1>1, <1>6, <1>8 DEF s, Lists

LEMMA GraphInit ==
  ASSUME Graph!Init
  PROVE  GraphInv
<1>1. QueryOK
  BY QueryFields DEF Graph!Init, QueryOK, Graph!Traversal, Graph!PathQuery
<1>2. query.from \in Nat /\ visited = {query.from} /\ hits = <<>>
  BY <1>1, QueryFields, NodesAreNumbers DEF Graph!Init
<1>3. PathOK
  <2> SUFFICES ASSUME query.kind = "path", query.from # query.to PROVE PathOK
    BY DEF PathOK, Graph!Init
  <2>1. queue = <<<<query.from>>>> /\ answer = NoName
    BY DEF Graph!Init
  <2>2. \E P : Tells(P, visited, queue, Edges, query.from)
    BY <1>2, <2>1, TellsFirst
  <2> QED BY <1>2, <2>1, <2>2 DEF PathOK
<1>4. HitsOK
  <2> SUFFICES ASSUME query.kind = "traverse" PROVE HitsOK
    BY DEF HitsOK
  <2>1. queue = <<Hit(query.from, 0)>> /\ answer = NoName
    BY DEF Graph!Init, Hit
  <2>2. FoundSoFar = {Hit(query.from, 0)}
    BY <1>2 DEF FoundSoFar
  <2>3. Search(FoundSoFar, visited, queue, Edges, query.from, Beyond)
    BY <1>2, <2>1, <2>2, SearchFirst
  <2>4. queue \in Seq(FoundSoFar)
    BY <2>1, <2>2
  <2>5. hits \in Seq([asset : Nodes, depth : Nat]) /\ DOMAIN hits = {}
    BY <1>2
  <2> QED BY <2>1, <2>3, <2>4, <2>5 DEF HitsOK
<1> QED BY <1>1, <1>3, <1>4 DEF GraphInv

LEMMA ExtendStep ==
  ASSUME GraphInv, Graph!Extend
  PROVE  GraphInv'
<1>1. /\ query.kind = "path" /\ answer = NoName /\ queue # <<>>
      /\ UNCHANGED <<relations, query, hits>>
  BY DEF Graph!Extend
<1>2. QueryOK /\ Edges' = Edges /\ hits = <<>> /\ query.from # query.to /\ query.to \notin visited
  BY <1>1 DEF GraphInv, PathOK, Edges, Graph!Leads
<1>3. PICK P : Tells(P, visited, queue, Edges, query.from)
  BY <1>1 DEF GraphInv, PathOK
<1> DEFINE path == Head(queue)
           next == Graph!Adjacent(path[Len(path)])
           new  == next \ visited
<1>4. path[Len(path)] \in visited /\ path[Len(path)] \in Nodes
  <2>1. queue \in Seq(Seq(Nat)) /\ 1 \in DOMAIN queue /\ path = queue[1]
    BY <1>1, <1>3 DEF Tells, Ends
  <2>2. PICK v \in visited : path = P[v]
    BY <1>3, <2>1 DEF Tells, Queues
  <2>3. path[Len(path)] = v
    BY <1>3, <2>2 DEF Tells, Ends
  <2> QED BY <1>2, <2>2, <2>3 DEF QueryOK
<1>5. next \subseteq Nodes /\ \A b : b \in next <=> <<path[Len(path)], b>> \in Edges
  BY <1>2, <1>4, EdgesLead
<1>6. HitsOK'
  BY <1>1 DEF HitsOK
<1>7. CASE query.to \in next
  <2>1. answer' = Append(path, query.to) /\ visited' = visited /\ queue' = queue
    BY <1>7 DEF Graph!Extend, Graph!Last
  <2>2. <<path[Len(path)], query.to>> \in Edges
    BY <1>5, <1>7
  <2> HIDE DEF path
  <2>3. PathOK'
    BY <1>1, <1>2, <1>3, <2>1, <2>2 DEF PathOK, path
  <2>4. QueryOK'
    BY <1>1, <1>2, <2>1 DEF QueryOK, Graph!Relation, Graph!Traversal, Graph!PathQuery
  <2> QED BY <1>6, <2>3, <2>4 DEF GraphInv
<1>8. CASE query.to \notin next
  <2> DEFINE s == Graph!InOrder(new)
             n == Cardinality(new)
             found == [i \in 1..n |-> Append(path, s[i])]
  <2>1. visited' = visited \cup new /\ queue' = Tail(queue) \o found /\ answer' = answer
    <3>1. n = Graph!Cardinality(new)
      BY SameLibrary
    <3>2. Graph!Last(path) = path[Len(path)]
      BY DEF Graph!Last
    <3> HIDE DEF n
    <3> QED BY <1>8, <3>1, <3>2 DEF Graph!Extend
  <2>2. new \in SUBSET Nodes /\ \A b \in Nat : b \in new <=> <<path[Len(path)], b>> \in Edges /\ b \notin visited
    BY <1>5
  <2>3. Lists(s, n, new)
    BY <2>2, InOrderOK
  <2>4. new \in SUBSET Nat
    BY <2>2, NodesAreNumbers
  <2> HIDE DEF s, n, new, next
  <2>5. \E R : Tells(R, visited \cup new, Tail(queue) \o found, Edges, query.from)
    <3> DEFINE Q == queue
               E == Edges
               f == query.from
               V == visited
    <3>1. Tells(P, V, Q, E, f) /\ Q # <<>> /\ new \subseteq Nat
      BY <1>1, <1>3, <2>4
    <3>2. \A b \in Nat : b \in new <=> <<Head(Q)[Len(Head(Q))], b>> \in E /\ b \notin V
      BY <2>2
    <3>3. Lengthens(found, Head(Q), s, n)
      BY DEF Lengthens
    <3> HIDE DEF Q, E, f, V
    <3> HIDE DEF found
    <3>4. \E R : Tells(R, V \cup new, Tail(Q) \o found, E, f)
      BY <2>3, <3>1, <3>2, <3>3, TellsOn
    <3> QED BY <3>4 DEF Q, E, f, V
  <2>6. PathOK'
    BY <1>1, <1>2, <1>8, <2>1, <2>5 DEF PathOK, new
  <2>7. QueryOK'
    BY <1>1, <1>2, <2>1, <2>2 DEF QueryOK, Graph!Relation, Graph!Traversal, Graph!PathQuery
  <2> QED BY <1>6, <2>6, <2>7 DEF GraphInv
<1> QED BY <1>7, <1>8

LEMMA VisitStep ==
  ASSUME GraphInv, Graph!Visit
  PROVE  GraphInv'
<1>1. /\ query.kind = "traverse" /\ answer = NoName /\ queue # <<>>
      /\ UNCHANGED <<relations, query, answer>>
  BY DEF Graph!Visit
<1>2. QueryOK /\ Edges' = Edges /\ Beyond' = Beyond
  BY <1>1 DEF GraphInv, Edges, Beyond, Graph!Leads, Graph!TooDeep
<1>3. /\ queue \in Seq(FoundSoFar) /\ hits \in Seq([asset : Nodes, depth : Nat])
      /\ Search(FoundSoFar, visited, queue, Edges, query.from, Beyond)
      /\ \A i, j \in DOMAIN hits : i # j => hits[i] # hits[j]
      /\ \A i \in DOMAIN hits : hits[i].depth > 0
  BY <1>1 DEF GraphInv, HitsOK
<1> DEFINE c   == Head(queue)
           new == IF Graph!TooDeep(c.depth) THEN {} ELSE Graph!Adjacent(c.asset) \ visited
           n   == Cardinality(new)
           s   == Graph!InOrder(new)
           S   == [i \in 1..n |-> Hit(s[i], c.depth + 1)]
<1>4. c \in FoundSoFar /\ c.asset \in visited /\ c.asset \in Nodes /\ c.depth \in Nat
  <2>1. c \in FoundSoFar
    BY <1>1, <1>3
  <2> QED BY <1>2, <1>3, <2>1 DEF Search, Found, QueryOK
<1>5. visited' = visited \cup new /\ hits' = hits \o S /\ queue' = Tail(queue) \o S
  <2>1. n = Graph!Cardinality(new)
    BY SameLibrary
  <2>2. S = [i \in 1..n |-> [asset |-> s[i], depth |-> c.depth + 1]]
    BY DEF Hit
  <2> HIDE DEF n, S
  <2> QED BY <2>1, <2>2 DEF Graph!Visit
<1>6. /\ new \in SUBSET Nodes
      /\ \A b \in Nat : b \in new <=> c.depth \notin Beyond /\ <<c.asset, b>> \in Edges /\ b \notin visited
  BY <1>2, <1>4, EdgesLead DEF Beyond
<1>7. Lists(s, n, new)
  BY <1>6, InOrderOK
<1>8. new \subseteq Nat
  BY <1>6, NodesAreNumbers
<1>L. /\ n \in Nat /\ s \in [1..n -> new] /\ \A i, j \in 1..n : i < j => s[i] < s[j]
      /\ \A b \in new : \E i \in 1..n : s[i] = b
  <2> HIDE DEF s, n, new, c
  <2> QED BY <1>7 DEF Lists
<1> HIDE DEF s, n, new, c
<1> DEFINE G == FoundSoFar \cup {S[i] : i \in 1..n}
<1>9. Tail(queue) \o S \in Seq(G) /\ Search(G, visited \cup new, Tail(queue) \o S, Edges, query.from, Beyond)
  <2> DEFINE F == FoundSoFar
             V == visited
             Q == queue
             E == Edges
             f == query.from
             D == Beyond
  <2>1. Search(F, V, Q, E, f, D) /\ Q \in Seq(F) /\ Q # <<>> /\ c = Head(Q)
    BY <1>1, <1>3 DEF c
  <2>2. G = F \cup {S[i] : i \in 1..n} /\ Reaches(S, c, s, n)
    BY DEF Reaches
  <2>3. \A b \in Nat : b \in new <=> c.depth \notin D /\ <<c.asset, b>> \in E /\ b \notin V
    BY <1>6
  <2> HIDE DEF F, V, Q, E, f, D, G, S
  <2>4. Tail(Q) \o S \in Seq(G) /\ Search(G, V \cup new, Tail(Q) \o S, E, f, D)
    BY <1>7, <1>8, <2>1, <2>2, <2>3, SearchOn
  <2> QED BY <2>4 DEF V, Q, E, f, D
<1>10. /\ \A i \in 1..n : S[i].depth = c.depth + 1 /\ S[i].asset = s[i] /\ s[i] \in new /\ s[i] \in Nodes
                          /\ S[i] \in [asset : Nodes, depth : Nat]
       /\ Len(S) = n /\ DOMAIN S = 1..n
  BY <1>4, <1>6, <1>L DEF Hit
<1>11. S \in Seq([asset : Nodes, depth : Nat])
  <2>1. S \in [1..n -> [asset : Nodes, depth : Nat]]
    BY <1>10
  <2> QED BY <1>L, <2>1
<1> DEFINE m == Len(hits)
<1>12. /\ m \in Nat /\ hits' \in Seq([asset : Nodes, depth : Nat]) /\ DOMAIN hits' = 1..(m + n)
       /\ \A i \in 1..m : hits'[i] = hits[i] /\ i \in DOMAIN hits
       /\ \A i \in 1..n : hits'[m + i] = S[i] /\ m + i \in DOMAIN hits'
  <2> DEFINE H == [asset : Nodes, depth : Nat]
             h == hits
  <2>1. h \in Seq(H) /\ S \in Seq(H) /\ Len(S) = n /\ hits' = h \o S /\ DOMAIN S = 1..n
    BY <1>3, <1>5, <1>10, <1>11
  <2> HIDE DEF H, S, h
  <2>2. Len(h) \in Nat /\ h \o S \in Seq(H) /\ Len(h \o S) = Len(h) + n
    <3>1. h \in Seq(H) /\ S \in Seq(H)
      BY <2>1
    <3>2. Len(h) \in Nat /\ h \o S \in Seq(H) /\ Len(h \o S) = Len(h) + Len(S)
      BY <3>1, ConcatProperties, LenProperties
    <3> QED BY <2>1, <3>2
  <2>3. /\ DOMAIN (h \o S) = 1..(Len(h) + n)
        /\ \A i \in 1..Len(h) : (h \o S)[i] = h[i] /\ i \in DOMAIN h
    BY <1>L, <2>1, <2>2
  <2>4. ASSUME NEW i \in 1..n PROVE (h \o S)[Len(h) + i] = S[i] /\ Len(h) + i \in 1..(Len(h) + n)
    BY <1>L, <2>1, <2>2
  <2> QED BY <2>1, <2>2, <2>3, <2>4 DEF H, h
<1>13. \A k \in DOMAIN hits' : k \in 1..m \/ \E i \in 1..n : k = m + i
  <2> SUFFICES ASSUME NEW k \in 1..(m + n), k \notin 1..m PROVE k - m \in 1..n /\ k = m + (k - m)
    BY <1>12
  <2> QED BY <1>L, <1>12
<1> HIDE DEF S, m
<1>14. FoundSoFar' = G
  <2>1. \A h : h \in { hits'[i] : i \in DOMAIN hits' } <=> h \in { hits[i] : i \in DOMAIN hits } \cup {S[i] : i \in 1..n}
    <3>1. DOMAIN hits = 1..m
      BY <1>3 DEF m
    <3>2. \A i \in 1..m : i \in DOMAIN hits'
      BY <1>L, <1>12
    <3> QED BY <1>12, <1>13, <3>1, <3>2
  <2>2. query' = query
    BY <1>1
  <2> QED BY <2>1, <2>2 DEF FoundSoFar
<1>15. \A i \in 1..n : S[i] \notin FoundSoFar
  <2> SUFFICES ASSUME NEW i \in 1..n, S[i] \in FoundSoFar PROVE FALSE
    OBVIOUS
  <2>1. S[i].asset \in visited
    BY <1>3 DEF Search, Found
  <2>2. s[i] \notin visited
    BY <1>10 DEF new
  <2> QED BY <1>10, <2>1, <2>2
<1>16. ASSUME NEW k \in DOMAIN hits', NEW l \in DOMAIN hits', k # l PROVE hits'[k] # hits'[l]
  <2>1. CASE k \in 1..m /\ l \in 1..m
    BY <1>3, <1>12, <1>16, <2>1
  <2>2. \A i \in 1..m, j \in 1..n : hits'[i] # hits'[m + j]
    BY <1>12, <1>15 DEF FoundSoFar
  <2>3. CASE (\E i \in 1..n : k = m + i) /\ \E i \in 1..n : l = m + i
    <3>1. PICK i \in 1..n : k = m + i
      BY <2>3
    <3>2. PICK j \in 1..n : l = m + j
      BY <2>3
    <3>3. i < j \/ j < i
      BY <1>16, <3>1, <3>2
    <3>4. s[i] # s[j]
      <4>1. s[i] \in Nat /\ s[j] \in Nat
        BY <1>8, <1>10
      <4>2. s[i] < s[j] \/ s[j] < s[i]
        BY <1>L, <3>3
      <4> QED BY <4>1, <4>2
    <3> QED BY <1>10, <1>12, <3>1, <3>2, <3>4
  <2> QED BY <1>13, <2>1, <2>2, <2>3
<1>17. \A k \in DOMAIN hits' : hits'[k].depth > 0
  <2> SUFFICES ASSUME NEW k \in DOMAIN hits' PROVE hits'[k].depth > 0
    OBVIOUS
  <2>1. CASE k \in 1..m
    BY <1>3, <1>12, <2>1
  <2>2. CASE \E i \in 1..n : k = m + i
    BY <1>4, <1>10, <1>12, <2>2
  <2> QED BY <1>13, <2>1, <2>2
<1>18. HitsOK'
  BY <1>1, <1>2, <1>5, <1>9, <1>12, <1>14, <1>16, <1>17 DEF HitsOK
<1>19. QueryOK' /\ PathOK'
  BY <1>1, <1>2, <1>5, <1>6 DEF QueryOK, PathOK, Graph!Relation, Graph!Traversal, Graph!PathQuery
<1> QED BY <1>18, <1>19 DEF GraphInv

LEMMA GraphStep ==
  ASSUME GraphInv, [Graph!Next]_(Graph!vars)
  PROVE  GraphInv'
<1>1. CASE Graph!Extend
  BY <1>1, ExtendStep
<1>2. CASE Graph!Visit
  BY <1>2, VisitStep
<1>3. CASE Graph!ReportHits
  <2>1. /\ query.kind = "traverse" /\ queue = <<>> /\ answer' = SortedHits
        /\ UNCHANGED <<relations, query, visited, queue, hits>>
    BY <1>3 DEF Graph!ReportHits, SortedHits
  <2>2. Edges' = Edges /\ Beyond' = Beyond /\ FoundSoFar' = FoundSoFar /\ SortedHits' = SortedHits
    BY <2>1 DEF Edges, Beyond, FoundSoFar, SortedHits, Graph!Leads, Graph!TooDeep, Graph!Reordered, Graph!IsInjective
  <2>3. QueryOK' /\ PathOK'
    BY <2>1 DEF GraphInv, QueryOK, PathOK, Graph!Relation, Graph!Traversal, Graph!PathQuery
  <2>4. HitsOK'
    BY <2>1, <2>2 DEF GraphInv, HitsOK
  <2> QED BY <2>3, <2>4 DEF GraphInv
<1>4. CASE Graph!NoPath
  <2>1. /\ query.kind = "path" /\ queue = <<>> /\ answer = NoName /\ answer' = <<>>
        /\ UNCHANGED <<relations, query, visited, queue, hits>>
    BY <1>4 DEF Graph!NoPath
  <2>2. Edges' = Edges
    BY <2>1 DEF Edges, Graph!Leads
  <2>3. query.from # query.to
    <3>1. query.from \in Nodes
      BY QueryFields DEF GraphInv
    <3>2. <<query.from>> # NoName
      BY <3>1, PartsAssumption DEF Graph!QueryAssumption
    <3> QED BY <2>1, <3>2 DEF GraphInv, PathOK
  <2>4. QueryOK' /\ HitsOK'
    BY <2>1 DEF GraphInv, QueryOK, HitsOK, Graph!Relation, Graph!Traversal, Graph!PathQuery
  <2>5. PathOK'
    BY <2>1, <2>2, <2>3 DEF GraphInv, PathOK
  <2> QED BY <2>4, <2>5 DEF GraphInv
<1>5. CASE UNCHANGED Graph!vars
  <2>1. UNCHANGED <<relations, query, visited, queue, hits, answer>>
    BY <1>5 DEF Graph!vars
  <2>2. Edges' = Edges /\ Beyond' = Beyond /\ FoundSoFar' = FoundSoFar /\ SortedHits' = SortedHits
    BY <2>1 DEF Edges, Beyond, FoundSoFar, SortedHits, Graph!Leads, Graph!TooDeep, Graph!Reordered, Graph!IsInjective
  <2>3. QueryOK'
    BY <2>1 DEF GraphInv, QueryOK, Graph!Relation, Graph!Traversal, Graph!PathQuery
  <2>4. HitsOK'
    BY <2>1, <2>2 DEF GraphInv, HitsOK
  <2>5. PathOK'
    BY <2>1, <2>2 DEF GraphInv, PathOK
  <2> QED BY <2>3, <2>4, <2>5 DEF GraphInv
<1> QED BY <1>1, <1>2, <1>3, <1>4, <1>5 DEF Graph!Next

-----------------------------------------------------------------------------
(***************************************************************************)
(* Query: what the answers are.                                            *)
(***************************************************************************)

\* What is told apart in S has at most as many places.
LEMMA NoMore ==
  ASSUME NEW S, IsFiniteSet(S), NEW n \in Nat, NEW g \in [1..n -> S],
         \A i, j \in 1..n : i < j => g[i] # g[j]
  PROVE  n <= Cardinality(S)
<1>1. IsFiniteSet(1..n) /\ Cardinality(1..n) = n
  BY FS_Interval
<1>2. \A i, j \in 1..n : g[i] = g[j] => i = j
  OBVIOUS
<1>3. g \in Injection(1..n, S)
  BY <1>2 DEF Injection, IsInjective
<1> QED BY <1>1, <1>3, FS_Injection

LEMMA GraphTypes ==
  ASSUME GraphInv
  PROVE  Graph!TypeOK
<1>1. QueryOK /\ query.from \in Nodes /\ query.kind \in {"path", "traverse"}
  BY QueryFields DEF GraphInv
<1> DEFINE c == Cardinality(Nodes)
<1>2. c \in Nat /\ c > 0 /\ IsFiniteSet(Nodes) /\ Graph!Cardinality(Nodes) = c
  BY <1>1, NodesAreNumbers, SameLibrary, FS_CardinalityType, FS_EmptySet
<1>3. IsFiniteSet(Nodes \ {query.from}) /\ Cardinality(Nodes \ {query.from}) = c - 1
  BY <1>1, <1>2, FS_RemoveElement
<1> HIDE DEF c
<1>4. CASE query.kind = "path" /\ queue = <<>>
  <2>1. Len(queue) = 0 /\ Len(hits) = 0
    BY <1>4 DEF GraphInv, PathOK
  <2> QED BY <1>1, <1>2, <2>1 DEF Graph!TypeOK, QueryOK
<1>5. CASE query.kind = "path" /\ queue # <<>>
  <2>1. Len(hits) = 0 /\ \E P : Tells(P, visited, queue, Edges, query.from)
    BY <1>5 DEF GraphInv, PathOK
  <2>2. PICK P : Tells(P, visited, queue, Edges, query.from)
    BY <2>1
  <2> DEFINE n == Len(queue)
             g == [i \in 1..n |-> queue[i][Len(queue[i])]]
  <2>3. queue \in Seq(Seq(Nat)) /\ n \in Nat /\ DOMAIN queue = 1..n
    BY <2>2 DEF Tells, Ends
  <2>4. \A i \in 1..n : g[i] \in visited /\ queue[i] = P[g[i]] /\ queue[i] \in Seq(Nat)
    <3> SUFFICES ASSUME NEW i \in 1..n PROVE g[i] \in visited /\ queue[i] = P[g[i]]
      BY <2>3
    <3>1. PICK v \in visited : queue[i] = P[v]
      BY <2>2, <2>3 DEF Tells, Queues
    <3>2. g[i] = v
      BY <2>2, <3>1 DEF Tells, Ends
    <3> QED BY <3>1, <3>2
  <2>5. g \in [1..n -> Nodes]
    BY <1>1, <2>4 DEF QueryOK
  <2>6. ASSUME NEW i \in 1..n, NEW j \in 1..n, i < j PROVE g[i] # g[j]
    <3>1. Sooner(queue[i], queue[j])
      BY <2>2, <2>3, <2>6 DEF Tells, Queues
    <3>2. ~ Sooner(queue[i], queue[i])
      BY <2>4, SoonerDiffers
    <3> HIDE DEF g
    <3> QED BY <2>4, <3>1, <3>2
  <2> HIDE DEF g, n
  <2>7. n <= c
    BY <1>2, <2>3, <2>5, <2>6, NoMore DEF c
  <2> QED BY <1>1, <1>2, <2>1, <2>7 DEF Graph!TypeOK, QueryOK, n
<1>6. CASE query.kind = "traverse"
  <2>1. /\ queue \in Seq(FoundSoFar) /\ hits \in Seq([asset : Nodes, depth : Nat])
        /\ Search(FoundSoFar, visited, queue, Edges, query.from, Beyond)
        /\ \A i, j \in DOMAIN hits : i # j => hits[i] # hits[j]
        /\ \A i \in DOMAIN hits : hits[i].depth > 0
    BY <1>6 DEF GraphInv, HitsOK
  <2>2. /\ \A h \in FoundSoFar : h.asset \in Nodes
        /\ \A h, g \in FoundSoFar : h # g => h.asset # g.asset
        /\ Hit(query.from, 0) \in FoundSoFar
    BY <1>1, <2>1 DEF Search, Found, QueryOK
  <2> DEFINE n == Len(queue)
             g == [i \in 1..n |-> queue[i].asset]
             m == Len(hits)
             k == [i \in 1..m |-> hits[i].asset]
  <2>3. n \in Nat /\ DOMAIN queue = 1..n /\ \A i \in 1..n : queue[i] \in FoundSoFar
    BY <2>1
  <2>4. g \in [1..n -> Nodes] /\ \A i, j \in 1..n : i < j => g[i] # g[j]
    <3>1. \A i \in 1..n : queue[i].asset \in Nodes
      BY <2>2, <2>3
    <3>2. \A i, j \in 1..n : i < j => queue[i] # queue[j]
      BY <2>1, <2>3 DEF Search, Rows
    <3> QED BY <2>2, <2>3, <3>1, <3>2
  <2>5. m \in Nat /\ DOMAIN hits = 1..m /\ \A i \in 1..m : hits[i] \in FoundSoFar
    <3>1. m \in Nat /\ DOMAIN hits = 1..m
      BY <2>1
    <3> QED BY <3>1 DEF FoundSoFar
  <2>6. k \in [1..m -> Nodes \ {query.from}] /\ \A i, j \in 1..m : i < j => k[i] # k[j]
    <3>1. \A i \in 1..m : hits[i].asset \in Nodes \ {query.from}
      <4> SUFFICES ASSUME NEW i \in 1..m PROVE hits[i].asset \in Nodes \ {query.from}
        OBVIOUS
      <4>1. hits[i] # Hit(query.from, 0)
        BY <2>1, <2>5 DEF Hit
      <4>2. Hit(query.from, 0).asset = query.from
        BY DEF Hit
      <4> QED BY <2>2, <2>5, <4>1, <4>2
    <3>2. \A i, j \in 1..m : i < j => hits[i] # hits[j]
      <4> SUFFICES ASSUME NEW i \in 1..m, NEW j \in 1..m, i < j PROVE i # j
        BY <2>1, <2>5
      <4> QED BY <2>5
    <3> QED BY <2>2, <2>5, <3>1, <3>2
  <2> HIDE DEF g, n, k, m
  <2>7. n <= c
    BY <1>2, <2>3, <2>4, NoMore DEF c
  <2>8. m <= c - 1
    BY <1>3, <2>5, <2>6, NoMore
  <2>9. m < c
    BY <1>2, <2>5, <2>8
  <2> QED BY <1>1, <1>2, <2>7, <2>9 DEF Graph!TypeOK, QueryOK, n, m
<1> QED BY <1>1, <1>4, <1>5, <1>6

\* A path of the query.
Leads(q, b) == Leading(q, Nodes, Edges, query.from, b)

LEMMA PathsLead ==
  ASSUME QueryOK, NEW b, NEW q
  PROVE  q \in Graph!PathsTo(b) <=> Leads(q, b)
<1> DEFINE c == Cardinality(Nodes)
<1>1. c \in Nat /\ IsFiniteSet(Nodes) /\ Graph!Cardinality(Nodes) = c
  BY NodesAreNumbers, SameLibrary, FS_CardinalityType
<1>2. \A x, y : <<x, y>> \in Edges <=> Graph!Leads(x, y)
  BY EdgesLead
<1> HIDE DEF c
<1>3. ASSUME q \in Graph!PathsTo(b) PROVE Leads(q, b)
  <2>1. PICK m \in 0..c : q \in [1..m -> Nodes]
    BY <1>1, <1>3 DEF Graph!PathsTo, Graph!SimplePaths, Graph!SeqOf
  <2>2. q \in Seq(Nodes) /\ Len(q) = m /\ DOMAIN q = 1..m /\ m \in Nat
    BY <1>1, <2>1
  <2>3. q \in Seq(Nat) /\ \A i \in 1..Len(q) : q[i] \in Nodes
    <3>1. \A i \in 1..m : q[i] \in Nodes /\ q[i] \in Nat
      BY <2>1, NodesAreNumbers
    <3>2. q \in [1..m -> Nat]
      BY <2>1, <3>1
    <3> QED BY <2>2, <3>1, <3>2
  <2>4. q # <<>> /\ q[1] = query.from /\ q[Len(q)] = b /\ (\A i \in 1..Len(q) - 1 : Graph!Leads(q[i], q[i + 1]))
        /\ \A i, j \in DOMAIN q : q[i] = q[j] => i = j
    BY <1>3 DEF Graph!PathsTo, Graph!SimplePaths, Graph!Last, Graph!IsPath, Graph!IsInjective
  <2> QED BY <1>2, <2>2, <2>3, <2>4 DEF Leads, Leading
<1>4. ASSUME Leads(q, b) PROVE q \in Graph!PathsTo(b)
  <2> DEFINE m == Len(q)
  <2>1. m \in Nat /\ DOMAIN q = 1..m /\ q \in [1..m -> Nodes]
    BY <1>4 DEF Leads, Leading
  <2>2. \A i, j \in 1..m : i < j => q[i] # q[j]
    BY <1>4, <2>1 DEF Leads, Leading
  <2> HIDE DEF m
  <2>3. m <= c
    BY <1>1, <2>1, <2>2, NoMore DEF c
  <2>4. q \in Graph!SeqOf(Nodes, c)
    BY <1>1, <2>1, <2>3 DEF Graph!SeqOf
  <2> QED BY <1>1, <1>2, <1>4, <2>1, <2>4
          DEF Leads, Leading, Graph!PathsTo, Graph!SimplePaths, Graph!Last, Graph!IsPath, Graph!IsInjective, m
<1> QED BY <1>3, <1>4

LEMMA PathsAreFirst ==
  ASSUME GraphInv
  PROVE  Graph!PathIsFirst
<1> SUFFICES ASSUME query.kind = "path", answer # NoName PROVE Graph!PathIsFirst
  BY DEF Graph!PathIsFirst
<1>1. QueryOK /\ query.from \in Nodes /\ query.to \in Nodes /\ query.from \in Nat /\ query.to \in Nat /\ visited \subseteq Nodes
  BY QueryFields, NodesAreNumbers DEF GraphInv, QueryOK
<1>2. \A q : q \in Graph!PathsTo(query.to) <=> Leads(q, query.to)
  BY <1>1, PathsLead
<1> SUFFICES /\ Leads(answer, query.to) \/ answer = <<>>
             /\ \A q : Leads(q, query.to) /\ q # answer => answer # <<>> /\ Sooner(answer, q)
  BY <1>2 DEF Graph!PathIsFirst, Sooner, Before, Graph!Before
<1>3. CASE query.from = query.to
  <2>1. answer = <<query.from>>
    BY <1>3 DEF GraphInv, PathOK
  <2>2. answer \in Seq(Nat) /\ Len(answer) = 1 /\ answer[1] = query.from /\ answer # <<>>
    BY <1>1, <2>1
  <2>3. Leads(answer, query.to)
    BY <1>1, <1>3, <2>2 DEF Leads, Leading
  <2>4. ASSUME NEW q, Leads(q, query.to) PROVE q = answer
    <3>1. q \in Seq(Nat) /\ q[1] = query.from /\ q[Len(q)] = query.from /\ Len(q) \in 1..Len(q) /\ 1 \in 1..Len(q)
      BY <1>3, <2>4 DEF Leads, Leading
    <3>2. Len(q) = 1
      BY <2>4, <3>1 DEF Leads, Leading
    <3> QED BY <2>1, <3>1, <3>2
  <2> QED BY <2>3, <2>4
<1>4. CASE query.from # query.to
  <2>1. /\ query.to \notin visited
        /\ \E P : Tells(P, visited, queue, Edges, query.from)
        /\ IF queue = <<>> THEN answer = <<>>
           ELSE /\ answer = Append(Head(queue), query.to)
                /\ <<Head(queue)[Len(Head(queue))], query.to>> \in Edges
    BY <1>4 DEF GraphInv, PathOK
  <2>2. PICK P : Tells(P, visited, queue, Edges, query.from)
    BY <2>1
  <2>3. ASSUME NEW q, Leads(q, query.to)
        PROVE  queue # <<>> /\ (Append(Head(queue), query.to) = q \/ Sooner(Append(Head(queue), query.to), q))
    <3> DEFINE V == visited
               Q == queue
               E == Edges
               f == query.from
               to == query.to
    <3>1. /\ Tells(P, V, Q, E, f) /\ to \in Nat /\ to \notin V /\ q \in Seq(Nat) /\ q # <<>> /\ q[1] = f /\ q[Len(q)] = to
          /\ \A i \in 1..Len(q) - 1 : <<q[i], q[i + 1]>> \in E
      BY <1>1, <2>1, <2>2, <2>3 DEF Leads, Leading
    <3> HIDE DEF V, Q, E, f, to
    <3>2. Q # <<>> /\ (Append(Head(Q), to) = q \/ Sooner(Append(Head(Q), to), q))
      BY <3>1, FirstOfPaths
    <3> QED BY <3>2 DEF Q, to
  <2>4. CASE queue = <<>>
    BY <2>1, <2>3, <2>4
  <2>5. CASE queue # <<>>
    <3> DEFINE V == visited
               Q == queue
               E == Edges
               f == query.from
               to == query.to
    <3>1. /\ Tells(P, V, Q, E, f) /\ to \in Nat /\ to \notin V /\ Q # <<>>
          /\ <<Head(Q)[Len(Head(Q))], to>> \in E
      BY <1>1, <2>1, <2>2, <2>5
    <3> HIDE DEF V, Q, E, f, to
    <3>2. Leading(Append(Head(Q), to), V \cup {to}, E, f, to)
      BY <3>1, TakenIsPath
    <3>3. V \cup {to} \subseteq Nodes
      BY <1>1 DEF V, to
    <3>4. Leading(answer, V \cup {to}, E, f, to)
      BY <2>1, <2>5, <3>2 DEF Q, to
    <3>5. Leads(answer, query.to) /\ answer # <<>>
      BY <3>3, <3>4 DEF Leads, Leading, E, f, to
    <3> QED BY <2>1, <2>3, <2>5, <3>5
  <2> QED BY <2>4, <2>5
<1> QED BY <1>3, <1>4

HitsDistinct ==
  hits \in Seq([asset : Nodes, depth : Nat]) /\ \A i, j \in DOMAIN hits : i # j => hits[i] # hits[j]

HitsSorted(a) ==
  /\ a \in Seq([asset : Nodes, depth : Nat])
  /\ {a[i] : i \in DOMAIN a} = {hits[i] : i \in DOMAIN hits}
  /\ \A i, j \in DOMAIN a : i < j => Graph!ByDepthThenId(a[i], a[j])

\* The hits can be put in order, so that is what the answer is.
LEMMA SortedOK ==
  ASSUME HitsDistinct
  PROVE  HitsSorted(SortedHits)
<1> SUFFICES ASSUME NEW a, a = SortedHits PROVE HitsSorted(a)
  OBVIOUS
<1> DEFINE n == Len(hits)
           H == [asset : Nodes, depth : Nat]
           I == 1..n
           R == { e \in I \X I : Graph!ByDepthThenId(hits[e[1]], hits[e[2]]) }
<1>1. /\ n \in Nat /\ DOMAIN hits = I /\ IsFiniteSet(I) /\ Cardinality(I) = n
      /\ \A i \in I : hits[i] \in H /\ hits[i].asset \in Nat /\ hits[i].depth \in Nat
  <2>1. hits \in Seq(H)
    BY DEF HitsDistinct
  <2>2. n \in Nat /\ DOMAIN hits = I /\ \A i \in I : hits[i] \in H
    <3> HIDE DEF H
    <3> QED BY <2>1
  <2>3. \A h \in H : h.asset \in Nat /\ h.depth \in Nat
    BY NodesAreNumbers
  <2>4. IsFiniteSet(I) /\ Cardinality(I) = n
    <3> HIDE DEF n, H
    <3>1. IsFiniteSet(1..n) /\ Cardinality(1..n) = n
      BY <2>2, FS_Interval
    <3> QED BY <3>1
  <2> HIDE DEF H
  <2> QED BY <2>2, <2>3, <2>4
<1>r. \A h, g \in H : h # g => h.asset # g.asset \/ h.depth # g.depth
  OBVIOUS
<1>2. \A i, j : <<i, j>> \in R <=> i \in I /\ j \in I /\ Graph!ByDepthThenId(hits[i], hits[j])
  OBVIOUS
<1>i. I \subseteq Nat
  BY <1>1
<1> HIDE DEF R, n, I, H
<1>3. Orders(R, I)
  <2>1. \A i \in I : <<i, i>> \notin R
    BY <1>1, <1>2 DEF Graph!ByDepthThenId
  <2>2. \A i, j, k \in I : <<i, j>> \in R /\ <<j, k>> \in R => <<i, k>> \in R
    <3> SUFFICES ASSUME NEW i \in I, NEW j \in I, NEW k \in I, <<i, j>> \in R, <<j, k>> \in R PROVE <<i, k>> \in R
      OBVIOUS
    <3>1. Graph!ByDepthThenId(hits[i], hits[j]) /\ Graph!ByDepthThenId(hits[j], hits[k])
      BY <1>2
    <3>2. /\ hits[i].asset \in Nat /\ hits[j].asset \in Nat /\ hits[k].asset \in Nat
          /\ hits[i].depth \in Nat /\ hits[j].depth \in Nat /\ hits[k].depth \in Nat
      BY <1>1
    <3>3. Graph!ByDepthThenId(hits[i], hits[k])
      BY <3>1, <3>2 DEF Graph!ByDepthThenId
    <3> QED BY <1>2, <3>3
  <2>3. ASSUME NEW i \in I, NEW j \in I, i # j PROVE <<i, j>> \in R \/ <<j, i>> \in R
    <3>1. hits[i] # hits[j]
      BY <1>1, <2>3 DEF HitsDistinct
    <3>2. hits[i].asset # hits[j].asset \/ hits[i].depth # hits[j].depth
      BY <1>1, <1>r, <3>1
    <3> QED BY <1>1, <1>2, <3>2 DEF Graph!ByDepthThenId
  <2> QED BY <2>1, <2>2, <2>3 DEF Orders
<1>4. PICK q : Sorts(q, R, I)
  BY <1>1, <1>3, SortExists
<1>5. q \in [I -> I] /\ (\A i, j \in I : i < j => <<q[i], q[j]>> \in R) /\ \A i, j \in I : q[i] = q[j] => i = j
  <2>1. 1..Cardinality(I) = I
    BY <1>1 DEF I
  <2>2. \A i, j \in 1..Cardinality(I) : q[i] = q[j] => i = j
    BY <1>1, <1>3, <1>4, SortsAll
  <2> QED BY <1>4, <2>1, <2>2 DEF Sorts
<1> DEFINE s == [i \in DOMAIN hits |-> hits[q[i]]]
<1>6. s \in Graph!Reordered(hits)
  <2>1. q \in [DOMAIN hits -> DOMAIN hits] /\ Graph!IsInjective(q)
    BY <1>1, <1>5 DEF Graph!IsInjective
  <2> QED BY <2>1 DEF Graph!Reordered
<1>7. \A i, j \in DOMAIN s : i < j => ~ Graph!ByDepthThenId(s[j], s[i])
  <2> SUFFICES ASSUME NEW i \in I, NEW j \in I, i < j PROVE ~ Graph!ByDepthThenId(hits[q[j]], hits[q[i]])
    BY <1>1
  <2>1. <<q[i], q[j]>> \in R /\ q[i] \in I /\ q[j] \in I
    BY <1>5
  <2>2. Graph!ByDepthThenId(hits[q[i]], hits[q[j]])
    BY <1>2, <2>1
  <2>3. \A h, g : h.asset \in Nat /\ h.depth \in Nat /\ g.asset \in Nat /\ g.depth \in Nat /\ Graph!ByDepthThenId(h, g)
                   => ~ Graph!ByDepthThenId(g, h)
    BY DEF Graph!ByDepthThenId
  <2> QED BY <1>1, <2>1, <2>2, <2>3
<1> HIDE DEF s
<1>8. a \in Graph!Reordered(hits) /\ \A i, j \in DOMAIN a : i < j => ~ Graph!ByDepthThenId(a[j], a[i])
  BY <1>6, <1>7 DEF SortedHits
<1>9. PICK p \in [I -> I] : (\A i, j \in I : p[i] = p[j] => i = j) /\ a = [i \in I |-> hits[p[i]]]
  <2>1. PICK p \in [DOMAIN hits -> DOMAIN hits] : Graph!IsInjective(p) /\ a = [i \in DOMAIN hits |-> hits[p[i]]]
    BY <1>8 DEF Graph!Reordered
  <2>2. p \in [I -> I] /\ a = [i \in I |-> hits[p[i]]] /\ \A i, j \in I : p[i] = p[j] => i = j
    BY <1>1, <2>1 DEF Graph!IsInjective
  <2> QED BY <2>2
<1>10. \A k \in I : \E i \in I : p[i] = k
  <2>1. p \in Injection(I, I)
    BY <1>9 DEF Injection, IsInjective
  <2>2. p \in Surjection(I, I)
    BY <1>1, <2>1, FS_Injection
  <2> QED BY <2>2 DEF Surjection
<1>11. a \in [1..n -> H] /\ DOMAIN a = I
  BY <1>1, <1>9 DEF I
<1>12. a \in Seq(H) /\ Len(a) = n
  BY <1>1, <1>11
<1>13. {a[i] : i \in DOMAIN a} = {hits[i] : i \in DOMAIN hits}
  <2>1. \A i \in I : a[i] = hits[p[i]] /\ p[i] \in I
    BY <1>9
  <2>2. \A h : (\E i \in I : h = a[i]) <=> \E i \in I : h = hits[i]
    BY <1>10, <2>1
  <2> DEFINE A == {a[i] : i \in I}
             B == {hits[i] : i \in I}
  <2>3. \A h : h \in A <=> h \in B
    BY <2>2
  <2>4. A = B
    <3> HIDE DEF A, B
    <3> QED BY <2>3
  <2> QED BY <1>1, <1>11, <2>4
<1>14. ASSUME NEW i \in I, NEW j \in I, i < j PROVE Graph!ByDepthThenId(a[i], a[j])
  <2>1. p[i] \in I /\ p[j] \in I /\ p[i] # p[j] /\ a[i] = hits[p[i]] /\ a[j] = hits[p[j]]
    <3>1. i # j
      BY <1>14, <1>i
    <3> QED BY <1>9, <3>1
  <2>2. ~ Graph!ByDepthThenId(a[j], a[i])
    BY <1>8, <1>11, <1>14
  <2>3. <<p[i], p[j]>> \in R
    BY <1>2, <1>3, <2>1, <2>2 DEF Orders
  <2> QED BY <1>2, <2>1, <2>3
<1> QED BY <1>11, <1>12, <1>13, <1>14 DEF HitsSorted, H

LEMMA HitsAreFound ==
  ASSUME GraphInv
  PROVE  Graph!HitsAreDistances
<1> SUFFICES ASSUME query.kind = "traverse", answer # NoName PROVE Graph!HitsAreDistances
  BY DEF Graph!HitsAreDistances
<1>1. /\ QueryOK /\ query.from \in Nodes /\ visited \subseteq Nodes /\ query.depth \in Nat \cup {NoName} /\ NoName \notin Nat
  <2>1. Depths \subseteq Nat \cup {NoName} /\ NoName \notin Nat
    BY PartsAssumption DEF Graph!QueryAssumption
  <2> QED BY <2>1, QueryFields DEF GraphInv, QueryOK
<1> DEFINE F == FoundSoFar
           V == visited
           E == Edges
           f == query.from
           D == Beyond
<1>2. /\ hits \in Seq([asset : Nodes, depth : Nat]) /\ Search(F, V, <<>>, E, f, D)
      /\ \A i, j \in DOMAIN hits : i # j => hits[i] # hits[j]
      /\ \A i \in DOMAIN hits : hits[i].depth > 0
      /\ answer = SortedHits
  BY DEF GraphInv, HitsOK
<1>3. /\ answer \in Seq([asset : Nodes, depth : Nat])
      /\ {answer[i] : i \in DOMAIN answer} = {hits[i] : i \in DOMAIN hits}
      /\ \A i, j \in DOMAIN answer : i < j => Graph!ByDepthThenId(answer[i], answer[j])
  BY <1>2, SortedOK DEF HitsSorted, HitsDistinct
<1>4. \A i \in 1..Len(answer) - 1 : Graph!ByDepthThenId(answer[i], answer[i + 1])
  <2> SUFFICES ASSUME NEW i \in 1..Len(answer) - 1
               PROVE  i \in DOMAIN answer /\ i + 1 \in DOMAIN answer /\ i < i + 1
    BY <1>3
  <2> QED BY <1>3
<1>5. \A h : h \in Graph!ToSet(answer) <=> h \in {hits[i] : i \in DOMAIN hits}
  BY <1>3 DEF Graph!ToSet
<1>6. \A h \in Graph!ToSet(answer) : h \in F /\ h.depth > 0
  BY <1>2, <1>5 DEF FoundSoFar
<1>7. \A h \in F : h.depth > 0 => h \in Graph!ToSet(answer)
  <2> SUFFICES ASSUME NEW h \in F, h.depth > 0 PROVE h # Hit(query.from, 0)
    BY <1>5 DEF FoundSoFar
  <2>1. Hit(query.from, 0).depth = 0
    BY DEF Hit
  <2> QED BY <2>1
<1>8. \A d \in Nat : d \in D <=> query.depth # NoName /\ d >= query.depth
  BY DEF Beyond, Graph!TooDeep
<1>9. /\ \A d, e \in Nat : d \in D /\ d <= e => e \in D
      /\ query.depth # NoName => query.depth \in Nat
  BY <1>1, <1>8
<1>10. \A q, b : q \in Graph!PathsTo(b) <=> Leading(q, Nodes, E, f, b)
  BY <1>1, PathsLead DEF Leads
<1>11. V \subseteq Nodes /\ f \in Nodes
  BY <1>1
<1> HIDE DEF F, V, E, f, D
\* A way is a path, and what a path leads to was found.
<1>12. \A h \in F : \E p \in Graph!PathsTo(h.asset) : Len(p) = h.depth + 1
  <2> SUFFICES ASSUME NEW h \in F PROVE \E p : Leading(p, Nodes, E, f, h.asset) /\ Len(p) = h.depth + 1
    BY <1>10
  <2>1. PICK p : Way(p, h, F, E, f)
    BY <1>2 DEF Search
  <2>2. (\A i, j \in 1..Len(p) : p[i] = p[j] => i = j) /\ \A i \in 1..Len(p) : p[i] \in V
    BY <1>2, <2>1, WaysAreSimple
  <2>3. h.depth \in Nat
    BY <1>2 DEF Search, Found
  <2>4. p # <<>>
    BY <2>1, <2>3 DEF Way
  <2>5. \A i \in 1..Len(p) - 1 : <<p[i], p[i + 1]>> \in E
    <3> SUFFICES ASSUME NEW i \in 1..Len(p) - 1 PROVE <<p[i], p[i + 1]>> \in E
      OBVIOUS
    <3>1. i + 1 \in 1..Len(p) /\ i + 1 > 1 /\ (i + 1) - 1 = i
      BY <2>1 DEF Way
    <3>2. <<p[(i + 1) - 1], p[i + 1]>> \in E
      BY <2>1, <3>1 DEF Way
    <3> QED BY <3>1, <3>2
  <2>6. Leading(p, Nodes, E, f, h.asset) /\ Len(p) = h.depth + 1
    BY <1>11, <2>1, <2>2, <2>4, <2>5 DEF Way, Leading
  <2> QED BY <2>6
<1>13. ASSUME NEW b, NEW q \in Graph!PathsTo(b), Len(q) = 1 \/ Len(q) - 2 \notin D
       PROVE  \E h \in F : h.asset = b /\ h.depth < Len(q)
  <2>1. /\ q \in Seq(Nat) /\ q # <<>> /\ q[1] = f /\ q[Len(q)] = b
        /\ \A i \in 1..Len(q) - 1 : <<q[i], q[i + 1]>> \in E
    BY <1>10 DEF Leading
  <2> QED BY <1>2, <1>9, <1>13, <2>1, SearchEnds
<1>14. \A b : \A q \in Graph!PathsTo(b) : Len(q) \in Nat /\ Len(q) >= 1
  BY <1>10 DEF Leading
<1>15. \A h \in F : h.depth \in Nat /\ h = Hit(h.asset, h.depth) /\ \A g \in F : h.asset = g.asset => h = g
  BY <1>2 DEF Search, Found
<1>16. ASSUME NEW b \in Nodes, NEW d \in 0..Cardinality(Nodes), Hit(b, d) \in Graph!ToSet(answer)
       PROVE  /\ d > 0 /\ (query.depth # NoName => d <= query.depth)
              /\ \E p \in Graph!Shortest(Graph!PathsTo(b)) : Len(p) = d + 1
  <2> DEFINE h == Hit(b, d)
  <2>1. h.asset = b /\ h.depth = d
    BY DEF Hit
  <2> HIDE DEF h
  <2>2. h \in F /\ d > 0 /\ d \in Nat
    BY <1>6, <1>15, <1>16, <2>1 DEF h
  <2>3. h # Hit(f, 0)
    <3>1. Hit(f, 0).depth = 0
      BY DEF Hit
    <3> QED BY <2>1, <2>2, <3>1
  <2>4. PICK g \in F : d = g.depth + 1 /\ g.depth \notin D /\ g.depth \in Nat
    BY <1>2, <1>15, <2>1, <2>2, <2>3 DEF Search, Sprung
  <2>5. query.depth # NoName => d <= query.depth
    BY <1>8, <1>9, <2>4
  <2>6. PICK p \in Graph!PathsTo(b) : Len(p) = d + 1
    BY <1>12, <2>1, <2>2
  <2>7. ASSUME NEW q \in Graph!PathsTo(b) PROVE d + 1 <= Len(q)
    <3> SUFFICES ASSUME Len(q) <= d PROVE FALSE
      BY <1>14, <2>2
    <3>1. Len(q) = 1 \/ Len(q) - 2 \notin D
      <4> SUFFICES ASSUME Len(q) # 1 PROVE Len(q) - 2 \in Nat /\ Len(q) - 2 <= g.depth
        BY <1>9, <2>4
      <4>1. Len(q) \in Nat /\ Len(q) >= 1
        BY <1>14
      <4>2. \A k, e \in Nat : k >= 1 /\ k # 1 /\ k <= e + 1 => k - 2 \in Nat /\ k - 2 <= e
        OBVIOUS
      <4> QED BY <2>4, <4>1, <4>2
    <3>2. PICK k \in F : k.asset = b /\ k.depth < Len(q)
      BY <1>13, <3>1
    <3>3. k = h
      BY <1>15, <2>1, <2>2, <3>2
    <3> QED BY <1>14, <2>1, <2>2, <3>2, <3>3
  <2>8. p \in Graph!Shortest(Graph!PathsTo(b))
    BY <2>6, <2>7 DEF Graph!Shortest
  <2> QED BY <2>2, <2>5, <2>6, <2>8
<1>17. ASSUME NEW b \in Nodes, NEW d \in 0..Cardinality(Nodes),
              d > 0, query.depth # NoName => d <= query.depth,
              NEW p \in Graph!Shortest(Graph!PathsTo(b)), Len(p) = d + 1
       PROVE  Hit(b, d) \in Graph!ToSet(answer)
  <2>0. d \in Nat /\ d - 1 \in Nat
    BY <1>17
  <2>1. p \in Graph!PathsTo(b) /\ \A q \in Graph!PathsTo(b) : Len(p) <= Len(q)
    BY DEF Graph!Shortest
  <2>2. Len(p) - 2 \notin D
    <3>1. Len(p) - 2 = d - 1
      BY <1>17, <2>0
    <3>2. ~ (query.depth # NoName /\ d - 1 >= query.depth)
      BY <1>9, <1>17, <2>0
    <3> QED BY <1>8, <2>0, <3>1, <3>2
  <2>3. PICK h \in F : h.asset = b /\ h.depth < d + 1
    BY <1>13, <1>17, <2>1, <2>2
  <2>4. PICK w \in Graph!PathsTo(b) : Len(w) = h.depth + 1
    BY <1>12, <2>3
  <2>5. h.depth = d
    BY <1>15, <1>17, <2>0, <2>1, <2>3, <2>4
  <2>6. h = Hit(b, d)
    BY <1>15, <2>3, <2>5
  <2> QED BY <1>7, <1>17, <2>5, <2>6
<1>18. Graph!Cardinality(Nodes) = Cardinality(Nodes)
  BY SameLibrary
<1>19. ASSUME NEW b \in Nodes, NEW d \in 0..Graph!Cardinality(Nodes)
       PROVE  [asset |-> b, depth |-> d] \in Graph!ToSet(answer) <=>
                /\ d > 0 /\ (query.depth # NoName => d <= query.depth)
                /\ \E p \in Graph!Shortest(Graph!PathsTo(b)) : Len(p) = d + 1
  <2>1. [asset |-> b, depth |-> d] = Hit(b, d) /\ d \in 0..Cardinality(Nodes)
    BY <1>18 DEF Hit
  <2> QED BY <1>16, <1>17, <2>1
<1> QED BY <1>4, <1>19 DEF Graph!HitsAreDistances

LEMMA GraphInvariance == Graph!Spec => []GraphInv
<1>1. Graph!Init => GraphInv
  BY GraphInit
<1>2. GraphInv /\ [Graph!Next]_(Graph!vars) => GraphInv'
  BY GraphStep
<1> QED BY <1>1, <1>2, PTL DEF Graph!Spec

\* In any graph, the path that is found is the first, in the order of words, of the shortest
\* ones, and none is found only if there is none (query.py find_path).
THEOREM PathsFound == Graph!Spec => []Graph!PathIsFirst
<1>1. GraphInv => Graph!PathIsFirst
  BY PathsAreFirst
<1> QED BY <1>1, GraphInvariance, PTL

\* In any graph, a traversal reports exactly what can be reached within the depth asked for,
\* each once, at the length of its shortest path, ordered by depth and id (query.py traverse).
THEOREM HitsFound == Graph!Spec => []Graph!HitsAreDistances
<1>1. GraphInv => Graph!HitsAreDistances
  BY HitsAreFound
<1> QED BY <1>1, GraphInvariance, PTL

-----------------------------------------------------------------------------
(***************************************************************************)
(* The texts of CSV files.  What is computed by going through a sequence - *)
(* the reader of a text, a concatenation - is a recursive function, about  *)
(* which there is one induction each: that it has the values its equation  *)
(* gives it.  A text is then read field by field and line by line, and the *)
(* quotes of a text pair as long as no quote comes next in a field that is *)
(* not quoted, which is so in what is written.                             *)
(***************************************************************************)

\* A function of the numbers up to N whose value follows from the one before.
Recursive(f, E, a, N, step) ==
  f \in [0..N -> E] /\ f[0] = a /\ \A n \in 1..N : f[n] = step[n][f[n - 1]]

\* There is one, given the function of each step.
LEMMA Recursion ==
  ASSUME NEW E, NEW a \in E, NEW N \in Nat, NEW step \in [1..N -> [E -> E]]
  PROVE  \E f : Recursive(f, E, a, N, step)
<1> DEFINE Upto(k) == \E f \in [0..k -> E] : f[0] = a /\ \A n \in 1..k : f[n] = step[n][f[n - 1]]
           T == {k \in Nat : k <= N => Upto(k)}
<1>1. 0 \in T
  <2> DEFINE g == [n \in 0..0 |-> a]
  <2>1. g \in [0..0 -> E] /\ g[0] = a /\ \A n \in 1..0 : g[n] = step[n][g[n - 1]] OBVIOUS
  <2> HIDE DEF g
  <2>2. Upto(0) BY <2>1
  <2> QED BY <2>2
<1>2. ASSUME NEW k \in Nat, k \in T PROVE k + 1 \in T
  <2> SUFFICES ASSUME k + 1 <= N PROVE Upto(k + 1)
    OBVIOUS
  <2>1. PICK f \in [0..k -> E] : f[0] = a /\ \A n \in 1..k : f[n] = step[n][f[n - 1]]
    BY <1>2
  <2> DEFINE g == [n \in 0..(k + 1) |-> IF n = k + 1 THEN step[k + 1][f[k]] ELSE f[n]]
  <2>2. step[k + 1][f[k]] \in E BY <2>1
  <2>3. g \in [0..(k + 1) -> E] BY <2>1, <2>2
  <2>4. g[0] = a BY <2>1
  <2>5. ASSUME NEW n \in 1..(k + 1) PROVE g[n] = step[n][g[n - 1]]
    <3>1. CASE n = k + 1 BY <3>1
    <3>2. CASE n # k + 1
      <4>1. n \in 1..k /\ n - 1 \in 0..k BY <3>2
      <4> QED BY <2>1, <4>1, <3>2
    <3> QED BY <3>1, <3>2
  <2> HIDE DEF g
  <2> QED BY <2>3, <2>4, <2>5
<1> HIDE DEF T
<1>3. Nat \subseteq T BY <1>1, <1>2, AllOf
<1>4. Upto(N) BY <1>3 DEF T
<1> QED BY <1>4 DEF Recursive

\* Concatenations are sequences, and each has one part more.
LEMMA Concatenating ==
  ASSUME NEW D, NEW parts \in Seq(Seq(D))
  PROVE  /\ Text!Concatenations(parts) \in [0..Len(parts) -> Seq(D)]
         /\ Text!Concatenations(parts)[0] = <<>>
         /\ \A n \in 1..Len(parts) :
              Text!Concatenations(parts)[n] = Text!Concatenations(parts)[n - 1] \o parts[n]
<1> DEFINE N == Len(parts)
           next(s, n) == s \o parts[n]
           step == [n \in 1..N |-> [s \in Seq(D) |-> next(s, n)]]
           Is(f) == f = [n \in 0..N |-> IF n = 0 THEN <<>> ELSE next(f[n - 1], n)]
           C == Text!Concatenations(parts)
<1>1. N \in Nat /\ <<>> \in Seq(D) OBVIOUS
<1>2. \A n \in 1..N : \A s \in Seq(D) : next(s, n) \in Seq(D)
  <2>1. \A n \in 1..N : parts[n] \in Seq(D) OBVIOUS
  <2> QED BY <2>1
<1>3. C = CHOOSE f : Is(f) BY DEF Text!Concatenations
<1> HIDE DEF C, N, next
<1>4. step \in [1..N -> [Seq(D) -> Seq(D)]] BY <1>2
<1>5. \A n \in 1..N : \A s \in Seq(D) : step[n][s] = next(s, n) OBVIOUS
<1> HIDE DEF step
<1>a. \E f : Recursive(f, Seq(D), <<>>, N, step)
  BY <1>1, <1>4, Recursion
<1>6. PICK f : f \in [0..N -> Seq(D)] /\ f[0] = <<>> /\ \A n \in 1..N : f[n] = step[n][f[n - 1]]
  BY <1>a DEF Recursive
<1>7. Is(f)
  <2>1. ASSUME NEW n \in 0..N PROVE f[n] = IF n = 0 THEN <<>> ELSE next(f[n - 1], n)
    <3>1. CASE n # 0
      <4>1. n \in 1..N /\ n - 1 \in 0..N BY <1>1, <3>1
      <4> QED BY <1>5, <1>6, <3>1, <4>1
    <3> QED BY <1>6, <3>1
  <2> QED BY <1>6, <2>1
<1>8. Is(C) BY <1>3, <1>7
<1>9. C[0] = <<>> /\ \A n \in 1..N : C[n] = next(C[n - 1], n)
  BY <1>1, <1>8
<1>10. DOMAIN C = 0..N /\ C = [n \in DOMAIN C |-> C[n]] BY <1>8
<1>11. \A n \in 0..N : C[n] \in Seq(D)
  <2> DEFINE T == {k \in Nat : k <= N => C[k] \in Seq(D)}
  <2>1. 0 \in T BY <1>1, <1>9
  <2>2. \A k \in Nat : k \in T => k + 1 \in T
    <3> SUFFICES ASSUME NEW k \in Nat, k \in T, k + 1 <= N PROVE C[k + 1] \in Seq(D)
      OBVIOUS
    <3>1. C[k + 1] = next(C[k], k + 1) /\ C[k] \in Seq(D) /\ k + 1 \in 1..N
      BY <1>1, <1>9
    <3> QED BY <1>2, <3>1
  <2> HIDE DEF T
  <2>3. Nat \subseteq T BY <2>1, <2>2, AllOf
  <2> QED BY <1>1, <2>3 DEF T
<1> QED BY <1>9, <1>10, <1>11 DEF C, N, next

Reader == [rows : Seq(Seq(Seq(Text!Chars))), row : Seq(Seq(Text!Chars)), field : Seq(Text!Chars),
           quoted : BOOLEAN, next : Nat]

LEMMA QuoteReads ==
  \A q \in Reader : \A c \in Text!Chars : Text!Quote \in Text!Chars /\ Text!Read(q, c) \in Reader
<1> SUFFICES ASSUME NEW q \in Reader, NEW c \in Text!Chars PROVE Text!Read(q, c) \in Reader
  BY DEF Text!Chars
<1>1. Append(q.field, c) \in Seq(Text!Chars) BY DEF Reader
<1> QED BY <1>1 DEF Reader, Text!Read

LEMMA SkipReads == \A q \in Reader : \A i \in Nat : Text!Skip(q, i) \in Reader
<1>1. \A i \in Nat : i + 2 \in Nat OBVIOUS
<1> QED BY <1>1 DEF Reader, Text!Skip

\* One character leaves a reader a reader.
LEMMA ReadOne ==
  ASSUME NEW text \in Seq(Text!Chars), NEW i \in 1..Len(text), NEW p \in Reader
  PROVE  Text!ReadAt(text, p, i) \in Reader
<1>1. text[i] \in Text!Chars /\ Text!Quote \in Text!Chars BY DEF Text!Chars
<1>2. \A q \in Reader : \A c \in Text!Chars : Text!Read(q, c) \in Reader BY QuoteReads
<1>3. \A q \in Reader : Text!Skip(q, i) \in Reader BY SkipReads
<1>4. \A q \in Reader : Text!EndField(q) \in Reader
  <2> SUFFICES ASSUME NEW q \in Reader PROVE Text!EndField(q) \in Reader
    OBVIOUS
  <2>1. Append(q.row, q.field) \in Seq(Seq(Text!Chars)) /\ <<>> \in Seq(Text!Chars) BY DEF Reader
  <2> QED BY <2>1 DEF Reader, Text!EndField
<1>5. \A q \in Reader : Text!EndRow(q) \in Reader
  <2> SUFFICES ASSUME NEW q \in Reader PROVE Text!EndRow(q) \in Reader
    OBVIOUS
  <2> DEFINE e == Text!EndField(q)
  <2>1. e \in Reader BY <1>4
  <2> HIDE DEF e
  <2>2. Append(e.rows, e.row) \in Seq(Seq(Seq(Text!Chars))) /\ <<>> \in Seq(Seq(Text!Chars)) BY <2>1 DEF Reader
  <2> QED BY <2>1, <2>2 DEF e, Reader, Text!EndRow
<1>6. \A b \in BOOLEAN : [p EXCEPT !.quoted = b] \in Reader BY DEF Reader
<1>7. Text!ReadQuoted(p, text, i) \in Reader
  BY <1>1, <1>2, <1>3, <1>6 DEF Text!ReadQuoted
<1>8. Text!ReadPlain(p, text, i) \in Reader
  BY <1>1, <1>2, <1>3, <1>4, <1>5, <1>6 DEF Text!ReadPlain
<1> QED BY <1>7, <1>8 DEF Text!ReadAt

\* The readers of a text, after each number of characters.
Runs(text, read) ==
  /\ text \in Seq(Text!Chars)
  /\ read \in [0..Len(text) -> Reader] /\ read[0] = Text!Reader
  /\ \A i \in 1..Len(text) : read[i] = Text!ReadAt(text, read[i - 1], i)

LEMMA ReadingRuns == ASSUME NEW text \in Seq(Text!Chars) PROVE Runs(text, Text!Reading(text))
<1> DEFINE N == Len(text)
           next(s, n) == Text!ReadAt(text, s, n)
           step == [n \in 1..N |-> [s \in Reader |-> next(s, n)]]
           Is(f) == f = [n \in 0..N |-> IF n = 0 THEN Text!Reader ELSE next(f[n - 1], n)]
           C == Text!Reading(text)
<1>1. N \in Nat /\ Text!Reader \in Reader BY DEF Reader, Text!Reader
<1>2. \A n \in 1..N : \A s \in Reader : next(s, n) \in Reader BY ReadOne
<1>3. C = CHOOSE f : Is(f) BY DEF Text!Reading
<1> HIDE DEF C, N, next
<1>4. step \in [1..N -> [Reader -> Reader]] BY <1>2
<1>5. \A n \in 1..N : \A s \in Reader : step[n][s] = next(s, n) OBVIOUS
<1> HIDE DEF step
<1>a. \E f : Recursive(f, Reader, Text!Reader, N, step)
  BY <1>1, <1>4, Recursion
<1>6. PICK f : f \in [0..N -> Reader] /\ f[0] = Text!Reader /\ \A n \in 1..N : f[n] = step[n][f[n - 1]]
  BY <1>a DEF Recursive
<1>7. Is(f)
  <2>1. ASSUME NEW n \in 0..N PROVE f[n] = IF n = 0 THEN Text!Reader ELSE next(f[n - 1], n)
    <3>1. CASE n # 0
      <4>1. n \in 1..N /\ n - 1 \in 0..N BY <1>1, <3>1
      <4> QED BY <1>5, <1>6, <3>1, <4>1
    <3> QED BY <1>6, <3>1
  <2> QED BY <1>6, <2>1
<1>8. Is(C) BY <1>3, <1>7
<1>9. C[0] = Text!Reader /\ \A n \in 1..N : C[n] = next(C[n - 1], n)
  BY <1>1, <1>8
<1>10. DOMAIN C = 0..N /\ C = [n \in DOMAIN C |-> C[n]] BY <1>8
<1>11. \A n \in 0..N : C[n] \in Reader
  <2> DEFINE T == {k \in Nat : k <= N => C[k] \in Reader}
  <2>1. 0 \in T BY <1>1, <1>9
  <2>2. \A k \in Nat : k \in T => k + 1 \in T
    <3> SUFFICES ASSUME NEW k \in Nat, k \in T, k + 1 <= N PROVE C[k + 1] \in Reader
      OBVIOUS
    <3>1. C[k + 1] = next(C[k], k + 1) /\ C[k] \in Reader /\ k + 1 \in 1..N
      BY <1>1, <1>9
    <3> QED BY <1>2, <3>1
  <2> HIDE DEF T
  <2>3. Nat \subseteq T BY <2>1, <2>2, AllOf
  <2> QED BY <1>1, <2>3 DEF T
<1> QED BY <1>9, <1>10, <1>11 DEF C, N, next, Runs


-----------------------------------------------------------------------------
\* The text has s after its first i characters.
Has(text, i, s) == i + Len(s) <= Len(text) /\ \A m \in 1..Len(s) : text[i + m] = s[m]

\* It has a concatenation where it has the first, and the second after it.
LEMMA HasBoth ==
  ASSUME NEW D, NEW text \in Seq(D), NEW i \in Nat, NEW s \in Seq(D), NEW u \in Seq(D)
  PROVE  Has(text, i, s \o u) <=> Has(text, i, s) /\ Has(text, i + Len(s), u)
<1>1. /\ s \o u \in Seq(D) /\ Len(s \o u) = Len(s) + Len(u)
      /\ \A m \in 1..Len(s) : (s \o u)[m] = s[m]
      /\ \A m \in 1..Len(u) : (s \o u)[Len(s) + m] = u[m]
  OBVIOUS
<1> DEFINE b == s \o u
           k == Len(s)
           l == Len(u)
<1>2. k \in Nat /\ l \in Nat /\ Len(text) \in Nat OBVIOUS
<1>3. \A m \in 1..(k + l) : m \in 1..k \/ (m - k \in 1..l /\ m = k + (m - k)) BY <1>2
<1>4. \A m \in 1..k : m \in 1..(k + l) BY <1>2
<1>5. \A m \in 1..l : k + m \in 1..(k + l) /\ i + (k + m) = (i + k) + m BY <1>2
<1>6. Len(b) = k + l /\ (\A m \in 1..k : b[m] = s[m]) /\ (\A m \in 1..l : b[k + m] = u[m])
  BY <1>1
<1> HIDE DEF b, k, l
<1>7. ASSUME Has(text, i, b) PROVE Has(text, i, s) /\ Has(text, i + k, u)
  <2>1. \A m \in 1..k : text[i + m] = s[m] BY <1>4, <1>6, <1>7 DEF Has
  <2>2. \A m \in 1..l : text[(i + k) + m] = u[m] BY <1>5, <1>6, <1>7 DEF Has
  <2>3. i + k <= Len(text) /\ (i + k) + l <= Len(text) BY <1>2, <1>6, <1>7 DEF Has
  <2> QED BY <2>1, <2>2, <2>3 DEF Has, k, l
<1>8. ASSUME Has(text, i, s), Has(text, i + k, u) PROVE Has(text, i, b)
  <2>1. (\A m \in 1..k : text[i + m] = s[m]) /\ (\A m \in 1..l : text[(i + k) + m] = u[m])
        /\ (i + k) + l <= Len(text)
    BY <1>8 DEF Has, k, l
  <2>2. ASSUME NEW m \in 1..(k + l) PROVE text[i + m] = b[m]
    <3>1. CASE m \in 1..k BY <1>6, <2>1, <3>1
    <3>2. CASE m - k \in 1..l
      <4>1. i + m = (i + k) + (m - k) /\ m = k + (m - k) BY <1>2
      <4>2. text[(i + k) + (m - k)] = u[m - k] /\ b[k + (m - k)] = u[m - k] BY <1>6, <2>1, <3>2
      <4> QED BY <4>1, <4>2
    <3> QED BY <1>3, <3>1, <3>2
  <2>3. i + (k + l) <= Len(text) BY <1>2, <2>1
  <2> QED BY <1>6, <2>2, <2>3 DEF Has
<1> QED BY <1>7, <1>8 DEF b, k

\* What has a concatenation has what the first parts make, and each part after those before.
LEMMA HasParts ==
  ASSUME NEW D, NEW text \in Seq(D), NEW i \in Nat, NEW parts \in Seq(Seq(D)),
         Has(text, i, Text!Concatenated(parts)), NEW n \in 0..Len(parts)
  PROVE  /\ Has(text, i, Text!Concatenations(parts)[n])
         /\ n > 0 => Has(text, i + Len(Text!Concatenations(parts)[n - 1]), parts[n])
<1> DEFINE C == Text!Concatenations(parts)
           N == Len(parts)
           T == {k \in Nat : k <= N => Has(text, i, C[N - k])}
<1>1. /\ N \in Nat /\ C \in [0..N -> Seq(D)] /\ \A k \in 1..N : parts[k] \in Seq(D)
      /\ \A k \in 1..N : C[k] = C[k - 1] \o parts[k]
  <2>1. N \in Nat /\ \A k \in 1..N : parts[k] \in Seq(D) OBVIOUS
  <2>2. C \in [0..N -> Seq(D)] /\ \A k \in 1..N : C[k] = C[k - 1] \o parts[k] BY Concatenating
  <2> QED BY <2>1, <2>2
<1>2. Has(text, i, C[N]) BY DEF Text!Concatenated
<1> HIDE DEF C, N
<1>3. ASSUME NEW k \in 1..N, Has(text, i, C[k])
      PROVE  Has(text, i, C[k - 1]) /\ Has(text, i + Len(C[k - 1]), parts[k])
  <2>0. k - 1 \in 0..N BY <1>1
  <2>1. C[k - 1] \in Seq(D) /\ parts[k] \in Seq(D) /\ C[k] = C[k - 1] \o parts[k] BY <1>1, <2>0
  <2> QED BY <1>3, <2>1, HasBoth
<1>4. 0 \in T BY <1>1, <1>2
<1>5. \A k \in Nat : k \in T => k + 1 \in T
  <2> SUFFICES ASSUME NEW k \in Nat, k \in T, k + 1 <= N PROVE Has(text, i, C[N - (k + 1)])
    OBVIOUS
  <2>1. N - k \in 1..N /\ (N - k) - 1 = N - (k + 1) /\ k <= N BY <1>1
  <2>2. Has(text, i, C[(N - k) - 1]) BY <1>3, <2>1
  <2> QED BY <2>1, <2>2
<1> HIDE DEF T
<1>6. Nat \subseteq T BY <1>4, <1>5, AllOf
<1>7. N - n \in Nat /\ N - n <= N /\ N - (N - n) = n BY <1>1 DEF N
<1>8. Has(text, i, C[n]) BY <1>6, <1>7 DEF T
<1>9. n > 0 => n \in 1..N BY <1>1 DEF N
<1> QED BY <1>3, <1>8, <1>9 DEF C

\* The empty text, row or table.
Nil == <<>>

Opened(p) == [p EXCEPT !.quoted = TRUE]
Unquoted(p) == [p EXCEPT !.quoted = FALSE]

\* What each operation on a reader does.
LEMMA ReadDoes ==
  ASSUME NEW p \in Reader, NEW c, NEW q, q = Text!Read(p, c)
  PROVE  /\ q.rows = p.rows /\ q.row = p.row /\ q.field = Append(p.field, c)
         /\ q.quoted = p.quoted /\ q.next = p.next
<1>1. DOMAIN p = {"rows", "row", "field", "quoted", "next"} BY DEF Reader
<1> QED BY <1>1 DEF Text!Read

LEMMA SkipDoes ==
  ASSUME NEW p \in Reader, NEW i, NEW q, q = Text!Skip(p, i)
  PROVE  /\ q.rows = p.rows /\ q.row = p.row /\ q.field = p.field
         /\ q.quoted = p.quoted /\ q.next = i + 2
<1>1. DOMAIN p = {"rows", "row", "field", "quoted", "next"} BY DEF Reader
<1> QED BY <1>1 DEF Text!Skip

LEMMA OpenDoes ==
  ASSUME NEW p \in Reader, NEW q, q = Opened(p)
  PROVE  /\ q.rows = p.rows /\ q.row = p.row /\ q.field = p.field
         /\ q.quoted = TRUE /\ q.next = p.next
<1>1. DOMAIN p = {"rows", "row", "field", "quoted", "next"} BY DEF Reader
<1> QED BY <1>1 DEF Opened

LEMMA CloseDoes ==
  ASSUME NEW p \in Reader, NEW q, q = Unquoted(p)
  PROVE  /\ q.rows = p.rows /\ q.row = p.row /\ q.field = p.field
         /\ q.quoted = FALSE /\ q.next = p.next
<1>1. DOMAIN p = {"rows", "row", "field", "quoted", "next"} BY DEF Reader
<1> QED BY <1>1 DEF Unquoted

LEMMA FieldDoes ==
  ASSUME NEW p \in Reader, NEW q, q = Text!EndField(p)
  PROVE  /\ q.rows = p.rows /\ q.row = Append(p.row, p.field) /\ q.field = Nil
         /\ q.quoted = p.quoted /\ q.next = p.next
<1>1. DOMAIN p = {"rows", "row", "field", "quoted", "next"} BY DEF Reader
<1> QED BY <1>1 DEF Nil, Text!EndField

LEMMA RowDoes ==
  ASSUME NEW p \in Reader, NEW q, q = Text!EndRow(p)
  PROVE  /\ q.rows = Append(p.rows, Append(p.row, p.field)) /\ q.row = Nil /\ q.field = Nil
         /\ q.quoted = p.quoted /\ q.next = p.next
<1>1. DOMAIN p = {"rows", "row", "field", "quoted", "next"} BY DEF Reader
<1> QED BY <1>1 DEF Nil, Text!EndField, Text!EndRow

\* A reader p that has read i characters.
Is(p, i, past, row, field, quoted) ==
  p.rows = past /\ p.row = row /\ p.field = field /\ p.quoted = quoted /\ p.next <= i + 1

\* What one character, or two, does to a reader.
LEMMA ReadSteps ==
  ASSUME NEW text, NEW read, Runs(text, read), NEW i \in 0..(Len(text) - 1),
         NEW past, NEW row, NEW field, NEW quoted, Is(read[i], i, past, row, field, quoted)
  PROVE  /\ ~quoted /\ text[i + 1] = "x"
               => Is(read[i + 1], i + 1, past, row, Append(field, "x"), FALSE)
         /\ ~quoted /\ text[i + 1] = Text!Quote /\ field = Nil
               => Is(read[i + 1], i + 1, past, row, field, TRUE)
         /\ ~quoted /\ text[i + 1] = Text!Comma
               => Is(read[i + 1], i + 1, past, Append(row, field), Nil, FALSE)
         /\ ~quoted /\ text[i + 1] = Text!LF
               => Is(read[i + 1], i + 1, Append(past, Append(row, field)), Nil, Nil, FALSE)
         /\ ~quoted /\ text[i + 1] = Text!CR /\ ~Text!Follows(text, i + 1, Text!LF)
               => Is(read[i + 1], i + 1, Append(past, Append(row, field)), Nil, Nil, FALSE)
         /\ ~quoted /\ text[i + 1] = Text!CR /\ Text!Follows(text, i + 1, Text!LF)
               => /\ read[i + 1].field = Nil
                  /\ Is(read[i + 2], i + 2, Append(past, Append(row, field)), Nil, Nil, FALSE)
         /\ quoted /\ text[i + 1] # Text!Quote
               => Is(read[i + 1], i + 1, past, row, Append(field, text[i + 1]), TRUE)
         /\ quoted /\ text[i + 1] = Text!Quote /\ Text!Follows(text, i + 1, Text!Quote)
               => /\ read[i + 1].quoted
                  /\ Is(read[i + 2], i + 2, past, row, Append(field, Text!Quote), TRUE)
         /\ quoted /\ text[i + 1] = Text!Quote /\ ~Text!Follows(text, i + 1, Text!Quote)
               => Is(read[i + 1], i + 1, past, row, field, FALSE)
<1> DEFINE p == read[i]
           q == read[i + 1]
<1>1. Len(text) \in Nat /\ i \in Nat /\ i + 1 \in 1..Len(text) /\ i < Len(text) BY DEF Runs
<1>2. p \in Reader /\ q \in Reader /\ q = Text!ReadAt(text, p, i + 1)
  BY <1>1 DEF Runs
<1>0. /\ p.rows = past /\ p.row = row /\ p.field = field /\ p.quoted = quoted
      /\ p.next <= i + 1 /\ p.next \in Nat /\ quoted \in BOOLEAN
  BY <1>2 DEF Is, Reader
<1>3. ~(i + 1 < p.next) BY <1>0, <1>1
<1>4. q = IF p.quoted THEN Text!ReadQuoted(p, text, i + 1) ELSE Text!ReadPlain(p, text, i + 1)
  BY <1>2, <1>3 DEF Text!ReadAt
<1>5. ASSUME NEW c, Text!Follows(text, i + 1, c), q.next = i + 3
      PROVE  read[i + 2] = q
  <2>1. i + 2 \in 1..Len(text) /\ (i + 2) - 1 = i + 1 BY <1>1, <1>5 DEF Text!Follows
  <2>2. read[i + 2] = Text!ReadAt(text, q, i + 2) BY <2>1 DEF Runs
  <2> QED BY <1>1, <1>5, <2>2 DEF Text!ReadAt
<1> HIDE DEF p, q
<1>6. ASSUME ~quoted /\ text[i + 1] = "x"
      PROVE  Is(q, i + 1, past, row, Append(field, "x"), FALSE)
  <2>1. q = Text!Read(p, "x")
    BY <1>0, <1>4, <1>6 DEF Is, Text!ReadPlain, Text!Quote, Text!Comma, Text!LF, Text!CR
  <2>2. /\ q.rows = p.rows /\ q.row = p.row
        /\ q.field = Append(p.field, "x") /\ q.quoted = p.quoted /\ q.next = p.next
    BY <1>2, <2>1, ReadDoes
  <2> QED BY <1>0, <1>1, <1>6, <2>2 DEF Is
<1>7. ASSUME ~quoted /\ text[i + 1] = Text!Quote /\ field = Nil
      PROVE  Is(q, i + 1, past, row, field, TRUE)
  <2>1. q = Opened(p)
    BY <1>0, <1>4, <1>7 DEF Opened, Nil, Is, Text!ReadPlain, Text!Quote, Text!Comma, Text!LF, Text!CR
  <2>2. /\ q.rows = p.rows /\ q.row = p.row
        /\ q.field = p.field /\ q.quoted = TRUE /\ q.next = p.next
    BY <1>2, <2>1, OpenDoes
  <2> QED BY <1>0, <1>1, <1>7, <2>2 DEF Is
<1>8. ASSUME ~quoted /\ text[i + 1] = Text!Comma
      PROVE  Is(q, i + 1, past, Append(row, field), Nil, FALSE)
  <2>1. q = Text!EndField(p)
    BY <1>0, <1>4, <1>8 DEF Is, Text!ReadPlain, Text!Quote, Text!Comma, Text!LF, Text!CR
  <2>2. /\ q.rows = p.rows /\ q.row = Append(p.row, p.field)
        /\ q.field = Nil /\ q.quoted = p.quoted /\ q.next = p.next
    BY <1>2, <2>1, FieldDoes
  <2> QED BY <1>0, <1>1, <1>8, <2>2 DEF Is
<1>9. ASSUME ~quoted /\ text[i + 1] = Text!LF
      PROVE  Is(q, i + 1, Append(past, Append(row, field)), Nil, Nil, FALSE)
  <2>1. q = Text!EndRow(p)
    BY <1>0, <1>4, <1>9 DEF Is, Text!ReadPlain, Text!Quote, Text!Comma, Text!LF, Text!CR
  <2>2. /\ q.rows = Append(p.rows, Append(p.row, p.field)) /\ q.row = Nil
        /\ q.field = Nil /\ q.quoted = p.quoted /\ q.next = p.next
    BY <1>2, <2>1, RowDoes
  <2> QED BY <1>0, <1>1, <1>9, <2>2 DEF Is
<1>10. ASSUME ~quoted /\ text[i + 1] = Text!CR /\ ~Text!Follows(text, i + 1, Text!LF)
      PROVE  Is(q, i + 1, Append(past, Append(row, field)), Nil, Nil, FALSE)
  <2>1. q = Text!EndRow(p)
    BY <1>0, <1>4, <1>10 DEF Is, Text!ReadPlain, Text!Quote, Text!Comma, Text!LF, Text!CR
  <2>2. /\ q.rows = Append(p.rows, Append(p.row, p.field)) /\ q.row = Nil
        /\ q.field = Nil /\ q.quoted = p.quoted /\ q.next = p.next
    BY <1>2, <2>1, RowDoes
  <2> QED BY <1>0, <1>1, <1>10, <2>2 DEF Is
<1>11. ASSUME ~quoted, text[i + 1] = Text!CR, Text!Follows(text, i + 1, Text!LF)
      PROVE  /\ q.field = Nil
             /\ Is(read[i + 2], i + 2, Append(past, Append(row, field)), Nil, Nil, FALSE)
  <2>1. q = Text!EndRow(Text!Skip(p, i + 1))
    BY <1>0, <1>4, <1>11 DEF Is, Text!ReadPlain, Text!Quote, Text!Comma, Text!LF, Text!CR
  <2>2. Is(q, i + 2, Append(past, Append(row, field)), Nil, Nil, FALSE) /\ q.next = i + 3
    <3> DEFINE s == Text!Skip(p, i + 1)
    <3>1. s \in Reader /\ s.rows = p.rows /\ s.row = p.row /\ s.field = p.field /\ s.quoted = p.quoted
          /\ s.next = i + 3
      BY <1>1, <1>2, SkipDoes, SkipReads
    <3> HIDE DEF s
    <3>2. q = Text!EndRow(s) BY <2>1 DEF s
    <3>3. /\ q.rows = Append(s.rows, Append(s.row, s.field)) /\ q.row = Nil
          /\ q.field = Nil /\ q.quoted = s.quoted /\ q.next = s.next
      BY <3>1, <3>2, RowDoes
    <3> QED BY <1>0, <1>1, <1>11, <3>1, <3>3 DEF Is
  <2> QED BY <1>5, <1>11, <2>2 DEF Is
<1>12. ASSUME quoted, text[i + 1] # Text!Quote
      PROVE  Is(q, i + 1, past, row, Append(field, text[i + 1]), TRUE)
  <2>1. q = Text!Read(p, text[i + 1]) BY <1>0, <1>4, <1>12 DEF Is, Text!ReadQuoted
  <2>2. /\ q.rows = p.rows /\ q.row = p.row
        /\ q.field = Append(p.field, text[i + 1]) /\ q.quoted = p.quoted /\ q.next = p.next
    BY <1>2, <2>1, ReadDoes
  <2> QED BY <1>0, <1>1, <1>12, <2>2 DEF Is
<1>13. ASSUME quoted, text[i + 1] = Text!Quote, Text!Follows(text, i + 1, Text!Quote)
      PROVE  q.quoted /\ Is(read[i + 2], i + 2, past, row, Append(field, Text!Quote), TRUE)
  <2>1. q = Text!Skip(Text!Read(p, Text!Quote), i + 1)
    BY <1>0, <1>4, <1>13 DEF Is, Text!ReadQuoted
  <2>2. Is(q, i + 2, past, row, Append(field, Text!Quote), TRUE) /\ q.next = i + 3
    <3> DEFINE s == Text!Read(p, Text!Quote)
    <3>1. s \in Reader /\ s.rows = p.rows /\ s.row = p.row /\ s.field = Append(p.field, Text!Quote)
          /\ s.quoted = p.quoted
      <4>1. s \in Reader BY <1>2, QuoteReads DEF Text!Chars
      <4> QED BY <1>2, <4>1, ReadDoes
    <3> HIDE DEF s
    <3>2. q = Text!Skip(s, i + 1) BY <2>1 DEF s
    <3>3. /\ q.rows = s.rows /\ q.row = s.row /\ q.field = s.field
          /\ q.quoted = s.quoted /\ q.next = (i + 1) + 2
      BY <3>1, <3>2, SkipDoes
    <3> QED BY <1>0, <1>1, <1>13, <3>1, <3>3 DEF Is
  <2> QED BY <1>5, <1>13, <2>2 DEF Is
<1>14. ASSUME quoted, text[i + 1] = Text!Quote, ~Text!Follows(text, i + 1, Text!Quote)
      PROVE  Is(q, i + 1, past, row, field, FALSE)
  <2>1. q = Unquoted(p) BY <1>0, <1>4, <1>14 DEF Unquoted, Is, Text!ReadQuoted
  <2>2. /\ q.rows = p.rows /\ q.row = p.row
        /\ q.field = p.field /\ q.quoted = FALSE /\ q.next = p.next
    BY <1>2, <2>1, CloseDoes
  <2> QED BY <1>0, <1>1, <1>14, <2>2 DEF Is
<1> QED BY <1>6, <1>7, <1>8, <1>9, <1>10, <1>11, <1>12, <1>13, <1>14 DEF q

-----------------------------------------------------------------------------
\* What a sequence begins with.
LEMMA Prefixes ==
  ASSUME NEW D, NEW s \in Seq(D), NEW k \in 0..Len(s)
  PROVE  /\ SubSeq(s, 1, 0) = Nil /\ SubSeq(s, 1, Len(s)) = s
         /\ SubSeq(s, 1, k) \in Seq(D) /\ Len(SubSeq(s, 1, k)) = k
         /\ \A m \in 1..k : SubSeq(s, 1, k)[m] = s[m]
         /\ k < Len(s) => SubSeq(s, 1, k + 1) = Append(SubSeq(s, 1, k), s[k + 1])
<1>1. SubSeq(s, 1, 0) = Nil BY DEF Nil
<1>2. SubSeq(s, 1, Len(s)) = s OBVIOUS
<1>3. SubSeq(s, 1, k) \in Seq(D) /\ Len(SubSeq(s, 1, k)) = k /\ \A m \in 1..k : SubSeq(s, 1, k)[m] = s[m]
  OBVIOUS
<1>4. k < Len(s) => SubSeq(s, 1, k + 1) = Append(SubSeq(s, 1, k), s[k + 1])
  OBVIOUS
<1> QED BY <1>1, <1>2, <1>3, <1>4

\* No quote comes after the first n characters.
After(text, n) == n < Len(text) => text[n + 1] # Text!Quote

\* Induction up to n.
LEMMA UpTo ==
  ASSUME NEW n \in Nat, NEW S, 0 \in S, \A k \in 0..(n - 1) : k \in S => k + 1 \in S
  PROVE  \A k \in 0..n : k \in S
<1> DEFINE T == {k \in Nat : k <= n => k \in S}
<1>1. 0 \in T OBVIOUS
<1>2. \A k \in Nat : k \in T => k + 1 \in T
  <2> SUFFICES ASSUME NEW k \in Nat, k <= n => k \in S, k + 1 <= n PROVE k + 1 \in S
    OBVIOUS
  <2>1. k \in 0..(n - 1) /\ k \in S OBVIOUS
  <2> QED BY <2>1
<1>3. Nat \subseteq T
  <2> HIDE DEF T
  <2> QED BY <1>1, <1>2, AllOf
<1> SUFFICES ASSUME NEW k \in 0..n PROVE k \in S
  OBVIOUS
<1>4. k \in Nat /\ k <= n OBVIOUS
<1>5. k \in T BY <1>3, <1>4
<1> QED BY <1>4, <1>5

\* Characters without a meaning are read as they are.
LEMMA PlainRead ==
  ASSUME NEW text, NEW read, Runs(text, read), NEW i \in 0..Len(text), NEW past, NEW row,
         Is(read[i], i, past, row, Nil, FALSE),
         NEW f \in Seq(Text!Chars), \A k \in 1..Len(f) : f[k] = "x",
         Has(text, i, f), After(text, i + Len(f))
  PROVE  /\ Is(read[i + Len(f)], i + Len(f), past, row, f, FALSE)
         /\ \A m \in i..(i + Len(f)) : After(text, m)
<1> DEFINE n == Len(f)
           At(k) == Is(read[i + k], i + k, past, row, SubSeq(f, 1, k), FALSE)
           T == {k \in 0..n : At(k)}
<1>0. n \in Nat /\ Len(text) \in Nat /\ i \in Nat BY DEF Runs
<1>a. i + n <= Len(text) /\ \A k \in 1..n : text[i + k] = f[k] BY DEF Has
<1>b. /\ SubSeq(f, 1, 0) = Nil /\ SubSeq(f, 1, n) = f
      /\ \A k \in 0..(n - 1) : SubSeq(f, 1, k + 1) = Append(SubSeq(f, 1, k), f[k + 1])
  <2>1. 0 \in 0..n /\ \A k \in 0..(n - 1) : k \in 0..n /\ k < n BY <1>0
  <2> QED BY <2>1, Prefixes
<1>c. \A k \in 1..n : f[k] = "x" OBVIOUS
<1>d. After(text, i + n) OBVIOUS
<1> HIDE DEF n
<1>1. \A k \in 1..n : text[i + k] = "x" BY <1>a, <1>c
<1>2. ASSUME NEW m \in i..(i + n) PROVE After(text, m)
  <2>1. CASE m = i + n BY <2>1, <1>d
  <2>2. CASE m # i + n
    <3> DEFINE k == (m - i) + 1
    <3>1. k \in 1..n /\ i + k = m + 1 BY <1>0, <2>2
    <3> HIDE DEF k
    <3>2. text[i + k] = "x" BY <1>1, <3>1
    <3>3. text[m + 1] = "x" BY <3>1, <3>2
    <3> QED BY <3>3 DEF After, Text!Quote
  <2> QED BY <2>1, <2>2
<1>3. 0 \in T
  <2>1. SubSeq(f, 1, 0) = Nil /\ i + 0 = i BY <1>0, <1>b
  <2>2. At(0) BY <2>1
  <2>3. 0 \in 0..n BY <1>0
  <2> HIDE DEF At
  <2> QED BY <2>2, <2>3
<1>4. \A k \in 0..(n - 1) : k \in T => k + 1 \in T
  <2> SUFFICES ASSUME NEW k \in 0..(n - 1), At(k) PROVE At(k + 1)
    <3>1. \A k \in 0..(n - 1) : k + 1 \in 0..n BY <1>0
    <3> QED BY <3>1
  <2>1. /\ i + k \in 0..(Len(text) - 1) /\ (i + k) + 1 = i + (k + 1) /\ k + 1 \in 1..n
    BY <1>0, <1>a
  <2>2. text[(i + k) + 1] = "x" BY <1>1, <2>1
  <2>3. Is(read[(i + k) + 1], (i + k) + 1, past, row, Append(SubSeq(f, 1, k), "x"), FALSE)
    BY <2>1, <2>2, ReadSteps
  <2>4. SubSeq(f, 1, k + 1) = Append(SubSeq(f, 1, k), "x")
    BY <1>b, <1>c, <2>1
  <2> QED BY <2>1, <2>3, <2>4
<1>5. \A k \in 0..n : k \in T
  <2> HIDE DEF T
  <2> QED BY <1>0, <1>3, <1>4, UpTo
<1>6. At(n)
  <2>1. n \in 0..n BY <1>0
  <2> QED BY <1>5, <2>1
<1> QED BY <1>2, <1>6, <1>b DEF n

\* A quoted field is read without its quotes, a doubled one once.
LEMMA QuotedRead ==
  ASSUME NEW text, NEW read, Runs(text, read), NEW i \in 0..Len(text), NEW past, NEW row,
         Is(read[i], i, past, row, Nil, FALSE),
         NEW f \in Seq(Text!Chars), Has(text, i, Text!Quoted(f)), After(text, i + Len(Text!Quoted(f)))
  PROVE  /\ Is(read[i + Len(Text!Quoted(f))], i + Len(Text!Quoted(f)), past, row, f, FALSE)
         /\ \A m \in (i + 1)..(i + Len(Text!Quoted(f)) - 1) : read[m].quoted
<1> DEFINE parts == Text!Escaped(f)
           C == Text!Concatenations(parts)
           n == Len(f)
           L == Len(C[n])
<1>1. n \in Nat /\ Len(text) \in Nat /\ i \in Nat /\ text \in Seq(Text!Chars)
  BY DEF Runs
<1>2. Text!Quote \in Text!Chars BY DEF Text!Chars
<1>3. parts \in Seq(Seq(Text!Chars)) /\ Len(parts) = n
      /\ \A k \in 1..n : parts[k] = IF f[k] = Text!Quote THEN <<Text!Quote, Text!Quote>> ELSE <<f[k]>>
  <2>1. \A k \in 1..n : f[k] \in Text!Chars OBVIOUS
  <2>2. \A c \in Text!Chars : <<c>> \in Seq(Text!Chars) /\ <<c, c>> \in Seq(Text!Chars) OBVIOUS
  <2>3. \A k \in 1..n : (IF f[k] = Text!Quote THEN <<Text!Quote, Text!Quote>> ELSE <<f[k]>>) \in Seq(Text!Chars)
    BY <1>2, <2>1, <2>2
  <2> QED BY <1>1, <2>3 DEF Text!Escaped
<1>4. /\ C \in [0..n -> Seq(Text!Chars)] /\ C[0] = <<>>
      /\ \A k \in 1..n : C[k] = C[k - 1] \o parts[k]
  BY <1>3, Concatenating
<1>5. Text!Quoted(f) = (<<Text!Quote>> \o C[n]) \o <<Text!Quote>>
  BY <1>3 DEF Text!Quoted, Text!Concatenated
<1> HIDE DEF parts, C
<1>6. C[n] \in Seq(Text!Chars) /\ L \in Nat BY <1>1, <1>4
<1>7. /\ <<Text!Quote>> \in Seq(Text!Chars) /\ Len(<<Text!Quote>>) = 1 /\ <<Text!Quote>>[1] = Text!Quote
      /\ <<Text!Quote>> \o C[n] \in Seq(Text!Chars) /\ Len(<<Text!Quote>> \o C[n]) = L + 1
      /\ Len(Text!Quoted(f)) = L + 2
  BY <1>2, <1>5, <1>6
<1>8. /\ Has(text, i, <<Text!Quote>>) /\ Has(text, i + 1, C[n]) /\ Has(text, i + (L + 1), <<Text!Quote>>)
  <2>1. Has(text, i, <<Text!Quote>> \o C[n]) /\ Has(text, i + (L + 1), <<Text!Quote>>)
    <3> DEFINE s == <<Text!Quote>> \o C[n]
               u == <<Text!Quote>>
    <3>1. s \in Seq(Text!Chars) /\ u \in Seq(Text!Chars) /\ Len(s) = L + 1 BY ONLY <1>7
    <3>2. Has(text, i, s \o u) BY <1>5
    <3> HIDE DEF s, u
    <3>3. Has(text, i, s) /\ Has(text, i + Len(s), u) BY ONLY <1>1, <3>1, <3>2, HasBoth
    <3>4. Has(text, i, s) /\ Has(text, i + (L + 1), u) BY ONLY <3>1, <3>3
    <3> QED BY <3>4 DEF s, u
  <2>2. Has(text, i, <<Text!Quote>>) /\ Has(text, i + 1, C[n])
    BY <1>1, <1>6, <1>7, <2>1, HasBoth
  <2> QED BY <2>1, <2>2
<1>9. /\ text[i + 1] = Text!Quote /\ text[(i + (L + 1)) + 1] = Text!Quote
      /\ i + L + 2 <= Len(text)
  BY <1>1, <1>6, <1>7, <1>8 DEF Has
<1>10. Is(read[i + 1], i + 1, past, row, Nil, TRUE)
  <2>1. i \in 0..(Len(text) - 1) BY <1>1, <1>6, <1>9
  <2> QED BY <1>9, <2>1, ReadSteps
<1> DEFINE pos(k) == (i + 1) + Len(C[k])
           At(k) == /\ Is(read[pos(k)], pos(k), past, row, SubSeq(f, 1, k), TRUE)
                    /\ \A m \in (i + 1)..pos(k) : read[m].quoted
           T == {k \in 0..n : At(k)}
<1>b. /\ SubSeq(f, 1, 0) = Nil /\ SubSeq(f, 1, n) = f
      /\ \A k \in 0..(n - 1) : SubSeq(f, 1, k + 1) = Append(SubSeq(f, 1, k), f[k + 1])
  <2>1. 0 \in 0..n /\ \A k \in 0..(n - 1) : k \in 0..n /\ k < n BY <1>1
  <2> QED BY <2>1, Prefixes
<1>c. Has(text, i + 1, Text!Concatenated(parts)) BY <1>3, <1>8 DEF Text!Concatenated, C
<1> HIDE DEF n, L
<1>11. 0 \in T
  <2>1. SubSeq(f, 1, 0) = Nil /\ Len(C[0]) = 0 /\ pos(0) = i + 1
    BY <1>1, <1>4, <1>b DEF Nil
  <2>2. read[i + 1].quoted BY <1>10 DEF Is
  <2>3. \A m \in (i + 1)..(i + 1) : m = i + 1 BY <1>1
  <2>4. At(0) BY <1>10, <2>1, <2>2, <2>3
  <2>5. 0 \in 0..n BY <1>1
  <2> HIDE DEF At
  <2> QED BY <2>4, <2>5
<1>12. \A k \in 0..(n - 1) : k \in T => k + 1 \in T
  <2> SUFFICES ASSUME NEW k \in 0..(n - 1), At(k) PROVE At(k + 1)
    <3>1. \A k \in 0..(n - 1) : k + 1 \in 0..n BY <1>1
    <3> HIDE DEF At
    <3> QED BY <3>1
  <2>1. k + 1 \in 1..n /\ k \in 0..n /\ k + 1 \in 0..n /\ (k + 1) - 1 = k /\ k + 1 > 0 BY <1>1
  <2> DEFINE j == pos(k)
             e == parts[k + 1]
  <2>a. j = (i + 1) + Len(C[k]) OBVIOUS
  <2>6. Is(read[j], j, past, row, SubSeq(f, 1, k), TRUE) /\ \A m \in (i + 1)..j : read[m].quoted
    OBVIOUS
  <2>4. Has(text, j, e)
    <3>2. i + 1 \in Nat /\ k + 1 \in 0..Len(parts) BY <1>1, <1>3, <2>1
    <3>3. Has(text, (i + 1) + Len(Text!Concatenations(parts)[(k + 1) - 1]), parts[k + 1])
      BY <1>1, <1>3, <1>c, <2>1, <3>2, HasParts
    <3> QED BY <2>1, <3>3 DEF C
  <2>b. e = IF f[k + 1] = Text!Quote THEN <<Text!Quote, Text!Quote>> ELSE <<f[k + 1]>>
    BY <1>3, <2>1
  <2>c. e \in Seq(Text!Chars)
    <3>1. Len(parts) = n /\ parts \in Seq(Seq(Text!Chars)) BY <1>3
    <3> QED BY <2>1, <3>1
  <2>d. C[k + 1] = C[k] \o e BY <1>4, <2>1
  <2> HIDE DEF e
  <2>2. C[k] \in Seq(Text!Chars) /\ C[k + 1] \in Seq(Text!Chars)
    BY <1>4, <2>1
  <2>3. j \in Nat /\ pos(k + 1) = j + Len(e) /\ Len(e) \in Nat /\ j >= i + 1
    <3>1. Len(C[k]) \in Nat /\ Len(e) \in Nat /\ Len(C[k + 1]) = Len(C[k]) + Len(e) BY <2>2, <2>c, <2>d
    <3>2. pos(k + 1) = (i + 1) + Len(C[k + 1]) OBVIOUS
    <3> HIDE DEF pos
    <3>3. j = (i + 1) + Len(C[k]) BY <2>a
    <3> HIDE DEF j
    <3>4. i \in Nat BY <1>1
    <3> HIDE DEF At, T
    <3> DEFINE a == Len(C[k])
               b == Len(e)
               c == Len(C[k + 1])
               d == pos(k + 1)
    <3>7. a \in Nat /\ b \in Nat /\ c = a + b /\ d = (i + 1) + c /\ j = (i + 1) + a
      BY <3>1, <3>2, <3>3
    <3> HIDE DEF a, b, c, d
    <3>5. j \in Nat /\ j >= i + 1 BY <3>4, <3>7
    <3>8. d = j + b BY <3>4, <3>7
    <3>6. pos(k + 1) = j + Len(e) BY <3>8 DEF d, b
    <3> QED BY <3>1, <3>5, <3>6
  <2>5. SubSeq(f, 1, k + 1) = Append(SubSeq(f, 1, k), f[k + 1]) BY <1>b
  <2> HIDE DEF j
  <2>7. CASE f[k + 1] = Text!Quote
    <3>1. e = <<Text!Quote, Text!Quote>> BY <2>b, <2>7
    <3>2. /\ Len(e) = 2 /\ text[j + 1] = Text!Quote /\ text[(j + 1) + 1] = Text!Quote /\ j + 2 <= Len(text)
      <4>1. Len(e) = 2 /\ e[1] = Text!Quote /\ e[2] = Text!Quote BY <3>1
      <4>2. 1 \in 1..Len(e) /\ 2 \in 1..Len(e) /\ j + 2 = (j + 1) + 1 BY <2>3, <4>1
      <4> QED BY <2>4, <4>1, <4>2 DEF Has
    <3>3. j \in 0..(Len(text) - 1) /\ Text!Follows(text, j + 1, Text!Quote)
      BY <1>1, <2>3, <3>2 DEF Text!Follows
    <3>4. read[j + 1].quoted
          /\ Is(read[j + 2], j + 2, past, row, Append(SubSeq(f, 1, k), Text!Quote), TRUE)
      BY <2>6, <3>2, <3>3, ReadSteps
    <3>5. read[j + 2].quoted BY <3>4 DEF Is
    <3>6. \A m \in (i + 1)..(j + 2) : m \in (i + 1)..j \/ m = j + 1 \/ m = j + 2 BY <1>1, <2>3
    <3>7. pos(k + 1) = j + 2 BY <2>3, <3>2
    <3> QED BY <2>5, <2>6, <2>7, <3>4, <3>5, <3>6, <3>7
  <2>8. CASE f[k + 1] # Text!Quote
    <3>1. e = <<f[k + 1]>> BY <2>b, <2>8
    <3>2. /\ Len(e) = 1 /\ text[j + 1] = f[k + 1] /\ j + 1 <= Len(text)
      <4>1. Len(e) = 1 /\ e[1] = f[k + 1] BY <3>1
      <4>2. 1 \in 1..Len(e) BY <4>1
      <4> QED BY <2>4, <4>1, <4>2 DEF Has
    <3>3. j \in 0..(Len(text) - 1) BY <1>1, <2>3, <3>2
    <3>4. Is(read[j + 1], j + 1, past, row, Append(SubSeq(f, 1, k), f[k + 1]), TRUE)
      BY <2>6, <2>8, <3>2, <3>3, ReadSteps
    <3>5. read[j + 1].quoted BY <3>4 DEF Is
    <3>6. \A m \in (i + 1)..(j + 1) : m \in (i + 1)..j \/ m = j + 1 BY <1>1, <2>3
    <3>7. pos(k + 1) = j + 1 BY <2>3, <3>2
    <3> QED BY <2>5, <2>6, <3>4, <3>5, <3>6, <3>7
  <2> QED BY <2>7, <2>8
<1>13. \A k \in 0..n : k \in T
  <2> HIDE DEF T
  <2> QED BY <1>1, <1>11, <1>12, UpTo
<1>14. At(n)
  <2>1. n \in 0..n BY <1>1
  <2> HIDE DEF At
  <2> QED BY <1>13, <2>1
<1> DEFINE j == i + (L + 1)
           W == Len(Text!Quoted(f))
<1>d. W = L + 2 BY <1>7
<1>16. pos(n) = j /\ j \in 0..(Len(text) - 1) /\ j + 1 = i + W /\ j = i + W - 1
  <2>1. pos(n) = (i + 1) + L BY DEF L
  <2>2. (i + 1) + L = j BY <1>1, <1>6
  <2>3. i + L + 2 <= Len(text) BY <1>9
  <2>4. j = i + (L + 1) OBVIOUS
  <2>5. L \in Nat BY <1>6
  <2> HIDE DEF W, j, pos
  <2> QED BY <1>1, <1>d, <2>1, <2>2, <2>3, <2>4, <2>5
<1>18. Is(read[j], j, past, row, f, TRUE) /\ \A m \in (i + 1)..j : read[m].quoted
  BY <1>14, <1>16, <1>b
<1>19. text[j + 1] = Text!Quote BY <1>9
<1> HIDE DEF j
<1>17. ~Text!Follows(text, j + 1, Text!Quote)
  <2>1. After(text, j + 1) BY <1>16
  <2> QED BY <2>1 DEF Text!Follows, After
<1>20. Is(read[j + 1], j + 1, past, row, f, FALSE)
  BY <1>16, <1>17, <1>18, <1>19, ReadSteps
<1> QED BY <1>16, <1>18, <1>20

-----------------------------------------------------------------------------
\* How a field may be written.
Written(e, f) ==
  /\ f \in Seq(Text!Chars)
  /\ e = Text!Quoted(f) \/ (e = f /\ \A k \in 1..Len(f) : f[k] = "x")

\* In a field that is not quoted no quote comes next.
Calm(text, read, m) == ~read[m].quoted /\ read[m].field # Nil => After(text, m)

AllCalm(text, read, i, j) == \A m \in i..j : Calm(text, read, m)

LEMMA EscapedText ==
  ASSUME NEW f \in Seq(Text!Chars)
  PROVE  Text!Escaped(f) \in Seq(Seq(Text!Chars)) /\ Len(Text!Escaped(f)) = Len(f)
<1>2. Text!Quote \in Text!Chars BY DEF Text!Chars
<1>3. \A k \in 1..Len(f) : f[k] \in Text!Chars OBVIOUS
<1>4. \A c \in Text!Chars : <<c>> \in Seq(Text!Chars) /\ <<c, c>> \in Seq(Text!Chars) OBVIOUS
<1>5. \A k \in 1..Len(f) : (IF f[k] = Text!Quote THEN <<Text!Quote, Text!Quote>> ELSE <<f[k]>>) \in Seq(Text!Chars)
  BY <1>2, <1>3, <1>4
<1> QED BY <1>5 DEF Text!Escaped

LEMMA ConcatenatedText ==
  ASSUME NEW D, NEW parts \in Seq(Seq(D))
  PROVE  Text!Concatenated(parts) \in Seq(D)
<1>1. Len(parts) \in 0..Len(parts) OBVIOUS
<1> QED BY <1>1, Concatenating DEF Text!Concatenated

LEMMA QuotedText ==
  ASSUME NEW f \in Seq(Text!Chars)
  PROVE  /\ Text!Quoted(f) \in Seq(Text!Chars) /\ Len(Text!Quoted(f)) > 0
         /\ Text!Quoted(f)[1] = Text!Quote
<1> DEFINE c == Text!Concatenated(Text!Escaped(f))
<1>1. c \in Seq(Text!Chars) BY EscapedText, ConcatenatedText
<1>2. Text!Quote \in Text!Chars BY DEF Text!Chars
<1>3. Text!Quoted(f) = <<Text!Quote>> \o c \o <<Text!Quote>> BY DEF Text!Quoted
<1> HIDE DEF c
<1>4. <<Text!Quote>> \o c \in Seq(Text!Chars) /\ Len(<<Text!Quote>> \o c) > 0 /\ (<<Text!Quote>> \o c)[1] = Text!Quote
  BY <1>1, <1>2
<1> QED BY <1>2, <1>3, <1>4

LEMMA WrittenText ==
  ASSUME NEW e, NEW f, Written(e, f)
  PROVE  /\ e \in Seq(Text!Chars) /\ f \in Seq(Text!Chars)
         /\ Len(e) > 0 => e[1] # Text!LF
<1>1. CASE e = Text!Quoted(f)
  BY <1>1, QuotedText DEF Written, Text!Quote, Text!LF
<1>2. CASE e = f /\ \A k \in 1..Len(f) : f[k] = "x"
  <2>1. Len(e) > 0 => 1 \in 1..Len(f) BY <1>2 DEF Written
  <2> QED BY <1>2, <2>1 DEF Written, Text!LF
<1> QED BY <1>1, <1>2 DEF Written

\* A field is read as it was.
LEMMA FieldRead ==
  ASSUME NEW text, NEW read, Runs(text, read), NEW i \in 0..Len(text), NEW past, NEW row,
         Is(read[i], i, past, row, Nil, FALSE),
         NEW e, NEW f, Written(e, f), Has(text, i, e), After(text, i + Len(e))
  PROVE  /\ Is(read[i + Len(e)], i + Len(e), past, row, f, FALSE)
         /\ AllCalm(text, read, i, i + Len(e))
<1>1. f \in Seq(Text!Chars) /\ e \in Seq(Text!Chars) BY WrittenText
<1>2. Len(e) \in Nat /\ i \in Nat BY <1>1
<1>3. CASE e = Text!Quoted(f)
  <2>1. /\ Is(read[i + Len(e)], i + Len(e), past, row, f, FALSE)
        /\ \A m \in (i + 1)..(i + Len(e) - 1) : read[m].quoted
    BY <1>1, <1>3, QuotedRead
  <2>2. read[i].field = Nil BY DEF Is
  <2>3. \A m \in i..(i + Len(e)) : m = i \/ m \in (i + 1)..(i + Len(e) - 1) \/ m = i + Len(e) BY <1>2
  <2>4. ASSUME NEW m \in i..(i + Len(e)) PROVE Calm(text, read, m)
    <3>1. CASE m = i BY <2>2, <3>1 DEF Calm
    <3>2. CASE m \in (i + 1)..(i + Len(e) - 1) BY <2>1, <3>2 DEF Calm
    <3>3. CASE m = i + Len(e) BY <3>3 DEF Calm
    <3> QED BY <2>3, <3>1, <3>2, <3>3
  <2> QED BY <2>1, <2>4 DEF AllCalm
<1>4. CASE e = f /\ \A k \in 1..Len(f) : f[k] = "x"
  <2>1. /\ Is(read[i + Len(e)], i + Len(e), past, row, f, FALSE)
        /\ \A m \in i..(i + Len(e)) : After(text, m)
    BY <1>1, <1>4, PlainRead
  <2> QED BY <2>1 DEF AllCalm, Calm
<1> QED BY <1>3, <1>4 DEF Written

\* So is an end of a line.
LEMMA EolRead ==
  ASSUME NEW text, NEW read, Runs(text, read), NEW i \in 0..Len(text), NEW past, NEW row, NEW field,
         Is(read[i], i, past, row, field, FALSE),
         NEW eol \in {<<Text!LF>>, <<Text!CR>>, <<Text!CR, Text!LF>>},
         Has(text, i, eol), eol = <<Text!CR>> => ~Text!Follows(text, i + 1, Text!LF)
  PROVE  /\ Is(read[i + Len(eol)], i + Len(eol), Append(past, Append(row, field)), Nil, Nil, FALSE)
         /\ AllCalm(text, read, i + 1, i + Len(eol))
<1> DEFINE all == Append(past, Append(row, field))
<1>1. i \in Nat /\ Len(text) \in Nat BY DEF Runs
<1>2. ASSUME NEW m \in Nat, read[m].field = Nil PROVE Calm(text, read, m) BY <1>2 DEF Calm
<1>3. CASE eol = <<Text!LF>>
  <2>1. Len(eol) = 1 /\ eol[1] = Text!LF BY <1>3
  <2>2. text[i + 1] = Text!LF /\ i + 1 <= Len(text) BY <2>1 DEF Has
  <2>3. i \in 0..(Len(text) - 1) BY <1>1, <2>2
  <2>4. Is(read[i + 1], i + 1, all, Nil, Nil, FALSE) BY <2>2, <2>3, ReadSteps
  <2>5. Calm(text, read, i + 1) BY <1>1, <1>2, <2>4 DEF Is
  <2>6. \A m \in (i + 1)..(i + 1) : m = i + 1 BY <1>1
  <2> QED BY <2>1, <2>4, <2>5, <2>6 DEF AllCalm
<1>4. CASE eol = <<Text!CR>>
  <2>1. Len(eol) = 1 /\ eol[1] = Text!CR BY <1>4
  <2>2. text[i + 1] = Text!CR /\ i + 1 <= Len(text) BY <2>1 DEF Has
  <2>3. i \in 0..(Len(text) - 1) BY <1>1, <2>2
  <2>4. Is(read[i + 1], i + 1, all, Nil, Nil, FALSE) BY <1>4, <2>2, <2>3, ReadSteps
  <2>5. Calm(text, read, i + 1) BY <1>1, <1>2, <2>4 DEF Is
  <2>6. \A m \in (i + 1)..(i + 1) : m = i + 1 BY <1>1
  <2> QED BY <2>1, <2>4, <2>5, <2>6 DEF AllCalm
<1>5. CASE eol = <<Text!CR, Text!LF>>
  <2>1. Len(eol) = 2 /\ eol[1] = Text!CR /\ eol[2] = Text!LF BY <1>5
  <2>2. text[i + 1] = Text!CR /\ text[i + 2] = Text!LF /\ i + 2 <= Len(text) BY <2>1 DEF Has
  <2>3. i \in 0..(Len(text) - 1) /\ (i + 1) + 1 = i + 2 /\ i + 1 < Len(text) BY <1>1, <2>2
  <2>4. Text!Follows(text, i + 1, Text!LF) BY <2>2, <2>3 DEF Text!Follows
  <2>5. read[i + 1].field = Nil /\ Is(read[i + 2], i + 2, all, Nil, Nil, FALSE)
    BY <2>2, <2>3, <2>4, ReadSteps
  <2>6. Calm(text, read, i + 1) /\ Calm(text, read, i + 2) BY <1>1, <1>2, <2>5 DEF Is
  <2>7. \A m \in (i + 1)..(i + 2) : m = i + 1 \/ m = i + 2 BY <1>1
  <2> QED BY <2>1, <2>5, <2>6, <2>7 DEF AllCalm
<1> QED BY <1>3, <1>4, <1>5

-----------------------------------------------------------------------------
\* Texts and what separates them, as parts.
JoinParts(texts, sep) == [i \in 1..Len(texts) |-> IF i = 1 THEN texts[i] ELSE sep \o texts[i]]

LEMMA JoinedText ==
  ASSUME NEW D, NEW texts \in Seq(Seq(D)), NEW sep \in Seq(D)
  PROVE  /\ JoinParts(texts, sep) \in Seq(Seq(D)) /\ Len(JoinParts(texts, sep)) = Len(texts)
         /\ \A k \in 1..Len(texts) :
              JoinParts(texts, sep)[k] = IF k = 1 THEN texts[k] ELSE sep \o texts[k]
         /\ Text!Joined(texts, sep) = Text!Concatenated(JoinParts(texts, sep))
         /\ Text!Joined(texts, sep) \in Seq(D)
<1>1. \A k \in 1..Len(texts) : texts[k] \in Seq(D) OBVIOUS
<1>2. \A s \in Seq(D) : sep \o s \in Seq(D) OBVIOUS
<1>3. \A k \in 1..Len(texts) : (IF k = 1 THEN texts[k] ELSE sep \o texts[k]) \in Seq(D)
  BY <1>1, <1>2
<1>4. /\ JoinParts(texts, sep) \in Seq(Seq(D)) /\ Len(JoinParts(texts, sep)) = Len(texts)
      /\ \A k \in 1..Len(texts) :
           JoinParts(texts, sep)[k] = IF k = 1 THEN texts[k] ELSE sep \o texts[k]
  BY <1>3 DEF JoinParts
<1>5. Text!Joined(texts, sep) = Text!Concatenated(JoinParts(texts, sep))
  BY DEF Text!Joined, JoinParts
<1> QED BY <1>4, <1>5, ConcatenatedText

\* Where joined texts are: text k after at[k] characters.
Places(text, i, texts, sep, at) ==
  /\ at \in [1..Len(texts) -> Nat] /\ at[1] = i
  /\ \A k \in 1..Len(texts) : Has(text, at[k], texts[k])
  /\ \A k \in 1..(Len(texts) - 1) :
       Has(text, at[k] + Len(texts[k]), sep) /\ at[k + 1] = at[k] + Len(texts[k]) + Len(sep)
  /\ at[Len(texts)] + Len(texts[Len(texts)]) = i + Len(Text!Joined(texts, sep))

LEMMA JoinedPlaces ==
  ASSUME NEW D, NEW text \in Seq(D), NEW i \in Nat, NEW texts \in Seq(Seq(D)), NEW sep \in Seq(D),
         Len(texts) > 0, Has(text, i, Text!Joined(texts, sep))
  PROVE  \E at : Places(text, i, texts, sep, at)
<1> DEFINE parts == JoinParts(texts, sep)
           C == Text!Concatenations(parts)
           n == Len(texts)
           at == [k \in 1..n |-> i + Len(C[k - 1]) + (IF k = 1 THEN 0 ELSE Len(sep))]
<1>1. /\ parts \in Seq(Seq(D)) /\ Len(parts) = n
      /\ \A k \in 1..n : parts[k] = IF k = 1 THEN texts[k] ELSE sep \o texts[k]
      /\ Text!Joined(texts, sep) = Text!Concatenated(parts)
  BY JoinedText
<1>2. n \in Nat /\ n > 0 /\ 1 \in 1..n /\ n \in 1..n /\ Len(sep) \in Nat OBVIOUS
<1>3. \A k \in 1..n : texts[k] \in Seq(D) /\ Len(texts[k]) \in Nat OBVIOUS
<1> HIDE DEF parts
<1>4. /\ C \in [0..n -> Seq(D)] /\ C[0] = <<>>
      /\ \A k \in 1..n : C[k] = C[k - 1] \o parts[k]
  BY <1>1, Concatenating
<1>5. \A k \in 0..n : C[k] \in Seq(D) /\ Len(C[k]) \in Nat
  <2> HIDE DEF C
  <2>1. \A k \in 0..n : C[k] \in Seq(D) BY <1>4
  <2>2. \A s \in Seq(D) : Len(s) \in Nat OBVIOUS
  <2> QED BY <2>1, <2>2
<1>6. \A k \in 1..n : Has(text, i + Len(C[k - 1]), parts[k])
  <2>1. Has(text, i, Text!Concatenated(parts)) BY <1>1
  <2>2. \A k \in 1..n : k \in 0..Len(parts) /\ k > 0 BY <1>1, <1>2
  <2> QED BY <1>1, <2>1, <2>2, HasParts
<1>7. C[n] = Text!Joined(texts, sep) BY <1>1 DEF Text!Concatenated
<1> HIDE DEF C, n, at
<1>8. \A k \in 1..n : k - 1 \in 0..n /\ k \in Nat BY <1>2
<1>9. ASSUME NEW k \in 1..n PROVE at[k] \in Nat /\ at[k] + Len(texts[k]) = i + Len(C[k])
  <2> DEFINE a == Len(C[k - 1])
             b == Len(texts[k])
             c == Len(C[k])
             l == Len(sep)
             d == IF k = 1 THEN 0 ELSE l
             p == Len(parts[k])
  <2>1. a \in Nat /\ b \in Nat /\ l \in Nat BY <1>2, <1>3, <1>5, <1>8
  <2>2. c = a + p
    <3>1. parts[k] \in Seq(D) BY <1>1
    <3>2. C[k - 1] \in Seq(D) /\ C[k] = C[k - 1] \o parts[k] BY <1>4, <1>5, <1>8
    <3> QED BY <3>1, <3>2
  <2>3. p = d + b
    <3>1. CASE k = 1
      <4>1. parts[k] = texts[k] BY <1>1, <3>1
      <4> QED BY <1>3, <3>1, <4>1
    <3>2. CASE k # 1
      <4>1. parts[k] = sep \o texts[k] BY <1>1, <3>2
      <4> QED BY <1>3, <3>2, <4>1
    <3> QED BY <3>1, <3>2
  <2>4. at[k] = i + a + d BY DEF at
  <2>5. d \in Nat BY <2>1
  <2> HIDE DEF a, b, c, d, p
  <2>6. at[k] \in Nat /\ at[k] + b = i + c BY <2>1, <2>2, <2>3, <2>4, <2>5
  <2> QED BY <2>6 DEF b, c
<1>10. at \in [1..n -> Nat] BY <1>9 DEF at
<1>11. at[1] = i
  <2>1. Len(C[1 - 1]) = 0 BY <1>4
  <2>2. at[1] = i + Len(C[1 - 1]) + 0 BY <1>2 DEF at
  <2> QED BY <2>1, <2>2
<1>12. ASSUME NEW k \in 1..n, k # 1
       PROVE  /\ Has(text, i + Len(C[k - 1]), sep) /\ Has(text, at[k], texts[k])
              /\ at[k] = i + Len(C[k - 1]) + Len(sep)
  <2>1. parts[k] = sep \o texts[k] /\ texts[k] \in Seq(D) BY <1>1, <1>3, <1>12
  <2>2. Has(text, i + Len(C[k - 1]), sep \o texts[k]) BY <1>6, <2>1
  <2>3. at[k] = i + Len(C[k - 1]) + Len(sep) BY <1>12 DEF at
  <2>4. i + Len(C[k - 1]) \in Nat BY <1>5, <1>8
  <2> HIDE DEF at
  <2> QED BY <2>1, <2>2, <2>3, <2>4, HasBoth
<1>13. ASSUME NEW k \in 1..n PROVE Has(text, at[k], texts[k])
  <2>1. CASE k = 1
    <3>1. parts[1] = texts[1] /\ Has(text, i + Len(C[0]), parts[1]) BY <1>1, <1>2, <1>6
    <3>2. i + Len(C[0]) = i BY <1>4
    <3> QED BY <1>11, <2>1, <3>1, <3>2
  <2> QED BY <1>12, <2>1
<1>14. ASSUME NEW k \in 1..(n - 1)
       PROVE  Has(text, at[k] + Len(texts[k]), sep) /\ at[k + 1] = at[k] + Len(texts[k]) + Len(sep)
  <2>1. k \in 1..n /\ k + 1 \in 1..n /\ k + 1 # 1 /\ (k + 1) - 1 = k BY <1>2
  <2>2. /\ Has(text, i + Len(C[(k + 1) - 1]), sep)
        /\ at[k + 1] = i + Len(C[(k + 1) - 1]) + Len(sep)
    BY <1>12, <2>1
  <2>3. at[k] + Len(texts[k]) = i + Len(C[k]) BY <1>9, <2>1
  <2> QED BY <2>1, <2>2, <2>3
<1>15. at[n] + Len(texts[n]) = i + Len(Text!Joined(texts, sep)) BY <1>2, <1>7, <1>9
<1> HIDE DEF at
<1>16. Places(text, i, texts, sep, at)
  BY <1>10, <1>11, <1>13, <1>14, <1>15 DEF Places, n
<1> QED BY <1>16

\* A line is read field by field.
LEMMA LineRead ==
  ASSUME NEW text, NEW read, Runs(text, read), NEW i \in 0..Len(text), NEW past,
         Is(read[i], i, past, Nil, Nil, FALSE),
         NEW es \in Seq(Seq(Text!Chars)), NEW fs \in Seq(Seq(Text!Chars)), Len(es) > 0, Len(fs) = Len(es),
         \A k \in 1..Len(es) : Written(es[k], fs[k]),
         NEW line, line = Text!Joined(es, <<Text!Comma>>), Has(text, i, line), After(text, i + Len(line))
  PROVE  /\ Is(read[i + Len(line)], i + Len(line), past, SubSeq(fs, 1, Len(fs) - 1), fs[Len(fs)], FALSE)
         /\ AllCalm(text, read, i, i + Len(line))
<1> DEFINE n == Len(es)
           comma == <<Text!Comma>>
<1>1. n \in Nat /\ n > 0 /\ n = Len(fs) /\ i \in Nat /\ Len(text) \in Nat /\ text \in Seq(Text!Chars)
      /\ n - 1 \in Nat /\ 0 \in 0..(n - 1) /\ n - 1 \in 0..(n - 1)
  BY DEF Runs
<1>2. comma \in Seq(Text!Chars) /\ Len(comma) = 1 /\ comma[1] = Text!Comma BY DEF Text!Chars
<1>3. PICK at : Places(text, i, es, comma, at)
  <2> HIDE DEF n, comma
  <2>1. Has(text, i, Text!Joined(es, comma)) BY DEF comma
  <2> QED BY <1>1, <1>2, <2>1, JoinedPlaces
<1>4. \A k \in 1..n : Written(es[k], fs[k]) /\ Has(text, at[k], es[k]) /\ Len(es[k]) \in Nat /\ at[k] \in Nat
  <2>1. \A k \in 1..n : Written(es[k], fs[k]) /\ es[k] \in Seq(Text!Chars) OBVIOUS
  <2>2. \A s \in Seq(Text!Chars) : Len(s) \in Nat OBVIOUS
  <2>3. \A k \in 1..n : Has(text, at[k], es[k]) /\ at[k] \in Nat BY <1>3 DEF Places
  <2> QED BY <2>1, <2>2, <2>3
<1>5. \A k \in 1..(n - 1) : /\ Has(text, at[k] + Len(es[k]), comma)
                            /\ at[k + 1] = at[k] + Len(es[k]) + 1
  BY <1>2, <1>3 DEF Places
<1>6. at[1] = i /\ at[n] + Len(es[n]) = i + Len(line) BY <1>3 DEF Places
<1>7. /\ SubSeq(fs, 1, 0) = Nil
      /\ \A k \in 0..(n - 1) : SubSeq(fs, 1, k + 1) = Append(SubSeq(fs, 1, k), fs[k + 1])
  <2>1. 0 \in 0..n /\ \A k \in 0..(n - 1) : k \in 0..n /\ k < n BY <1>1
  <2> QED BY <1>1, <2>1, Prefixes
<1>8. After(text, i + Len(line)) /\ n = Len(fs) BY <1>1
<1> HIDE DEF n, comma
<1>9. ASSUME NEW k \in 1..(n - 1)
      PROVE  text[at[k] + Len(es[k]) + 1] = Text!Comma /\ at[k] + Len(es[k]) < Len(text)
  <2> DEFINE j == at[k] + Len(es[k])
  <2>1. Has(text, j, comma) BY <1>5
  <2>2. k \in 1..n BY <1>1
  <2>3. j \in Nat BY <1>4, <2>2
  <2> HIDE DEF j
  <2>4. j + 1 <= Len(text) /\ text[j + 1] = comma[1]
    <3>1. 1 \in 1..Len(comma) BY <1>2
    <3> QED BY ONLY <1>2, <2>1, <3>1 DEF Has
  <2>5. j < Len(text) BY ONLY <1>1, <2>3, <2>4
  <2> QED BY ONLY <1>2, <2>4, <2>5 DEF j
<1>10. ASSUME NEW k \in 1..n PROVE After(text, at[k] + Len(es[k]))
  <2>1. CASE k = n BY <1>6, <1>8, <2>1
  <2>2. CASE k # n
    <3>1. k \in 1..(n - 1) BY <1>1, <2>2
    <3> QED BY <1>9, <3>1 DEF After, Text!Comma, Text!Quote
  <2> QED BY <2>1, <2>2
<1> DEFINE end(k) == at[k] + Len(es[k])
           At(k) == /\ Is(read[end(k)], end(k), past, SubSeq(fs, 1, k - 1), fs[k], FALSE)
                    /\ AllCalm(text, read, i, end(k))
<1>11. ASSUME NEW k \in 1..n, Is(read[at[k]], at[k], past, SubSeq(fs, 1, k - 1), Nil, FALSE)
       PROVE  /\ Is(read[end(k)], end(k), past, SubSeq(fs, 1, k - 1), fs[k], FALSE)
              /\ AllCalm(text, read, at[k], end(k))
  <2>1. Written(es[k], fs[k]) /\ Has(text, at[k], es[k]) /\ After(text, at[k] + Len(es[k]))
    BY <1>4, <1>10
  <2>2. at[k] \in 0..Len(text)
    <3>1. at[k] \in Nat /\ Len(es[k]) \in Nat BY <1>4
    <3>2. at[k] + Len(es[k]) <= Len(text) BY <2>1 DEF Has
    <3> QED BY <1>1, <3>1, <3>2
  <2> QED BY <1>11, <2>1, <2>2, FieldRead
<1>12. At(1)
  <2>1. 1 \in 1..n BY <1>1
  <2>2. SubSeq(fs, 1, 1 - 1) = Nil BY <1>7
  <2>3. Is(read[at[1]], at[1], past, SubSeq(fs, 1, 1 - 1), Nil, FALSE) BY <1>6, <2>2
  <2> QED BY <1>6, <1>11, <2>1, <2>3
<1>13. ASSUME NEW k \in 1..(n - 1), At(k) PROVE At(k + 1)
  <2> DEFINE j == end(k)
  <2>1. k \in 1..n /\ k + 1 \in 1..n /\ (k + 1) - 1 = k /\ k - 1 \in 0..(n - 1) /\ (k - 1) + 1 = k BY <1>1
  <2>2. text[j + 1] = Text!Comma /\ j < Len(text) /\ at[k + 1] = j + 1 BY <1>5, <1>9
  <2>3. j \in Nat
    <3>1. at[k] \in Nat /\ Len(es[k]) \in Nat BY ONLY <1>4, <2>1
    <3> QED BY ONLY <3>1 DEF j, end
  <2>4. Is(read[j], j, past, SubSeq(fs, 1, k - 1), fs[k], FALSE) /\ AllCalm(text, read, i, j) BY <1>13
  <2> HIDE DEF j
  <2>5. j \in 0..(Len(text) - 1) BY <1>1, <2>2, <2>3
  <2>6. Is(read[j + 1], j + 1, past, Append(SubSeq(fs, 1, k - 1), fs[k]), Nil, FALSE)
    BY <2>2, <2>4, <2>5, ReadSteps
  <2>7. SubSeq(fs, 1, k) = Append(SubSeq(fs, 1, k - 1), fs[k]) BY <1>7, <2>1
  <2>8. /\ Is(read[end(k + 1)], end(k + 1), past, SubSeq(fs, 1, (k + 1) - 1), fs[k + 1], FALSE)
        /\ AllCalm(text, read, j + 1, end(k + 1))
    BY <1>11, <2>1, <2>2, <2>6, <2>7
  <2>9. \A m \in i..end(k + 1) : m \in i..j \/ m \in (j + 1)..end(k + 1)
    <3>1. end(k + 1) \in Nat
      <4>1. at[k + 1] \in Nat /\ Len(es[k + 1]) \in Nat BY ONLY <1>4, <2>1
      <4> QED BY ONLY <4>1 DEF end
    <3> HIDE DEF end
    <3> QED BY <1>1, <2>3, <3>1
  <2> HIDE DEF end
  <2>10. AllCalm(text, read, i, end(k + 1)) BY <2>4, <2>8, <2>9 DEF AllCalm
  <2> QED BY <2>8, <2>10
<1> HIDE DEF At
<1> DEFINE S == {k \in 0..(n - 1) : At(k + 1)}
<1>14. 0 \in S BY <1>1, <1>12
<1>15. \A k \in 0..((n - 1) - 1) : k \in S => k + 1 \in S
  <2> SUFFICES ASSUME NEW k \in 0..((n - 1) - 1), At(k + 1) PROVE k + 1 \in S
    OBVIOUS
  <2>1. k + 1 \in 1..(n - 1) /\ k + 1 \in 0..(n - 1) BY <1>1
  <2>2. At((k + 1) + 1) BY <1>13, <2>1
  <2> QED BY <2>1, <2>2
<1> HIDE DEF S
<1>16. n - 1 \in S BY <1>1, <1>14, <1>15, UpTo
<1>17. At(n)
  <2>1. At((n - 1) + 1) BY <1>16 DEF S
  <2>2. (n - 1) + 1 = n BY <1>1
  <2> QED BY <2>1, <2>2
<1> QED BY <1>6, <1>8, <1>17 DEF At

Eols == {<<Text!LF>>, <<Text!CR>>, <<Text!CR, Text!LF>>}

LEMMA EolText ==
  ASSUME NEW eol \in Eols
  PROVE  /\ eol \in Seq(Text!Chars) /\ Len(eol) \in {1, 2} /\ eol[1] \in {Text!LF, Text!CR}
         /\ eol = <<Text!CR>> => Len(eol) = 1
<1>1. Text!LF \in Text!Chars /\ Text!CR \in Text!Chars BY DEF Text!Chars
<1>2. CASE eol = <<Text!LF>> BY <1>1, <1>2
<1>3. CASE eol = <<Text!CR>> BY <1>1, <1>3
<1>4. CASE eol = <<Text!CR, Text!LF>> BY <1>1, <1>4
<1> QED BY <1>2, <1>3, <1>4 DEF Eols

LEMMA EolAfter ==
  ASSUME NEW text, NEW j \in Nat, NEW eol \in Eols, Has(text, j, eol)
  PROVE  After(text, j) /\ j + Len(eol) <= Len(text)
<1>1. Len(eol) \in {1, 2} /\ eol[1] \in {Text!LF, Text!CR} BY EolText
<1>2. 1 \in 1..Len(eol) BY <1>1
<1>3. text[j + 1] = eol[1] /\ j + Len(eol) <= Len(text) BY <1>2 DEF Has
<1> QED BY <1>1, <1>3 DEF After, Text!LF, Text!CR, Text!Quote

\* A line of several fields does not start with a line feed.
LEMMA LineStarts ==
  ASSUME NEW text \in Seq(Text!Chars), NEW i \in Nat,
         NEW es \in Seq(Seq(Text!Chars)), NEW fs \in Seq(Seq(Text!Chars)), Len(es) > 1,
         \A k \in 1..Len(es) : Written(es[k], fs[k]),
         Has(text, i, Text!Joined(es, <<Text!Comma>>))
  PROVE  ~Text!Follows(text, i, Text!LF)
<1> DEFINE comma == <<Text!Comma>>
<1>1. comma \in Seq(Text!Chars) /\ Len(comma) = 1 /\ comma[1] = Text!Comma BY DEF Text!Chars
<1>2. Has(text, i, Text!Joined(es, comma)) /\ Len(es) > 0 OBVIOUS
<1> HIDE DEF comma
<1>3. PICK at : Places(text, i, es, comma, at) BY <1>1, <1>2, JoinedPlaces
<1>4. 1 \in 1..Len(es) /\ 1 \in 1..(Len(es) - 1) OBVIOUS
<1>5. at[1] = i /\ Has(text, i, es[1]) /\ Has(text, i + Len(es[1]), comma) BY <1>3, <1>4 DEF Places
<1>6. Written(es[1], fs[1]) /\ es[1] \in Seq(Text!Chars) /\ Len(es[1]) \in Nat BY <1>4
<1>7. CASE Len(es[1]) = 0
  <2>1. Has(text, i, comma) BY <1>5, <1>7
  <2>2. text[i + 1] = Text!Comma BY <1>1, <2>1 DEF Has
  <2> QED BY <2>2 DEF Text!Follows, Text!Comma, Text!LF
<1>8. CASE Len(es[1]) > 0
  <2>1. es[1][1] # Text!LF BY <1>6, <1>8, WrittenText
  <2>2. text[i + 1] = es[1][1] BY <1>5, <1>6, <1>8 DEF Has
  <2> QED BY <2>1, <2>2 DEF Text!Follows
<1> QED BY <1>6, <1>7, <1>8

\* A table with a row, and several fields in each.
Tables == {T \in Seq(Seq(Seq(Text!Chars))) : Len(T) > 0 /\ \A r \in 1..Len(T) : Len(T[r]) > 1}

\* The lines of a table, and its fields as they are written.
Lines(T, E, lines) ==
  /\ T \in Tables
  /\ E \in Seq(Seq(Seq(Text!Chars))) /\ Len(E) = Len(T)
  /\ \A r \in 1..Len(T) :
       Len(E[r]) = Len(T[r]) /\ \A k \in 1..Len(T[r]) : Written(E[r][k], T[r][k])
  /\ lines \in Seq(Seq(Text!Chars)) /\ Len(lines) = Len(T)
  /\ \A r \in 1..Len(T) : lines[r] = Text!Joined(E[r], <<Text!Comma>>)

\* What the fields of a row make.
LEMMA AllFields ==
  ASSUME NEW D, NEW s \in Seq(D), Len(s) > 0
  PROVE  Append(SubSeq(s, 1, Len(s) - 1), s[Len(s)]) = s
<1>1. Len(s) - 1 \in 0..Len(s) /\ Len(s) - 1 < Len(s) /\ (Len(s) - 1) + 1 = Len(s) OBVIOUS
<1>2. SubSeq(s, 1, (Len(s) - 1) + 1) = Append(SubSeq(s, 1, Len(s) - 1), s[(Len(s) - 1) + 1])
  BY <1>1, Prefixes
<1>3. SubSeq(s, 1, Len(s)) = s BY Prefixes, <1>1
<1> QED BY <1>1, <1>2, <1>3

\* Before the end of line r, a reader has the rows before it, the fields of r but the last as
\* its row, and the last as its field.
AtLastField(T, text, read, r, j) ==
  /\ Is(read[j], j, SubSeq(T, 1, r - 1), SubSeq(T[r], 1, Len(T[r]) - 1), T[r][Len(T[r])], FALSE)
  /\ AllCalm(text, read, 0, j)

\* A file is read up to its last line.
LEMMA LinesRead ==
  ASSUME NEW T, NEW E, NEW lines, Lines(T, E, lines), NEW eol \in Eols,
         NEW text, NEW read, Runs(text, read), Has(text, 0, Text!Joined(lines, eol)),
         After(text, Len(Text!Joined(lines, eol)))
  PROVE  AtLastField(T, text, read, Len(T), Len(Text!Joined(lines, eol)))
<1> DEFINE n == Len(T)
           comma == <<Text!Comma>>
<1>1. /\ T \in Seq(Seq(Seq(Text!Chars))) /\ Len(T) > 0 /\ \A r \in 1..n : Len(T[r]) > 1
      /\ E \in Seq(Seq(Seq(Text!Chars))) /\ Len(E) = n
      /\ lines \in Seq(Seq(Text!Chars)) /\ Len(lines) = n
  BY DEF Lines, Tables
<1>2. \A r \in 1..n :
        /\ Len(E[r]) = Len(T[r]) /\ \A k \in 1..Len(T[r]) : Written(E[r][k], T[r][k])
        /\ lines[r] = Text!Joined(E[r], comma)
  BY DEF Lines
<1>3. /\ n \in Nat /\ n > 0 /\ Len(text) \in Nat /\ text \in Seq(Text!Chars)
      /\ n - 1 \in Nat /\ 0 \in 0..(n - 1) /\ n - 1 \in 0..(n - 1)
  BY <1>1 DEF Runs
<1>4. \A r \in 1..n : T[r] \in Seq(Seq(Text!Chars)) /\ E[r] \in Seq(Seq(Text!Chars)) /\ lines[r] \in Seq(Text!Chars)
  BY <1>1
<1>5. PICK at : Places(text, 0, lines, eol, at)
  <2>1. eol \in Seq(Text!Chars) BY EolText
  <2> HIDE DEF n
  <2> QED BY <1>1, <1>3, <2>1, JoinedPlaces DEF n
<1>6. \A r \in 1..n : Has(text, at[r], lines[r]) /\ Len(lines[r]) \in Nat /\ at[r] \in Nat
  <2>1. \A s \in Seq(Text!Chars) : Len(s) \in Nat OBVIOUS
  <2>2. \A r \in 1..n : Has(text, at[r], lines[r]) /\ at[r] \in Nat BY <1>1, <1>5 DEF Places
  <2> QED BY <1>4, <2>1, <2>2
<1>7. \A r \in 1..(n - 1) : /\ Has(text, at[r] + Len(lines[r]), eol)
                            /\ at[r + 1] = at[r] + Len(lines[r]) + Len(eol)
  BY <1>1, <1>5 DEF Places
<1> DEFINE L == Len(Text!Joined(lines, eol))
<1>8. at[1] = 0 /\ at[n] + Len(lines[n]) = L
  <2>1. at[n] + Len(lines[n]) = 0 + L BY <1>1, <1>5 DEF Places
  <2>2. at[n] + Len(lines[n]) \in Nat /\ Len(Text!Joined(lines, eol)) \in Nat
    <3>1. n \in 1..n BY <1>3
    <3>2. Text!Joined(lines, eol) \in Seq(Text!Chars) BY <1>1, EolText, JoinedText
    <3> QED BY <1>6, <3>1, <3>2
  <2>3. at[1] = 0 BY <1>5 DEF Places
  <2> QED BY <2>1, <2>2, <2>3
<1>9. /\ SubSeq(T, 1, 0) = Nil
      /\ \A r \in 0..(n - 1) : SubSeq(T, 1, r + 1) = Append(SubSeq(T, 1, r), T[r + 1])
  <2>1. 0 \in 0..n /\ \A r \in 0..(n - 1) : r \in 0..n /\ r < n BY <1>3
  <2> QED BY <1>1, <2>1, Prefixes
<1>10. After(text, L) OBVIOUS
<1> DEFINE end(r) == at[r] + Len(lines[r])
           At(r) == AtLastField(T, text, read, r, end(r))
<1> HIDE DEF n, comma, L
<1>11. ASSUME NEW r \in 1..n PROVE After(text, end(r)) /\ at[r] \in 0..Len(text) /\ end(r) \in 0..Len(text)
  <2>1. Has(text, at[r], lines[r]) /\ at[r] \in Nat /\ Len(lines[r]) \in Nat BY <1>6
  <2>2. at[r] + Len(lines[r]) <= Len(text) BY <2>1 DEF Has
  <2>3. ASSUME r = n PROVE After(text, end(r))
    <3>1. end(r) = L BY <1>8, <2>3
    <3> HIDE DEF end
    <3> QED BY <1>10, <3>1
  <2>4. ASSUME r # n PROVE After(text, end(r))
    <3>1. r \in 1..(n - 1) BY <1>3, <2>4
    <3> DEFINE j == end(r)
    <3>2. Has(text, j, eol) BY <1>7, <3>1
    <3>3. j \in Nat BY <2>1
    <3> HIDE DEF j
    <3>4. After(text, j) BY <3>2, <3>3, EolAfter
    <3> QED BY <3>4 DEF j
  <2>5. After(text, end(r)) BY <2>3, <2>4
  <2>6. at[r] \in 0..Len(text) /\ at[r] + Len(lines[r]) \in 0..Len(text) BY <1>3, <2>1, <2>2
  <2> QED BY <2>5, <2>6
<1>12. ASSUME NEW r \in 1..n, Is(read[at[r]], at[r], SubSeq(T, 1, r - 1), Nil, Nil, FALSE)
       PROVE  /\ Is(read[end(r)], end(r), SubSeq(T, 1, r - 1), SubSeq(T[r], 1, Len(T[r]) - 1), T[r][Len(T[r])], FALSE)
              /\ AllCalm(text, read, at[r], end(r))
  <2>1. /\ lines[r] = Text!Joined(E[r], <<Text!Comma>>) /\ Len(T[r]) = Len(E[r])
        /\ \A k \in 1..Len(E[r]) : Written(E[r][k], T[r][k])
    BY <1>2 DEF comma
  <2>2. T[r] \in Seq(Seq(Text!Chars)) /\ E[r] \in Seq(Seq(Text!Chars)) /\ Len(E[r]) > 0
    BY <1>1, <1>4, <2>1 DEF n
  <2>3. at[r] \in 0..Len(text) /\ Has(text, at[r], lines[r]) /\ After(text, at[r] + Len(lines[r]))
    BY <1>6, <1>11
  <2> QED BY <1>12, <2>1, <2>2, <2>3, LineRead
<1>13. At(1)
  <2>1. 1 \in 1..n BY <1>3
  <2>2. SubSeq(T, 1, 1 - 1) = Nil BY <1>9
  <2>3. Is(read[at[1]], at[1], SubSeq(T, 1, 1 - 1), Nil, Nil, FALSE)
    <3>1. read[0] = Text!Reader BY DEF Runs
    <3> QED BY <1>8, <2>2, <3>1 DEF Is, Nil, Text!Reader
  <2> QED BY <1>8, <1>12, <2>1, <2>3 DEF AtLastField
<1>14. ASSUME NEW r \in 1..(n - 1), At(r) PROVE At(r + 1)
  <2> DEFINE j == end(r)
             k == j + Len(eol)
  <2>1. r \in 1..n /\ r + 1 \in 1..n /\ (r + 1) - 1 = r /\ r - 1 \in 0..(n - 1) /\ (r - 1) + 1 = r BY <1>3
  <2>2. Has(text, j, eol) /\ at[r + 1] = k BY <1>7
  <2>3. j \in 0..Len(text) BY <1>11, <2>1
  <2>4. /\ Is(read[j], j, SubSeq(T, 1, r - 1), SubSeq(T[r], 1, Len(T[r]) - 1), T[r][Len(T[r])], FALSE)
        /\ AllCalm(text, read, 0, j)
    BY <1>14 DEF AtLastField
  <2>5. Append(SubSeq(T[r], 1, Len(T[r]) - 1), T[r][Len(T[r])]) = T[r]
    <3>1. T[r] \in Seq(Seq(Text!Chars)) /\ Len(T[r]) > 0 BY <1>1, <1>4, <2>1 DEF n
    <3> QED BY <3>1, AllFields
  <2>6. ASSUME eol = <<Text!CR>> PROVE ~Text!Follows(text, j + 1, Text!LF)
    <3>1. at[r + 1] = j + 1 BY <2>2, <2>6, EolText
    <3>2. /\ lines[r + 1] = Text!Joined(E[r + 1], <<Text!Comma>>) /\ Len(T[r + 1]) = Len(E[r + 1])
          /\ \A q \in 1..Len(E[r + 1]) : Written(E[r + 1][q], T[r + 1][q])
      BY <1>2, <2>1 DEF comma
    <3>3. T[r + 1] \in Seq(Seq(Text!Chars)) /\ E[r + 1] \in Seq(Seq(Text!Chars)) /\ Len(E[r + 1]) > 1
      BY <1>1, <1>4, <2>1, <3>2 DEF n
    <3>4. at[r + 1] \in Nat /\ Has(text, at[r + 1], Text!Joined(E[r + 1], <<Text!Comma>>)) BY <1>6, <2>1, <3>2
    <3>5. ~Text!Follows(text, at[r + 1], Text!LF) BY <1>3, <3>2, <3>3, <3>4, LineStarts
    <3> QED BY <3>1, <3>5
  <2> HIDE DEF j
  <2>7. eol \in {<<Text!LF>>, <<Text!CR>>, <<Text!CR, Text!LF>>} BY DEF Eols
  <2>8. /\ Is(read[k], k, Append(SubSeq(T, 1, r - 1), T[r]), Nil, Nil, FALSE)
        /\ AllCalm(text, read, j + 1, k)
    BY <2>2, <2>3, <2>4, <2>5, <2>6, <2>7, EolRead
  <2>9. SubSeq(T, 1, r) = Append(SubSeq(T, 1, r - 1), T[r]) BY <1>9, <2>1
  <2>10. Is(read[at[r + 1]], at[r + 1], SubSeq(T, 1, (r + 1) - 1), Nil, Nil, FALSE)
    BY <2>1, <2>2, <2>8, <2>9
  <2>11. /\ Is(read[end(r + 1)], end(r + 1), SubSeq(T, 1, (r + 1) - 1), SubSeq(T[r + 1], 1, Len(T[r + 1]) - 1),
               T[r + 1][Len(T[r + 1])], FALSE)
         /\ AllCalm(text, read, at[r + 1], end(r + 1))
    BY <1>12, <2>1, <2>10
  <2>12. at[r + 1] = k /\ j \in Nat /\ k \in Nat /\ end(r + 1) \in Nat
    <3>1. Len(eol) \in Nat BY EolText
    <3>2. end(r + 1) \in 0..Len(text) BY <1>11, <2>1
    <3>3. k = j + Len(eol) OBVIOUS
    <3> HIDE DEF k, end
    <3>4. j \in Nat /\ end(r + 1) \in Nat BY <1>3, <2>3, <3>2
    <3> QED BY <2>2, <3>1, <3>3, <3>4
  <2> HIDE DEF k, end
  <2>13. \A m \in 0..end(r + 1) : m \in 0..j \/ m \in (j + 1)..k \/ m \in k..end(r + 1)
    BY <2>12
  <2>14. AllCalm(text, read, 0, end(r + 1)) BY <2>4, <2>8, <2>11, <2>12, <2>13 DEF AllCalm
  <2> QED BY <2>11, <2>14 DEF AtLastField
<1> HIDE DEF At
<1> DEFINE S == {k \in 0..(n - 1) : At(k + 1)}
<1>15. 0 \in S BY <1>3, <1>13
<1>16. \A k \in 0..((n - 1) - 1) : k \in S => k + 1 \in S
  <2> SUFFICES ASSUME NEW k \in 0..((n - 1) - 1), At(k + 1) PROVE k + 1 \in S
    OBVIOUS
  <2>1. k + 1 \in 1..(n - 1) /\ k + 1 \in 0..(n - 1) BY <1>3
  <2>2. At((k + 1) + 1) BY <1>14, <2>1
  <2> QED BY <2>1, <2>2
<1> HIDE DEF S
<1>17. n - 1 \in S BY <1>3, <1>15, <1>16, UpTo
<1>18. At(n)
  <2>1. At((n - 1) + 1) BY <1>17 DEF S
  <2>2. (n - 1) + 1 = n BY <1>3
  <2> QED BY <2>1, <2>2
<1> QED BY <1>8, <1>18 DEF At, L, n

\* A function on the first numbers is a sequence.
LEMMA FunctionText ==
  ASSUME NEW D, NEW n \in Nat, NEW f \in [1..n -> D]
  PROVE  f \in Seq(D) /\ Len(f) = n
<1>1. f \in Seq(D) OBVIOUS
<1>2. DOMAIN f = 1..n OBVIOUS
<1> QED BY <1>1, <1>2

\* Fields that are written make lines.
LEMMA LinesOf ==
  ASSUME NEW T \in Tables, NEW E,
         E = [r \in 1..Len(T) |-> [k \in 1..Len(T[r]) |-> E[r][k]]],
         \A r \in 1..Len(T) : \A k \in 1..Len(T[r]) : Written(E[r][k], T[r][k])
  PROVE  Lines(T, E, [r \in 1..Len(T) |-> Text!Joined(E[r], <<Text!Comma>>)])
<1> DEFINE n == Len(T)
           lines == [r \in 1..n |-> Text!Joined(E[r], <<Text!Comma>>)]
<1>1. n \in Nat /\ \A r \in 1..n : T[r] \in Seq(Seq(Text!Chars)) /\ Len(T[r]) \in Nat
  <2>1. T \in Seq(Seq(Seq(Text!Chars))) BY DEF Tables
  <2>2. \A s \in Seq(Seq(Text!Chars)) : Len(s) \in Nat OBVIOUS
  <2> QED BY <2>1, <2>2
<1>2. ASSUME NEW r \in 1..n
      PROVE  E[r] \in Seq(Seq(Text!Chars)) /\ Len(E[r]) = Len(T[r])
  <2> DEFINE l == Len(T[r])
             e == E[r]
  <2>1. e = [k \in 1..l |-> e[k]] /\ l \in Nat BY <1>1
  <2>2. \A k \in 1..l : e[k] \in Seq(Text!Chars) BY WrittenText
  <2> DEFINE D == Seq(Text!Chars)
  <2> HIDE DEF e, l, D
  <2>4. e \in [1..l -> D] BY <2>1, <2>2 DEF D
  <2>3. e \in Seq(Seq(Text!Chars)) /\ Len(e) = l BY <2>1, <2>4, FunctionText DEF D
  <2> QED BY <2>3 DEF e, l
<1>3. E \in Seq(Seq(Seq(Text!Chars))) /\ Len(E) = n
  <2>1. DOMAIN E = 1..n /\ E = [r \in 1..n |-> E[r]] OBVIOUS
  <2>2. \A r \in 1..n : E[r] \in Seq(Seq(Text!Chars)) BY <1>2
  <2> DEFINE D == Seq(Seq(Text!Chars))
  <2>3. n \in Nat BY <1>1
  <2> HIDE DEF n, D
  <2>4. E \in [1..n -> D] BY <2>1, <2>2 DEF D
  <2>5. E \in Seq(D) /\ Len(E) = n BY <2>3, <2>4, FunctionText
  <2> QED BY <2>5 DEF D
<1>4. \A r \in 1..n : lines[r] = Text!Joined(E[r], <<Text!Comma>>) OBVIOUS
<1>5. \A r \in 1..n : Text!Joined(E[r], <<Text!Comma>>) \in Seq(Text!Chars)
  <2>1. <<Text!Comma>> \in Seq(Text!Chars) BY DEF Text!Chars
  <2> QED BY <1>2, <2>1, JoinedText
<1>6. lines \in Seq(Seq(Text!Chars)) /\ Len(lines) = n
  <2>1. lines = [r \in 1..n |-> lines[r]] OBVIOUS
  <2>2. \A r \in 1..n : lines[r] \in Seq(Text!Chars) BY <1>4, <1>5
  <2> DEFINE D == Seq(Text!Chars)
  <2>3. n \in Nat BY <1>1
  <2> HIDE DEF n, lines, D
  <2>4. lines \in [1..n -> D] BY <2>1, <2>2 DEF D
  <2>5. lines \in Seq(D) /\ Len(lines) = n BY <2>3, <2>4, FunctionText
  <2> QED BY <2>5 DEF D
<1> HIDE DEF lines
<1>7. Lines(T, E, lines) BY <1>2, <1>3, <1>4, <1>6 DEF Lines
<1> QED BY <1>7 DEF lines

\* A file is read as its table, however its fields are written, its lines ended and its last
\* line ended or not; all along, no quote comes next in a field that is not quoted.
LEMMA FileRead ==
  ASSUME NEW T, NEW E, NEW lines, Lines(T, E, lines), NEW eol \in Eols, NEW tail \in {Nil, eol},
         NEW text, text = Text!Joined(lines, eol) \o tail
  PROVE  /\ text \in Seq(Text!Chars) /\ Text!parseCsv(text) = T
         /\ AllCalm(text, Text!Reading(text), 0, Len(text))
         /\ tail = eol => Is(Text!Reading(text)[Len(text)], Len(text), T, Nil, Nil, FALSE)
<1> DEFINE read == Text!Reading(text)
           joined == Text!Joined(lines, eol)
           j == Len(joined)
           n == Len(T)
<1>1. /\ T \in Seq(Seq(Seq(Text!Chars))) /\ n > 0 /\ n \in Nat
      /\ \A r \in 1..n : Len(T[r]) > 1
      /\ lines \in Seq(Seq(Text!Chars)) /\ n \in 1..n
  BY DEF Lines, Tables
<1>2. eol \in Seq(Text!Chars) /\ tail \in Seq(Text!Chars)
  <2>1. eol \in Seq(Text!Chars) BY EolText
  <2>2. Nil \in Seq(Text!Chars) BY DEF Nil
  <2> QED BY <2>1, <2>2
<1>3. joined \in Seq(Text!Chars) BY <1>1, <1>2, JoinedText
<1>4. text = joined \o tail OBVIOUS
<1> HIDE DEF joined
<1>5. text \in Seq(Text!Chars) /\ j \in Nat /\ Len(tail) \in Nat /\ Len(text) = j + Len(tail)
  BY <1>2, <1>3, <1>4
<1>6. Runs(text, read) BY <1>5, ReadingRuns
<1>7. Has(text, 0, joined) /\ Has(text, j, tail)
  <2>1. Has(text, 0, joined \o tail) BY <1>4, <1>5 DEF Has
  <2>2. Has(text, 0, joined) /\ Has(text, 0 + Len(joined), tail) BY <1>2, <1>3, <1>5, <2>1, HasBoth
  <2>3. 0 + j = j BY <1>5
  <2> QED BY <2>2, <2>3
<1>8. After(text, j)
  <2>1. CASE tail = Nil BY <1>5, <2>1 DEF After, Nil
  <2>2. CASE tail = eol BY <1>5, <1>7, <2>2, EolAfter
  <2> QED BY <2>1, <2>2
<1>9. /\ Is(read[j], j, SubSeq(T, 1, n - 1), SubSeq(T[n], 1, Len(T[n]) - 1), T[n][Len(T[n])], FALSE)
      /\ AllCalm(text, read, 0, j)
  <2>1. AtLastField(T, text, read, n, j) BY <1>6, <1>7, <1>8, LinesRead DEF joined
  <2> QED BY <2>1 DEF AtLastField
<1>10. Append(SubSeq(T, 1, n - 1), T[n]) = T BY <1>1, AllFields
<1>11. Append(SubSeq(T[n], 1, Len(T[n]) - 1), T[n][Len(T[n])]) = T[n] /\ SubSeq(T[n], 1, Len(T[n]) - 1) # Nil
  <2>1. T[n] \in Seq(Seq(Text!Chars)) /\ Len(T[n]) > 1 BY <1>1
  <2>2. Append(SubSeq(T[n], 1, Len(T[n]) - 1), T[n][Len(T[n])]) = T[n] BY <2>1, AllFields
  <2>3. Len(T[n]) - 1 \in 0..Len(T[n]) BY <2>1
  <2>4. Len(SubSeq(T[n], 1, Len(T[n]) - 1)) = Len(T[n]) - 1 BY <2>1, <2>3, Prefixes
  <2>5. Len(Nil) = 0 BY DEF Nil
  <2>8. Len(T[n]) \in Nat /\ Len(T[n]) > 1
    <3>1. \A s \in Seq(Seq(Text!Chars)) : Len(s) \in Nat OBVIOUS
    <3> QED BY <2>1, <3>1
  <2> DEFINE l == Len(T[n])
  <2>9. l - 1 # 0
    <3>1. l \in Nat /\ l > 1 BY <2>8
    <3> HIDE DEF l
    <3> QED BY <3>1
  <2>6. Len(T[n]) - 1 # 0 BY <2>9
  <2>7. SubSeq(T[n], 1, Len(T[n]) - 1) # Nil BY <2>4, <2>5, <2>6
  <2> QED BY <2>2, <2>7
<1> DEFINE p == read[Len(text)]
<1>12. p \in Reader BY <1>5, <1>6 DEF Runs
<1>13. Text!parseCsv(text) = Text!LastRow(p) BY DEF Text!parseCsv
<1> HIDE DEF read, n
<1>14. ASSUME tail = Nil
       PROVE  Text!parseCsv(text) = T /\ AllCalm(text, read, 0, Len(text))
  <2>1. Len(text) = j BY <1>5, <1>14 DEF Nil
  <2>2. /\ p.rows = SubSeq(T, 1, n - 1) /\ p.row = SubSeq(T[n], 1, Len(T[n]) - 1)
        /\ p.field = T[n][Len(T[n])] /\ ~p.quoted
    BY <1>9, <2>1 DEF Is
  <2> HIDE DEF p
  <2> DEFINE q == Text!EndRow(p)
  <2>3. q.rows = Append(p.rows, Append(p.row, p.field)) BY <1>12, RowDoes
  <2>4. q.rows = T BY <1>10, <1>11, <2>2, <2>3
  <2>5. Text!LastRow(p) = q.rows BY <1>11, <2>2 DEF Text!LastRow, Nil
  <2> QED BY <1>9, <1>13, <2>1, <2>4, <2>5
<1>15. ASSUME tail = eol
       PROVE  /\ Text!parseCsv(text) = T /\ AllCalm(text, read, 0, Len(text))
              /\ Is(p, Len(text), T, Nil, Nil, FALSE)
  <2>1. j \in 0..Len(text) /\ Len(text) = j + Len(eol) /\ Has(text, j, eol) BY <1>5, <1>7, <1>15
  <2>2. ASSUME eol = <<Text!CR>> PROVE ~Text!Follows(text, j + 1, Text!LF)
    <3>1. Len(text) = j + 1 BY <2>1, <2>2, EolText
    <3> QED BY <1>5, <3>1 DEF Text!Follows
  <2>3. eol \in {<<Text!LF>>, <<Text!CR>>, <<Text!CR, Text!LF>>} BY DEF Eols
  <2>4. /\ Is(read[j + Len(eol)], j + Len(eol), Append(SubSeq(T, 1, n - 1), T[n]), Nil, Nil, FALSE)
        /\ AllCalm(text, read, j + 1, j + Len(eol))
    BY <1>6, <1>9, <1>11, <2>1, <2>2, <2>3, EolRead
  <2>5. Is(p, Len(text), T, Nil, Nil, FALSE) BY <1>10, <2>1, <2>4
  <2>6. AllCalm(text, read, 0, Len(text))
    <3>1. \A m \in 0..Len(text) : m \in 0..j \/ m \in (j + 1)..Len(text) BY <1>5
    <3> QED BY <1>9, <2>1, <2>4, <3>1 DEF AllCalm
  <2>7. Text!LastRow(p) = T
    <3>1. p.rows = T /\ p.row = Nil /\ p.field = Nil /\ ~p.quoted BY <2>5 DEF Is
    <3> QED BY <3>1 DEF Text!LastRow, Nil
  <2> QED BY <1>13, <2>5, <2>6, <2>7
<1>16. CASE tail = Nil
  <2>1. eol # Nil BY EolText DEF Nil
  <2> QED BY <1>5, <1>14, <1>16, <2>1 DEF read
<1>17. CASE tail = eol BY <1>5, <1>15, <1>17 DEF read, p
<1> QED BY <1>16, <1>17

-----------------------------------------------------------------------------
\* What a table is written as can be read back.
LEMMA WritesBack ==
  ASSUME NEW T \in Tables
  PROVE  LET text == Text!serializeCsv(T) IN
           /\ text \in Seq(Text!Chars) /\ Text!parseCsv(text) = T
           /\ AllCalm(text, Text!Reading(text), 0, Len(text))
           /\ Is(Text!Reading(text)[Len(text)], Len(text), T, Nil, Nil, FALSE)
<1> DEFINE E == [r \in 1..Len(T) |-> [k \in 1..Len(T[r]) |-> Text!encodeField(T[r][k])]]
           lines == [r \in 1..Len(T) |-> Text!Joined(E[r], <<Text!Comma>>)]
           eol == <<Text!LF>>
           text == Text!serializeCsv(T)
<1>1. ASSUME NEW r \in 1..Len(T), NEW k \in 1..Len(T[r]) PROVE Written(E[r][k], T[r][k])
  <2> DEFINE f == T[r][k]
  <2>1. E[r][k] = Text!encodeField(f) OBVIOUS
  <2>2. f \in Seq(Text!Chars) BY DEF Tables
  <2> HIDE DEF f
  <2>3. \A m \in 1..Len(f) : f[m] \in Text!Chars BY <2>2
  <2>4. Written(Text!encodeField(f), f)
    <3>1. CASE \E m \in 1..Len(f) : f[m] \in {Text!Quote, Text!Comma, Text!CR, Text!LF}
      BY <2>2, <3>1 DEF Text!encodeField, Written
    <3>2. CASE ~ \E m \in 1..Len(f) : f[m] \in {Text!Quote, Text!Comma, Text!CR, Text!LF}
      <4>1. \A m \in 1..Len(f) : f[m] = "x" BY <2>3, <3>2 DEF Text!Chars
      <4> QED BY <2>2, <3>2, <4>1 DEF Text!encodeField, Written
    <3> QED BY <3>1, <3>2
  <2> QED BY <2>1, <2>4 DEF f
<1>2. E = [r \in 1..Len(T) |-> [k \in 1..Len(T[r]) |-> E[r][k]]] OBVIOUS
<1>3. text = Text!Joined(lines, eol) \o eol
  <2>1. \A r \in 1..Len(T) : E[r] = [k \in 1..Len(T[r]) |-> Text!encodeField(T[r][k])] OBVIOUS
  <2>2. lines = [r \in 1..Len(T) |->
                   Text!Joined([k \in 1..Len(T[r]) |-> Text!encodeField(T[r][k])], <<Text!Comma>>)]
    BY <2>1
  <2> HIDE DEF lines, E
  <2> QED BY <2>2 DEF Text!serializeCsv
<1> HIDE DEF E
<1>4. Lines(T, E, lines) BY <1>1, <1>2, LinesOf
<1>5. eol \in Eols BY DEF Eols
<1> HIDE DEF lines, eol, text
<1>6. text = Text!Joined(lines, eol) \o eol BY <1>3
<1>7. /\ text \in Seq(Text!Chars) /\ Text!parseCsv(text) = T
      /\ AllCalm(text, Text!Reading(text), 0, Len(text))
      /\ Is(Text!Reading(text)[Len(text)], Len(text), T, Nil, Nil, FALSE)
  BY ONLY <1>4, <1>5, <1>6, FileRead
<1> QED BY <1>7 DEF text

-----------------------------------------------------------------------------
\* What one character does to the rows, to the quoting and to the index that is read next.
LEMMA ReadFlags ==
  ASSUME NEW text \in Seq(Text!Chars), NEW i \in 1..Len(text), NEW p \in Reader, i >= p.next,
         NEW q, q = Text!ReadAt(text, p, i)
  PROVE  /\ p.quoted /\ text[i] # Text!Quote => q.quoted /\ q.next = p.next
         /\ p.quoted /\ text[i] = Text!Quote /\ Text!Follows(text, i, Text!Quote)
               => q.quoted /\ q.next = i + 2
         /\ p.quoted /\ text[i] = Text!Quote /\ ~Text!Follows(text, i, Text!Quote)
               => ~q.quoted /\ q.next = p.next
         /\ ~p.quoted /\ text[i] = Text!Quote /\ p.field = Nil => q.quoted /\ q.next = p.next
         /\ ~p.quoted /\ text[i] = Text!CR /\ Text!Follows(text, i, Text!LF)
               => ~q.quoted /\ q.next = i + 2
         /\ ~p.quoted /\ text[i] # Text!Quote /\ ~(text[i] = Text!CR /\ Text!Follows(text, i, Text!LF))
               => ~q.quoted /\ q.next = p.next
         /\ q.rows = IF p.quoted \/ text[i] \notin {Text!LF, Text!CR} THEN p.rows
                     ELSE Append(p.rows, Append(p.row, p.field))
<1> DEFINE c == text[i]
<1>1. i \in Nat /\ c \in Text!Chars /\ p.next \in Nat /\ p.quoted \in BOOLEAN BY DEF Reader
<1>2. ~(i < p.next) BY <1>1
<1>3. q = IF p.quoted THEN Text!ReadQuoted(p, text, i) ELSE Text!ReadPlain(p, text, i)
  BY <1>2 DEF Text!ReadAt
<1>4. ASSUME p.quoted, c # Text!Quote
      PROVE  q.quoted /\ q.next = p.next /\ q.rows = p.rows
  <2>1. q = Text!Read(p, c) BY <1>3, <1>4 DEF Text!ReadQuoted
  <2> QED BY <1>4, <2>1, ReadDoes
<1>5. ASSUME p.quoted, c = Text!Quote, Text!Follows(text, i, Text!Quote)
      PROVE  q.quoted /\ q.next = i + 2 /\ q.rows = p.rows
  <2> DEFINE s == Text!Read(p, Text!Quote)
  <2>1. q = Text!Skip(s, i) BY <1>3, <1>5 DEF Text!ReadQuoted
  <2>2. Text!Quote \in Text!Chars BY DEF Text!Chars
  <2>3. s \in Reader BY <2>2, QuoteReads
  <2>4. s.rows = p.rows /\ s.quoted = p.quoted BY ReadDoes
  <2> HIDE DEF s
  <2>5. q.rows = s.rows /\ q.quoted = s.quoted /\ q.next = i + 2 BY <2>1, <2>3, SkipDoes
  <2> QED BY <1>5, <2>4, <2>5
<1>6. ASSUME p.quoted, c = Text!Quote, ~Text!Follows(text, i, Text!Quote)
      PROVE  ~q.quoted /\ q.next = p.next /\ q.rows = p.rows
  <2>1. q = Unquoted(p) BY <1>3, <1>6 DEF Unquoted, Text!ReadQuoted
  <2> QED BY <2>1, CloseDoes
<1>7. ASSUME ~p.quoted, c = Text!Quote, p.field = Nil
      PROVE  q.quoted /\ q.next = p.next /\ q.rows = p.rows
  <2>1. q = Opened(p) BY <1>3, <1>7 DEF Opened, Nil, Text!ReadPlain, Text!Quote, Text!Comma, Text!LF, Text!CR
  <2> QED BY <2>1, OpenDoes
<1>8. ASSUME ~p.quoted, c = Text!Quote, p.field # Nil PROVE q.rows = p.rows
  <2>1. q = Text!Read(p, c)
    BY <1>3, <1>8 DEF Nil, Text!ReadPlain, Text!Quote, Text!Comma, Text!LF, Text!CR
  <2> QED BY <2>1, ReadDoes
<1>9. ASSUME ~p.quoted, c = Text!CR, Text!Follows(text, i, Text!LF)
      PROVE  ~q.quoted /\ q.next = i + 2 /\ q.rows = Append(p.rows, Append(p.row, p.field))
  <2> DEFINE s == Text!Skip(p, i)
  <2>1. q = Text!EndRow(s)
    BY <1>3, <1>9 DEF Text!ReadPlain, Text!Quote, Text!Comma, Text!LF, Text!CR
  <2>2. s \in Reader BY <1>1, SkipReads
  <2>3. s.rows = p.rows /\ s.row = p.row /\ s.field = p.field /\ s.quoted = p.quoted /\ s.next = i + 2
    BY SkipDoes
  <2> HIDE DEF s
  <2>4. q.rows = Append(s.rows, Append(s.row, s.field)) /\ q.quoted = s.quoted /\ q.next = s.next
    BY <2>1, <2>2, RowDoes
  <2> QED BY <1>9, <2>3, <2>4
<1>10. ASSUME ~p.quoted, c = Text!LF \/ (c = Text!CR /\ ~Text!Follows(text, i, Text!LF))
       PROVE  ~q.quoted /\ q.next = p.next /\ q.rows = Append(p.rows, Append(p.row, p.field))
  <2>1. q = Text!EndRow(p)
    BY <1>3, <1>10 DEF Text!ReadPlain, Text!Quote, Text!Comma, Text!LF, Text!CR
  <2> QED BY <1>10, <2>1, RowDoes
<1>11. ASSUME ~p.quoted, c = Text!Comma
       PROVE  ~q.quoted /\ q.next = p.next /\ q.rows = p.rows
  <2>1. q = Text!EndField(p)
    BY <1>3, <1>11 DEF Text!ReadPlain, Text!Quote, Text!Comma, Text!LF, Text!CR
  <2> QED BY <1>11, <2>1, FieldDoes
<1>12. ASSUME ~p.quoted, c = "x"
       PROVE  ~q.quoted /\ q.next = p.next /\ q.rows = p.rows
  <2>1. q = Text!Read(p, c)
    BY <1>3, <1>12 DEF Text!ReadPlain, Text!Quote, Text!Comma, Text!LF, Text!CR
  <2> QED BY <1>12, <2>1, ReadDoes
<1>13. /\ Text!Quote \notin {Text!LF, Text!CR} /\ Text!Comma \notin {Text!LF, Text!CR}
       /\ "x" \notin {Text!LF, Text!CR} /\ Text!LF # Text!CR
       /\ c \in {Text!Comma, Text!Quote, Text!LF, Text!CR, "x"}
  BY <1>1 DEF Text!Chars, Text!Quote, Text!LF, Text!CR, Text!Comma
<1> HIDE DEF c
<1>14. /\ p.quoted /\ c # Text!Quote => q.quoted /\ q.next = p.next
       /\ p.quoted /\ c = Text!Quote /\ Text!Follows(text, i, Text!Quote) => q.quoted /\ q.next = i + 2
       /\ p.quoted /\ c = Text!Quote /\ ~Text!Follows(text, i, Text!Quote)
            => ~q.quoted /\ q.next = p.next
       /\ ~p.quoted /\ c = Text!Quote /\ p.field = Nil => q.quoted /\ q.next = p.next
       /\ ~p.quoted /\ c = Text!CR /\ Text!Follows(text, i, Text!LF) => ~q.quoted /\ q.next = i + 2
  BY <1>4, <1>5, <1>6, <1>7, <1>9
<1>15. ~p.quoted /\ c # Text!Quote /\ ~(c = Text!CR /\ Text!Follows(text, i, Text!LF))
         => ~q.quoted /\ q.next = p.next
  BY <1>10, <1>11, <1>12, <1>13
<1>16. q.rows = IF p.quoted \/ c \notin {Text!LF, Text!CR} THEN p.rows
                ELSE Append(p.rows, Append(p.row, p.field))
  <2>1. CASE p.quoted BY <1>4, <1>5, <1>6, <2>1
  <2>2. CASE ~p.quoted /\ c \in {Text!LF, Text!CR} BY <1>9, <1>10, <2>2
  <2>3. CASE ~p.quoted /\ c \notin {Text!LF, Text!CR}
    <3>1. q.rows = p.rows BY <1>7, <1>8, <1>11, <1>12, <1>13, <2>3
    <3> QED BY <2>3, <3>1
  <2> QED BY <1>1, <2>1, <2>2, <2>3
<1> QED BY <1>14, <1>15, <1>16 DEF c

-----------------------------------------------------------------------------
\* The quotes among the first n characters, and whether they do not pair.
Quotes(text, n) == {i \in 1..n : text[i] = Text!Quote}

Odd(text, n) == Cardinality(Quotes(text, n)) % 2 = 1

LEMMA OddStep ==
  ASSUME NEW text, NEW n \in Nat
  PROVE  /\ ~Odd(text, 0)
         /\ text[n + 1] = Text!Quote => (Odd(text, n + 1) <=> ~Odd(text, n))
         /\ text[n + 1] # Text!Quote => (Odd(text, n + 1) <=> Odd(text, n))
<1>1. Quotes(text, 0) = {} BY DEF Quotes
<1>2. ~Odd(text, 0) BY <1>1, FS_EmptySet DEF Odd
<1>3. IsFiniteSet(Quotes(text, n)) /\ Cardinality(Quotes(text, n)) \in Nat
  <2>1. IsFiniteSet(1..n) BY FS_Interval
  <2>2. IsFiniteSet(Quotes(text, n)) BY <2>1, FS_Subset DEF Quotes
  <2> QED BY <2>2, FS_CardinalityType
<1>4. ASSUME text[n + 1] = Text!Quote PROVE Odd(text, n + 1) <=> ~Odd(text, n)
  <2>1. Quotes(text, n + 1) = Quotes(text, n) \cup {n + 1} /\ n + 1 \notin Quotes(text, n) BY <1>4 DEF Quotes
  <2>2. Cardinality(Quotes(text, n + 1)) = Cardinality(Quotes(text, n)) + 1
    BY <1>3, <2>1, FS_AddElement
  <2> DEFINE k == Cardinality(Quotes(text, n))
  <2>3. k \in Nat BY <1>3
  <2> HIDE DEF k
  <2>4. ((k + 1) % 2 = 1) <=> ~(k % 2 = 1) BY <2>3
  <2> QED BY <2>2, <2>4 DEF Odd, k
<1>5. ASSUME text[n + 1] # Text!Quote PROVE Odd(text, n + 1) <=> Odd(text, n)
  <2>1. Quotes(text, n + 1) = Quotes(text, n) BY <1>5 DEF Quotes
  <2> QED BY <2>1 DEF Odd
<1> QED BY <1>2, <1>4, <1>5

\* A reader is in quotes while they do not pair; but for two characters that are read as one.
Pairs(text, read, n) ==
  \/ /\ read[n].next <= n + 1
     /\ read[n].quoted <=> Odd(text, n)
  \/ /\ n < Len(text) /\ read[n].next = n + 2 /\ ~Odd(text, n)
     /\ IF read[n].quoted THEN text[n + 1] = Text!Quote ELSE text[n + 1] = Text!LF

LEMMA QuotesPair ==
  ASSUME NEW text, NEW read, Runs(text, read), AllCalm(text, read, 0, Len(text))
  PROVE  read[Len(text)].quoted <=> Odd(text, Len(text))
<1> DEFINE N == Len(text)
           S == {n \in 0..N : Pairs(text, read, n)}
<1>1. N \in Nat /\ 0 \in 0..N /\ N \in 0..N /\ text \in Seq(Text!Chars) BY DEF Runs
<1>2. \A n \in 0..N : read[n] \in Reader BY DEF Runs
<1> HIDE DEF N
<1>3. 0 \in S
  <2>1. read[0].next = 1 /\ read[0].quoted = FALSE BY DEF Runs, Text!Reader
  <2>2. ~Odd(text, 0) BY <1>1, OddStep
  <2>3. Pairs(text, read, 0) BY <2>1, <2>2 DEF Pairs
  <2> QED BY <1>1, <2>3
<1>4. \A n \in 0..(N - 1) : n \in S => n + 1 \in S
  <2> SUFFICES ASSUME NEW n \in 0..(N - 1), Pairs(text, read, n) PROVE Pairs(text, read, n + 1)
    <3>1. \A n \in 0..(N - 1) : n + 1 \in 0..N BY <1>1
    <3> QED BY <3>1
  <2> DEFINE i == n + 1
             p == read[n]
             q == read[i]
  <2>1. n \in 0..N /\ i \in 1..N /\ i \in 0..N /\ n \in Nat /\ i - 1 = n /\ i \in Nat BY <1>1
  <2>2. p \in Reader /\ q \in Reader /\ q = Text!ReadAt(text, p, i)
    <3>1. \A m \in 1..N : read[m] = Text!ReadAt(text, read[m - 1], m) BY DEF Runs, N
    <3> QED BY <1>2, <2>1, <3>1
  <2>3. Calm(text, read, n) BY <2>1 DEF AllCalm, N
  <2>4. /\ text[i] = Text!Quote => (Odd(text, i) <=> ~Odd(text, n))
        /\ text[i] # Text!Quote => (Odd(text, i) <=> Odd(text, n))
    BY <2>1, OddStep
  <2>5. p.quoted \in BOOLEAN /\ q.quoted \in BOOLEAN /\ p.next \in Nat /\ q.next \in Nat BY <2>2 DEF Reader
  <2>6. CASE /\ p.next = n + 2 /\ ~Odd(text, n)
             /\ IF p.quoted THEN text[i] = Text!Quote ELSE text[i] = Text!LF
    <3>1. i < p.next BY <2>1, <2>6
    <3>2. q = p BY <2>2, <3>1 DEF Text!ReadAt
    <3>3. q.next <= i + 1 BY <2>1, <2>6, <3>2
    <3>4. q.quoted <=> Odd(text, i)
      <4>1. CASE p.quoted BY <2>4, <2>6, <3>2, <4>1
      <4>2. CASE ~p.quoted
        <5>1. text[i] # Text!Quote BY <2>6, <4>2 DEF Text!LF, Text!Quote
        <5> QED BY <2>4, <2>6, <3>2, <4>2, <5>1
      <4> QED BY <4>1, <4>2
    <3> QED BY <3>3, <3>4 DEF Pairs
  <2>7. CASE p.next <= n + 1 /\ (p.quoted <=> Odd(text, n))
    <3>1. i >= p.next /\ i \in 1..Len(text) BY <2>1, <2>5, <2>7 DEF N
    <3>2. ~p.quoted /\ text[i] = Text!Quote => p.field = Nil
      <4>1. n < Len(text) BY <2>1, <1>1 DEF N
      <4> QED BY <2>3, <4>1 DEF Calm, After
    <3> HIDE DEF i, p, q
    <3>3. /\ p.quoted /\ text[i] # Text!Quote => q.quoted /\ q.next = p.next
          /\ p.quoted /\ text[i] = Text!Quote /\ Text!Follows(text, i, Text!Quote)
                => q.quoted /\ q.next = i + 2
          /\ p.quoted /\ text[i] = Text!Quote /\ ~Text!Follows(text, i, Text!Quote)
                => ~q.quoted /\ q.next = p.next
          /\ ~p.quoted /\ text[i] = Text!Quote /\ p.field = Nil => q.quoted /\ q.next = p.next
          /\ ~p.quoted /\ text[i] = Text!CR /\ Text!Follows(text, i, Text!LF)
                => ~q.quoted /\ q.next = i + 2
          /\ ~p.quoted /\ text[i] # Text!Quote /\ ~(text[i] = Text!CR /\ Text!Follows(text, i, Text!LF))
                => ~q.quoted /\ q.next = p.next
      BY <1>1, <2>2, <3>1, ReadFlags
    <3>4. p.next <= i + 1 BY <2>1, <2>5, <2>7, <3>1
    <3> DEFINE Same == q.next <= i + 1 /\ (q.quoted <=> Odd(text, i))
               Ahead == /\ i < Len(text) /\ q.next = i + 2 /\ ~Odd(text, i)
                        /\ IF q.quoted THEN text[i + 1] = Text!Quote ELSE text[i + 1] = Text!LF
    <3>5. CASE p.quoted /\ text[i] # Text!Quote
      <4>1. Same BY <2>4, <2>7, <3>3, <3>4, <3>5
      <4> QED BY <4>1 DEF Pairs, q, i
    <3>6. CASE p.quoted /\ text[i] = Text!Quote /\ Text!Follows(text, i, Text!Quote)
      <4>1. Ahead BY <2>4, <2>7, <3>3, <3>6 DEF Text!Follows
      <4> QED BY <4>1 DEF Pairs, q, i
    <3>7. CASE p.quoted /\ text[i] = Text!Quote /\ ~Text!Follows(text, i, Text!Quote)
      <4>1. Same BY <2>4, <2>7, <3>3, <3>4, <3>7
      <4> QED BY <4>1 DEF Pairs, q, i
    <3>8. CASE ~p.quoted /\ text[i] = Text!Quote
      <4>1. Same BY <2>4, <2>7, <3>2, <3>3, <3>4, <3>8
      <4> QED BY <4>1 DEF Pairs, q, i
    <3>9. CASE ~p.quoted /\ text[i] = Text!CR /\ Text!Follows(text, i, Text!LF)
      <4>1. text[i] # Text!Quote BY <3>9 DEF Text!CR, Text!Quote
      <4>2. Ahead BY <2>4, <2>7, <3>3, <3>9, <4>1 DEF Text!Follows
      <4> QED BY <4>2 DEF Pairs, q, i
    <3>10. CASE ~p.quoted /\ text[i] # Text!Quote /\ ~(text[i] = Text!CR /\ Text!Follows(text, i, Text!LF))
      <4>1. Same BY <2>4, <2>7, <3>3, <3>4, <3>10
      <4> QED BY <4>1 DEF Pairs, q, i
    <3> QED BY <3>5, <3>6, <3>7, <3>8, <3>9, <3>10
  <2> QED BY <2>6, <2>7 DEF Pairs
<1> HIDE DEF S
<1>5. N \in S BY <1>1, <1>3, <1>4, UpTo
<1>6. Pairs(text, read, N) BY <1>5 DEF S
<1>7. ~(N < N) BY <1>1
<1> QED BY <1>6, <1>7 DEF Pairs, N

-----------------------------------------------------------------------------
\* s begins with what r has.
Begins(r, s) == Len(r) <= Len(s) /\ \A x \in 1..Len(r) : r[x] = s[x]

\* Rows that were read stay.
LEMMA RowsStay ==
  ASSUME NEW text, NEW read, Runs(text, read), NEW n \in 0..Len(text)
  PROVE  Begins(read[n].rows, read[Len(text)].rows)
<1> DEFINE N == Len(text)
           D == Seq(Seq(Text!Chars))
           S == {d \in 0..(N - n) : Begins(read[n].rows, read[n + d].rows)}
<1>1. N \in Nat /\ n \in Nat /\ N - n \in Nat /\ N - n \in 0..(N - n) /\ 0 \in 0..(N - n) /\ n + (N - n) = N
      /\ text \in Seq(Text!Chars)
  BY DEF Runs
<1>2. \A m \in 0..N : read[m] \in Reader /\ read[m].rows \in Seq(D) BY DEF Runs, Reader
<1> HIDE DEF N, D
<1>3. 0 \in S
  <2>1. n + 0 = n BY <1>1
  <2>2. Begins(read[n].rows, read[n + 0].rows)
    <3>1. n \in 0..N BY DEF N
    <3>2. Len(read[n].rows) \in Nat BY <1>2, <3>1
    <3> QED BY <2>1, <3>2 DEF Begins
  <2> QED BY <1>1, <2>2
<1>4. \A d \in 0..((N - n) - 1) : d \in S => d + 1 \in S
  <2> SUFFICES ASSUME NEW d \in 0..((N - n) - 1), Begins(read[n].rows, read[n + d].rows)
               PROVE  Begins(read[n].rows, read[n + (d + 1)].rows)
    <3>1. \A d \in 0..((N - n) - 1) : d + 1 \in 0..(N - n) BY <1>1
    <3> QED BY <3>1
  <2> DEFINE i == n + (d + 1)
             p == read[n + d]
             q == read[i]
             a == read[n].rows
  <2>1. n + d \in 0..N /\ i \in 1..N /\ i \in 0..N /\ i - 1 = n + d /\ n \in 0..N BY <1>1
  <2>2. p \in Reader /\ q \in Reader /\ q = Text!ReadAt(text, p, i) /\ i \in 1..Len(text)
    <3>1. \A m \in 1..N : read[m] = Text!ReadAt(text, read[m - 1], m) BY DEF Runs, N
    <3> QED BY <1>2, <2>1, <3>1 DEF N
  <2>3. p.rows \in Seq(D) /\ a \in Seq(D) /\ p.row \in D /\ p.field \in Seq(Text!Chars)
        /\ p.next \in Nat /\ i \in Nat
    <3>1. p.row \in D /\ p.field \in Seq(Text!Chars) /\ p.next \in Nat BY <2>2 DEF Reader, D
    <3>2. p.rows \in Seq(D) /\ a \in Seq(D) BY <1>2, <2>1
    <3>3. i \in Nat BY <2>1
    <3> QED BY ONLY <3>1, <3>2, <3>3
  <2>4. Begins(a, p.rows) OBVIOUS
  <2> HIDE DEF i, p, q, a
  <2>5. q.rows = p.rows \/ q.rows = Append(p.rows, Append(p.row, p.field))
    <3>1. CASE i < p.next
      <4>1. q = p BY <2>2, <3>1 DEF Text!ReadAt
      <4> QED BY <4>1
    <3>2. CASE i >= p.next
      <4>1. q.rows = IF p.quoted \/ text[i] \notin {Text!LF, Text!CR} THEN p.rows
                     ELSE Append(p.rows, Append(p.row, p.field))
        BY <1>1, <2>2, <3>2, ReadFlags
      <4> QED BY <4>1
    <3> QED BY <2>3, <3>1, <3>2
  <2>6. CASE q.rows = p.rows BY <2>4, <2>6 DEF q, i, a
  <2>7. CASE q.rows = Append(p.rows, Append(p.row, p.field))
    <3> DEFINE x == Append(p.row, p.field)
               b == p.rows
               c == q.rows
    <3>1. x \in D BY <2>3 DEF D
    <3>2. b \in Seq(D) /\ c = Append(b, x) /\ a \in Seq(D) /\ Begins(a, b) BY <2>3, <2>4, <2>7
    <3> HIDE DEF x, b, c
    <3>3. Len(c) = Len(b) + 1 /\ \A y \in 1..Len(b) : c[y] = b[y] BY <3>1, <3>2
    <3>4. Len(a) \in Nat /\ Len(b) \in Nat BY <3>2
    <3>5. Len(a) <= Len(b) /\ \A y \in 1..Len(a) : a[y] = b[y] BY <3>2 DEF Begins
    <3>6. \A y \in 1..Len(a) : y \in 1..Len(b) BY <3>4, <3>5
    <3>7. Begins(a, c) BY <3>3, <3>4, <3>5, <3>6 DEF Begins
    <3> QED BY <3>7 DEF c, q, i, a
  <2> QED BY <2>5, <2>6, <2>7
<1> HIDE DEF S
<1>5. N - n \in S BY <1>1, <1>3, <1>4, UpTo
<1> QED BY <1>1, <1>5 DEF S, N

CutTo(text, n, cut) == cut = SubSeq(text, 1, n)

\* A text that is cut off after n characters is read as the whole is, but for what comes next.
LEMMA CutRead ==
  ASSUME NEW text, NEW read, Runs(text, read), NEW n \in 1..Len(text),
         NEW cut, CutTo(text, n, cut), NEW kept, Runs(cut, kept),
         AllCalm(text, read, 0, Len(text))
  PROVE  AllCalm(cut, kept, 0, Len(cut)) /\ kept[n].rows = read[n].rows
<1>1. /\ text \in Seq(Text!Chars) /\ cut \in Seq(Text!Chars) /\ n \in Nat /\ Len(text) \in Nat /\ n <= Len(text)
      /\ n - 1 \in Nat /\ 0 \in 0..(n - 1) /\ n - 1 \in 0..(n - 1)
  BY DEF Runs
<1>2. Len(cut) = n /\ \A m \in 1..n : cut[m] = text[m]
  <2>1. n \in 0..Len(text) BY <1>1
  <2> QED BY <1>1, <2>1, Prefixes DEF CutTo
<1>3. \A m \in 1..n : kept[m] = Text!ReadAt(cut, kept[m - 1], m) /\ read[m] = Text!ReadAt(text, read[m - 1], m)
  <2>1. \A m \in 1..n : m \in 1..Len(cut) /\ m \in 1..Len(text) BY <1>1, <1>2
  <2> QED BY <2>1 DEF Runs
<1>4. kept[0] = read[0] BY DEF Runs
<1> DEFINE S == {m \in 0..(n - 1) : kept[m] = read[m]}
<1>5. 0 \in S BY <1>1, <1>4
<1>6. \A m \in 0..((n - 1) - 1) : m \in S => m + 1 \in S
  <2> SUFFICES ASSUME NEW m \in 0..((n - 1) - 1), kept[m] = read[m] PROVE kept[m + 1] = read[m + 1]
    <3>1. \A m \in 0..((n - 1) - 1) : m + 1 \in 0..(n - 1) BY <1>1
    <3> QED BY <3>1
  <2> DEFINE i == m + 1
             p == read[m]
  <2>1. i \in 1..n /\ i + 1 \in 1..n /\ i - 1 = m /\ i < n BY <1>1
  <2>2. kept[i] = Text!ReadAt(cut, p, i) /\ read[i] = Text!ReadAt(text, p, i) BY <1>3, <2>1
  <2>3. cut[i] = text[i] /\ cut[i + 1] = text[i + 1] BY <1>2, <2>1
  <2>4. \A c : Text!Follows(cut, i, c) <=> Text!Follows(text, i, c)
    <3>1. i < Len(cut) /\ i < Len(text) BY <1>1, <1>2, <2>1
    <3> QED BY <2>3, <3>1 DEF Text!Follows
  <2> HIDE DEF i, p
  <2>5. Text!ReadQuoted(p, cut, i) = Text!ReadQuoted(p, text, i)
    BY <2>3, <2>4 DEF Text!ReadQuoted
  <2>6. Text!ReadPlain(p, cut, i) = Text!ReadPlain(p, text, i)
    BY <2>3, <2>4 DEF Text!ReadPlain
  <2>7. kept[i] = read[i] BY <2>2, <2>5, <2>6 DEF Text!ReadAt
  <2> QED BY <2>7 DEF i
<1>7. \A m \in 0..(n - 1) : kept[m] = read[m]
  <2>1. \A m \in 0..(n - 1) : m \in S
    <3> HIDE DEF S
    <3> QED BY <1>1, <1>5, <1>6, UpTo
  <2> QED BY <2>1
<1>8. ASSUME NEW m \in 0..n PROVE Calm(cut, kept, m)
  <2>1. CASE m = n BY <1>1, <1>2, <2>1 DEF Calm, After
  <2>2. CASE m # n
    <3>1. m \in 0..(n - 1) /\ m + 1 \in 1..n /\ m \in 0..Len(text) /\ m < Len(text) BY <1>1, <2>2
    <3>2. Calm(text, read, m) BY <3>1 DEF AllCalm
    <3>3. kept[m] = read[m] /\ cut[m + 1] = text[m + 1] BY <1>2, <1>7, <3>1
    <3> QED BY <3>1, <3>2, <3>3 DEF Calm, After
  <2> QED BY <2>1, <2>2
<1>9. kept[n].rows = read[n].rows
  <2> DEFINE p == read[n - 1]
             q == read[n]
             k == kept[n]
  <2>1. n \in 1..n /\ n \in 1..Len(cut) /\ n - 1 \in 0..Len(text) BY <1>1, <1>2
  <2>2. k = Text!ReadAt(cut, p, n) /\ q = Text!ReadAt(text, p, n) BY <1>1, <1>3, <1>7, <2>1
  <2>3. p \in Reader /\ p.next \in Nat
    <3>1. p \in Reader BY <2>1 DEF Runs
    <3> QED BY <3>1 DEF Reader
  <2>4. cut[n] = text[n] BY <1>2, <2>1
  <2> HIDE DEF p, q, k
  <2>5. CASE n < p.next
    <3>1. k = p /\ q = p BY <2>2, <2>5 DEF Text!ReadAt
    <3> QED BY <3>1 DEF k, q
  <2>6. CASE n >= p.next
    <3>1. q.rows = IF p.quoted \/ text[n] \notin {Text!LF, Text!CR} THEN p.rows
                   ELSE Append(p.rows, Append(p.row, p.field))
      <4>1. text \in Seq(Text!Chars) /\ n \in 1..Len(text) BY <1>1
      <4>2. q = Text!ReadAt(text, p, n) BY <2>2
      <4> QED BY <2>3, <2>6, <4>1, <4>2, ReadFlags
    <3>2. k.rows = IF p.quoted \/ cut[n] \notin {Text!LF, Text!CR} THEN p.rows
                   ELSE Append(p.rows, Append(p.row, p.field))
      BY <1>1, <2>1, <2>2, <2>3, <2>6, ReadFlags
    <3> QED BY <2>4, <3>1, <3>2 DEF k, q
  <2> QED BY <1>1, <2>3, <2>5, <2>6
<1> QED BY <1>2, <1>8, <1>9 DEF AllCalm

\* All rows but the last of those that begin T, or of those and one more.
LEMMA AllButLast ==
  ASSUME NEW D, NEW T \in Seq(D), NEW past \in Seq(D), Begins(past, T), NEW x \in D
  PROVE  /\ Text!IsPrefix(Text!Front(Append(past, x)), T)
         /\ past # Nil => Text!IsPrefix(Text!Front(past), T)
<1>1. ASSUME NEW k \in 0..Len(past) PROVE Text!IsPrefix(SubSeq(past, 1, k), T)
  <2> DEFINE s == SubSeq(past, 1, k)
             u == SubSeq(T, 1, k)
  <2>1. k \in 0..Len(T) /\ k \in Nat
    <3>1. Len(past) \in Nat /\ Len(T) \in Nat OBVIOUS
    <3> QED BY <3>1 DEF Begins
  <2>2. s \in Seq(D) /\ Len(s) = k /\ \A m \in 1..k : s[m] = past[m] BY Prefixes
  <2>3. u \in Seq(D) /\ Len(u) = k /\ \A m \in 1..k : u[m] = T[m] BY <2>1, Prefixes
  <2>4. \A m \in 1..k : past[m] = T[m] BY <2>1 DEF Begins
  <2> HIDE DEF s, u
  <2>5. s = u
    <3>1. \A m \in 1..k : s[m] = u[m] BY <2>2, <2>3, <2>4
    <3> QED BY <2>2, <2>3, <3>1
  <2>6. SubSeq(s, 1, Len(s)) = s BY <2>2
  <2>7. Len(s) <= Len(T) BY <2>1, <2>2
  <2>8. SubSeq(T, 1, Len(s)) = u BY <2>2 DEF u
  <2>9. Text!IsPrefix(s, T) BY <2>5, <2>6, <2>7, <2>8 DEF Text!IsPrefix
  <2> QED BY <2>9 DEF s
<1>2. Len(past) \in Nat /\ Len(past) \in 0..Len(past) OBVIOUS
<1>3. Text!Front(Append(past, x)) = SubSeq(past, 1, Len(past))
  <2> DEFINE a == Append(past, x)
  <2>1. Len(a) - 1 = Len(past) OBVIOUS
  <2>2. SubSeq(a, 1, Len(past)) = SubSeq(past, 1, Len(past)) OBVIOUS
  <2> QED BY <2>1, <2>2 DEF Text!Front
<1>4. past # Nil => Len(past) - 1 \in 0..Len(past)
  <2>1. past # Nil => Len(past) # 0 BY DEF Nil
  <2> QED BY <1>2, <2>1
<1> QED BY <1>1, <1>2, <1>3, <1>4 DEF Text!Front

\* A written table that is cut off is refused in a quoted field, and has its rows otherwise.
LEMMA CutsOff ==
  ASSUME NEW T \in Tables, NEW text, text = Text!serializeCsv(T), NEW n \in 1..Len(text),
         NEW cut, CutTo(text, n, cut)
  PROVE  IF Odd(text, n) THEN Text!parseCsv(cut) = "unterminated"
         ELSE Text!parseCsv(cut) = Nil \/ Text!IsPrefix(Text!Front(Text!parseCsv(cut)), T)
<1> DEFINE read == Text!Reading(text)
           kept == Text!Reading(cut)
           p == kept[n]
           D == Seq(Seq(Text!Chars))
<1>1. /\ text \in Seq(Text!Chars) /\ AllCalm(text, read, 0, Len(text))
      /\ Is(read[Len(text)], Len(text), T, Nil, Nil, FALSE)
  BY WritesBack
<1>2. n \in 0..Len(text) BY <1>1
<1>3. cut \in Seq(Text!Chars) /\ Len(cut) = n /\ \A m \in 1..n : cut[m] = text[m]
  BY <1>1, <1>2, Prefixes DEF CutTo
<1>4. Runs(text, read) /\ Runs(cut, kept) BY <1>1, <1>3, ReadingRuns
<1>5. Text!parseCsv(cut) = Text!LastRow(p) BY <1>3 DEF Text!parseCsv
<1> HIDE DEF read, kept
<1>6. AllCalm(cut, kept, 0, Len(cut)) /\ p.rows = read[n].rows
  <2> HIDE DEF p
  <2>1. AllCalm(cut, kept, 0, Len(cut)) /\ kept[n].rows = read[n].rows BY <1>1, <1>4, CutRead
  <2> QED BY <2>1 DEF p
<1>7. p.quoted <=> Odd(text, n)
  <2>1. p.quoted <=> Odd(cut, n) BY <1>3, <1>4, <1>6, QuotesPair
  <2>2. Quotes(cut, n) = Quotes(text, n) BY <1>3 DEF Quotes
  <2> QED BY <2>1, <2>2 DEF Odd
<1>8. Begins(p.rows, T)
  <2>1. Begins(read[n].rows, read[Len(text)].rows) BY <1>2, <1>4, RowsStay
  <2>2. read[Len(text)].rows = T BY <1>1 DEF Is
  <2> QED BY <1>6, <2>1, <2>2
<1>9. p \in Reader
  <2>1. n \in 0..Len(cut) BY <1>2, <1>3
  <2> QED BY <1>4, <2>1 DEF Runs
<1>10. p.rows \in Seq(D) /\ Append(p.row, p.field) \in D /\ p.quoted \in BOOLEAN
  <2>1. p.rows \in Seq(D) /\ p.row \in Seq(Seq(Text!Chars)) /\ p.field \in Seq(Text!Chars) /\ p.quoted \in BOOLEAN
    BY <1>9 DEF Reader
  <2> QED BY <2>1
<1>11. T \in Seq(D) BY DEF Tables
<1> HIDE DEF p, D
<1>12. /\ Text!IsPrefix(Text!Front(Append(p.rows, Append(p.row, p.field))), T)
       /\ p.rows # Nil => Text!IsPrefix(Text!Front(p.rows), T)
  BY <1>8, <1>10, <1>11, AllButLast
<1>13. Text!EndRow(p).rows = Append(p.rows, Append(p.row, p.field)) BY <1>9, RowDoes
<1>14. CASE Odd(text, n)
  <2>1. Text!LastRow(p) = "unterminated" BY <1>7, <1>14 DEF Text!LastRow
  <2> QED BY <1>5, <1>14, <2>1
<1>15. CASE ~Odd(text, n)
  <2>1. Text!LastRow(p) = Text!EndRow(p).rows \/ Text!LastRow(p) = p.rows
    BY <1>7, <1>15 DEF Text!LastRow
  <2> QED BY <1>5, <1>12, <1>13, <1>15, <2>1
<1> QED BY <1>14, <1>15

-----------------------------------------------------------------------------
\* The header and the rows in scope, among the first n of a table.
InScope(T, allowed, column, n) == {r \in 1..n : r = 1 \/ T[r][column] \in allowed}

\* Rows s are those in scope among the first n, each after as many as are in scope before it.
Scopes(T, allowed, column, n, s) ==
  /\ Len(s) = Cardinality(InScope(T, allowed, column, n))
  /\ \A r \in InScope(T, allowed, column, n) :
       /\ Cardinality(InScope(T, allowed, column, r)) \in 1..Len(s)
       /\ s[Cardinality(InScope(T, allowed, column, r))] = T[r]
  /\ \A m \in 1..Len(s) : Len(s[m]) > 1

LEMMA ScopeFinite ==
  ASSUME NEW T, NEW allowed, NEW column, NEW n \in Nat
  PROVE  /\ IsFiniteSet(InScope(T, allowed, column, n))
         /\ Cardinality(InScope(T, allowed, column, n)) \in Nat
<1>1. IsFiniteSet(1..n) BY FS_Interval
<1>2. IsFiniteSet(InScope(T, allowed, column, n)) BY <1>1, FS_Subset DEF InScope
<1> QED BY <1>2, FS_CardinalityType

\* A row more that is in scope, or that is not.
LEMMA ScopeStep ==
  ASSUME NEW T \in Tables, NEW allowed, NEW column, NEW n \in 0..(Len(T) - 1),
         NEW s \in Seq(Seq(Seq(Text!Chars))), Scopes(T, allowed, column, n, s),
         NEW u, u = s \o (IF n + 1 = 1 \/ T[n + 1][column] \in allowed THEN <<T[n + 1]>> ELSE <<>>)
  PROVE  Scopes(T, allowed, column, n + 1, u)
<1> DEFINE K(m) == InScope(T, allowed, column, m)
           D == Seq(Seq(Text!Chars))
           i == n + 1
<1>1. /\ T \in Seq(D) /\ Len(T) \in Nat /\ \A r \in 1..Len(T) : Len(T[r]) > 1
      /\ n \in Nat /\ i \in Nat /\ i \in 1..Len(T)
  BY DEF Tables
<1>2. T[i] \in D /\ Len(T[i]) > 1 BY <1>1
<1>3. s \in Seq(D) /\ Len(s) \in Nat OBVIOUS
<1>4. /\ Len(s) = Cardinality(K(n))
      /\ \A r \in K(n) : Cardinality(K(r)) \in 1..Len(s) /\ s[Cardinality(K(r))] = T[r]
      /\ \A m \in 1..Len(s) : Len(s[m]) > 1
  BY DEF Scopes
<1>5. CASE i = 1 \/ T[i][column] \in allowed
  <2>1. u = Append(s, T[i])
    <3>1. u = s \o <<T[i]>> BY <1>5
    <3> HIDE DEF i, D
    <3> QED BY <1>2, <1>3, <3>1
  <2>2. K(i) = K(n) \cup {i} /\ i \notin K(n) BY <1>1, <1>5 DEF InScope
  <2>3. Cardinality(K(i)) = Cardinality(K(n)) + 1
    <3>1. IsFiniteSet(K(n)) BY <1>1, ScopeFinite
    <3> QED BY <2>2, <3>1, FS_AddElement
  <2> HIDE DEF K, i, D
  <2>4. Len(u) = Len(s) + 1 /\ u[Len(s) + 1] = T[i] /\ \A m \in 1..Len(s) : u[m] = s[m]
    BY <1>2, <1>3, <2>1
  <2>5. Len(u) = Cardinality(K(i)) BY <1>4, <2>3, <2>4
  <2>6. ASSUME NEW r \in K(i) PROVE Cardinality(K(r)) \in 1..Len(u) /\ u[Cardinality(K(r))] = T[r]
    <3>1. CASE r = i
      <4>1. Cardinality(K(r)) = Len(s) + 1 BY <1>4, <2>3, <3>1
      <4>2. Len(s) + 1 \in 1..(Len(s) + 1) BY <1>3
      <4> QED BY <2>4, <3>1, <4>1, <4>2
    <3>2. CASE r \in K(n)
      <4>1. Cardinality(K(r)) \in 1..Len(s) /\ s[Cardinality(K(r))] = T[r] BY <1>4, <3>2
      <4>2. \A m \in 1..Len(s) : m \in 1..(Len(s) + 1) BY <1>3
      <4> QED BY <2>4, <4>1, <4>2
    <3> QED BY <2>2, <3>1, <3>2
  <2>7. ASSUME NEW m \in 1..Len(u) PROVE Len(u[m]) > 1
    <3>1. m \in 1..Len(s) \/ m = Len(s) + 1 BY <1>3, <2>4
    <3> QED BY <1>2, <1>4, <2>4, <3>1
  <2> QED BY <2>5, <2>6, <2>7 DEF Scopes, K, i
<1>6. CASE ~(i = 1 \/ T[i][column] \in allowed)
  <2>1. u = s
    <3>1. u = s \o <<>> BY <1>6
    <3> HIDE DEF D
    <3> QED BY <1>3, <3>1
  <2>2. K(i) = K(n) BY <1>1, <1>6 DEF InScope
  <2> QED BY <2>1, <2>2 DEF Scopes
<1> QED BY <1>5, <1>6

\* An export of the rows in scope is a table of them, in their order.
LEMMA ScopeReads ==
  ASSUME NEW T \in Tables, NEW allowed, NEW column
  PROVE  Scopes(T, allowed, column, Len(T),
                Text!parseCsv(Text!scopeInventoryCsv(Text!serializeCsv(T), allowed, column)))
<1> DEFINE n == Len(T)
           D == Seq(Seq(Text!Chars))
           parts == [r \in 1..n |-> IF r = 1 \/ T[r][column] \in allowed THEN <<T[r]>> ELSE <<>>]
           C == Text!Concatenations(parts)
           S == {m \in 0..n : Scopes(T, allowed, column, m, C[m])}
<1>1. T \in Seq(D) /\ n \in Nat /\ n > 0 /\ 0 \in 0..n /\ n \in 0..n BY DEF Tables
<1>2. parts \in Seq(Seq(D)) /\ Len(parts) = n
  <2>1. \A r \in 1..n : T[r] \in D BY <1>1
  <2> HIDE DEF D, n
  <2>2. \A x \in D : <<x>> \in Seq(D) OBVIOUS
  <2>3. <<>> \in Seq(D) OBVIOUS
  <2>4. \A r \in 1..n : (IF r = 1 \/ T[r][column] \in allowed THEN <<T[r]>> ELSE <<>>) \in Seq(D)
    BY <2>1, <2>2, <2>3
  <2> QED BY <1>1, <2>4
<1>3. /\ C \in [0..n -> Seq(D)] /\ C[0] = <<>>
      /\ \A m \in 1..n : C[m] = C[m - 1] \o parts[m]
  <2> HIDE DEF parts
  <2> QED BY <1>2, Concatenating
<1>4. Text!InScope(T, allowed, column) = C[n]
  <2>1. Text!InScope(T, allowed, column) = Text!Concatenated(parts) BY DEF Text!InScope
  <2> HIDE DEF parts
  <2> QED BY <1>2, <2>1 DEF Text!Concatenated
<1>5. \A m \in 1..n : parts[m] = IF m = 1 \/ T[m][column] \in allowed THEN <<T[m]>> ELSE <<>>
  OBVIOUS
<1> HIDE DEF parts, C
<1>6. 0 \in S
  <2>1. InScope(T, allowed, column, 0) = {} BY DEF InScope
  <2>2. Len(C[0]) = 0 BY <1>3
  <2>3. Cardinality({}) = 0 BY FS_EmptySet
  <2>4. \A m \in 1..Len(C[0]) : FALSE BY <2>2
  <2>5. Scopes(T, allowed, column, 0, C[0]) BY <2>1, <2>2, <2>3, <2>4 DEF Scopes
  <2> QED BY <1>1, <2>5
<1>7. \A m \in 0..(n - 1) : m \in S => m + 1 \in S
  <2> SUFFICES ASSUME NEW m \in 0..(n - 1), Scopes(T, allowed, column, m, C[m])
               PROVE  Scopes(T, allowed, column, m + 1, C[m + 1])
    <3>1. \A m \in 0..(n - 1) : m + 1 \in 0..n BY <1>1
    <3> QED BY <3>1
  <2>1. m \in 0..n /\ m + 1 \in 1..n /\ (m + 1) - 1 = m BY <1>1
  <2>2. C[m] \in Seq(D) BY <1>3, <2>1
  <2>3. C[m + 1] = C[m] \o (IF m + 1 = 1 \/ T[m + 1][column] \in allowed THEN <<T[m + 1]>> ELSE <<>>)
    BY <1>3, <1>5, <2>1
  <2> QED BY <2>2, <2>3, ScopeStep
<1> HIDE DEF n
<1>8. n \in S
  <2> HIDE DEF S
  <2> QED BY <1>1, <1>6, <1>7, UpTo
<1> DEFINE s == C[n]
<1>9. Scopes(T, allowed, column, n, s) BY <1>8
<1>10. s \in Seq(D) BY <1>1, <1>3
<1> HIDE DEF s
<1>11. s \in Tables
  <2>1. Len(s) > 0
    <3>1. 1 \in InScope(T, allowed, column, n) BY <1>1 DEF InScope
    <3>2. Cardinality(InScope(T, allowed, column, 1)) \in 1..Len(s) BY <1>9, <3>1 DEF Scopes
    <3>3. Len(s) \in Nat BY <1>10
    <3> QED BY <3>2, <3>3
  <2>2. \A m \in 1..Len(s) : Len(s[m]) > 1 BY <1>9 DEF Scopes
  <2> QED BY <1>10, <2>1, <2>2 DEF Tables
<1>12. Text!scopeInventoryCsv(Text!serializeCsv(T), allowed, column) = Text!serializeCsv(s)
  <2>1. Text!parseCsv(Text!serializeCsv(T)) = T BY WritesBack
  <2>2. T # <<>> BY <1>1 DEF n
  <2> QED BY <1>4, <2>1, <2>2 DEF Text!scopeInventoryCsv, s
<1>13. Text!parseCsv(Text!serializeCsv(s)) = s BY <1>11, WritesBack
<1> QED BY <1>9, <1>12, <1>13 DEF n

-----------------------------------------------------------------------------
\* All rows but the last are full, the last is not empty.
TableInv ==
  /\ table \in Seq(Seq(Seq(Text!Chars))) /\ Len(table) > 0
  /\ \A r \in 1..Len(table) : Len(table[r]) \in 1..Width
  /\ \A r \in 1..(Len(table) - 1) : Len(table[r]) = Width

LEMMA TableInit == ASSUME Text!TextAssumption, Text!Init PROVE TableInv
<1> DEFINE row == <<<<>>>>
<1>1. row \in Seq(Seq(Text!Chars)) /\ Len(row) = 1 OBVIOUS
<1>2. table = <<row>> BY DEF Text!Init
<1> HIDE DEF row
<1>3. table \in Seq(Seq(Seq(Text!Chars))) /\ Len(table) = 1 /\ table[1] = row BY <1>1, <1>2
<1>4. 1 \in 1..Width BY DEF Text!TextAssumption
<1>5. \A r \in 1..Len(table) : Len(table[r]) \in 1..Width
  <2>1. \A r \in 1..Len(table) : r = 1 BY <1>3
  <2> QED BY <1>1, <1>3, <1>4, <2>1
<1>6. \A r \in 1..(Len(table) - 1) : Len(table[r]) = Width BY <1>3
<1> QED BY <1>3, <1>5, <1>6 DEF TableInv

\* The last row changes, or there is another.
LEMMA TableStep == ASSUME Text!TextAssumption, TableInv, Text!Next PROVE TableInv'
<1> DEFINE n == Len(table)
           D == Seq(Seq(Text!Chars))
           row == table[n]
<1>1. /\ table \in Seq(D) /\ n \in Nat /\ n > 0 /\ n \in 1..n /\ Width \in Nat /\ Width > 1
      /\ row \in D /\ Len(row) \in 1..Width
  BY DEF TableInv, Text!TextAssumption
<1>2. \A r \in 1..n : Len(table[r]) \in 1..Width /\ (r # n => Len(table[r]) = Width)
  BY <1>1 DEF TableInv
<1>3. ASSUME NEW u \in D, Len(u) \in 1..Width, table' = [table EXCEPT ![n] = u] PROVE TableInv'
  <2> HIDE DEF D
  <2>1. table' \in Seq(D) /\ Len(table') = n BY <1>1, <1>3
  <2>2. \A r \in 1..n : table'[r] = IF r = n THEN u ELSE table[r] BY <1>1, <1>3
  <2> HIDE DEF n
  <2>3. \A r \in 1..n : Len(table'[r]) \in 1..Width BY <1>2, <1>3, <2>2
  <2>4. \A r \in 1..(n - 1) : r \in 1..n /\ r # n BY <1>1
  <2>5. \A r \in 1..(n - 1) : Len(table'[r]) = Width BY <1>2, <2>2, <2>4
  <2> QED BY <1>1, <2>1, <2>3, <2>5 DEF TableInv, D
<1>4. ASSUME NEW c \in Text!Chars, Text!Write(c) PROVE TableInv'
  <2> DEFINE l == Len(row)
             field == row[l]
             u == [row EXCEPT ![l] = Append(field, c)]
  <2>1. l \in Nat /\ l \in 1..l /\ field \in Seq(Text!Chars) BY <1>1
  <2>2. Append(field, c) \in Seq(Text!Chars) BY <2>1
  <2>3. table' = [table EXCEPT ![n] = u] BY <1>4 DEF Text!Write, Text!Row
  <2> DEFINE f == Append(field, c)
             E == Seq(Text!Chars)
  <2>4. row \in Seq(E) /\ f \in E BY <1>1, <2>2
  <2> HIDE DEF f, E, row
  <2>5. [row EXCEPT ![l] = f] \in Seq(E) /\ Len([row EXCEPT ![l] = f]) = l BY <2>1, <2>4
  <2>6. u \in D /\ Len(u) = l BY <2>5 DEF f, E
  <2> QED BY <1>1, <1>3, <2>3, <2>6
<1>5. CASE Text!NextField
  <2> DEFINE u == Append(row, <<>>)
  <2>1. table' = [table EXCEPT ![n] = u] /\ Len(row) < Width BY <1>5 DEF Text!NextField, Text!Row
  <2>2. <<>> \in Seq(Text!Chars) OBVIOUS
  <2> HIDE DEF row
  <2>3. u \in D /\ Len(u) = Len(row) + 1 BY <1>1, <2>2
  <2>4. Len(u) \in 1..Width BY <1>1, <2>1, <2>3
  <2> QED BY <1>3, <2>1, <2>3, <2>4
<1>6. CASE Text!NextRow
  <2> DEFINE u == <<<<>>>>
  <2>1. table' = Append(table, u) /\ Len(row) = Width BY <1>6 DEF Text!NextRow, Text!Row
  <2>2. u \in D /\ Len(u) = 1 OBVIOUS
  <2> HIDE DEF u, D
  <2>3. /\ table' \in Seq(D) /\ Len(table') = n + 1 /\ table'[n + 1] = u
        /\ \A r \in 1..n : table'[r] = table[r]
    BY <1>1, <2>1, <2>2
  <2>4. Len(table[n]) = Width BY <2>1
  <2> HIDE DEF n
  <2>5. \A r \in 1..((n + 1) - 1) : r \in 1..n BY <1>1
  <2>6. \A r \in 1..(n + 1) : r \in 1..n \/ r = n + 1 BY <1>1
  <2>7. 1 \in 1..Width BY <1>1
  <2>8. \A r \in 1..n : Len(table'[r]) = Width BY <1>2, <2>3, <2>4
  <2>9. \A r \in 1..n : Len(table'[r]) \in 1..Width BY <1>1, <2>8
  <2>10. \A r \in 1..Len(table') : Len(table'[r]) \in 1..Width BY <2>2, <2>3, <2>6, <2>7, <2>9
  <2>11. \A r \in 1..(Len(table') - 1) : Len(table'[r]) = Width BY <2>3, <2>5, <2>8
  <2>12. Len(table') > 0 BY <1>1, <2>3
  <2> QED BY <2>3, <2>10, <2>11, <2>12 DEF TableInv, D
<1> QED BY <1>4, <1>5, <1>6 DEF Text!Next

LEMMA CompleteTable ==
  ASSUME Text!TextAssumption, TableInv, Text!Complete
  PROVE  table \in Tables
<1>1. /\ table \in Seq(Seq(Seq(Text!Chars))) /\ Len(table) > 0 /\ Width > 1 /\ Width \in Nat
      /\ Len(table) \in Nat
  BY DEF TableInv, Text!TextAssumption
<1>2. \A r \in 1..Len(table) : r \in 1..(Len(table) - 1) \/ r = Len(table) BY <1>1
<1>3. Len(table[Len(table)]) = Width BY DEF Text!Complete, Text!Row
<1>4. \A r \in 1..(Len(table) - 1) : Len(table[r]) = Width BY DEF TableInv
<1>5. \A r \in 1..Len(table) : Len(table[r]) > 1 BY <1>1, <1>2, <1>3, <1>4
<1> QED BY <1>1, <1>5 DEF Tables

\* However its fields are quoted and its lines ended, a table is read back from its file.
LEMMA TextReads ==
  ASSUME Text!TextAssumption, TableInv, Text!Complete, NEW style \in Text!Styles
  PROVE  Text!parseCsv(Text!Saved(style)) = table
<1> DEFINE E == [r \in 1..Len(table) |-> [k \in 1..Len(table[r]) |-> Text!SavedField(style, table[r][k])]]
           lines == [r \in 1..Len(table) |-> Text!Joined(E[r], <<Text!Comma>>)]
           eol == style.eol
           tail == IF style.last THEN eol ELSE <<>>
           text == Text!Saved(style)
<1>1. table \in Tables BY CompleteTable
<1>2. ASSUME NEW r \in 1..Len(table), NEW k \in 1..Len(table[r]) PROVE Written(E[r][k], table[r][k])
  <2> DEFINE f == table[r][k]
  <2>1. E[r][k] = Text!SavedField(style, f) OBVIOUS
  <2>2. f \in Seq(Text!Chars)
    <3>1. table[r] \in Seq(Seq(Text!Chars)) BY <1>1 DEF Tables
    <3> QED BY <3>1
  <2> HIDE DEF f
  <2>3. Written(Text!SavedField(style, f), f)
    <3>1. CASE style.all \/ \E m \in 1..Len(f) : f[m] # "x"
      BY <2>2, <3>1 DEF Text!SavedField, Written
    <3>2. CASE ~(style.all \/ \E m \in 1..Len(f) : f[m] # "x")
      BY <2>2, <3>2 DEF Text!SavedField, Written
    <3> QED BY <3>1, <3>2
  <2> QED BY <2>1, <2>3 DEF f
<1>3. E = [r \in 1..Len(table) |-> [k \in 1..Len(table[r]) |-> E[r][k]]] OBVIOUS
<1>4. text = Text!Joined(lines, eol) \o tail
  <2>1. \A r \in 1..Len(table) :
          E[r] = [k \in 1..Len(table[r]) |-> Text!SavedField(style, table[r][k])]
    OBVIOUS
  <2>2. lines = [r \in 1..Len(table) |->
                   Text!Joined([k \in 1..Len(table[r]) |-> Text!SavedField(style, table[r][k])], <<Text!Comma>>)]
    BY <2>1
  <2> HIDE DEF lines, E
  <2> QED BY <2>2 DEF Text!Saved
<1> HIDE DEF E
<1>5. Lines(table, E, lines) BY <1>1, <1>2, <1>3, LinesOf
<1>6. eol \in Eols BY DEF Eols, Text!Styles
<1>7. tail \in {Nil, eol} BY DEF Nil
<1> HIDE DEF lines, eol, text, tail
<1>8. Text!parseCsv(text) = table BY <1>4, <1>5, <1>6, <1>7, FileRead
<1> QED BY <1>8 DEF text

LEMMA TextCut == ASSUME Text!TextAssumption, TableInv PROVE Text!CutOff
<1> SUFFICES ASSUME Text!Complete
             PROVE  \A n \in 1..Len(Text!serializeCsv(table)) :
                      IF Text!Cardinality({i \in 1..n : Text!serializeCsv(table)[i] = Text!Quote}) % 2 = 1
                      THEN Text!parseCsv(SubSeq(Text!serializeCsv(table), 1, n)) = "unterminated"
                      ELSE \/ Text!parseCsv(SubSeq(Text!serializeCsv(table), 1, n)) = <<>>
                           \/ Text!IsPrefix(Text!Front(Text!parseCsv(SubSeq(Text!serializeCsv(table), 1, n))), table)
  BY DEF Text!CutOff
<1> DEFINE text == Text!serializeCsv(table)
<1>1. table \in Tables BY CompleteTable
<1> SUFFICES ASSUME NEW n \in 1..Len(text)
             PROVE  IF Text!Cardinality({i \in 1..n : text[i] = Text!Quote}) % 2 = 1
                    THEN Text!parseCsv(SubSeq(text, 1, n)) = "unterminated"
                    ELSE \/ Text!parseCsv(SubSeq(text, 1, n)) = <<>>
                         \/ Text!IsPrefix(Text!Front(Text!parseCsv(SubSeq(text, 1, n))), table)
  OBVIOUS
<1> DEFINE cut == SubSeq(text, 1, n)
           all == Text!parseCsv(cut)
<1>2. CutTo(text, n, cut) BY DEF CutTo
<1> HIDE DEF text, cut
<1>3. IF Odd(text, n) THEN Text!parseCsv(cut) = "unterminated"
      ELSE Text!parseCsv(cut) = Nil \/ Text!IsPrefix(Text!Front(Text!parseCsv(cut)), table)
  BY <1>1, <1>2, CutsOff DEF text
<1>4. Text!Cardinality({i \in 1..n : text[i] = Text!Quote}) = Cardinality(Quotes(text, n))
  BY DEF Text!Cardinality, Cardinality, Quotes
<1>5. (Text!Cardinality({i \in 1..n : text[i] = Text!Quote}) % 2 = 1) <=> Odd(text, n)
  BY <1>4 DEF Odd
<1> HIDE DEF all
<1> QED BY <1>3, <1>5 DEF cut, Nil

LEMMA TextScoped == ASSUME Text!TextAssumption, TableInv PROVE Text!ScopedRows
<1> SUFFICES ASSUME Text!Complete, NEW allowed \in SUBSET Text!TableAreas
             PROVE  LET scoped == Text!parseCsv(Text!scopeInventoryCsv(Text!serializeCsv(table), allowed, Width))
                        inside == {r \in 2..Len(table) : table[r][Width] \in allowed}
                    IN  /\ Len(scoped) = 1 + Text!Cardinality(inside)
                        /\ scoped[1] = table[1]
                        /\ \A r \in inside :
                             scoped[1 + Text!Cardinality({q \in inside : q <= r})] = table[r]
  BY DEF Text!ScopedRows
<1> DEFINE s == Text!parseCsv(Text!scopeInventoryCsv(Text!serializeCsv(table), allowed, Width))
           n == Len(table)
           inside == {r \in 2..n : table[r][Width] \in allowed}
           K(m) == InScope(table, allowed, Width, m)
           upto(r) == {q \in inside : q <= r}
<1>1. table \in Tables BY CompleteTable
<1>2. n \in Nat /\ n > 0 BY DEF TableInv
<1>3. Scopes(table, allowed, Width, n, s) BY <1>1, ScopeReads
<1> HIDE DEF s, n
<1>4. /\ Len(s) = Cardinality(K(n))
      /\ \A r \in K(n) : s[Cardinality(K(r))] = table[r]
  BY <1>3 DEF Scopes
<1>5. ASSUME NEW r \in 1..n
      PROVE  /\ r \in K(n) <=> r = 1 \/ r \in inside
             /\ Cardinality(K(r)) = 1 + Cardinality(upto(r))
  <2>1. r \in K(n) <=> r = 1 \/ r \in inside BY <1>2 DEF InScope
  <2>2. K(r) = upto(r) \cup {1} /\ 1 \notin upto(r) BY <1>2 DEF InScope
  <2>3. IsFiniteSet(upto(r)) /\ Cardinality(upto(r)) \in Nat
    <3>1. IsFiniteSet(K(r)) BY <1>2, ScopeFinite
    <3>2. IsFiniteSet(upto(r)) BY <2>2, <3>1, FS_Subset
    <3> QED BY <3>2, FS_CardinalityType
  <2> HIDE DEF K, upto
  <2>4. Cardinality(K(r)) = Cardinality(upto(r)) + 1 BY <2>2, <2>3, FS_AddElement
  <2> QED BY <2>1, <2>3, <2>4
<1>6. Len(s) = 1 + Cardinality(inside)
  <2>1. n \in 1..n BY <1>2
  <2>2. upto(n) = inside BY <1>2
  <2>3. Cardinality(K(n)) = 1 + Cardinality(upto(n)) BY <1>5, <2>1
  <2> QED BY <1>4, <2>2, <2>3
<1>7. s[1] = table[1]
  <2>1. 1 \in 1..n BY <1>2
  <2>2. upto(1) = {} OBVIOUS
  <2>3. Cardinality(K(1)) = 1
    <3>1. Cardinality(upto(1)) = 0 BY <2>2, FS_EmptySet
    <3>2. Cardinality(K(1)) = 1 + Cardinality(upto(1)) BY <1>5, <2>1
    <3> QED BY <3>1, <3>2
  <2>4. 1 \in K(n) BY <1>5, <2>1
  <2> HIDE DEF K
  <2> QED BY <1>4, <2>3, <2>4
<1>8. ASSUME NEW r \in inside PROVE s[1 + Cardinality(upto(r))] = table[r]
  <2>1. r \in 1..n BY <1>2
  <2>2. r \in K(n) /\ Cardinality(K(r)) = 1 + Cardinality(upto(r)) BY <1>5, <2>1
  <2> HIDE DEF K, upto
  <2> QED BY <1>4, <2>2
<1>9. \A S : Text!Cardinality(S) = Cardinality(S) BY DEF Text!Cardinality, Cardinality
<1> HIDE DEF inside
<1>10. \A r \in inside : s[1 + Text!Cardinality({q \in inside : q <= r})] = table[r] BY <1>8, <1>9
<1>11. Len(s) = 1 + Text!Cardinality(inside) BY <1>6, <1>9
<1> QED BY <1>7, <1>10, <1>11 DEF s, n, inside

LEMMA TextMeans ==
  ASSUME Text!TextAssumption, TableInv
  PROVE  Text!ReadBack /\ Text!WrittenBack /\ Text!CutOff /\ Text!ScopedRows
<1>1. Text!ReadBack BY TextReads DEF Text!ReadBack
<1>2. Text!WrittenBack
  <2>1. ASSUME Text!Complete PROVE Text!parseCsv(Text!serializeCsv(table)) = table
    BY <2>1, CompleteTable, WritesBack
  <2> QED BY <2>1 DEF Text!WrittenBack
<1> QED BY <1>1, <1>2, TextCut, TextScoped

-----------------------------------------------------------------------------
(***************************************************************************)
(* The parts of the run are parts of the specifications.                   *)
(***************************************************************************)

LEMMA PartsBegin == PartInit => Graph!Init /\ Audit!Init /\ Files!Init /\ Text!Init
BY DEF PartInit

LEMMA PartsStep ==
  ASSUME [PartNext]_PartVars
  PROVE  /\ [Graph!Next]_(Graph!vars) /\ [Audit!Next]_(Audit!vars) /\ [Files!Next]_(Files!vars)
         /\ [Text!Next]_table
<1>1. UNCHANGED queryVars => UNCHANGED Graph!vars
  BY DEF queryVars, Graph!vars
<1>2. UNCHANGED auditVars => UNCHANGED Audit!vars
  BY DEF auditVars, Audit!vars
<1>3. UNCHANGED fileVars => UNCHANGED Files!vars
  BY DEF fileVars, Files!vars
<1>4. \A row \in Files!Rows : Files!Turn(row) => Files!Next
  BY DEF Files!Next
<1>5. CASE PartNext
  <2>1. CASE StableNext /\ UNCHANGED <<part, queryVars, auditVars, fileVars, table>>
    BY <1>1, <1>2, <1>3, <2>1
  <2>2. CASE Graph!Next /\ UNCHANGED <<part, vars, auditVars, fileVars, table>>
    BY <1>2, <1>3, <2>2
  <2>3. CASE Audit!Next /\ UNCHANGED <<part, vars, queryVars, fileVars, table>>
    BY <1>1, <1>3, <2>3
  <2>4. CASE /\ \E row \in Files!Rows : Files!Turn(row)
             /\ UNCHANGED <<part, vars, queryVars, auditVars, table>>
    BY <1>1, <1>2, <1>4, <2>4
  <2>5. CASE Text!Next /\ UNCHANGED <<part, vars, queryVars, auditVars, fileVars>>
    BY <1>1, <1>2, <1>3, <2>5
  <2> QED BY <1>5, <2>1, <2>2, <2>3, <2>4, <2>5 DEF PartNext
<1>6. CASE UNCHANGED PartVars
  BY <1>1, <1>2, <1>3, <1>6 DEF PartVars
<1> QED BY <1>5, <1>6

\* The answers to graph queries and audits, of any graph and any registry, are what their
\* definitions without search say (query.py, reference_audit.py).
THEOREM AnswersComplete == PartSpec => []AnswersAreComplete
<1>1. PartInit => GraphInv /\ AuditInv
  BY PartsBegin, PartsAssumption, GraphInit, AuditInit
<1>2. GraphInv /\ AuditInv /\ [PartNext]_PartVars => GraphInv' /\ AuditInv'
  BY PartsStep, PartsAssumption, GraphStep, AuditStep
<1>3. GraphInv /\ AuditInv => AnswersAreComplete
  <2> SUFFICES ASSUME GraphInv, AuditInv PROVE AnswersAreComplete
    OBVIOUS
  <2>1. Graph!TypeOK /\ Graph!PathIsFirst /\ Graph!HitsAreDistances
    BY GraphTypes, PathsAreFirst, HitsAreFound
  <2>2. Audit!TypeOK
    BY DEF AuditInv, AuditRecord, Report, Audit!TypeOK
  <2>3. Audit!GapsAreTold /\ Audit!NoChoiceBetweenLights
    BY PartsAssumption, AuditTold
  <2> QED BY <2>1, <2>2, <2>3 DEF AnswersAreComplete
<1> QED BY <1>1, <1>2, <1>3, PTL DEF PartSpec

\* CSV files of any length apply at once (csv_inventory.py _apply_csv, export_inventory_csv).
THEOREM FilesAtOnce == PartSpec => []FilesApplyAtOnce
<1>1. PartInit => BatchInv
  BY PartsBegin, PartsAssumption, BatchInit
<1>2. BatchInv /\ [PartNext]_PartVars => BatchInv'
  BY PartsStep, PartsAssumption, BatchNext
<1>3. BatchInv => FilesApplyAtOnce
  BY BatchMeans DEF FilesApplyAtOnce
<1> QED BY <1>1, <1>2, <1>3, PTL DEF PartSpec

\* Tables of any size, with any characters in their fields, are read back from any file that
\* means them, and a part of their rows from its export; a file of them that is cut off in a
\* quoted field is refused (csv-inventory.js parseCsv, serializeCsv, scopeInventoryCsv).
THEOREM TextsRead == PartSpec => []TextsReadBack
<1>1. PartInit => TableInv
  BY PartsBegin, PartsAssumption, TableInit
<1>2. TableInv /\ [PartNext]_PartVars => TableInv'
  <2>1. ASSUME TableInv, Text!Next PROVE TableInv'
    BY <2>1, PartsAssumption, TableStep
  <2>2. ASSUME TableInv, UNCHANGED table PROVE TableInv'
    BY <2>2 DEF TableInv
  <2> QED BY <2>1, <2>2, PartsStep
<1>3. TableInv => TextsReadBack
  BY PartsAssumption, TextMeans DEF TextsReadBack
<1> QED BY <1>1, <1>2, <1>3, PTL DEF PartSpec
=============================================================================

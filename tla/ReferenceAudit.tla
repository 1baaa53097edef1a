--------------------------- MODULE ReferenceAudit ----------------------------
(***************************************************************************)
(* The audit of direct references (reference_audit.py): which automations, *)
(* scenes and dashboards name the hardware behind an asset, and whether a  *)
(* logical light could take the place of that name.                        *)
(*                                                                         *)
(* Targets are taken from the registry at the start; each dashboard is     *)
(* awaited, and everything may change meanwhile.  Hardware is an entry of  *)
(* the entity registry, with a name or, once removed, none.  A binding has *)
(* the entry, or none, and the name it was stored with.  A light stands    *)
(* for a representation and the entity it has by now.  A consumer has at   *)
(* most one reference, which is the name or a template that has it inside. *)
(* Scripts are handled as automations are.                                 *)
(***************************************************************************)
EXTENDS Integers, FiniteSets

CONSTANTS
  Keys,          \* of bindings
  AssetOf(_),    \* of a key
  Hardware, Names,
  Automations, Scenes, Dashboards,
  None,
  MaxChanges     \* during an audit

Assets == { AssetOf(k) : k \in Keys }

AuditAssumption ==
  None \notin Hardware \cup Names \cup Assets /\ IsFiniteSet(Keys) /\ MaxChanges \in Nat

VARIABLES
  bound,     \* the binding of each key
  nameOf,    \* of hardware
  lights,    \* the assets with a logical light
  uses,      \* the reference each consumer has
  sources,   \* the kinds of consumers that are loaded
  audit,
  changes,
  steady     \* history: keys and consumers that are as when the audit began

vars == <<bound, nameOf, lights, uses, sources, audit, changes, steady>>

Reporters == Automations \cup Scenes
Consumers == Reporters \cup Dashboards
Binding   == [entry : Hardware \cup {None}, name : Names]
Kind      == {"automation", "scene", "dashboard"}
Match     == {"direct", "template"}

KindOf(c) ==
  IF c \in Automations THEN "automation" ELSE IF c \in Scenes THEN "scene" ELSE "dashboard"

\* Home Assistant's own search for a name looks into no template.
References(c) ==
  {None} \cup [name : Names, match : IF c \in Dashboards THEN Match ELSE {"direct"}]

-----------------------------------------------------------------------------
(***************************************************************************)
(* Targets, and what is said of a reference to one.                        *)
(***************************************************************************)

\* _current_binding_entity_id
TargetName(b) ==
  IF b.entry # None /\ nameOf[b.entry] # None THEN nameOf[b.entry] ELSE b.name

BoundTo(n) == { k \in Keys : bound[k] # None /\ TargetName(bound[k]) = n }

LogicalFor(n) == { AssetOf(k) : k \in BoundTo(n) } \cap lights

Targets == [n \in { m \in Names : BoundTo(m) # {} } |-> LogicalFor(n)]

\* deterministic_replacement
Replacement(options) == IF Cardinality(options) = 1 THEN CHOOSE a \in options : TRUE ELSE None

\* The reference of c as it is found, if it is to a target.  What a scene has,
\* and a value of a dashboard that is the very name, could be replaced.
Found(targets, c) ==
  IF uses[c] = None \/ uses[c].name \notin DOMAIN targets THEN {}
  ELSE LET by == Replacement(targets[uses[c].name]) IN
       { [consumer |-> c, name |-> uses[c].name, replacement |-> by,
          rewrite |-> by # None /\ uses[c].match = "direct" /\ c \notin Automations] }

-----------------------------------------------------------------------------
(***************************************************************************)
(* The audit.                                                              *)
(***************************************************************************)

Idle == [phase |-> "idle", targets |-> <<>>, left |-> {}, found |-> {}, gaps |-> {}]

\* Up to the first dashboard nothing is awaited.
Begin ==
  /\ audit = Idle
  /\ audit' = [ phase   |-> "loading",
                targets |-> Targets,
                left    |-> { d \in Dashboards : "dashboard" \in sources },
                found   |-> UNION { Found(Targets, c) : c \in { r \in Reporters : KindOf(r) \in sources } },
                gaps    |-> { k \in Kind : k \notin sources } ]
  /\ UNCHANGED <<bound, nameOf, lights, uses, sources, changes, steady>>

\* Mutant: a dashboard that cannot be read is passed over.
LoadQuietly(d) ==
  /\ audit.phase = "loading" /\ d \in audit.left
  /\ \/ audit' = [audit EXCEPT !.left = @ \ {d}, !.found = @ \cup Found(audit.targets, d)]
     \/ audit' = [audit EXCEPT !.left = @ \ {d}]
  /\ UNCHANGED <<bound, nameOf, lights, uses, sources, changes, steady>>

\* A dashboard is read, or cannot be.  Their order decides nothing here.
Load(d) ==
  /\ audit.phase = "loading" /\ d \in audit.left
  /\ \/ audit' = [audit EXCEPT !.left = @ \ {d}, !.found = @ \cup Found(audit.targets, d)]
     \/ audit' = [audit EXCEPT !.left = @ \ {d}, !.gaps = @ \cup {d}]
  /\ UNCHANGED <<bound, nameOf, lights, uses, sources, changes, steady>>

Report ==
  /\ audit.phase = "loading" /\ audit.left = {}
  /\ audit' = [audit EXCEPT !.phase = "reported"]
  /\ UNCHANGED <<bound, nameOf, lights, uses, sources, changes, steady>>

-----------------------------------------------------------------------------
(***************************************************************************)
(* What changes while dashboards are awaited.                              *)
(***************************************************************************)

Change ==
  /\ audit.phase = "loading" /\ audit.left # {} /\ changes < MaxChanges
  /\ changes' = changes + 1
  /\ UNCHANGED <<sources, audit>>

\* A commit.
Bind(k) ==
  /\ Change
  /\ \E b \in {None} \cup { [entry |-> h, name |-> nameOf[h]] : h \in { g \in Hardware : nameOf[g] # None } } :
       bound' = [bound EXCEPT ![k] = b]
  /\ steady' = steady \ {k}
  /\ UNCHANGED <<nameOf, lights, uses>>

Represent(a) ==
  /\ Change
  /\ lights' = (lights \ {a}) \cup ({a} \ lights)
  /\ UNCHANGED <<bound, nameOf, uses, steady>>

\* Hardware is renamed, removed, or added anew.
Rename(h) ==
  /\ Change
  /\ \E n \in {None} \cup (Names \ { nameOf[g] : g \in Hardware \ {h} }) :
       nameOf' = [nameOf EXCEPT ![h] = n]
  /\ steady' = steady \ { k \in Keys : bound[k] # None /\ bound[k].entry = h }
  /\ UNCHANGED <<bound, lights, uses>>

Edit(c) ==
  /\ Change
  /\ \E u \in References(c) : uses' = [uses EXCEPT ![c] = u]
  /\ steady' = steady \ {c}
  /\ UNCHANGED <<bound, nameOf, lights>>

-----------------------------------------------------------------------------
\* Bindings, names and references are those of any past.
Init ==
  /\ bound \in [Keys -> Binding \cup {None}]
  /\ nameOf \in [Hardware -> Names \cup {None}]
  /\ \A g, h \in Hardware : g # h /\ nameOf[g] # None => nameOf[g] # nameOf[h]
  /\ lights \in SUBSET Assets
  /\ uses \in [Consumers -> UNION { References(c) : c \in Consumers }]
  /\ \A c \in Consumers : uses[c] \in References(c)
  /\ sources \in SUBSET Kind
  /\ audit = Idle
  /\ changes = 0
  /\ steady = Keys \cup Consumers

Next ==
  \/ Begin \/ Report
  \/ \E d \in Dashboards : Load(d)
  \/ \E k \in Keys : Bind(k)
  \/ \E a \in Assets : Represent(a)
  \/ \E h \in Hardware : Rename(h)
  \/ \E c \in Consumers : Edit(c)

Spec == Init /\ [][Next]_vars

-----------------------------------------------------------------------------
TypeOK ==
  /\ bound \in [Keys -> Binding \cup {None}] /\ nameOf \in [Hardware -> Names \cup {None}]
  /\ lights \subseteq Assets /\ \A c \in Consumers : uses[c] \in References(c)
  /\ audit.phase = "reported" => audit.left = {}
  /\ audit.gaps \subseteq Kind \cup Dashboards
  /\ \A f \in audit.found : f.consumer \in Consumers /\ f.replacement \in Assets \cup {None}

\* A reference to bound hardware, both as they were throughout the audit, is
\* reported, or the source it is in is reported as incomplete
\* (reference_audit.py:322).
GapsAreTold ==
  audit.phase = "reported" =>
    \A k \in Keys \cap steady, c \in Consumers \cap steady :
      bound[k] # None /\ uses[c] # None /\ uses[c].name = TargetName(bound[k]) =>
        \/ c \in audit.gaps \/ KindOf(c) \in audit.gaps
        \/ \E f \in audit.found : f.consumer = c /\ f.name = uses[c].name

\* Of two assets that share hardware and both have a light, none is chosen for
\* the other (reference_audit.py:36).
NoChoiceBetweenLights ==
  audit.phase # "idle" /\ changes = 0 =>
    \A f \in audit.found : \A k \in BoundTo(f.name) :
      f.rewrite /\ AssetOf(k) \in lights => f.replacement = AssetOf(k)

=============================================================================

---------------------------- MODULE Preferences ----------------------------
(***************************************************************************)
(* One preference of the panel: whether the advanced view is pinned, the   *)
(* introduction dismissed, a floor of the home tree collapsed.  It is kept *)
(* in Home Assistant's user data; an older value in the browser's storage  *)
(* is moved there when the user has none.                                  *)
(*                                                                         *)
(* The three are restored and set by the same code but for their guards.   *)
(* A generation tells a restore that is out of date; here a message has    *)
(* "own", which a choice or another user takes from all that are under     *)
(* way.  The socket keeps the order of calls and of answers.               *)
(***************************************************************************)
EXTENDS Integers, Sequences

CONSTANTS
  Users, Admins,
  None,
  Faults,         \* whether the server may fail
  MaxWaiting      \* bound: calls under way

ASSUME PreferencesAssumption ==
  /\ Admins \subseteq Users /\ Users # {}
  /\ None \notin Users \cup BOOLEAN
  /\ Faults \in BOOLEAN /\ MaxWaiting \in Nat

VARIABLES
  kind,                 \* which of the three
  user,                 \* hass.user.id
  shown,                \* what the panel has
  server, legacy,       \* user data and the browser's storage, per user
  toServer, toPanel,    \* the socket
  chosen                \* history: the choice of the user on show

store == <<server, legacy>>
socket == <<toServer, toPanel>>
vars == <<kind, user, shown, store, socket, chosen>>

Kinds == {"pinned", "dismissed", "collapsed"}
Stored == BOOLEAN \cup {None}
Call == [type : {"get"}, user : Users, own : BOOLEAN]
          \cup [type : {"set", "migrate"}, user : Users, own : BOOLEAN, value : BOOLEAN]
Answer == [type : {"value"}, user : Users, own : BOOLEAN, ok : BOOLEAN, value : Stored]
            \cup [type : {"migrated"}, user : Users, own : BOOLEAN, ok : BOOLEAN, value : BOOLEAN]

Fallback == FALSE

Get(u) == [type |-> "get", user |-> u, own |-> TRUE]

Init ==
  /\ kind \in Kinds /\ user \in Users
  /\ shown = FALSE
  /\ server \in [Users -> Stored] /\ legacy \in [Users -> Stored]
  /\ toServer = <<Get(user)>> /\ toPanel = <<>>
  /\ chosen = None

-----------------------------------------------------------------------------
(***************************************************************************)
(* Home Assistant.                                                         *)
(***************************************************************************)

\* frontend/get_user_data and frontend/set_user_data; only a migration awaits its answer.
ServeGet(m) ==
  /\ m.type = "get"
  /\ \E ok \in {TRUE, ~Faults} :
       toPanel' = Append(toPanel, [type |-> "value", user |-> m.user, own |-> m.own, ok |-> ok,
                                   value |-> IF ok THEN server[m.user] ELSE None])
  /\ UNCHANGED server

ServeSet(m) ==
  /\ m.type = "set"
  /\ \/ server' = [server EXCEPT ![m.user] = m.value]
     \/ Faults /\ UNCHANGED server
  /\ UNCHANGED toPanel

ServeMigrate(m) ==
  /\ m.type = "migrate"
  /\ \E ok \in {TRUE, ~Faults} :
       /\ server' = IF ok THEN [server EXCEPT ![m.user] = m.value] ELSE server
       /\ toPanel' = Append(toPanel, [type |-> "migrated", user |-> m.user, own |-> m.own,
                                      ok |-> ok, value |-> m.value])

Serve ==
  /\ toServer # <<>>
  /\ toServer' = Tail(toServer)
  /\ LET m == Head(toServer) IN ServeGet(m) \/ ServeSet(m) \/ ServeMigrate(m)
  /\ UNCHANGED <<kind, user, shown, legacy, chosen>>

-----------------------------------------------------------------------------
(***************************************************************************)
(* The panel.                                                              *)
(***************************************************************************)

Ready == Len(toServer) + Len(toPanel) < MaxWaiting

\* Mutant: a choice or another user does not make a restore out of date.
DisownNothing(q) == q

Disown(q) == [n \in DOMAIN q |-> [q[n] EXCEPT !.own = FALSE]]

\* hass is of another user, whose preference is restored.
SignIn(u) ==
  /\ u # user /\ Ready
  /\ user' = u /\ chosen' = None
  /\ toServer' = Append(Disown(toServer), Get(u))
  /\ toPanel' = Disown(toPanel)
  /\ UNCHANGED <<kind, shown, store>>

\* A choice of the user: shown at once, saved without waiting for an answer.
Choose(value) ==
  /\ Ready
  /\ shown' = value /\ chosen' = value
  /\ toServer' = Append(Disown(toServer),
                        [type |-> "set", user |-> user, own |-> FALSE, value |-> value])
  /\ toPanel' = Disown(toPanel)
  /\ UNCHANGED <<kind, user, store>>

SetAdvancedPinned == kind = "pinned" /\ user \in Admins /\ Choose(~shown)

DismissOnboarding == kind = "dismissed" /\ Choose(TRUE)

ToggleFloor == kind = "collapsed" /\ Choose(~shown)

\* What a restored value is to the user: nobody but an administrator has the view pinned.
Effective(value) == value /\ (kind = "pinned" => user \in Admins)

Apply(m, value) == shown' = IF m.own THEN Effective(value) ELSE shown

\* The server's value wins; a value of the browser is used, and moved if the server has none.
ReceiveValue(m) ==
  /\ m.type = "value"
  /\ IF m.value # None THEN Apply(m, m.value) /\ UNCHANGED toServer
     ELSE IF legacy[m.user] = None THEN Apply(m, Fallback) /\ UNCHANGED toServer
     ELSE IF ~m.ok THEN Apply(m, legacy[m.user]) /\ UNCHANGED toServer
     ELSE /\ toServer' = Append(toServer, [type |-> "migrate", user |-> m.user, own |-> m.own,
                                           value |-> legacy[m.user]])
          /\ UNCHANGED shown
  /\ UNCHANGED legacy

\* Mutant: the browser's value is removed although it was not saved.
MovedAnyway(m) == TRUE

Moved(m) == m.ok

ReceiveMigrated(m) ==
  /\ m.type = "migrated"
  /\ legacy' = IF Moved(m) THEN [legacy EXCEPT ![m.user] = None] ELSE legacy
  /\ Apply(m, m.value)
  /\ UNCHANGED toServer

Receive ==
  /\ toPanel # <<>>
  /\ toPanel' = Tail(toPanel)
  /\ LET m == Head(toPanel) IN ReceiveValue(m) \/ ReceiveMigrated(m)
  /\ UNCHANGED <<kind, user, server, chosen>>

Next ==
  \/ Serve \/ Receive
  \/ \E u \in Users : SignIn(u)
  \/ SetAdvancedPinned \/ DismissOnboarding \/ ToggleFloor

Spec == Init /\ [][Next]_vars

-----------------------------------------------------------------------------
(***************************************************************************)
(* Properties.                                                             *)
(***************************************************************************)

\* The state has the shapes the code gives it, and what is under way for nobody else is for
\* the user on show.
TypeOK ==
  /\ kind \in Kinds /\ user \in Users
  /\ shown \in BOOLEAN /\ chosen \in Stored
  /\ server \in [Users -> Stored] /\ legacy \in [Users -> Stored]
  /\ toServer \in Seq(Call) /\ toPanel \in Seq(Answer)
  /\ \A n \in DOMAIN toServer : toServer[n].own => toServer[n].user = user
  /\ \A n \in DOMAIN toPanel : toPanel[n].own => toPanel[n].user = user

\* What a user has chosen stays on show as chosen while that user stays, however late the
\* restore or the migration ends (bindhome-panel.js, _restoreAdvancedPreference; home-view.js,
\* _restoreCollapsedFloors).  It says nothing of what the server keeps.
ChoiceShown == chosen # None => shown = chosen

\* A browser's value is moved to the server only where the server has none: what the changelog
\* says of migrations, and of explicit changes and late restores.  It does not hold: README.md.
MigratesOnlyUnset ==
  [][\A u \in Users :
       toServer # <<>> /\ Head(toServer).type = "migrate" /\ server[u] # None
         /\ Len(toServer') < Len(toServer)
       => server'[u] = server[u]]_vars

\* No value that was read for one user is applied to another (same code).
OthersNotApplied ==
  [][shown' # shown /\ Len(toPanel') < Len(toPanel) => Head(toPanel).user = user]_vars

\* The browser's value is removed only when the server has one: whatever fails, some value of
\* a user's preference is kept somewhere (user-preferences.js, loadBooleanPreference).
KeptSomewhere ==
  [][\A u \in Users : legacy[u] # None /\ legacy'[u] = None => server[u] # None]_vars

=============================================================================

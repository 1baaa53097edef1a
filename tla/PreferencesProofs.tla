-------------------------- MODULE PreferencesProofs ---------------------------
(***************************************************************************)
(* What holds of a preference for any users, calls under way and failures  *)
(* of the server; of the shell of the panel, for any addresses, rights and *)
(* data; of the inventory browser, for any assets and administrators; and  *)
(* of the tools and workflows of the panel: the CSV tool, backups,         *)
(* Ajustes' report of health, the forms that add assets and the review of  *)
(* imports, for any files, presets, rooms and proposals.                   *)
(*                                                                         *)
(* For a preference the messages under way carry the argument: none of     *)
(* them is the panel's own once the user has chosen, and an own one is for *)
(* the user on show.                                                       *)
(***************************************************************************)
EXTENDS Preferences, TLAPS, SequenceTheorems, FiniteSetTheorems

-----------------------------------------------------------------------------
(***************************************************************************)
(* Messages and queues.                                                    *)
(***************************************************************************)

\* Disown keeps a queue but for its owner.
LEMMA DisownQueue ==
  ASSUME NEW S, NEW q \in Seq(S), \A m \in S : [m EXCEPT !.own = FALSE] \in S
  PROVE  /\ Disown(q) \in Seq(S) /\ Len(Disown(q)) = Len(q)
         /\ \A n \in DOMAIN Disown(q) : n \in DOMAIN q /\ Disown(q)[n] = [q[n] EXCEPT !.own = FALSE]
<1>1. DOMAIN q = 1..Len(q) /\ Len(q) \in Nat
  OBVIOUS
<1>2. \A n \in 1..Len(q) : [q[n] EXCEPT !.own = FALSE] \in S
  OBVIOUS
<1> QED BY <1>1, <1>2, IsASeq DEF Disown

\* A call without its owner is a call.
LEMMA DisownCall ==
  ASSUME NEW m \in Call
  PROVE  /\ [m EXCEPT !.own = FALSE] \in Call
         /\ [m EXCEPT !.own = FALSE].own = FALSE
BY DEF Call

\* An answer without its owner is an answer, to the same.
LEMMA DisownAnswer ==
  ASSUME NEW m \in Answer
  PROVE  /\ [m EXCEPT !.own = FALSE] \in Answer
         /\ [m EXCEPT !.own = FALSE].own = FALSE
         /\ [m EXCEPT !.own = FALSE].type = m.type
         /\ [m EXCEPT !.own = FALSE].ok = m.ok
         /\ [m EXCEPT !.own = FALSE].user = m.user
BY DEF Answer

\* What a queue of messages holds after one is appended, or the first is taken.
LEMMA AppendHolds ==
  ASSUME NEW S, NEW q \in Seq(S), NEW m \in S
  PROVE  /\ Append(q, m) \in Seq(S) /\ Len(Append(q, m)) = Len(q) + 1
         /\ \A n \in DOMAIN Append(q, m) :
              (n \in DOMAIN q /\ Append(q, m)[n] = q[n]) \/ Append(q, m)[n] = m
OBVIOUS

\* Same, for the tail.
LEMMA TailHolds ==
  ASSUME NEW S, NEW q \in Seq(S), q # <<>>
  PROVE  /\ Head(q) \in S /\ Head(q) = q[1] /\ 1 \in DOMAIN q
         /\ Tail(q) \in Seq(S) /\ Len(Tail(q)) = Len(q) - 1 /\ Len(q) \in Nat
         /\ \A n \in DOMAIN Tail(q) : n + 1 \in DOMAIN q /\ Tail(q)[n] = q[n + 1]
OBVIOUS

-----------------------------------------------------------------------------
(***************************************************************************)
(* The invariant.                                                          *)
(***************************************************************************)

ForUser(q, u) == \A n \in DOMAIN q : q[n].own => q[n].user = u

NoneOwn(q) == \A n \in DOMAIN q : ~q[n].own

\* A migration that is answered well is of a user whose preference the server has.
Backed(q) == \A n \in DOMAIN q : q[n].type = "migrated" /\ q[n].ok => server[q[n].user] # None

IInv ==
  /\ TypeOK
  /\ chosen # None => shown = chosen /\ NoneOwn(toServer) /\ NoneOwn(toPanel)
  /\ Backed(toPanel)

\* The invariant holds at first: one message is under way, of the user on show.
LEMMA InitInv == ASSUME Init PROVE IInv
<1>1. Get(user) \in Call
  BY DEF Init, Get, Call
<1>2. toServer \in Seq(Call) /\ toPanel \in Seq(Answer) /\ toPanel = <<>> /\ toServer = <<Get(user)>>
  BY <1>1 DEF Init
<1>3. ForUser(toServer, user) /\ ForUser(toPanel, user) /\ Backed(toPanel)
  BY <1>2 DEF ForUser, Backed, Get
<1>4. kind \in Kinds /\ user \in Users /\ shown \in BOOLEAN /\ chosen \in Stored /\ chosen = None
  BY DEF Init, Stored
<1> QED BY <1>2, <1>3, <1>4 DEF IInv, TypeOK, Init, ForUser

\* The server's step: an answer belongs to whom its call did.
LEMMA ServeInv == ASSUME IInv, Serve PROVE IInv'
<1> DEFINE m == Head(toServer)
<1>1. toServer \in Seq(Call) /\ toPanel \in Seq(Answer) /\ toServer # <<>>
  BY DEF IInv, TypeOK, Serve
<1>2. /\ m \in Call /\ m = toServer[1] /\ 1 \in DOMAIN toServer
      /\ toServer' \in Seq(Call)
      /\ \A n \in DOMAIN toServer' : n + 1 \in DOMAIN toServer /\ toServer'[n] = toServer[n + 1]
  BY <1>1, TailHolds DEF Serve
<1>3. /\ m.own => m.user = user
      /\ chosen # None => ~m.own
      /\ m.user \in Users /\ m.own \in BOOLEAN
  BY <1>2 DEF IInv, TypeOK, NoneOwn, Call
<1>4. ForUser(toServer', user') /\ (chosen' # None => NoneOwn(toServer'))
  BY <1>2 DEF IInv, TypeOK, Serve, ForUser, NoneOwn
<1>5. /\ toPanel' \in Seq(Answer) /\ ForUser(toPanel', user')
      /\ chosen' # None => NoneOwn(toPanel')
      /\ server' \in [Users -> Stored] /\ Backed(toPanel)'
  <2>1. CASE ServeGet(m)
    <3>1. PICK ok \in {TRUE, ~Faults} :
            toPanel' = Append(toPanel, [type |-> "value", user |-> m.user, own |-> m.own, ok |-> ok,
                                        value |-> IF ok THEN server[m.user] ELSE None])
      BY <2>1 DEF ServeGet
    <3> DEFINE a == [type |-> "value", user |-> m.user, own |-> m.own, ok |-> ok,
                     value |-> IF ok THEN server[m.user] ELSE None]
    <3>2. a \in Answer /\ a.own = m.own /\ a.user = m.user /\ a.type = "value"
      BY <1>3, PreferencesAssumption DEF Answer, Stored, IInv, TypeOK
    <3> HIDE DEF a
    <3>3. /\ toPanel' \in Seq(Answer)
          /\ \A n \in DOMAIN toPanel' :
               (n \in DOMAIN toPanel /\ toPanel'[n] = toPanel[n]) \/ toPanel'[n] = a
      BY <3>1, <3>2, <1>1, AppendHolds DEF a
    <3> QED BY <1>3, <2>1, <3>2, <3>3
               DEF IInv, TypeOK, ForUser, NoneOwn, Backed, Serve, ServeGet
  <2>2. CASE ServeSet(m)
    <3>1. m.value \in BOOLEAN
      BY <1>2, <2>2 DEF ServeSet, Call
    <3>2. /\ server' \in [Users -> Stored]
          /\ \A u \in Users : server[u] # None => server'[u] # None
      BY <2>2, <3>1, <1>3, PreferencesAssumption DEF ServeSet, IInv, TypeOK, Stored
    <3>3. \A n \in DOMAIN toPanel : toPanel[n].user \in Users
      BY <1>1 DEF Answer
    <3> QED BY <2>2, <3>2, <3>3 DEF IInv, TypeOK, ForUser, Backed, Serve, ServeSet
  <2>3. CASE ServeMigrate(m)
    <3>0. m.value \in BOOLEAN
      BY <1>2, <2>3 DEF ServeMigrate, Call
    <3>1. PICK ok \in {TRUE, ~Faults} :
            /\ server' = IF ok THEN [server EXCEPT ![m.user] = m.value] ELSE server
            /\ toPanel' = Append(toPanel, [type |-> "migrated", user |-> m.user, own |-> m.own,
                                           ok |-> ok, value |-> m.value])
      BY <2>3 DEF ServeMigrate
    <3> DEFINE a == [type |-> "migrated", user |-> m.user, own |-> m.own,
                     ok |-> ok, value |-> m.value]
    <3>2. a \in Answer /\ a.own = m.own /\ a.user = m.user /\ a.ok = ok
      BY <1>3, <3>0, PreferencesAssumption DEF Answer
    <3> HIDE DEF a
    <3>3. /\ toPanel' \in Seq(Answer)
          /\ \A n \in DOMAIN toPanel' :
               (n \in DOMAIN toPanel /\ toPanel'[n] = toPanel[n]) \/ toPanel'[n] = a
      BY <3>1, <3>2, <1>1, AppendHolds DEF a
    <3>4. /\ server' \in [Users -> Stored]
          /\ \A u \in Users : server[u] # None => server'[u] # None
          /\ ok => server'[m.user] # None
      BY <3>0, <3>1, <1>3, PreferencesAssumption DEF IInv, TypeOK, Stored
    <3>5. \A n \in DOMAIN toPanel : toPanel[n].user \in Users
      BY <1>1 DEF Answer
    <3> QED BY <1>3, <2>3, <3>2, <3>3, <3>4, <3>5
               DEF IInv, TypeOK, ForUser, NoneOwn, Backed, Serve
  <2> QED BY <2>1, <2>2, <2>3 DEF Serve
<1> QED BY <1>2, <1>4, <1>5 DEF IInv, TypeOK, Serve, ForUser

\* What is under way when another user signs in, or the user chooses, is nobody's own.
LEMMA Disowned ==
  ASSUME IInv
  PROVE  /\ Disown(toServer) \in Seq(Call) /\ NoneOwn(Disown(toServer))
         /\ Disown(toPanel) \in Seq(Answer) /\ NoneOwn(Disown(toPanel)) /\ Backed(Disown(toPanel))
         /\ Len(Disown(toPanel)) = Len(toPanel)
<1>1. toServer \in Seq(Call) /\ toPanel \in Seq(Answer)
  BY DEF IInv, TypeOK
<1>2. Disown(toServer) \in Seq(Call) /\ NoneOwn(Disown(toServer))
  <2>1. /\ Disown(toServer) \in Seq(Call)
        /\ \A n \in DOMAIN Disown(toServer) :
             n \in DOMAIN toServer /\ Disown(toServer)[n] = [toServer[n] EXCEPT !.own = FALSE]
    BY <1>1, DisownCall, DisownQueue
  <2>2. \A n \in DOMAIN toServer : toServer[n] \in Call
    BY <1>1
  <2> QED BY <2>1, <2>2, DisownCall DEF NoneOwn
<1>3. /\ Disown(toPanel) \in Seq(Answer) /\ NoneOwn(Disown(toPanel)) /\ Backed(Disown(toPanel))
      /\ Len(Disown(toPanel)) = Len(toPanel)
  <2>1. /\ Disown(toPanel) \in Seq(Answer) /\ Len(Disown(toPanel)) = Len(toPanel)
        /\ \A n \in DOMAIN Disown(toPanel) :
             n \in DOMAIN toPanel /\ Disown(toPanel)[n] = [toPanel[n] EXCEPT !.own = FALSE]
    BY <1>1, DisownAnswer, DisownQueue
  <2>2. \A n \in DOMAIN toPanel : toPanel[n] \in Answer
    BY <1>1
  <2>3. ASSUME NEW n \in DOMAIN Disown(toPanel)
        PROVE  LET a == Disown(toPanel)[n] IN
               n \in DOMAIN toPanel /\ ~a.own /\ a.type = toPanel[n].type /\ a.ok = toPanel[n].ok
                 /\ a.user = toPanel[n].user
    BY <2>1, <2>2, DisownAnswer
  <2>4. NoneOwn(Disown(toPanel))
    BY <2>3 DEF NoneOwn
  <2>5. Backed(Disown(toPanel))
    BY <2>3 DEF Backed, IInv
  <2> QED BY <2>1, <2>4, <2>5
<1> QED BY <1>2, <1>3

\* Another user: what is read for them is the only message of anybody's own.
LEMMA SignInInv == ASSUME IInv, NEW u \in Users, SignIn(u) PROVE IInv'
<1> DEFINE q == Disown(toServer)
<1>1. Get(u) \in Call /\ Get(u).user = u
  BY DEF Get, Call
<1>2. q \in Seq(Call) /\ NoneOwn(q)
  BY Disowned
<1>3. /\ toServer' \in Seq(Call)
      /\ \A n \in DOMAIN toServer' : (n \in DOMAIN q /\ toServer'[n] = q[n]) \/ toServer'[n] = Get(u)
  BY <1>1, <1>2, AppendHolds DEF SignIn
<1>4. ForUser(toServer', user')
  BY <1>1, <1>2, <1>3 DEF ForUser, NoneOwn, SignIn
<1>5. toPanel' \in Seq(Answer) /\ NoneOwn(toPanel') /\ Backed(toPanel)'
  BY Disowned DEF SignIn, store, Backed
<1> QED BY <1>3, <1>4, <1>5 DEF IInv, TypeOK, SignIn, store, ForUser, NoneOwn, Stored

\* A choice: what was under way is out of date, and what is sent asks for no answer.
LEMMA ChooseInv == ASSUME IInv, NEW value \in BOOLEAN, Choose(value) PROVE IInv'
<1> DEFINE q == Disown(toServer)
           c == [type |-> "set", user |-> user, own |-> FALSE, value |-> value]
<1>1. c \in Call /\ ~c.own
  BY DEF Call, IInv, TypeOK
<1>2. q \in Seq(Call) /\ NoneOwn(q)
  BY Disowned
<1> HIDE DEF q, c
<1>3. /\ toServer' \in Seq(Call)
      /\ \A n \in DOMAIN toServer' : (n \in DOMAIN q /\ toServer'[n] = q[n]) \/ toServer'[n] = c
  BY <1>1, <1>2, AppendHolds DEF Choose, q, c
<1>4. NoneOwn(toServer')
  BY <1>1, <1>2, <1>3 DEF NoneOwn
<1>5. toPanel' \in Seq(Answer) /\ NoneOwn(toPanel') /\ Backed(toPanel)'
  BY Disowned DEF Choose, store, Backed
<1> QED BY <1>3, <1>4, <1>5 DEF IInv, TypeOK, Choose, store, NoneOwn, Stored

\* The three controls choose a Boolean.
LEMMA ControlChooses ==
  ASSUME TypeOK, SetAdvancedPinned \/ DismissOnboarding \/ ToggleFloor
  PROVE  \E value \in BOOLEAN : Choose(value)
BY DEF TypeOK, SetAdvancedPinned, DismissOnboarding, ToggleFloor

\* An answer that is not the panel's own changes nothing that is shown.
LEMMA ReceiveInv == ASSUME IInv, Receive PROVE IInv'
<1> DEFINE m == Head(toPanel)
<1>1. toServer \in Seq(Call) /\ toPanel \in Seq(Answer) /\ toPanel # <<>>
  BY DEF IInv, TypeOK, Receive
<1>2. /\ m \in Answer /\ m = toPanel[1] /\ 1 \in DOMAIN toPanel
      /\ toPanel' \in Seq(Answer)
      /\ \A n \in DOMAIN toPanel' : n + 1 \in DOMAIN toPanel /\ toPanel'[n] = toPanel[n + 1]
  BY <1>1, TailHolds DEF Receive
<1>3. /\ m.own => m.user = user
      /\ chosen # None => ~m.own
      /\ m.user \in Users /\ m.own \in BOOLEAN
  BY <1>2 DEF IInv, TypeOK, NoneOwn, Answer
<1>4. ForUser(toPanel', user') /\ (chosen' # None => NoneOwn(toPanel')) /\ Backed(toPanel)'
  BY <1>2 DEF IInv, TypeOK, Receive, ForUser, NoneOwn, Backed
<1>5. ASSUME NEW value \in BOOLEAN, Apply(m, value)
      PROVE  shown' \in BOOLEAN /\ (chosen # None => shown' = shown)
  BY <1>3, <1>5 DEF Apply, Effective, IInv, TypeOK
<1>6. /\ shown' \in BOOLEAN /\ (chosen # None => shown' = shown)
      /\ legacy' \in [Users -> Stored]
      /\ toServer' \in Seq(Call) /\ ForUser(toServer', user)
      /\ chosen # None => NoneOwn(toServer')
  <2>1. CASE ReceiveValue(m)
    <3>1. m.value \in Stored /\ legacy[m.user] \in Stored
      BY <1>2, <1>3, <2>1 DEF ReceiveValue, Answer, IInv, TypeOK
    <3>2. CASE m.value # None
      BY <1>5, <2>1, <3>1, <3>2 DEF ReceiveValue, Stored, IInv, TypeOK, ForUser
    <3>3. CASE m.value = None /\ legacy[m.user] = None
      BY <1>5, <2>1, <3>3 DEF ReceiveValue, Fallback, IInv, TypeOK, ForUser
    <3>4. CASE m.value = None /\ legacy[m.user] # None /\ ~m.ok
      BY <1>5, <2>1, <3>1, <3>4 DEF ReceiveValue, Stored, IInv, TypeOK, ForUser
    <3>5. CASE m.value = None /\ legacy[m.user] # None /\ m.ok
      <4> DEFINE c == [type |-> "migrate", user |-> m.user, own |-> m.own,
                       value |-> legacy[m.user]]
      <4>1. c \in Call /\ c.own = m.own /\ c.user = m.user
        BY <1>3, <3>1, <3>5 DEF Call, Stored
      <4>2. toServer' = Append(toServer, c) /\ UNCHANGED <<shown, legacy>>
        BY <2>1, <3>5 DEF ReceiveValue
      <4> HIDE DEF c
      <4>3. /\ toServer' \in Seq(Call)
            /\ \A n \in DOMAIN toServer' :
                 (n \in DOMAIN toServer /\ toServer'[n] = toServer[n]) \/ toServer'[n] = c
        BY <1>1, <4>1, <4>2, AppendHolds
      <4> QED BY <1>3, <4>1, <4>2, <4>3 DEF IInv, TypeOK, ForUser, NoneOwn
    <3> QED BY <3>2, <3>3, <3>4, <3>5
  <2>2. CASE ReceiveMigrated(m)
    <3>1. m.value \in BOOLEAN
      BY <1>2, <2>2 DEF ReceiveMigrated, Answer
    <3>2. legacy' \in [Users -> Stored]
      BY <2>2 DEF ReceiveMigrated, IInv, TypeOK, Stored
    <3> QED BY <1>5, <2>2, <3>1, <3>2 DEF ReceiveMigrated, IInv, TypeOK, ForUser
  <2> QED BY <2>1, <2>2 DEF Receive
<1> QED BY <1>2, <1>4, <1>6 DEF IInv, TypeOK, Receive, ForUser

\* Every step keeps the invariant.
LEMMA StepInv == ASSUME IInv, [Next]_vars PROVE IInv'
<1>1. CASE Serve BY <1>1, ServeInv
<1>2. CASE Receive BY <1>2, ReceiveInv
<1>3. CASE \E u \in Users : SignIn(u) BY <1>3, SignInInv
<1>4. CASE SetAdvancedPinned \/ DismissOnboarding \/ ToggleFloor
  BY <1>4, ControlChooses, ChooseInv DEF IInv
<1>5. CASE UNCHANGED vars
  BY <1>5 DEF vars, store, socket, IInv, TypeOK, NoneOwn, Backed
<1> QED BY <1>1, <1>2, <1>3, <1>4, <1>5 DEF Next

\* The invariant holds of every reachable state.
LEMMA Invariant == Spec => []IInv
BY InitInv, StepInv, PTL DEF Spec

-----------------------------------------------------------------------------
(***************************************************************************)
(* Theorems.                                                               *)
(***************************************************************************)

\* The state has the shapes the code gives it, and what is the panel's own is for the user
\* on show.
THEOREM TypeCorrect == Spec => []TypeOK
<1>1. IInv => TypeOK BY DEF IInv
<1> QED BY <1>1, Invariant, PTL

\* What a user has chosen stays as chosen, however late the restore or the migration ends
\* (bindhome-panel.js, _restoreAdvancedPreference; home-view.js, _restoreCollapsedFloors).
THEOREM ChoiceStays == Spec => []ChoiceShown
<1>1. IInv => ChoiceShown BY DEF IInv, ChoiceShown
<1> QED BY <1>1, Invariant, PTL

\* No value that was read for one user is applied to another (same code).
THEOREM NotForOthers == Spec => OthersNotApplied
<1>1. ASSUME IInv, Next, shown' # shown, Len(toPanel') < Len(toPanel)
      PROVE  Head(toPanel).user = user
  <2>1. toPanel \in Seq(Answer) BY <1>1 DEF IInv, TypeOK
  <2>2. CASE Serve BY <1>1, <2>2 DEF Serve
  <2>3. CASE Receive
    <3> DEFINE m == Head(toPanel)
    <3>1. m = toPanel[1] /\ 1 \in DOMAIN toPanel /\ m.own \in BOOLEAN
      BY <2>1, <2>3, TailHolds DEF Receive, Answer
    <3>2. m.own
      BY <1>1, <2>3, <3>1 DEF Receive, ReceiveValue, ReceiveMigrated, Apply
    <3> QED BY <1>1, <3>1, <3>2 DEF IInv, TypeOK
  <2>4. CASE \E u \in Users : SignIn(u)
    BY <1>1, <2>4 DEF SignIn
  <2>5. CASE SetAdvancedPinned \/ DismissOnboarding \/ ToggleFloor
    <3>1. toPanel' = Disown(toPanel)
      BY <1>1, <2>5, ControlChooses DEF Choose, IInv
    <3> QED BY <1>1, <2>1, <3>1, Disowned
  <2> QED BY <1>1, <2>2, <2>3, <2>4, <2>5 DEF Next
<1>2. IInv /\ [Next]_vars
        => [shown' # shown /\ Len(toPanel') < Len(toPanel) => Head(toPanel).user = user]_vars
  BY <1>1
<1> QED BY <1>2, Invariant, PTL DEF Spec, OthersNotApplied

\* The browser's value is removed only when the server has one, whatever fails
\* (user-preferences.js, loadBooleanPreference).
THEOREM KeptThroughout == Spec => KeptSomewhere
<1>1. ASSUME IInv, Next, NEW u \in Users, legacy[u] # None, legacy'[u] = None
      PROVE  server[u] # None
  <2>1. legacy' # legacy BY <1>1
  <2>2. CASE Receive
    <3> DEFINE m == Head(toPanel)
    <3>1. m = toPanel[1] /\ 1 \in DOMAIN toPanel
      BY <1>1, <2>2, TailHolds DEF Receive, IInv, TypeOK
    <3>2. ReceiveMigrated(m) /\ m.ok /\ m.user = u
      BY <1>1, <2>1, <2>2 DEF Receive, ReceiveValue, ReceiveMigrated, Moved, IInv, TypeOK
    <3> QED BY <1>1, <3>1, <3>2 DEF IInv, Backed, ReceiveMigrated
  <2> QED BY <1>1, <2>1, <2>2, ControlChooses DEF Next, Serve, SignIn, Choose, store, IInv
<1>2. IInv /\ [Next]_vars
        => [\A u \in Users : legacy[u] # None /\ legacy'[u] = None => server[u] # None]_vars
  BY <1>1
<1> QED BY <1>2, Invariant, PTL DEF Spec, KeptSomewhere

-----------------------------------------------------------------------------
(***************************************************************************)
(* The shell of the panel, module Shell.  Its fields and the address are   *)
(* two copies of one state, and neither invariant holds without the other: *)
(* whatever is committed must differ from what is on show wherever their   *)
(* addresses do, since a navigation to the address that is already there   *)
(* is not handed back.                                                     *)
(***************************************************************************)

CONSTANTS
  Assets, Areas, Floors, Queries, NoArea, StaleArea, Gone, Junk, MaxBack, MaxSessions

VARIABLES
  admin, pinned, screen, session, room, location, back, handing, where, areas, floorOf,
  floors, creating, onboarding, dismissed

Sh == INSTANCE Shell

\* Nothing is selected that the view does not show.
Canonical(s) ==
  /\ s \in Sh!Screen
  /\ s.view # "home" => s.area = None
  /\ s.area = None => s.asset = None
  /\ s.view # "search" => s.query = None
  /\ s.view # "add" => s.context = None
  /\ s.view # "advanced" => s.advanced = None

\* The inductive invariant: a shell that is not being handed a route shows what its address
\* says, field by field.
ShellInv ==
  /\ Sh!TypeOK /\ Sh!AdminOnly
  /\ Sh!Settled => screen = location /\ Canonical(screen)

\* An address says all there is to say of the screen it leads to.
LEMMA Built ==
  ASSUME NEW s \in Sh!Screen
  PROVE  /\ Canonical(Sh!Build(s)) /\ Sh!Build(s).view = s.view
         /\ Canonical(s) => Sh!Build(s) = s
BY DEF Canonical, Sh!Screen, Sh!Views, Sh!Build

\* What the parser makes of an address is what some view shows.
LEMMA Parsed ==
  ASSUME Sh!ShellAssumption, NEW url \in Sh!Urls
  PROVE  Canonical(Sh!Parse(url)) /\ (url # Junk => Sh!Parse(url) = url)
<1>1. Canonical(Sh!EmptyRoute)
  BY DEF Sh!EmptyRoute, Sh!Screen, Sh!Views, Canonical
<1>2. ASSUME url \notin {Junk, Sh!EmptyRoute} PROVE Canonical(url)
  <2> USE DEF Canonical, Sh!Screen, Sh!Views
  <2>1. CASE url \in [view : {"home"}, area : Sh!Places, asset : Assets \cup {None}, query : {None},
                      context : {None}, advanced : {None}]
    BY <2>1 DEF Sh!Places, Sh!ShellAssumption
  <2>2. CASE url \in [view : {"search"}, area : {None}, asset : {None}, query : Queries \cup {None},
                      context : {None}, advanced : {None}]
    BY <2>2
  <2>3. CASE url \in [view : {"add"}, area : {None}, asset : {None}, query : {None},
                      context : Areas \cup {None}, advanced : {None}]
    BY <2>3
  <2>4. CASE url \in [view : {"advanced"}, area : {None}, asset : {None}, query : {None},
                      context : {None}, advanced : Assets \cup {None}]
    BY <2>4
  <2> QED BY <1>2, <2>1, <2>2, <2>3, <2>4 DEF Sh!Urls
<1> QED BY <1>1, <1>2 DEF Sh!Parse

\* What the shell makes of a screen is an address.
LEMMA BuildUrl == ASSUME NEW s \in Sh!Screen PROVE Sh!Build(s) \in Sh!Urls
BY DEF Sh!Build, Sh!Urls, Sh!EmptyRoute, Sh!Screen, Sh!Views, Sh!Places

\* Going to the address of a screen leaves one that the shell is handed, or already shows.
LEMMA CommitStep ==
  ASSUME Sh!ShellAssumption, Sh!TypeOK, Sh!Settled, Canonical(screen), screen = location,
         NEW s \in Sh!Screen, NEW replace \in BOOLEAN, Sh!Commit(s, replace),
         Sh!Build(s) = screen => s = screen
  PROVE  /\ screen' = s /\ location' = Sh!Build(s) /\ location' \in Sh!Urls
         /\ back' \in Seq(Sh!Urls) /\ Len(back') <= MaxBack /\ handing' \in BOOLEAN
         /\ Sh!Settled' => screen' = location' /\ Canonical(screen')
<1>1. CASE Sh!Build(s) = location
  BY <1>1, BuildUrl DEF Sh!Commit, Sh!Go, Sh!Settled, Sh!TypeOK, Sh!browser
<1>2. CASE Sh!Build(s) # location
  <2>1. location' = Sh!Build(s) /\ handing' = TRUE
    BY <1>2 DEF Sh!Commit, Sh!Go
  <2>2. back' \in Seq(Sh!Urls) /\ Len(back') <= MaxBack
    BY <1>2 DEF Sh!Commit, Sh!Go, Sh!TypeOK, Sh!ShellAssumption
  <2> QED BY <2>1, <2>2, BuildUrl DEF Sh!Commit, Sh!Settled
<1> QED BY <1>1, <1>2

\* A route that is handed over is shown, if it is the address the shell makes of it.
LEMMA RouteStep ==
  ASSUME Sh!ShellAssumption, NEW url \in Sh!Urls, NEW isAdmin \in BOOLEAN,
         Sh!ApplyRoute(url, isAdmin)
  PROVE  /\ screen' \in Sh!Screen /\ location' \in Sh!Urls /\ handing' \in BOOLEAN /\ back' = back
         /\ screen' \in {Sh!Parse(url), Sh!EmptyRoute}
         /\ screen'.view \in {"add", "advanced"} => isAdmin
         /\ screen' = location' /\ Canonical(screen')
<1>1. Canonical(Sh!Parse(url)) /\ Canonical(Sh!EmptyRoute) /\ Sh!EmptyRoute.view = "home"
  BY Parsed DEF Sh!EmptyRoute, Sh!Screen, Sh!Views, Canonical
<1>2. screen' = Sh!Allowed(Sh!Parse(url), isAdmin) /\ location' = Sh!Build(screen')
      /\ handing' = (location' # url) /\ back' = back
  BY DEF Sh!ApplyRoute
<1>3. Canonical(screen') /\ screen' \in {Sh!Parse(url), Sh!EmptyRoute}
      /\ (screen'.view \in {"add", "advanced"} => isAdmin)
  BY <1>1, <1>2 DEF Sh!Allowed
<1> QED BY <1>2, <1>3, Built, BuildUrl DEF Canonical

-----------------------------------------------------------------------------
\* What a shell that is handed nothing may commit: a screen that differs from what is on
\* show wherever their addresses do.
Told(s) == s \in Sh!Screen /\ (Sh!Build(s) = screen => s = screen)

\* It is enough to look at the screens of the view that is on show.
LEMMA TellsAll ==
  ASSUME Canonical(screen), NEW s \in Sh!Screen,
         s.view = screen.view =>
           /\ s.view # "home" => s.area = None /\ s.asset = None
           /\ s.area = None => s.asset = None
           /\ s.view # "search" => s.query = None
           /\ s.view # "add" => s.context = None
           /\ s.view # "advanced" => s.advanced = None
  PROVE  Told(s)
<1> SUFFICES ASSUME Sh!Build(s) = screen PROVE s = screen
  BY DEF Told
<1>1. s.view = screen.view BY DEF Sh!Build
<1>2. Canonical(s) BY <1>1 DEF Canonical
<1> QED BY <1>2, Built

\* A view, and what it selects.
LEMMA TellsView ==
  ASSUME Sh!TypeOK, Canonical(screen), NEW view \in Sh!Views, NEW r \in Areas \cup {None}
  PROVE  Told(Sh!Left(screen, view)) /\ Told([screen EXCEPT !.view = "add", !.context = r])
<1> USE DEF Sh!TypeOK, Canonical, Sh!Screen, Sh!Views
<1>1. Told(Sh!Left(screen, view))
  <2> DEFINE s == Sh!Left(screen, view)
  <2>1. s \in Sh!Screen /\ s.view = view /\ s.area = screen.area /\ s.asset = screen.asset
        /\ s.query = screen.query /\ s.context = None /\ s.advanced \in {None, screen.advanced}
    BY DEF Sh!Left
  <2> HIDE DEF s
  <2>2. s.view = screen.view =>
           /\ s.view # "home" => s.area = None /\ s.asset = None
           /\ s.area = None => s.asset = None
           /\ s.view # "search" => s.query = None
           /\ s.view # "add" => s.context = None
           /\ s.view # "advanced" => s.advanced = None
    BY <2>1
  <2>3. Told(s) BY <2>1, <2>2, TellsAll
  <2> QED BY <2>3 DEF s
<1>2. Told([screen EXCEPT !.view = "add", !.context = r])
  <2> DEFINE s == [screen EXCEPT !.view = "add", !.context = r]
  <2>1. s \in Sh!Screen /\ s.view = "add" /\ s.area = screen.area /\ s.asset = screen.asset
        /\ s.query = screen.query /\ s.advanced = screen.advanced
    OBVIOUS
  <2> HIDE DEF s
  <2>2. Told(s) BY <2>1, TellsAll
  <2> QED BY <2>2 DEF s
<1> QED BY <1>1, <1>2

\* A place of the home view, with an asset in it.
LEMMA TellsHome ==
  ASSUME Sh!TypeOK, Canonical(screen),
         NEW place \in Sh!Places \cup {None}, NEW x \in Assets \cup {None},
         place # None \/ x = None
  PROVE  Told([screen EXCEPT !.view = "home", !.area = place, !.asset = x])
<1> USE DEF Sh!TypeOK, Canonical, Sh!Screen, Sh!Views
<1> DEFINE s == [screen EXCEPT !.view = "home", !.area = place, !.asset = x]
<1>1. s \in Sh!Screen /\ s.view = "home" /\ s.area = place /\ s.asset = x
      /\ s.query = screen.query /\ s.context = screen.context /\ s.advanced = screen.advanced
  OBVIOUS
<1> HIDE DEF s
<1>2. Told(s) BY <1>1, TellsAll
<1> QED BY <1>2 DEF s

\* The rest of what the shell commits.
LEMMA TellsRest ==
  ASSUME Sh!TypeOK, Canonical(screen)
  PROVE  /\ Told([screen EXCEPT !.view = "home", !.context = None])
         /\ \A x \in Assets : Told([screen EXCEPT !.view = "advanced", !.advanced = x])
         /\ \A place \in Sh!Places \ {None} :
              screen.view = "home" => Told([screen EXCEPT !.area = place])
         /\ \A q \in Queries \cup {None} :
              screen.view = "search" => Told([screen EXCEPT !.query = q])
<1> USE DEF Sh!TypeOK, Canonical, Sh!Screen, Sh!Views
<1>1. Told([screen EXCEPT !.view = "home", !.context = None]) BY TellsAll
<1>2. ASSUME NEW x \in Assets PROVE Told([screen EXCEPT !.view = "advanced", !.advanced = x])
  BY TellsAll
<1>3. ASSUME NEW place \in Sh!Places \ {None}, screen.view = "home"
      PROVE  Told([screen EXCEPT !.area = place])
  BY <1>3, TellsAll
<1>4. ASSUME NEW q \in Queries \cup {None}, screen.view = "search"
      PROVE  Told([screen EXCEPT !.query = q])
  BY <1>4, TellsAll
<1> QED BY <1>1, <1>2, <1>3, <1>4

\* An asset's place is one the home view knows.
LEMMA PlaceKnown == ASSUME Sh!TypeOK, NEW x \in Assets PROVE Sh!PlaceOf(x) \in Sh!Places
BY DEF Sh!TypeOK, Sh!PlaceOf, Sh!Places

-----------------------------------------------------------------------------
\* What a step may do to the screen: nothing is handed over, the screen and its address
\* stay as they are, or something else is committed; or a route is applied.
Kept == UNCHANGED <<screen, Sh!browser>>

Committed ==
  \E s \in Sh!Screen, replace \in BOOLEAN :
    /\ Sh!Settled /\ Told(s) /\ Sh!Commit(s, replace)
    /\ s.view \in {"add", "advanced"} => admin
    /\ UNCHANGED admin

Applied ==
  \E url \in Sh!Urls, yes \in BOOLEAN : Sh!ApplyRoute(url, yes) /\ admin' = yes

Walked ==
  /\ Sh!Settled /\ UNCHANGED <<screen, admin>>
  /\ location' \in Sh!Urls /\ handing' = TRUE
  /\ back' \in Seq(Sh!Urls) /\ Len(back') <= MaxBack

\* The other fields keep their types.
OthersOK ==
  /\ {pinned, onboarding, dismissed} \subseteq BOOLEAN
  /\ session \in 0..MaxSessions /\ room \in Areas \cup {None}
  /\ where \in [Assets -> Areas \cup {None, Gone}] /\ areas \subseteq Areas
  /\ floorOf \in [Areas -> Floors \cup {None}] /\ floors \subseteq Floors
  /\ creating \in [asset : Assets, session : 0..MaxSessions, written : BOOLEAN] \cup {None}

\* Each of these keeps the invariant.
LEMMA DisplayStep ==
  ASSUME Sh!ShellAssumption, ShellInv, OthersOK',
         (Kept /\ UNCHANGED admin) \/ Committed \/ Applied \/ Walked
  PROVE  ShellInv'
<1> USE DEF ShellInv
<1>1. CASE Kept /\ UNCHANGED admin
  BY <1>1 DEF Kept, Sh!browser, Sh!TypeOK, OthersOK, Sh!AdminOnly, Sh!Settled, Canonical
<1>2. CASE Committed
  <2>1. PICK s \in Sh!Screen, replace \in BOOLEAN :
          /\ Sh!Settled /\ Told(s) /\ Sh!Commit(s, replace)
          /\ s.view \in {"add", "advanced"} => admin
          /\ UNCHANGED admin
    BY <1>2 DEF Committed
  <2>2. /\ screen' = s /\ location' = Sh!Build(s) /\ location' \in Sh!Urls
        /\ back' \in Seq(Sh!Urls) /\ Len(back') <= MaxBack /\ handing' \in BOOLEAN
        /\ Sh!Settled' => screen' = location' /\ Canonical(screen')
    BY <2>1, CommitStep DEF Told
  <2> QED BY <2>1, <2>2 DEF Sh!TypeOK, OthersOK, Sh!AdminOnly
<1>3. CASE Applied
  <2>1. PICK url \in Sh!Urls, yes \in BOOLEAN : Sh!ApplyRoute(url, yes) /\ admin' = yes
    BY <1>3 DEF Applied
  <2> QED BY <2>1, RouteStep DEF Sh!TypeOK, OthersOK, Sh!AdminOnly
<1>4. CASE Walked
  BY <1>4 DEF Walked, Sh!TypeOK, OthersOK, Sh!AdminOnly, Sh!Settled
<1> QED BY <1>1, <1>2, <1>3, <1>4

-----------------------------------------------------------------------------
\* Each step of the shell is of one of the kinds: first, the add view is opened.
LEMMA OpenAddStep ==
  ASSUME Sh!ShellAssumption, ShellInv, Sh!Settled, admin,
         NEW r \in Areas \cup {None}, Sh!OpenAdd(r),
         UNCHANGED <<admin, pinned, Sh!home, creating>>, {onboarding', dismissed'} \subseteq BOOLEAN
  PROVE  Committed /\ OthersOK'
<1> USE DEF ShellInv
<1>1. OthersOK'
  BY DEF Sh!OpenAdd, Sh!home, Sh!TypeOK, OthersOK, Sh!ShellAssumption
<1>2. Sh!Commit([screen EXCEPT !.view = "add", !.context = r], FALSE)
  BY DEF Sh!OpenAdd
<1> QED BY <1>1, <1>2, TellsView DEF Committed, Told, Sh!Views

\* The header's tabs.
LEMMA NavigateStep ==
  ASSUME Sh!ShellAssumption, ShellInv, NEW view \in Sh!Views, Sh!Navigate(view)
  PROVE  Committed /\ OthersOK'
<1> USE DEF ShellInv
<1>0. Canonical(screen) /\ UNCHANGED <<admin, pinned, Sh!home, creating>> /\ Sh!Settled
      /\ (view \in {"add", "advanced"} => admin)
  BY DEF Sh!Navigate
<1>1. {onboarding', dismissed'} \subseteq BOOLEAN
  BY DEF Sh!Navigate, Sh!DismissIfVisible, Sh!Dismiss, Sh!guide, Sh!TypeOK
<1>2. CASE view = "add"
  <2>1. Sh!OpenAdd(None) BY <1>2 DEF Sh!Navigate
  <2> QED BY <1>0, <1>1, <1>2, <2>1, OpenAddStep
<1>3. CASE view # "add"
  <2>1. Sh!Commit(Sh!Left(screen, view), FALSE) /\ UNCHANGED Sh!adding
    BY <1>3 DEF Sh!Navigate
  <2>2. Sh!Left(screen, view).view = view BY DEF Sh!Left, Sh!TypeOK, Sh!Screen
  <2>3. OthersOK' BY <1>0, <1>1, <2>1 DEF Sh!adding, Sh!home, Sh!TypeOK, OthersOK
  <2> QED BY <1>0, <2>1, <2>2, <2>3, TellsView DEF Committed, Told, Sh!Views
<1> QED BY <1>2, <1>3

\* Its switch for the advanced view.
LEMMA PinnedStep ==
  ASSUME Sh!ShellAssumption, ShellInv, NEW yes \in BOOLEAN, Sh!SetPinned(yes)
  PROVE  (Committed \/ (Kept /\ UNCHANGED admin)) /\ OthersOK'
<1> USE DEF ShellInv
<1>0. Canonical(screen) /\ admin' = admin BY DEF Sh!SetPinned
<1>1. OthersOK'
  BY DEF Sh!SetPinned, Sh!DismissIfVisible, Sh!Dismiss, Sh!guide, Sh!home, Sh!adding, Sh!TypeOK,
         OthersOK
<1>2. CASE ~yes /\ screen.view = "advanced"
  <2>1. Sh!Commit(Sh!Left(screen, "home"), FALSE) /\ Sh!Settled
    BY <1>2 DEF Sh!SetPinned
  <2>2. Sh!Left(screen, "home").view = "home" BY DEF Sh!Left, Sh!TypeOK, Sh!Screen
  <2> QED BY <1>0, <1>1, <2>1, <2>2, TellsView DEF Committed, Told, Sh!Views
<1>3. CASE ~(~yes /\ screen.view = "advanced")
  BY <1>0, <1>1, <1>3 DEF Sh!SetPinned, Kept
<1> QED BY <1>2, <1>3, <1>1

\* The home view commits a place with an asset, or none.
LEMMA HomeStep ==
  ASSUME Sh!ShellAssumption, ShellInv, Sh!Settled,
         NEW place \in Sh!Places \cup {None}, NEW x \in Assets \cup {None},
         place # None \/ x = None, Sh!HomeNavigate(place, x)
  PROVE  Committed /\ OthersOK'
<1> USE DEF ShellInv
<1> DEFINE s == [screen EXCEPT !.view = "home", !.area = place, !.asset = x]
<1>1. Told(s) BY TellsHome
<1>2. s.view = "home" BY DEF Sh!TypeOK, Sh!Screen
<1>3. OthersOK' BY DEF Sh!HomeNavigate, Sh!guide, Sh!home, Sh!adding, Sh!TypeOK, OthersOK
<1>4. Sh!Commit(s, FALSE) /\ UNCHANGED admin BY DEF Sh!HomeNavigate
<1> HIDE DEF s
<1> QED BY <1>1, <1>2, <1>3, <1>4 DEF Committed, Told

\* What is selected there.
LEMMA SelectStep ==
  ASSUME Sh!ShellAssumption, ShellInv, Sh!SelectArea \/ Sh!SelectAsset \/ Sh!LeaveAsset
  PROVE  Committed /\ OthersOK'
<1> USE DEF ShellInv
<1>1. CASE Sh!SelectArea
  <2>1. Sh!Offered \subseteq Sh!Places
    BY DEF Sh!Offered, Sh!Shown, Sh!Group, Sh!Places, Sh!TypeOK
  <2> QED BY <1>1, <2>1, HomeStep DEF Sh!SelectArea
<1>2. CASE Sh!SelectAsset
  <2>1. screen.area # None /\ Sh!Settled /\ Sh!InRoom(screen.area) \subseteq Assets
    BY <1>2 DEF Sh!SelectAsset, Sh!InRoom, Sh!Existing, Sh!Unassigned, Sh!Stale
  <2>2. PICK x \in Sh!InRoom(screen.area) : Sh!HomeNavigate(Sh!PlaceOf(x), x)
    BY <1>2 DEF Sh!SelectAsset
  <2>3. Sh!PlaceOf(x) \in Sh!Places /\ Sh!PlaceOf(x) # None
    BY <2>1, PlaceKnown DEF Sh!Places, Sh!ShellAssumption
  <2> QED BY <2>1, <2>2, <2>3, HomeStep
<1>3. CASE Sh!LeaveAsset
  <2>1. screen.area \in Sh!Places \cup {None} /\ Sh!Settled /\ Sh!HomeNavigate(screen.area, None)
    BY <1>3 DEF Sh!LeaveAsset, Sh!TypeOK, Sh!Screen
  <2> QED BY <2>1, HomeStep
<1> QED BY <1>1, <1>2, <1>3

\* An asset that is moved takes the selection along.
LEMMA RoomStep ==
  ASSUME Sh!ShellAssumption, ShellInv, NEW r \in Areas \cup {None}, Sh!HumanAssetCommitted(r)
  PROVE  Committed /\ OthersOK'
<1> USE DEF ShellInv
<1> DEFINE place == IF r = None THEN NoArea ELSE IF r \in areas THEN r ELSE StaleArea
<1> DEFINE s == [screen EXCEPT !.area = place]
<1>1. Sh!Settled /\ screen.view = "home" /\ Sh!Commit(s, TRUE) /\ admin' = admin
      /\ where' = [where EXCEPT ![screen.asset] = r]
      /\ UNCHANGED <<admin, pinned, Sh!adding, areas, floorOf, floors, creating, Sh!guide>>
  BY DEF Sh!HumanAssetCommitted
<1>2. OthersOK' BY <1>1 DEF Sh!adding, Sh!guide, Sh!TypeOK, OthersOK
<1>3. place \in Sh!Places \ {None} BY DEF Sh!Places, Sh!TypeOK, Sh!ShellAssumption
<1>4. s.view = "home" BY <1>1 DEF Sh!TypeOK, Sh!Screen
<1>5. Told(s) BY <1>1, <1>3, TellsRest
<1> HIDE DEF s
<1> QED BY <1>1, <1>2, <1>4, <1>5 DEF Committed, Told

\* An asset that was added is opened.
LEMMA CreatedStep ==
  ASSUME Sh!ShellAssumption, ShellInv, NEW r \in Areas \cup {None}, Sh!Created(r)
  PROVE  Committed /\ OthersOK'
<1> USE DEF ShellInv
<1> DEFINE place == IF r = None THEN NoArea ELSE IF r \in areas THEN r ELSE StaleArea
<1> DEFINE s == [screen EXCEPT !.view = "home", !.area = place, !.asset = creating.asset]
<1>1. Sh!Settled /\ creating # None /\ admin' = admin /\ creating' = None
      /\ where' = [where EXCEPT ![creating.asset] = r]
      /\ onboarding' \in BOOLEAN
      /\ UNCHANGED <<admin, pinned, Sh!adding, areas, floorOf, floors, dismissed>>
  BY DEF Sh!Created, Sh!OnboardingFor
<1>2. creating.asset \in Assets BY <1>1 DEF Sh!TypeOK
<1>3. OthersOK' BY <1>1, <1>2 DEF Sh!adding, Sh!TypeOK, OthersOK
<1>4. place \in Sh!Places \ {None} BY DEF Sh!Places, Sh!TypeOK, Sh!ShellAssumption
<1>5. s.view = "home" BY <1>1 DEF Sh!TypeOK, Sh!Screen
<1>6. Told(s) BY <1>1, <1>2, <1>4, TellsHome
<1>7. Sh!Commit(s, FALSE)
  <2>1. s = [screen EXCEPT !.view = "home", !.asset = creating.asset, !.area = place]
    BY DEF Sh!TypeOK, Sh!Screen
  <2> QED BY <2>1 DEF Sh!Created
<1> HIDE DEF s
<1> QED BY <1>1, <1>3, <1>5, <1>6, <1>7 DEF Committed, Told

\* And one that was searched for.
LEMMA OpenStep ==
  ASSUME Sh!ShellAssumption, ShellInv, Sh!OpenFound
  PROVE  Committed /\ OthersOK'
<1> USE DEF ShellInv
<1>1. PICK x \in Sh!Existing : Sh!OpenAsset(x)
  BY DEF Sh!OpenFound
<1> DEFINE s == [screen EXCEPT !.view = "home", !.area = Sh!PlaceOf(x), !.asset = x]
<1>2. /\ Sh!Settled /\ UNCHANGED <<admin, pinned, Sh!adding, Sh!home, creating, Sh!guide>>
      /\ Sh!Commit(s, FALSE)
  BY <1>1 DEF Sh!OpenFound, Sh!OpenAsset
<1>3. Sh!PlaceOf(x) \in Sh!Places /\ Sh!PlaceOf(x) # None /\ x \in Assets
  BY PlaceKnown DEF Sh!Places, Sh!ShellAssumption, Sh!Existing
<1>4. Told(s) BY <1>2, <1>3, TellsHome
<1>5. s.view = "home" BY DEF Sh!TypeOK, Sh!Screen
<1>6. OthersOK' BY <1>2 DEF Sh!adding, Sh!home, Sh!guide, Sh!TypeOK, OthersOK
<1> HIDE DEF s
<1> QED BY <1>2, <1>4, <1>5, <1>6 DEF Committed, Told

\* The views that commit one field.
LEMMA FieldStep ==
  ASSUME Sh!ShellAssumption, ShellInv,
         \/ Sh!CompleteOnboarding \/ Sh!EditAsset
         \/ \E q \in Queries \cup {None} : Sh!SearchQueryChanged(q)
  PROVE  Committed /\ OthersOK'
<1> USE DEF ShellInv
<1>1. OthersOK' /\ Sh!Settled /\ admin' = admin
  BY DEF Sh!CompleteOnboarding, Sh!EditAsset, Sh!SearchQueryChanged, Sh!Dismiss, Sh!adding,
         Sh!home, Sh!guide, Sh!TypeOK, OthersOK
<1>2. CASE Sh!CompleteOnboarding
  <2>1. [screen EXCEPT !.view = "home", !.context = None].view = "home"
    BY DEF Sh!TypeOK, Sh!Screen
  <2> QED BY <1>1, <1>2, <2>1, TellsRest DEF Committed, Told, Sh!CompleteOnboarding
<1>3. CASE Sh!EditAsset
  <2>1. screen.asset \in Assets /\ admin BY <1>3 DEF Sh!EditAsset, Sh!Existing
  <2> QED BY <1>1, <1>3, <2>1, TellsRest DEF Committed, Told, Sh!EditAsset
<1>4. ASSUME NEW q \in Queries \cup {None}, Sh!SearchQueryChanged(q) PROVE Committed
  <2>1. [screen EXCEPT !.query = q].view = "search"
    BY <1>4 DEF Sh!TypeOK, Sh!Screen, Sh!SearchQueryChanged
  <2> QED BY <1>1, <1>4, <2>1, TellsRest DEF Committed, Told, Sh!SearchQueryChanged
<1> QED BY <1>1, <1>2, <1>3, <1>4

\* The browser and Home Assistant.
LEMMA BrowserStep ==
  ASSUME Sh!ShellAssumption, ShellInv,
         \/ Sh!HandOver \/ Sh!Back \/ \E url \in Sh!Urls : Sh!FollowLink(url)
         \/ \E yes \in BOOLEAN : Sh!HassChanges(yes)
  PROVE  (Applied \/ Walked) /\ OthersOK'
<1> USE DEF ShellInv
<1>1. OthersOK'
  BY DEF Sh!HandOver, Sh!Back, Sh!FollowLink, Sh!HassChanges, Sh!adding, Sh!home, Sh!guide,
         Sh!TypeOK, OthersOK
<1>2. CASE Sh!HandOver BY <1>1, <1>2 DEF Sh!HandOver, Applied, Sh!TypeOK
<1>3. CASE Sh!Back
  <2>1. back[Len(back)] \in Sh!Urls /\ SubSeq(back, 1, Len(back) - 1) \in Seq(Sh!Urls)
        /\ Len(SubSeq(back, 1, Len(back) - 1)) <= MaxBack
    BY <1>3 DEF Sh!Back, Sh!TypeOK, Sh!ShellAssumption
  <2> QED BY <1>1, <1>3, <2>1 DEF Sh!Back, Walked
<1>4. ASSUME NEW url \in Sh!Urls, Sh!FollowLink(url) PROVE Walked
  <2>1. location' = url /\ handing' = TRUE /\ Len(back) < MaxBack /\ back' = Append(back, location)
    BY <1>4 DEF Sh!FollowLink, Sh!Go
  <2>2. back' \in Seq(Sh!Urls) /\ Len(back') <= MaxBack
    BY <2>1 DEF Sh!TypeOK, Sh!ShellAssumption
  <2> QED BY <1>4, <2>1, <2>2 DEF Sh!FollowLink, Walked
<1>5. ASSUME NEW yes \in BOOLEAN, Sh!HassChanges(yes) PROVE Applied
  BY <1>5 DEF Sh!HassChanges, Applied, Sh!TypeOK
<1> QED BY <1>1, <1>2, <1>3, <1>4, <1>5

\* What neither the screen nor its address is told of.
LEMMA RestStep ==
  ASSUME Sh!ShellAssumption, ShellInv,
         \/ Sh!Refresh \/ Sh!Written \/ Sh!WriteFails \/ \E x \in Assets : Sh!Submit(x)
         \/ \E yes \in BOOLEAN : Sh!RestorePinned(yes)
  PROVE  Kept /\ UNCHANGED admin /\ OthersOK'
<1> USE DEF ShellInv
<1>1. CASE Sh!Refresh
  BY <1>1 DEF Sh!Refresh, Kept, Sh!OnboardingFor, Sh!adding, Sh!TypeOK, OthersOK
<1>2. CASE Sh!Written
  <2>1. creating' \in [asset : Assets, session : 0..MaxSessions, written : BOOLEAN] \cup {None}
    BY <1>2 DEF Sh!Written, Sh!TypeOK
  <2> QED BY <1>2, <2>1 DEF Sh!Written, Kept, Sh!adding, Sh!home, Sh!guide, Sh!TypeOK, OthersOK
<1>3. CASE Sh!WriteFails
  BY <1>3 DEF Sh!WriteFails, Kept, Sh!adding, Sh!home, Sh!guide, Sh!TypeOK, OthersOK
<1>4. ASSUME NEW x \in Assets, Sh!Submit(x) PROVE Kept /\ UNCHANGED admin /\ OthersOK'
  <2>1. creating' = [asset |-> x, session |-> session, written |-> FALSE]
    BY <1>4 DEF Sh!Submit
  <2> QED BY <1>4, <2>1 DEF Sh!Submit, Kept, Sh!adding, Sh!home, Sh!guide, Sh!TypeOK, OthersOK
<1>5. ASSUME NEW yes \in BOOLEAN, Sh!RestorePinned(yes) PROVE Kept /\ UNCHANGED admin /\ OthersOK'
  BY <1>5 DEF Sh!RestorePinned, Kept, Sh!adding, Sh!home, Sh!guide, Sh!TypeOK, OthersOK
<1> QED BY <1>1, <1>2, <1>3, <1>4, <1>5

\* Every step keeps the invariant.
LEMMA ShellStep == ASSUME Sh!ShellAssumption, ShellInv, [Sh!Next]_(Sh!vars) PROVE ShellInv'
<1> USE DEF ShellInv
<1>1. CASE UNCHANGED Sh!vars
  BY <1>1 DEF Sh!vars, Sh!browser, Sh!adding, Sh!home, Sh!guide, Sh!TypeOK, Sh!AdminOnly,
              Sh!Settled, Canonical
<1>2. CASE Sh!AddInArea \/ Sh!ReviewImport
  <2>1. PICK r \in Areas \cup {None} : Sh!OpenAdd(r)
    BY <1>2 DEF Sh!AddInArea, Sh!ReviewImport, Sh!TypeOK
  <2>2. Sh!Settled /\ admin /\ UNCHANGED <<admin, pinned, Sh!home, creating>>
        /\ {onboarding', dismissed'} \subseteq BOOLEAN
    BY <1>2 DEF Sh!AddInArea, Sh!ReviewImport, Sh!guide, Sh!TypeOK
  <2> QED BY <2>1, <2>2, OpenAddStep, DisplayStep
<1>3. CASE Sh!Next /\ ~(Sh!AddInArea \/ Sh!ReviewImport)
  <2>1. OthersOK' /\ ((Kept /\ UNCHANGED admin) \/ Committed \/ Applied \/ Walked)
    BY <1>3, NavigateStep, PinnedStep, SelectStep, RoomStep, CreatedStep, OpenStep, FieldStep,
       BrowserStep, RestStep DEF Sh!Next
  <2> QED BY <2>1, DisplayStep
<1> QED BY <1>1, <1>2, <1>3

\* And it holds when the panel is opened.
LEMMA ShellInit == ASSUME Sh!ShellAssumption, Sh!Init PROVE ShellInv
<1>1. Sh!EmptyRoute \in Sh!Screen /\ Sh!EmptyRoute.view = "home"
  BY DEF Sh!EmptyRoute, Sh!Screen, Sh!Views
<1>2. floors \subseteq Floors /\ floorOf \in [Areas -> Floors \cup {None}]
  BY DEF Sh!Init
<1>3. Sh!TypeOK
  <2>1. back \in Seq(Sh!Urls) /\ Len(back) <= MaxBack /\ session \in 0..MaxSessions
    BY DEF Sh!Init, Sh!ShellAssumption
  <2>2. {admin, pinned, handing, onboarding, dismissed} \subseteq BOOLEAN
    BY DEF Sh!Init, Sh!OnboardingFor
  <2> QED BY <1>1, <1>2, <2>1, <2>2 DEF Sh!Init, Sh!TypeOK
<1> QED BY <1>1, <1>3 DEF Sh!Init, ShellInv, Sh!AdminOnly, Sh!Settled

-----------------------------------------------------------------------------
\* The place of an asset lists it, and is in the tree or in none of its groups.
LEMMA Listed ==
  ASSUME Sh!ShellAssumption, Sh!TypeOK', NEW x \in Assets, where'[x] # Gone
  PROVE  (x \in Sh!InRoom(Sh!PlaceOf(x)) /\ Sh!PlaceOf(x) \in Sh!Offered \cup Sh!Groupless)'
<1> USE DEF Sh!TypeOK, Sh!ShellAssumption
<1>1. CASE where'[x] = None
  BY <1>1 DEF Sh!PlaceOf, Sh!InRoom, Sh!Offered, Sh!Unassigned, Sh!Existing
<1>2. CASE where'[x] \in Areas \ areas'
  BY <1>2 DEF Sh!PlaceOf, Sh!InRoom, Sh!Offered, Sh!Stale, Sh!Existing
<1>3. CASE where'[x] \in areas'
  <2>1. Sh!PlaceOf(x)' = where'[x] /\ where'[x] \notin {None, NoArea, StaleArea, Gone}
    BY <1>3 DEF Sh!PlaceOf
  <2>2. (x \in Sh!InRoom(where[x]))'
    BY <1>3, <2>1 DEF Sh!InRoom, Sh!Existing
  <2>3. (where[x] \in Sh!Shown \cup Sh!Groupless)'
    BY <1>3 DEF Sh!Shown, Sh!Group, Sh!Groupless
  <2> QED BY <2>1, <2>2, <2>3 DEF Sh!Offered
<1> QED BY <1>1, <1>2, <1>3

\* What is on show is in the room on show, which the tree offers or has no group for.
Found ==
  screen.asset \in Sh!InRoom(screen.area) /\ screen.area \in Sh!Offered \cup Sh!Groupless

\* What is committed is shown.
LEMMA Opens ==
  ASSUME Sh!ShellAssumption, ShellInv, ShellInv', Sh!Settled, Sh!Next,
         screen'.asset # screen.asset, screen'.asset # None
  PROVE  Found'
<1> USE DEF ShellInv, Found
<1>1. ASSUME NEW x \in Sh!Existing, UNCHANGED Sh!home,
             screen' = [screen EXCEPT !.view = "home", !.area = Sh!PlaceOf(x), !.asset = x]
      PROVE  Found'
  <2>1. screen'.asset = x /\ screen'.area = Sh!PlaceOf(x) BY <1>1 DEF Sh!TypeOK, Sh!Screen
  <2>2. where'[x] # Gone /\ x \in Assets /\ Sh!PlaceOf(x)' = Sh!PlaceOf(x)
    BY <1>1 DEF Sh!home, Sh!Existing, Sh!PlaceOf
  <2> QED BY <2>1, <2>2, Listed
<1>2. CASE Sh!SelectAsset
  <2>1. Sh!InRoom(screen.area) \subseteq Sh!Existing
    BY DEF Sh!InRoom, Sh!Unassigned, Sh!Stale
  <2> QED BY <1>1, <1>2, <2>1 DEF Sh!SelectAsset, Sh!HomeNavigate, Sh!Commit
<1>3. CASE Sh!OpenFound
  BY <1>1, <1>3 DEF Sh!OpenFound, Sh!OpenAsset, Sh!Commit
<1>4. ASSUME NEW r \in Areas \cup {None}, Sh!Created(r)
      PROVE  Found'
  <2>1. PICK x \in Assets : x = creating.asset
    BY <1>4 DEF Sh!Created, Sh!TypeOK
  <2> DEFINE place == IF r = None THEN NoArea ELSE IF r \in areas THEN r ELSE StaleArea
  <2>2. /\ where' = [where EXCEPT ![x] = r] /\ areas' = areas
        /\ screen' = [screen EXCEPT !.view = "home", !.asset = x, !.area = place]
    BY <1>4, <2>1 DEF Sh!Created, Sh!Commit
  <2>3. where'[x] = r /\ r # Gone /\ place = Sh!PlaceOf(x)'
    BY <2>2 DEF Sh!TypeOK, Sh!ShellAssumption, Sh!PlaceOf
  <2> HIDE DEF place
  <2>4. screen'.asset = x /\ screen'.area = place
    BY <2>2 DEF Sh!TypeOK, Sh!Screen
  <2> QED BY <2>3, <2>4, Listed
\* Nothing else selects an asset.
<1>5. ASSUME NEW yes \in BOOLEAN, Sh!HassChanges(yes) PROVE FALSE
  <2>1. Sh!ApplyRoute(location, yes) /\ screen = location /\ location \in Sh!Urls
    BY <1>5 DEF Sh!HassChanges, Sh!TypeOK
  <2>2. screen' \in {Sh!Parse(location), Sh!EmptyRoute} BY <2>1, RouteStep
  <2>3. Sh!Parse(location) \in {location, Sh!EmptyRoute} /\ Sh!EmptyRoute.asset = None
    BY DEF Sh!Parse, Sh!EmptyRoute
  <2> QED BY <2>1, <2>2, <2>3
<1>6. CASE Sh!SelectArea \/ Sh!LeaveAsset
  BY <1>6 DEF Sh!SelectArea, Sh!LeaveAsset, Sh!HomeNavigate, Sh!Commit, Sh!TypeOK, Sh!Screen
<1>7. ASSUME NEW view \in Sh!Views, Sh!Navigate(view) PROVE FALSE
  BY <1>7 DEF Sh!Navigate, Sh!OpenAdd, Sh!Commit, Sh!Left, Sh!TypeOK, Sh!Screen
<1>8. ASSUME NEW yes \in BOOLEAN, Sh!SetPinned(yes) PROVE FALSE
  BY <1>8 DEF Sh!SetPinned, Sh!Commit, Sh!Left, Sh!TypeOK, Sh!Screen
<1>9. ASSUME NEW r \in Areas \cup {None}, Sh!HumanAssetCommitted(r) PROVE FALSE
  BY <1>9 DEF Sh!HumanAssetCommitted, Sh!Commit, Sh!TypeOK, Sh!Screen
<1>10. CASE Sh!CompleteOnboarding \/ Sh!AddInArea \/ Sh!ReviewImport \/ Sh!EditAsset
            \/ \E q \in Queries \cup {None} : Sh!SearchQueryChanged(q)
  BY <1>10 DEF Sh!CompleteOnboarding, Sh!AddInArea, Sh!ReviewImport, Sh!EditAsset,
               Sh!SearchQueryChanged, Sh!OpenAdd,
       Sh!Commit, Sh!TypeOK, Sh!Screen
<1>11. CASE \/ Sh!HandOver \/ Sh!Back \/ Sh!Refresh \/ Sh!Written \/ Sh!WriteFails
            \/ \E url \in Sh!Urls : Sh!FollowLink(url)
            \/ \E x \in Assets : Sh!Submit(x)
            \/ \E yes \in BOOLEAN : Sh!RestorePinned(yes)
  BY <1>11 DEF Sh!HandOver, Sh!Back, Sh!FollowLink, Sh!Refresh, Sh!Written, Sh!WriteFails,
               Sh!Submit, Sh!RestorePinned, Sh!Settled
<1> QED BY <1>2, <1>3, <1>4, <1>5, <1>6, <1>7, <1>8, <1>9, <1>10, <1>11 DEF Sh!Next

-----------------------------------------------------------------------------
\* The inductive invariant of the shell (bindhome-panel.js).
THEOREM ShellInvariance == ASSUME Sh!ShellAssumption PROVE Sh!Spec => []ShellInv
<1>1. Sh!Init => ShellInv BY ShellInit
<1>2. ShellInv /\ [Sh!Next]_(Sh!vars) => ShellInv' BY ShellStep
<1> QED BY <1>1, <1>2, PTL DEF Sh!Spec

\* A reload, a bookmark or the history brings back what is on show, and what changes the
\* registry is shown to administrators only (bindhome-panel.js, _commitRoute, _applyRoute):
\* for any addresses, rights that come and go, and any data.
THEOREM ScreensOfUrls ==
  ASSUME Sh!ShellAssumption PROVE Sh!Spec => [](Sh!ScreenOfUrl /\ Sh!AdminOnly)
<1>1. ShellInv => Sh!ScreenOfUrl /\ Sh!AdminOnly
  BY Parsed DEF ShellInv, Sh!TypeOK, Sh!ScreenOfUrl, Canonical, Sh!ShellAssumption
<1> QED BY <1>1, ShellInvariance, PTL

\* The user finds an asset in the room it is opened in, wherever the asset is and whatever
\* is known of its room (home-view.js, _selectAsset; bindhome-panel.js, _openAsset).
THEOREM OpensListed == ASSUME Sh!ShellAssumption PROVE Sh!Spec => Sh!OpensWhereListed
<1>1. ShellInv /\ ShellInv' /\ [Sh!Next]_(Sh!vars)
        => [Sh!Settled /\ screen.asset # screen'.asset /\ screen'.asset # None
              => /\ (screen.asset \in Sh!InRoom(screen.area))'
                 /\ (screen.area \in Sh!Offered \cup Sh!Groupless)']_(Sh!vars)
  BY Opens DEF Found
<1> QED BY <1>1, ShellInvariance, PTL DEF Sh!Spec, Sh!OpensWhereListed

-----------------------------------------------------------------------------
(***************************************************************************)
(* The inventory browser and its editor, module AssetBrowser.  What keeps  *)
(* the form and the list together is not visible on the screen: a save     *)
(* under way has an editor that waits for it or is counted in orphans, and *)
(* a list on its way has no asset that the browser has not, since the      *)
(* other administrators of the model only delete.  A draft differs from    *)
(* its snapshot in the fields that its user has changed and in no other.   *)
(***************************************************************************)

CONSTANTS Names, Capabilities, FloorOf, Blank, Unknown, MaxRevision

VARIABLES
  stored, revision, basis, assets, places, requested, key, selected, locked, editor, orphans

Br == INSTANCE AssetBrowser

\* A queue of messages of one kind is a queue of messages of a wider one.
LEMMA SeqInto ==
  ASSUME NEW S, NEW T, NEW q \in Seq(S), \A m \in S : m \in T PROVE q \in Seq(T)
<1>1. q = [n \in 1..Len(q) |-> q[n]] /\ Len(q) \in Nat /\ \A n \in 1..Len(q) : q[n] \in T
  OBVIOUS
<1> QED BY <1>1, IsASeq

\* Assets by id, as the registry and every list have them.
Table ==
  {t \in UNION {[D -> Br!Asset] : D \in SUBSET Assets} : \A a \in DOMAIN t : t[a].id = a}

\* What a save may change: only what its user has changed.
Patched ==
  {m \in [id : Assets, patch : UNION {[D -> Names \cup Areas \cup {None} \cup SUBSET Capabilities] :
                                        D \in SUBSET Br!Field},
          based : Nat, edited : SUBSET Br!Field] :
     /\ DOMAIN m.patch \subseteq m.edited
     /\ "name" \in DOMAIN m.patch => m.patch["name"] \in Names
     /\ "area" \in DOMAIN m.patch => m.patch["area"] \in Areas \cup {None}
     /\ "caps" \in DOMAIN m.patch => m.patch["caps"] \subseteq Capabilities}

Arriving ==
  [type : {"list"}, assets : Table, revision : 0..revision]
    \cup [type : {"saved"}, asset : Br!Asset, revision : 0..revision]
    \cup [type : {"refused"}]

\* An editor whose draft differs from its snapshot only in what its user has changed.
Sound ==
  {e \in Br!Editor :
     /\ e.draft.id = e.snapshot.id
     /\ e.saving => e.editing
     /\ \A f \in Br!Field \ e.edited : e.draft[f] = Br!CreateDraft(e.snapshot)[f]}

\* The editor is there while an asset of the list is selected, and shows it.
EditorHolds ==
  IF selected \in DOMAIN assets
  THEN editor \in Sound /\ editor.asset = assets[selected] /\ (editor.editing => locked)
  ELSE editor = None

\* The assets a message is about.
About(m) ==
  IF m.type = "list" THEN DOMAIN m.assets ELSE IF m.type = "saved" THEN {m.asset.id} ELSE {}

\* Assets only go: what is read later is part of what was read before.
Shrinks ==
  /\ DOMAIN stored \subseteq DOMAIN assets
  /\ \A n \in DOMAIN toPanel :
       /\ About(toPanel[n]) \subseteq DOMAIN assets
       /\ toPanel[n].type = "list" => DOMAIN stored \subseteq About(toPanel[n])
       /\ \A k \in DOMAIN toPanel :
            k < n /\ toPanel[k].type = "list" => About(toPanel[n]) \subseteq About(toPanel[k])

\* Every save under way has its answer coming, to an editor that waits or to nobody.
Busy(e) == IF e # None /\ e.saving THEN 1 ELSE 0
Awaited(q) == Cardinality({n \in DOMAIN q : q[n].type # "list"})
Balance == orphans + Busy(editor) = Len(toServer) + Awaited(toPanel)

Shape ==
  /\ stored \in Table /\ assets \in Table
  /\ revision \in 0..MaxRevision /\ basis \in 0..revision
  /\ places \in [areas : SUBSET Areas, floors : SUBSET Floors]
  /\ requested \in Assets \cup {None} /\ selected \in Assets \cup {None}
  /\ key \in Areas \cup {NoArea, Unknown, None} /\ locked \in BOOLEAN
  /\ editor \in Sound \cup {None}
  /\ toServer \in Seq(Patched) /\ Len(toServer) <= MaxWaiting
  /\ toPanel \in Seq(Arriving) /\ Len(toPanel) <= MaxWaiting
  /\ orphans \in Nat

\* The inductive invariant.
BrowserInv == Shape /\ EditorHolds /\ Shrinks /\ Balance

-----------------------------------------------------------------------------
\* Of the messages of a queue, those that are answers.
LEMMA AwaitedType ==
  ASSUME NEW S, NEW q \in Seq(S)
  PROVE  /\ IsFiniteSet({n \in DOMAIN q : q[n].type # "list"})
         /\ Awaited(q) \in Nat /\ Awaited(q) <= Len(q)
<1> DEFINE T == {n \in DOMAIN q : q[n].type # "list"}
<1>1. Len(q) \in Nat /\ T \in SUBSET (1..Len(q))
  OBVIOUS
<1>2. IsFiniteSet(1..Len(q)) /\ Cardinality(1..Len(q)) = Len(q)
  <2>1. 1 \in Int /\ Len(q) \in Int BY <1>1
  <2>2. /\ IsFiniteSet(1..Len(q))
        /\ Cardinality(1..Len(q)) = IF 1 > Len(q) THEN 0 ELSE Len(q) - 1 + 1
    BY ONLY <2>1, FS_Interval
  <2> QED BY <1>1, <2>2
<1>3. IsFiniteSet(T) /\ Cardinality(T) <= Len(q)
  BY <1>1, <1>2, FS_Subset
<1>4. Cardinality(T) \in Nat
  BY <1>3, FS_CardinalityType
<1> QED BY <1>3, <1>4 DEF Awaited

LEMMA AwaitedAppend ==
  ASSUME NEW S, NEW q \in Seq(S), NEW m \in S
  PROVE  Awaited(Append(q, m)) = Awaited(q) + (IF m.type = "list" THEN 0 ELSE 1)
<1> DEFINE T == {n \in DOMAIN q : q[n].type # "list"}
           r == Append(q, m)
           U == {n \in DOMAIN r : r[n].type # "list"}
<1>1. Len(q) \in Nat /\ Len(q) + 1 \notin T /\ DOMAIN q = 1..Len(q)
  OBVIOUS
<1>2. /\ DOMAIN r = DOMAIN q \cup {Len(q) + 1} /\ r[Len(q) + 1] = m
      /\ \A n \in DOMAIN q : r[n] = q[n]
  OBVIOUS
<1> HIDE DEF r
<1>3. U = IF m.type = "list" THEN T ELSE T \cup {Len(q) + 1}
  <2>1. CASE m.type = "list" BY <1>1, <1>2, <2>1
  <2>2. CASE m.type # "list" BY <1>1, <1>2, <2>2
  <2> QED BY <2>1, <2>2
<1>4. IsFiniteSet(T) /\ Cardinality(T) \in Nat
  BY AwaitedType, FS_CardinalityType
<1>5. Cardinality(T \cup {Len(q) + 1}) = Cardinality(T) + 1
  BY <1>1, <1>4, FS_AddElement
<1>6. Awaited(r) = Cardinality(U) /\ Awaited(q) = Cardinality(T)
  BY DEF Awaited
<1> HIDE DEF T, U
<1>7. Awaited(r) = Awaited(q) + (IF m.type = "list" THEN 0 ELSE 1)
  BY <1>3, <1>4, <1>5, <1>6
<1> QED BY <1>7 DEF r

LEMMA AwaitedTail ==
  ASSUME NEW S, NEW q \in Seq(S), q # <<>>
  PROVE  Awaited(q) = Awaited(Tail(q)) + (IF Head(q).type = "list" THEN 0 ELSE 1)
<1> DEFINE T == {n \in DOMAIN q : q[n].type # "list"}
           r == Tail(q)
           U == {n \in DOMAIN r : r[n].type # "list"}
           R == T \ {1}
<1>0. r \in Seq(S) OBVIOUS
<1>1. Len(q) \in Nat \ {0} /\ DOMAIN q = 1..Len(q) /\ Head(q) = q[1]
  OBVIOUS
<1>2. DOMAIN r = 1..(Len(q) - 1) /\ \A n \in DOMAIN r : r[n] = q[n + 1]
  BY <1>1
<1>3. IsFiniteSet(T) /\ IsFiniteSet(U)
  BY <1>0, AwaitedType
<1> HIDE DEF r
<1>4. IsFiniteSet(R) /\ Cardinality(R) = IF 1 \in T THEN Cardinality(T) - 1 ELSE Cardinality(T)
  BY <1>3, FS_RemoveElement
<1>5. Cardinality(T) \in Nat /\ Cardinality(U) \in Nat /\ Cardinality(R) \in Nat
  BY <1>3, <1>4, FS_CardinalityType
<1>6. ~(Cardinality(U) < Cardinality(R))
  <2> SUFFICES ASSUME Cardinality(U) < Cardinality(R) PROVE FALSE
    OBVIOUS
  <2> DEFINE f == [n \in R |-> n - 1]
  <2>1. \A n \in R : n \in Int /\ n - 1 \in U BY <1>1, <1>2
  <2>2. f \in [R -> U] BY <2>1
  <2>3. \A n, k \in R : f[n] = f[k] => n = k BY <2>1
  <2> HIDE DEF f, R, U
  <2> QED BY <1>3, <1>4, <2>2, <2>3, FS_PigeonHole
<1>7. ~(Cardinality(R) < Cardinality(U))
  <2> SUFFICES ASSUME Cardinality(R) < Cardinality(U) PROVE FALSE
    OBVIOUS
  <2> DEFINE f == [n \in U |-> n + 1]
  <2>1. \A n \in U : n \in Int /\ n + 1 \in R BY <1>1, <1>2
  <2>2. f \in [U -> R] BY <2>1
  <2>3. \A n, k \in U : f[n] = f[k] => n = k BY <2>1
  <2> HIDE DEF f, R, U
  <2> QED BY <1>3, <1>4, <2>2, <2>3, FS_PigeonHole
<1>8. 1 \in T <=> Head(q).type # "list" BY <1>1
<1>9. Awaited(r) = Cardinality(U) /\ Awaited(q) = Cardinality(T)
  BY DEF Awaited
<1> HIDE DEF T, U, R
<1>10. Awaited(q) = Awaited(r) + (IF Head(q).type = "list" THEN 0 ELSE 1)
  BY <1>4, <1>5, <1>6, <1>7, <1>8, <1>9
<1> QED BY <1>10 DEF r

-----------------------------------------------------------------------------
\* What the constants are not.
LEMMA Distinct ==
  ASSUME Br!BrowserAssumption
  PROVE  /\ None # Blank /\ None # NoArea /\ None # Unknown /\ Blank # NoArea
         /\ Blank # Unknown /\ NoArea # Unknown
         /\ \A x \in Areas \cup Assets : x \notin {None, Blank, NoArea, Unknown}
BY DEF Br!BrowserAssumption

\* The keys of the tree, one by one.
LEMMA KeysMember ==
  ASSUME NEW as, NEW at, NEW k
  PROVE  k \in Br!Keys(as, at) <=>
           \/ k \in at.areas /\ (FloorOf[k] \in at.floors \/ FloorOf[k] \notin at.floors)
           \/ k = NoArea /\ Br!NoAreaAssets(as) # {}
           \/ k = Unknown /\ Br!UnknownAreaAssets(as, at) # {}
<1> DEFINE U == UNION {Br!FloorAreas(f, at) : f \in at.floors}
<1>1. k \in U <=> \E f \in at.floors : k \in Br!FloorAreas(f, at)
  OBVIOUS
<1>2. k \in U <=> k \in at.areas /\ FloorOf[k] \in at.floors
  BY <1>1 DEF Br!FloorAreas
<1>3. k \in Br!NoFloorAreas(at) <=> k \in at.areas /\ FloorOf[k] \notin at.floors
  BY DEF Br!NoFloorAreas
<1>4. k \in Br!Keys(as, at) <=>
        \/ k \in U \/ k \in Br!NoFloorAreas(at)
        \/ k \in (IF Br!NoAreaAssets(as) # {} THEN {NoArea} ELSE {})
        \/ k \in (IF Br!UnknownAreaAssets(as, at) # {} THEN {Unknown} ELSE {})
  BY DEF Br!Keys
<1> HIDE DEF U
<1> QED BY <1>2, <1>3, <1>4

\* Every asset of a list is behind exactly one button of the tree.
LEMMA TreeLists ==
  ASSUME Br!BrowserAssumption, assets \in Table, places \in [areas : SUBSET Areas, floors : SUBSET Floors]
  PROVE  Br!EveryAssetListed
<1> SUFFICES ASSUME NEW a \in DOMAIN assets
             PROVE  \E k \in Br!Keys(assets, places) :
                      /\ a \in Br!Target(k, assets, places)
                      /\ \A l \in Br!Keys(assets, places) \ {k} : a \notin Br!Target(l, assets, places)
  BY DEF Br!EveryAssetListed
<1>1. assets[a].area \in Areas \cup {None}
  BY DEF Table, Br!Asset
<1>2. \A k \in Br!Keys(assets, places) : k \in places.areas \cup {NoArea, Unknown}
  BY KeysMember
<1>3. places.areas \subseteq Areas OBVIOUS
<1>4. /\ Br!Target(NoArea, assets, places) = Br!NoAreaAssets(assets)
      /\ Br!Target(Unknown, assets, places) = Br!UnknownAreaAssets(assets, places)
      /\ \A x \in Areas : Br!Target(x, assets, places) = {b \in DOMAIN assets : assets[b].area = x}
  BY Distinct DEF Br!Target
<1>5. CASE assets[a].area = None
  <2>1. a \in Br!NoAreaAssets(assets) /\ a \notin Br!UnknownAreaAssets(assets, places)
    BY <1>5 DEF Br!NoAreaAssets, Br!UnknownAreaAssets
  <2>2. NoArea \in Br!Keys(assets, places) BY <2>1, KeysMember
  <2>3. \A x \in Areas : a \notin Br!Target(x, assets, places) BY <1>4, <1>5, Distinct
  <2> QED BY <1>2, <1>3, <1>4, <2>1, <2>2, <2>3
<1>6. CASE assets[a].area \in places.areas
  <2> DEFINE x == assets[a].area
  <2>1. x \in Areas /\ FloorOf[x] \in Floors BY <1>3, <1>6 DEF Br!BrowserAssumption
  <2>2. x \in Br!Keys(assets, places)
    BY <1>6, KeysMember
  <2>3. a \in Br!Target(x, assets, places) /\ \A y \in Areas \ {x} : a \notin Br!Target(y, assets, places)
    BY <1>4, <2>1
  <2>4. a \notin Br!NoAreaAssets(assets) /\ a \notin Br!UnknownAreaAssets(assets, places)
    BY <1>6, <2>1, Distinct DEF Br!NoAreaAssets, Br!UnknownAreaAssets
  <2> HIDE DEF x
  <2> QED BY <1>2, <1>3, <1>4, <2>2, <2>3, <2>4
<1>7. CASE assets[a].area \notin places.areas \cup {None}
  <2>1. a \in Br!UnknownAreaAssets(assets, places) /\ a \notin Br!NoAreaAssets(assets)
    BY <1>7 DEF Br!NoAreaAssets, Br!UnknownAreaAssets
  <2>2. Unknown \in Br!Keys(assets, places) BY <2>1, KeysMember
  <2>3. \A x \in places.areas : a \notin Br!Target(x, assets, places) BY <1>3, <1>4, <1>7
  <2> QED BY <1>2, <1>4, <2>1, <2>2, <2>3
<1> QED BY <1>5, <1>6, <1>7

-----------------------------------------------------------------------------
\* What a table is.
LEMMA TableElim ==
  ASSUME NEW t \in Table
  PROVE  /\ DOMAIN t \subseteq Assets /\ t = [a \in DOMAIN t |-> t[a]]
         /\ \A a \in DOMAIN t : t[a] \in Br!Asset /\ t[a].id = a
BY DEF Table

LEMMA TableIntro ==
  ASSUME NEW D \in SUBSET Assets, NEW t, t = [a \in D |-> t[a]],
         \A a \in D : t[a] \in Br!Asset /\ t[a].id = a
  PROVE  t \in Table
<1>1. t \in [D -> Br!Asset] OBVIOUS
<1>2. DOMAIN t = D OBVIOUS
<1> QED BY <1>1, <1>2 DEF Table

\* What a draft is, and what is sent of it.
LEMMA DraftType == ASSUME NEW a \in Br!Asset PROVE Br!CreateDraft(a) \in Br!Draft /\ Br!CreateDraft(a).id = a.id
BY DEF Br!CreateDraft, Br!Asset, Br!Draft

LEMMA FreshSound ==
  ASSUME NEW a \in Br!Asset
  PROVE  /\ Br!Fresh(a) \in Sound /\ Br!Fresh(a).asset = a /\ ~Br!Fresh(a).editing /\ ~Br!Fresh(a).saving
         /\ Br!Saved(a) \in Sound /\ Br!Saved(a).asset = a /\ ~Br!Saved(a).editing /\ ~Br!Saved(a).saving
<1>1. Br!Fresh(a) \in Br!Editor BY DraftType DEF Br!Fresh, Br!Editor
<1>2. Br!Saved(a) \in Br!Editor BY <1>1 DEF Br!Saved, Br!Editor
<1>3. Br!Fresh(a).draft = Br!CreateDraft(a) /\ Br!Fresh(a).snapshot = a /\ Br!Fresh(a).asset = a
      /\ ~Br!Fresh(a).editing /\ ~Br!Fresh(a).saving
  BY DEF Br!Fresh
<1>4. Br!Saved(a).draft = Br!CreateDraft(a) /\ Br!Saved(a).snapshot = a /\ Br!Saved(a).asset = a
      /\ ~Br!Saved(a).editing /\ ~Br!Saved(a).saving
  BY DEF Br!Fresh, Br!Saved
<1> QED BY <1>1, <1>2, <1>3, <1>4, DraftType DEF Sound

LEMMA ShowsSound ==
  ASSUME NEW e \in Sound, NEW a \in Br!Asset
  PROVE  /\ Br!Shows(e, a) \in Sound /\ Br!Shows(e, a).asset = a
         /\ Br!Shows(e, a).editing = e.editing /\ Br!Shows(e, a).saving = e.saving
         /\ e.editing => Br!Shows(e, a).draft = e.draft
<1>0. e \in Br!Editor BY DEF Sound
<1>1. CASE e.editing
  <2>1. Br!Shows(e, a) = [e EXCEPT !.asset = a] BY <1>1 DEF Br!Shows
  <2>2. Br!Shows(e, a) \in Br!Editor BY <1>0, <2>1 DEF Br!Editor
  <2>3. /\ Br!Shows(e, a).asset = a /\ Br!Shows(e, a).editing = e.editing
        /\ Br!Shows(e, a).saving = e.saving /\ Br!Shows(e, a).draft = e.draft
        /\ Br!Shows(e, a).snapshot = e.snapshot /\ Br!Shows(e, a).edited = e.edited
    BY <1>0, <2>1 DEF Br!Editor
  <2> QED BY <2>2, <2>3 DEF Sound
<1>2. CASE ~e.editing
  <2>1. Br!Shows(e, a) = [e EXCEPT !.asset = a, !.snapshot = a, !.draft = Br!CreateDraft(a)]
    BY <1>2 DEF Br!Shows
  <2>2. Br!Shows(e, a) \in Br!Editor BY <1>0, <2>1, DraftType DEF Br!Editor
  <2>3. /\ Br!Shows(e, a).asset = a /\ Br!Shows(e, a).editing = e.editing
        /\ Br!Shows(e, a).saving = e.saving /\ Br!Shows(e, a).draft = Br!CreateDraft(a)
        /\ Br!Shows(e, a).snapshot = a
    BY <1>0, <2>1 DEF Br!Editor
  <2> QED BY <1>2, <2>2, <2>3, DraftType DEF Sound
<1> QED BY <1>1, <1>2

\* The editor the browser renders for a list and a selection.
LEMMA RenderedSound ==
  ASSUME Br!BrowserAssumption, NEW as \in Table, NEW e \in Sound \cup {None}, NEW sel
  PROVE  LET r == Br!Rendered(e, as, sel) IN
         /\ r \in Sound \cup {None}
         /\ sel \notin DOMAIN as => r = None
         /\ sel \in DOMAIN as =>
              /\ r # None /\ r \in Sound /\ r.asset = as[sel]
              /\ r.editing => e # None /\ e.editing /\ r.draft = e.draft
              /\ e # None /\ e.editing => r.editing
              /\ Busy(r) = Busy(e)
<1>0. None \notin Sound BY DEF Br!BrowserAssumption, Sound
<1>1. CASE sel \notin DOMAIN as BY <1>1 DEF Br!Rendered
<1>2. CASE sel \in DOMAIN as /\ e = None
  <2>1. as[sel] \in Br!Asset BY <1>2, TableElim
  <2>2. Br!Rendered(e, as, sel) = Br!Fresh(as[sel]) BY <1>2 DEF Br!Rendered
  <2> QED BY <1>0, <1>2, <2>1, <2>2, FreshSound DEF Busy
<1>3. CASE sel \in DOMAIN as /\ e # None
  <2>1. as[sel] \in Br!Asset BY <1>3, TableElim
  <2>2. Br!Rendered(e, as, sel) = Br!Shows(e, as[sel]) BY <1>3 DEF Br!Rendered
  <2>3. e \in Sound BY <1>3
  <2> DEFINE s == Br!Shows(e, as[sel])
  <2>4. /\ s \in Sound /\ s.asset = as[sel] /\ s.editing = e.editing /\ s.saving = e.saving
        /\ e.editing => s.draft = e.draft
    BY <2>1, <2>3, ShowsSound
  <2>5. s.editing \in BOOLEAN /\ s.saving \in BOOLEAN /\ s # None
    BY <1>0, <2>4 DEF Sound, Br!Editor
  <2> HIDE DEF s
  <2>6. Br!Rendered(e, as, sel) = s BY <2>2 DEF s
  <2>7. Busy(s) = Busy(e) BY <1>3, <2>4, <2>5 DEF Busy
  <2> QED BY <1>3, <2>4, <2>5, <2>6, <2>7
<1> QED BY <1>1, <1>2, <1>3

\* Nobody waits for the answer to an editor that is gone.
LEMMA SettleKeeps ==
  ASSUME NEW e, Br!Settle(e), orphans \in Nat, e # None => Busy(e) = Busy(editor)
  PROVE  editor' = e /\ orphans' \in Nat /\ orphans' + Busy(editor') = orphans + Busy(editor)
<1>1. CASE e = None BY <1>1 DEF Br!Settle, Busy
<1>2. CASE e # None BY <1>2 DEF Br!Settle, Busy
<1> QED BY <1>1, <1>2

\* The browser and its editor after an update.
LEMMA UpdateHolds ==
  ASSUME Br!BrowserAssumption, NEW e \in Sound \cup {None}, NEW as \in Table,
         NEW at \in [areas : SUBSET Areas, floors : SUBSET Floors],
         NEW k \in Areas \cup {NoArea, Unknown, None}, NEW sel \in Assets \cup {None},
         NEW lock \in BOOLEAN, Br!Update(e, as, at, k, sel, lock),
         e # None /\ e.editing => lock = TRUE, orphans \in Nat
  PROVE  /\ assets' = as /\ places' = at /\ EditorHolds'
         /\ key' \in Areas \cup {NoArea, Unknown, None} /\ selected' \in Assets \cup {None}
         /\ locked' \in BOOLEAN /\ editor' \in Sound \cup {None}
         /\ editor' = Br!Rendered(e, as, selected')
         /\ selected' \in DOMAIN as <=> sel \in DOMAIN as
         /\ selected' \in DOMAIN as => locked' = lock
         /\ sel \in DOMAIN as => selected' = sel
         /\ sel # None /\ sel \notin DOMAIN as => ~locked' \/ k = None
         /\ Br!Settle(editor')
<1> DEFINE gone == k # None /\ sel # None /\ sel \notin DOMAIN as
<1>0. DOMAIN as \subseteq Assets /\ None \notin DOMAIN as
  BY TableElim, Distinct
<1>1. /\ assets' = as /\ places' = at
      /\ key' = IF k \in Br!Keys(as, at) \/ k = None THEN k ELSE None
      /\ selected' = IF gone THEN None ELSE sel
      /\ locked' = (lock /\ ~gone)
      /\ Br!Settle(Br!Rendered(e, as, selected'))
  BY DEF Br!Update
<1>2. editor' = Br!Rendered(e, as, selected') /\ Br!Settle(editor')
  BY <1>1 DEF Br!Settle
<1>3. selected' \in DOMAIN as <=> sel \in DOMAIN as
  BY <1>0, <1>1
<1>4. selected' \in DOMAIN as => locked' = lock
  BY <1>0, <1>1
<1> HIDE DEF gone
<1>5. EditorHolds'
  <2>1. CASE selected' \in DOMAIN as
    <3>1. /\ editor' \in Sound /\ editor'.asset = as[selected']
          /\ editor'.editing => e # None /\ e.editing
      BY <1>2, <2>1, RenderedSound
    <3> QED BY <1>1, <1>4, <2>1, <3>1 DEF EditorHolds
  <2>2. CASE selected' \notin DOMAIN as
    <3>1. editor' = None BY <1>2, <2>2, RenderedSound
    <3> QED BY <1>1, <2>2, <3>1 DEF EditorHolds
  <2> QED BY <2>1, <2>2
<1>6. editor' \in Sound \cup {None}
  BY <1>2, RenderedSound
<1> QED BY <1>0, <1>1, <1>2, <1>3, <1>4, <1>5, <1>6 DEF gone

\* The messages that may wait stay so while the registry moves on.
LEMMA ArrivingStands ==
  ASSUME revision \in Nat, revision' \in Nat, revision <= revision'
  PROVE  \A m \in Arriving : m \in Arriving'
BY DEF Arriving

LEMMA ArrivingFields ==
  ASSUME NEW m \in Arriving
  PROVE  /\ m.type \in {"list", "saved", "refused"}
         /\ m.type = "list" => m.assets \in Table /\ m.revision \in 0..revision
         /\ m.type = "saved" => m.asset \in Br!Asset /\ m.revision \in 0..revision
BY DEF Arriving

\* A message added to the socket: about what is stored, and a list is all of it.
LEMMA ShrinksAppend ==
  ASSUME Shape, Shrinks, NEW m, m \in Arriving', toPanel' = Append(toPanel, m),
         toPanel \in Seq(Arriving'),
         DOMAIN stored' = DOMAIN stored, assets' = assets, About(m) \subseteq DOMAIN stored,
         m.type = "list" => About(m) = DOMAIN stored
  PROVE  Shrinks'
<1>1. /\ Len(toPanel) \in Nat /\ DOMAIN toPanel = 1..Len(toPanel)
      /\ DOMAIN toPanel' = 1..(Len(toPanel) + 1)
      /\ toPanel'[Len(toPanel) + 1] = m
      /\ \A n \in DOMAIN toPanel : toPanel'[n] = toPanel[n]
  OBVIOUS
<1>2. \A n \in DOMAIN toPanel' :
        /\ About(toPanel'[n]) \subseteq DOMAIN assets'
        /\ toPanel'[n].type = "list" => DOMAIN stored' \subseteq About(toPanel'[n])
  BY <1>1 DEF Shrinks
<1>3. \A n, k \in DOMAIN toPanel' :
        k < n /\ toPanel'[k].type = "list" => About(toPanel'[n]) \subseteq About(toPanel'[k])
  BY <1>1 DEF Shrinks
<1> QED BY <1>2, <1>3 DEF Shrinks, About

\* The same messages, of a registry that has lost assets or none.
LEMMA ShrinksStored ==
  ASSUME Shrinks, DOMAIN stored' \subseteq DOMAIN stored, UNCHANGED toPanel,
         DOMAIN assets' = DOMAIN assets
  PROVE  Shrinks'
BY DEF Shrinks, About

-----------------------------------------------------------------------------
\* The registry, other administrators and Home Assistant.
LEMMA EditStep == ASSUME Br!BrowserAssumption, BrowserInv, Br!OtherEdit PROVE BrowserInv'
<1> USE DEF BrowserInv
<1>1. PICK a \in DOMAIN stored, f \in {"name", "area"} :
        \E value \in IF f = "name" THEN Names ELSE places.areas \cup {None} :
          stored' = [stored EXCEPT ![a][f] = value]
  BY DEF Br!OtherEdit
<1>2. PICK value \in IF f = "name" THEN Names ELSE places.areas \cup {None} :
        stored' = [stored EXCEPT ![a][f] = value]
  BY <1>1
<1>3. stored[a] \in Br!Asset /\ stored[a].id = a /\ DOMAIN stored \subseteq Assets
  BY TableElim DEF Shape
<1>4. DOMAIN stored' = DOMAIN stored /\ \A b \in DOMAIN stored \ {a} : stored'[b] = stored[b]
  BY <1>2
<1>5. stored'[a] = [stored[a] EXCEPT ![f] = value]
  BY <1>2
<1>6. stored'[a] \in Br!Asset /\ stored'[a].id = a
  <2>1. CASE f = "name"
    <3>1. value \in Names BY <1>2, <2>1
    <3> QED BY <1>3, <1>5, <2>1, <3>1 DEF Br!Asset
  <2>2. CASE f = "area"
    <3>1. value \in Areas \cup {None} BY <1>2, <2>2 DEF Shape
    <3> QED BY <1>3, <1>5, <2>2, <3>1 DEF Br!Asset
  <2> QED BY <1>1, <2>1, <2>2
<1>7. stored' = [b \in DOMAIN stored |-> stored'[b]]
  BY <1>2
<1>8. stored' \in Table
  <2>1. \A b \in DOMAIN stored : stored'[b] \in Br!Asset /\ stored'[b].id = b
    BY <1>4, <1>6, TableElim DEF Shape
  <2> QED BY <1>3, <1>7, <2>1, TableIntro
<1>9. revision' \in 0..MaxRevision /\ revision' = revision + 1 /\ revision \in Nat
  BY DEF Br!OtherEdit, Shape, Br!BrowserAssumption
<1>10. toPanel' \in Seq(Arriving')
  BY <1>9, ArrivingStands, SeqInto DEF Br!OtherEdit, Shape
<1>11. Shape' BY <1>8, <1>9, <1>10 DEF Br!OtherEdit, Shape, Br!browser
<1>12. Shrinks' BY <1>4, ShrinksStored DEF Br!OtherEdit, Br!browser
<1> QED BY <1>11, <1>12 DEF Br!OtherEdit, Br!browser, EditorHolds, Balance

LEMMA DeleteStep == ASSUME Br!BrowserAssumption, BrowserInv, Br!OtherDelete PROVE BrowserInv'
<1> USE DEF BrowserInv
<1>1. PICK a \in DOMAIN stored : stored' = [b \in DOMAIN stored \ {a} |-> stored[b]]
  BY DEF Br!OtherDelete
<1>2. stored' \in Table
  <2>1. DOMAIN stored \ {a} \subseteq Assets BY TableElim DEF Shape
  <2>2. \A b \in DOMAIN stored \ {a} : stored'[b] \in Br!Asset /\ stored'[b].id = b
    BY <1>1, TableElim DEF Shape
  <2>3. stored' = [b \in DOMAIN stored \ {a} |-> stored'[b]] BY <1>1
  <2> QED BY <2>1, <2>2, <2>3, TableIntro
<1>3. revision' \in 0..MaxRevision /\ revision' = revision + 1 /\ revision \in Nat
  BY DEF Br!OtherDelete, Shape, Br!BrowserAssumption
<1>4. toPanel' \in Seq(Arriving')
  BY <1>3, ArrivingStands, SeqInto DEF Br!OtherDelete, Shape
<1>5. Shape' BY <1>2, <1>3, <1>4 DEF Br!OtherDelete, Shape, Br!browser
<1>6. DOMAIN stored' \subseteq DOMAIN stored BY <1>1
<1>7. Shrinks' BY <1>6, ShrinksStored DEF Br!OtherDelete, Br!browser
<1> QED BY <1>5, <1>7 DEF Br!OtherDelete, Br!browser, EditorHolds, Balance

LEMMA ReadStep == ASSUME Br!BrowserAssumption, BrowserInv, Br!ReadList PROVE BrowserInv'
<1> USE DEF BrowserInv
<1> DEFINE m == [type |-> "list", assets |-> stored, revision |-> revision]
<1>1. m \in Arriving /\ m.type = "list" /\ About(m) = DOMAIN stored
  BY DEF Arriving, Shape, About
<1>2. toPanel' = Append(toPanel, m) /\ revision' = revision /\ Arriving' = Arriving
  BY DEF Br!ReadList, Br!server, Arriving
<1> HIDE DEF m
<1>3. toPanel' \in Seq(Arriving') /\ Len(toPanel') <= MaxWaiting
  BY <1>1, <1>2, AppendHolds DEF Shape, Br!ReadList, Br!BrowserAssumption
<1>4. Shape' BY <1>3 DEF Br!ReadList, Shape, Br!browser, Br!server
<1>5. Shrinks' BY <1>1, <1>2, ShrinksAppend DEF Br!ReadList, Br!server, Br!browser, Shape
<1>6. Balance'
  <2>1. Awaited(toPanel') = Awaited(toPanel) + 0 /\ Awaited(toPanel) \in Nat
    BY <1>1, <1>2, AwaitedAppend, AwaitedType DEF Shape
  <2>2. UNCHANGED <<toServer, orphans, editor>> BY DEF Br!ReadList
  <2> QED BY <2>1, <2>2 DEF Balance
<1> QED BY <1>4, <1>5, <1>6 DEF Br!ReadList, Br!browser, EditorHolds

\* The server answers: what it commits is an asset still.
LEMMA ServeStep == ASSUME Br!BrowserAssumption, BrowserInv, Br!ServeSave PROVE BrowserInv'
<1> USE DEF BrowserInv
<1> DEFINE m == Head(toServer)
<1>1. m \in Patched /\ Tail(toServer) \in Seq(Patched) /\ Len(Tail(toServer)) = Len(toServer) - 1
      /\ Len(toServer) \in Nat /\ toServer' = Tail(toServer)
  BY TailHolds DEF Br!ServeSave, Shape
<1>2. UNCHANGED <<basis, Br!browser, editor, orphans>> /\ Len(toPanel) < MaxWaiting
      /\ revision \in Nat /\ basis \in Nat /\ basis <= revision /\ revision <= MaxRevision
  BY DEF Br!ServeSave, Shape, Br!BrowserAssumption
<1>3. ASSUME NEW a, a \in Arriving', a.type # "list", toPanel' = Append(toPanel, a),
             stored' \in Table, DOMAIN stored' = DOMAIN stored, About(a) \subseteq DOMAIN stored,
             revision' \in 0..MaxRevision, revision <= revision'
      PROVE  BrowserInv'
  <2>1. toPanel \in Seq(Arriving')
    BY <1>2, <1>3, ArrivingStands, SeqInto DEF Shape, Br!BrowserAssumption
  <2>2. toPanel' \in Seq(Arriving') /\ Len(toPanel') <= MaxWaiting
    BY <1>2, <1>3, <2>1, AppendHolds DEF Br!BrowserAssumption
  <2>3. basis' \in 0..revision' BY <1>2, <1>3 DEF Br!BrowserAssumption
  <2>4. Shape' BY <1>1, <1>2, <1>3, <2>2, <2>3 DEF Shape, Br!browser, Br!BrowserAssumption
  <2>5. Shrinks' BY <1>2, <1>3, <2>1, ShrinksAppend DEF Br!browser
  <2>6. Balance'
    <3>1. Awaited(toPanel') = Awaited(toPanel) + 1 BY <1>3, <2>1, AwaitedAppend
    <3>2. Awaited(toPanel) \in Nat BY AwaitedType DEF Shape
    <3>3. Len(toServer') = Len(toServer) - 1 BY <1>1
    <3> QED BY <1>1, <1>2, <3>1, <3>2, <3>3 DEF Balance
  <2> QED BY <1>2, <2>4, <2>5, <2>6 DEF Br!browser, EditorHolds
<1>4. CASE toPanel' = Append(toPanel, [type |-> "refused"]) /\ UNCHANGED Br!server
  <2> DEFINE a == [type |-> "refused"]
  <2>1. a \in Arriving' /\ a.type # "list" /\ About(a) = {} BY DEF Arriving, About
  <2>2. /\ stored' \in Table /\ DOMAIN stored' = DOMAIN stored
        /\ revision' \in 0..MaxRevision /\ revision <= revision'
    BY <1>2, <1>4 DEF Br!server, Shape
  <2> HIDE DEF a
  <2> QED BY <1>3, <1>4, <2>1, <2>2 DEF a
<1>5. CASE /\ m.based = revision /\ m.id \in DOMAIN stored /\ revision < MaxRevision
           /\ stored' = [stored EXCEPT ![m.id] =
                          [f \in DOMAIN @ |-> IF f \in DOMAIN m.patch THEN m.patch[f] ELSE @[f]]]
           /\ revision' = revision + 1
           /\ toPanel' = Append(toPanel,
               [type |-> "saved", asset |-> stored'[m.id], revision |-> revision'])
  <2> DEFINE x == stored[m.id]
             y == [f \in DOMAIN x |-> IF f \in DOMAIN m.patch THEN m.patch[f] ELSE x[f]]
             a == [type |-> "saved", asset |-> stored'[m.id], revision |-> revision']
  <2>1. x \in Br!Asset /\ x.id = m.id /\ DOMAIN stored \subseteq Assets
    BY <1>5, TableElim DEF Shape
  <2>2. y \in Br!Asset /\ y.id = m.id
    <3>1. DOMAIN x = {"id", "name", "area", "caps"} BY <2>1 DEF Br!Asset
    <3>2. DOMAIN m.patch \subseteq {"name", "area", "caps"}
      BY <1>1 DEF Patched, Br!Field
    <3>3. /\ "name" \in DOMAIN m.patch => m.patch["name"] \in Names
          /\ "area" \in DOMAIN m.patch => m.patch["area"] \in Areas \cup {None}
          /\ "caps" \in DOMAIN m.patch => m.patch["caps"] \subseteq Capabilities
      BY <1>1 DEF Patched
    <3>4. x.name \in Names /\ x.area \in Areas \cup {None} /\ x.caps \subseteq Capabilities
          /\ x.id \in Assets
      BY <2>1 DEF Br!Asset
    <3>5. y.id = x.id BY <3>1, <3>2
    <3>6. y.name \in Names BY <3>1, <3>3, <3>4
    <3>7. y.area \in Areas \cup {None} BY <3>1, <3>3, <3>4
    <3>8. y.caps \in SUBSET Capabilities BY <3>1, <3>3, <3>4
    <3>9. y = [id |-> y.id, name |-> y.name, area |-> y.area, caps |-> y.caps]
      BY <3>1
    <3> HIDE DEF y
    <3> QED BY <2>1, <3>4, <3>5, <3>6, <3>7, <3>8, <3>9 DEF Br!Asset
  <2>3. stored' = [stored EXCEPT ![m.id] = y] BY <1>5
  <2> HIDE DEF y, x, m
  <2>4. /\ DOMAIN stored' = DOMAIN stored /\ stored'[m.id] = y
        /\ \A b \in DOMAIN stored \ {m.id} : stored'[b] = stored[b]
        /\ stored' = [b \in DOMAIN stored |-> stored'[b]]
    BY <1>5, <2>3
  <2>5. stored' \in Table
    <3>1. \A b \in DOMAIN stored : stored'[b] \in Br!Asset /\ stored'[b].id = b
      BY <2>2, <2>4, TableElim DEF Shape
    <3>2. DOMAIN stored \in SUBSET Assets BY <2>1
    <3>3. stored' = [b \in DOMAIN stored |-> stored'[b]] BY <2>4
    <3> QED BY ONLY <3>1, <3>2, <3>3, TableIntro
  <2>6. revision' \in 0..MaxRevision /\ revision' \in 0..revision' /\ revision <= revision'
    BY <1>2, <1>5 DEF Br!BrowserAssumption
  <2>7. a \in Arriving' BY <2>2, <2>4, <2>6 DEF Arriving
  <2>8. a.type # "list" /\ About(a) \subseteq DOMAIN stored
    BY <1>5, <2>2, <2>4 DEF About
  <2> QED BY <1>3, <1>5, <2>4, <2>5, <2>6, <2>7, <2>8
<1> QED BY <1>4, <1>5 DEF Br!ServeSave

-----------------------------------------------------------------------------
\* The user's steps, which leave registry and socket alone.
LEMMA QuietHolds ==
  ASSUME BrowserInv, UNCHANGED <<Br!server, toServer, toPanel, basis, assets>>,
         places' \in [areas : SUBSET Areas, floors : SUBSET Floors],
         requested' \in Assets \cup {None}, selected' \in Assets \cup {None},
         key' \in Areas \cup {NoArea, Unknown, None}, locked' \in BOOLEAN,
         editor' \in Sound \cup {None}, EditorHolds', orphans' \in Nat,
         orphans' + Busy(editor') = orphans + Busy(editor)
  PROVE  BrowserInv'
<1>1. Arriving' = Arriving BY DEF Arriving, Br!server
<1>2. Shape' BY <1>1 DEF Shape, BrowserInv, Br!server
<1>3. Shrinks' BY DEF BrowserInv, Shrinks, About, Br!server
<1> QED BY <1>2, <1>3 DEF BrowserInv, Balance

LEMMA PlaceStep == ASSUME Br!BrowserAssumption, BrowserInv, Br!PlaceComesOrGoes PROVE BrowserInv'
<1>1. PICK at \in [areas : SUBSET Areas, floors : SUBSET Floors] :
        Br!Update(editor, assets, at, key, selected, locked)
  BY DEF Br!PlaceComesOrGoes
<1>2. editor # None /\ editor.editing => locked = TRUE
  BY DEF BrowserInv, EditorHolds, Shape
<1>3. /\ assets' = assets /\ places' = at /\ EditorHolds'
      /\ key' \in Areas \cup {NoArea, Unknown, None} /\ selected' \in Assets \cup {None}
      /\ locked' \in BOOLEAN /\ editor' \in Sound \cup {None}
      /\ editor' = Br!Rendered(editor, assets, selected') /\ Br!Settle(editor')
  <2>1. /\ editor \in Sound \cup {None} /\ assets \in Table /\ selected \in Assets \cup {None}
        /\ key \in Areas \cup {NoArea, Unknown, None} /\ locked \in BOOLEAN /\ orphans \in Nat
    BY DEF BrowserInv, Shape
  <2>2. CASE locked = TRUE
    <3>1. Br!Update(editor, assets, at, key, selected, TRUE) BY <1>1, <2>2
    <3> QED BY <2>1, <3>1, UpdateHolds
  <2>3. CASE locked = FALSE
    <3>1. Br!Update(editor, assets, at, key, selected, FALSE) BY <1>1, <2>3
    <3>2. editor # None /\ editor.editing => FALSE = TRUE BY <1>2, <2>3
    <3> QED BY <2>1, <3>1, <3>2, UpdateHolds
  <2> QED BY <2>1, <2>2, <2>3
<1>4. editor' # None => Busy(editor') = Busy(editor)
  BY <1>3, RenderedSound DEF BrowserInv, Shape
<1>5. orphans' \in Nat /\ orphans' + Busy(editor') = orphans + Busy(editor)
  BY <1>3, <1>4, SettleKeeps DEF BrowserInv, Shape
<1> QED BY <1>1, <1>3, <1>5, QuietHolds DEF Br!PlaceComesOrGoes, BrowserInv, Shape

\* A choice: the editor is of the asset chosen.
LEMMA ChooseHolds ==
  ASSUME Br!BrowserAssumption, BrowserInv, NEW k \in Areas \cup {NoArea, Unknown, None},
         NEW sel \in Assets \cup {None}, Br!Choose(k, sel), requested' \in Assets \cup {None}
  PROVE  BrowserInv'
<1>1. /\ UNCHANGED <<Br!server, toServer, toPanel, basis, assets, places, locked>>
      /\ key' = k /\ selected' = sel /\ editor' = Br!Rendered(editor, assets, sel) /\ Br!Settle(editor')
  BY DEF Br!Choose, Br!Settle
<1>2. editor' \in Sound \cup {None} /\ (editor' # None => Busy(editor') = Busy(editor))
  BY <1>1, RenderedSound DEF BrowserInv, Shape
<1>3. orphans' \in Nat /\ orphans' + Busy(editor') = orphans + Busy(editor)
  BY <1>1, <1>2, SettleKeeps DEF BrowserInv, Shape
<1>4. EditorHolds'
  <2>1. editor # None /\ editor.editing => locked
    BY DEF BrowserInv, EditorHolds
  <2>2. CASE sel \in DOMAIN assets
    <3>1. /\ editor' \in Sound /\ editor'.asset = assets[sel]
          /\ editor'.editing => editor # None /\ editor.editing
      BY <1>1, <2>2, RenderedSound DEF BrowserInv, Shape
    <3> QED BY <1>1, <2>1, <2>2, <3>1 DEF EditorHolds
  <2>3. CASE sel \notin DOMAIN assets
    <3>1. editor' = None BY <1>1, <2>3 DEF Br!Rendered
    <3> QED BY <1>1, <2>3, <3>1 DEF EditorHolds
  <2> QED BY <2>2, <2>3
<1> QED BY <1>1, <1>2, <1>3, <1>4, QuietHolds DEF BrowserInv, Shape

LEMMA ChoiceStep ==
  ASSUME Br!BrowserAssumption, BrowserInv,
         \/ \E k \in Areas \cup {NoArea, Unknown} : Br!Select(k)
         \/ \E a \in Assets : Br!OpenAsset(a) \/ Br!NavigateAsset(a) \/ Br!Request(a)
         \/ Br!CloseAsset
  PROVE  BrowserInv'
<1>0. requested \in Assets \cup {None} /\ key \in Areas \cup {NoArea, Unknown, None}
  BY DEF BrowserInv, Shape
<1>1. ASSUME NEW k \in Areas \cup {NoArea, Unknown}, Br!Select(k) PROVE BrowserInv'
  BY <1>0, <1>1, ChooseHolds DEF Br!Select
<1>2. ASSUME NEW a \in Assets, Br!OpenAsset(a) \/ Br!NavigateAsset(a) PROVE BrowserInv'
  BY <1>0, <1>2, ChooseHolds DEF Br!OpenAsset, Br!NavigateAsset
<1>3. ASSUME NEW a \in Assets, Br!Request(a) PROVE BrowserInv'
  <2>1. requested' \in Assets \cup {None} BY <1>3 DEF Br!Request
  <2>2. CASE a \in DOMAIN assets
    <3>1. Br!LocationKey(assets[a]) \in Areas \cup {NoArea, Unknown, None}
      BY DEF Br!LocationKey, BrowserInv, Shape
    <3>2. Br!Choose(Br!LocationKey(assets[a]), a) BY <1>3, <2>2 DEF Br!Request
    <3> QED BY <2>1, <3>1, <3>2, ChooseHolds
  <2>3. CASE a \notin DOMAIN assets
    <3>1. UNCHANGED <<Br!server, toServer, toPanel, basis, assets, places, key, selected,
                      locked, editor, orphans>>
      BY <1>3, <2>3 DEF Br!Request
    <3>2. EditorHolds' BY <3>1 DEF EditorHolds, BrowserInv
    <3> QED BY <2>1, <3>1, <3>2, QuietHolds DEF BrowserInv, Shape
  <2> QED BY <2>2, <2>3
<1>4. CASE Br!CloseAsset
  BY <1>0, <1>4, ChooseHolds DEF Br!CloseAsset
<1> QED BY <1>1, <1>2, <1>3, <1>4

\* A step of the form: the editor changes, for the same asset.
LEMMA EditsHold ==
  ASSUME Br!BrowserAssumption, BrowserInv, NEW e, NEW lock \in BOOLEAN, Br!Edits(e, lock), editor # None,
         UNCHANGED toServer, e \in Sound, e.asset = editor.asset, Busy(e) = Busy(editor),
         e.editing => lock
  PROVE  BrowserInv'
<1>1. selected \in DOMAIN assets /\ editor.asset = assets[selected]
  BY DEF BrowserInv, EditorHolds
<1>2. /\ editor' = e /\ locked' = lock
      /\ UNCHANGED <<Br!server, toPanel, basis, assets, places, requested, key, selected, orphans>>
  BY DEF Br!Edits
<1>3. EditorHolds' BY <1>1, <1>2 DEF EditorHolds
<1> QED BY <1>2, <1>3, QuietHolds DEF BrowserInv, Shape

LEMMA FieldHolds ==
  ASSUME Br!BrowserAssumption, BrowserInv, NEW f \in Br!Field, NEW v, Br!UpdateField(f, v),
         f = "name" => v \in Names, f = "area" => v \in Areas \cup {Blank},
         f = "caps" => v \subseteq Capabilities
  PROVE  BrowserInv'
<1> DEFINE e == [editor EXCEPT !.draft[f] = v, !.error = FALSE, !.saved = FALSE, !.edited = @ \cup {f}]
<1>1. editor # None /\ editor.editing /\ ~editor.saving /\ Br!Edits(e, locked) /\ toServer' = toServer
  BY DEF Br!UpdateField
<1>2. editor \in Sound /\ editor \in Br!Editor /\ locked
  BY <1>1 DEF BrowserInv, EditorHolds, Sound
<1>3. editor.draft \in Br!Draft /\ [editor.draft EXCEPT ![f] = v] \in Br!Draft
  <2>1. editor.draft \in Br!Draft BY <1>2 DEF Br!Editor
  <2>2. CASE f = "name" BY <2>1, <2>2 DEF Br!Draft
  <2>3. CASE f = "area" BY <2>1, <2>3 DEF Br!Draft
  <2>4. CASE f = "caps" BY <2>1, <2>4 DEF Br!Draft
  <2> QED BY <2>1, <2>2, <2>3, <2>4 DEF Br!Field
<1>4. /\ e.draft = [editor.draft EXCEPT ![f] = v] /\ e.asset = editor.asset
      /\ e.snapshot = editor.snapshot /\ e.editing = editor.editing /\ e.saving = editor.saving
      /\ e.saved = FALSE /\ e.error = FALSE /\ e.edited = editor.edited \cup {f}
  BY <1>2 DEF Br!Editor
<1>5. e \in Br!Editor
  <2> DEFINE d == [editor.draft EXCEPT ![f] = v]
  <2>1. e = [editor EXCEPT !.draft = d, !.error = FALSE, !.saved = FALSE, !.edited = @ \cup {f}]
    BY <1>2 DEF Br!Editor
  <2> HIDE DEF d, e
  <2>2. d \in Br!Draft BY <1>3 DEF d
  <2> QED BY <1>2, <2>1, <2>2 DEF Br!Editor
<1> HIDE DEF e
<1>6. e.draft.id = editor.draft.id /\ \A g \in Br!Field \ {f} : e.draft[g] = editor.draft[g]
  BY <1>3, <1>4 DEF Br!Draft, Br!Field
<1>7. e \in Sound BY <1>2, <1>4, <1>5, <1>6 DEF Sound
<1>8. e # None BY <1>5 DEF Br!BrowserAssumption
<1> QED BY <1>1, <1>2, <1>4, <1>7, <1>8, EditsHold DEF Busy

LEMMA FormStep ==
  ASSUME Br!BrowserAssumption, BrowserInv,
         Br!StartEdit \/ Br!Cancel \/ Br!Type \/ Br!ChooseArea \/ Br!ToggleCapability
  PROVE  BrowserInv'
<1>0. ASSUME editor # None
      PROVE  editor \in Sound /\ editor \in Br!Editor /\ editor.asset \in Br!Asset
             /\ editor.draft \in Br!Draft /\ None \notin Br!Editor
  BY <1>0 DEF BrowserInv, Shape, Sound, Br!Editor, Br!BrowserAssumption
<1>1. CASE Br!StartEdit
  <2> DEFINE e == [Br!Fresh(editor.asset) EXCEPT !.editing = TRUE, !.saving = editor.saving]
  <2>1. editor # None /\ ~editor.editing /\ Br!Edits(e, TRUE) /\ UNCHANGED toServer
    BY <1>1 DEF Br!StartEdit
  <2>2. ~editor.saving BY <1>0, <2>1 DEF Sound, Br!Editor
  <2>3. /\ e.asset = editor.asset /\ e.snapshot = editor.asset
        /\ e.draft = Br!CreateDraft(editor.asset) /\ e.editing = TRUE /\ e.saving = editor.saving
    BY DEF Br!Fresh
  <2>4. e \in Br!Editor BY <1>0, <2>1, DraftType DEF Br!Fresh, Br!Editor
  <2> HIDE DEF e
  <2>5. e \in Sound BY <1>0, <2>1, <2>3, <2>4, DraftType DEF Sound
  <2>6. Busy(e) = Busy(editor) BY <2>2, <2>3 DEF Busy
  <2> QED BY <2>1, <2>3, <2>5, <2>6, EditsHold
<1>2. CASE Br!Cancel
  <2> DEFINE e == [Br!Fresh(editor.asset) EXCEPT !.saved = editor.saved]
  <2>1. editor # None /\ ~editor.saving /\ Br!Edits(e, FALSE) /\ UNCHANGED toServer
    BY <1>2 DEF Br!Cancel
  <2>3. /\ e.asset = editor.asset /\ e.snapshot = editor.asset
        /\ e.draft = Br!CreateDraft(editor.asset) /\ e.editing = FALSE /\ e.saving = FALSE
    BY DEF Br!Fresh
  <2>4. e \in Br!Editor BY <1>0, <2>1, DraftType DEF Br!Fresh, Br!Editor
  <2> HIDE DEF e
  <2>5. e \in Sound BY <1>0, <2>1, <2>3, <2>4, DraftType DEF Sound
  <2>6. Busy(e) = Busy(editor) BY <2>1, <2>3 DEF Busy
  <2> QED BY <2>1, <2>3, <2>5, <2>6, EditsHold
<1>3. CASE Br!Type
  <2>1. PICK v \in Names : Br!UpdateField("name", v) BY <1>3 DEF Br!Type
  <2> QED BY <2>1, FieldHolds DEF Br!Field
<1>4. CASE Br!ChooseArea
  <2>1. PICK v \in Br!AreaOptions : editor # None /\ Br!UpdateField("area", v)
    BY <1>4 DEF Br!ChooseArea
  <2>2. v \in Areas \cup {Blank}
    <3>1. editor.draft.area \in Areas \cup {Blank} BY <1>0, <2>1 DEF Br!Draft
    <3>2. places.areas \subseteq Areas BY DEF BrowserInv, Shape
    <3>3. Br!NoFloorAreas(places) \subseteq Areas /\ \A f : Br!FloorAreas(f, places) \subseteq Areas
      BY <3>2 DEF Br!NoFloorAreas, Br!FloorAreas
    <3>4. (UNION {Br!FloorAreas(f, places) : f \in places.floors}) \subseteq Areas
      BY <3>3
    <3> QED BY <2>1, <3>1, <3>3, <3>4 DEF Br!AreaOptions
  <2> QED BY <2>1, <2>2, FieldHolds DEF Br!Field
<1>5. CASE Br!ToggleCapability
  <2>1. PICK c \in Capabilities : editor # None /\ Br!UpdateField("caps", Br!Toggled(editor.draft.caps, c))
    BY <1>5 DEF Br!ToggleCapability
  <2>2. Br!Toggled(editor.draft.caps, c) \subseteq Capabilities
    BY <1>0, <2>1 DEF Br!Toggled, Br!Draft
  <2> QED BY <2>1, <2>2, FieldHolds DEF Br!Field
<1> QED BY <1>1, <1>2, <1>3, <1>4, <1>5

\* What is sent of a draft is what its user has changed, and nothing else.
LEMMA PatchSent ==
  ASSUME Br!BrowserAssumption, NEW e \in Sound, NEW base \in Nat
  PROVE  [id |-> e.snapshot.id, patch |-> Br!UpdatePatch(e.snapshot, e.draft), based |-> base,
          edited |-> e.edited] \in Patched
<1> DEFINE next == [e.draft EXCEPT !.area = Br!NormalizeOptional(@)]
           D == {f \in Br!Field : next[f] # e.snapshot[f]}
           p == [f \in D |-> next[f]]
<1>1. e \in Br!Editor /\ e.snapshot \in Br!Asset /\ e.draft \in Br!Draft /\ e.edited \in SUBSET Br!Field
  BY DEF Sound, Br!Editor
<1>2. next.name = e.draft.name /\ next.caps = e.draft.caps
      /\ next.area = Br!NormalizeOptional(e.draft.area)
  BY <1>1 DEF Br!Draft
<1>3. next.name \in Names /\ next.caps \in SUBSET Capabilities /\ next.area \in Areas \cup {None}
  BY <1>1, <1>2 DEF Br!Draft, Br!NormalizeOptional
<1>4. Br!CreateDraft(e.snapshot).name = e.snapshot.name
      /\ Br!CreateDraft(e.snapshot).caps = e.snapshot.caps
      /\ Br!NormalizeOptional(Br!CreateDraft(e.snapshot).area) = e.snapshot.area
  BY <1>1, Distinct DEF Br!CreateDraft, Br!Asset, Br!NormalizeOptional
<1> HIDE DEF next
<1>5. D \subseteq e.edited
  <2> SUFFICES ASSUME NEW f \in Br!Field, f \notin e.edited PROVE next[f] = e.snapshot[f]
    OBVIOUS
  <2>1. e.draft[f] = Br!CreateDraft(e.snapshot)[f] BY DEF Sound
  <2> QED BY <1>2, <1>4, <2>1 DEF Br!Field
<1>6. D \in SUBSET Br!Field OBVIOUS
<1>7. \A f \in D : next[f] \in Names \cup Areas \cup {None} \cup SUBSET Capabilities
  BY <1>3 DEF Br!Field
<1>8. /\ p \in UNION {[E -> Names \cup Areas \cup {None} \cup SUBSET Capabilities] : E \in SUBSET Br!Field}
      /\ DOMAIN p = D /\ \A f \in D : p[f] = next[f]
  <2>1. p \in [D -> Names \cup Areas \cup {None} \cup SUBSET Capabilities] BY <1>7
  <2> HIDE DEF D
  <2> QED BY <1>6, <2>1
<1>9. Br!UpdatePatch(e.snapshot, e.draft) = p BY DEF Br!UpdatePatch, next
<1> HIDE DEF D, p
<1> DEFINE m == [id |-> e.snapshot.id, patch |-> p, based |-> base, edited |-> e.edited]
<1>10. m.patch = p /\ m.edited = e.edited /\ e.snapshot.id \in Assets BY <1>1 DEF Br!Asset
<1>11. m \in [id : Assets,
              patch : UNION {[E -> Names \cup Areas \cup {None} \cup SUBSET Capabilities] :
                               E \in SUBSET Br!Field},
              based : Nat, edited : SUBSET Br!Field]
  BY <1>1, <1>8, <1>10
<1>12. /\ "name" \in D => p["name"] \in Names
       /\ "area" \in D => p["area"] \in Areas \cup {None}
       /\ "caps" \in D => p["caps"] \subseteq Capabilities
  BY <1>3, <1>8
<1> HIDE DEF m
<1>13. m \in Patched BY <1>5, <1>8, <1>10, <1>11, <1>12 DEF Patched
<1> QED BY <1>9, <1>13 DEF m

LEMMA SaveStep == ASSUME Br!BrowserAssumption, BrowserInv, Br!Save PROVE BrowserInv'
<1> DEFINE e == [editor EXCEPT !.saving = TRUE, !.error = FALSE, !.saved = FALSE]
           m == [id |-> editor.snapshot.id, patch |-> Br!UpdatePatch(editor.snapshot, editor.draft),
                 based |-> basis, edited |-> editor.edited]
<1>1. /\ editor # None /\ editor.editing /\ ~editor.saving /\ Len(toServer) < MaxWaiting
      /\ toServer' = Append(toServer, m) /\ Br!Edits(e, locked)
  BY DEF Br!Save, Br!Submittable, Br!Editing, Br!Base
<1>2. /\ editor \in Sound /\ editor \in Br!Editor /\ locked /\ locked \in BOOLEAN
      /\ editor.asset = assets[selected] /\ selected \in DOMAIN assets /\ basis \in Nat
  BY <1>1 DEF BrowserInv, EditorHolds, Sound, Shape
<1>3. /\ e \in Br!Editor /\ e.asset = editor.asset /\ e.snapshot = editor.snapshot
      /\ e.draft = editor.draft /\ e.editing = TRUE /\ e.saving = TRUE /\ e.edited = editor.edited
  BY <1>1, <1>2 DEF Br!Editor
<1>4. m \in Patched BY <1>2, PatchSent
<1> HIDE DEF e, m
<1>5. e \in Sound BY <1>2, <1>3 DEF Sound
<1>6. e # None BY <1>3 DEF Br!BrowserAssumption
<1>7. /\ editor' = e /\ locked' = locked
      /\ UNCHANGED <<Br!server, toPanel, basis, assets, places, requested, key, selected, orphans>>
  BY <1>1 DEF Br!Edits
<1>8. Arriving' = Arriving BY <1>7 DEF Arriving, Br!server
<1>9. /\ toServer' \in Seq(Patched) /\ Len(toServer') = Len(toServer) + 1 /\ Len(toServer) \in Nat
      /\ Len(toServer') <= MaxWaiting
  BY <1>1, <1>4 DEF BrowserInv, Shape, Br!BrowserAssumption
<1>10. Shape' BY <1>2, <1>5, <1>7, <1>8, <1>9 DEF BrowserInv, Shape, Br!server
<1>11. EditorHolds' BY <1>2, <1>3, <1>5, <1>7 DEF EditorHolds
<1>12. Shrinks' BY <1>7 DEF BrowserInv, Shrinks, About, Br!server
<1>13. Balance'
  <2>1. Busy(editor) = 0 /\ Busy(editor') = 1 BY <1>1, <1>3, <1>6, <1>7 DEF Busy
  <2>2. Awaited(toPanel) \in Nat /\ orphans \in Nat BY AwaitedType DEF BrowserInv, Shape
  <2> QED BY <1>7, <1>9, <2>1, <2>2 DEF Balance, BrowserInv
<1> QED BY <1>10, <1>11, <1>12, <1>13 DEF BrowserInv

-----------------------------------------------------------------------------
\* The panel takes a message.  What is left of the socket still shrinks.
LEMMA ShrinksTail ==
  ASSUME BrowserInv, Br!Receive, DOMAIN stored' = DOMAIN stored,
         \/ DOMAIN assets' = DOMAIN assets
         \/ Head(toPanel).type = "list" /\ assets' = Head(toPanel).assets
  PROVE  Shrinks'
<1>1. /\ toPanel' = Tail(toPanel) /\ toPanel # <<>> /\ Head(toPanel) = toPanel[1] /\ 1 \in DOMAIN toPanel
      /\ \A n \in DOMAIN toPanel' : n + 1 \in DOMAIN toPanel /\ toPanel'[n] = toPanel[n + 1]
      /\ DOMAIN toPanel \subseteq Nat /\ DOMAIN toPanel' \subseteq Nat \ {0}
  BY TailHolds DEF Br!Receive, BrowserInv, Shape
<1>2. \A m : About(m)' = About(m)
  BY DEF About
<1>3. \A n, k \in DOMAIN toPanel' :
        k < n /\ toPanel'[k].type = "list" => About(toPanel'[n]) \subseteq About(toPanel'[k])
  <2> TAKE n, k \in DOMAIN toPanel'
  <2> HAVE k < n /\ toPanel'[k].type = "list"
  <2>1. /\ n + 1 \in DOMAIN toPanel /\ k + 1 \in DOMAIN toPanel /\ k + 1 < n + 1
        /\ toPanel'[n] = toPanel[n + 1] /\ toPanel'[k] = toPanel[k + 1]
    BY <1>1
  <2> QED BY <2>1 DEF BrowserInv, Shrinks
<1>4. \A n \in DOMAIN toPanel' :
        toPanel'[n].type = "list" => DOMAIN stored \subseteq About(toPanel'[n])
  BY <1>1 DEF BrowserInv, Shrinks
<1>5. /\ DOMAIN stored \subseteq DOMAIN assets'
      /\ \A n \in DOMAIN toPanel' : About(toPanel'[n]) \subseteq DOMAIN assets'
  <2>1. CASE DOMAIN assets' = DOMAIN assets
    BY <1>1, <2>1 DEF BrowserInv, Shrinks
  <2>2. CASE Head(toPanel).type = "list" /\ assets' = Head(toPanel).assets
    <3>1. DOMAIN assets' = About(toPanel[1]) /\ toPanel[1].type = "list"
      BY <1>1, <2>2 DEF About
    <3>2. DOMAIN stored \subseteq About(toPanel[1])
      BY <1>1, <3>1 DEF BrowserInv, Shrinks
    <3>3. \A n \in DOMAIN toPanel' : About(toPanel'[n]) \subseteq About(toPanel[1])
      <4> TAKE n \in DOMAIN toPanel'
      <4>1. n + 1 \in DOMAIN toPanel /\ 1 < n + 1 /\ toPanel'[n] = toPanel[n + 1]
        BY <1>1
      <4> QED BY <1>1, <3>1, <4>1 DEF BrowserInv, Shrinks
    <3> QED BY <3>1, <3>2, <3>3
  <2> QED BY <2>1, <2>2
<1> QED BY <1>3, <1>4, <1>5 DEF Shrinks, About

\* An answer whose editor is gone, or an answer to the editor: somebody is busy.
LEMMA AnswerOwed ==
  ASSUME BrowserInv, toPanel # <<>>, Head(toPanel).type # "list", orphans = 0
  PROVE  editor # None /\ editor.saving
<1>1. Awaited(toPanel) = Awaited(Tail(toPanel)) + 1
  BY AwaitedTail DEF BrowserInv, Shape
<1>2. Awaited(Tail(toPanel)) \in Nat /\ Len(toServer) \in Nat
  BY AwaitedType, TailHolds DEF BrowserInv, Shape
<1>3. Busy(editor) # 0
  BY <1>1, <1>2 DEF BrowserInv, Balance
<1> QED BY <1>3 DEF Busy

LEMMA ReceiveHolds ==
  ASSUME Br!BrowserAssumption, BrowserInv, Br!Receive,
         assets' \in Table, basis' \in 0..revision,
         UNCHANGED places, selected' \in Assets \cup {None},
         key' \in Areas \cup {NoArea, Unknown, None}, locked' \in BOOLEAN,
         editor' \in Sound \cup {None}, EditorHolds', orphans' \in Nat,
         orphans' + Busy(editor') =
           orphans + Busy(editor) - (IF Head(toPanel).type = "list" THEN 0 ELSE 1),
         \/ DOMAIN assets' = DOMAIN assets
         \/ Head(toPanel).type = "list" /\ assets' = Head(toPanel).assets
  PROVE  BrowserInv'
<1>1. UNCHANGED <<stored, revision, toServer, requested>> /\ toPanel' = Tail(toPanel) /\ toPanel # <<>>
  BY DEF Br!Receive, Br!server
<1>2. Arriving' = Arriving BY <1>1 DEF Arriving
<1>3. /\ toPanel' \in Seq(Arriving) /\ Len(toPanel') = Len(toPanel) - 1 /\ Len(toPanel) \in Nat
  BY <1>1, TailHolds DEF BrowserInv, Shape
<1>4. Len(toPanel') <= MaxWaiting
  BY <1>3 DEF BrowserInv, Shape, Br!BrowserAssumption
<1>5. Shape' BY <1>1, <1>2, <1>3, <1>4 DEF BrowserInv, Shape
<1>6. Shrinks' BY <1>1, ShrinksTail
<1>7. Balance'
  <2>1. Awaited(toPanel) = Awaited(toPanel') + (IF Head(toPanel).type = "list" THEN 0 ELSE 1)
    BY <1>1, AwaitedTail DEF BrowserInv, Shape
  <2>4. toPanel \in Seq(Arriving) /\ Len(toServer) \in Nat BY DEF BrowserInv, Shape
  <2>5. Awaited(toPanel') \in Nat BY <1>3, AwaitedType
  <2>2. Awaited(toPanel') \in Nat /\ Awaited(toPanel) \in Nat /\ Len(toServer) \in Nat
    BY <2>4, <2>5, AwaitedType
  <2>3. Busy(editor) \in {0, 1} /\ orphans \in Nat /\ Busy(editor') \in {0, 1}
    BY DEF Busy, BrowserInv, Shape
  <2>6. orphans + Busy(editor) = Len(toServer) + Awaited(toPanel)
    BY DEF BrowserInv, Balance
  <2>7. orphans' + Busy(editor') = Len(toServer) + Awaited(toPanel')
    <3>1. CASE Head(toPanel).type = "list" BY <2>1, <2>2, <2>3, <2>6, <3>1
    <3>2. CASE Head(toPanel).type # "list" BY <2>1, <2>2, <2>3, <2>6, <3>2
    <3> QED BY <3>1, <3>2
  <2> QED BY <1>1, <2>7 DEF Balance
<1> QED BY <1>5, <1>6, <1>7 DEF BrowserInv

\* A saved asset arrives for the editor: the browser follows it, and editing ends.
LEMMA SavedArrives ==
  ASSUME Br!BrowserAssumption, BrowserInv, Br!Receive, Br!ReceiveSaved(Head(toPanel)), orphans = 0
  PROVE  /\ places' = places /\ EditorHolds'
         /\ key' \in Areas \cup {NoArea, Unknown, None} /\ selected' \in Assets \cup {None}
         /\ locked' \in BOOLEAN /\ editor' \in Sound \cup {None} /\ Br!Settle(editor')
         /\ editor' # None /\ Busy(editor') = 0 /\ ~editor'.editing /\ ~locked'
         /\ DOMAIN assets' = DOMAIN assets /\ assets' \in Table
<1> DEFINE m == Head(toPanel)
<1>20. m \in Arriving /\ m = toPanel[1] /\ 1 \in DOMAIN toPanel
  BY TailHolds DEF Br!Receive, BrowserInv, Shape
<1>21. /\ editor \in Sound \cup {None} /\ assets \in Table /\ selected \in Assets \cup {None}
      /\ key \in Areas \cup {NoArea, Unknown, None} /\ locked \in BOOLEAN /\ orphans \in Nat
      /\ places \in [areas : SUBSET Areas, floors : SUBSET Floors] /\ EditorHolds
  BY DEF BrowserInv, Shape
<1>22. m.type = "saved" /\ m.asset \in Br!Asset
  BY <1>20, ArrivingFields DEF Br!ReceiveSaved
<1> DEFINE a == m.asset.id
           as == [b \in DOMAIN assets |-> IF b = a THEN m.asset ELSE assets[b]]
           e == Br!Saved(m.asset)
<1>1. Br!Update(e, as, places, Br!LocationKey(m.asset), a, FALSE)
  <2>1. ~(orphans > 0) OBVIOUS
  <2> QED BY <2>1 DEF Br!ReceiveSaved
<1>2. a \in Assets BY <1>22 DEF Br!Asset
<1>3. a \in DOMAIN assets
  <2>1. About(m) = {a} BY <1>22 DEF About
  <2> QED BY <1>20, <2>1 DEF BrowserInv, Shrinks
<1>4. as \in Table /\ DOMAIN as = DOMAIN assets
  <2>1. DOMAIN as = DOMAIN assets OBVIOUS
  <2>2. DOMAIN assets \in SUBSET Assets BY <1>21, TableElim
  <2>3. \A b \in DOMAIN assets : as[b] \in Br!Asset /\ as[b].id = b
    BY <1>21, <1>22, TableElim
  <2>4. as = [b \in DOMAIN assets |-> as[b]] OBVIOUS
  <2> HIDE DEF as
  <2>5. as \in Table BY ONLY <2>2, <2>3, <2>4, TableIntro
  <2> QED BY <2>1, <2>5
<1>5. e \in Sound /\ e.editing = FALSE /\ e.saving = FALSE /\ ~e.editing
  BY <1>22, FreshSound DEF Sound, Br!Editor
<1>6. Br!LocationKey(m.asset) \in Areas \cup {NoArea, Unknown, None}
  BY <1>21, <1>22 DEF Br!LocationKey
<1> HIDE DEF as, e
<1>7. /\ assets' = as /\ places' = places /\ EditorHolds'
      /\ key' \in Areas \cup {NoArea, Unknown, None} /\ selected' \in Assets \cup {None}
      /\ locked' \in BOOLEAN /\ editor' \in Sound \cup {None}
      /\ editor' = Br!Rendered(e, as, selected') /\ selected' = a /\ Br!Settle(editor')
      /\ locked' = FALSE
  <2>1. e # None /\ e.editing => FALSE = TRUE BY <1>5
  <2>2. a \in DOMAIN as BY <1>3, <1>4
  <2>3. e \in Sound \cup {None} /\ a \in Assets \cup {None} BY <1>2, <1>5
  <2> DEFINE k == Br!LocationKey(m.asset)
  <2>4. Br!Update(e, as, places, k, a, FALSE) BY <1>1
  <2>5. k \in Areas \cup {NoArea, Unknown, None} BY <1>6
  <2>6. as \in Table BY <1>4
  <2> HIDE DEF a, k
  <2>7. /\ assets' = as /\ places' = places /\ EditorHolds'
        /\ key' \in Areas \cup {NoArea, Unknown, None} /\ selected' \in Assets \cup {None}
        /\ locked' \in BOOLEAN /\ editor' \in Sound \cup {None}
        /\ editor' = Br!Rendered(e, as, selected') /\ Br!Settle(editor')
        /\ a \in DOMAIN as => selected' = a
        /\ selected' \in DOMAIN as => locked' = FALSE
    BY <1>21, <2>1, <2>3, <2>4, <2>5, <2>6, UpdateHolds
  <2> QED BY <2>2, <2>7
<1>8. editor' # None /\ Busy(editor') = 0 /\ ~editor'.editing
  <2>1. Busy(e) = 0 BY <1>5 DEF Busy
  <2>2. e \in Sound \cup {None} /\ a \in DOMAIN as /\ as \in Table /\ editor' = Br!Rendered(e, as, a)
    BY <1>3, <1>4, <1>5, <1>7
  <2> HIDE DEF a
  <2>3. editor' # None /\ Busy(editor') = Busy(e) /\ (editor'.editing => e.editing)
    BY <2>2, RenderedSound
  <2> QED BY <1>5, <2>1, <2>3
<1> QED BY <1>4, <1>7, <1>8

\* A list arrives.
LEMMA ListArrives ==
  ASSUME Br!BrowserAssumption, BrowserInv, Br!Receive, Br!ReceiveList(Head(toPanel))
  PROVE  LET as == Head(toPanel).assets IN
         /\ assets' = as /\ places' = places /\ EditorHolds'
         /\ key' \in Areas \cup {NoArea, Unknown, None} /\ selected' \in Assets \cup {None}
         /\ locked' \in BOOLEAN /\ editor' \in Sound \cup {None}
         /\ editor' = Br!Rendered(editor, as, selected') /\ Br!Settle(editor')
         /\ selected \in DOMAIN as => selected' = selected
         /\ selected' \in DOMAIN as <=> selected \in DOMAIN as
         /\ selected # None /\ selected \notin DOMAIN as => ~locked' \/ key = None
<1> DEFINE m == Head(toPanel)
           as == m.assets
<1>20. m \in Arriving /\ m = toPanel[1] /\ 1 \in DOMAIN toPanel
  BY TailHolds DEF Br!Receive, BrowserInv, Shape
<1>21. /\ editor \in Sound \cup {None} /\ assets \in Table /\ selected \in Assets \cup {None}
      /\ key \in Areas \cup {NoArea, Unknown, None} /\ locked \in BOOLEAN /\ orphans \in Nat
      /\ places \in [areas : SUBSET Areas, floors : SUBSET Floors] /\ EditorHolds
  BY DEF BrowserInv, Shape
<1>22. as \in Table /\ Br!Update(editor, as, places, key, selected, locked)
  BY <1>20, ArrivingFields DEF Br!ReceiveList
<1>1. editor # None /\ editor.editing => locked = TRUE
  BY <1>21 DEF EditorHolds
<1> HIDE DEF as
<1>2. CASE locked = TRUE
  <2>1. Br!Update(editor, as, places, key, selected, TRUE) BY <1>22, <1>2
  <2> QED BY <1>21, <1>22, <2>1, UpdateHolds DEF as
<1>3. CASE locked = FALSE
  <2>1. Br!Update(editor, as, places, key, selected, FALSE) BY <1>22, <1>3
  <2>2. editor # None /\ editor.editing => FALSE = TRUE BY <1>1, <1>3
  <2> QED BY <1>21, <1>22, <2>1, <2>2, UpdateHolds DEF as
<1> QED BY <1>21, <1>2, <1>3

LEMMA ReceiveStep == ASSUME Br!BrowserAssumption, BrowserInv, Br!Receive PROVE BrowserInv'
<1> DEFINE m == Head(toPanel)
<1>1. m \in Arriving /\ toPanel # <<>> /\ m = toPanel[1] /\ 1 \in DOMAIN toPanel
  BY TailHolds DEF Br!Receive, BrowserInv, Shape
<1>2. /\ editor \in Sound \cup {None} /\ assets \in Table /\ selected \in Assets \cup {None}
      /\ key \in Areas \cup {NoArea, Unknown, None} /\ locked \in BOOLEAN /\ orphans \in Nat
      /\ basis \in 0..revision /\ places \in [areas : SUBSET Areas, floors : SUBSET Floors]
      /\ EditorHolds /\ Busy(editor) \in {0, 1}
  BY DEF BrowserInv, Shape, Busy
<1>3. CASE Br!ReceiveRefused(m)
  <2>1. m.type = "refused" /\ UNCHANGED <<basis, assets, places, key, selected, locked>>
    BY <1>3 DEF Br!ReceiveRefused
  <2>2. CASE orphans > 0
    <3>1. orphans' = orphans - 1 /\ editor' = editor BY <1>3, <2>2 DEF Br!ReceiveRefused
    <3>2. EditorHolds' BY <1>2, <2>1, <3>1 DEF EditorHolds
    <3> QED BY <1>2, <2>1, <2>2, <3>1, <3>2, ReceiveHolds
  <2>3. CASE orphans = 0
    <3> DEFINE e == [editor EXCEPT !.error = TRUE, !.saving = FALSE]
    <3>1. orphans' = orphans /\ editor' = e BY <1>2, <1>3, <2>3 DEF Br!ReceiveRefused
    <3>2. editor # None /\ editor.saving BY <1>1, <2>1, <2>3, AnswerOwed
    <3>3. editor \in Sound /\ editor \in Br!Editor BY <1>2, <3>2 DEF Sound
    <3>4. /\ e \in Br!Editor /\ e.asset = editor.asset /\ e.snapshot = editor.snapshot
          /\ e.draft = editor.draft /\ e.editing = editor.editing /\ e.saving = FALSE
          /\ e.edited = editor.edited
      BY <3>3 DEF Br!Editor
    <3> HIDE DEF e
    <3>5. e \in Sound BY <3>3, <3>4 DEF Sound
    <3>6. EditorHolds' BY <1>2, <2>1, <3>1, <3>2, <3>4, <3>5 DEF EditorHolds
    <3>7. Busy(editor) = 1 /\ Busy(editor') = 0 BY <3>1, <3>2, <3>4 DEF Busy
    <3> QED BY <1>2, <2>1, <2>3, <3>1, <3>5, <3>6, <3>7, ReceiveHolds
  <2> QED BY <1>2, <2>2, <2>3
<1>4. CASE Br!ReceiveSaved(m)
  <2>1. m.type = "saved" /\ basis' = m.revision /\ m.asset \in Br!Asset /\ m.revision \in 0..revision
    BY <1>1, <1>4, ArrivingFields DEF Br!ReceiveSaved
  <2>2. CASE orphans > 0
    <3>1. orphans' = orphans - 1 /\ UNCHANGED <<editor, assets, places, key, selected, locked>>
      BY <1>4, <2>2 DEF Br!ReceiveSaved
    <3>2. EditorHolds' BY <1>2, <3>1 DEF EditorHolds
    <3> QED BY <1>2, <2>1, <2>2, <3>1, <3>2, ReceiveHolds
  <2>3. CASE orphans = 0
    <3> DEFINE a == m.asset.id
    <3>1. /\ places' = places /\ EditorHolds'
          /\ key' \in Areas \cup {NoArea, Unknown, None} /\ selected' \in Assets \cup {None}
          /\ locked' \in BOOLEAN /\ editor' \in Sound \cup {None} /\ Br!Settle(editor')
          /\ editor' # None /\ Busy(editor') = 0
          /\ DOMAIN assets' = DOMAIN assets /\ assets' \in Table
      BY <1>4, <2>3, SavedArrives
    <3>9. orphans' = 0
      <4>1. orphans' = orphans + 0 BY <3>1 DEF Br!Settle
      <4> QED BY <2>3, <4>1
    <3>10. Busy(editor) = 1
      <4>1. editor # None /\ editor.saving BY <1>1, <2>1, <2>3, AnswerOwed
      <4> QED BY <4>1 DEF Busy
    <3>12. orphans' + Busy(editor') =
             orphans + Busy(editor) - (IF Head(toPanel).type = "list" THEN 0 ELSE 1)
      BY <2>1, <2>3, <3>1, <3>9, <3>10
    <3>13. orphans' \in Nat /\ basis' \in 0..revision BY <2>1, <3>9
    <3> HIDE DEF m
    <3> QED BY <3>1, <3>12, <3>13, ReceiveHolds
  <2> QED BY <1>2, <2>2, <2>3
<1>5. CASE Br!ReceiveList(m)
  <2>1. /\ m.type = "list" /\ basis' = m.revision /\ m.assets \in Table /\ m.revision \in 0..revision
        /\ Br!Update(editor, m.assets, places, key, selected, locked)
    BY <1>1, <1>5, ArrivingFields DEF Br!ReceiveList
  <2> DEFINE as == m.assets
  <2>3. as \in Table BY <2>1
  <2>4. /\ assets' = as /\ places' = places /\ EditorHolds'
        /\ key' \in Areas \cup {NoArea, Unknown, None} /\ selected' \in Assets \cup {None}
        /\ locked' \in BOOLEAN /\ editor' \in Sound \cup {None}
        /\ editor' = Br!Rendered(editor, as, selected') /\ Br!Settle(editor')
    BY <1>5, ListArrives
  <2> HIDE DEF as
  <2>5. editor' # None => Busy(editor') = Busy(editor)
    <3>1. CASE selected' \in DOMAIN as BY <1>2, <2>3, <2>4, <3>1, RenderedSound
    <3>2. CASE selected' \notin DOMAIN as BY <2>4, <3>2 DEF Br!Rendered
    <3> QED BY <3>1, <3>2
  <2>6. orphans' \in Nat /\ orphans' + Busy(editor') = orphans + Busy(editor)
    BY <1>2, <2>4, <2>5, SettleKeeps
  <2> QED BY <1>2, <2>1, <2>3, <2>4, <2>6, ReceiveHolds DEF as
<1> QED BY <1>3, <1>4, <1>5 DEF Br!Receive

LEMMA InventoryStep == ASSUME Br!BrowserAssumption, BrowserInv, [Br!Next]_(Br!vars) PROVE BrowserInv'
<1>1. CASE Br!OtherEdit BY <1>1, EditStep
<1>2. CASE Br!OtherDelete BY <1>2, DeleteStep
<1>3. CASE Br!ReadList BY <1>3, ReadStep
<1>4. CASE Br!ServeSave BY <1>4, ServeStep
<1>5. CASE Br!PlaceComesOrGoes BY <1>5, PlaceStep
<1>6. CASE Br!Receive BY <1>6, ReceiveStep
<1>7. CASE \/ \E k \in Areas \cup {NoArea, Unknown} : Br!Select(k)
           \/ \E a \in Assets : Br!OpenAsset(a) \/ Br!NavigateAsset(a) \/ Br!Request(a)
           \/ Br!CloseAsset
  BY <1>7, ChoiceStep
<1>8. CASE Br!StartEdit \/ Br!Cancel \/ Br!Type \/ Br!ChooseArea \/ Br!ToggleCapability
  BY <1>8, FormStep
<1>9. CASE Br!Save BY <1>9, SaveStep
<1>10. CASE UNCHANGED Br!vars
  <2>1. /\ UNCHANGED <<Br!server, toServer, toPanel, basis, assets, places, requested, key, selected,
                       locked, editor, orphans>>
    BY <1>10 DEF Br!vars, Br!browser
  <2>2. EditorHolds' BY <2>1 DEF EditorHolds, BrowserInv
  <2> QED BY <2>1, <2>2, QuietHolds DEF BrowserInv, Shape
<1> QED BY <1>1, <1>2, <1>3, <1>4, <1>5, <1>6, <1>7, <1>8, <1>9, <1>10 DEF Br!Next

LEMMA BrowserInit == ASSUME Br!BrowserAssumption, Br!Init PROVE BrowserInv
<1>1. PICK as \in [Assets -> {x \in Br!Asset : x.caps = {} /\ x.area # None}] :
        (\A a \in Assets : as[a].id = a) /\ stored = as /\ assets = as
  BY DEF Br!Init
<1>2. stored \in Table /\ assets \in Table
  <2>1. Assets \in SUBSET Assets /\ as = [a \in Assets |-> as[a]] OBVIOUS
  <2>2. \A a \in Assets : as[a] \in Br!Asset /\ as[a].id = a BY <1>1
  <2> QED BY <1>1, <2>1, <2>2, TableIntro
<1>3. /\ revision = 0 /\ basis = 0 /\ toServer = <<>> /\ toPanel = <<>>
      /\ places = [areas |-> Areas, floors |-> Floors]
      /\ requested = None /\ key = None /\ selected = None /\ locked = FALSE
      /\ editor = None /\ orphans = 0
  BY DEF Br!Init
<1>4. Shape
  <2>1. toServer \in Seq(Patched) /\ toPanel \in Seq(Arriving)
        /\ Len(toServer) = 0 /\ Len(toPanel) = 0
    BY <1>3
  <2>2. places \in [areas : SUBSET Areas, floors : SUBSET Floors] BY <1>3
  <2>3. MaxRevision \in Nat /\ MaxWaiting \in Nat /\ 0 \in 0..MaxRevision /\ 0 \in 0..0
    BY DEF Br!BrowserAssumption
  <2>4. /\ revision \in 0..MaxRevision /\ basis \in 0..revision /\ orphans \in Nat
        /\ Len(toServer) <= MaxWaiting /\ Len(toPanel) <= MaxWaiting
    BY <1>3, <2>1, <2>3
  <2>5. /\ requested \in Assets \cup {None} /\ selected \in Assets \cup {None}
        /\ key \in Areas \cup {NoArea, Unknown, None} /\ locked \in BOOLEAN
        /\ editor \in Sound \cup {None}
    BY <1>3
  <2> QED BY <1>2, <2>1, <2>2, <2>4, <2>5 DEF Shape
<1>5. EditorHolds
  <2>1. None \notin DOMAIN assets BY <1>2, TableElim, Distinct
  <2> QED BY <1>3, <2>1 DEF EditorHolds
<1>6. Shrinks BY <1>1, <1>3 DEF Shrinks
<1>7. Balance
  <2>1. {n \in DOMAIN toPanel : toPanel[n].type # "list"} = {} BY <1>3
  <2>2. Awaited(toPanel) = 0 BY <2>1, FS_EmptySet DEF Awaited
  <2>3. Busy(editor) = 0 /\ Len(toServer) = 0 BY <1>3 DEF Busy
  <2> QED BY <1>3, <2>2, <2>3 DEF Balance
<1> QED BY <1>4, <1>5, <1>6, <1>7 DEF BrowserInv

\* The invariant of the asset browser, for any assets, places and administrators.
THEOREM BrowserInvariance == ASSUME Br!BrowserAssumption PROVE Br!Spec => []BrowserInv
<1>1. Br!Init => BrowserInv BY BrowserInit
<1>2. BrowserInv /\ [Br!Next]_(Br!vars) => BrowserInv' BY InventoryStep
<1> QED BY <1>1, <1>2, PTL DEF Br!Spec

LEMMA BrowserType == ASSUME Br!BrowserAssumption, BrowserInv PROVE Br!TypeOK /\ Br!EveryAssetListed
<1> USE DEF BrowserInv
<1>1. orphans \in 0..(2 * MaxWaiting)
  <2>0. toPanel \in Seq(Arriving) /\ toServer \in Seq(Patched) BY DEF Shape
  <2>1. Awaited(toPanel) \in Nat /\ Awaited(toPanel) <= Len(toPanel) /\ Len(toPanel) \in Nat
        /\ Len(toServer) \in Nat /\ Len(toPanel) <= MaxWaiting /\ Len(toServer) <= MaxWaiting
    <3>1. Awaited(toPanel) \in Nat /\ Awaited(toPanel) <= Len(toPanel) BY <2>0, AwaitedType
    <3> QED BY <2>0, <3>1 DEF Shape
  <2>2. Busy(editor) \in {0, 1} /\ orphans \in Nat BY DEF Busy, Shape
  <2> QED BY <2>1, <2>2 DEF Balance, Br!BrowserAssumption
<1>2. /\ DOMAIN stored \subseteq Assets /\ \A a \in DOMAIN stored : stored[a] \in Br!Asset
      /\ DOMAIN assets \subseteq Assets /\ \A a \in DOMAIN assets : assets[a] \in Br!Asset
  BY TableElim DEF Shape
<1>3. editor # None =>
        /\ editor \in Br!Editor
        /\ editor.draft.id = editor.snapshot.id
        /\ editor.saving => editor.editing
  BY DEF Shape, Sound
<1>4. Br!TypeOK BY <1>1, <1>2, <1>3 DEF Shape, Br!TypeOK
<1> QED BY <1>4, TreeLists DEF Shape

\* The state has the shapes the code gives it, and every asset of the list is behind exactly
\* one button of the tree (inventory-browser-state.js, buildInventoryHierarchy).
THEOREM AssetsListed == ASSUME Br!BrowserAssumption PROVE Br!Spec => [](Br!TypeOK /\ Br!EveryAssetListed)
<1>1. BrowserInv => Br!TypeOK /\ Br!EveryAssetListed BY BrowserType
<1> QED BY <1>1, BrowserInvariance, PTL

-----------------------------------------------------------------------------
\* A form is open on the selected asset of the list.
LEMMA FormOpen ==
  ASSUME Br!BrowserAssumption, BrowserInv, Br!Editing
  PROVE  /\ editor \in Sound /\ editor \in Br!Editor /\ editor.editing = TRUE /\ locked = TRUE
         /\ selected \in DOMAIN assets /\ selected \in Assets /\ editor.asset.id = selected
<1>1. selected \in DOMAIN assets /\ editor \in Sound /\ editor.asset = assets[selected] /\ locked
  BY DEF BrowserInv, EditorHolds, Br!Editing
<1>2. assets \in Table /\ locked \in BOOLEAN BY DEF BrowserInv, Shape
<1> QED BY <1>1, <1>2, TableElim DEF Sound, Br!Editor, Br!Editing

\* The editor is there when the selected asset is.
LEMMA EditorThere ==
  ASSUME Br!BrowserAssumption, BrowserInv', selected' \in DOMAIN assets' PROVE editor' # None
BY DEF BrowserInv, EditorHolds, Sound, Br!BrowserAssumption

\* Where nothing arrives, the socket to the panel is as it was.
LEMMA SocketQuiet ==
  ASSUME Br!Next PROVE Br!ReadList \/ Br!ServeSave \/ Br!Receive \/ toPanel' = toPanel
<1>1. CASE Br!OtherEdit \/ Br!OtherDelete BY <1>1 DEF Br!OtherEdit, Br!OtherDelete
<1>2. CASE Br!PlaceComesOrGoes BY <1>2 DEF Br!PlaceComesOrGoes
<1>3. CASE \/ \E k \in Areas \cup {NoArea, Unknown} : Br!Select(k)
           \/ \E a \in Assets : Br!OpenAsset(a) \/ Br!NavigateAsset(a) \/ Br!Request(a)
           \/ Br!CloseAsset
  BY <1>3 DEF Br!Select, Br!OpenAsset, Br!NavigateAsset, Br!Request, Br!CloseAsset, Br!Choose
<1>4. CASE Br!StartEdit \/ Br!Cancel \/ Br!Type \/ Br!ChooseArea \/ Br!ToggleCapability \/ Br!Save
  BY <1>4 DEF Br!StartEdit, Br!Cancel, Br!Type, Br!ChooseArea, Br!ToggleCapability,
              Br!UpdateField, Br!Save, Br!Edits
<1> QED BY <1>1, <1>2, <1>3, <1>4 DEF Br!Next

\* What an arriving message does to a form.
LEMMA ReceiveKeeps ==
  ASSUME Br!BrowserAssumption, BrowserInv, Br!Editing, Br!Receive
  PROVE  /\ IF editor' = None THEN editor.asset.id \notin DOMAIN assets'
            ELSE editor'.editing => editor'.draft = editor.draft
         /\ ~Br!Editing' /\ locked' => key = None
<1> DEFINE m == Head(toPanel)
<1>0. /\ editor \in Sound /\ editor \in Br!Editor /\ editor.editing = TRUE /\ locked = TRUE
      /\ selected \in DOMAIN assets /\ selected \in Assets /\ editor.asset.id = selected
      /\ None \notin Br!Editor /\ selected # None /\ editor # None /\ orphans \in Nat
  BY FormOpen, Distinct DEF Br!BrowserAssumption, BrowserInv, Shape
<1>1. CASE editor' = editor
  BY <1>0, <1>1 DEF Br!Editing
<1>2. CASE Br!ReceiveRefused(m) /\ editor' # editor
  <2> DEFINE e == [editor EXCEPT !.error = TRUE, !.saving = FALSE]
  <2>1. editor' = e BY <1>2 DEF Br!ReceiveRefused
  <2>2. e \in Br!Editor /\ e.draft = editor.draft /\ e.editing = editor.editing
    BY <1>0 DEF Br!Editor
  <2> HIDE DEF e
  <2> QED BY <1>0, <2>1, <2>2 DEF Br!Editing
<1>3. CASE Br!ReceiveSaved(m) /\ editor' # editor
  <2>1. orphans = 0
    <3>1. ~(orphans > 0) BY <1>3 DEF Br!ReceiveSaved
    <3> QED BY <1>0, <3>1
  <2>2. editor' # None /\ ~editor'.editing /\ ~locked' BY <1>3, <2>1, SavedArrives
  <2> QED BY <2>2
<1>4. CASE Br!ReceiveList(m)
  <2> DEFINE as == m.assets
  <2>1. /\ assets' = as /\ editor' = Br!Rendered(editor, as, selected')
        /\ selected \in DOMAIN as => selected' = selected
        /\ selected' \in DOMAIN as <=> selected \in DOMAIN as
        /\ selected # None /\ selected \notin DOMAIN as => ~locked' \/ key = None
    BY <1>4, ListArrives
  <2>2. as \in Table
    BY <1>4, ArrivingFields, TailHolds DEF Br!ReceiveList, Br!Receive, BrowserInv, Shape
  <2> HIDE DEF as, m
  <2>3. CASE selected \in DOMAIN as
    <3>1. /\ editor' # None /\ editor'.editing
          /\ editor'.editing => editor'.draft = editor.draft
      BY <1>0, <2>1, <2>2, <2>3, RenderedSound
    <3> QED BY <3>1 DEF Br!Editing
  <2>4. CASE selected \notin DOMAIN as
    <3>1. editor' = None BY <2>1, <2>4 DEF Br!Rendered
    <3> QED BY <1>0, <2>1, <2>4, <3>1
  <2> QED BY <2>3, <2>4
<1> QED BY <1>1, <1>2, <1>3, <1>4 DEF Br!Receive

\* Nothing that arrives changes a draft while it is being edited, and the form goes only
\* with the asset on show (asset-detail-editor.js, willUpdate; inventory-browser.js).
THEOREM DraftsKept == ASSUME Br!BrowserAssumption PROVE Br!Spec => Br!DraftKept
<1>1. BrowserInv /\ [Br!Next]_(Br!vars) =>
        [Br!Editing /\ toPanel' # toPanel =>
           IF editor' = None THEN editor.asset.id \notin DOMAIN assets'
           ELSE editor'.editing => editor'.draft = editor.draft]_(Br!vars)
  <2> SUFFICES ASSUME BrowserInv, Br!Next, Br!Editing, toPanel' # toPanel
               PROVE  IF editor' = None THEN editor.asset.id \notin DOMAIN assets'
                      ELSE editor'.editing => editor'.draft = editor.draft
    BY DEF Br!vars
  <2>1. CASE Br!ReadList \/ Br!ServeSave
    <3>1. editor' = editor BY <2>1 DEF Br!ReadList, Br!ServeSave
    <3> QED BY <3>1 DEF Br!Editing
  <2>2. CASE Br!Receive BY <2>2, ReceiveKeeps
  <2> QED BY <2>1, <2>2, SocketQuiet
<1> QED BY <1>1, BrowserInvariance, PTL DEF Br!Spec, Br!DraftKept

\* A save changes no field that its user has not changed, although others have edited the
\* asset since (inventory-browser-state.js, buildAssetUpdatePatch).
THEOREM OthersKept == ASSUME Br!BrowserAssumption PROVE Br!Spec => Br!OthersFieldsSurvive
<1>1. BrowserInv /\ [Br!Next]_(Br!vars) =>
        [toServer' # toServer /\ stored' # stored =>
           LET m == Head(toServer) IN
           \A f \in Br!Field : stored'[m.id][f] # stored[m.id][f] => f \in m.edited]_(Br!vars)
  <2> DEFINE m == Head(toServer)
  <2> SUFFICES ASSUME BrowserInv, Br!Next, toServer' # toServer, stored' # stored,
                      NEW f \in Br!Field, stored'[m.id][f] # stored[m.id][f]
               PROVE  f \in m.edited
    BY DEF Br!vars
  <2>1. Br!ServeSave
    <3>1. CASE Br!OtherEdit \/ Br!OtherDelete \/ Br!ReadList \/ Br!PlaceComesOrGoes \/ Br!Receive
      BY <3>1 DEF Br!OtherEdit, Br!OtherDelete, Br!ReadList, Br!PlaceComesOrGoes, Br!Receive,
                  Br!server
    <3>2. CASE \/ \E k \in Areas \cup {NoArea, Unknown} : Br!Select(k)
               \/ \E a \in Assets : Br!OpenAsset(a) \/ Br!NavigateAsset(a) \/ Br!Request(a)
               \/ Br!CloseAsset
      BY <3>2 DEF Br!Select, Br!OpenAsset, Br!NavigateAsset, Br!Request, Br!CloseAsset,
                  Br!Choose, Br!server
    <3>3. CASE Br!StartEdit \/ Br!Cancel \/ Br!Type \/ Br!ChooseArea \/ Br!ToggleCapability \/ Br!Save
      BY <3>3 DEF Br!StartEdit, Br!Cancel, Br!Type, Br!ChooseArea, Br!ToggleCapability,
                  Br!UpdateField, Br!Save, Br!Edits, Br!server
    <3> QED BY <3>1, <3>2, <3>3 DEF Br!Next
  <2>2. toServer # <<>> /\ toServer \in Seq(Patched) /\ stored \in Table
    BY <2>1 DEF Br!ServeSave, BrowserInv, Shape
  <2>3. m \in Patched BY <2>2, TailHolds
  <2>4. /\ m.id \in DOMAIN stored
        /\ stored' = [stored EXCEPT ![m.id] =
                        [g \in DOMAIN @ |-> IF g \in DOMAIN m.patch THEN m.patch[g] ELSE @[g]]]
    BY <2>1 DEF Br!ServeSave, Br!server
  <2>5. f \in DOMAIN stored[m.id] BY <2>2, <2>4, TableElim DEF Br!Asset, Br!Field
  <2>6. f \in DOMAIN m.patch BY <2>4, <2>5
  <2> QED BY <2>3, <2>6 DEF Patched
<1> QED BY <1>1, BrowserInvariance, PTL DEF Br!Spec, Br!OthersFieldsSurvive

\* A change of places or of selection leaves a form open while its asset is in the list.
LEMMA SelectionKeeps ==
  ASSUME Br!BrowserAssumption, BrowserInv, Br!Editing, NEW sel \in DOMAIN assets,
         editor' = Br!Rendered(editor, assets, sel)
  PROVE  Br!Editing'
<1>1. editor \in Sound /\ editor.editing = TRUE /\ editor # None /\ assets \in Table
  BY FormOpen DEF Br!Editing, BrowserInv, Shape
<1>2. editor' # None /\ editor'.editing
  BY <1>1, RenderedSound
<1> QED BY <1>2 DEF Br!Editing

LEMMA PlaceKeeps ==
  ASSUME Br!BrowserAssumption, BrowserInv, Br!Editing, Br!PlaceComesOrGoes PROVE Br!Editing'
<1>1. PICK at \in [areas : SUBSET Areas, floors : SUBSET Floors] :
        Br!Update(editor, assets, at, key, selected, locked)
  BY DEF Br!PlaceComesOrGoes
<1>2. selected \in DOMAIN assets BY FormOpen
<1>3. selected' = selected /\ editor' = Br!Rendered(editor, assets, selected')
  BY <1>1, <1>2 DEF Br!Update, Br!Settle
<1> QED BY <1>2, <1>3, SelectionKeeps

LEMMA ChoiceKeeps ==
  ASSUME Br!BrowserAssumption, BrowserInv, Br!Editing,
         \/ \E k \in Areas \cup {NoArea, Unknown} : Br!Select(k)
         \/ \E a \in Assets : Br!OpenAsset(a) \/ Br!NavigateAsset(a) \/ Br!Request(a)
         \/ Br!CloseAsset
  PROVE  Br!Editing'
<1>1. ~(\E k \in Areas \cup {NoArea, Unknown} : Br!Select(k)) /\ ~Br!CloseAsset
      /\ ~(\E a \in Assets : Br!OpenAsset(a))
  BY FormOpen DEF Br!Select, Br!CloseAsset, Br!OpenAsset, Br!Editing
<1>2. ASSUME NEW a \in Assets, Br!NavigateAsset(a) \/ Br!Request(a), a \in DOMAIN assets
      PROVE  Br!Editing'
  <2>1. editor' = Br!Rendered(editor, assets, a)
    BY <1>2 DEF Br!NavigateAsset, Br!Request, Br!Choose, Br!Settle
  <2> QED BY <1>2, <2>1, SelectionKeeps
<1>3. ASSUME NEW a \in Assets, Br!NavigateAsset(a) \/ Br!Request(a), a \notin DOMAIN assets
      PROVE  Br!Editing'
  BY <1>3 DEF Br!NavigateAsset, Br!Request, Br!Editing
<1> QED BY <1>1, <1>2, <1>3

\* A step of the form, save Cancel, leaves it open.
LEMMA EditsKeep ==
  ASSUME Br!BrowserAssumption, BrowserInv, BrowserInv', Br!Editing,
         Br!StartEdit \/ Br!Cancel \/ Br!Type \/ Br!ChooseArea \/ Br!ToggleCapability \/ Br!Save
  PROVE  Br!Editing' \/ ~locked'
<1>0. editor \in Br!Editor /\ editor.editing = TRUE /\ selected \in DOMAIN assets
  BY FormOpen
<1>1. CASE Br!Cancel BY <1>1 DEF Br!Cancel, Br!Edits
<1>2. CASE Br!StartEdit BY <1>0, <1>2 DEF Br!StartEdit
<1>3. ASSUME NEW e, Br!Edits(e, locked), e.editing = TRUE PROVE Br!Editing'
  <2>1. editor' # None BY <1>0, <1>3, EditorThere DEF Br!Edits
  <2> QED BY <1>3, <2>1 DEF Br!Edits, Br!Editing
<1>4. ASSUME NEW f, NEW v, Br!UpdateField(f, v) PROVE Br!Editing'
  <2> DEFINE e == [editor EXCEPT !.draft[f] = v, !.error = FALSE, !.saved = FALSE,
                                 !.edited = @ \cup {f}]
  <2>1. Br!Edits(e, locked) BY <1>4 DEF Br!UpdateField
  <2>2. e.editing = TRUE BY <1>0 DEF Br!Editor
  <2> QED BY <1>3, <2>1, <2>2
<1>5. CASE Br!Type \/ Br!ChooseArea \/ Br!ToggleCapability
  BY <1>4, <1>5 DEF Br!Type, Br!ChooseArea, Br!ToggleCapability
<1>6. CASE Br!Save
  <2> DEFINE e == [editor EXCEPT !.saving = TRUE, !.error = FALSE, !.saved = FALSE]
  <2>1. Br!Edits(e, locked) BY <1>6 DEF Br!Save
  <2>2. e.editing = TRUE BY <1>0 DEF Br!Editor
  <2> QED BY <1>3, <2>1, <2>2
<1> QED BY <1>1, <1>2, <1>5, <1>6

\* The tree is locked while a form is open, and the lock outlives a form only when the asset
\* goes while its place has already gone from the tree (inventory-browser.js, willUpdate).
THEOREM LocksGo == ASSUME Br!BrowserAssumption PROVE Br!Spec => Br!LockGoesWithForm
<1>1. BrowserInv /\ [Br!Next]_(Br!vars) =>
        [/\ Br!Editing' => locked'
         /\ Br!Editing /\ ~Br!Editing' /\ locked' => key = None]_(Br!vars)
  <2> SUFFICES ASSUME BrowserInv, Br!Next
               PROVE  /\ Br!Editing' => locked'
                      /\ Br!Editing /\ ~Br!Editing' /\ locked' => key = None
    BY DEF Br!vars
  <2>1. BrowserInv' BY InventoryStep
  <2>2. Br!Editing' => locked'
    BY <2>1 DEF BrowserInv, EditorHolds, Br!Editing
  <2> SUFFICES ASSUME Br!Editing, ~Br!Editing', locked' PROVE key = None
    BY <2>2
  <2>3. CASE Br!OtherEdit \/ Br!OtherDelete \/ Br!ReadList \/ Br!ServeSave
    <3>1. editor' = editor BY <2>3 DEF Br!OtherEdit, Br!OtherDelete, Br!ReadList, Br!ServeSave
    <3> QED BY <3>1 DEF Br!Editing
  <2>4. CASE Br!PlaceComesOrGoes BY <2>4, PlaceKeeps
  <2>5. CASE Br!Receive BY <2>5, ReceiveKeeps
  <2>6. CASE \/ \E k \in Areas \cup {NoArea, Unknown} : Br!Select(k)
             \/ \E a \in Assets : Br!OpenAsset(a) \/ Br!NavigateAsset(a) \/ Br!Request(a)
             \/ Br!CloseAsset
    BY <2>6, ChoiceKeeps
  <2>7. CASE Br!StartEdit \/ Br!Cancel \/ Br!Type \/ Br!ChooseArea \/ Br!ToggleCapability \/ Br!Save
    BY <2>1, <2>7, EditsKeep
  <2> QED BY <2>3, <2>4, <2>5, <2>6, <2>7 DEF Br!Next
<1> QED BY <1>1, BrowserInvariance, PTL DEF Br!Spec, Br!LockGoesWithForm

-----------------------------------------------------------------------------
(***************************************************************************)
(* CsvInventory: a preview of the revision of now was computed on what is  *)
(* there now.                                                              *)
(***************************************************************************)

CONSTANTS Files, Scopes

VARIABLES
  valid, others, requests, answers, reading, csvText, crossed, validation, busy, success, scope,
  exported

Cs == INSTANCE CsvInventory WITH toServer <- requests, toPanel <- answers

\* Nobody else has committed since the revision of now was previewed.
Recent(v) ==
  /\ v.revision \in Nat /\ v.others \in Nat /\ v.revision <= revision
  /\ v.revision = revision => v.others = others

Preview ==
  { v \in [file : Files \cup {None}, valid : BOOLEAN, revision : Nat, others : Nat] : Recent(v) }

CsvRequests ==
  [type : {"validate"}, file : Files] \cup [type : {"export"}]
    \cup { m \in [type : {"import"}, file : Files \cup {None}, revision : Nat, others : Nat] : Recent(m) }
    \cup { m \in [type : {"list"}, file : Files \cup {None}, valid : BOOLEAN, revision : Nat, others : Nat] :
             Recent(m) }

CsvAnswers ==
  { m \in [type : {"validated", "imported", "list"}, file : Files \cup {None}, valid : BOOLEAN, revision : Nat,
           others : Nat] : Recent(m) }
    \cup [type : {"error", "export"}]

CsvInv ==
  /\ valid \subseteq Files /\ revision \in Nat /\ others \in Nat
  /\ reading \subseteq Files /\ csvText \in Files \cup {None}
  /\ validation # None => validation \in Preview
  /\ requests \in Seq(CsvRequests) /\ answers \in Seq(CsvAnswers)

\* Without a commit a preview stays as recent, and with one it is of the past.
LEMMA PreviewsStay ==
  ASSUME CsvInv, \/ revision' = revision /\ others' = others
                 \/ revision' = revision + 1
  PROVE  /\ validation # None => validation \in Preview'
         /\ \A v : Recent(v) => Recent(v)'
         /\ \A q \in Seq(CsvRequests) : q \in Seq(CsvRequests)'
         /\ \A q \in Seq(CsvAnswers) : q \in Seq(CsvAnswers)'
<1>1. ASSUME NEW v, Recent(v) PROVE Recent(v)'
  BY <1>1 DEF Recent, CsvInv
<1>2. CsvRequests \subseteq CsvRequests' /\ CsvAnswers \subseteq CsvAnswers' /\ Preview \subseteq Preview'
  BY <1>1 DEF CsvRequests, CsvAnswers, Preview
<1>3. \A S, T : S \subseteq T => Seq(S) \subseteq Seq(T)
  OBVIOUS
<1> QED BY <1>1, <1>2, <1>3 DEF CsvInv

LEMMA CsvServes == ASSUME CsvInv, Cs!Serve PROVE CsvInv'
<1> DEFINE m == Head(requests)
<1>1. /\ m \in CsvRequests /\ Tail(requests) \in Seq(CsvRequests) /\ requests' = Tail(requests)
      /\ UNCHANGED <<reading, csvText, validation>>
  BY DEF Cs!Serve, CsvInv, Cs!file
<1>2. CASE Cs!ServeValidate(m)
  <2> DEFINE a == [type |-> "validated", file |-> m.file, valid |-> m.file \in valid,
                   revision |-> revision, others |-> others]
             e == [type |-> "error"]
  <2>1. answers' \in {Append(answers, a), Append(answers, e)} /\ UNCHANGED <<valid, revision, others>>
    BY <1>2 DEF Cs!ServeValidate, Cs!Answer, Cs!server
  <2>2. m.file \in Files
    BY <1>1, <1>2 DEF CsvRequests, Cs!ServeValidate
  <2>3. Recent(a)
    BY DEF Recent, CsvInv
  <2>4. a \in CsvAnswers /\ e \in CsvAnswers
    BY <2>2, <2>3 DEF CsvAnswers, CsvInv
  <2> HIDE DEF a, e
  <2>5. Append(answers, a) \in Seq(CsvAnswers) /\ Append(answers, e) \in Seq(CsvAnswers)
    BY <2>4 DEF CsvInv
  <2> QED BY <1>1, <2>1, <2>5, PreviewsStay DEF CsvInv
<1>3. CASE Cs!ServeImport(m)
  <2>1. /\ m.type = "import" /\ UNCHANGED <<valid, others>>
        /\ revision' = revision \/ revision' = revision + 1
    BY <1>3 DEF Cs!ServeImport
  <2>2. Recent(m)
    BY <1>1, <2>1 DEF CsvRequests
  <2>3. revision' \in Nat /\ others' \in Nat
    BY <2>1 DEF CsvInv
  <2>4. PICK a \in CsvAnswers' : answers' = Append(answers, a)
    <3> DEFINE b(v) == [type |-> "imported", file |-> m.file, valid |-> v,
                        revision |-> revision', others |-> others]
               e == [type |-> "error"]
    <3>1. m.file \in Files \cup {None}
      BY <1>1, <2>1 DEF CsvRequests
    <3>2. b(TRUE) \in CsvAnswers' /\ b(FALSE) \in CsvAnswers' /\ e \in CsvAnswers'
      BY <2>1, <2>3, <3>1 DEF CsvAnswers, Recent
    <3>3. answers' \in {Append(answers, b(TRUE)), Append(answers, b(FALSE)), Append(answers, e)}
      BY <1>3 DEF Cs!ServeImport, Cs!Answer
    <3> QED BY <3>2, <3>3
  <2>5. answers' \in Seq(CsvAnswers)'
    <3>1. answers \in Seq(CsvAnswers')
      BY <2>1, PreviewsStay DEF CsvInv
    <3> QED BY <2>4, <3>1
  <2> QED BY <1>1, <2>1, <2>3, <2>5, PreviewsStay DEF CsvInv
<1>4. CASE Cs!ServeRead(m)
  <2>1. UNCHANGED <<valid, revision, others>> /\ m.type \in {"list", "export"}
    BY <1>4 DEF Cs!ServeRead, Cs!server
  <2>2. m \in CsvAnswers /\ [type |-> "error"] \in CsvAnswers
    BY <1>1, <2>1 DEF CsvRequests, CsvAnswers
  <2> HIDE DEF m
  <2>3. answers' \in {Append(answers, m), Append(answers, [type |-> "error"])}
    BY <1>4 DEF Cs!ServeRead, Cs!Answer
  <2>4. answers \in Seq(CsvAnswers)
    BY DEF CsvInv
  <2>5. answers' \in Seq(CsvAnswers)
    BY ONLY <2>2, <2>3, <2>4
  <2> QED BY <1>1, <2>1, <2>5, PreviewsStay DEF CsvInv
<1> QED BY <1>2, <1>3, <1>4 DEF Cs!Serve

LEMMA CsvReceives == ASSUME CsvInv, Cs!Receive PROVE CsvInv'
<1> DEFINE m == Head(answers)
<1>1. /\ m \in CsvAnswers /\ answers' \in Seq(CsvAnswers)
      /\ UNCHANGED <<valid, revision, others, reading, csvText>>
  BY DEF Cs!Receive, CsvInv, Cs!server, Cs!file
<1>2. m.type \in {"validated", "imported", "list"} =>
        /\ m.file \in Files \cup {None} /\ m.valid \in BOOLEAN /\ m.revision \in Nat /\ m.others \in Nat /\ Recent(m)
        /\ m = [type |-> m.type, file |-> m.file, valid |-> m.valid, revision |-> m.revision,
                others |-> m.others]
  BY <1>1 DEF CsvAnswers
<1>3. /\ \/ requests' = requests
         \/ m.type = "imported" /\ requests' = Append(requests, [m EXCEPT !.type = "list"])
      /\ \/ validation' = validation
         \/ /\ m.type \in {"validated", "list"}
            /\ validation' = [file |-> m.file, valid |-> m.valid, revision |-> m.revision, others |-> m.others]
  BY DEF Cs!Receive, Cs!ReceiveValidated, Cs!ReceiveImported, Cs!ReceiveList, Cs!ReceiveExport, Cs!ReceiveError,
         Cs!Send
<1>4. m.type = "imported" => [m EXCEPT !.type = "list"] \in CsvRequests
  BY <1>2 DEF CsvRequests, Recent
<1>5. requests' \in Seq(CsvRequests)
  BY <1>3, <1>4 DEF CsvInv
<1>6. validation' # None => validation' \in Preview
  BY <1>2, <1>3 DEF CsvInv, Preview, Recent
<1>7. validation' # None => validation' \in Preview'
  BY <1>1, <1>6 DEF Preview, Recent
<1> QED BY <1>1, <1>5, <1>7, PreviewsStay DEF CsvInv

LEMMA CsvStep == ASSUME CsvInv, [Cs!Next]_(Cs!vars) PROVE CsvInv'
<1> USE DEF Cs!server, Cs!socket, Cs!file, Cs!export
<1>1. CASE Cs!OtherCommit
  <2>1. /\ revision' = revision + 1 /\ others' = others + 1
        /\ UNCHANGED <<valid, reading, csvText, validation, requests, answers>>
    BY <1>1 DEF Cs!OtherCommit
  <2> QED BY <2>1, PreviewsStay DEF CsvInv
<1>2. CASE Cs!FilesChange
  <2>1. /\ valid' \subseteq Files
        /\ UNCHANGED <<revision, others, reading, csvText, validation, requests, answers>>
    BY <1>2 DEF Cs!FilesChange, CsvInv
  <2> QED BY <2>1, PreviewsStay DEF CsvInv
<1>3. ASSUME NEW f \in Files, Cs!FileSelected(f) PROVE CsvInv'
  <2>1. /\ reading' = reading \cup {f}
        /\ UNCHANGED <<valid, revision, others, csvText, validation, requests, answers>>
    BY <1>3 DEF Cs!FileSelected
  <2> QED BY <2>1, PreviewsStay DEF CsvInv
<1>4. ASSUME NEW f \in Files, Cs!FileRead(f) PROVE CsvInv'
  <2> DEFINE r == [type |-> "validate", file |-> f]
  <2>1. /\ reading' = reading \ {f} /\ csvText' = f /\ validation' = None
        /\ requests' = Append(requests, r)
        /\ UNCHANGED <<valid, revision, others, answers>>
    BY <1>4 DEF Cs!FileRead, Cs!NoPreview, Cs!Send
  <2>2. r \in CsvRequests
    BY DEF CsvRequests
  <2> HIDE DEF r
  <2>3. requests' \in Seq(CsvRequests)
    BY <2>1, <2>2 DEF CsvInv
  <2> QED BY <2>1, <2>3, PreviewsStay DEF CsvInv
<1>5. CASE Cs!Commit
  <2> DEFINE r == [type |-> "import", file |-> csvText, revision |-> validation.revision,
                   others |-> validation.others]
  <2>1. /\ validation # None /\ requests' = Append(requests, r)
        /\ UNCHANGED <<valid, revision, others, reading, csvText, validation, answers>>
    BY <1>5 DEF Cs!Commit, Cs!Send
  <2>2. r \in CsvRequests
    BY <2>1 DEF CsvRequests, Preview, Recent, CsvInv
  <2> HIDE DEF r
  <2>3. requests' \in Seq(CsvRequests)
    BY <2>1, <2>2 DEF CsvInv
  <2> QED BY <2>1, <2>3, PreviewsStay DEF CsvInv
<1>6. CASE Cs!Export
  <2>1. /\ requests' = Append(requests, [type |-> "export"])
        /\ UNCHANGED <<valid, revision, others, reading, csvText, validation, answers>>
    BY <1>6 DEF Cs!Export, Cs!Send
  <2>2. [type |-> "export"] \in CsvRequests
    BY DEF CsvRequests
  <2>3. requests' \in Seq(CsvRequests)
    BY <2>1, <2>2 DEF CsvInv
  <2> QED BY <2>1, <2>3, PreviewsStay DEF CsvInv
<1>7. ASSUME (\E s \in Scopes : Cs!ChooseScope(s)) \/ Cs!ChoosePlace \/ UNCHANGED Cs!vars
      PROVE  CsvInv'
  <2>1. UNCHANGED <<valid, revision, others, reading, csvText, validation, requests, answers>>
    BY <1>7 DEF Cs!ChooseScope, Cs!ChoosePlace, Cs!vars
  <2> QED BY <2>1, PreviewsStay DEF CsvInv
<1> QED BY <1>1, <1>2, <1>3, <1>4, <1>5, <1>6, <1>7, CsvServes, CsvReceives DEF Cs!Next

\* Of the file that was read last, unless it came when answers were still to come.
FileTypes == {"validate", "validated", "import", "imported", "list"}

OfFile(m) == m.type \in FileTypes => m.file = csvText

FilesInv ==
  ~crossed => /\ validation # None => validation.file = csvText
              /\ \A n \in DOMAIN requests : OfFile(requests[n])
              /\ \A n \in DOMAIN answers : OfFile(answers[n])

LEMMA FileServed ==
  ASSUME CsvInv, FilesInv, Cs!Serve
  PROVE  FilesInv'
<1> DEFINE m == Head(requests)
<1>1. /\ m \in CsvRequests /\ m = requests[1] /\ 1 \in DOMAIN requests
      /\ \A n \in DOMAIN Tail(requests) : n + 1 \in DOMAIN requests /\ Tail(requests)[n] = requests[n + 1]
  BY TailHolds DEF Cs!Serve, CsvInv
<1>2. UNCHANGED <<crossed, csvText, validation>> /\ requests' = Tail(requests)
  BY DEF Cs!Serve, Cs!file
<1>3. PICK a : /\ answers' = Append(answers, a)
               /\ a.type \in {"error", "export"} \/ (m.type \in FileTypes /\ a.file = m.file)
  <2> DEFINE e == [type |-> "error"]
             v == [type |-> "validated", file |-> m.file, valid |-> m.file \in valid,
                   revision |-> revision, others |-> others]
             i(ok) == [type |-> "imported", file |-> m.file, valid |-> ok, revision |-> revision',
                       others |-> others]
  <2>1. CASE Cs!ServeValidate(m)
    <3>1. answers' \in {Append(answers, v), Append(answers, e)} /\ m.type = "validate"
      BY <2>1 DEF Cs!ServeValidate, Cs!Answer
    <3>2. v.file = m.file /\ e.type = "error"
      OBVIOUS
    <3> HIDE DEF v, e
    <3> QED BY <3>1, <3>2 DEF FileTypes
  <2>2. CASE Cs!ServeImport(m)
    <3>1. /\ answers' \in {Append(answers, i(TRUE)), Append(answers, i(FALSE)), Append(answers, e)}
          /\ m.type = "import"
      BY <2>2 DEF Cs!ServeImport, Cs!Answer
    <3>2. i(TRUE).file = m.file /\ i(FALSE).file = m.file /\ e.type = "error"
      OBVIOUS
    <3> HIDE DEF i, e
    <3> QED BY <3>1, <3>2 DEF FileTypes
  <2>3. CASE Cs!ServeRead(m)
    <3>1. answers' \in {Append(answers, m), Append(answers, e)} /\ m.type \in {"list", "export"}
      BY <2>3 DEF Cs!ServeRead, Cs!Answer
    <3>2. e.type = "error"
      OBVIOUS
    <3> HIDE DEF m, e
    <3> QED BY <3>1, <3>2 DEF FileTypes
  <2> QED BY <2>1, <2>2, <2>3 DEF Cs!Serve
<1> HIDE DEF m
<1>4. SUFFICES ASSUME ~crossed PROVE FilesInv'
  BY <1>2 DEF FilesInv
<1>5. OfFile(m) /\ OfFile(a)
  <2>1. OfFile(m)
    BY <1>1, <1>4 DEF FilesInv
  <2> QED BY <1>3, <2>1 DEF OfFile, FileTypes
<1>6. \A n \in DOMAIN requests' : OfFile(requests'[n])
  BY <1>1, <1>2, <1>4 DEF FilesInv
<1>7. \A n \in DOMAIN answers' : OfFile(answers'[n])
  <2>1. answers \in Seq(CsvAnswers \cup {a}) /\ a \in CsvAnswers \cup {a}
    BY DEF CsvInv
  <2>2. \A n \in DOMAIN Append(answers, a) :
          (n \in DOMAIN answers /\ Append(answers, a)[n] = answers[n]) \/ Append(answers, a)[n] = a
    BY <2>1, AppendHolds
  <2> QED BY <1>3, <1>4, <1>5, <2>2 DEF FilesInv
<1> QED BY <1>2, <1>4, <1>6, <1>7 DEF FilesInv, OfFile

\* What is sent is of the file there is.
LEMMA FileSent ==
  ASSUME CsvInv, FilesInv, NEW r \in CsvRequests, OfFile(r), requests' = Append(requests, r),
         UNCHANGED <<crossed, csvText, validation, answers>>
  PROVE  FilesInv'
<1>1. \A n \in DOMAIN Append(requests, r) :
        (n \in DOMAIN requests /\ Append(requests, r)[n] = requests[n]) \/ Append(requests, r)[n] = r
  BY AppendHolds DEF CsvInv
<1>2. ~crossed => \A n \in DOMAIN requests' : OfFile(requests'[n])
  BY <1>1 DEF FilesInv
<1> QED BY <1>2 DEF FilesInv, OfFile

LEMMA FileArrives == ASSUME CsvInv, FilesInv, Cs!Receive PROVE FilesInv'
<1> DEFINE m == Head(answers)
           l == [m EXCEPT !.type = "list"]
<1>1. /\ m \in CsvAnswers /\ m = answers[1] /\ 1 \in DOMAIN answers
      /\ \A n \in DOMAIN Tail(answers) : n + 1 \in DOMAIN answers /\ Tail(answers)[n] = answers[n + 1]
  BY TailHolds DEF Cs!Receive, CsvInv
<1>2. UNCHANGED <<crossed, csvText>> /\ answers' = Tail(answers)
  BY DEF Cs!Receive, Cs!file
<1>3. /\ \/ requests' = requests
         \/ m.type = "imported" /\ requests' = Append(requests, l)
      /\ \/ validation' = validation
         \/ m.type \in {"validated", "list"} /\ validation'.file = m.file
  BY DEF Cs!Receive, Cs!ReceiveValidated, Cs!ReceiveImported, Cs!ReceiveList, Cs!ReceiveExport, Cs!ReceiveError,
         Cs!Send
<1>4. m.type = "imported" => l \in CsvRequests /\ l.file = m.file
  BY <1>1 DEF CsvAnswers, CsvRequests, Recent
<1> HIDE DEF m, l
<1>5. SUFFICES ASSUME ~crossed PROVE FilesInv'
  BY <1>2 DEF FilesInv
<1>6. OfFile(m)
  BY <1>1, <1>5 DEF FilesInv
<1>7. \A n \in DOMAIN answers' : OfFile(answers'[n])
  BY <1>1, <1>2, <1>5 DEF FilesInv
<1>8. validation' # None => validation'.file = csvText
  BY <1>3, <1>5, <1>6 DEF FilesInv, OfFile, FileTypes
<1>9. \A n \in DOMAIN requests' : OfFile(requests'[n])
  <2>1. CASE requests' = requests
    BY <1>5, <2>1 DEF FilesInv
  <2>2. CASE m.type = "imported" /\ requests' = Append(requests, l)
    <3>1. l \in CsvRequests /\ OfFile(l)
      BY <1>4, <1>6, <2>2 DEF OfFile, FileTypes
    <3>2. \A n \in DOMAIN Append(requests, l) :
            (n \in DOMAIN requests /\ Append(requests, l)[n] = requests[n]) \/ Append(requests, l)[n] = l
      BY <3>1, AppendHolds DEF CsvInv
    <3> QED BY <1>5, <2>2, <3>1, <3>2 DEF FilesInv
  <2> QED BY <1>3, <2>1, <2>2
<1> QED BY <1>2, <1>5, <1>7, <1>8, <1>9 DEF FilesInv, OfFile

LEMMA FileStep == ASSUME CsvInv, FilesInv, [Cs!Next]_(Cs!vars) PROVE FilesInv'
<1> USE DEF Cs!server, Cs!socket, Cs!file, Cs!export
<1>1. ASSUME \/ Cs!OtherCommit \/ Cs!FilesChange \/ Cs!ChoosePlace \/ UNCHANGED Cs!vars
             \/ \E f \in Files : Cs!FileSelected(f)
             \/ \E s \in Scopes : Cs!ChooseScope(s)
      PROVE  FilesInv'
  <2>1. UNCHANGED <<crossed, csvText, validation, requests, answers>>
    BY <1>1 DEF Cs!OtherCommit, Cs!FilesChange, Cs!ChoosePlace, Cs!vars, Cs!FileSelected, Cs!ChooseScope
  <2> QED BY <2>1 DEF FilesInv, OfFile
<1>2. ASSUME NEW f \in Files, Cs!FileRead(f) PROVE FilesInv'
  <2> DEFINE q == [type |-> "validate", file |-> f]
  <2>1. /\ crossed' = ~(requests = <<>> /\ answers = <<>>) /\ csvText' = f /\ validation' = None
        /\ requests' = Append(requests, q) /\ answers' = answers
    BY <1>2 DEF Cs!FileRead, Cs!Idle, Cs!NoPreview, Cs!Send
  <2>2. q.file = f
    OBVIOUS
  <2> HIDE DEF q
  <2>3. SUFFICES ASSUME requests = <<>>, answers = <<>> PROVE FilesInv'
    BY <2>1 DEF FilesInv
  <2>4. requests' = <<q>> /\ answers' = <<>>
    BY <2>1, <2>3
  <2>5. (\A n \in DOMAIN requests' : requests'[n] = q) /\ DOMAIN answers' = {}
    BY <2>4
  <2> QED BY <2>1, <2>2, <2>5 DEF FilesInv, OfFile
<1>3. CASE Cs!Commit
  <2> DEFINE q == [type |-> "import", file |-> csvText, revision |-> validation.revision,
                   others |-> validation.others]
  <2>1. /\ validation # None /\ requests' = Append(requests, q)
        /\ UNCHANGED <<crossed, csvText, validation, answers>>
    BY <1>3 DEF Cs!Commit, Cs!Send
  <2>2. q \in CsvRequests /\ OfFile(q)
    BY <2>1 DEF CsvRequests, Preview, Recent, CsvInv, OfFile
  <2> HIDE DEF q
  <2> QED BY <2>1, <2>2, FileSent
<1>4. CASE Cs!Export
  <2> DEFINE q == [type |-> "export"]
  <2>1. requests' = Append(requests, q) /\ UNCHANGED <<crossed, csvText, validation, answers>>
    BY <1>4 DEF Cs!Export, Cs!Send
  <2>2. q \in CsvRequests /\ OfFile(q)
    BY DEF CsvRequests, OfFile, FileTypes
  <2> HIDE DEF q
  <2> QED BY <2>1, <2>2, FileSent
<1> QED BY <1>1, <1>2, <1>3, <1>4, FileServed, FileArrives DEF Cs!Next

\* What is imported changes the registry of the revision it states, with nothing of others since
\* the answer on show, and that answer is about the file that a commit sends if nothing was under
\* way when its text came (csv-inventory-tool.js _commit, _fileSelected, _validate).
THEOREM ImportsAsPreviewed == Cs!Spec => Cs!NothingUnseen /\ []Cs!PreviewOfFile
<1>1. Cs!Init => CsvInv
  <2> SUFFICES ASSUME Cs!Init PROVE CsvInv
    OBVIOUS
  <2>1. <<>> \in Seq(CsvRequests) /\ <<>> \in Seq(CsvAnswers)
    OBVIOUS
  <2> QED BY <2>1 DEF Cs!Init, CsvInv
<1>2. CsvInv /\ [Cs!Next]_(Cs!vars) => CsvInv'
  BY CsvStep
<1>3. CsvInv /\ [Cs!Next]_(Cs!vars) => [Cs!Imports => Head(requests).others = others]_(Cs!vars)
  <2> SUFFICES ASSUME CsvInv, [Cs!Next]_(Cs!vars), Cs!Imports PROVE Head(requests).others = others
    OBVIOUS
  <2> DEFINE m == Head(requests)
  <2>1. Cs!Serve
    <3>1. ~Cs!OtherCommit /\ revision' # revision
      BY DEF Cs!OtherCommit, Cs!Imports, CsvInv
    <3> QED BY <3>1 DEF Cs!Next, Cs!vars, Cs!server, Cs!FilesChange, Cs!FileSelected, Cs!FileRead, Cs!Commit,
              Cs!Export, Cs!ChooseScope, Cs!ChoosePlace, Cs!Receive
  <2>2. m.type = "import" /\ Cs!Accepts(m)
    BY <2>1 DEF Cs!Serve, Cs!ServeValidate, Cs!ServeImport, Cs!ServeRead, Cs!Imports, Cs!server
  <2>3. m \in CsvRequests
    BY <2>1 DEF Cs!Serve, CsvInv
  <2>4. Recent(m)
    BY <2>2, <2>3 DEF CsvRequests
  <2> QED BY <2>2, <2>4 DEF Recent, Cs!Accepts
<1>4. Cs!Init => FilesInv
  BY DEF Cs!Init, FilesInv
<1>5. CsvInv /\ FilesInv /\ [Cs!Next]_(Cs!vars) => FilesInv'
  BY FileStep
<1>6. FilesInv => Cs!PreviewOfFile
  BY DEF FilesInv, Cs!PreviewOfFile
<1> QED BY <1>1, <1>2, <1>3, <1>4, <1>5, <1>6, PTL DEF Cs!Spec, Cs!NothingUnseen

-----------------------------------------------------------------------------
(***************************************************************************)
(* BackupRestore: what is seen of the manager of now at the revision of    *)
(* now is all that is there.                                               *)
(***************************************************************************)

CONSTANTS MaxReloads

VARIABLES
  loaded, kept, life, fileName, backup, confirmed, recovery, lastBackup

Ba == INSTANCE BackupRestore WITH toServer <- requests, toPanel <- answers

\* No commit of another client is unseen, unless the manager or the revision is another.
Seen(v) ==
  /\ v.life \in 0..life
  /\ v.revision # None /\ v.life = life =>
       /\ v.revision \in 0..revision
       /\ v.revision = revision => v.others = others

Snapshots == { v \in [revision : Nat, others : Nat, life : Nat] : Seen(v) }

BackupRequests ==
  [type : {"status"}, user : Users, last : BOOLEAN]
    \cup [type : {"export"}, by : Users] \cup [type : {"save"}, user : Users, by : Users]
    \cup { m \in [type : {"restore"}, revision : Nat \cup {None}, others : Nat, life : Nat] : Seen(m) }

\* What is said to be loaded has a manager.
BackupAnswers ==
  [type : {"restored"}, reloaded : {TRUE}, manager : 0..life]
    \cup [type : {"restored"}, reloaded : {FALSE}, manager : {None}]
    \cup [type : {"status"}, user : Users, last : BOOLEAN, recovery : BOOLEAN,
           lastBackup : Users \cup {None}]
    \cup [type : {"export"}, by : Users] \cup [type : {"error", "saved"}]

BackupInv ==
  /\ loaded \in BOOLEAN /\ revision \in Nat /\ others \in Nat /\ life \in Nat
  /\ kept \in [Users -> Users \cup {None}]
  /\ user \in Users /\ shown \in Snapshots
  /\ requests \in Seq(BackupRequests) /\ answers \in Seq(BackupAnswers)

\* Nothing becomes unseen but by a commit, or a manager, that makes it of the past.
LEMMA SnapshotsStay ==
  ASSUME BackupInv,
         \/ UNCHANGED <<revision, others, life>>
         \/ life' = life /\ revision' = revision + 1
         \/ life' = life + 1
  PROVE  /\ shown \in Snapshots'
         /\ \A q \in Seq(BackupRequests) : q \in Seq(BackupRequests)'
         /\ \A q \in Seq(BackupAnswers) : q \in Seq(BackupAnswers)'
<1>1. ASSUME NEW v, Seen(v) PROVE Seen(v)'
  BY <1>1 DEF Seen, BackupInv
<1>2. BackupRequests \subseteq BackupRequests' /\ Snapshots \subseteq Snapshots'
  BY <1>1 DEF BackupRequests, Snapshots
<1>3. BackupAnswers \subseteq BackupAnswers'
  <2>1. 0..life \subseteq 0..life'
    BY DEF BackupInv
  <2> QED BY <2>1 DEF BackupAnswers
<1>4. \A S, T : S \subseteq T => Seq(S) \subseteq Seq(T)
  OBVIOUS
<1> QED BY <1>1, <1>2, <1>3, <1>4 DEF BackupInv

LEMMA BackupServes == ASSUME BackupInv, Ba!Serve PROVE BackupInv'
<1> DEFINE m == Head(requests)
<1>1. /\ m \in BackupRequests /\ Tail(requests) \in Seq(BackupRequests) /\ requests' = Tail(requests)
      /\ UNCHANGED <<user, shown>>
  BY DEF Ba!Serve, BackupInv
<1>2. PICK a : /\ answers' = Append(answers, a) /\ a \in BackupAnswers'
               /\ loaded' \in BOOLEAN /\ others' = others /\ kept' \in [Users -> Users \cup {None}]
               /\ \/ UNCHANGED <<revision, life>>
                  \/ life' = life /\ revision' = revision + 1
                  \/ life' = life + 1 /\ revision' = 0
  <2> DEFINE e == [type |-> "error"]
  <2>1. e \in BackupAnswers'
    BY DEF BackupAnswers
  <2>2. CASE Ba!ServeRestore(m)
    <3> DEFINE good(n) == [type |-> "restored", reloaded |-> TRUE, manager |-> n]
               bad == [type |-> "restored", reloaded |-> FALSE, manager |-> None]
    <3>1. CASE Ba!RestoreLive(m)
      <4>1. answers' = Append(answers, good(life)) /\ life' = life /\ revision' = revision + 1 /\ UNCHANGED <<loaded, others, kept>>
        BY <2>2, <3>1 DEF Ba!RestoreLive, Ba!Answer, Ba!ServeRestore
      <4>2. good(life) \in BackupAnswers'
        BY <4>1 DEF BackupAnswers, BackupInv
      <4> QED BY <4>1, <4>2 DEF BackupInv
    <3>2. CASE Ba!RestoreRecovery(m)
      <4>1. \/ /\ answers' = Append(answers, good(life')) /\ life' = life + 1 /\ revision' = 0
               /\ loaded' = TRUE /\ UNCHANGED <<others, kept>>
            \/ answers' = Append(answers, bad) /\ UNCHANGED <<loaded, life, revision, others, kept>>
        BY <2>2, <3>2 DEF Ba!RestoreRecovery, Ba!NewManager, Ba!Answer, Ba!ServeRestore
      <4>2. life' = life + 1 => good(life') \in BackupAnswers'
        BY DEF BackupAnswers, BackupInv
      <4>3. bad \in BackupAnswers'
        BY DEF BackupAnswers
      <4> QED BY <4>1, <4>2, <4>3 DEF BackupInv
    <3>3. CASE answers' = Append(answers, e) /\ UNCHANGED <<loaded, life, revision>>
      BY <2>1, <2>2, <3>3 DEF Ba!ServeRestore, BackupInv
    <3> QED BY <2>2, <3>1, <3>2, <3>3 DEF Ba!ServeRestore, Ba!Answer
  <2>3. CASE Ba!ServeExport(m)
    <3>1. /\ m.type = "export" /\ UNCHANGED <<loaded, revision, others, life, kept>>
          /\ answers' = Append(answers, m) \/ answers' = Append(answers, e)
      BY <2>3 DEF Ba!ServeExport, Ba!Answer, Ba!server
    <3>2. m \in BackupAnswers'
      BY <1>1, <3>1 DEF BackupRequests, BackupAnswers
    <3> QED BY <2>1, <3>1, <3>2 DEF BackupInv
  <2>4. CASE Ba!ServeStatus(m)
    <3> DEFINE a(r, k) == [type |-> "status", user |-> m.user, last |-> m.last, recovery |-> r, lastBackup |-> k]
    <3>1. UNCHANGED <<loaded, revision, others, life, kept>> /\ m.user \in Users /\ m.last \in BOOLEAN
      BY <1>1, <2>4 DEF Ba!ServeStatus, Ba!server, BackupRequests
    <3>2. PICK r \in {~loaded, FALSE}, k \in {kept[m.user], None} : answers' = Append(answers, a(r, k))
      BY <2>4 DEF Ba!ServeStatus, Ba!Answer
    <3>3. k \in Users \cup {None} /\ r \in BOOLEAN
      BY <3>1, <3>2 DEF BackupInv
    <3>4. a(r, k) \in BackupAnswers'
      BY <3>1, <3>3 DEF BackupAnswers
    <3> QED BY <3>1, <3>2, <3>4 DEF BackupInv
  <2>5. CASE Ba!ServeSave(m)
    <3>1. UNCHANGED <<loaded, revision, others, life>> /\ answers' = Append(answers, [type |-> "saved"])
      BY <2>5 DEF Ba!ServeSave, Ba!Answer
    <3>2. [type |-> "saved"] \in BackupAnswers'
      BY DEF BackupAnswers
    <3>3. m.by \in Users /\ kept' \in {kept, [kept EXCEPT ![m.user] = m.by]}
      BY <1>1, <2>5 DEF Ba!ServeSave, BackupRequests
    <3>4. kept' \in [Users -> Users \cup {None}]
      BY <3>3 DEF BackupInv
    <3> QED BY <3>1, <3>2, <3>4 DEF BackupInv
  <2> QED BY <2>2, <2>3, <2>4, <2>5 DEF Ba!Serve
<1>3. answers \in Seq(BackupAnswers)' /\ Tail(requests) \in Seq(BackupRequests)' /\ shown \in Snapshots'
  BY <1>1, <1>2, SnapshotsStay DEF BackupInv
<1>4. answers' \in Seq(BackupAnswers)'
  BY <1>2, <1>3
<1> QED BY <1>1, <1>2, <1>3, <1>4 DEF BackupInv

LEMMA BackupReceives == ASSUME BackupInv, Ba!Receive PROVE BackupInv'
<1> DEFINE m == Head(answers)
           save == [type |-> "save", user |-> user, by |-> m.by]
           ask == [type |-> "status", user |-> user, last |-> TRUE]
<1>1. /\ answers' \in Seq(BackupAnswers) /\ m \in BackupAnswers
      /\ UNCHANGED <<loaded, revision, others, life, kept, user, shown>>
  BY DEF Ba!Receive, BackupInv, Ba!server
<1>2. (m.type = "export" => save \in BackupRequests) /\ ask \in BackupRequests
  BY <1>1 DEF BackupRequests, BackupAnswers, BackupInv
<1>3. \/ requests' \in {requests, Append(requests, ask)}
      \/ m.type = "export" /\ requests' = Append(requests, save)
  BY DEF Ba!Receive, Ba!ReceiveExport, Ba!ReceiveSaved, Ba!ReceiveRestored, Ba!ReceiveStatus, Ba!ReceiveError,
         Ba!Send, Ba!StatusOf
<1> HIDE DEF m, save, ask
<1>4. requests' \in Seq(BackupRequests)
  <2>1. requests \in Seq(BackupRequests)
    BY DEF BackupInv
  <2> QED BY ONLY <1>2, <1>3, <2>1
<1> QED BY <1>1, <1>4, SnapshotsStay DEF BackupInv

LEMMA BackupStep == ASSUME BackupInv, [Ba!Next]_(Ba!vars) PROVE BackupInv'
<1> USE DEF Ba!server, Ba!socket, Ba!file, Ba!outcome, Ba!status
<1>1. CASE Ba!ReloadFails
  <2>1. loaded' = FALSE /\ UNCHANGED <<revision, others, life, kept, user, shown, requests, answers>>
    BY <1>1 DEF Ba!ReloadFails
  <2> QED BY <2>1, SnapshotsStay DEF BackupInv
<1>2. CASE Ba!OtherCommit
  <2>1. /\ others' = others + 1 /\ UNCHANGED <<kept, user, shown, requests, answers>>
        /\ loaded' \in BOOLEAN
        /\ \/ life' = life /\ revision' = revision + 1
           \/ life' = life + 1 /\ revision' = 0
    BY <1>2 DEF Ba!OtherCommit, Ba!NewManager, BackupInv
  <2> QED BY <2>1, SnapshotsStay DEF BackupInv
<1>3. CASE Ba!Refreshed
  <2>1. /\ shown' = [revision |-> revision, others |-> others, life |-> life]
        /\ UNCHANGED <<loaded, revision, others, life, kept, user, requests, answers>>
    BY <1>3 DEF Ba!Refreshed, Ba!Snapshot
  <2>2. shown' \in Snapshots'
    BY <2>1 DEF Snapshots, Seen, BackupInv
  <2> QED BY <2>1, <2>2, SnapshotsStay DEF BackupInv
<1>4. ASSUME NEW u \in Users, Ba!UserChanges(u) PROVE BackupInv'
  <2> DEFINE ask == [type |-> "status", user |-> u, last |-> FALSE]
  <2>1. /\ user' = u /\ requests' = Append(requests, ask)
        /\ UNCHANGED <<loaded, revision, others, life, kept, shown, answers>>
    BY <1>4 DEF Ba!UserChanges, Ba!Request, Ba!Send, Ba!StatusOf
  <2>2. ask \in BackupRequests
    BY DEF BackupRequests
  <2> HIDE DEF ask
  <2>3. requests' \in Seq(BackupRequests)
    BY <2>1, <2>2 DEF BackupInv
  <2> QED BY <2>1, <2>3, SnapshotsStay DEF BackupInv
<1>5. CASE Ba!Export
  <2>1. /\ requests' = Append(requests, [type |-> "export", by |-> user])
        /\ UNCHANGED <<loaded, revision, others, life, kept, user, shown, answers>>
    BY <1>5 DEF Ba!Export, Ba!Request, Ba!Send
  <2>2. [type |-> "export", by |-> user] \in BackupRequests
    BY DEF BackupRequests, BackupInv
  <2>3. requests' \in Seq(BackupRequests)
    BY <2>1, <2>2 DEF BackupInv
  <2> QED BY <2>1, <2>3, SnapshotsStay DEF BackupInv
<1>6. CASE Ba!Restore
  <2> DEFINE r == [type |-> "restore", revision |-> Ba!Basis, others |-> shown.others, life |-> shown.life]
  <2>1. /\ requests' = Append(requests, r)
        /\ UNCHANGED <<loaded, revision, others, life, kept, user, shown, answers>>
    BY <1>6 DEF Ba!Restore, Ba!Request, Ba!Send
  <2>2. r \in BackupRequests
    BY DEF BackupRequests, Snapshots, Seen, Ba!Basis, BackupInv
  <2> HIDE DEF r
  <2>3. requests' \in Seq(BackupRequests)
    BY <2>1, <2>2 DEF BackupInv
  <2> QED BY <2>1, <2>3, SnapshotsStay DEF BackupInv
<1>7. ASSUME (\E f \in Files : Ba!FileSelected(f) \/ Ba!FileRead(f)) \/ Ba!Confirm \/ UNCHANGED Ba!vars
      PROVE  BackupInv'
  <2>1. UNCHANGED <<loaded, revision, others, life, kept, user, shown, requests, answers>>
    BY <1>7 DEF Ba!FileSelected, Ba!FileRead, Ba!Confirm, Ba!vars
  <2> QED BY <2>1, SnapshotsStay DEF BackupInv
<1> QED BY <1>1, <1>2, <1>3, <1>4, <1>5, <1>6, <1>7, BackupServes, BackupReceives DEF Ba!Next

LEMMA BackupInit == ASSUME Ba!Init PROVE BackupInv
<1> DEFINE ask == [type |-> "status", user |-> user, last |-> FALSE]
<1>1. /\ loaded = TRUE /\ revision = 0 /\ others = 0 /\ life = 0 /\ user \in Users
      /\ shown = [revision |-> revision, others |-> others, life |-> life]
      /\ requests = <<ask>> /\ answers = <<>>
      /\ kept \in [Users -> Users \cup {None}]
  BY DEF Ba!Init, Ba!Snapshot, Ba!StatusOf
<1>2. ask \in BackupRequests
  BY <1>1 DEF BackupRequests
<1>3. shown \in Snapshots
  BY <1>1 DEF Snapshots, Seen
<1> HIDE DEF ask
<1>4. requests \in Seq(BackupRequests) /\ answers \in Seq(BackupAnswers)
  BY <1>1, <1>2
<1> QED BY <1>1, <1>3, <1>4 DEF BackupInv

LEMMA BackupInvariance == Ba!Spec => []BackupInv
<1>1. Ba!Init => BackupInv
  BY BackupInit
<1>2. BackupInv /\ [Ba!Next]_(Ba!vars) => BackupInv'
  BY BackupStep
<1> QED BY <1>1, <1>2, PTL DEF Ba!Spec

\* A restore that states a revision of the loaded manager replaces the registry the panel showed,
\* with nothing of other clients in between (backup-restore-tool.js _restore).
THEOREM RestoresWhatWasSeen == Ba!Spec => Ba!NothingUnseen
<1> DEFINE m == Head(requests)
<1>1. BackupInv /\ [Ba!Next]_(Ba!vars) =>
        [Ba!Restores /\ loaded /\ m.revision # None /\ m.life = life => m.others = others]_(Ba!vars)
  <2> SUFFICES ASSUME BackupInv, Ba!Restores, loaded, m.revision # None, m.life = life
               PROVE  m.others = others
    OBVIOUS
  <2>1. Ba!Serve /\ m.type = "restore" /\ m \in BackupRequests
    BY DEF Ba!Restores, Ba!Serve, BackupInv
  <2>2. Seen(m)
    BY <2>1 DEF BackupRequests
  <2>3. answers'[Len(answers')].type = "restored"
    BY DEF Ba!Restores
  <2>4. answers' # Append(answers, [type |-> "error"])
    BY <2>3 DEF BackupInv
  <2>5. Ba!Accepts(m)
    BY <2>1, <2>4 DEF Ba!Serve, Ba!ServeRestore, Ba!ServeExport, Ba!ServeStatus, Ba!ServeSave, Ba!RestoreLive,
                Ba!RestoreRecovery, Ba!Answer
  <2> QED BY <2>2, <2>5 DEF Seen, Ba!Accepts
<1> QED BY <1>1, BackupInvariance, PTL DEF Ba!Spec, Ba!NothingUnseen

\* Success without reserve is reported only when a manager has loaded what was restored
\* (backup-restore-tool.js _restore, ws_backup_restore).
THEOREM SuccessIsLoaded == Ba!BackupAssumption => (Ba!Spec => Ba!SuccessMeansLoaded)
<1> SUFFICES ASSUME Ba!BackupAssumption PROVE Ba!Spec => Ba!SuccessMeansLoaded
  OBVIOUS
<1>1. BackupInv /\ [Ba!Next]_(Ba!vars) =>
        [success' = "restore" /\ success # "restore" => Head(answers).manager \in 0..life]_(Ba!vars)
  <2> SUFFICES ASSUME BackupInv, Ba!Next, success' = "restore", success # "restore"
               PROVE  Head(answers).manager \in 0..life
    BY DEF Ba!vars, Ba!outcome
  <2> DEFINE m == Head(answers)
  <2>1. None \notin {"export", "restore", "reload failed"}
    BY DEF Ba!BackupAssumption
  <2>2. Ba!Receive
    <3> USE DEF Ba!outcome
    <3> QED BY <2>1 DEF Ba!Next, Ba!ReloadFails, Ba!OtherCommit, Ba!Serve, Ba!Refreshed, Ba!UserChanges,
              Ba!FileSelected, Ba!FileRead, Ba!Confirm, Ba!Export, Ba!Restore
  <2>3. Ba!ReceiveRestored(m)
    BY <2>2 DEF Ba!Receive, Ba!ReceiveExport, Ba!ReceiveSaved, Ba!ReceiveStatus, Ba!ReceiveError, Ba!outcome
  <2>4. m.type = "restored" /\ m.reloaded /\ m \in BackupAnswers
    BY <2>2, <2>3 DEF Ba!Receive, Ba!ReceiveRestored, Ba!RestoreMessage, BackupInv
  <2> QED BY <2>4 DEF BackupAnswers
<1> QED BY <1>1, BackupInvariance, PTL DEF Ba!Spec, Ba!SuccessMeansLoaded

\* What is stored and under way of a user's backups is the user's own, and what is shown will be.
OwnCall(m) == m.type = "save" => m.by = m.user

OwnAnswer(m) == m.type = "status" => m.lastBackup \in {m.user, None}

IsStatus(m) == m.type = "status" /\ m.user = user

Asked(q) == \E n \in DOMAIN q : IsStatus(q[n])

OwnInv ==
  ~crossed => /\ \A u \in Users : kept[u] \in {u, None}
              /\ \A n \in DOMAIN requests : OwnCall(requests[n])
              /\ \A n \in DOMAIN answers : OwnAnswer(answers[n])
              /\ lastBackup \in {user, None} \/ Asked(requests) \/ Asked(answers)

\* A longer queue has what it had, and a shorter one all but its first.
LEMMA AppendAsks ==
  ASSUME NEW S, NEW q \in Seq(S), NEW m \in S
  PROVE  /\ Asked(q) \/ IsStatus(m) => Asked(Append(q, m))
         /\ \A n \in DOMAIN Append(q, m) :
              (n \in DOMAIN q /\ Append(q, m)[n] = q[n]) \/ Append(q, m)[n] = m
<1>1. /\ \A n \in DOMAIN q : n \in DOMAIN Append(q, m) /\ Append(q, m)[n] = q[n]
      /\ Len(q) + 1 \in DOMAIN Append(q, m) /\ Append(q, m)[Len(q) + 1] = m
  OBVIOUS
<1>2. Asked(q) \/ IsStatus(m) => Asked(Append(q, m))
  BY <1>1 DEF Asked
<1> QED BY <1>2, AppendHolds

LEMMA TailAsks ==
  ASSUME NEW S, NEW q \in Seq(S), q # <<>>
  PROVE  /\ Asked(q) => IsStatus(Head(q)) \/ Asked(Tail(q))
         /\ \A n \in DOMAIN Tail(q) : n + 1 \in DOMAIN q /\ Tail(q)[n] = q[n + 1]
         /\ 1 \in DOMAIN q /\ Head(q) = q[1] /\ Tail(q) \in Seq(S) /\ Head(q) \in S
<1>1. \A n \in DOMAIN q : n # 1 => n - 1 \in DOMAIN Tail(q) /\ Tail(q)[n - 1] = q[n]
  OBVIOUS
<1>2. Asked(q) => IsStatus(Head(q)) \/ Asked(Tail(q))
  <2> SUFFICES ASSUME NEW n \in DOMAIN q, IsStatus(q[n]) PROVE IsStatus(Head(q)) \/ Asked(Tail(q))
    BY DEF Asked
  <2>1. CASE n = 1
    BY <2>1, TailHolds
  <2>2. CASE n # 1
    BY <1>1, <2>2 DEF Asked
  <2> QED BY <2>1, <2>2
<1> QED BY <1>2, TailHolds

LEMMA OwnServed == ASSUME BackupInv, OwnInv, Ba!Serve PROVE OwnInv'
<1> DEFINE m == Head(requests)
<1>1. /\ m \in BackupRequests /\ m = requests[1] /\ 1 \in DOMAIN requests
      /\ \A n \in DOMAIN Tail(requests) : n + 1 \in DOMAIN requests /\ Tail(requests)[n] = requests[n + 1]
      /\ Asked(requests) => IsStatus(m) \/ Asked(Tail(requests))
  BY TailAsks DEF Ba!Serve, BackupInv
<1>2. UNCHANGED <<crossed, user, lastBackup>> /\ requests' = Tail(requests)
  BY DEF Ba!Serve, Ba!status
<1>3. SUFFICES ASSUME ~crossed PROVE OwnInv'
  BY <1>2 DEF OwnInv
<1>4. OwnCall(m)
  BY <1>1, <1>3 DEF OwnInv
<1>5. PICK a : /\ answers' = Append(answers, a) /\ OwnAnswer(a)
               /\ IsStatus(m) => IsStatus(a)
               /\ \A u \in Users : kept'[u] \in {u, None}
  <2> DEFINE e == [type |-> "error"]
             good(n) == [type |-> "restored", reloaded |-> TRUE, manager |-> n]
             bad == [type |-> "restored", reloaded |-> FALSE, manager |-> None]
             s == [type |-> "saved"]
  <2>1. \A u \in Users : kept[u] \in {u, None}
    BY <1>3 DEF OwnInv
  <2>2. CASE Ba!ServeRestore(m)
    <3>1. /\ m.type = "restore" /\ kept' = kept
          /\ answers' \in {Append(answers, e), Append(answers, good(life)), Append(answers, good(life')),
                           Append(answers, bad)}
      BY <2>2 DEF Ba!ServeRestore, Ba!RestoreLive, Ba!RestoreRecovery, Ba!Answer
    <3>2. /\ e.type # "status" /\ good(life).type # "status" /\ good(life').type # "status"
          /\ bad.type # "status"
      OBVIOUS
    <3> HIDE DEF m, e, good, bad
    <3> QED BY <2>1, <3>1, <3>2 DEF OwnAnswer, IsStatus
  <2>3. CASE Ba!ServeExport(m)
    <3>1. m.type = "export" /\ kept' = kept /\ answers' \in {Append(answers, e), Append(answers, m)}
      BY <2>3 DEF Ba!ServeExport, Ba!Answer, Ba!server
    <3>2. e.type # "status"
      OBVIOUS
    <3> HIDE DEF m, e
    <3> QED BY <2>1, <3>1, <3>2 DEF OwnAnswer, IsStatus
  <2>4. CASE Ba!ServeStatus(m)
    <3> DEFINE a(r, k) == [type |-> "status", user |-> m.user, last |-> m.last, recovery |-> r, lastBackup |-> k]
    <3>1. m.type = "status" /\ kept' = kept /\ m.user \in Users
      BY <1>1, <2>4 DEF Ba!ServeStatus, Ba!server, BackupRequests
    <3>2. PICK r \in {~loaded, FALSE}, k \in {kept[m.user], None} : answers' = Append(answers, a(r, k))
      BY <2>4 DEF Ba!ServeStatus, Ba!Answer
    <3>3. a(r, k).type = "status" /\ a(r, k).user = m.user /\ a(r, k).lastBackup = k
      OBVIOUS
    <3>4. k \in {m.user, None}
      BY <2>1, <3>1, <3>2
    <3> HIDE DEF m, a
    <3> QED BY <2>1, <3>1, <3>2, <3>3, <3>4 DEF OwnAnswer, IsStatus
  <2>5. CASE Ba!ServeSave(m)
    <3>1. /\ m.type = "save" /\ answers' = Append(answers, s)
          /\ kept' \in {kept, [kept EXCEPT ![m.user] = m.by]}
      BY <2>5 DEF Ba!ServeSave, Ba!Answer
    <3>2. m.by = m.user /\ s.type # "status"
      BY <1>4, <3>1 DEF OwnCall
    <3> HIDE DEF m, s
    <3>3. \A u \in Users : kept'[u] \in {u, None}
      BY <2>1, <3>1, <3>2 DEF BackupInv
    <3> QED BY <3>1, <3>2, <3>3 DEF OwnAnswer, IsStatus
  <2> QED BY <2>2, <2>3, <2>4, <2>5 DEF Ba!Serve
<1> HIDE DEF m
<1>6. answers \in Seq(BackupAnswers \cup {a}) /\ a \in BackupAnswers \cup {a}
  BY DEF BackupInv
<1>7. /\ Asked(answers) \/ IsStatus(a) => Asked(Append(answers, a))
      /\ \A n \in DOMAIN Append(answers, a) :
           (n \in DOMAIN answers /\ Append(answers, a)[n] = answers[n]) \/ Append(answers, a)[n] = a
  BY <1>6, AppendAsks
<1>8. \A n \in DOMAIN answers' : OwnAnswer(answers'[n])
  BY <1>3, <1>5, <1>7 DEF OwnInv
<1>9. \A n \in DOMAIN requests' : OwnCall(requests'[n])
  BY <1>1, <1>2, <1>3 DEF OwnInv
<1>10. lastBackup \in {user, None} \/ Asked(requests') \/ Asked(answers')
  BY <1>1, <1>2, <1>3, <1>5, <1>7 DEF OwnInv
<1>11. Asked(requests') \/ Asked(answers') => Asked(requests)' \/ Asked(answers)'
  BY <1>2 DEF Asked, IsStatus
<1> QED BY <1>2, <1>5, <1>8, <1>9, <1>10, <1>11 DEF OwnInv, OwnAnswer, OwnCall

LEMMA OwnArrives == ASSUME BackupInv, OwnInv, Ba!Receive PROVE OwnInv'
<1> DEFINE m == Head(answers)
           save == [type |-> "save", user |-> user, by |-> m.by]
           ask == [type |-> "status", user |-> user, last |-> TRUE]
<1>1. /\ m \in BackupAnswers /\ m = answers[1] /\ 1 \in DOMAIN answers
      /\ \A n \in DOMAIN Tail(answers) : n + 1 \in DOMAIN answers /\ Tail(answers)[n] = answers[n + 1]
      /\ Asked(answers) => IsStatus(m) \/ Asked(Tail(answers))
  BY TailAsks DEF Ba!Receive, BackupInv
<1>2. UNCHANGED <<kept, user>> /\ answers' = Tail(answers)
  BY DEF Ba!Receive, Ba!server
<1>3. \/ m.type = "export" /\ requests' = Append(requests, save) /\ lastBackup' = m.by
         /\ crossed' = (crossed \/ m.by # user)
      \/ /\ m.type \notin {"status", "export"} /\ requests' \in {requests, Append(requests, ask)}
         /\ UNCHANGED <<lastBackup, crossed>>
      \/ /\ m.type = "status" /\ requests' = requests /\ crossed' = crossed
         /\ lastBackup' = IF m.user = user THEN m.lastBackup ELSE lastBackup
  BY DEF Ba!Receive, Ba!ReceiveExport, Ba!ReceiveSaved, Ba!ReceiveRestored, Ba!ReceiveStatus, Ba!ReceiveError,
         Ba!Send, Ba!StatusOf, Ba!SameUser, Ba!status
<1>4. /\ save.type = "save" /\ save.by = m.by /\ save.user = user
      /\ ask.type = "status" /\ ask.user = user
  OBVIOUS
<1> HIDE DEF m, save, ask
<1>5. SUFFICES ASSUME ~crossed' PROVE OwnInv'
  BY DEF OwnInv
<1>6. ~crossed
  BY <1>3, <1>5
<1>7. \A n \in DOMAIN answers' : OwnAnswer(answers'[n])
  BY <1>1, <1>2, <1>6 DEF OwnInv
<1>8. \A u \in Users : kept'[u] \in {u, None}
  BY <1>2, <1>6 DEF OwnInv
<1>9. \A q : requests' = Append(requests, q) =>
        /\ Asked(requests) \/ IsStatus(q) => Asked(requests')
        /\ OwnCall(q) => \A n \in DOMAIN requests' : OwnCall(requests'[n])
  <2> SUFFICES ASSUME NEW q, requests' = Append(requests, q)
               PROVE  /\ Asked(requests) \/ IsStatus(q) => Asked(requests')
                      /\ OwnCall(q) => \A n \in DOMAIN requests' : OwnCall(requests'[n])
    OBVIOUS
  <2>1. requests \in Seq(BackupRequests \cup {q}) /\ q \in BackupRequests \cup {q}
    BY DEF BackupInv
  <2>2. /\ Asked(requests) \/ IsStatus(q) => Asked(Append(requests, q))
        /\ \A n \in DOMAIN Append(requests, q) :
             (n \in DOMAIN requests /\ Append(requests, q)[n] = requests[n]) \/ Append(requests, q)[n] = q
    BY <2>1, AppendAsks
  <2>3. \A n \in DOMAIN requests : OwnCall(requests[n])
    BY <1>6 DEF OwnInv
  <2>4. OwnCall(q) => \A n \in DOMAIN Append(requests, q) : OwnCall(Append(requests, q)[n])
    BY <2>2, <2>3
  <2> QED BY <2>2, <2>4
<1>10. OwnCall(ask) /\ (m.by = user => OwnCall(save))
  BY <1>4 DEF OwnCall
<1>11. (\A n \in DOMAIN requests : OwnCall(requests[n])) /\ OwnAnswer(m)
  BY <1>1, <1>6 DEF OwnInv
<1>12. lastBackup \in {user, None} \/ Asked(requests) \/ IsStatus(m) \/ Asked(answers')
  BY <1>1, <1>2, <1>6 DEF OwnInv
<1>13. /\ \A n \in DOMAIN requests' : OwnCall(requests'[n])
       /\ lastBackup' \in {user, None} \/ Asked(requests') \/ Asked(answers')
  <2>1. CASE m.type = "export"
    <3>1. requests' = Append(requests, save) /\ lastBackup' = m.by /\ crossed' = (crossed \/ m.by # user)
      BY ONLY <1>3, <2>1
    <3>2. m.by = user
      BY ONLY <1>5, <3>1
    <3> QED BY <1>9, <1>10, <3>1, <3>2
  <2>2. CASE m.type # "status" /\ m.type # "export"
    <3>1. requests' \in {requests, Append(requests, ask)} /\ lastBackup' = lastBackup /\ ~IsStatus(m)
      BY <1>3, <2>2 DEF IsStatus
    <3> QED BY <1>9, <1>10, <1>11, <1>12, <3>1
  <2>3. CASE m.type = "status"
    <3>1. requests' = requests /\ lastBackup' = IF m.user = user THEN m.lastBackup ELSE lastBackup
      BY <1>3, <2>3
    <3>2. CASE m.user = user
      BY <1>11, <2>3, <3>1, <3>2 DEF OwnAnswer
    <3>3. CASE m.user # user
      BY <1>11, <1>12, <3>1, <3>3 DEF IsStatus
    <3> QED BY <3>2, <3>3
  <2> QED BY <2>1, <2>2, <2>3
<1>14. Asked(requests') \/ Asked(answers') => Asked(requests)' \/ Asked(answers)'
  BY <1>2 DEF Asked, IsStatus
<1> QED BY <1>2, <1>7, <1>8, <1>13, <1>14 DEF OwnInv, OwnAnswer, OwnCall

LEMMA OwnStep == ASSUME BackupInv, OwnInv, [Ba!Next]_(Ba!vars) PROVE OwnInv'
<1> USE DEF Ba!server, Ba!socket, Ba!file, Ba!outcome, Ba!status
<1>1. ASSUME \/ Ba!ReloadFails \/ Ba!OtherCommit \/ Ba!Refreshed \/ Ba!Confirm \/ UNCHANGED Ba!vars
             \/ \E f \in Files : Ba!FileSelected(f) \/ Ba!FileRead(f)
      PROVE  OwnInv'
  <2>1. UNCHANGED <<crossed, kept, user, lastBackup, requests, answers>>
    BY <1>1 DEF Ba!ReloadFails, Ba!OtherCommit, Ba!NewManager, Ba!Refreshed, Ba!Confirm, Ba!FileSelected,
                Ba!FileRead, Ba!vars
  <2> QED BY <2>1 DEF OwnInv, OwnCall, OwnAnswer, Asked, IsStatus
<1>2. ASSUME NEW q, OwnCall(q), requests' = Append(requests, q),
             UNCHANGED <<crossed, kept, lastBackup, answers>>,
             user' = user \/ (q.type = "status" /\ q.user = user')
      PROVE  OwnInv'
  <2>1. requests \in Seq(BackupRequests \cup {q}) /\ q \in BackupRequests \cup {q}
    BY DEF BackupInv
  <2>2. /\ Asked(requests) \/ IsStatus(q) => Asked(Append(requests, q))
        /\ \A n \in DOMAIN Append(requests, q) :
             (n \in DOMAIN requests /\ Append(requests, q)[n] = requests[n]) \/ Append(requests, q)[n] = q
    BY <2>1, AppendAsks
  <2>3. SUFFICES ASSUME ~crossed PROVE OwnInv'
    BY <1>2 DEF OwnInv
  <2>4. \A n \in DOMAIN requests' : OwnCall(requests'[n])
    BY <1>2, <2>2, <2>3 DEF OwnInv
  <2>5. CASE user' = user
    <3>1. Asked(requests') => Asked(requests)'
      BY <2>5 DEF Asked, IsStatus
    <3>2. Asked(answers) => Asked(answers)'
      BY <1>2, <2>5 DEF Asked, IsStatus
    <3>3. (lastBackup \in {user, None})' \/ Asked(requests)' \/ Asked(answers)'
      BY <1>2, <2>2, <2>3, <2>5, <3>1, <3>2 DEF OwnInv
    <3> QED BY <1>2, <2>3, <2>4, <3>3 DEF OwnInv, OwnAnswer, OwnCall
  <2>6. CASE q.type = "status" /\ q.user = user'
    <3>1. /\ Len(requests) + 1 \in DOMAIN Append(requests, q)
          /\ Append(requests, q)[Len(requests) + 1] = q
      BY <2>1
    <3>2. Asked(requests)'
      BY <1>2, <2>6, <3>1 DEF Asked, IsStatus
    <3> QED BY <1>2, <2>3, <2>4, <3>2 DEF OwnInv, OwnAnswer, OwnCall
  <2> QED BY <1>2, <2>5, <2>6
<1>3. ASSUME NEW u \in Users, Ba!UserChanges(u) PROVE OwnInv'
  <2> DEFINE ask == [type |-> "status", user |-> u, last |-> FALSE]
  <2>1. /\ user' = u /\ requests' = Append(requests, ask)
        /\ UNCHANGED <<crossed, kept, lastBackup, answers>>
    BY <1>3 DEF Ba!UserChanges, Ba!Request, Ba!Send, Ba!StatusOf
  <2>2. OwnCall(ask) /\ ask.type = "status" /\ ask.user = u
    BY DEF OwnCall
  <2> HIDE DEF ask
  <2> QED BY <1>2, <2>1, <2>2
<1>4. CASE Ba!Export
  <2> DEFINE q == [type |-> "export", by |-> user]
  <2>1. requests' = Append(requests, q) /\ UNCHANGED <<crossed, kept, lastBackup, answers, user>>
    BY <1>4 DEF Ba!Export, Ba!Request, Ba!Send
  <2>2. OwnCall(q)
    BY DEF OwnCall
  <2> HIDE DEF q
  <2> QED BY <1>2, <2>1, <2>2
<1>5. CASE Ba!Restore
  <2> DEFINE q == [type |-> "restore", revision |-> Ba!Basis, others |-> shown.others, life |-> shown.life]
  <2>1. requests' = Append(requests, q) /\ UNCHANGED <<crossed, kept, lastBackup, answers, user>>
    BY <1>5 DEF Ba!Restore, Ba!Request, Ba!Send
  <2>2. OwnCall(q)
    BY DEF OwnCall
  <2> HIDE DEF q
  <2> QED BY <1>2, <2>1, <2>2
<1> QED BY <1>1, <1>3, <1>4, <1>5, OwnServed, OwnArrives DEF Ba!Next

\* The backup shown as the last is the user's own, but until the answer to the status of the user
\* is there, and if the user never changed during an export (backup-restore-tool.js updated,
\* _loadStatus, _exportBackup).
THEOREM BackupsOfUser == Ba!Spec => []Ba!OthersNotShown
<1>1. Ba!Init => OwnInv
  <2> SUFFICES ASSUME Ba!Init PROVE OwnInv
    OBVIOUS
  <2> DEFINE ask == [type |-> "status", user |-> user, last |-> FALSE]
  <2>1. requests = <<ask>> /\ answers = <<>> /\ lastBackup = None
    BY DEF Ba!Init, Ba!StatusOf
  <2>2. \A u \in Users : kept[u] \in {u, None}
    BY DEF Ba!Init
  <2>3. OwnCall(ask)
    BY DEF OwnCall
  <2> HIDE DEF ask
  <2>4. \A n \in DOMAIN requests : OwnCall(requests[n])
    BY <2>1, <2>3
  <2> QED BY <2>1, <2>2, <2>4 DEF OwnInv
<1>2. BackupInv /\ OwnInv /\ [Ba!Next]_(Ba!vars) => OwnInv'
  BY OwnStep
<1>3. OwnInv => Ba!OthersNotShown
  BY DEF OwnInv, Asked, IsStatus, Ba!OthersNotShown, Ba!StatusUnderWay, Ba!Range
<1> QED BY <1>1, <1>2, <1>3, BackupInvariance, PTL DEF Ba!Spec

-----------------------------------------------------------------------------
(***************************************************************************)
(* HealthTool: while a load is under way it is the only one, and what it   *)
(* has got is no older than what is shown.                                 *)
(***************************************************************************)

CONSTANTS MaxTime, MaxLoads

VARIABLES todo, time, loads, connected, loading, error

He == INSTANCE HealthTool

Load ==
  { l \in [by : {"view", "user", "hass"}, awaited : SUBSET He!Reports, failed : BOOLEAN,
           got : [He!Reports -> [todo : BOOLEAN, at : 0..time]]] :
      \A r \in He!Reports : r \in l.awaited \/ l.failed \/ l.got[r].at >= shown[r].at }

HealthInv ==
  /\ todo \in [He!Reports -> BOOLEAN] /\ time \in Nat /\ loading \in BOOLEAN
  /\ shown \in [He!Reports -> [todo : BOOLEAN, at : 0..time]]
  /\ IF loading THEN \E l \in Load : loads = <<l>> ELSE loads = <<>>

LEMMA LoadsStep ==
  ASSUME HealthInv, NEW who \in {"view", "user", "hass"}, He!Load(who), UNCHANGED <<todo, time, shown>>
  PROVE  HealthInv'
<1> DEFINE l == [by |-> who, awaited |-> He!Reports, failed |-> FALSE, got |-> He!NoReports]
<1>1. He!NoReports \in [He!Reports -> [todo : BOOLEAN, at : 0..time]]
  BY DEF He!NoReports, HealthInv
<1>2. l \in Load
  BY <1>1 DEF Load
<1>3. Load' = Load
  BY DEF Load
<1>4. \/ UNCHANGED <<loads, loading>>
      \/ ~loading /\ loading' = TRUE /\ loads' = Append(loads, l)
  BY DEF He!Load, He!MayLoad
<1> HIDE DEF l
<1>5. CASE ~loading /\ loading' = TRUE /\ loads' = Append(loads, l)
  <2>1. loads' = <<l>>
    BY <1>5 DEF HealthInv
  <2> QED BY <1>2, <1>3, <1>5, <2>1 DEF HealthInv
<1>6. CASE UNCHANGED <<loads, loading>>
  BY <1>3, <1>6 DEF HealthInv
<1> QED BY <1>4, <1>5, <1>6

LEMMA HealthStep == ASSUME HealthInv, [He!Next]_(He!vars) PROVE HealthInv'
<1> USE DEF He!server, He!tool
<1>1. ASSUME NEW r \in He!Reports, He!Change(r) PROVE HealthInv'
  <2>1. /\ time' = time + 1 /\ todo' = [todo EXCEPT ![r] = ~@] /\ UNCHANGED <<loads, loading, shown>>
    BY <1>1 DEF He!Change
  <2>2. /\ todo' \in [He!Reports -> BOOLEAN] /\ time' \in Nat /\ 0..time \subseteq 0..time'
    BY <2>1 DEF HealthInv
  <2>3. Load \subseteq Load'
    BY <2>1, <2>2 DEF Load
  <2>4. shown' \in [He!Reports -> [todo : BOOLEAN, at : 0..time']]
    BY <2>1, <2>2 DEF HealthInv
  <2> QED BY <2>1, <2>2, <2>3, <2>4 DEF HealthInv
<1>2. CASE He!Connect
  BY <1>2, LoadsStep DEF He!Connect
<1>3. CASE He!Refresh
  BY <1>3, LoadsStep DEF He!Refresh
<1>4. CASE He!HassUpdated
  BY <1>4, LoadsStep DEF He!HassUpdated
<1>5. CASE He!Disconnect \/ UNCHANGED He!vars
  <2>1. UNCHANGED <<todo, time, loads, loading, shown>>
    BY <1>5 DEF He!Disconnect, He!vars
  <2>2. Load' = Load
    BY <2>1 DEF Load
  <2> QED BY <2>1, <2>2 DEF HealthInv
<1>6. CASE He!Answer
  <2>1. UNCHANGED <<todo, time, loading, shown>>
    BY <1>6 DEF He!Answer
  <2>2. PICK n \in DOMAIN loads, r \in He!Reports : He!Reported(n, r) \/ He!NotReported(n, r)
    BY <1>6 DEF He!Answer
  <2>3. loading /\ n = 1
    BY <2>2 DEF HealthInv
  <2>4. PICK l \in Load : loads = <<l>>
    BY <2>3 DEF HealthInv
  <2> DEFINE g == [l EXCEPT !.awaited = @ \ {r}, !.got[r] = [todo |-> todo[r], at |-> time]]
             b == [l EXCEPT !.awaited = @ \ {r}, !.failed = TRUE]
  <2>5. /\ l \in [by : {"view", "user", "hass"}, awaited : SUBSET He!Reports, failed : BOOLEAN,
                  got : [He!Reports -> [todo : BOOLEAN, at : 0..time]]]
        /\ \A s \in He!Reports : s \in l.awaited \/ l.failed \/ l.got[s].at >= shown[s].at
    BY <2>4 DEF Load
  <2>6. b \in Load
    BY <2>5 DEF Load
  <2>7. g \in Load
    <3>1. [todo |-> todo[r], at |-> time] \in [todo : BOOLEAN, at : 0..time] /\ time >= shown[r].at
      BY DEF HealthInv
    <3>2. g.got \in [He!Reports -> [todo : BOOLEAN, at : 0..time]]
      BY <2>5, <3>1
    <3>3. g \in [by : {"view", "user", "hass"}, awaited : SUBSET He!Reports, failed : BOOLEAN,
                 got : [He!Reports -> [todo : BOOLEAN, at : 0..time]]]
      BY <2>5, <3>2
    <3>4. \A s \in He!Reports : s \in g.awaited \/ g.failed \/ g.got[s].at >= shown[s].at
      BY <2>5, <3>1
    <3> QED BY <3>3, <3>4 DEF Load
  <2>8. loads' = <<g>> \/ loads' = <<b>>
    <3>1. CASE He!NotReported(n, r)
      BY <2>3, <2>4, <3>1 DEF He!NotReported
    <3>2. CASE He!Reported(n, r)
      <4> DEFINE w == l.awaited \ {r}
                 v == [todo |-> todo[r], at |-> time]
      <4>1. loads[1] = l
        BY <2>4
      <4>2. loads' = [loads EXCEPT ![1].awaited = w, ![1].got[r] = v]
        BY <2>3, <3>2, <4>1 DEF He!Reported
      <4>3. g = [l EXCEPT !.awaited = w, !.got[r] = v]
        OBVIOUS
      <4> HIDE DEF w, v, g
      <4>4. 1 \in DOMAIN loads /\ DOMAIN loads = 1..1
        BY <2>4
      <4>5. loads'[1] = [loads[1] EXCEPT !.awaited = w, !.got[r] = v]
        BY <4>2, <4>4
      <4>6. loads' = [i \in DOMAIN loads |-> loads'[i]]
        BY <4>2
      <4>7. loads' = [i \in 1..1 |-> loads'[i]] /\ loads'[1] = g
        BY <4>1, <4>3, <4>4, <4>5, <4>6
      <4> QED BY <4>7
    <3> QED BY <2>2, <3>1, <3>2
  <2>9. Load' = Load
    BY <2>1 DEF Load
  <2> HIDE DEF g, b
  <2> QED BY <2>1, <2>3, <2>6, <2>7, <2>8, <2>9 DEF HealthInv
<1>7. CASE He!Settle
  <2>1. PICK n \in DOMAIN loads : /\ He!Show(n) \/ He!Fail(n)
                                  /\ loading' = FALSE /\ loads' = He!RemoveAt(loads, n)
    BY <1>7 DEF He!Settle, He!Released
  <2>2. PICK l \in Load : loads = <<l>> /\ n = 1
    BY <2>1 DEF HealthInv
  <2>3. loads' = <<>>
    BY <2>1, <2>2 DEF He!RemoveAt
  <2>4. shown' = shown \/ shown' = l.got
    BY <2>1, <2>2 DEF He!Show, He!Fail
  <2>5. UNCHANGED <<todo, time>> /\ l.got \in [He!Reports -> [todo : BOOLEAN, at : 0..time]]
    BY <1>7 DEF He!Settle, Load
  <2> QED BY <2>1, <2>3, <2>4, <2>5 DEF HealthInv
<1> QED BY <1>1, <1>2, <1>3, <1>4, <1>5, <1>6, <1>7 DEF He!Next

\* A report is never replaced by an older one, though loads are started by the user, by the
\* view and by Home Assistant (health-tool.js _refreshSupplementalHealth).
THEOREM ReportsGoForward == He!Spec => He!ReportsNeverGoBack
<1>1. He!Init => HealthInv
  <2> SUFFICES ASSUME He!Init PROVE HealthInv
    OBVIOUS
  <2>1. [todo |-> FALSE, at |-> 0] \in [todo : BOOLEAN, at : 0..time]
    BY DEF He!Init
  <2>2. shown \in [He!Reports -> [todo : BOOLEAN, at : 0..time]]
    BY <2>1 DEF He!Init, He!NoReports
  <2> QED BY <2>2 DEF He!Init, HealthInv
<1>2. HealthInv /\ [He!Next]_(He!vars) => HealthInv'
  BY HealthStep
<1>3. HealthInv /\ [He!Next]_(He!vars) => [\A r \in He!Reports : shown'[r].at >= shown[r].at]_(He!vars)
  <2> SUFFICES ASSUME HealthInv, [He!Next]_(He!vars), NEW r \in He!Reports
               PROVE  shown'[r].at >= shown[r].at
    OBVIOUS
  <2>1. shown[r].at \in Nat
    BY DEF HealthInv
  <2>2. CASE He!Settle
    <3>1. PICK n \in DOMAIN loads : shown' = shown \/ (He!AllThere(n) /\ shown' = loads[n].got)
      BY <2>2 DEF He!Settle, He!Show, He!Fail
    <3>2. PICK l \in Load : loads = <<l>> /\ n = 1
      BY <3>1 DEF HealthInv
    <3> QED BY <2>1, <3>1, <3>2 DEF He!AllThere, Load
  <2>3. CASE UNCHANGED shown
    BY <2>1, <2>3
  <2> QED BY <2>2, <2>3 DEF He!Next, He!vars, He!tool, He!Change, He!Connect, He!Disconnect, He!Refresh,
                He!HassUpdated, He!Answer
<1> QED BY <1>1, <1>2, <1>3, PTL DEF He!Spec, He!ReportsNeverGoBack

-----------------------------------------------------------------------------
(***************************************************************************)
(* AddView: a request that is here is the only own one, and its form is    *)
(* saving or has been accepted.                                            *)
(***************************************************************************)

CONSTANTS Presets, MaxCreated, MaxPending

VARIABLES created, pending, mode, preset, area, saving, sync, committed

Ad == INSTANCE AddView

Submission == [stage : {"create", "refresh"}, own : BOOLEAN, here : BOOLEAN, current : BOOLEAN]

\* The form a submission was made from is still there, and cannot be submitted.
OnForm(s) ==
  /\ s.own /\ preset # None
  /\ IF s.stage = "create" THEN saving ELSE committed

AddInv ==
  /\ pending \in Seq(Submission) /\ {sync, saving, committed} \subseteq BOOLEAN
  /\ \A n \in DOMAIN pending : /\ pending[n].own => pending[n].current
                               /\ pending[n].here => OnForm(pending[n])
  /\ \A n, k \in DOMAIN pending : pending[n].own /\ pending[k].own => n = k

\* The requests left after one was answered.
LEMMA RestOf ==
  ASSUME NEW S, NEW q \in Seq(S), NEW n \in DOMAIN q
  PROVE  /\ Ad!RemoveAt(q, n) \in Seq(S)
         /\ \A i \in DOMAIN Ad!RemoveAt(q, n) :
              /\ (IF i < n THEN i ELSE i + 1) \in DOMAIN q \ {n}
              /\ Ad!RemoveAt(q, n)[i] = q[IF i < n THEN i ELSE i + 1]
<1> DEFINE l == SubSeq(q, 1, n - 1)
           r == SubSeq(q, n + 1, Len(q))
<1>1. n \in 1..Len(q) /\ Len(q) \in Nat
  OBVIOUS
<1>2. l \in Seq(S) /\ Len(l) = n - 1 /\ \A i \in 1..n - 1 : l[i] = q[i]
  BY <1>1, SubSeqProperties
<1>3. r \in Seq(S) /\ Len(r) = Len(q) - n /\ \A i \in 1..Len(q) - n : r[i] = q[n + i]
  BY <1>1, SubSeqProperties
<1> HIDE DEF l, r
<1>4. l \o r \in Seq(S) /\ Len(l \o r) = Len(q) - 1
  BY <1>1, <1>2, <1>3
<1>5. \A i \in 1..Len(q) - 1 : (l \o r)[i] = IF i < n THEN q[i] ELSE q[i + 1]
  BY <1>1, <1>2, <1>3
<1>6. Ad!RemoveAt(q, n) = l \o r
  BY DEF Ad!RemoveAt, l, r
<1>7. DOMAIN Ad!RemoveAt(q, n) = 1..Len(q) - 1
  BY <1>1, <1>4, <1>6
<1>8. ASSUME NEW i \in 1..Len(q) - 1
      PROVE  /\ (IF i < n THEN i ELSE i + 1) \in DOMAIN q \ {n}
             /\ Ad!RemoveAt(q, n)[i] = q[IF i < n THEN i ELSE i + 1]
  <2>1. (l \o r)[i] = q[IF i < n THEN i ELSE i + 1]
    BY <1>5
  <2>2. DOMAIN q = 1..Len(q) /\ i \in Nat /\ n \in Nat
    BY <1>1
  <2>3. (IF i < n THEN i ELSE i + 1) \in DOMAIN q \ {n}
    BY <1>1, <2>2
  <2> QED BY <1>6, <2>1, <2>3
<1> QED BY <1>4, <1>6, <1>7, <1>8

\* An answer to one request leaves the others what they are, but for the form.
LEMMA AnswerKeeps ==
  ASSUME AddInv, NEW n \in DOMAIN pending, pending' = Ad!RemoveAt(pending, n), preset' = preset,
         {sync', saving', committed'} \subseteq BOOLEAN,
         pending[n].own \/ UNCHANGED <<saving, committed>>
  PROVE  AddInv'
<1>1. /\ pending \in Seq(Submission) /\ pending' \in Seq(Submission)
      /\ \A i \in DOMAIN pending' : /\ (IF i < n THEN i ELSE i + 1) \in DOMAIN pending \ {n}
                                    /\ pending'[i] = pending[IF i < n THEN i ELSE i + 1]
  BY RestOf DEF AddInv
<1>2. DOMAIN pending' \subseteq Nat /\ n \in Nat
  BY <1>1
<1>3. ASSUME NEW i \in DOMAIN pending', NEW k \in DOMAIN pending', pending'[i].own, pending'[k].own PROVE i = k
  <2>1. (IF i < n THEN i ELSE i + 1) = (IF k < n THEN k ELSE k + 1)
    BY <1>1, <1>3 DEF AddInv
  <2> QED BY <1>2, <2>1
<1>4. ASSUME NEW i \in DOMAIN pending'
      PROVE  /\ pending'[i].own => pending'[i].current
             /\ pending'[i].here => /\ pending'[i].own /\ preset' # None
                                    /\ IF pending'[i].stage = "create" THEN saving' ELSE committed'
  <2>1. PICK k \in DOMAIN pending : k # n /\ pending'[i] = pending[k]
    BY <1>1
  <2>2. CASE ~pending[k].here
    BY <2>1, <2>2 DEF AddInv
  <2>3. CASE pending[k].here
    <3>1. ~pending[n].own
      BY <2>1, <2>3 DEF AddInv, OnForm
    <3> QED BY <2>1, <2>3, <3>1 DEF AddInv, OnForm
  <2> QED BY <2>2, <2>3
<1>5. \A i \in DOMAIN pending' : (pending'[i].own => pending'[i].current) /\ (pending'[i].here => OnForm(pending[i])')
  BY <1>4 DEF OnForm
<1> QED BY <1>1, <1>3, <1>5 DEF AddInv

\* What a session, a form or a submission takes from all requests.
LEMMA AllMarked ==
  ASSUME NEW q \in Seq(Submission)
  PROVE  /\ Ad!Disowned(q) \in Seq(Submission) /\ DOMAIN Ad!Disowned(q) = DOMAIN q
         /\ \A n \in DOMAIN q : ~Ad!Disowned(q)[n].own /\ Ad!Disowned(q)[n].here = q[n].here
         /\ Ad!Left(q) \in Seq(Submission) /\ DOMAIN Ad!Left(q) = DOMAIN q
         /\ \A n \in DOMAIN q : /\ Ad!Left(q)[n].own = q[n].own /\ ~Ad!Left(q)[n].here
                                /\ Ad!Left(q)[n].current = q[n].current
         /\ Ad!SessionOver(q) \in Seq(Submission) /\ DOMAIN Ad!SessionOver(q) = DOMAIN q
         /\ \A n \in DOMAIN q : /\ Ad!SessionOver(q)[n].own = q[n].own
                                /\ Ad!SessionOver(q)[n].here = q[n].here
<1>1. DOMAIN q = 1..Len(q) /\ Len(q) \in Nat /\ \A n \in 1..Len(q) : q[n] \in Submission
  OBVIOUS
<1>2. ASSUME NEW s \in Submission
      PROVE  /\ [s EXCEPT !.own = FALSE] \in Submission /\ ~[s EXCEPT !.own = FALSE].own
             /\ [s EXCEPT !.own = FALSE].here = s.here
  BY DEF Submission
<1>3. ASSUME NEW s \in Submission
      PROVE  /\ [s EXCEPT !.here = FALSE] \in Submission /\ ~[s EXCEPT !.here = FALSE].here
             /\ [s EXCEPT !.here = FALSE].own = s.own /\ [s EXCEPT !.here = FALSE].current = s.current
  BY DEF Submission
<1>4. ASSUME NEW s \in Submission
      PROVE  /\ [s EXCEPT !.current = FALSE] \in Submission
             /\ [s EXCEPT !.current = FALSE].own = s.own /\ [s EXCEPT !.current = FALSE].here = s.here
  BY DEF Submission
<1> HIDE DEF Submission
<1>5. Ad!Disowned(q) \in Seq(Submission)
  <2>1. \A n \in 1..Len(q) : [q[n] EXCEPT !.own = FALSE] \in Submission
    BY <1>1, <1>2
  <2> QED BY <1>1, <2>1, IsASeq DEF Ad!Disowned
<1>6. Ad!Left(q) \in Seq(Submission)
  <2>1. \A n \in 1..Len(q) : [q[n] EXCEPT !.here = FALSE] \in Submission
    BY <1>1, <1>3
  <2> QED BY <1>1, <2>1, IsASeq DEF Ad!Left
<1>7. Ad!SessionOver(q) \in Seq(Submission)
  <2>1. \A n \in 1..Len(q) : [q[n] EXCEPT !.current = FALSE] \in Submission
    BY <1>1, <1>4
  <2> QED BY <1>1, <2>1, IsASeq DEF Ad!SessionOver
<1>8. /\ DOMAIN Ad!Disowned(q) = DOMAIN q
      /\ \A n \in DOMAIN q : ~Ad!Disowned(q)[n].own /\ Ad!Disowned(q)[n].here = q[n].here
  BY <1>1, <1>2 DEF Ad!Disowned
<1>9. /\ DOMAIN Ad!Left(q) = DOMAIN q
      /\ \A n \in DOMAIN q : /\ Ad!Left(q)[n].own = q[n].own /\ ~Ad!Left(q)[n].here
                             /\ Ad!Left(q)[n].current = q[n].current
  BY <1>1, <1>3 DEF Ad!Left
<1>10. /\ DOMAIN Ad!SessionOver(q) = DOMAIN q
       /\ \A n \in DOMAIN q : Ad!SessionOver(q)[n].own = q[n].own /\ Ad!SessionOver(q)[n].here = q[n].here
  BY <1>1, <1>4 DEF Ad!SessionOver
<1> QED BY <1>5, <1>6, <1>7, <1>8, <1>9, <1>10

\* No request of a form that was left, or of no form, is here.
LEMMA FormLeft ==
  ASSUME AddInv, pending' = Ad!Left(pending), UNCHANGED <<saving, committed, sync>>
         \/ {sync', saving', committed'} \subseteq BOOLEAN
  PROVE  AddInv'
<1>0. pending \in Seq(Submission)
  BY DEF AddInv
<1>1. /\ pending \in Seq(Submission) /\ pending' \in Seq(Submission) /\ DOMAIN pending' = DOMAIN pending
      /\ \A n \in DOMAIN pending : /\ pending'[n].own = pending[n].own
                                   /\ pending'[n].current = pending[n].current /\ ~pending'[n].here
  BY <1>0, AllMarked
<1> QED BY <1>1 DEF AddInv

LEMMA AddStep == ASSUME AddInv, [Ad!Next]_(Ad!vars) PROVE AddInv'
<1>0. pending \in Seq(Submission)
  BY DEF AddInv
<1>1. ASSUME NEW a, Ad!NewSession(a) PROVE AddInv'
  <2>1. /\ pending' = Ad!SessionOver(Ad!Left(Ad!Disowned(pending)))
        /\ sync' = FALSE /\ saving' = FALSE /\ committed' = FALSE
    BY <1>1 DEF Ad!NewSession
  <2> DEFINE d == Ad!Disowned(pending)
             e == Ad!Left(d)
  <2>2. d \in Seq(Submission) /\ \A n \in DOMAIN d : ~d[n].own
    BY <1>0, AllMarked
  <2> HIDE DEF d
  <2>3. e \in Seq(Submission) /\ \A n \in DOMAIN e : ~e[n].own /\ ~e[n].here
    BY <2>2, AllMarked
  <2> HIDE DEF e
  <2>4. /\ Ad!SessionOver(e) \in Seq(Submission)
        /\ \A n \in DOMAIN Ad!SessionOver(e) : ~Ad!SessionOver(e)[n].own /\ ~Ad!SessionOver(e)[n].here
    BY <2>3, AllMarked
  <2> QED BY <2>1, <2>4 DEF AddInv, d, e
<1>2. ASSUME NEW m, Ad!SetMode(m) PROVE AddInv'
  <2>1. /\ UNCHANGED <<saving, committed, sync>>
        /\ UNCHANGED <<preset, pending>> \/ pending' = Ad!Left(pending)
    BY <1>2 DEF Ad!SetMode
  <2> QED BY <2>1, FormLeft DEF AddInv, OnForm
<1>3. ASSUME NEW p, Ad!Choose(p) PROVE AddInv'
  <2>1. preset = None /\ sync' = FALSE /\ committed' = FALSE /\ UNCHANGED <<pending, saving>>
    BY <1>3 DEF Ad!Choose
  <2> QED BY <2>1 DEF AddInv, OnForm
<1>4. CASE Ad!Cancel
  <2>1. sync' = FALSE /\ committed' = FALSE /\ saving' = saving /\ pending' = Ad!Left(pending)
    BY <1>4 DEF Ad!Cancel
  <2> QED BY <2>1, FormLeft DEF AddInv
<1>5. ASSUME NEW a, Ad!SelectArea(a) \/ UNCHANGED Ad!vars PROVE AddInv'
  <2>1. UNCHANGED <<pending, preset, saving, committed, sync>>
    BY <1>5 DEF Ad!SelectArea, Ad!vars, Ad!form
  <2> QED BY <2>1 DEF AddInv, OnForm
<1>6. CASE Ad!Submit
  <2> DEFINE d == Ad!Disowned(pending)
             s == [stage |-> "create", own |-> TRUE, here |-> TRUE, current |-> TRUE]
  <2>1. /\ preset # None /\ ~saving /\ ~committed /\ saving' = TRUE /\ sync' = FALSE
        /\ pending' = Append(d, s) /\ UNCHANGED <<preset, committed>>
    BY <1>6 DEF Ad!Submit, Ad!Submittable
  <2>2. \A n \in DOMAIN pending : ~pending[n].here
    BY <2>1 DEF AddInv, OnForm
  <2>3. d \in Seq(Submission) /\ \A n \in DOMAIN d : ~d[n].own /\ ~d[n].here
    BY <1>0, <2>2, AllMarked
  <2>6. s \in Submission
    BY DEF Submission
  <2>4. s.own /\ s.here /\ s.current /\ s.stage = "create"
    OBVIOUS
  <2> HIDE DEF d, s
  <2>5. /\ pending' \in Seq(Submission)
        /\ \A n \in DOMAIN pending' : n # Len(d) + 1 => ~pending'[n].own /\ ~pending'[n].here
        /\ pending'[Len(d) + 1] = s
    BY <2>1, <2>3, <2>6
  <2> QED BY <2>1, <2>4, <2>5 DEF AddInv, OnForm
<1>7. ASSUME NEW n, Ad!Answer(n) PROVE AddInv'
  <2>1. n \in DOMAIN pending
    BY <1>7 DEF Ad!Answer
  <2>2. CASE Ad!Accept(n)
    <3>1. CASE pending[n].own
      <4>1. /\ committed' = TRUE /\ saving' = FALSE /\ pending' = [pending EXCEPT ![n].stage = "refresh"]
            /\ UNCHANGED <<preset, sync>>
        BY <2>2, <3>1 DEF Ad!Accept
      <4>2. /\ pending' \in Seq(Submission) /\ DOMAIN pending' = DOMAIN pending
            /\ \A k \in DOMAIN pending : /\ pending'[k].own = pending[k].own
                                         /\ pending'[k].here = pending[k].here
                                         /\ pending'[k].current = pending[k].current
            /\ pending'[n].stage = "refresh"
        <5> DEFINE s == [pending[n] EXCEPT !.stage = "refresh"]
        <5>1. pending[n] \in Submission
          BY <1>0, <2>1
        <5>2. /\ s \in Submission /\ s.own = pending[n].own /\ s.here = pending[n].here
              /\ s.current = pending[n].current /\ s.stage = "refresh"
          BY <5>1 DEF Submission
        <5>3. pending' = [pending EXCEPT ![n] = s]
          BY <4>1
        <5> HIDE DEF s, Submission
        <5>4. /\ pending' \in Seq(Submission) /\ DOMAIN pending' = DOMAIN pending
              /\ \A k \in DOMAIN pending : k # n => pending'[k] = pending[k]
              /\ pending'[n] = s
          BY <1>0, <2>1, <5>2, <5>3
        <5> QED BY <5>2, <5>4
      <4>3. \A k \in DOMAIN pending : pending[k].here => k = n
        BY <2>1, <3>1 DEF AddInv, OnForm
      <4>4. ASSUME NEW k \in DOMAIN pending'
            PROVE  (pending'[k].own => pending'[k].current) /\ (pending'[k].here => OnForm(pending[k])')
        <5>1. k \in DOMAIN pending
          BY <4>2
        <5>2. pending'[k].own => pending'[k].current
          BY <4>2, <5>1 DEF AddInv
        <5>3. ASSUME pending'[k].here PROVE OnForm(pending[k])'
          <6>1. k = n /\ pending'[k].own /\ preset # None
            BY <4>2, <4>3, <5>1, <5>3 DEF AddInv, OnForm
          <6> QED BY <4>1, <4>2, <6>1 DEF OnForm
        <5> QED BY <5>2, <5>3
      <4>5. \A i, k \in DOMAIN pending' : pending'[i].own /\ pending'[k].own => i = k
        BY <4>2 DEF AddInv
      <4> QED BY <4>1, <4>2, <4>4, <4>5 DEF AddInv
    <3>2. CASE ~pending[n].own
      BY <2>1, <2>2, <3>2, AnswerKeeps DEF Ad!Accept, Ad!Without, AddInv
    <3> QED BY <3>1, <3>2
  <2>3. CASE Ad!Refuse(n)
    BY <2>1, <2>3, AnswerKeeps DEF Ad!Refuse, Ad!Without, Ad!Released, AddInv
  <2>4. ASSUME NEW ok \in BOOLEAN, Ad!Refreshed(n, ok) PROVE AddInv'
    BY <2>1, <2>4, AnswerKeeps DEF Ad!Refreshed, Ad!Without, AddInv
  <2> QED BY <1>7, <2>2, <2>3, <2>4 DEF Ad!Answer
<1> QED BY <1>1, <1>2, <1>3, <1>4, <1>5, <1>6, <1>7 DEF Ad!Next

LEMMA AddInvariance == Ad!Spec => []AddInv
<1>1. Ad!Init => AddInv
  <2> SUFFICES ASSUME Ad!Init PROVE AddInv
    OBVIOUS
  <2>1. pending \in Seq(Submission) /\ DOMAIN pending = {}
    BY DEF Ad!Init
  <2> QED BY <2>1 DEF Ad!Init, AddInv
<1>2. AddInv /\ [Ad!Next]_(Ad!vars) => AddInv'
  BY AddStep
<1> QED BY <1>1, <1>2, PTL DEF Ad!Spec

\* A form adds one asset: while its submission is under way, or after it was accepted, it is
\* not submitted again (add-view.js _submit).
THEOREM FormAddsOnce == Ad!Spec => []Ad!AddsOnce
<1>1. AddInv => Ad!AddsOnce
  <2> SUFFICES ASSUME AddInv PROVE Ad!AddsOnce
    OBVIOUS
  <2> DEFINE H == {n \in DOMAIN pending : pending[n].here}
  <2>1. \A n, k \in H : n = k
    BY DEF AddInv, OnForm
  <2>2. H = {} \/ \E n : H = {n}
    BY <2>1
  <2> HIDE DEF H
  <2>3. Cardinality(H) <= 1
    <3>1. CASE H = {}
      BY <3>1, FS_EmptySet
    <3>2. ASSUME NEW n, H = {n} PROVE Cardinality(H) <= 1
      <4>1. Cardinality({n}) = 1
        BY FS_Singleton
      <4> QED BY <3>2, <4>1
    <3> QED BY <2>2, <3>1, <3>2
  <2>4. Ad!Cardinality(H) = Cardinality(H)
    BY DEF Ad!Cardinality, Cardinality
  <2>5. Ad!AddsOnce = (Ad!Cardinality(H) <= 1)
    BY DEF Ad!AddsOnce, H
  <2> QED BY <2>3, <2>4, <2>5
<1> QED BY <1>1, AddInvariance, PTL

\* What is decided late for a session that is over changes nothing of the current one
\* (add-view.js _submit, willUpdate).
THEOREM SessionUndisturbed == Ad!Spec => Ad!SessionKept
<1>1. AddInv /\ [Ad!Next]_(Ad!vars) =>
        [\A n \in DOMAIN pending :
           ~pending[n].current /\ Ad!Answer(n) => UNCHANGED <<mode, Ad!form>>]_(Ad!vars)
  <2> SUFFICES ASSUME AddInv, NEW n \in DOMAIN pending, ~pending[n].current, Ad!Answer(n)
               PROVE  UNCHANGED <<mode, Ad!form>>
    OBVIOUS
  <2>1. ~pending[n].own /\ sync \in BOOLEAN
    BY DEF AddInv
  <2> QED BY <2>1 DEF Ad!Answer, Ad!Accept, Ad!Refuse, Ad!Refreshed, Ad!form
<1> QED BY <1>1, AddInvariance, PTL DEF Ad!Spec, Ad!SessionKept

-----------------------------------------------------------------------------
(***************************************************************************)
(* RoomInventory: a batch is under way exactly while the workflow says so, *)
(* whatever controllers it has had.                                        *)
(***************************************************************************)

CONSTANTS PresetOrder, Rooms, MaxQuantity, MaxBatches

VARIABLES batches, step, confirmRoom, quantities, retained, saveError, failed

Ro == INSTANCE RoomInventory WITH Presets <- PresetOrder

RoomInv ==
  /\ saving \in BOOLEAN
  /\ pending = IF saving THEN <<pending[1]>> ELSE <<>>
  /\ quantities \in [Ro!PresetSet -> Nat]
  /\ retained \in [Ro!PresetSet -> Seq(BOOLEAN)]

LEMMA Alone ==
  ASSUME NEW b
  PROVE  /\ Append(<<>>, b) = <<b>> /\ Tail(<<b>>) = <<>> /\ <<b>> # <<>>
         /\ Len(<<b>>) = 1 /\ <<b>>[1] = b /\ Head(<<b>>) = b
OBVIOUS

\* The drafts there are stay when their number changes.
LEMMA RetainedKeeps ==
  ASSUME NEW s \in Seq(BOOLEAN), NEW quantity \in Nat
  PROVE  /\ Ro!Retained(s, quantity) \in Seq(BOOLEAN) /\ Len(Ro!Retained(s, quantity)) >= Len(s)
         /\ \A n \in 1..Len(s) : Ro!Retained(s, quantity)[n] = s[n]
<1> DEFINE l == IF quantity > Len(s) THEN quantity ELSE Len(s)
<1>1. Len(s) \in Nat /\ l \in Nat /\ l >= Len(s) /\ \A n \in 1..Len(s) : s[n] \in BOOLEAN
  OBVIOUS
<1>2. Ro!Retained(s, quantity) = [i \in 1..l |-> i <= Len(s) /\ s[i]]
  BY DEF Ro!Retained
<1> HIDE DEF l
<1>3. \A i \in 1..l : (i <= Len(s) /\ s[i]) \in BOOLEAN
  OBVIOUS
<1>4. [i \in 1..l |-> i <= Len(s) /\ s[i]] \in Seq(BOOLEAN)
  BY <1>1, <1>3, IsASeq
<1>5. Len([i \in 1..l |-> i <= Len(s) /\ s[i]]) = l
  BY <1>1
<1>6. \A n \in 1..Len(s) : [i \in 1..l |-> i <= Len(s) /\ s[i]][n] = s[n]
  <2> SUFFICES ASSUME NEW n \in 1..Len(s) PROVE [i \in 1..l |-> i <= Len(s) /\ s[i]][n] = s[n]
    OBVIOUS
  <2>1. n \in 1..l /\ n <= Len(s) /\ s[n] \in BOOLEAN
    BY <1>1
  <2>2. [i \in 1..l |-> i <= Len(s) /\ s[i]][n] = (n <= Len(s) /\ s[n])
    BY <2>1
  <2> QED BY <2>1, <2>2
<1> QED BY <1>1, <1>2, <1>4, <1>5, <1>6

LEMMA MarkKeeps ==
  ASSUME NEW s \in Seq(BOOLEAN), NEW i
  PROVE  /\ [s EXCEPT ![i] = TRUE] \in Seq(BOOLEAN) /\ Len([s EXCEPT ![i] = TRUE]) = Len(s)
         /\ \A n \in 1..Len(s) : s[n] => [s EXCEPT ![i] = TRUE][n]
<1>1. Len(s) \in Nat /\ DOMAIN s = 1..Len(s) /\ \A n \in 1..Len(s) : s[n] \in BOOLEAN
  OBVIOUS
<1>2. [s EXCEPT ![i] = TRUE] = [n \in 1..Len(s) |-> IF n = i THEN TRUE ELSE s[n]]
  BY <1>1
<1>3. \A n \in 1..Len(s) : (IF n = i THEN TRUE ELSE s[n]) \in BOOLEAN
  BY <1>1
<1>4. [n \in 1..Len(s) |-> IF n = i THEN TRUE ELSE s[n]] \in Seq(BOOLEAN)
  <2>1. [n \in 1..Len(s) |-> IF n = i THEN TRUE ELSE s[n]] \in [1..Len(s) -> BOOLEAN]
    BY <1>3, Zenon
  <2> DEFINE f == [n \in 1..Len(s) |-> IF n = i THEN TRUE ELSE s[n]]
  <2> HIDE DEF f
  <2>2. f \in [1..Len(s) -> BOOLEAN] => f \in Seq(BOOLEAN)
    BY <1>1
  <2> QED BY <2>1, <2>2 DEF f
<1>5. Len([n \in 1..Len(s) |-> IF n = i THEN TRUE ELSE s[n]]) = Len(s)
  BY <1>1
<1> QED BY <1>2, <1>4, <1>5

LEMMA NoDraftsLeft ==
  ASSUME Ro!EmptyDrafts
  PROVE  quantities' \in [Ro!PresetSet -> Nat] /\ retained' \in [Ro!PresetSet -> Seq(BOOLEAN)]
<1>1. 0 \in Nat /\ <<>> \in Seq(BOOLEAN)
  OBVIOUS
<1> QED BY <1>1 DEF Ro!EmptyDrafts

\* What a step does to the drafts: no more than a change of quantity, an edit, or all of them.
LEMMA RoomDraftStep == ASSUME RoomInv, [Ro!Next]_(Ro!vars) PROVE RoomInv'
<1> USE DEF Ro!drafts, Ro!workflow
<1>1. ASSUME \/ \E r \in Rooms \cup {None} : Ro!SelectRoom(r)
             \/ Ro!Continue \/ Ro!Review \/ Ro!BackToQuantities \/ Ro!AddMore
             \/ Ro!RequestRoomChange \/ Ro!Stay \/ UNCHANGED Ro!vars
      PROVE  RoomInv'
  <2>1. UNCHANGED <<pending, saving, quantities, retained>>
    BY <1>1 DEF Ro!SelectRoom, Ro!Continue, Ro!Review, Ro!BackToQuantities, Ro!AddMore, Ro!RequestRoomChange,
                Ro!Stay, Ro!vars
  <2> QED BY <2>1 DEF RoomInv
<1>2. ASSUME NEW p \in Ro!PresetSet, NEW delta \in {-1, 1}, Ro!ChangeQuantity(p, delta) PROVE RoomInv'
  <2>1. /\ quantities' = [quantities EXCEPT ![p] = @ + delta]
        /\ retained' = [retained EXCEPT ![p] = Ro!Retained(@, quantities[p] + delta)]
        /\ quantities[p] + delta \in 0..MaxQuantity
        /\ UNCHANGED <<pending, saving>>
    BY <1>2 DEF Ro!ChangeQuantity
  <2>2. quantities[p] \in Nat /\ retained[p] \in Seq(BOOLEAN)
    BY DEF RoomInv
  <2>3. quantities[p] + delta \in Nat
    BY <2>1, <2>2
  <2>4. Ro!Retained(retained[p], quantities[p] + delta) \in Seq(BOOLEAN)
    BY <2>2, <2>3, RetainedKeeps
  <2> QED BY <2>1, <2>3, <2>4 DEF RoomInv
<1>3. ASSUME NEW n, Ro!UpdateDraft(n) PROVE RoomInv'
  <2>1. PICK k : /\ retained' = [retained EXCEPT ![k[1]][k[2]] = TRUE]
                 /\ UNCHANGED <<pending, saving, quantities>>
    BY <1>3 DEF Ro!UpdateDraft
  <2>2. ASSUME NEW s \in Seq(BOOLEAN), NEW i PROVE [s EXCEPT ![i] = TRUE] \in Seq(BOOLEAN)
    BY MarkKeeps
  <2>3. retained' \in [Ro!PresetSet -> Seq(BOOLEAN)]
    BY <2>1, <2>2 DEF RoomInv
  <2> QED BY <2>1, <2>3 DEF RoomInv
<1>4. CASE Ro!Save
  <2> DEFINE m == [stage |-> "create", drafts |-> Ro!Active, area |-> area, current |-> TRUE]
  <2>1. /\ ~saving /\ UNCHANGED <<quantities, retained>>
        /\ \/ saving' = FALSE /\ pending' = pending
           \/ saving' = TRUE /\ pending' = Append(pending, m)
    BY <1>4 DEF Ro!Save, Ro!CanSave
  <2> HIDE DEF m
  <2>2. pending = <<>> /\ saving \in BOOLEAN
    BY <2>1 DEF RoomInv
  <2>3. CASE saving' = FALSE /\ pending' = pending
    BY <2>1, <2>2, <2>3 DEF RoomInv
  <2>4. CASE saving' = TRUE /\ pending' = Append(pending, m)
    <3>1. pending' = <<m>> /\ pending'[1] = m
      BY <2>2, <2>4, Alone
    <3> QED BY <2>1, <2>4, <3>1 DEF RoomInv
  <2> QED BY <2>1, <2>3, <2>4
<1>5. CASE Ro!Discard
  <2>1. UNCHANGED <<pending, saving>> /\ Ro!EmptyDrafts
    BY <1>5 DEF Ro!Discard
  <2> QED BY <2>1, NoDraftsLeft DEF RoomInv
<1>6. CASE Ro!ChangeLanguage \/ Ro!ChangeHass
  <2>1. /\ pending' = [n \in DOMAIN pending |-> [pending[n] EXCEPT !.current = FALSE]] /\ saving' = saving
        /\ Ro!EmptyDrafts \/ UNCHANGED <<quantities, retained>>
    BY <1>6 DEF Ro!ChangeLanguage, Ro!ChangeHass, Ro!NewController, Ro!Regenerate
  <2>2. quantities' \in [Ro!PresetSet -> Nat] /\ retained' \in [Ro!PresetSet -> Seq(BOOLEAN)]
    BY <2>1, NoDraftsLeft DEF RoomInv
  <2>3. CASE saving
    <3> DEFINE m == [pending[1] EXCEPT !.current = FALSE]
    <3>1. DOMAIN pending = 1..1
      <4>1. pending = <<pending[1]>> BY <2>3 DEF RoomInv
      <4>2. DOMAIN <<pending[1]>> = 1..1 OBVIOUS
      <4> QED BY <4>1, <4>2, Zenon
    <3>2. pending' = [n \in 1..1 |-> m]
      BY <2>1, <3>1
    <3> HIDE DEF m
    <3>3. [n \in 1..1 |-> m] = <<m>>
      OBVIOUS
    <3>4. pending' = <<m>> /\ pending'[1] = m
      BY <3>2, <3>3, Alone
    <3> QED BY <2>1, <2>2, <2>3, <3>4 DEF RoomInv
  <2>4. CASE ~saving
    <3>1. pending = <<>>
      BY <2>4 DEF RoomInv
    <3>2. pending' = <<>>
      BY <2>1, <3>1
    <3> QED BY <2>1, <2>2, <2>4, <3>2 DEF RoomInv
  <2> QED BY <2>3, <2>4
<1>7. CASE Ro!Accept
  <2> DEFINE m == [Head(pending) EXCEPT !.stage = "list"]
  <2>1. /\ pending # <<>> /\ UNCHANGED <<saving, quantities, retained>>
        /\ pending' = Append(Tail(pending), m)
    BY <1>7 DEF Ro!Accept, Ro!drafts, Ro!workflow
  <2> HIDE DEF m
  <2>2. saving /\ pending = <<pending[1]>>
    BY <2>1 DEF RoomInv
  <2>3. Tail(pending) = <<>>
    BY <2>2, Alone, Zenon
  <2>4. pending' = <<m>> /\ pending'[1] = m
    BY <2>1, <2>3, Alone
  <2> QED BY <2>1, <2>2, <2>4 DEF RoomInv
<1>8. ASSUME NEW n, Ro!Refuse(n) PROVE RoomInv'
  <2>1. pending # <<>> /\ saving' = FALSE /\ pending' = Tail(pending) /\ UNCHANGED <<quantities, retained>>
    BY <1>8 DEF Ro!Refuse, Ro!Released, Ro!drafts
  <2>2. saving /\ pending = <<pending[1]>>
    BY <2>1 DEF RoomInv
  <2>3. Tail(pending) = <<>>
    BY <2>2, Alone, Zenon
  <2> QED BY <2>1, <2>3 DEF RoomInv
<1>9. CASE Ro!Finish
  <2>1. pending # <<>> /\ saving' = FALSE /\ pending' = Tail(pending) /\ Ro!EmptyDrafts
    BY <1>9 DEF Ro!Finish
  <2>2. saving /\ pending = <<pending[1]>>
    BY <2>1 DEF RoomInv
  <2>3. Tail(pending) = <<>>
    BY <2>2, Alone, Zenon
  <2> QED BY <2>1, <2>3, NoDraftsLeft DEF RoomInv
<1>10. CASE Ro!ChangePresets
  <2>1. /\ UNCHANGED <<pending, saving>>
        /\ Ro!EmptyDrafts \/ UNCHANGED <<quantities, retained>>
    BY <1>10 DEF Ro!ChangePresets, Ro!Regenerate
  <2>2. quantities' \in [Ro!PresetSet -> Nat] /\ retained' \in [Ro!PresetSet -> Seq(BOOLEAN)]
    BY <2>1, NoDraftsLeft DEF RoomInv
  <2>3. saving \in BOOLEAN /\ pending = (IF saving THEN <<pending[1]>> ELSE <<>>)
    BY DEF RoomInv
  <2>4. saving' \in BOOLEAN /\ pending' = (IF saving' THEN <<pending'[1]>> ELSE <<>>)
    BY ONLY <2>1, <2>3
  <2> QED BY ONLY <2>2, <2>4 DEF RoomInv
<1> QED BY <1>1, <1>2, <1>3, <1>4, <1>5, <1>6, <1>7, <1>8, <1>9, <1>10 DEF Ro!Next

LEMMA RoomInvariance == Ro!Spec => []RoomInv
<1>1. Ro!Init => RoomInv
  <2>1. 0 \in Nat /\ <<>> \in Seq(BOOLEAN)
    OBVIOUS
  <2> QED BY <2>1 DEF Ro!Init, RoomInv
<1>2. RoomInv /\ [Ro!Next]_(Ro!vars) => RoomInv'
  BY RoomDraftStep
<1> QED BY <1>1, <1>2, PTL DEF Ro!Spec

\* One batch is under way at a time, although every change of Home Assistant gives the
\* workflow a controller that knows of no save (inventory-workflow.js _save, willUpdate).
THEOREM OneBatchAtATime == Ro!Spec => []Ro!OneBatch
<1>1. RoomInv => Ro!OneBatch
  <2> SUFFICES ASSUME RoomInv PROVE Len(pending) <= 1
    BY DEF Ro!OneBatch
  <2>1. CASE saving
    <3>1. pending = <<pending[1]>>
      BY <2>1 DEF RoomInv
    <3>2. Len(pending) = 1
      BY <3>1, Alone, Zenon
    <3> QED BY <3>2
  <2>2. CASE ~saving
    BY <2>2 DEF RoomInv
  <2> QED BY <2>1, <2>2
<1> QED BY <1>1, RoomInvariance, PTL

\* A draft's edits survive every change of quantities; they are lost when a batch is accepted,
\* when the user discards the drafts, and when no draft is counted and the workflow is given
\* other presets or texts (draft-state.js setPresetQuantity, inventory-workflow.js willUpdate).
THEOREM EditsStay == Ro!Spec => Ro!EditsKept
<1> USE DEF Ro!drafts, Ro!workflow
<1>1. ASSUME RoomInv, Ro!Next, NEW p \in Ro!PresetSet, NEW i \in Ro!Numbers, i <= Len(retained[p]), retained[p][i]
      PROVE  \/ i <= Len(retained'[p]) /\ retained'[p][i]
             \/ Ro!Discard \/ Ro!Finish \/ (Ro!Active = <<>> /\ Ro!Given)
  <2>1. /\ retained[p] \in Seq(BOOLEAN) /\ i \in 1..Len(retained[p])
        /\ retained \in [Ro!PresetSet -> Seq(BOOLEAN)]
    BY <1>1 DEF RoomInv, Ro!Numbers
  <2>2. CASE retained' = retained
    BY <1>1, <2>2
  <2>3. CASE Ro!ChangeLanguage \/ Ro!ChangePresets
    <3>1. retained' = retained \/ Ro!Active = <<>>
      BY <2>3 DEF Ro!ChangeLanguage, Ro!ChangePresets, Ro!Regenerate, Ro!NothingActive
    <3> QED BY <1>1, <2>3, <3>1 DEF Ro!Given
  <2>4. CASE Ro!Discard \/ Ro!Finish
    BY <2>4
  <2>5. ASSUME NEW q \in Ro!PresetSet, NEW delta \in {-1, 1}, Ro!ChangeQuantity(q, delta)
        PROVE  i <= Len(retained'[p]) /\ retained'[p][i]
    <3>1. /\ retained' = [retained EXCEPT ![q] = Ro!Retained(@, quantities[q] + delta)]
          /\ quantities[q] + delta \in 0..MaxQuantity
      BY <2>5 DEF Ro!ChangeQuantity
    <3>2. quantities[q] + delta \in Nat
      BY <1>1, <3>1 DEF RoomInv
    <3>3. CASE q = p
      <4>1. /\ Ro!Retained(retained[p], quantities[p] + delta) \in Seq(BOOLEAN)
            /\ Len(Ro!Retained(retained[p], quantities[p] + delta)) >= Len(retained[p])
            /\ Ro!Retained(retained[p], quantities[p] + delta)[i] = retained[p][i]
        BY <2>1, <3>2, <3>3, RetainedKeeps
      <4>2. retained'[p] = Ro!Retained(retained[p], quantities[p] + delta)
        BY <2>1, <3>1, <3>3
      <4>3. /\ Len(retained'[p]) \in Nat /\ Len(retained'[p]) >= Len(retained[p])
            /\ retained'[p][i] = retained[p][i]
        BY <4>1, <4>2, LenProperties
      <4>4. Len(retained[p]) \in Nat /\ i \in Nat /\ i <= Len(retained[p])
        BY <2>1
      <4> QED BY <1>1, <4>3, <4>4
    <3>4. CASE q # p
      BY <1>1, <2>1, <3>1, <3>4
    <3> QED BY <3>3, <3>4
  <2>6. ASSUME NEW n, Ro!UpdateDraft(n) PROVE i <= Len(retained'[p]) /\ retained'[p][i]
    <3>1. PICK k : retained' = [retained EXCEPT ![k[1]][k[2]] = TRUE]
      BY <2>6 DEF Ro!UpdateDraft
    <3>2. retained'[p] = retained[p] \/ retained'[p] = [retained[p] EXCEPT ![k[2]] = TRUE]
      BY <2>1, <3>1
    <3> DEFINE s == [retained[p] EXCEPT ![k[2]] = TRUE]
    <3>3. Len(s) = Len(retained[p]) /\ s[i]
      BY <1>1, <2>1, MarkKeeps
    <3> HIDE DEF s
    <3> QED BY <1>1, <2>1, <3>2, <3>3 DEF s
  <2> QED BY <1>1, <2>2, <2>3, <2>4, <2>5, <2>6
       DEF Ro!Next, Ro!SelectRoom, Ro!Continue, Ro!Review, Ro!BackToQuantities, Ro!AddMore, Ro!Save,
           Ro!RequestRoomChange, Ro!Stay, Ro!Accept, Ro!Refuse, Ro!ChangeHass
<1>2. RoomInv /\ [Ro!Next]_(Ro!vars) => [Ro!EditsStay]_(Ro!vars)
  <2> SUFFICES ASSUME RoomInv, Ro!Next, NEW k \in Ro!Edited
               PROVE  k \in Ro!Edited' \/ Ro!Discard \/ Ro!Finish \/ (Ro!Active = <<>> /\ Ro!Given)
    BY DEF Ro!EditsStay
  <2>1. k \in Ro!Keys /\ k[2] <= Len(retained[k[1]]) /\ retained[k[1]][k[2]]
    BY DEF Ro!Edited
  <2>2. k[1] \in Ro!PresetSet /\ k[2] \in Ro!Numbers
    BY <2>1 DEF Ro!Keys
  <2>3. \/ k[2] <= Len(retained'[k[1]]) /\ retained'[k[1]][k[2]]
        \/ Ro!Discard \/ Ro!Finish \/ (Ro!Active = <<>> /\ Ro!Given)
    BY <1>1, <2>1, <2>2
  <2> QED BY <2>1, <2>3 DEF Ro!Edited, Ro!Keys, Ro!PresetSet, Ro!Numbers
<1> QED BY <1>2, RoomInvariance, PTL DEF Ro!Spec, Ro!EditsKept

-----------------------------------------------------------------------------
(***************************************************************************)
(* ImportReview: one request is under way at most, a discovery while the   *)
(* page loads and the batch of the review on show while it saves.          *)
(***************************************************************************)

CONSTANTS Proposals, AreaOf, MaxChanges

VARIABLES boundTo, available, changes, review, shownAssets

Im == INSTANCE ImportReview WITH toServer <- requests, toPanel <- answers

\* What was found and Home Assistant has kept as it was is there to be found.
FoundAt(found, s, when) ==
  when \in Nat /\ when <= changes /\ (when = changes => found \subseteq Im!Discovered(s))

Reviewed ==
  /\ review \in Im!Reviews /\ review.revision <= revision
  /\ FoundAt(DOMAIN review.decisions, review.scope, review.changes)

\* A request is of the page as it is.
Asks(m) ==
  \/ loading /\ m.type = "discover" /\ m.scope \in Im!Scopes
  \/ /\ saving /\ m.type = "commit"
     /\ m.revision = review.revision /\ m.scope = review.scope /\ m.changes = review.changes
     /\ DOMAIN m.decisions = DOMAIN review.decisions

Answers(m) ==
  \/ m.type = "error"
  \/ saving /\ m.type = "committed"
  \/ /\ loading /\ m.type = "proposals" /\ m.scope \in Im!Scopes /\ m.found \subseteq Proposals
     /\ m.revision \in Nat /\ m.revision <= revision /\ FoundAt(m.found, m.scope, m.changes)

UnderWay ==
  IF loading \/ saving
  THEN \/ requests = <<requests[1]>> /\ answers = <<>> /\ Asks(requests[1])
       \/ requests = <<>> /\ answers = <<answers[1]>> /\ Answers(answers[1])
  ELSE requests = <<>> /\ answers = <<>>

PageInv ==
  /\ revision \in Nat /\ changes \in Nat /\ available \subseteq Proposals /\ scope \in Im!Scopes
  /\ loading => review = None /\ ~success /\ ~saving
  /\ saving => review # None /\ ~success
  /\ review # None => Reviewed
  /\ committed => review # None /\ review.revision < revision

ImportInv == PageInv /\ UnderWay

\* Commits and changes in Home Assistant leave what was found or reviewed of the past.
LEMMA RegistryMoves ==
  ASSUME PageInv, revision' \in Nat, changes' \in Nat, revision' >= revision,
         \/ changes' = changes /\ available' = available
         \/ changes' = changes + 1,
         available' \subseteq Proposals, scope' \in Im!Scopes,
         UNCHANGED <<loading, saving, success, review>>
  PROVE  /\ review' # None => Reviewed'
         /\ \A m : Asks(m) => Asks(m)'
         /\ \A m : Answers(m) => Answers(m)'
         /\ committed' = committed => PageInv'
<1>1. ASSUME NEW found, NEW s, NEW when, FoundAt(found, s, when) PROVE FoundAt(found, s, when)'
  BY <1>1 DEF FoundAt, PageInv, Im!Discovered, Im!MatchesScope
<1>2. review' # None => Reviewed'
  BY <1>1 DEF PageInv, Reviewed, Im!Reviews
<1>3. \A m : Asks(m) => Asks(m)'
  BY DEF Asks
<1>4. ASSUME NEW m, Answers(m) PROVE Answers(m)'
  BY <1>1, <1>4 DEF Answers, PageInv
<1>5. committed' = committed => PageInv'
  <2>1. review # None => review.revision \in Nat
    BY DEF PageInv, Reviewed, Im!Reviews
  <2> QED BY <1>2, <2>1 DEF PageInv
<1> QED BY <1>2, <1>3, <1>4, <1>5

\* The server answers the one request there is.
LEMMA ServedAlone ==
  ASSUME ImportInv, Im!Serve
  PROVE  /\ loading \/ saving
         /\ requests = <<requests[1]>> /\ answers = <<>> /\ Head(requests) = requests[1]
         /\ requests' = <<>> /\ Asks(requests[1])
         /\ UNCHANGED <<available, changes, scope, review, loading, saving, error, success>>
<1>1. /\ requests # <<>> /\ requests' = Tail(requests)
      /\ UNCHANGED <<available, changes, scope, review, loading, saving, error, success>>
  BY DEF Im!Serve, Im!ha, Im!page
<1>2. (loading \/ saving) /\ requests = <<requests[1]>> /\ answers = <<>> /\ Asks(requests[1])
  BY <1>1 DEF ImportInv, UnderWay
<1>3. Head(requests) = requests[1] /\ Tail(requests) = <<>>
  BY <1>2, Alone, Zenon
<1> QED BY <1>1, <1>2, <1>3

LEMMA Unanswered ==
  ASSUME NEW m, answers = <<>>, answers' = Append(answers, m)
  PROVE  answers' = <<m>> /\ answers'[1] = m /\ Len(answers') = 1 /\ answers' # <<>>
BY Alone

LEMMA ImportServes == ASSUME ImportInv, Im!Serve PROVE ImportInv'
<1>m. PICK m : m = requests[1]
  OBVIOUS
<1>0. PageInv /\ revision \in Nat /\ changes \in Nat /\ available \subseteq Proposals /\ scope \in Im!Scopes
  BY DEF ImportInv, PageInv
<1>1. /\ loading \/ saving
      /\ answers = <<>> /\ requests' = <<>> /\ Asks(m)
      /\ UNCHANGED <<available, changes, scope, review, loading, saving, success>>
      /\ Im!ServeDiscover(m) \/ Im!ServeCommit(m)
  BY <1>m, ServedAlone DEF Im!Serve
<1>2. ASSUME NEW a, answers' = Append(answers, a), Answers(a)', PageInv' PROVE ImportInv'
  <2>1. answers' = <<a>> /\ answers'[1] = a
    BY <1>1, <1>2, Unanswered
  <2> QED BY <1>1, <1>2, <2>1 DEF ImportInv, UnderWay
<1>3. CASE Im!ServeDiscover(m)
  <2>0. PICK a : a = [type |-> "proposals", scope |-> m.scope, found |-> Im!Discovered(m.scope),
                      revision |-> revision, changes |-> changes]
    OBVIOUS
  <2>1. answers' = Append(answers, a) /\ UNCHANGED <<revision, committed>> /\ m.type = "discover"
    BY <1>3, <2>0 DEF Im!ServeDiscover, Im!Answer, Im!registry
  <2>2. loading /\ m.scope \in Im!Scopes
    BY <1>1, <2>1 DEF Asks
  <2>3. Answers(a)
    BY <1>0, <2>0, <2>2 DEF Answers, FoundAt, Im!Discovered
  <2>4. available' \subseteq Proposals /\ scope' \in Im!Scopes
    BY <1>0, <1>1
  <2>5. \A x : Answers(x) => Answers(x)'
    BY <1>0, <1>1, <2>1, <2>4, RegistryMoves
  <2>6. Answers(a)' /\ PageInv'
    BY <1>0, <1>1, <2>1, <2>3, <2>4, <2>5, RegistryMoves
  <2> QED BY <1>2, <2>1, <2>6
<1>4. ASSUME NEW why, Im!Refuse(why) PROVE ImportInv'
  <2>0. PICK a : a = [type |-> "error", why |-> why]
    OBVIOUS
  <2>1. answers' = Append(answers, a) /\ UNCHANGED <<revision, committed>>
    BY <1>4, <2>0 DEF Im!Refuse, Im!Answer, Im!registry
  <2>2. Answers(a)'
    BY <2>0 DEF Answers
  <2>3. PageInv'
    BY <1>0, <1>1, <2>1, RegistryMoves
  <2> QED BY <1>2, <2>1, <2>2, <2>3
<1>5. CASE m.type = "commit" /\ Im!CommitBatch(m)
  <2>0. PICK a : a = [type |-> "committed"]
    OBVIOUS
  <2>1. /\ answers' = Append(answers, a)
        /\ \/ UNCHANGED <<revision, committed>>
           \/ revision' = revision + 1 /\ committed' = TRUE
    BY <1>5, <2>0 DEF Im!CommitBatch, Im!Answer, Im!registry
  <2>2. saving /\ review # None
    BY <1>0, <1>1, <1>5 DEF Asks, PageInv
  <2>3. Answers(a)'
    BY <1>1, <2>0, <2>2 DEF Answers
  <2>4. revision' \in Nat /\ revision' >= revision
    BY <1>0, <2>1
  <2>5. (review' # None => Reviewed') /\ (committed' = committed => PageInv')
    BY <1>0, <1>1, <2>4, RegistryMoves
  <2>6. revision' = revision + 1 => review.revision < revision'
    BY <1>0, <2>2 DEF PageInv, Reviewed, Im!Reviews
  <2>7. PageInv'
    BY <1>0, <1>1, <2>1, <2>2, <2>4, <2>5, <2>6 DEF PageInv
  <2> QED BY <1>2, <2>1, <2>3, <2>7
<1> QED BY <1>1, <1>3, <1>4, <1>5 DEF Im!ServeCommit

LEMMA ImportReceives == ASSUME ImportInv, Im!Receive PROVE ImportInv'
<1>m. PICK m : m = Head(answers)
  OBVIOUS
<1>1. /\ answers # <<>> /\ answers' = Tail(answers)
      /\ UNCHANGED <<revision, available, changes, requests, scope, committed>>
      /\ Im!ReceiveProposals(m) \/ Im!ReceiveCommitted(m) \/ Im!ReceiveError(m)
  BY <1>m DEF Im!Receive, Im!registry, Im!ha
<1>2. (loading \/ saving) /\ requests = <<>> /\ answers = <<answers[1]>> /\ Answers(answers[1])
  BY <1>1 DEF ImportInv, UnderWay
<1>3. m = answers[1] /\ Tail(answers) = <<>>
  BY <1>m, <1>2, Alone, Zenon
<1>4. requests' = <<>> /\ answers' = <<>> /\ Answers(m) /\ PageInv
  BY <1>1, <1>2, <1>3 DEF ImportInv
<1>5. CASE Im!ReceiveProposals(m)
  <2>1. /\ m.type = "proposals" /\ UNCHANGED <<saving, success>> /\ loading' = FALSE
        /\ review' = [revision |-> m.revision, scope |-> m.scope, changes |-> m.changes,
                      decisions |-> [p \in m.found |-> Im!Undecided]]
    BY <1>5 DEF Im!ReceiveProposals, Im!Released
  <2>2. /\ loading /\ m.revision \in Nat /\ m.revision <= revision /\ FoundAt(m.found, m.scope, m.changes)
        /\ m.scope \in Im!Scopes /\ m.found \subseteq Proposals
    BY <1>4, <2>1 DEF Answers
  <2>3. ~saving /\ ~committed
    BY <1>4, <2>2 DEF PageInv
  <2>4. Reviewed'
    <3>1. Im!Undecided \in Im!Decision
      BY DEF Im!Undecided, Im!Decision
    <3>2. [p \in m.found |-> Im!Undecided] \in [m.found -> Im!Decision]
      BY <3>1
    <3>3. /\ review' \in Im!Reviews /\ review'.revision = m.revision /\ review'.scope = m.scope
          /\ review'.changes = m.changes /\ DOMAIN review'.decisions = m.found
      BY <2>1, <2>2, <3>2 DEF Im!Reviews, FoundAt
    <3> QED BY <1>1, <2>2, <3>3 DEF Reviewed, FoundAt, Im!Discovered, Im!MatchesScope
  <2> QED BY <1>1, <1>4, <2>1, <2>3, <2>4 DEF ImportInv, PageInv, UnderWay
<1>6. CASE Im!ReceiveCommitted(m)
  <2>1. m.type = "committed" /\ UNCHANGED <<review, loading>> /\ saving' = FALSE
    BY <1>6 DEF Im!ReceiveCommitted, Im!Released
  <2>2. ~loading
    BY <1>4, <2>1 DEF Answers, PageInv
  <2>3. review' # None => Reviewed'
    BY <1>1, <1>4, <2>1 DEF PageInv, Reviewed, FoundAt, Im!Discovered, Im!MatchesScope
  <2> QED BY <1>1, <1>4, <2>1, <2>2, <2>3 DEF ImportInv, PageInv, UnderWay
<1>7. CASE Im!ReceiveError(m)
  <2>1. UNCHANGED <<review, success>> /\ loading' = FALSE /\ saving' = FALSE
    BY <1>7 DEF Im!ReceiveError, Im!Released
  <2>2. review' # None => Reviewed'
    BY <1>1, <1>4, <2>1 DEF PageInv, Reviewed, FoundAt, Im!Discovered, Im!MatchesScope
  <2> QED BY <1>1, <1>4, <2>1, <2>2 DEF ImportInv, PageInv, UnderWay
<1> QED BY <1>1, <1>5, <1>6, <1>7

LEMMA ImportStep == ASSUME Im!ImportAssumption, ImportInv, [Im!Next]_(Im!vars) PROVE ImportInv'
<1> USE DEF Im!registry, Im!ha, Im!socket, Im!page
<1>0. PageInv /\ UnderWay /\ revision \in Nat /\ changes \in Nat
  BY DEF ImportInv, PageInv
<1>1. ASSUME revision' \in Nat, revision' >= revision, changes' \in Nat,
             available' \subseteq Proposals, scope' \in Im!Scopes,
             \/ changes' = changes /\ available' = available
             \/ changes' = changes + 1,
             UNCHANGED <<requests, answers, loading, saving, success, review, committed>>
      PROVE  ImportInv'
  BY <1>0, <1>1, RegistryMoves DEF ImportInv, UnderWay
<1>2. ASSUME NEW p, NEW d, Im!UpdateReview(p, d), review.decisions[p] \in Im!Decision => d \in Im!Decision
      PROVE  ImportInv'
  <2>1. /\ UNCHANGED <<revision, available, changes, requests, answers, scope, loading, saving, success,
                       committed>>
        /\ review # None /\ p \in DOMAIN review.decisions
        /\ review' = [review EXCEPT !.decisions[p] = d]
    BY <1>2 DEF Im!UpdateReview, Im!ReviewShown
  <2>2. Reviewed
    BY <1>0, <2>1 DEF PageInv
  <2> DEFINE decisions == [review.decisions EXCEPT ![p] = d]
  <2>3. PICK S \in SUBSET Proposals : review.decisions \in [S -> Im!Decision]
    BY <2>2 DEF Reviewed, Im!Reviews
  <2>4. decisions \in [S -> Im!Decision] /\ DOMAIN decisions = DOMAIN review.decisions
    BY <1>2, <2>1, <2>3
  <2>5. review' = [review EXCEPT !.decisions = decisions]
    BY <2>1
  <2> HIDE DEF decisions
  <2>6. /\ review' \in Im!Reviews
        /\ review'.revision = review.revision /\ review'.scope = review.scope
        /\ review'.changes = review.changes /\ DOMAIN review'.decisions = DOMAIN review.decisions
    BY <2>2, <2>4, <2>5 DEF Reviewed, Im!Reviews
  <2>7. Reviewed' /\ review' # None
    BY <2>1, <2>2, <2>6 DEF Reviewed, FoundAt, Im!Discovered, Im!MatchesScope, Im!ImportAssumption
  <2>8. ASSUME NEW m PROVE (Asks(m) => Asks(m)') /\ (Answers(m) => Answers(m)')
    BY <2>1, <2>6 DEF Asks, Answers, FoundAt, Im!Discovered, Im!MatchesScope
  <2>9. PageInv'
    BY <1>0, <2>1, <2>6, <2>7 DEF PageInv
  <2> QED BY <1>0, <2>1, <2>8, <2>9 DEF ImportInv, UnderWay
<1>3. CASE Im!OtherCommit \/ Im!HomeAssistantChanges \/ Im!Refreshed \/ (\E s \in Im!Scopes : Im!ChooseScope(s))
           \/ UNCHANGED Im!vars
  <2>1. /\ UNCHANGED <<requests, answers, loading, saving, success, review, committed>>
        /\ revision' = revision \/ revision' = revision + 1
        /\ \/ changes' = changes /\ available' = available
           \/ changes' = changes + 1
        /\ available' \subseteq Proposals /\ scope' \in Im!Scopes
    BY <1>0, <1>3 DEF PageInv, Im!OtherCommit, Im!HomeAssistantChanges, Im!Refreshed, Im!ChooseScope, Im!vars
  <2> QED BY <1>0, <1>1, <2>1
<1>4. CASE Im!ConnectionLost
  <2>0. PICK e : e = [type |-> "error", why |-> "lost"]
    OBVIOUS
  <2>1. /\ loading \/ saving
        /\ changes' = changes + 1 /\ requests' = <<>> /\ answers' = <<e>>
        /\ UNCHANGED <<revision, available, scope, loading, saving, success, review, committed>>
    BY <1>4, <2>0 DEF Im!ConnectionLost
  <2>2. PageInv'
    <3>1. available' \subseteq Proposals /\ scope' \in Im!Scopes
      BY <1>0, <2>1 DEF PageInv
    <3> QED BY <1>0, <2>1, <3>1, RegistryMoves
  <2>3. Answers(e)'
    BY <2>0 DEF Answers
  <2>4. answers'[1] = e
    BY <2>1, Alone
  <2> QED BY <2>1, <2>2, <2>3, <2>4 DEF ImportInv, UnderWay
<1>5. CASE Im!Discover
  <2>0. PICK m : m = [type |-> "discover", scope |-> scope]
    OBVIOUS
  <2>1. /\ review = None /\ ~success /\ ~loading /\ loading' = TRUE
        /\ requests' = Append(requests, m)
        /\ UNCHANGED <<revision, available, changes, answers, scope, saving, success, review, committed>>
    BY <1>5, <2>0 DEF Im!Discover, Im!ScopeShown, Im!Send
  <2>2. m.type = "discover" /\ m.scope = scope
    BY <2>0
  <2>3. ~saving /\ requests = <<>> /\ answers = <<>>
    BY <1>0, <2>1 DEF PageInv, UnderWay
  <2>4. requests' = <<m>> /\ requests'[1] = m
    BY <2>1, <2>3, Alone
  <2>5. scope \in Im!Scopes /\ Im!Scopes' = Im!Scopes
    BY <1>0 DEF PageInv, Im!Scopes
  <2>6. Asks(m)'
    BY <2>1, <2>2, <2>5 DEF Asks
  <2>7. UnderWay'
    BY <2>1, <2>3, <2>4, <2>6 DEF UnderWay
  <2> QED BY <1>0, <2>1, <2>3, <2>5, <2>7 DEF ImportInv, PageInv
<1>6. CASE Im!Commit
  <2>0. PICK m : m = [type |-> "commit", scope |-> review.scope, revision |-> review.revision,
                      decisions |-> review.decisions, changes |-> review.changes]
    OBVIOUS
  <2>1. /\ review # None /\ ~success /\ ~saving /\ saving' = TRUE
        /\ requests' = Append(requests, m)
        /\ UNCHANGED <<revision, available, changes, answers, scope, loading, success, review, committed>>
    BY <1>6, <2>0 DEF Im!Commit, Im!ReviewShown, Im!Send, Im!BatchScope
  <2>2. Asks(m)'
    BY <2>0, <2>1 DEF Asks
  <2>3. ~loading /\ requests = <<>> /\ answers = <<>>
    BY <1>0, <2>1 DEF PageInv, UnderWay
  <2>4. requests' = <<m>> /\ requests'[1] = m
    BY <2>1, <2>3, Alone
  <2>5. Reviewed'
    BY <1>0, <2>1 DEF PageInv, Reviewed, FoundAt, Im!Discovered, Im!MatchesScope
  <2>6. UnderWay'
    BY <2>1, <2>2, <2>3, <2>4 DEF UnderWay
  <2> QED BY <1>0, <2>1, <2>3, <2>5, <2>6 DEF ImportInv, PageInv
<1>7. CASE Im!StartOver
  <2>1. /\ success \/ ~saving
        /\ review' = None /\ success' = FALSE /\ committed' = FALSE
        /\ UNCHANGED <<revision, available, changes, requests, answers, scope, loading, saving>>
    BY <1>7 DEF Im!StartOver
  <2>2. ~saving
    BY <1>0, <2>1 DEF PageInv
  <2>3. ASSUME loading, NEW m PROVE (Asks(m) => Asks(m)') /\ (Answers(m) => Answers(m)')
    BY <2>1, <2>2, <2>3 DEF Asks, Answers, FoundAt, Im!Discovered, Im!MatchesScope
  <2> QED BY <1>0, <2>1, <2>2, <2>3 DEF ImportInv, PageInv, UnderWay
<1>8. ASSUME NEW p, \/ \E action \in Im!Actions : Im!SetAction(p, action)
                    \/ Im!SetMergeTarget(p) \/ Im!UpdateAsset(p) \/ Im!ToggleBinding(p)
      PROVE  ImportInv'
  <2> DEFINE d == review.decisions[p]
             acted(action) == [d EXCEPT !.action = action,
                                        !.target = IF action = "merge" THEN @ ELSE None]
  <2>1. ASSUME NEW action \in Im!Actions, Im!SetAction(p, action) PROVE ImportInv'
    <3>1. d \in Im!Decision => acted(action) \in Im!Decision
      BY DEF Im!Decision
    <3> QED BY <1>2, <2>1, <3>1 DEF Im!SetAction
  <2>2. CASE Im!SetMergeTarget(p)
    <3>1. PICK a \in Assets \cup {None} : Im!UpdateReview(p, [d EXCEPT !.target = a])
      BY <2>2 DEF Im!SetMergeTarget
    <3>2. d \in Im!Decision => [d EXCEPT !.target = a] \in Im!Decision
      BY DEF Im!Decision
    <3> QED BY <1>2, <3>1, <3>2
  <2>3. CASE Im!UpdateAsset(p)
    <3>1. d \in Im!Decision => [d EXCEPT !.named = ~@] \in Im!Decision
      BY DEF Im!Decision
    <3> QED BY <1>2, <2>3, <3>1 DEF Im!UpdateAsset
  <2>4. CASE Im!ToggleBinding(p)
    <3>1. d \in Im!Decision => [d EXCEPT !.bind = ~@] \in Im!Decision
      BY DEF Im!Decision
    <3> QED BY <1>2, <2>4, <3>1 DEF Im!ToggleBinding
  <2> QED BY <1>8, <2>1, <2>2, <2>3, <2>4
<1> QED BY <1>3, <1>4, <1>5, <1>6, <1>7, <1>8, ImportServes, ImportReceives DEF Im!Next

LEMMA ImportInvariance == Im!ImportAssumption => (Im!Spec => []ImportInv)
<1> SUFFICES ASSUME Im!ImportAssumption PROVE Im!Spec => []ImportInv
  OBVIOUS
<1>1. Im!Init => ImportInv
  BY DEF Im!Init, ImportInv, PageInv, UnderWay
<1>2. ImportInv /\ [Im!Next]_(Im!vars) => ImportInv'
  BY ImportStep
<1> QED BY <1>1, <1>2, PTL DEF Im!Spec

\* A reviewed batch of imports is committed once, however often the page sends it and
\* whatever answer was lost (async_commit_reviewed_imports).
THEOREM BatchCommitsOnce ==
  Im!ImportAssumption =>
    (Im!Spec => [][Im!Commits /\ committed => UNCHANGED <<revision, assets, boundTo>>]_(Im!vars))
<1> SUFFICES ASSUME Im!ImportAssumption PROVE Im!Spec => [][Im!Commits /\ committed => UNCHANGED <<revision, assets, boundTo>>]_(Im!vars)
  OBVIOUS
<1>1. ASSUME ImportInv, Im!Commits, committed PROVE FALSE
  <2> DEFINE m == requests[1]
  <2>1. /\ Im!Serve /\ answers' # <<>> /\ answers'[Len(answers')].type = "committed"
        /\ review.revision < revision /\ review.revision \in Nat /\ revision \in Nat
    BY <1>1 DEF Im!Commits, ImportInv, PageInv, Reviewed, Im!Reviews
  <2>2. answers = <<>> /\ Asks(m) /\ (Im!ServeDiscover(m) \/ Im!ServeCommit(m))
    BY <1>1, <2>1, ServedAlone DEF Im!Serve
  <2> HIDE DEF m
  <2>3. ASSUME NEW a, answers' = Append(answers, a) PROVE a.type = "committed"
    BY <2>1, <2>2, <2>3, Unanswered
  <2>4. ~Im!ServeDiscover(m) /\ (\A why : ~Im!Refuse(why))
    BY <2>3 DEF Im!ServeDiscover, Im!Refuse, Im!Answer
  <2>5. m.type = "commit" /\ m.revision = revision
    BY <2>2, <2>4 DEF Im!ServeCommit, Im!CommitBatch, Im!Accepts
  <2>6. m.revision = review.revision
    BY <2>2, <2>5 DEF Asks
  <2> QED BY <2>1, <2>5, <2>6
<1>2. ImportInv /\ [Im!Next]_(Im!vars) =>
        [Im!Commits /\ committed => UNCHANGED <<revision, assets, boundTo>>]_(Im!vars)
  BY <1>1
<1> QED BY <1>2, ImportInvariance, PTL DEF Im!Spec

\* An import gives a target that is bound no second asset
\* (_reject_cross_asset_target_duplicate).
THEOREM NoSecondAssetOfTarget ==
  Im!Spec => [][Im!Commits => \A p \in Proposals : boundTo'[p] = boundTo[p] \/ boundTo[p] = {}]_(Im!vars)
<1>1. ASSUME Im!Serve, NEW p \in Proposals PROVE boundTo'[p] = boundTo[p] \/ boundTo[p] = {}
  <2> DEFINE m == Head(requests)
  <2> HIDE DEF m
  <2>1. Im!ServeDiscover(m) \/ Im!ServeCommit(m)
    BY <1>1 DEF Im!Serve, m
  <2>2. boundTo' = boundTo \/ \E new \in Im!Fresh(m.decisions) : Im!Apply(m.decisions, new)
    BY <2>1 DEF Im!ServeDiscover, Im!ServeCommit, Im!CommitBatch, Im!Refuse, Im!registry
  <2>3. ASSUME NEW new \in Im!Fresh(m.decisions), Im!Apply(m.decisions, new)
        PROVE  boundTo'[p] = boundTo[p] \/ boundTo[p] = {}
    <3> DEFINE to == Im!Destination(m.decisions, new)
               binds == { q \in DOMAIN to : m.decisions[q].bind }
    <3>1. /\ \A q \in binds : boundTo[q] \subseteq {to[q]}
          /\ boundTo' = [q \in Proposals |-> IF q \in binds THEN boundTo[q] \cup {to[q]} ELSE boundTo[q]]
      BY <2>3 DEF Im!Apply, Im!TargetFree
    <3> HIDE DEF to, binds
    <3> QED BY <3>1
  <2> QED BY <2>2, <2>3
<1>2. [Im!Next]_(Im!vars) =>
        [Im!Commits => \A p \in Proposals : boundTo'[p] = boundTo[p] \/ boundTo[p] = {}]_(Im!vars)
  BY <1>1 DEF Im!Commits
<1> QED BY <1>2, PTL DEF Im!Spec

\* A reviewed proposal is missing at the commit only if Home Assistant has changed since it
\* was found (assisted-import-workflow.js _commit, ws_import_commit).
THEOREM MissingOnlyAfterChange ==
  Im!ImportAssumption =>
    (Im!Spec => [][Im!Refused("unavailable") => Head(requests).changes # changes]_(Im!vars))
<1> SUFFICES ASSUME Im!ImportAssumption PROVE Im!Spec => [][Im!Refused("unavailable") => Head(requests).changes # changes]_(Im!vars)
  OBVIOUS
<1>1. ASSUME ImportInv, Im!Refused("unavailable"), Head(requests).changes = changes PROVE FALSE
  <2> DEFINE m == requests[1]
  <2>1. /\ Im!Serve /\ answers' # <<>> /\ answers'[Len(answers')].type = "error"
        /\ answers'[Len(answers')].why = "unavailable"
    BY <1>1 DEF Im!Refused
  <2>2. /\ answers = <<>> /\ Asks(m) /\ (Im!ServeDiscover(m) \/ Im!ServeCommit(m))
        /\ m.changes = changes
    BY <1>1, <2>1, ServedAlone DEF Im!Serve
  <2> HIDE DEF m
  <2>3. ASSUME NEW a, answers' = Append(answers, a) PROVE a.type = "error" /\ a.why = "unavailable"
    BY <2>1, <2>2, <2>3, Unanswered
  <2>4. ~Im!ServeDiscover(m) /\ ~Im!CommitBatch(m) /\ ~Im!Refuse("failed")
    BY <2>3 DEF Im!ServeDiscover, Im!CommitBatch, Im!Refuse, Im!Answer
  <2>5. m.type = "commit" /\ ~(DOMAIN m.decisions \subseteq Im!Discovered(m.scope))
    BY <2>2, <2>4 DEF Im!ServeCommit
  <2>6. saving /\ review # None /\ Reviewed
    BY <1>1, <2>2, <2>5 DEF Asks, ImportInv, PageInv
  <2>7. /\ m.scope = review.scope /\ review.changes = changes
        /\ DOMAIN m.decisions = DOMAIN review.decisions
    BY <2>2, <2>5 DEF Asks
  <2> QED BY <2>5, <2>6, <2>7 DEF Reviewed, FoundAt
<1>2. ImportInv /\ [Im!Next]_(Im!vars) =>
        [Im!Refused("unavailable") => Head(requests).changes # changes]_(Im!vars)
  BY <1>1
<1> QED BY <1>2, ImportInvariance, PTL DEF Im!Spec

=============================================================================

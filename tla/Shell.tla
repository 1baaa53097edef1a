------------------------------- MODULE Shell -------------------------------
(***************************************************************************)
(* bindhome-panel as a shell: the four views, the URL that Home Assistant  *)
(* keeps for them, what a user who is no administrator may see, the tree   *)
(* of rooms in the home view, and the asset that opens after it was added. *)
(*                                                                         *)
(* A URL is the record of what it says; Junk is any path the parser does   *)
(* not know.  Navigating writes the location; Home Assistant then hands    *)
(* the route back in the same turn, and only from it the shell takes its   *)
(* state: nothing else happens while "handing" is TRUE.                    *)
(***************************************************************************)
EXTENDS Integers, Sequences

CONSTANTS
  Assets, Areas, Floors, Queries,
  None, NoArea, StaleArea, Gone, Junk,
  MaxBack,        \* bound: entries of the browser's history
  MaxSessions     \* bound: creation sessions

VARIABLES
  admin, pinned,                          \* hass.user.is_admin, _advancedPinned
  screen,                                 \* _view and what it selects
  session, room,                          \* _addSessionId; the room of the add view's draft
  location, back, handing,                \* the browser
  where, areas, floorOf, floors,          \* what the panel has read
  creating,                               \* the save of the add view
  onboarding, dismissed                   \* _onboardingVisible, _onboardingDismissed

home == <<where, areas, floorOf, floors>>
browser == <<location, back, handing>>
guide == <<onboarding, dismissed>>
adding == <<session, room>>
vars == <<admin, pinned, screen, adding, browser, home, creating, guide>>

Views == {"home", "add", "search", "advanced"}
Places == Areas \cup {NoArea, StaleArea}
Screen == [view : Views, area : Places \cup {None}, asset : Assets \cup {None},
           query : Queries \cup {None}, context : Areas \cup {None},
           advanced : Assets \cup {None}]

ShellAssumption ==
  /\ {None, NoArea, StaleArea, Gone, Junk} \cap (Assets \cup Areas \cup Floors \cup Queries) = {}
  /\ None \notin {NoArea, StaleArea, Gone} /\ NoArea # StaleArea
  /\ Junk \notin Screen
  /\ MaxBack \in Nat /\ MaxSessions \in Nat

EmptyRoute == [view |-> "home", area |-> None, asset |-> None, query |-> None,
               context |-> None, advanced |-> None]

\* What an address says of a screen: what its view shows.
Build(s) ==
  LET In(view, x) == IF s.view = view THEN x ELSE None IN
  [view |-> s.view,
   area |-> In("home", s.area), asset |-> In("home", IF s.area = None THEN None ELSE s.asset),
   query |-> In("search", s.query), context |-> In("add", s.context),
   advanced |-> In("advanced", s.advanced)]

Urls ==
  LET no == {None} IN
  {Junk, EmptyRoute}
    \cup [view : {"home"}, area : Places, asset : Assets \cup no, query : no, context : no,
          advanced : no]
    \cup [view : {"search"}, area : no, asset : no, query : Queries \cup no, context : no,
          advanced : no]
    \cup [view : {"add"}, area : no, asset : no, query : no, context : Areas \cup no,
          advanced : no]
    \cup [view : {"advanced"}, area : no, asset : no, query : no, context : no,
          advanced : Assets \cup no]

Parse(url) == IF url = Junk THEN EmptyRoute ELSE url

Allowed(s, isAdmin) ==
  IF ~isAdmin /\ s.view \in {"add", "advanced"} THEN EmptyRoute ELSE s

Existing == {x \in Assets : where[x] # Gone}

\* Mutant: the areas that are known are not asked.
PlaceOfRaw(x) == IF where[x] \in {None, Gone} THEN NoArea ELSE where[x]

\* Where the shell looks for an asset: an area it knows, or one of the two special groups.
PlaceOf(x) ==
  IF where[x] \in {None, Gone} THEN NoArea
  ELSE IF where[x] \in areas THEN where[x] ELSE StaleArea

OnboardingFor(isAdmin, isDismissed, list) == isAdmin /\ list = {} /\ ~isDismissed

Init ==
  /\ admin \in BOOLEAN /\ pinned = FALSE /\ session = 0 /\ room = None
  /\ where \in [Assets -> Areas \cup {None, Gone}]
  /\ areas \in SUBSET Areas /\ floors \in SUBSET Floors
  /\ floorOf \in [Areas -> floors \cup {None}]
  /\ location \in Urls /\ back = <<>> /\ handing = TRUE
  /\ screen = EmptyRoute
  /\ creating = None
  /\ dismissed \in BOOLEAN /\ onboarding = OnboardingFor(admin, dismissed, Existing)

-----------------------------------------------------------------------------
(***************************************************************************)
(* The browser.                                                            *)
(***************************************************************************)

\* navigatePanelUrl: nothing happens for the address that is already there.
Go(url, replace) ==
  IF url = location THEN UNCHANGED browser
  ELSE /\ location' = url /\ handing' = TRUE
       /\ IF replace THEN UNCHANGED back
          ELSE Len(back) < MaxBack /\ back' = Append(back, location)

Commit(s, replace) == screen' = s /\ Go(Build(s), replace)

\* The state is taken from the route, and an address that is not canonical is replaced.
ApplyRoute(url, isAdmin) ==
  LET next == Allowed(Parse(url), isAdmin) IN
  /\ screen' = next
  /\ location' = Build(next)
  /\ handing' = (location' # url)
  /\ UNCHANGED back

HandOver ==
  /\ handing
  /\ ApplyRoute(location, admin)
  /\ UNCHANGED <<admin, pinned, adding, home, creating, guide>>

Settled == ~handing

\* A bookmark or the address line, in the same document.
FollowLink(url) ==
  /\ Settled /\ Go(url, FALSE) /\ url # location
  /\ UNCHANGED <<admin, pinned, screen, adding, home, creating, guide>>

Back ==
  /\ Settled /\ back # <<>>
  /\ location' = back[Len(back)] /\ back' = SubSeq(back, 1, Len(back) - 1)
  /\ handing' = TRUE
  /\ UNCHANGED <<admin, pinned, screen, adding, home, creating, guide>>

\* A new hass object, with the rights the user has now: the route is applied again.
HassChanges(isAdmin) ==
  /\ Settled
  /\ admin' = isAdmin
  /\ ApplyRoute(location, isAdmin)
  /\ UNCHANGED <<pinned, adding, home, creating, guide>>

\* The stored preference arrives.
RestorePinned(stored) ==
  /\ pinned' = (admin /\ stored)
  /\ UNCHANGED <<admin, screen, adding, browser, home, creating, guide>>

-----------------------------------------------------------------------------
(***************************************************************************)
(* The header.                                                             *)
(***************************************************************************)

Dismiss == dismissed' = TRUE /\ onboarding' = FALSE

DismissIfVisible == IF onboarding THEN Dismiss ELSE UNCHANGED guide

\* Leaving the advanced view forgets its asset, and any view but "add" the context.
Left(s, view) ==
  [s EXCEPT !.view = view, !.context = None,
            !.advanced = IF s.view = "advanced" /\ view # "advanced" THEN None ELSE @]

OpenAdd(context) ==
  /\ session < MaxSessions
  /\ session' = session + 1 /\ room' = context
  /\ Commit([screen EXCEPT !.view = "add", !.context = context], FALSE)

Navigate(view) ==
  /\ Settled
  /\ view \in {"add", "advanced"} => admin
  /\ view = "advanced" => pinned
  /\ DismissIfVisible
  /\ IF view = "add" THEN OpenAdd(None)
     ELSE Commit(Left(screen, view), FALSE) /\ UNCHANGED adding
  /\ UNCHANGED <<admin, pinned, home, creating>>

\* The switch is for administrators; turning it off leaves the advanced view.
SetPinned(yes) ==
  /\ Settled /\ admin /\ yes # pinned
  /\ pinned' = yes
  /\ IF ~yes /\ screen.view = "advanced"
     THEN DismissIfVisible /\ Commit(Left(screen, "home"), FALSE)
     ELSE UNCHANGED <<guide, screen, browser>>
  /\ UNCHANGED <<admin, adding, home, creating>>

CompleteOnboarding ==
  /\ Settled /\ onboarding
  /\ Dismiss
  /\ Commit([screen EXCEPT !.view = "home", !.context = None], FALSE)
  /\ UNCHANGED <<admin, pinned, adding, home, creating>>

-----------------------------------------------------------------------------
(***************************************************************************)
(* The home view.                                                          *)
(***************************************************************************)

\* The groups of the tree: a floor that is known, or no floor.
Group(f) == {r \in areas : floorOf[r] = f}
Shown == UNION {Group(f) : f \in floors \cup {None}}

Unassigned == {x \in Existing : where[x] = None}
Stale == {x \in Existing : where[x] \in Areas \ areas}

\* What the tree offers, and what a room lists.
Offered == Shown \cup {p \in {NoArea} : Unassigned # {}} \cup {p \in {StaleArea} : Stale # {}}
InRoom(place) ==
  CASE place = NoArea -> Unassigned
    [] place = StaleArea -> Stale
    [] OTHER -> {x \in Existing : where[x] = place}

HomeNavigate(place, x) ==
  /\ Commit([screen EXCEPT !.view = "home", !.area = place, !.asset = x], FALSE)
  /\ UNCHANGED <<admin, pinned, adding, home, creating, guide>>

SelectArea ==
  /\ Settled /\ screen.view = "home"
  /\ \E place \in Offered \cup {None} : HomeNavigate(place, None)

SelectAsset ==
  /\ Settled /\ screen.view = "home" /\ screen.area # None
  /\ \E x \in InRoom(screen.area) : HomeNavigate(PlaceOf(x), x)

\* Back from an asset, or its deletion.
LeaveAsset ==
  /\ Settled /\ screen.view = "home" /\ screen.asset \in Existing
  /\ HomeNavigate(screen.area, None)

AddInArea ==
  /\ Settled /\ screen.view = "home" /\ admin /\ screen.area \in Areas
  /\ OpenAdd(screen.area)
  /\ UNCHANGED <<admin, pinned, home, creating, guide>>

\* The human editor's save: the selection follows the asset to its new room.
HumanAssetCommitted(r) ==
  /\ Settled /\ screen.view = "home" /\ screen.asset \in Existing /\ admin
  /\ where' = [where EXCEPT ![screen.asset] = r]
  /\ Commit([screen EXCEPT !.area = IF r = None THEN NoArea
                                    ELSE IF r \in areas THEN r ELSE StaleArea], TRUE)
  /\ UNCHANGED <<admin, pinned, adding, areas, floorOf, floors, creating, guide>>

EditAsset ==
  /\ Settled /\ screen.view = "home" /\ screen.asset \in Existing
  /\ admin /\ pinned
  /\ Commit([screen EXCEPT !.view = "advanced", !.advanced = screen.asset], FALSE)
  /\ UNCHANGED <<admin, pinned, adding, home, creating, guide>>

-----------------------------------------------------------------------------
(***************************************************************************)
(* The search, advanced and add views.                                     *)
(***************************************************************************)

SearchQueryChanged(q) ==
  /\ Settled /\ screen.view = "search"
  /\ Commit([screen EXCEPT !.query = q], TRUE)
  /\ UNCHANGED <<admin, pinned, adding, home, creating, guide>>

OpenAsset(x) ==
  Commit([screen EXCEPT !.view = "home", !.area = PlaceOf(x), !.asset = x], FALSE)

OpenFound ==
  /\ Settled /\ screen.view = "search"
  /\ \E x \in Existing : OpenAsset(x)
  /\ UNCHANGED <<admin, pinned, adding, home, creating, guide>>

\* "Review import" of the health tool.
ReviewImport ==
  /\ Settled /\ screen.view = "advanced" /\ admin
  /\ \E r \in areas \cup {None} : OpenAdd(r)
  /\ UNCHANGED <<admin, pinned, home, creating, guide>>

Submit(x) ==
  /\ Settled /\ screen.view = "add" /\ creating = None /\ where[x] = Gone
  /\ creating' = [asset |-> x, session |-> session, written |-> FALSE]
  /\ UNCHANGED <<admin, pinned, screen, adding, browser, home, guide>>

Heard == creating.session = session

\* The answer to the save; that of an older session is dropped.
Written ==
  /\ Settled /\ creating # None /\ ~creating.written
  /\ creating' = IF Heard THEN [creating EXCEPT !.written = TRUE] ELSE None
  /\ UNCHANGED <<admin, pinned, screen, adding, browser, home, guide>>

WriteFails ==
  /\ creating # None /\ ~creating.written
  /\ creating' = None
  /\ UNCHANGED <<admin, pinned, screen, adding, browser, home, guide>>

\* The list is refreshed, and then the new asset is opened, whatever is on show.
Created(r) ==
  /\ Settled /\ creating # None /\ creating.written
  /\ where' = [where EXCEPT ![creating.asset] = r]
  /\ onboarding' = OnboardingFor(admin, dismissed, Existing \cup {creating.asset})
  /\ Commit([screen EXCEPT !.view = "home", !.asset = creating.asset,
               !.area = IF r = None THEN NoArea ELSE IF r \in areas THEN r ELSE StaleArea], FALSE)
  /\ creating' = None
  /\ UNCHANGED <<admin, pinned, adding, areas, floorOf, floors, dismissed>>

\* A load or a refresh: floors, areas and assets come from reads of different moments, so
\* that an area may name a floor that came after the floors were read.
Refresh ==
  /\ Settled
  /\ where' \in [Assets -> Areas \cup {None, Gone}]
  /\ areas' \in SUBSET Areas /\ floors' \in SUBSET Floors
  /\ floorOf' \in [Areas -> Floors \cup {None}]
  /\ onboarding' = OnboardingFor(admin, dismissed, {x \in Assets : where'[x] # Gone})
  /\ UNCHANGED <<admin, pinned, screen, adding, browser, creating, dismissed>>

Next ==
  \/ HandOver \/ Back \/ Refresh
  \/ \E url \in Urls : FollowLink(url)
  \/ \E yes \in BOOLEAN : HassChanges(yes) \/ RestorePinned(yes) \/ SetPinned(yes)
  \/ \E view \in Views : Navigate(view)
  \/ CompleteOnboarding
  \/ SelectArea \/ SelectAsset \/ LeaveAsset \/ AddInArea \/ EditAsset
  \/ \E r \in Areas \cup {None} : HumanAssetCommitted(r) \/ Created(r)
  \/ \E q \in Queries \cup {None} : SearchQueryChanged(q)
  \/ OpenFound \/ ReviewImport \/ WriteFails
  \/ \E x \in Assets : Submit(x)
  \/ Written

Spec == Init /\ [][Next]_vars

-----------------------------------------------------------------------------
(***************************************************************************)
(* Properties.                                                             *)
(***************************************************************************)

TypeOK ==
  /\ {admin, pinned, handing, onboarding, dismissed} \subseteq BOOLEAN
  /\ screen \in Screen /\ location \in Urls
  /\ session \in 0..MaxSessions /\ room \in Areas \cup {None}
  /\ back \in Seq(Urls) /\ Len(back) <= MaxBack
  /\ where \in [Assets -> Areas \cup {None, Gone}] /\ areas \subseteq Areas
  /\ floorOf \in [Areas -> Floors \cup {None}] /\ floors \subseteq Floors
  /\ creating \in [asset : Assets, session : 0..MaxSessions, written : BOOLEAN] \cup {None}

\* The address says what is on show: a reload, a bookmark or the history brings it back
\* (bindhome-panel.js, _commitRoute and _applyRoute).
ScreenOfUrl == Settled => Parse(location) = screen

\* A user without rights is in no view that changes the registry, by whatever address,
\* history or loss of rights (bindhome-panel.js, _applyRoute).
AdminOnly == screen.view \in {"add", "advanced"} => admin

\* Areas whose floor was created after the floors had been read: the tree has no group for them.
Groupless == {r \in areas : floorOf[r] \notin floors \cup {None}}

\* What the user chooses to see is opened in the room that lists it, also when its area
\* is gone (home-view.js, _selectAsset; bindhome-panel.js, _openAsset); and the tree offers
\* that room, or it is in no group.
OpensWhereListed ==
  [][Settled /\ screen.asset # screen'.asset /\ screen'.asset # None
       => /\ (screen.asset \in InRoom(screen.area))'
          /\ (screen.area \in Offered \cup Groupless)']_vars

=============================================================================

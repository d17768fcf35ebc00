-------------------------------- MODULE Page --------------------------------
(***************************************************************************)
(* The dashboard's page (static/app.js) between its user and the handlers: *)
(* the selection, the timer of the automatic update, the updates in flight *)
(* and what the panels show.  An event handler, a timer's callback and     *)
(* what follows an await run to completion: each is an action.             *)
(*                                                                         *)
(* An update's requests are one question; all that is kept of the answers  *)
(* is the window they were asked for.  The header's contents and the       *)
(* message of a failed update, which removes itself, are left out.         *)
(***************************************************************************)
EXTENDS Naturals, Handlers

CONSTANTS
  Tab,        \* TAB_NAMES
  WindowTab,  \* WINDOW_TABS
  Settled,    \* tabs whose updater awaits settle(...) and never fails
  Chained,    \* tabs whose updater asks for the types a select lists, then
              \* for the history of the one selected, at the S.win of then
  Selectable, \* tabs with a select that calls the updater itself
  Option,     \* values of the select "window" (templates/index.html)
  Stored,     \* what localStorage may hold as "win"; "" is nothing
  MaxMoves,   \* bound: events of the user
  MaxOutages  \* bound: times the server begins to fail

ASSUME PageAssumption ==
  /\ WindowTab \cup Settled \cup Chained \cup Selectable \subseteq Tab
  /\ Chained \subseteq WindowTab \ Settled
  /\ "1 hour" \in Option
  /\ Option \subseteq windows  \* index.html against the handlers' map
  /\ MaxMoves \in Nat /\ MaxOutages \in Nat

VARIABLES
  tab, win,      \* S.tab, S.win
  auto, hidden,  \* els.auto.checked, document.hidden
  armed,         \* timers of schedule that will fire
  named,         \* whether S.timer is one of them
  updating,      \* _updating
  update,        \* the run of updateCurrent past its first statement, or None
  awaited,       \* whether a timer's callback awaits that run
  headers,       \* callbacks that await loadHeader
  direct,        \* the updater an onchange started, or None
  shown,         \* the window of what each panel shows
  types,         \* of a chained tab's select, filled once: dataset.ready
  sensed,        \* whether the table behind it has rows with a value
  up,            \* whether the server answers
  moves, outages
selection == <<tab, win>>
switches == <<auto, hidden>>
timer == <<armed, named>>
updates == <<updating, update, awaited>>
bounds == <<moves, outages>>
panels == <<shown, types>>
server == <<sensed, up>>
vars == <<selection, switches, timer, updates, headers, direct, panels, server, bounds>>

None == [tab |-> "", win |-> ""]
Unread == "unread"    \* the updater has not read S.win yet
Nothing == "nothing"  \* a panel before its first answer, or without data
Latest == "latest"    \* rows of a tab without history

Unlisted == "unlisted"  \* a select that is not filled yet
Listed == "listed"      \* it lists types and has one selected
Empty == "empty"        \* it was filled without any and has none selected

-----------------------------------------------------------------------------
(* Helpers: each gives the next values of the variables it names.          *)

\* What an updater of tab t asks for when it starts.
Ask(t, w) ==
  [tab |-> t,
   win |-> IF t \in Chained THEN Unread ELSE IF t \in WindowTab THEN w ELSE Latest]

\* The status of the answer; a page that gives up after ten seconds sees an
\* error too.
Status(r) ==
  StatusOf(IF r.win \in {Unread, Latest} THEN LatestError(up) ELSE HistoryError(r.win, up))

\* settle makes a failure an answer without data; elsewhere it is thrown
\* before anything is drawn.
Drawn(r) ==
  IF Status(r) = 200 THEN [shown EXCEPT ![r.tab] = r.win]
  ELSE IF r.tab \in Settled THEN [shown EXCEPT ![r.tab] = Nothing]
  ELSE shown

\* updateCurrent up to its first await.
Started(t, w) ==
  /\ updating' = TRUE
  /\ update' = IF updating THEN update ELSE Ask(t, w)

\* unschedule, and schedule with the switches at a and h.
Unscheduled ==
  /\ armed' = IF named THEN armed - 1 ELSE armed
  /\ named' = FALSE
\* Mutant of Scheduled: schedule does not call unschedule.
ScheduledTwice(a, h) ==
  IF ~a \/ h THEN UNCHANGED timer ELSE armed' = armed + 1 /\ named' = TRUE
Scheduled(a, h) ==
  IF ~a \/ h THEN Unscheduled
  ELSE armed' = (IF named THEN armed - 1 ELSE armed) + 1 /\ named' = TRUE

-----------------------------------------------------------------------------

\* Mutant of InitialWindow: what is stored is believed.
InitialWindowStored(v) == WindowOf(v)
\* S.win of init().
InitialWindow(v) == IF v \in Option THEN v ELSE "1 hour"

\* init() has run.  A browser may restore the box "auto" as it was.
Init ==
  /\ tab \in Tab
  /\ \E v \in Stored : win = InitialWindow(v)
  /\ auto \in BOOLEAN /\ hidden \in BOOLEAN
  /\ named = (auto /\ ~hidden) /\ armed = (IF named THEN 1 ELSE 0)
  /\ updating = TRUE /\ update = Ask(tab, win) /\ awaited = FALSE
  /\ headers = 0 /\ direct = None
  /\ shown = [t \in Tab |-> Nothing] /\ types = [t \in Chained |-> Unlisted]
  /\ sensed \in BOOLEAN /\ up \in BOOLEAN /\ moves = 0 /\ outages = 0

Move == moves < MaxMoves /\ moves' = moves + 1 /\ UNCHANGED <<outages, panels, server, headers>>

\* The select is disabled on the tabs without history.
ChangeWindow(w) ==
  /\ Move /\ tab \in WindowTab /\ w # win
  /\ win' = w /\ Started(tab, w)
  /\ UNCHANGED <<tab, awaited, switches, timer, direct>>

SetTab(t) ==
  /\ Move
  /\ tab' = t /\ Started(t, win)
  /\ UNCHANGED <<win, awaited, switches, timer, direct>>

Refresh ==
  /\ Move /\ Started(tab, win)
  /\ UNCHANGED <<selection, awaited, switches, timer, direct>>

ToggleAuto ==
  /\ Move /\ auto' = ~auto
  /\ IF auto THEN Unscheduled ELSE Scheduled(TRUE, hidden)
  /\ UNCHANGED <<hidden, selection, updates, direct>>

ChangeInterval ==
  /\ Move /\ auto /\ Scheduled(auto, hidden)
  /\ UNCHANGED <<selection, switches, updates, direct>>

VisibilityChange ==
  /\ Move /\ hidden' = ~hidden
  /\ IF ~hidden THEN Unscheduled
     ELSE IF auto THEN Scheduled(auto, FALSE) ELSE UNCHANGED timer
  /\ UNCHANGED <<auto, selection, updates, direct>>

\* A device or interface can be selected once rows came, a sensor type once
\* the select lists one.
Offered(t) == IF t \in Chained THEN types[t] = Listed ELSE shown[t] # Nothing

\* onchange of a select; bound: one such run at a time.
Select ==
  /\ Move /\ tab \in Selectable /\ Offered(tab) /\ direct = None
  /\ direct' = Ask(tab, win)
  /\ UNCHANGED <<selection, switches, timer, updates>>

-----------------------------------------------------------------------------

\* Mutant of Fire: a callback that finds an update in flight is over.
FireDropped ==
  /\ armed > 0 /\ armed' = armed - 1
  /\ named' \in {FALSE, armed > 1 /\ named}
  /\ Started(tab, win)
  /\ awaited' = (awaited \/ ~updating)
  /\ UNCHANGED <<selection, switches, headers, direct, panels, server, bounds>>

\* The callback runs to its first await: of the update it starts, or at once
\* of loadHeader when updateCurrent returns.
Fire ==
  /\ armed > 0 /\ armed' = armed - 1
  /\ named' \in {FALSE, armed > 1 /\ named}
  /\ Started(tab, win)
  /\ awaited' = (awaited \/ ~updating)
  /\ headers' = IF updating THEN headers + 1 ELSE headers
  /\ UNCHANGED <<selection, switches, direct, panels, server, bounds>>

\* The first answer of a chained updater fills the select, unless it is filled,
\* and the answer goes on to the history of its type, if it has one.
Chains(r) == r.win = Unread /\ Status(r) = 200
Filled(t) == IF types[t] # Unlisted THEN types[t] ELSE IF sensed THEN Listed ELSE Empty
Fills(t) == types' = [types EXCEPT ![t] = Filled(t)]

\* Mutant of UpdateOver: an error leaves _updating set.
UpdateOverUnlessError ==
  /\ update' = None /\ awaited' = FALSE
  /\ updating' = (Status(update) # 200 /\ update.tab \notin Settled)
  /\ headers' = IF awaited THEN headers + 1 ELSE headers
\* finally of updateCurrent; its callback goes on to loadHeader.
UpdateOver ==
  /\ update' = None /\ updating' = FALSE /\ awaited' = FALSE
  /\ headers' = IF awaited THEN headers + 1 ELSE headers

UpdateChains ==
  /\ update # None /\ Chains(update) /\ Fills(update.tab)
  /\ IF Filled(update.tab) = Listed
     THEN /\ update' = [update EXCEPT !.win = win]
          /\ UNCHANGED <<updating, awaited, headers, shown>>
     ELSE UpdateOver /\ shown' = [shown EXCEPT ![update.tab] = Nothing]
  /\ UNCHANGED <<selection, switches, timer, direct, server, bounds>>

\* try, catch and finally of updateCurrent.
UpdateEnds ==
  /\ update # None /\ ~Chains(update)
  /\ shown' = Drawn(update) /\ UpdateOver
  /\ UNCHANGED <<selection, switches, timer, direct, types, server, bounds>>

\* A select that calls its updater lists a type.
DirectChains ==
  /\ direct # None /\ Chains(direct)
  /\ direct' = [direct EXCEPT !.win = win]
  /\ UNCHANGED <<selection, switches, timer, updates, headers, panels, server, bounds>>
DirectEnds ==
  /\ direct # None /\ ~Chains(direct)
  /\ shown' = Drawn(direct) /\ direct' = None
  /\ UNCHANGED <<selection, switches, timer, updates, headers, types, server, bounds>>

\* loadHeader returns, whatever it was answered, and the callback schedules.
HeaderEnds ==
  /\ headers > 0 /\ headers' = headers - 1
  /\ Scheduled(auto, hidden)
  /\ UNCHANGED <<selection, switches, updates, direct, panels, server, bounds>>

ServerFails ==
  /\ up /\ outages < MaxOutages /\ up' = FALSE /\ outages' = outages + 1
  /\ UNCHANGED <<selection, switches, timer, updates, headers, direct, panels, sensed, moves>>
ServerRecovers ==
  /\ ~up /\ up' = TRUE
  /\ UNCHANGED <<selection, switches, timer, updates, headers, direct, panels, sensed, bounds>>
SensorsArrive ==
  /\ ~sensed /\ sensed' = TRUE
  /\ UNCHANGED <<selection, switches, timer, updates, headers, direct, panels, up, bounds>>

User ==
  \/ \E w \in Option : ChangeWindow(w)
  \/ \E t \in Tab : SetTab(t)
  \/ Refresh \/ ToggleAuto \/ ChangeInterval \/ VisibilityChange \/ Select
Update == UpdateChains \/ UpdateEnds
Direct == DirectChains \/ DirectEnds
Done == moves = MaxMoves /\ armed + headers = 0 /\ update = None /\ direct = None
        /\ up /\ sensed /\ outages = MaxOutages /\ UNCHANGED vars

Next ==
  \/ User \/ Fire \/ Update \/ Direct \/ HeaderEnds
  \/ ServerFails \/ ServerRecovers \/ SensorsArrive \/ Done

Spec == Init /\ [][Next]_vars

\* Timers fire, and every request has an answer or its abort in the end.
FairSpec ==
  /\ Spec
  /\ WF_vars(Fire) /\ WF_vars(Update) /\ WF_vars(Direct) /\ WF_vars(HeaderEnds)

-----------------------------------------------------------------------------
(* Properties.                                                             *)

\* OneTimer: callbacks of several generations may be in flight when the user
\* toggles the switches during an update, and each schedules at its end; still
\* there is at most one timer, S.timer names it, so that unschedule stops it,
\* and it is armed only while the box is checked and the page is visible.
OneTimer ==
  /\ armed = IF named THEN 1 ELSE 0
  /\ named => auto /\ ~hidden

\* AutoNeverDies: while the box is checked and the page is visible, a timer is
\* armed or a callback is on its way to schedule, whatever failed meanwhile.
AutoNeverDies == auto /\ ~hidden => armed > 0 \/ awaited \/ headers > 0

\* NoBadRequest: whatever localStorage holds, no handler refuses a window of
\* the page.
NoBadRequest ==
  \A r \in {update, direct} \ {None} : Status(r) # 400

\* SelectionIsShownIfListed: if the box stays checked, the page visible and the
\* server well, the panel in front comes to show the selected window and stays
\* there, although changes during an update are dropped and the answers of
\* selects may arrive after younger ones: but not in a panel whose select was
\* filled before there was a sensor, which stays without its "histórico das
\* séries mais recentes do tipo selecionado" (app.js:34) whatever is read later.
Showing == shown[tab] = IF tab \in WindowTab THEN win ELSE Latest
SelectionIsShownIfListed ==
  <>[](auto /\ ~hidden /\ up) => <>[](Showing \/ (tab \in Chained /\ types[tab] = Empty))
=============================================================================

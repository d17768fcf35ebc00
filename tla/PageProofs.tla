----------------------------- MODULE PageProofs -----------------------------
(* The page's timer and its questions, for any tabs, any number of events of   *)
(* the user and any failures of the server.                                    *)
EXTENDS Page, TLAPS

TimerTypes ==
  /\ auto \in BOOLEAN /\ hidden \in BOOLEAN /\ named \in BOOLEAN
  /\ updating \in BOOLEAN /\ awaited \in BOOLEAN
  /\ armed \in Nat /\ headers \in Nat

\* What an updater may ask for; "" is that of None.
Windows == Option \cup {Unread, Latest, ""}
Questions == [tab : Tab \cup {""}, win : Windows]
Asking == tab \in Tab /\ win \in Option /\ update \in Questions /\ direct \in Questions

PageInv == TimerTypes /\ OneTimer /\ AutoNeverDies /\ Asking

-----------------------------------------------------------------------------
(* Helpers.                                                                    *)

LEMMA AskIsQuestion ==
  ASSUME NEW t \in Tab, NEW w \in Option PROVE Ask(t, w) \in Questions
BY DEF Ask, Questions, Windows

\* updateCurrent keeps what is asked a question.
LEMMA StartedAsks ==
  ASSUME Asking, NEW t \in Tab, NEW w \in Option, Started(t, w)
  PROVE updating' \in BOOLEAN /\ update' \in Questions
BY AskIsQuestion DEF Asking, Started

\* After schedule, or an unschedule that goes with it, S.timer names the only
\* timer, and there is one exactly if the switches ask for it.
LEMMA ScheduledArms ==
  ASSUME TimerTypes, OneTimer, NEW a \in BOOLEAN, NEW h \in BOOLEAN, Scheduled(a, h)
  PROVE named' \in BOOLEAN /\ (named' <=> a /\ ~h) /\ armed' = IF named' THEN 1 ELSE 0
<1>1. CASE ~a \/ h
  <2>1. armed' = 0 /\ named' = FALSE
    BY <1>1 DEF TimerTypes, OneTimer, Scheduled, Unscheduled
  <2> QED BY <1>1, <2>1
<1>2. CASE a /\ ~h
  BY <1>2 DEF TimerTypes, OneTimer, Scheduled
<1> QED BY <1>1, <1>2

LEMMA UnscheduledDisarms ==
  ASSUME TimerTypes, OneTimer, Unscheduled PROVE named' = FALSE /\ armed' = 0
BY DEF TimerTypes, OneTimer, Unscheduled

\* An event handler that only starts an update.
LEMMA UpdateEventKeeps ==
  ASSUME PageInv, Move, NEW t \in Tab, NEW w \in Option, Started(t, w), tab' = t, win' = w,
         UNCHANGED <<awaited, switches, timer, direct>>
  PROVE PageInv'
<1>1. updating' \in BOOLEAN /\ update' \in Questions
  BY StartedAsks DEF PageInv
<1> QED BY <1>1 DEF PageInv, TimerTypes, OneTimer, AutoNeverDies, Asking, Move, switches, timer

\* A step that ends with schedule.
LEMMA ScheduleKeeps ==
  ASSUME PageInv, auto' \in BOOLEAN, hidden' \in BOOLEAN, Scheduled(auto', hidden'),
         headers' \in Nat, UNCHANGED <<selection, updates, direct>>
  PROVE PageInv'
<1>1. named' \in BOOLEAN /\ (named' <=> auto' /\ ~hidden') /\ armed' = IF named' THEN 1 ELSE 0
  BY ScheduledArms DEF PageInv
<1> QED BY <1>1 DEF PageInv, TimerTypes, OneTimer, AutoNeverDies, Asking, selection, updates

\* A step that ends with unschedule.
LEMMA UnscheduleKeeps ==
  ASSUME PageInv, auto' \in BOOLEAN, hidden' \in BOOLEAN, ~auto' \/ hidden', Unscheduled,
         headers' \in Nat, UNCHANGED <<selection, updates, direct>>
  PROVE PageInv'
<1>1. named' = FALSE /\ armed' = 0
  BY UnscheduledDisarms DEF PageInv
<1> QED BY <1>1 DEF PageInv, TimerTypes, OneTimer, AutoNeverDies, Asking, selection, updates

-----------------------------------------------------------------------------

LEMMA InitEstablishes == Init => PageInv
<1> SUFFICES ASSUME Init PROVE PageInv
  OBVIOUS
<1>1. tab \in Tab /\ win \in Option
  BY PageAssumption DEF Init, InitialWindow
<1>2. update \in Questions
  BY <1>1, AskIsQuestion DEF Init
<1>3. auto \in BOOLEAN /\ hidden \in BOOLEAN /\ named \in BOOLEAN /\ (named <=> auto /\ ~hidden)
  BY Zenon DEF Init
<1>4. armed = IF named THEN 1 ELSE 0
  BY DEF Init
<1>5. TimerTypes
  <2>1. updating \in BOOLEAN /\ awaited \in BOOLEAN
    BY DEF Init
  <2>2. armed \in Nat /\ headers \in Nat
    BY <1>4 DEF Init
  <2> QED BY <1>3, <2>1, <2>2 DEF TimerTypes
<1>6. OneTimer /\ AutoNeverDies
  BY <1>3, <1>4 DEF OneTimer, AutoNeverDies
<1>7. Asking
  BY <1>1, <1>2 DEF Init, Asking, None, Questions, Windows
<1> QED BY <1>5, <1>6, <1>7 DEF PageInv

LEMMA UserKeeps == ASSUME PageInv, User PROVE PageInv'
<1>0. tab \in Tab /\ win \in Option /\ auto \in BOOLEAN /\ hidden \in BOOLEAN /\ headers \in Nat
  BY DEF PageInv, Asking, TimerTypes
<1>1. ASSUME NEW w \in Option, ChangeWindow(w) PROVE PageInv'
  BY <1>0, <1>1, UpdateEventKeeps DEF ChangeWindow
<1>2. ASSUME NEW t \in Tab, SetTab(t) PROVE PageInv'
  BY <1>0, <1>2, UpdateEventKeeps DEF SetTab
<1>3. CASE Refresh
  BY <1>0, <1>3, UpdateEventKeeps DEF Refresh, selection
<1>4. CASE ToggleAuto
  <2>1. auto' = ~auto /\ hidden' = hidden /\ headers' = headers
    BY <1>4 DEF ToggleAuto, Move
  <2>2. CASE auto
    BY <1>0, <1>4, <2>1, <2>2, UnscheduleKeeps DEF ToggleAuto
  <2>3. CASE ~auto
    BY <1>0, <1>4, <2>1, <2>3, ScheduleKeeps DEF ToggleAuto
  <2> QED BY <2>2, <2>3
<1>5. CASE ChangeInterval
  BY <1>0, <1>5, ScheduleKeeps DEF ChangeInterval, Move, switches
<1>6. CASE VisibilityChange
  <2>1. hidden' = ~hidden /\ auto' = auto /\ headers' = headers
    BY <1>6 DEF VisibilityChange, Move
  <2>2. CASE ~hidden
    BY <1>0, <1>6, <2>1, <2>2, UnscheduleKeeps DEF VisibilityChange
  <2>3. CASE hidden /\ auto
    BY <1>0, <1>6, <2>1, <2>3, ScheduleKeeps DEF VisibilityChange
  <2>4. CASE hidden /\ ~auto
    BY <1>0, <1>6, <2>1, <2>4
    DEF VisibilityChange, PageInv, TimerTypes, OneTimer, AutoNeverDies, Asking,
        timer, selection, updates
  <2> QED BY <1>0, <2>2, <2>3, <2>4
<1>7. CASE Select
  <2>1. direct' \in Questions
    BY <1>0, <1>7, AskIsQuestion DEF Select
  <2> QED BY <1>7, <2>1
    DEF Select, Move, PageInv, TimerTypes, OneTimer, AutoNeverDies, Asking,
        selection, switches, timer, updates
<1> QED BY <1>1, <1>2, <1>3, <1>4, <1>5, <1>6, <1>7 DEF User

LEMMA FireKeeps == ASSUME PageInv, Fire PROVE PageInv'
<1>1. updating' \in BOOLEAN /\ update' \in Questions
  BY StartedAsks DEF Fire, PageInv, Asking
<1>2. named' = FALSE /\ armed' = 0
  <2>1. armed = 1
    BY DEF Fire, PageInv, OneTimer, TimerTypes
  <2>2. ~(armed > 1) /\ armed' = 0
    BY <2>1 DEF Fire
  <2>3. named' \in {FALSE, armed > 1 /\ named}
    BY DEF Fire
  <2> QED BY <2>2, <2>3, Zenon
<1>3. headers' \in Nat /\ awaited' \in BOOLEAN
  BY DEF Fire, PageInv, TimerTypes
<1>4. awaited' \/ headers' > 0
  <2>1. CASE updating
    BY <2>1 DEF Fire, PageInv, TimerTypes
  <2>2. CASE ~updating
    BY <2>2 DEF Fire
  <2> QED BY <2>1, <2>2
<1>5. TimerTypes'
  <2>1. auto' \in BOOLEAN /\ hidden' \in BOOLEAN
    BY DEF Fire, PageInv, TimerTypes, switches
  <2>2. named' \in BOOLEAN /\ armed' \in Nat
    BY <1>2
  <2> QED BY <1>1, <1>3, <2>1, <2>2 DEF TimerTypes
<1>6. OneTimer' /\ AutoNeverDies'
  BY <1>2, <1>4 DEF OneTimer, AutoNeverDies
<1>7. Asking'
  BY <1>1 DEF Fire, PageInv, Asking, selection
<1> QED BY <1>5, <1>6, <1>7 DEF PageInv

\* An update that ends leaves a callback on its way, if one awaited it.
LEMMA UpdateOverKeeps ==
  ASSUME PageInv, UpdateOver, UNCHANGED <<selection, switches, timer, direct>>
  PROVE PageInv'
<1>1. headers' \in Nat /\ awaited' = FALSE /\ updating' = FALSE /\ update' = None
  BY DEF UpdateOver, PageInv, TimerTypes
<1>2. TimerTypes' /\ OneTimer'
  BY <1>1 DEF PageInv, TimerTypes, OneTimer, switches, timer
<1>3. AutoNeverDies'
  <2>1. CASE awaited
    BY <2>1 DEF UpdateOver, PageInv, TimerTypes, AutoNeverDies
  <2>2. CASE ~awaited
    BY <2>2 DEF UpdateOver, PageInv, AutoNeverDies, switches, timer
  <2> QED BY <2>1, <2>2
<1>4. Asking'
  BY <1>1 DEF PageInv, Asking, None, Questions, Windows, selection
<1> QED BY <1>2, <1>3, <1>4 DEF PageInv

LEMMA UpdateKeeps == ASSUME PageInv, Update PROVE PageInv'
<1>1. CASE UpdateChains /\ Filled(update.tab) = Listed
  <2>1. update' \in Questions
    BY <1>1 DEF UpdateChains, PageInv, Asking, Questions, Windows
  <2> QED BY <1>1, <2>1
    DEF UpdateChains, PageInv, TimerTypes, OneTimer, AutoNeverDies, Asking,
        selection, switches, timer
<1>2. CASE UpdateChains /\ Filled(update.tab) # Listed
  BY <1>2, UpdateOverKeeps DEF UpdateChains
<1>3. CASE UpdateEnds
  BY <1>3, UpdateOverKeeps DEF UpdateEnds
<1> QED BY <1>1, <1>2, <1>3 DEF Update

LEMMA DirectKeeps == ASSUME PageInv, Direct PROVE PageInv'
<1>1. direct' \in Questions
  <2>1. CASE DirectChains
    BY <2>1 DEF DirectChains, PageInv, Asking, Questions, Windows
  <2>2. CASE DirectEnds
    BY <2>2 DEF DirectEnds, None, Questions, Windows
  <2> QED BY <2>1, <2>2 DEF Direct
<1> QED BY <1>1
  DEF Direct, DirectChains, DirectEnds, PageInv, TimerTypes, OneTimer, AutoNeverDies,
      Asking, selection, switches, timer, updates

LEMMA HeaderKeeps == ASSUME PageInv, HeaderEnds PROVE PageInv'
<1>1. auto' = auto /\ hidden' = hidden /\ auto \in BOOLEAN /\ hidden \in BOOLEAN
  BY DEF HeaderEnds, switches, PageInv, TimerTypes
<1>2. headers' \in Nat
  BY DEF HeaderEnds, PageInv, TimerTypes
<1> QED BY <1>1, <1>2, ScheduleKeeps DEF HeaderEnds

LEMMA PageInvHolds == Spec => []PageInv
<1>1. PageInv /\ [Next]_vars => PageInv'
  <2> SUFFICES ASSUME PageInv, [Next]_vars PROVE PageInv'
    OBVIOUS
  <2>1. CASE User
    BY <2>1, UserKeeps
  <2>2. CASE Fire
    BY <2>2, FireKeeps
  <2>3. CASE Update
    BY <2>3, UpdateKeeps
  <2>4. CASE Direct
    BY <2>4, DirectKeeps
  <2>5. CASE HeaderEnds
    BY <2>5, HeaderKeeps
  <2>6. CASE ServerFails \/ ServerRecovers \/ SensorsArrive \/ Done \/ UNCHANGED vars
    BY <2>6 DEF ServerFails, ServerRecovers, SensorsArrive, Done, vars, PageInv, TimerTypes, OneTimer,
                AutoNeverDies, Asking, selection, switches, timer, updates
  <2> QED BY <2>1, <2>2, <2>3, <2>4, <2>5, <2>6 DEF Next
<1> QED BY <1>1, InitEstablishes, PTL DEF Spec

-----------------------------------------------------------------------------

\* TimerIsOne: for any number of toggles during updates there is never a
\* second timer, and unschedule always reaches the one there is.
THEOREM TimerIsOne == Spec => []OneTimer
BY PageInvHolds, PTL DEF PageInv

\* AutoLives: the automatic update never stops by itself.
THEOREM AutoLives == Spec => []AutoNeverDies
BY PageInvHolds, PTL DEF PageInv

\* PageAsksNothingBad: the handlers never answer the page's window with 400.
THEOREM PageAsksNothingBad == Spec => []NoBadRequest
<1>1. PageInv => NoBadRequest
  <2> SUFFICES ASSUME Asking, NEW r \in {update, direct} \ {None} PROVE Status(r) # 400
    BY DEF PageInv, NoBadRequest
  <2>1. r.win \in Windows
    BY DEF Asking, Questions
  <2>2. WindowOf(r.win) \in windows \/ r.win \in {Unread, Latest}
    BY <2>1, PageAssumption DEF Windows, WindowOf, windows
  <2> QED BY <2>2 DEF Status, StatusOf, HistoryError, LatestError
<1> QED BY <1>1, PageInvHolds, PTL
=============================================================================

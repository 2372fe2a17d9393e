------------------------------ MODULE DashInput -----------------------------
(***************************************************************************)
(* The knob: what one run of buttonInput::update() makes of the position   *)
(* and of the contact (src/src/encoder_input.cpp, encoder_logic.cpp), the  *)
(* views it moves through (nav_model.cpp), the settings menu and the tank  *)
(* picker (settings_menu.cpp), and the slot through which the render core  *)
(* takes the action that was chosen.                                       *)
(*                                                                         *)
(* The time of a sample is the 15 ms throttle.  The cursor of an overlay   *)
(* that is set again before it is read is not kept while it is closed.     *)
(***************************************************************************)
EXTENDS VehicleProfiles, SequencesExt

CONSTANTS Key,        \* the active profile
          HalfRange,  \* half of the range of the knob's 16-bit position
          Wraps,      \* whether the position may leave that range
          Debounce,   \* 30 ms, in samples
          Long,       \* LONG_MS
          Gaps,       \* samples' worth of time between two reads
          Turns,      \* detents the knob can turn between two reads
          Hidden,     \* menu rows this board has no hardware for
          Vehicles,   \* profileCount()
          Presets     \* TANK_PRESET_COUNT

\* The menu rows that need hardware.
Optional == {"SetTime", "Logging", "WifiSetup", "CheckUpdate"}

ASSUME DashInputAssumption ==
  /\ Key \in Keys
  /\ Hidden \subseteq Optional
  /\ {HalfRange, Debounce, Long} \subseteq Nat \ {0}
  /\ {Vehicles, Presets} \subseteq Nat
  /\ Gaps \subseteq Nat \ {0} /\ Turns \subseteq Int

VARIABLES contact,    \* dbState and its history: last raw level, age, level
          held,       \* EncoderLogic: down, for how long, long press fired
          pos,        \* the knob's position at the last read
          nav,        \* NavState: view, page, focus
          menu,       \* MenuState: sel, armed, confirmYes
          field, veh, tank,     \* cursors of the other overlays
          slot,       \* g_menuAction
          commits,    \* g_vehCommitReq, g_tankCommitReq
          waited,     \* history: how long a wipe has been in the slot
          consent,    \* history: the row asked about, the last turn since
          line,       \* history: the contact's level, for how long, and
                      \* whether it was released and pressed since the event
          amiss       \* history: what was made of the knob against the hand

vars == <<contact, held, pos, nav, menu, field, veh, tank, slot, commits, waited,
          consent, line, amiss>>

-----------------------------------------------------------------------------
(* The contact and the position *)

(* After a wipe was confirmed: a hold that opens the menu, a release, a    *)
(* press, and the release that makes it one.                               *)
Reopen == Long + 3 * Debounce

Capped(n, limit) == IF n < limit THEN n ELSE limit

DebouncedPerSample(raw, gap) ==
  LET age == Capped(contact.age + gap, Debounce)
  IN  [raw |-> raw, age |-> age,
       level |-> IF age >= Debounce THEN raw ELSE contact.level]

(* The contact bounces: its level counts once it has been read twice the   *)
(* same, the second time at least Debounce after the first.                *)
Debounced(raw, gap) ==
  LET age == IF raw # contact.raw THEN 0 ELSE Capped(contact.age + gap, Debounce)
  IN  [raw |-> raw, age |-> age,
       level |-> IF age >= Debounce THEN raw ELSE contact.level]

(* EncoderLogic::button(): a long press when held for Long, a short press  *)
(* on a release before that.                                               *)
Idle == [down |-> FALSE, for |-> 0, fired |-> FALSE]

button(pressed, gap) ==
  IF ~pressed
  THEN [next |-> Idle,
        ev   |-> IF held.down /\ ~held.fired THEN "PressShort" ELSE "None"]
  ELSE IF ~held.down
  THEN [next |-> [Idle EXCEPT !.down = TRUE], ev |-> "None"]
  ELSE LET for == Capped(held.for + gap, Long)
           fires == ~held.fired /\ for >= Long
       IN  [next |-> [down |-> TRUE, for |-> for, fired |-> held.fired \/ fires],
            ev   |-> IF fires THEN "PressLong" ELSE "None"]

(* The position is a signed 16-bit count, and rotation() subtracts two of  *)
(* them in a wider type.                                                   *)
Count(n) == ((n + HalfRange) % (2 * HalfRange)) - HalfRange

rotation(count) == count - pos

-----------------------------------------------------------------------------
(* nav_model.cpp *)

profile == ProfileForKey(Key)

readoutPageOf(stat) ==
  IF IsDisplayed(profile, stat) THEN CHOOSE n \in PageOf(profile, stat) : TRUE ELSE 1

(* The displayed stats, page by page and cell by cell.                     *)
OrderOf(p) == SelectSeq(FlattenSeq(p.layout.pages), LAMBDA s : s # Empty)

readingOrder == OrderOf(profile)

(* Every vehicle shows something, and what the order names is shown, once. *)
ASSUME OrderAssumption ==
  \A key \in Keys :
    LET order == OrderOf(ProfileForKey(key)) IN
    /\ Len(order) \in Nat \ {0}
    /\ \A i \in 1..Len(order) : IsDisplayed(ProfileForKey(key), order[i])
    /\ \A i, j \in 1..Len(order) : order[i] = order[j] => i = j

After(d) ==
  LET n     == Len(readingOrder)
      at    == {i \in 1..n : readingOrder[i] = nav.focus}
      start == IF at = {} THEN 1 ELSE CHOOSE i \in at : \A j \in at : i <= j
  IN  readingOrder[((start - 1 + d) % n) + 1]

CursorByOnPage(d) == IF d = 0 THEN nav ELSE [nav EXCEPT !.focus = After(d)]

CursorBy(d) ==
  IF d = 0 THEN nav
  ELSE [nav EXCEPT !.focus = After(d), !.page = readoutPageOf(After(d))]

(* nav::press(): from the quad to the focus, and back to its page.         *)
NavPress(n) ==
  IF n.view = "Quad" THEN [n EXCEPT !.view = "Focus"]
  ELSE [n EXCEPT !.view = "Quad", !.page = readoutPageOf(n.focus)]

-----------------------------------------------------------------------------
(* settings_menu.cpp *)

Items == << "NightMode", "Brightness", "Units", "FuelTank", "SetTime",
            "Logging", "ResetTrip", "ForgetAdapter", "PickVehicle",
            "WifiSetup", "CheckUpdate", "Version", "Close" >>

RowsWithout(hidden) == SelectSeq(Items, LAMBDA it : it \notin hidden)

Visible == RowsWithout(Hidden)

(* The rows that are left are rows, and the first is always there.         *)
ASSUME MenuAssumption ==
  \A hidden \in SUBSET Optional :
    /\ RowsWithout(hidden) \in Seq(ToSet(Items))
    /\ Items[1] \in ToSet(RowsWithout(hidden))

NoItem == "COUNT"
NoAction == "None"
Destructive == {"ResetTrip", "ForgetAdapter"}

menuReset == [sel |-> Items[1], armed |-> NoItem, yes |-> FALSE]

menuMoveEither(m, d) ==
  IF m.armed # NoItem THEN [m EXCEPT !.yes = d # 0]
  ELSE LET n == Len(Visible)
           i == CHOOSE j \in 1..n : Visible[j] = m.sel
       IN  [m EXCEPT !.sel = Visible[((i - 1 + d) % n) + 1]]

(* menuMove(), d times: in a dialog a turn picks the choice, right for     *)
(* Yes; otherwise it moves over the rows that are shown, round and round.  *)
menuMove(m, d) ==
  IF d = 0 THEN m
  ELSE IF m.armed # NoItem THEN [m EXCEPT !.yes = d > 0]
  ELSE LET n == Len(Visible)
           i == CHOOSE j \in 1..n : Visible[j] = m.sel
       IN  [m EXCEPT !.sel = Visible[((i - 1 + d) % n) + 1]]

(* menuActivate(): a destructive row first opens its dialog, on No.        *)
menuActivate(m) ==
  LET closed == [m EXCEPT !.armed = NoItem, !.yes = FALSE] IN
  IF m.sel \notin Destructive THEN [menu |-> [m EXCEPT !.armed = NoItem], act |-> m.sel]
  ELSE IF m.armed # m.sel
  THEN [menu |-> [m EXCEPT !.armed = m.sel, !.yes = FALSE], act |-> NoAction]
  ELSE [menu |-> closed, act |-> IF m.yes THEN m.sel ELSE NoAction]

(* The tank picker: Presets rows, then Custom, then Unset.  The value      *)
(* edited under Custom is left out.                                        *)
Custom == Presets
TankRows == Presets + 2

tankPickSeed == [sel : 0..(TankRows - 1), editing : {FALSE}]

tankPickMove(t, d) ==
  IF t.editing THEN t ELSE [t EXCEPT !.sel = (@ + d) % TankRows]

tankCommits(t) == t.sel # Custom \/ t.editing

-----------------------------------------------------------------------------
(* update(), view by view: d detents, then the event *)

Closed == [field |-> 0, veh |-> 0, tank |-> [sel |-> 0, editing |-> FALSE]]

Cursors(f, v, t) == field' = f /\ veh' = v /\ tank' = t
NoCursors == Cursors(Closed.field, Closed.veh, Closed.tank)

To(view) == nav' = [nav EXCEPT !.view = view]

(* The row that was chosen; forget and reset also close the menu, for      *)
(* what they show is under it.  A closed menu is left as it was.           *)
Chosen(m, Closing) ==
  LET a == menuActivate(m) IN
  /\ menu' = a.menu
  /\ slot' = IF a.act \in {NoAction, "Close", "SetTime", "PickVehicle", "FuelTank"}
             THEN slot ELSE a.act
  /\ \/ a.act \in Closing /\ To("Quad") /\ NoCursors
     \/ a.act = "SetTime" /\ To("TimeSet") /\ NoCursors
     \/ /\ a.act = "PickVehicle" /\ To("VehiclePick")
        /\ \E v \in 0..Vehicles : Cursors(Closed.field, v, Closed.tank)
     \/ /\ a.act = "FuelTank" /\ To("TankPick")
        /\ \E t \in tankPickSeed : Cursors(Closed.field, Closed.veh, t)
     \/ /\ a.act \notin Closing \cup {"SetTime", "PickVehicle", "FuelTank"}
        /\ UNCHANGED nav /\ NoCursors
  /\ UNCHANGED commits

ActivateStays(m) == Chosen(m, {"Close"})
Activate(m) == Chosen(m, Destructive \cup {"Close"})

InMenu(d, ev) ==
  LET m == menuMove(menu, d) IN
  /\ nav.view = "Menu"
  /\ \/ ev = "PressShort" /\ Activate(m)
     \/ ev = "PressLong" /\ To("Quad") /\ menu' = m /\ NoCursors
        /\ UNCHANGED <<slot, commits>>
     \/ ev = "None" /\ menu' = m /\ UNCHANGED <<nav, field, veh, tank, slot, commits>>

(* A hold saves the clock.                                                 *)
InTimeSet(ev) ==
  /\ nav.view = "TimeSet"
  /\ \/ ev = "PressShort" /\ Cursors((field + 1) % 5, veh, tank) /\ UNCHANGED nav
     \/ ev = "PressLong" /\ To("Menu") /\ NoCursors
     \/ ev = "None" /\ UNCHANGED <<nav, field, veh, tank>>
  /\ UNCHANGED <<menu, slot, commits>>

InVehiclePick(d, ev) ==
  LET v == (veh + d) % (Vehicles + 1) IN
  /\ nav.view = "VehiclePick"
  /\ \/ ev = "PressShort" /\ To("Menu") /\ NoCursors
        /\ commits' = commits \cup {"vehicle"}
     \/ ev = "PressLong" /\ To("Menu") /\ NoCursors /\ UNCHANGED commits
     \/ ev = "None" /\ Cursors(field, v, tank) /\ UNCHANGED <<nav, commits>>
  /\ UNCHANGED <<menu, slot>>

(* The first press on Custom only starts the editing of its value.         *)
InTankPick(d, ev) ==
  LET t == tankPickMove(tank, d) IN
  /\ nav.view = "TankPick"
  /\ \/ /\ ev = "PressShort" /\ tankCommits(t)
        /\ To("Menu") /\ NoCursors
        /\ commits' = commits \cup {"tank"}
     \/ /\ ev = "PressShort" /\ ~tankCommits(t)
        /\ Cursors(field, veh, [t EXCEPT !.editing = TRUE])
        /\ UNCHANGED <<nav, commits>>
     \/ ev = "PressLong" /\ To("Menu") /\ NoCursors /\ UNCHANGED commits
     \/ ev = "None" /\ Cursors(field, veh, t) /\ UNCHANGED <<nav, commits>>
  /\ UNCHANGED <<menu, slot>>

(* A short press dismisses the alarm overlay, if that is up (Gauges), and  *)
(* navigates otherwise.                                                    *)
OnGauges(d, ev) ==
  /\ nav.view \in {"Quad", "Focus"}
  /\ \/ ev = "PressShort" /\ nav' = NavPress(CursorBy(d)) /\ UNCHANGED menu
     \/ ev = "PressShort" /\ nav' = CursorBy(d) /\ UNCHANGED menu
     \/ ev = "PressLong" /\ nav' = [CursorBy(d) EXCEPT !.view = "Menu"]
        /\ menu' = menuReset
     \/ ev = "None" /\ nav' = CursorBy(d) /\ UNCHANGED menu
  /\ UNCHANGED <<field, veh, tank, slot, commits>>

-----------------------------------------------------------------------------
(* What the driver did, whatever the code made of it *)

Sign(d) == IF d > 0 THEN "right" ELSE IF d < 0 THEN "left" ELSE "none"

Nothing == [row |-> NoItem, turned |-> "none"]

(* The destructive row pressed last in this menu, and the hand's last turn *)
(* after that press.                                                       *)
Recall(turned, ev) ==
  consent' =
    IF nav.view # "Menu" \/ nav'.view # "Menu" THEN Nothing
    ELSE IF ev = "PressShort"
    THEN IF menu'.sel \in Destructive \ {consent.row}
         THEN [row |-> menu'.sel, turned |-> "none"] ELSE Nothing
    ELSE IF consent.row = NoItem THEN Nothing
    ELSE [consent EXCEPT !.turned = turned]

(* The contact as it was read, and whether, since the last event, it was   *)
(* released and then pressed, each for the debounce time.                  *)
Follow(raw, gap, ev) ==
  LET for      == IF raw # line.raw THEN 0 ELSE Capped(line.for + gap, Debounce)
      steady   == for >= Debounce
      released == line.released \/ (steady /\ ~raw)
  IN  line' = [raw |-> raw, for |-> for,
               released |-> IF ev # "None" THEN steady /\ ~raw ELSE released,
               pressed  |-> ev = "None" /\ (line.pressed \/ (steady /\ raw /\ line.released))]

(* How long a wipe has waited for loop(), up to Reopen.                    *)
Wait(gap) ==
  waited' = IF slot' = slot /\ slot \in Destructive THEN Capped(waited + gap, Reopen) ELSE 0

Judge(turned, raw, gap, ev) ==
  LET pressed == line.pressed \/ (raw /\ line.raw /\ line.released
                                  /\ line.for + gap >= Debounce)
      unasked == /\ slot' \in Destructive /\ slot' # slot
                 /\ ~(consent.row = slot' /\ turned = "right")
      lost    == slot \in Destructive /\ slot' # slot /\ waited + gap < Reopen
  IN  amiss' = amiss \cup (IF unasked THEN {"unasked"} ELSE {})
                     \cup (IF ev # "None" /\ ~pressed THEN {"stray"} ELSE {})
                     \cup (IF lost THEN {"lost"} ELSE {})

-----------------------------------------------------------------------------
(* One run of update(), with the contact read as raw after a turn of the   *)
(* hand, gap samples after the last one.                                   *)
Sample(raw, turn, gap) ==
  LET contact1 == Debounced(raw, gap)
      count    == Count(pos + turn)
      d        == rotation(count)
      b        == button(contact1.level, gap)
      turned   == IF turn = 0 THEN consent.turned ELSE Sign(turn)
  IN
  /\ Wraps \/ pos + turn \in -HalfRange..(HalfRange - 1)
  /\ contact' = contact1
  /\ pos' = count
  /\ held' = b.next
  /\ \/ InMenu(d, b.ev)
     \/ InTimeSet(b.ev)
     \/ InVehiclePick(d, b.ev)
     \/ InTankPick(d, b.ev)
     \/ OnGauges(d, b.ev)
  /\ Recall(turned, b.ev)
  /\ Follow(raw, gap, b.ev)
  /\ Wait(gap)
  /\ Judge(turned, raw, gap, b.ev)

(* loop() on the render core: consumeMenuAction(), consumeTankCommit() and *)
(* consumeVehicleCommit().                                                 *)
Consume ==
  /\ slot' = NoAction /\ commits' = {} /\ waited' = 0
  /\ UNCHANGED <<contact, held, pos, nav, menu, field, veh, tank, consent,
                 line, amiss>>

Init ==
  /\ contact = [raw |-> FALSE, age |-> Debounce, level |-> FALSE]
  /\ held = Idle
  /\ pos = 0
  /\ nav = [view |-> "Quad", page |-> 1, focus |-> "Trans"]
  /\ menu = menuReset
  /\ field = Closed.field /\ veh = Closed.veh /\ tank = Closed.tank
  /\ slot = NoAction /\ commits = {}
  /\ waited = 0
  /\ consent = Nothing
  /\ line = [raw |-> FALSE, for |-> Debounce, released |-> TRUE, pressed |-> FALSE]
  /\ amiss = {}

Next ==
  \/ \E raw \in BOOLEAN, turn \in Turns, gap \in Gaps : Sample(raw, turn, gap)
  \/ Consume

Spec == Init /\ [][Next]_vars

-----------------------------------------------------------------------------
(* Properties *)

(* The views agree with each other.  The focused stat is on the page that  *)
(* is up, whatever was turned, opened and closed since, except at the      *)
(* start: nav_model.h:9-11 starts on the first page with Trans, which is  *)
(* on the second of the Ford's.  A dialog that is open in the menu is      *)
(* about the row the cursor is on and the row that was pressed last,       *)
(* though a hold closes the menu without closing its dialog; no overlay is *)
(* opened over a dialog, and no half-edited capacity outlives its view.    *)
NavRight ==
  /\ \/ nav.page \in PageOf(profile, nav.focus)
     \/ nav.page = 1 /\ nav.focus = "Trans"
  /\ menu.sel \in ToSet(Visible)
  /\ nav.view = "Menu" => menu.armed \in {NoItem, menu.sel} /\ consent.row = menu.armed
  /\ nav.view \in {"TimeSet", "VehiclePick", "TankPick"} => menu.armed = NoItem
  /\ tank.editing => nav.view = "TankPick" /\ tank.sel = Custom

(* The adapter is forgotten and the trip reset only when the driver asked: *)
(* a press on that row, then a last turn to the right, to Yes, then        *)
(* another press, all in one visit to the menu (settings_menu.cpp:131).    *)
(* The position does not leave its 16 bits here.                           *)
WipeAsked == "unasked" \notin amiss

(* One press, one event: whatever the contact bounces and however late it  *)
(* is read, an event follows a release and a press that each lasted for    *)
(* the debounce time since the event before (encoder_input.cpp:71).        *)
OneEventPerPress == "stray" \notin amiss

(* A confirmed reset or forget is not lost to another choice before it has *)
(* waited for as long as it takes to open the menu and choose again, for   *)
(* the menu has closed (encoder_input.cpp:106, :109).  A loop() that takes *)
(* longer, as it does with the version card up for 4 s (main.cpp:590), may *)
(* lose it.                                                                *)
WipeTaken == "lost" \notin amiss
=============================================================================

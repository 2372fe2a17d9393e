--------------------------- MODULE DashInput_proofs ---------------------------
(***************************************************************************)
(* What the knob's one contact and one position amount to, for every       *)
(* vehicle profile, debounce and hold time, every rhythm the input task    *)
(* samples in and every turn of the hand: one event for one press, nothing *)
(* wiped that the driver did not confirm, and no confirmed wipe lost.      *)
(***************************************************************************)
EXTENDS DashInput, TLAPS

-----------------------------------------------------------------------------
(* The contact as the code debounces it is the contact as it was read; a   *)
(* level that is down was released for the debounce time before, and one   *)
(* that has made no event yet was pressed for it since.                    *)
ContactTypes ==
  /\ contact \in [raw : BOOLEAN, age : 0 .. Debounce, level : BOOLEAN]
  /\ held \in [down : BOOLEAN, for : 0 .. Long, fired : BOOLEAN]
  /\ line \in [raw : BOOLEAN, for : 0 .. Debounce, released : BOOLEAN, pressed : BOOLEAN]

ContactFollows ==
  /\ line.raw = contact.raw /\ line.for = contact.age
  /\ held.down <=> contact.level
  /\ ~contact.level => line.released
  /\ held.down /\ ~held.fired => line.pressed

\* An event of update() in this run of it.
EventOf(raw, gap) == button(Debounced(raw, gap).level, gap).ev

(* An open dialog is about the destructive row pressed last, its choice is *)
(* the last turn of the hand, and neither outlives a visit to the menu.    *)
IsNav  == nav = [view |-> nav.view, page |-> nav.page, focus |-> nav.focus]
IsMenu(m) == /\ m = [sel |-> m.sel, armed |-> m.armed, yes |-> m.yes]
             /\ m.yes \in BOOLEAN

Overlays == {"TimeSet", "VehiclePick", "TankPick"}

DialogKept ==
  /\ IsNav /\ IsMenu(menu)
  /\ consent = [row |-> consent.row, turned |-> consent.turned]
  /\ nav.view # "Menu" => consent = Nothing
  /\ nav.view = "Menu" => consent.row = menu.armed
  /\ nav.view \in Overlays => menu.armed = NoItem

DialogAsked ==
  DialogKept /\ (nav.view = "Menu" /\ menu.armed # NoItem /\ menu.yes => consent.turned = "right")

\* The knob has not been turned out of its 16 bits.
InRange == pos \in -HalfRange .. (HalfRange - 1)

(* While a wipe waits in the slot, it has waited for what the driver's     *)
(* finger has done since: held the knob until the menu opened, let go,     *)
(* pressed, and let go once more.                                          *)
Down == IF contact.raw THEN contact.age ELSE 0
Up   == IF contact.raw THEN 0 ELSE contact.age

WaitedOutside ==
  /\ nav.view \in {"Quad", "Focus"}
  /\ ~contact.level => waited >= Down
  /\ contact.level /\ ~held.fired => waited >= Debounce + held.for

WaitedInMenu ==
  /\ nav.view = "Menu"
  /\ contact.level /\ held.fired => waited >= Long + Debounce
  /\ ~contact.level => waited >= Long + Debounce + Down
  /\ contact.level /\ ~held.fired => waited >= Long + 2 * Debounce + Up

WaitedSince == slot \in Destructive => waited >= Reopen \/ WaitedOutside \/ WaitedInMenu
-----------------------------------------------------------------------------
(* What is assumed of the times, the gaps and the turns.                   *)
LEMMA Constants ==
  /\ HalfRange \in Nat /\ HalfRange >= 1 /\ Debounce \in Nat /\ Debounce >= 1
  /\ Long \in Nat /\ Long >= 1
  /\ \A gap \in Gaps : gap \in Nat /\ gap >= 1
  /\ \A turn \in Turns : turn \in Int
  BY DashInputAssumption

(* What one run of update() does to the contact, the button and the        *)
(* history, whatever view it is in.                                        *)
LEMMA SampleShape ==
  ASSUME NEW raw, NEW turn, NEW gap, Sample(raw, turn, gap)
  PROVE  /\ contact' = Debounced(raw, gap)
         /\ held' = button(Debounced(raw, gap).level, gap).next
         /\ pos' = Count(pos + turn)
         /\ LET d  == rotation(Count(pos + turn))
                ev == EventOf(raw, gap)
                turned == IF turn = 0 THEN consent.turned ELSE Sign(turn)
            IN  /\ \/ InMenu(d, ev) \/ InTimeSet(ev) \/ InVehiclePick(d, ev)
                   \/ InTankPick(d, ev) \/ OnGauges(d, ev)
                /\ Recall(turned, ev) /\ Follow(raw, gap, ev) /\ Wait(gap)
                /\ Judge(turned, raw, gap, ev)
  BY DEF Sample, EventOf

(* The contact: its level follows raw once that has been steady.           *)
LEMMA DebouncedContact ==
  ASSUME ContactTypes, NEW raw \in BOOLEAN, NEW gap \in Gaps
  PROVE  LET c == Debounced(raw, gap)
             age == IF raw # contact.raw THEN 0 ELSE Capped(contact.age + gap, Debounce)
         IN  /\ c \in [raw : BOOLEAN, age : 0 .. Debounce, level : BOOLEAN]
             /\ c.raw = raw /\ c.age = age
             /\ c.level = IF age >= Debounce THEN raw ELSE contact.level
             /\ age \in 0 .. Debounce /\ age <= contact.age + gap
  <1> DEFINE age == IF raw # contact.raw THEN 0 ELSE Capped(contact.age + gap, Debounce)
  <1>1. contact.age \in 0 .. Debounce /\ contact.level \in BOOLEAN /\ gap \in Nat
    BY Constants DEF ContactTypes
  <1>2. age \in 0 .. Debounce /\ age <= contact.age + gap
    BY <1>1, Constants DEF Capped
  <1> HIDE DEF age
  <1>3. Debounced(raw, gap) = [raw |-> raw, age |-> age,
                               level |-> IF age >= Debounce THEN raw ELSE contact.level]
    BY DEF Debounced, age
  <1> QED
    BY <1>1, <1>2, <1>3 DEF age

(* The button: what it makes of a level, and when.                         *)
LEMMA ButtonSteps ==
  ASSUME ContactTypes, NEW pressed \in BOOLEAN, NEW gap \in Gaps
  PROVE  LET b == button(pressed, gap) IN
         /\ b.next \in [down : BOOLEAN, for : 0 .. Long, fired : BOOLEAN]
         /\ b.ev \in {"None", "PressShort", "PressLong"}
         /\ b.next.down <=> pressed
         /\ b.ev = "PressShort" <=> ~pressed /\ held.down /\ ~held.fired
         /\ b.ev = "PressLong" => pressed /\ held.down /\ ~held.fired
                                  /\ b.next.fired /\ held.for + gap >= Long
         /\ pressed /\ ~held.down => ~b.next.fired /\ b.next.for = 0
         /\ pressed /\ held.down /\ b.ev = "None" =>
              /\ b.next.fired = held.fired /\ b.next.for <= held.for + gap
  <1>1. /\ held.for \in 0 .. Long /\ held.down \in BOOLEAN /\ held.fired \in BOOLEAN
        /\ gap \in Nat
    BY Constants DEF ContactTypes
  <1>2. CASE ~pressed
    BY <1>1, <1>2, Constants DEF button, Idle
  <1>3. CASE pressed /\ ~held.down
    <2>1. button(pressed, gap) = [next |-> [down |-> TRUE, for |-> 0, fired |-> FALSE],
                                  ev |-> "None"]
      BY <1>3 DEF button, Idle
    <2>2. /\ button(pressed, gap).ev = "None"
          /\ button(pressed, gap).next.down = TRUE
          /\ button(pressed, gap).next.for = 0
          /\ button(pressed, gap).next.fired = FALSE
      BY <2>1
    <2>3. button(pressed, gap).next \in [down : BOOLEAN, for : 0 .. Long, fired : BOOLEAN]
      BY <2>1, Constants
    <2> QED
      BY <1>3, <2>2, <2>3
  <1>4. CASE pressed /\ held.down
    <2> DEFINE for == Capped(held.for + gap, Long)
               fires == ~held.fired /\ for >= Long
    <2>1. button(pressed, gap) = [next |-> [down |-> TRUE, for |-> for,
                                            fired |-> held.fired \/ fires],
                                  ev |-> IF fires THEN "PressLong" ELSE "None"]
      BY <1>4 DEF button
    <2>2. for \in 0 .. Long /\ for <= held.for + gap /\ (for >= Long => held.for + gap >= Long)
      BY <1>1, Constants DEF Capped
    <2> HIDE DEF for
    <2>3. fires \in BOOLEAN
      OBVIOUS
    <2> HIDE DEF fires
    <2>4. fires => ~held.fired /\ for >= Long
      BY DEF fires
    <2>5. /\ button(pressed, gap).ev = IF fires THEN "PressLong" ELSE "None"
          /\ button(pressed, gap).next.down = TRUE
          /\ button(pressed, gap).next.for = for
          /\ button(pressed, gap).next.fired = (held.fired \/ fires)
      BY <2>1
    <2>6. button(pressed, gap).next \in [down : BOOLEAN, for : 0 .. Long, fired : BOOLEAN]
      BY <1>1, <2>1, <2>2, <2>3
    <2>7. CASE fires
      BY <1>4, <2>2, <2>4, <2>5, <2>6, <2>7
    <2>8. CASE ~fires
      BY <1>1, <1>4, <2>2, <2>5, <2>6, <2>8
    <2> QED
      BY <2>7, <2>8
  <1> QED
    BY <1>2, <1>3, <1>4

(* A run of update() keeps the contact and its history together, and makes *)
(* an event only of a press the history knows.                             *)
LEMMA ContactStep ==
  ASSUME ContactTypes, ContactFollows,
         NEW raw \in BOOLEAN, NEW turn, NEW gap \in Gaps, Sample(raw, turn, gap)
  PROVE  /\ ContactTypes' /\ ContactFollows'
         /\ EventOf(raw, gap) # "None" => line.pressed
  <1> DEFINE ev  == EventOf(raw, gap)
             age == IF raw # contact.raw THEN 0 ELSE Capped(contact.age + gap, Debounce)
  <1>1. /\ contact' \in [raw : BOOLEAN, age : 0 .. Debounce, level : BOOLEAN]
        /\ contact'.raw = raw /\ contact'.age = age /\ age \in 0 .. Debounce
        /\ contact'.level = IF age >= Debounce THEN raw ELSE contact.level
    BY SampleShape, DebouncedContact
  <1>2. /\ held' \in [down : BOOLEAN, for : 0 .. Long, fired : BOOLEAN]
        /\ held'.down <=> contact'.level
        /\ ev \in {"None", "PressShort", "PressLong"}
        /\ ev = "PressShort" <=> ~contact'.level /\ held.down /\ ~held.fired
        /\ ev = "PressLong" => contact'.level /\ held.down /\ ~held.fired /\ held'.fired
        /\ contact'.level /\ held.down /\ ev = "None" => held'.fired = held.fired
    <2>1. contact'.level \in BOOLEAN /\ contact' = Debounced(raw, gap)
      BY <1>1, SampleShape
    <2> QED
      BY <2>1, SampleShape, ButtonSteps DEF EventOf
  <1> HIDE DEF ev
  <1>3. /\ line' = [raw |-> raw, for |-> age,
                    released |-> IF ev # "None" THEN age >= Debounce /\ ~raw
                                 ELSE line.released \/ (age >= Debounce /\ ~raw),
                    pressed |-> /\ ev = "None"
                                /\ line.pressed \/ (age >= Debounce /\ raw /\ line.released)]
    <2>1. Follow(raw, gap, ev) /\ line.raw = contact.raw /\ line.for = contact.age
      BY SampleShape DEF ContactFollows, ev
    <2> QED
      BY <2>1 DEF Follow
  <1> HIDE DEF age
  <1>4. /\ line.released \in BOOLEAN /\ line.pressed \in BOOLEAN
        /\ held.down \in BOOLEAN /\ held.fired \in BOOLEAN /\ contact.level \in BOOLEAN
    BY DEF ContactTypes
  <1>5. ContactTypes'
    BY <1>1, <1>2, <1>3, <1>4 DEF ContactTypes
  <1>6. ev # "None" => line.pressed
    BY <1>2 DEF ContactFollows
  <1>7. ~contact'.level => line'.released
    <2>1. CASE age >= Debounce
      BY <1>1, <1>3, <2>1
    <2>2. CASE ~(age >= Debounce) /\ ~contact.level
      BY <1>1, <1>2, <1>3, <2>2 DEF ContactFollows
    <2> QED
      BY <1>1, <2>1, <2>2
  <1>8. held'.down /\ ~held'.fired => line'.pressed
    <2> SUFFICES ASSUME held'.down, ~held'.fired PROVE line'.pressed
      OBVIOUS
    <2>1. ev = "None" /\ contact'.level
      BY <1>2
    <2>2. CASE held.down
      BY <1>2, <1>3, <2>1, <2>2 DEF ContactFollows
    <2>3. CASE ~held.down
      <3>1. age >= Debounce /\ raw /\ line.released
        BY <1>1, <2>1, <2>3 DEF ContactFollows
      <3> QED
        BY <1>3, <2>1, <3>1
    <2> QED
      BY <2>2, <2>3
  <1>9. line'.raw = contact'.raw /\ line'.for = contact'.age
    BY <1>1, <1>3
  <1> QED
    BY <1>2, <1>5, <1>6, <1>7, <1>8, <1>9 DEF ContactFollows, ev

(* The dash starts with the button up, and with that known.                *)
LEMMA ContactInit == Init => ContactTypes /\ ContactFollows
  BY Constants DEF Init, ContactTypes, ContactFollows, Idle

(* Every step keeps the contact and its history together.                  *)
LEMMA ContactNext ==
  ContactTypes /\ ContactFollows /\ [Next]_vars => ContactTypes' /\ ContactFollows'
  <1> SUFFICES ASSUME ContactTypes, ContactFollows, [Next]_vars
               PROVE  ContactTypes' /\ ContactFollows'
    OBVIOUS
  <1>1. CASE Consume \/ UNCHANGED vars
    BY <1>1 DEF Consume, vars, ContactTypes, ContactFollows
  <1> QED
    BY <1>1, ContactStep DEF Next

(* The contact as debounced is the contact as read, for ever.              *)
THEOREM ContactFollowsHolds == Spec => [](ContactTypes /\ ContactFollows)
  BY ContactInit, ContactNext, PTL DEF Spec

(* One press, one event: whatever the contact bounces and however late it  *)
(* is read, an event follows a release and a press that each lasted for    *)
(* the debounce time since the event before.                               *)
THEOREM OneEventPerPressHolds == Spec => []OneEventPerPress
  <1>1. Init => OneEventPerPress
    BY DEF Init, OneEventPerPress
  <1>2. ContactTypes /\ ContactFollows /\ OneEventPerPress /\ [Next]_vars => OneEventPerPress'
    <2> SUFFICES ASSUME ContactTypes, ContactFollows, OneEventPerPress, [Next]_vars
                 PROVE  OneEventPerPress'
      OBVIOUS
    <2>1. ASSUME NEW raw \in BOOLEAN, NEW turn \in Turns, NEW gap \in Gaps,
                 Sample(raw, turn, gap)
          PROVE  OneEventPerPress'
      <3>1. EventOf(raw, gap) # "None" => line.pressed
        BY <2>1, ContactStep
      <3>2. \E turned : Judge(turned, raw, gap, EventOf(raw, gap))
        BY <2>1, SampleShape
      <3> QED
        BY <3>1, <3>2 DEF Judge, OneEventPerPress
    <2>2. CASE Consume \/ UNCHANGED vars
      BY <2>2 DEF Consume, vars, OneEventPerPress
    <2> QED
      BY <2>1, <2>2 DEF Next
  <1> QED
    BY <1>1, <1>2, ContactFollowsHolds, PTL DEF Spec
-----------------------------------------------------------------------------
(* A turn moves the cursor or, in a dialog, the choice: right for Yes.     *)
LEMMA MenuMoved ==
  ASSUME IsMenu(menu), NEW d
  PROVE  LET m == menuMove(menu, d) IN
         /\ IsMenu(m) /\ m.armed = menu.armed
         /\ menu.armed # NoItem => m.sel = menu.sel /\ m.yes = IF d = 0 THEN menu.yes ELSE d > 0
  <1>1. CASE d = 0
    BY <1>1 DEF menuMove
  <1>2. CASE d # 0 /\ menu.armed # NoItem
    <2>1. menuMove(menu, d) = [menu EXCEPT !.yes = d > 0]
      BY <1>2 DEF menuMove
    <2>2. (d > 0) \in BOOLEAN
      OBVIOUS
    <2> QED
      BY <1>2, <2>1, <2>2 DEF IsMenu
  <1>3. CASE d # 0 /\ menu.armed = NoItem
    <2>1. \E row : menuMove(menu, d) = [menu EXCEPT !.sel = row]
      BY <1>3 DEF menuMove
    <2> QED
      BY <1>3, <2>1 DEF IsMenu
  <1> QED
    BY <1>1, <1>2, <1>3

(* A press on a row: only the second press on a destructive one, with its  *)
(* dialog on Yes, is the row's action; the first opens the dialog on No.   *)
LEMMA RowPressed ==
  ASSUME NEW m, IsMenu(m)
  PROVE  LET a == menuActivate(m) IN
         \/ /\ m.sel \notin Destructive /\ a.act = m.sel
            /\ a.menu = [sel |-> m.sel, armed |-> NoItem, yes |-> m.yes]
         \/ /\ m.sel \in Destructive /\ m.armed # m.sel /\ a.act = NoAction
            /\ a.menu = [sel |-> m.sel, armed |-> m.sel, yes |-> FALSE]
         \/ /\ m.sel \in Destructive /\ m.armed = m.sel
            /\ a.act = IF m.yes THEN m.sel ELSE NoAction
            /\ a.menu = [sel |-> m.sel, armed |-> NoItem, yes |-> FALSE]
  BY DEF menuActivate, IsMenu

(* A press in the menu, from the cursor and choice it leaves behind to the *)
(* slot.                                                                   *)
LEMMA MenuPressed ==
  ASSUME IsNav, IsMenu(menu), nav.view = "Menu", NEW d,
         Activate(menuMove(menu, d))
  PROVE  /\ IsNav' /\ IsMenu(menu)'
         /\ nav'.view = "Menu" =>
              /\ menu'.armed = IF menu'.sel \in Destructive \ {menu.armed}
                               THEN menu'.sel ELSE NoItem
              /\ menu'.armed # NoItem => ~menu'.yes
         /\ nav'.view # "Menu" => menu'.armed = NoItem
         /\ slot' \in Destructive /\ slot' # slot =>
              /\ menu.armed = slot'
              /\ IF d = 0 THEN menu.yes ELSE d > 0
         /\ slot' \in Destructive => slot' = slot \/ nav'.view = "Quad"
  <1> DEFINE m == menuMove(menu, d)
             a == menuActivate(m)
  <1> USE DEF Destructive, NoItem, NoAction
  <1>1. /\ IsMenu(m) /\ m.armed = menu.armed
        /\ menu.armed # NoItem => m.sel = menu.sel /\ m.yes = IF d = 0 THEN menu.yes ELSE d > 0
    BY MenuMoved
  <1>2. \/ /\ m.sel \notin Destructive /\ a.act = m.sel
           /\ a.menu = [sel |-> m.sel, armed |-> NoItem, yes |-> m.yes]
        \/ /\ m.sel \in Destructive /\ m.armed # m.sel /\ a.act = NoAction
           /\ a.menu = [sel |-> m.sel, armed |-> m.sel, yes |-> FALSE]
        \/ /\ m.sel \in Destructive /\ m.armed = m.sel
           /\ a.act = IF m.yes THEN m.sel ELSE NoAction
           /\ a.menu = [sel |-> m.sel, armed |-> NoItem, yes |-> FALSE]
    BY <1>1, RowPressed
  <1>3. /\ menu' = a.menu
        /\ slot' = IF a.act \in {NoAction, "Close", "SetTime", "PickVehicle", "FuelTank"}
                   THEN slot ELSE a.act
        /\ \/ a.act \in Destructive \cup {"Close"} /\ To("Quad")
           \/ a.act = "SetTime" /\ To("TimeSet")
           \/ a.act = "PickVehicle" /\ To("VehiclePick")
           \/ a.act = "FuelTank" /\ To("TankPick")
           \/ /\ a.act \notin Destructive \cup {"Close", "SetTime", "PickVehicle", "FuelTank"}
              /\ nav' = nav
    BY DEF Activate, Chosen
  <1> HIDE DEF m, a
  <1>4. IsNav' /\ (nav'.view = "Quad" \/ nav'.view \in {"TimeSet", "VehiclePick", "TankPick"}
                   \/ nav' = nav)
    BY <1>3 DEF IsNav, To
  <1>6. CASE m.sel \notin Destructive /\ a.act = m.sel
             /\ a.menu = [sel |-> m.sel, armed |-> NoItem, yes |-> m.yes]
    <2>1. menu'.armed = NoItem /\ menu'.sel \notin Destructive /\ IsMenu(menu)'
      BY <1>1, <1>3, <1>6 DEF IsMenu
    <2>2. slot' \notin Destructive \/ slot' = slot
      BY <1>3, <1>6
    <2> QED
      BY <1>4, <2>1, <2>2
  <1>7. CASE m.sel \in Destructive /\ m.armed # m.sel /\ a.act = NoAction
             /\ a.menu = [sel |-> m.sel, armed |-> m.sel, yes |-> FALSE]
    <2>1. menu' = [sel |-> m.sel, armed |-> m.sel, yes |-> FALSE] /\ slot' = slot /\ nav' = nav
      BY <1>3, <1>7
    <2>2. menu'.armed = m.sel /\ menu'.sel = m.sel /\ menu'.yes = FALSE /\ IsMenu(menu)'
      BY <2>1 DEF IsMenu
    <2> QED
      BY <1>1, <1>4, <1>7, <2>1, <2>2
  <1>8. CASE /\ m.sel \in Destructive /\ m.armed = m.sel
             /\ a.act = IF m.yes THEN m.sel ELSE NoAction
             /\ a.menu = [sel |-> m.sel, armed |-> NoItem, yes |-> FALSE]
    <2>1. CASE m.yes
      <3>1. /\ menu' = [sel |-> m.sel, armed |-> NoItem, yes |-> FALSE]
            /\ slot' = m.sel /\ To("Quad")
        BY <1>3, <1>8, <2>1
      <3>2. nav'.view = "Quad"
        BY <3>1 DEF To, IsNav
      <3>3. menu'.armed = NoItem /\ IsMenu(menu)'
        BY <3>1 DEF IsMenu
      <3> QED
        BY <1>1, <1>4, <1>8, <2>1, <3>1, <3>2, <3>3
    <2>2. CASE ~m.yes
      <3>1. menu' = [sel |-> m.sel, armed |-> NoItem, yes |-> FALSE] /\ slot' = slot /\ nav' = nav
        BY <1>3, <1>8, <2>2
      <3>2. menu'.armed = NoItem /\ menu'.sel = menu.armed /\ IsMenu(menu)'
        BY <1>1, <1>8, <3>1 DEF IsMenu
      <3> QED
        BY <1>4, <3>1, <3>2
    <2> QED
      BY <2>1, <2>2
  <1> QED
    BY <1>2, <1>6, <1>7, <1>8

(* Outside the menu nothing is put into the slot, and no dialog opens.     *)
LEMMA OutsideMenu ==
  ASSUME IsNav, IsMenu(menu), nav.view \in Overlays => menu.armed = NoItem,
         NEW d, NEW ev,
         InTimeSet(ev) \/ InVehiclePick(d, ev) \/ InTankPick(d, ev) \/ OnGauges(d, ev)
  PROVE  /\ IsNav' /\ IsMenu(menu)' /\ slot' = slot
         /\ nav'.view \in Overlays \cup {"Menu"} => menu'.armed = NoItem
         /\ nav.view # "Menu"
         /\ ev # "PressLong" /\ nav.view \in {"Quad", "Focus"} =>
              nav'.view \in {"Quad", "Focus"}
         /\ ev = "PressLong" => nav'.view = "Menu"
  <1>1. IsMenu(menuReset) /\ menuReset.armed = NoItem
    BY DEF IsMenu, menuReset
  <1>2. CASE InTimeSet(ev) \/ InVehiclePick(d, ev) \/ InTankPick(d, ev)
    <2>1. /\ nav' = nav \/ nav' = [nav EXCEPT !.view = "Menu"]
          /\ ev = "PressLong" => nav' = [nav EXCEPT !.view = "Menu"]
          /\ UNCHANGED <<menu, slot>> /\ nav.view \in {"TimeSet", "VehiclePick", "TankPick"}
      BY <1>2 DEF InTimeSet, InVehiclePick, InTankPick, To
    <2> QED
      BY <2>1 DEF IsNav, IsMenu, Overlays
  <1>3. CASE OnGauges(d, ev)
    <2>1. CursorBy(d) = [view |-> nav.view, page |-> CursorBy(d).page,
                         focus |-> CursorBy(d).focus]
      BY DEF CursorBy, IsNav
    <2> DEFINE n == CursorBy(d)
    <2>2. n.view = nav.view
      BY <2>1
    <2>3. NavPress(n) = [view |-> NavPress(n).view, page |-> NavPress(n).page,
                         focus |-> NavPress(n).focus]
          /\ NavPress(n).view \in {"Quad", "Focus"}
      BY <2>1 DEF NavPress
    <2>4. /\ nav' \in {n, NavPress(n), [n EXCEPT !.view = "Menu"]}
          /\ ev # "PressLong" => nav' \in {n, NavPress(n)}
          /\ ev = "PressLong" => nav' = [n EXCEPT !.view = "Menu"]
          /\ menu' = IF ev = "PressLong" THEN menuReset ELSE menu
          /\ slot' = slot /\ nav.view \in {"Quad", "Focus"}
      BY <1>3 DEF OnGauges
    <2> HIDE DEF n
    <2>5. IsNav'
      BY <2>1, <2>3, <2>4 DEF IsNav, n
    <2>6. ev = "PressLong" => nav'.view = "Menu"
      BY <2>1, <2>4 DEF n
    <2>7. ev # "PressLong" => nav'.view \in {"Quad", "Focus"}
      BY <2>2, <2>3, <2>4
    <2> QED
      BY <1>1, <2>4, <2>5, <2>6, <2>7 DEF Overlays
  <1> QED
    BY <1>2, <1>3

(* In range, a turn of the hand and a difference of positions are one.     *)
LEMMA TurnIsRead ==
  ASSUME InRange, NEW turn \in Int, pos + turn \in -HalfRange .. (HalfRange - 1)
  PROVE  Count(pos + turn) = pos + turn /\ rotation(Count(pos + turn)) = turn
  <1>1. \A x, y \in Nat : x < y => x % y = x
    OBVIOUS
  <1>2. /\ HalfRange \in Nat /\ pos \in Int
        /\ pos + turn + HalfRange \in Nat /\ 2 * HalfRange \in Nat
        /\ pos + turn + HalfRange < 2 * HalfRange
    BY Constants DEF InRange
  <1>3. (pos + turn + HalfRange) % (2 * HalfRange) = pos + turn + HalfRange
    BY <1>1, <1>2
  <1> QED
    BY <1>2, <1>3 DEF Count, rotation

\* A wipe in the slot that the hand did not ask for, as Judge sees it.
Unasked(turned) == /\ slot' \in Destructive /\ slot' # slot
                   /\ ~(consent.row = slot' /\ turned = "right")

(* A run of update() keeps an open dialog the one of the row that was      *)
(* pressed last, and opens no overlay over it.                             *)
LEMMA DialogKeptStep ==
  ASSUME DialogKept, NEW d, NEW ev, NEW turned, Recall(turned, ev),
         \/ InMenu(d, ev) \/ InTimeSet(ev) \/ InVehiclePick(d, ev)
         \/ InTankPick(d, ev) \/ OnGauges(d, ev)
  PROVE  DialogKept'
  <1>1. /\ IsNav /\ IsMenu(menu)
        /\ consent = [row |-> consent.row, turned |-> consent.turned]
    BY DEF DialogKept
  <1>2. CASE ~InMenu(d, ev)
    <2>1. nav.view # "Menu"
      BY <1>2 DEF InTimeSet, InVehiclePick, InTankPick, OnGauges
    <2>2. /\ IsNav' /\ IsMenu(menu)'
          /\ nav'.view \in Overlays \cup {"Menu"} => menu'.armed = NoItem
      BY <1>1, <1>2, OutsideMenu DEF DialogKept
    <2>3. consent' = Nothing
      BY <2>1 DEF Recall
    <2> QED
      BY <2>2, <2>3 DEF DialogKept, Nothing
  <1>3. CASE InMenu(d, ev)
    <2>1. nav.view = "Menu" /\ consent.row = menu.armed
      BY <1>3 DEF InMenu, DialogKept
    <2>2. CASE ev = "PressShort"
      <3>1. Activate(menuMove(menu, d))
        BY <1>3, <2>2 DEF InMenu
      <3>2. /\ IsNav' /\ IsMenu(menu)'
            /\ nav'.view = "Menu" =>
                 menu'.armed = IF menu'.sel \in Destructive \ {menu.armed}
                               THEN menu'.sel ELSE NoItem
            /\ nav'.view # "Menu" => menu'.armed = NoItem
        BY <1>1, <2>1, <3>1, MenuPressed
      <3>3. consent' = IF nav'.view # "Menu" THEN Nothing
                       ELSE IF menu'.sel \in Destructive \ {menu.armed}
                       THEN [row |-> menu'.sel, turned |-> "none"] ELSE Nothing
        BY <2>1, <2>2 DEF Recall
      <3> QED
        BY <3>2, <3>3 DEF DialogKept, Nothing, Overlays
    <2>3. CASE ev = "PressLong"
      <3>1. nav' = [nav EXCEPT !.view = "Quad"] /\ menu' = menuMove(menu, d)
        BY <1>3, <2>3 DEF InMenu, To
      <3>2. IsNav' /\ nav'.view = "Quad" /\ IsMenu(menu)'
        BY <1>1, <3>1, MenuMoved DEF IsNav
      <3>3. consent' = Nothing
        BY <3>2 DEF Recall
      <3> QED
        BY <3>2, <3>3 DEF DialogKept, Nothing, Overlays
    <2>4. CASE ev = "None"
      <3>1. menu' = menuMove(menu, d) /\ nav' = nav
        BY <1>3, <2>4 DEF InMenu
      <3>2. IsMenu(menu)' /\ menu'.armed = menu.armed
        BY <1>1, <3>1, MenuMoved
      <3>3. consent' = IF consent.row = NoItem THEN Nothing
                       ELSE [consent EXCEPT !.turned = turned]
        BY <2>1, <2>4, <3>1 DEF Recall
      <3>4. /\ consent' = [row |-> consent'.row, turned |-> consent'.turned]
            /\ consent'.row = consent.row
        BY <1>1, <3>3 DEF Nothing
      <3> QED
        BY <1>1, <2>1, <3>1, <3>2, <3>4 DEF DialogKept, IsNav, Overlays
    <2> QED
      BY <1>3, <2>2, <2>3, <2>4 DEF InMenu
  <1> QED
    BY <1>2, <1>3

(* A run of update() keeps the choice in a dialog the driver's last turn,  *)
(* and wipes nothing else than what was chosen so.                         *)
LEMMA DialogStep ==
  ASSUME ContactTypes, DialogAsked, InRange, ~Wraps,
         NEW raw \in BOOLEAN, NEW turn \in Turns, NEW gap \in Gaps, Sample(raw, turn, gap)
  PROVE  /\ DialogAsked' /\ InRange'
         /\ ~Unasked(IF turn = 0 THEN consent.turned ELSE Sign(turn))
  <1> DEFINE d      == rotation(Count(pos + turn))
             ev     == EventOf(raw, gap)
             turned == IF turn = 0 THEN consent.turned ELSE Sign(turn)
  <1>1. /\ d = turn /\ turn \in Int /\ InRange'
    <2>1. turn \in Int /\ pos + turn \in -HalfRange .. (HalfRange - 1)
      BY Constants DEF Sample
    <2> QED
      BY <2>1, TurnIsRead, SampleShape DEF InRange
  <1>2. ev \in {"None", "PressShort", "PressLong"}
    BY ButtonSteps, DebouncedContact DEF EventOf
  <1>3. /\ \/ InMenu(d, ev) \/ InTimeSet(ev) \/ InVehiclePick(d, ev)
           \/ InTankPick(d, ev) \/ OnGauges(d, ev)
        /\ Recall(turned, ev)
    BY SampleShape
  <1>4. d # 0 => (turned = "right" <=> d > 0)
    BY <1>1 DEF Sign
  <1>5. d = 0 => turned = consent.turned
    BY <1>1
  <1> HIDE DEF d, ev, turned
  <1>6. DialogKept /\ IsNav /\ IsMenu(menu)
    BY DEF DialogAsked, DialogKept
  <1>7. DialogKept'
    BY <1>3, <1>6, DialogKeptStep
  <1>8. CASE ~InMenu(d, ev)
    <2>1. slot' = slot /\ (nav'.view = "Menu" => menu'.armed = NoItem)
      BY <1>3, <1>6, <1>8, OutsideMenu DEF DialogKept
    <2> QED
      BY <1>1, <1>7, <2>1 DEF DialogAsked, Unasked
  <1>9. CASE InMenu(d, ev)
    <2>1. nav.view = "Menu" /\ consent.row = menu.armed
      BY <1>6, <1>9 DEF InMenu, DialogKept
    <2>2. CASE ev = "PressShort"
      <3>1. Activate(menuMove(menu, d))
        BY <1>9, <2>2 DEF InMenu
      <3>2. /\ nav'.view = "Menu" /\ menu'.armed # NoItem => ~menu'.yes
            /\ slot' \in Destructive /\ slot' # slot =>
                 /\ menu.armed = slot'
                 /\ IF d = 0 THEN menu.yes ELSE d > 0
        BY <1>6, <2>1, <3>1, MenuPressed
      <3>3. ~Unasked(turned)
        <4> SUFFICES ASSUME slot' \in Destructive, slot' # slot
                     PROVE  consent.row = slot' /\ turned = "right"
          BY DEF Unasked
        <4>1. menu.armed = slot' /\ menu.armed # NoItem
          BY <3>2 DEF Destructive, NoItem
        <4>2. CASE d = 0
          BY <1>5, <3>2, <4>1, <4>2, <2>1 DEF DialogAsked
        <4>3. CASE d # 0
          BY <1>4, <2>1, <3>2, <4>1, <4>3
        <4> QED
          BY <4>2, <4>3
      <3> QED
        BY <1>1, <1>7, <3>2, <3>3 DEF DialogAsked, turned
    <2>3. CASE ev = "PressLong"
      <3>1. nav' = [nav EXCEPT !.view = "Quad"] /\ slot' = slot
        BY <1>9, <2>3 DEF InMenu, To
      <3>2. nav'.view = "Quad"
        BY <1>6, <3>1 DEF IsNav
      <3> QED
        BY <1>1, <1>7, <3>1, <3>2 DEF DialogAsked, Unasked
    <2>4. CASE ev = "None"
      <3>1. menu' = menuMove(menu, d) /\ nav' = nav /\ slot' = slot
        BY <1>9, <2>4 DEF InMenu
      <3>2. /\ menu'.armed = menu.armed
            /\ menu.armed # NoItem => menu'.yes = IF d = 0 THEN menu.yes ELSE d > 0
        BY <1>6, <3>1, MenuMoved
      <3>3. consent.row # NoItem => consent' = [consent EXCEPT !.turned = turned]
        BY <1>3, <2>1, <2>4, <3>1 DEF Recall
      <3>4. consent.row # NoItem => consent'.turned = turned
        BY <1>6, <3>3 DEF DialogKept
      <3>5. menu'.armed # NoItem /\ menu'.yes => consent'.turned = "right"
        BY <1>4, <1>5, <2>1, <3>2, <3>4 DEF DialogAsked
      <3> QED
        BY <1>1, <1>7, <3>1, <3>5 DEF DialogAsked, Unasked
    <2> QED
      BY <1>2, <2>2, <2>3, <2>4
  <1> QED
    BY <1>8, <1>9

(* The dash starts with the menu shut, its cursor on a row.                *)
LEMMA DialogInit == Init => DialogKept
  <1> SUFFICES ASSUME Init PROVE DialogKept
    OBVIOUS
  <1>1. IsNav /\ nav.view = "Quad"
    BY DEF Init, IsNav
  <1>2. IsMenu(menu)
    BY DEF Init, IsMenu, menuReset
  <1>3. consent = Nothing
    BY DEF Init
  <1> QED
    BY <1>1, <1>2, <1>3 DEF DialogKept, Nothing, Overlays

(* Every step keeps an open dialog the one of the row pressed last.        *)
LEMMA DialogNext == DialogKept /\ [Next]_vars => DialogKept'
  <1> SUFFICES ASSUME DialogKept, [Next]_vars PROVE DialogKept'
    OBVIOUS
  <1>1. ASSUME NEW raw \in BOOLEAN, NEW turn \in Turns, NEW gap \in Gaps,
               Sample(raw, turn, gap)
        PROVE  DialogKept'
    <2>1. \E d, ev, turned :
            /\ Recall(turned, ev)
            /\ \/ InMenu(d, ev) \/ InTimeSet(ev) \/ InVehiclePick(d, ev)
               \/ InTankPick(d, ev) \/ OnGauges(d, ev)
      BY <1>1, SampleShape
    <2> QED
      BY <2>1, DialogKeptStep
  <1>2. CASE Consume \/ UNCHANGED vars
    BY <1>2 DEF Consume, vars, DialogKept, IsNav, IsMenu
  <1> QED
    BY <1>1, <1>2 DEF Next

(* The adapter is forgotten and the trip reset only when the driver asked: *)
(* a press on that row, then a last turn to the right, to Yes, then        *)
(* another press, all in one visit to the menu.                            *)
THEOREM WipeAskedHolds ==
  ASSUME ~Wraps
  PROVE  Spec => []WipeAsked
  <1> DEFINE Inv == DialogAsked /\ InRange /\ WipeAsked
  <1>1. Init => Inv
    <2> SUFFICES ASSUME Init PROVE Inv
      OBVIOUS
    <2>1. nav.view = "Quad" /\ WipeAsked
      BY DEF Init, WipeAsked
    <2>2. InRange
      BY Constants DEF Init, InRange
    <2> QED
      BY <2>1, <2>2, DialogInit DEF DialogAsked
  <1>2. ContactTypes /\ Inv /\ [Next]_vars => Inv'
    <2> SUFFICES ASSUME ContactTypes, Inv, [Next]_vars PROVE Inv'
      OBVIOUS
    <2>1. ASSUME NEW raw \in BOOLEAN, NEW turn \in Turns, NEW gap \in Gaps,
                 Sample(raw, turn, gap)
          PROVE  Inv'
      <3> DEFINE turned == IF turn = 0 THEN consent.turned ELSE Sign(turn)
      <3>1. DialogAsked' /\ InRange' /\ ~Unasked(turned)
        BY <2>1, DialogStep
      <3>2. Judge(turned, raw, gap, EventOf(raw, gap))
        BY <2>1, SampleShape
      <3> HIDE DEF turned
      <3>3. WipeAsked'
        BY <3>1, <3>2 DEF Judge, Unasked, WipeAsked
      <3> QED
        BY <3>1, <3>3
    <2>2. CASE Consume \/ UNCHANGED vars
      BY <2>2 DEF Consume, vars, DialogAsked, DialogKept, IsNav, IsMenu, InRange, WipeAsked
    <2> QED
      BY <2>1, <2>2 DEF Next
  <1>3. Inv => WipeAsked
    OBVIOUS
  <1> QED
    BY <1>1, <1>2, <1>3, ContactFollowsHolds, PTL DEF Spec
-----------------------------------------------------------------------------
(* What a run of update() does to the contact's level and to the button,   *)
(* and by how much either has been held longer.                            *)
LEMMA ContactMoves ==
  ASSUME ContactTypes, ContactFollows,
         NEW raw \in BOOLEAN, NEW turn, NEW gap \in Gaps, Sample(raw, turn, gap)
  PROVE  LET ev == EventOf(raw, gap) IN
         /\ gap \in Nat /\ held.for \in Nat /\ held'.for \in Nat
         /\ Down \in Nat /\ Down' \in Nat /\ Down' <= Down + gap
         /\ Up \in Nat /\ Up' \in Nat /\ Up' <= Up + gap
         /\ contact'.level /\ ~contact.level => Down + gap >= Debounce /\ Up' = 0
         /\ ~contact'.level /\ contact.level => Up + gap >= Debounce /\ Down' = 0
         /\ ev = "PressShort" <=> contact.level /\ ~contact'.level /\ ~held.fired
         /\ ev = "PressLong" => /\ contact.level /\ contact'.level /\ ~held.fired
                                /\ held'.fired /\ held.for + gap >= Long
         /\ contact'.level /\ ~contact.level => ~held'.fired /\ held'.for = 0
         /\ contact'.level /\ contact.level /\ ev = "None" =>
              held'.fired = held.fired /\ held'.for <= held.for + gap
         /\ ev \in {"None", "PressShort", "PressLong"}
  <1> DEFINE ev  == EventOf(raw, gap)
             age == IF raw # contact.raw THEN 0 ELSE Capped(contact.age + gap, Debounce)
  <1>1. /\ contact'.raw = raw /\ contact'.age = age /\ age \in 0 .. Debounce
        /\ age <= contact.age + gap
        /\ contact'.level = IF age >= Debounce THEN raw ELSE contact.level
        /\ contact'.level \in BOOLEAN /\ contact' = Debounced(raw, gap)
    BY SampleShape, DebouncedContact
  <1>2. raw # contact.raw => age = 0
    OBVIOUS
  <1> HIDE DEF ev, age
  <1>3. /\ contact.raw \in BOOLEAN /\ contact.level \in BOOLEAN /\ contact.age \in Nat
        /\ held.for \in Nat /\ gap \in Nat /\ Debounce \in Nat /\ Debounce >= 1 /\ Long \in Nat
        /\ age \in Nat
    BY <1>1, Constants DEF ContactTypes
  <1>4. /\ Down \in Nat /\ Down' \in Nat /\ Down' <= Down + gap
        /\ Up \in Nat /\ Up' \in Nat /\ Up' <= Up + gap
    BY <1>1, <1>2, <1>3 DEF Down, Up
  <1>5. /\ contact'.level /\ ~contact.level => Down + gap >= Debounce /\ Up' = 0
        /\ ~contact'.level /\ contact.level => Up + gap >= Debounce /\ Down' = 0
    <2> SUFFICES ASSUME contact'.level # contact.level
                 PROVE  IF contact'.level THEN Down + gap >= Debounce /\ Up' = 0
                                          ELSE Up + gap >= Debounce /\ Down' = 0
      BY <1>3
    <2>1. age >= Debounce /\ contact'.level = raw /\ contact.raw = raw /\ contact'.raw = raw
      BY <1>1, <1>2, <1>3
    <2> QED
      BY <1>1, <1>3, <2>1 DEF Down, Up
  <1>6. /\ held' = button(contact'.level, gap).next /\ ev = button(contact'.level, gap).ev
        /\ held.down <=> contact.level
    BY <1>1, SampleShape DEF EventOf, ContactFollows, ev
  <1>7. held'.for \in Nat
    BY <1>1, <1>3, <1>6, ButtonSteps
  <1>8. /\ ev = "PressShort" <=> ~contact'.level /\ held.down /\ ~held.fired
        /\ ev = "PressLong" => contact'.level /\ held.down /\ ~held.fired
                               /\ held'.fired /\ held.for + gap >= Long
        /\ contact'.level /\ ~held.down => ~held'.fired /\ held'.for = 0
        /\ contact'.level /\ held.down /\ ev = "None" =>
             held'.fired = held.fired /\ held'.for <= held.for + gap
        /\ ev \in {"None", "PressShort", "PressLong"}
    BY <1>1, <1>6, ButtonSteps
  <1> QED
    BY <1>3, <1>4, <1>5, <1>6, <1>7, <1>8 DEF ev

(* A run of update() keeps the accounts of how long a wipe has waited, and *)
(* puts something over it only when it has waited for Reopen.              *)
LEMMA WaitedStep ==
  ASSUME ContactTypes, ContactTypes', ContactFollows, DialogKept, WaitedSince, waited \in Nat,
         NEW raw \in BOOLEAN, NEW turn \in Turns, NEW gap \in Gaps, Sample(raw, turn, gap)
  PROVE  /\ WaitedSince' /\ waited' \in Nat
         /\ slot \in Destructive => slot' = slot \/ waited + gap >= Reopen
  <1> DEFINE d  == rotation(Count(pos + turn))
             ev == EventOf(raw, gap)
  <1>1. /\ \/ InMenu(d, ev) \/ InTimeSet(ev) \/ InVehiclePick(d, ev)
           \/ InTankPick(d, ev) \/ OnGauges(d, ev)
        /\ waited' = IF slot' = slot /\ slot \in Destructive
                     THEN Capped(waited + gap, Reopen) ELSE 0
    BY SampleShape DEF Wait
  <1>2. /\ gap \in Nat /\ held.for \in Nat /\ held'.for \in Nat
        /\ Down \in Nat /\ Down' \in Nat /\ Down' <= Down + gap
        /\ Up \in Nat /\ Up' \in Nat /\ Up' <= Up + gap
    BY ContactMoves
  <1>3. /\ contact'.level /\ ~contact.level => Down + gap >= Debounce /\ Up' = 0
        /\ ~contact'.level /\ contact.level => Up + gap >= Debounce /\ Down' = 0
    BY ContactMoves
  <1>4. /\ ev = "PressShort" <=> contact.level /\ ~contact'.level /\ ~held.fired
        /\ ev = "PressLong" => /\ contact.level /\ contact'.level /\ ~held.fired
                               /\ held'.fired /\ held.for + gap >= Long
        /\ contact'.level /\ ~contact.level => ~held'.fired /\ held'.for = 0
        /\ contact'.level /\ contact.level /\ ev = "None" =>
             held'.fired = held.fired /\ held'.for <= held.for + gap
        /\ ev \in {"None", "PressShort", "PressLong"}
    BY ContactMoves
  <1>5. /\ Debounce \in Nat /\ Long \in Nat /\ waited' \in Nat
        /\ Reopen = Long + 3 * Debounce
        /\ Down' <= Debounce /\ Up' <= Debounce /\ held'.for <= Long
    BY <1>1, <1>2, Constants DEF Capped, Reopen, ContactTypes, Down, Up
  <1> HIDE DEF d, ev
  <1>6. slot' \in Destructive /\ slot' # slot => WaitedOutside'
    <2> SUFFICES ASSUME slot' \in Destructive, slot' # slot PROVE WaitedOutside'
      OBVIOUS
    <2>1. InMenu(d, ev) /\ ev = "PressShort"
      BY <1>1 DEF InMenu, InTimeSet, InVehiclePick, InTankPick, OnGauges
    <2>2. nav'.view = "Quad"
      BY <2>1, MenuPressed DEF InMenu, DialogKept
    <2>3. ~contact'.level /\ contact.level /\ Down' = 0
      BY <1>3, <1>4, <2>1
    <2> QED
      BY <1>5, <2>2, <2>3 DEF WaitedOutside
  <1>7. CASE slot \notin Destructive
    BY <1>5, <1>6, <1>7 DEF WaitedSince
  <1>8. CASE slot \in Destructive /\ slot' # slot
    <2>1. InMenu(d, ev) /\ ev = "PressShort" /\ nav.view = "Menu"
      BY <1>1, <1>8 DEF InMenu, InTimeSet, InVehiclePick, InTankPick, OnGauges
    <2>2. waited + gap >= Reopen
      <3>1. CASE waited >= Reopen
        BY <1>2, <1>5, <3>1
      <3>2. CASE WaitedInMenu
        <4>1. Up + gap >= Debounce /\ waited >= Long + 2 * Debounce + Up
          BY <1>3, <1>4, <2>1, <3>2 DEF WaitedInMenu
        <4> QED
          BY <1>2, <1>5, <4>1
      <3> QED
        BY <1>8, <2>1, <3>1, <3>2 DEF WaitedSince, WaitedOutside
    <2> QED
      BY <1>5, <1>6, <1>8, <2>2 DEF WaitedSince
  <1>9. CASE slot \in Destructive /\ slot' = slot
    <2>1. waited' = IF waited + gap < Reopen THEN waited + gap ELSE Reopen
      BY <1>1, <1>9 DEF Capped
    <2>2. Reopen \in Nat
      BY <1>5
    <2>3. CASE waited >= Reopen
      BY <1>2, <1>5, <1>9, <2>1, <2>2, <2>3 DEF WaitedSince
    <2>4. CASE WaitedOutside
      <3>1. nav.view \in {"Quad", "Focus"} /\ ~InMenu(d, ev)
        BY <2>4 DEF WaitedOutside, InMenu
      <3>2. /\ ev # "PressLong" => nav'.view \in {"Quad", "Focus"}
            /\ ev = "PressLong" => nav'.view = "Menu"
        BY <1>1, <3>1, OutsideMenu DEF DialogKept
      <3>3. CASE ev = "PressLong"
        <4>1. contact'.level /\ held'.fired /\ waited' >= Long + Debounce
          BY <1>2, <1>4, <1>5, <2>1, <2>4, <3>3 DEF WaitedOutside
        <4> QED
          <5>1. ~(contact'.level /\ ~held'.fired) /\ contact'.level
            BY <4>1
          <5>2. WaitedInMenu'
            BY <3>2, <3>3, <4>1, <5>1 DEF WaitedInMenu
          <5> QED
            BY <1>5, <1>9, <5>2 DEF WaitedSince
      <3>4. CASE ev # "PressLong"
        <4>1. ~contact'.level => waited' >= Down'
          BY <1>2, <1>3, <1>5, <2>1, <2>4 DEF WaitedOutside
        <4>2. contact'.level /\ ~held'.fired => waited' >= Debounce + held'.for
          <5> SUFFICES ASSUME contact'.level, ~held'.fired
                       PROVE  waited' >= Debounce + held'.for
            OBVIOUS
          <5>1. CASE contact.level
            BY <1>2, <1>4, <1>5, <2>1, <2>4, <3>4, <5>1 DEF WaitedOutside
          <5>2. CASE ~contact.level
            BY <1>2, <1>3, <1>4, <1>5, <2>1, <2>4, <5>2 DEF WaitedOutside
          <5> QED
            BY <5>1, <5>2
        <4> QED
          <5>1. WaitedOutside'
            BY <3>2, <3>4, <4>1, <4>2 DEF WaitedOutside
          <5> QED
            BY <1>5, <1>9, <5>1 DEF WaitedSince
      <3> QED
        BY <1>9, <3>3, <3>4
    <2>5. CASE WaitedInMenu /\ ev = "PressShort"
      <3>1. Up + gap >= Debounce /\ waited >= Long + 2 * Debounce + Up
        BY <1>3, <1>4, <2>5 DEF WaitedInMenu
      <3>2. waited' >= Reopen
        BY <1>2, <1>5, <2>1, <3>1
      <3> QED
        BY <1>5, <1>9, <3>2 DEF WaitedSince
    <2>6. CASE WaitedInMenu /\ ev # "PressShort"
      <3>1. InMenu(d, ev)
        BY <1>1, <2>6 DEF WaitedInMenu, InTimeSet, InVehiclePick, InTankPick, OnGauges
      <3>2. CASE ev = "PressLong"
        <4>1. nav' = [nav EXCEPT !.view = "Quad"]
          BY <3>1, <3>2 DEF InMenu, To
        <4>2. nav'.view = "Quad" /\ contact'.level /\ held'.fired
          BY <1>4, <3>2, <4>1 DEF DialogKept, IsNav
        <4> QED
          BY <1>5, <1>9, <4>2 DEF WaitedSince, WaitedOutside
      <3>3. CASE ev = "None"
        <4>1. nav' = nav /\ nav'.view = "Menu"
          BY <2>6, <3>1, <3>3 DEF InMenu, WaitedInMenu
        <4>2. contact'.level /\ held'.fired => waited' >= Long + Debounce
          BY <1>2, <1>4, <1>5, <2>1, <2>6, <3>3 DEF WaitedInMenu
        <4>3. ~contact'.level => waited' >= Long + Debounce + Down'
          <5> SUFFICES ASSUME ~contact'.level PROVE waited' >= Long + Debounce + Down'
            OBVIOUS
          <5>1. CASE contact.level
            <6>1. held.fired /\ Down' = 0
              BY <1>3, <1>4, <3>3, <5>1
            <6>2. waited >= Long + Debounce
              BY <2>6, <5>1, <6>1 DEF WaitedInMenu
            <6> QED
              BY <1>2, <1>5, <2>1, <6>1, <6>2 DEF Down
          <5>2. CASE ~contact.level
            <6>1. waited >= Long + Debounce + Down
              BY <2>6, <5>2 DEF WaitedInMenu
            <6>2. Down' <= Down + gap
              BY <1>2
            <6> QED
              BY <1>2, <1>5, <2>1, <6>1, <6>2 DEF Down
          <5> QED
            BY <5>1, <5>2
        <4>4. contact'.level /\ ~held'.fired => waited' >= Long + 2 * Debounce + Up'
          <5> SUFFICES ASSUME contact'.level, ~held'.fired
                       PROVE  waited' >= Long + 2 * Debounce + Up'
            OBVIOUS
          <5>1. CASE contact.level
            <6>1. ~held.fired
              BY <1>4, <3>3, <5>1
            <6>2. waited >= Long + 2 * Debounce + Up
              BY <2>6, <5>1, <6>1 DEF WaitedInMenu
            <6>3. waited + gap >= Long + 2 * Debounce + Up'
              BY <1>2, <1>5, <6>2 DEF Up
            <6>4. Reopen >= Long + 2 * Debounce + Up'
              BY <1>2, <1>5 DEF Up
            <6> QED
              BY <2>1, <6>3, <6>4
          <5>2. CASE ~contact.level
            <6>1. waited >= Long + Debounce + Down /\ Down + gap >= Debounce /\ Up' = 0
              BY <1>3, <2>6, <5>2 DEF WaitedInMenu
            <6>2. Down' <= Down + gap
              BY <1>2
            <6> QED
              BY <1>2, <1>5, <2>1, <6>1, <6>2 DEF Down
          <5> QED
            BY <5>1, <5>2
        <4> QED
          <5>1. WaitedInMenu'
            BY <4>1, <4>2, <4>3, <4>4 DEF WaitedInMenu
          <5> QED
            BY <1>5, <1>9, <5>1 DEF WaitedSince
      <3> QED
        BY <1>4, <1>9, <2>6, <3>2, <3>3
    <2> QED
      BY <1>9, <2>3, <2>4, <2>5, <2>6 DEF WaitedSince
  <1> QED
    BY <1>7, <1>8, <1>9

(* A confirmed reset or forget is not lost to another choice before it has *)
(* waited for a long press, its release and a short press, each of them    *)
(* debounced: that long it takes to open the menu and to choose again.     *)
THEOREM WipeTakenHolds == Spec => []WipeTaken
  <1> DEFINE Inv == WaitedSince /\ waited \in Nat /\ WipeTaken
  <1>1. Init => Inv
    BY DEF Init, WaitedSince, NoAction, Destructive, WipeTaken
  <1>2. /\ ContactTypes /\ ContactTypes' /\ ContactFollows /\ DialogKept
        /\ Inv /\ [Next]_vars
        => Inv'
    <2> SUFFICES ASSUME ContactTypes, ContactTypes', ContactFollows, DialogKept, Inv,
                        [Next]_vars
                 PROVE  Inv'
      OBVIOUS
    <2>1. ASSUME NEW raw \in BOOLEAN, NEW turn \in Turns, NEW gap \in Gaps,
                 Sample(raw, turn, gap)
          PROVE  Inv'
      <3>1. /\ WaitedSince' /\ waited' \in Nat
            /\ slot \in Destructive => slot' = slot \/ waited + gap >= Reopen
        BY <2>1, WaitedStep
      <3>2. \E turned : Judge(turned, raw, gap, EventOf(raw, gap))
        BY <2>1, SampleShape
      <3>3. ~(waited + gap < Reopen) <=> waited + gap >= Reopen
        BY Constants DEF Reopen
      <3> QED
        BY <3>1, <3>2, <3>3 DEF Judge, WipeTaken
    <2>2. CASE Consume
      BY <2>2 DEF Consume, WaitedSince, NoAction, Destructive, WipeTaken
    <2>3. CASE UNCHANGED vars
      BY <2>3 DEF vars, WaitedSince, WaitedOutside, WaitedInMenu, Down, Up, WipeTaken
    <2> QED
      BY <2>1, <2>2, <2>3 DEF Next
  <1>3. Inv => WipeTaken
    OBVIOUS
  <1> QED
    BY <1>1, <1>2, <1>3, ContactFollowsHolds, DialogInit, DialogNext, PTL DEF Spec
-----------------------------------------------------------------------------
(* The views.  The focused stat is on the page, except at the start.       *)
PageSound(n) ==
  n.page \in PageOf(profile, n.focus) \/ (n.page = 1 /\ n.focus = "Trans")

Views == {"Quad", "Focus", "Menu", "TimeSet", "VehiclePick", "TankPick"}

IsTank(t) == t = [sel |-> t.sel, editing |-> t.editing] /\ t.editing \in BOOLEAN

\* What the cursors of the overlays are, given the view.
CursorsSound ==
  /\ IsTank(tank) /\ (tank.editing => nav.view = "TankPick" /\ tank.sel = Custom)
  /\ veh \in 0 .. Vehicles /\ field \in 0 .. 4

DialogSound ==
  /\ IsMenu(menu) /\ menu.sel \in ToSet(Visible)
  /\ menu.armed \in {NoItem, menu.sel}

ViewsSound ==
  /\ IsNav /\ nav.view \in Views /\ PageSound(nav)
  /\ DialogSound /\ CursorsSound /\ pos \in Int

(* A remainder is below its divisor.                                       *)
LEMMA Remainder == ASSUME NEW a \in Int, NEW n \in Nat \ {0} PROVE a % n \in 0 .. n - 1
  OBVIOUS

(* What the tables of the active profile and of the menu give the cursor.  *)
LEMMA Tables ==
  /\ Len(readingOrder) \in Nat \ {0}
  /\ \A i \in 1 .. Len(readingOrder) : IsDisplayed(profile, readingOrder[i])
  /\ \A i, j \in 1 .. Len(readingOrder) : readingOrder[i] = readingOrder[j] => i = j
  /\ Visible \in Seq(ToSet(Items)) /\ Items[1] \in ToSet(Visible)
  /\ Vehicles \in Nat /\ Presets \in Nat
  <1>1. Key \in Keys /\ Hidden \in SUBSET Optional /\ Vehicles \in Nat /\ Presets \in Nat
    BY DashInputAssumption
  <1>2. /\ Len(readingOrder) \in Nat \ {0}
        /\ \A i \in 1 .. Len(readingOrder) : IsDisplayed(profile, readingOrder[i])
        /\ \A i, j \in 1 .. Len(readingOrder) : readingOrder[i] = readingOrder[j] => i = j
    BY <1>1, OrderAssumption, Zenon DEF profile, readingOrder
  <1>3. Visible \in Seq(ToSet(Items)) /\ Items[1] \in ToSet(Visible)
    BY <1>1, MenuAssumption, Zenon DEF Visible
  <1> QED
    BY <1>1, <1>2, <1>3

(* A stat that is shown has a page, and the page is one that it is on.     *)
LEMMA PageFound ==
  ASSUME NEW stat
  PROVE  IF IsDisplayed(profile, stat) THEN readoutPageOf(stat) \in PageOf(profile, stat)
                                       ELSE readoutPageOf(stat) = 1
  BY DEF readoutPageOf, IsDisplayed

(* A turn goes to a stat that is shown.                                    *)
LEMMA AfterShown == ASSUME NEW d \in Int PROVE IsDisplayed(profile, After(d))
  <1> DEFINE n     == Len(readingOrder)
             at    == {i \in 1 .. n : readingOrder[i] = nav.focus}
             start == IF at = {} THEN 1 ELSE CHOOSE i \in at : \A j \in at : i <= j
             k     == ((start - 1 + d) % n) + 1
  <1>1. n \in Nat \ {0} /\ \A i \in 1 .. n : IsDisplayed(profile, readingOrder[i])
    BY Tables
  <1>2. After(d) = readingOrder[k]
    BY DEF After
  <1>3. at # {} => \E i \in at : \A j \in at : i <= j
    BY <1>1, Tables
  <1>4. start \in 1 .. n
    <2>1. at \subseteq 1 .. n /\ 1 \in 1 .. n
      BY <1>1
    <2> HIDE DEF at, n
    <2> QED
      BY <1>3, <2>1
  <1> HIDE DEF start, n
  <1>5. k \in 1 .. n
    <2>1. start - 1 + d \in Int
      BY <1>1, <1>4
    <2>2. (start - 1 + d) % n \in 0 .. n - 1
      BY <1>1, <2>1, Remainder
    <2> QED
      BY <1>1, <2>2
  <1> HIDE DEF k
  <1> QED
    BY <1>1, <1>2, <1>5

(* A turn goes to a stat that is shown, and to its page; a press stays.    *)
LEMMA CursorSound ==
  ASSUME IsNav, PageSound(nav), NEW d \in Int
  PROVE  LET n == CursorBy(d) IN
         /\ n = [view |-> nav.view, page |-> n.page, focus |-> n.focus] /\ PageSound(n)
  <1>1. CASE d = 0
    BY <1>1 DEF CursorBy, IsNav
  <1>2. CASE d # 0
    <2> DEFINE f == After(d)
    <2>1. CursorBy(d) = [nav EXCEPT !.focus = f, !.page = readoutPageOf(f)]
      BY <1>2 DEF CursorBy
    <2>2. IsDisplayed(profile, f)
      BY AfterShown
    <2> HIDE DEF f
    <2>3. CursorBy(d) = [view |-> nav.view, page |-> readoutPageOf(f), focus |-> f]
      BY <2>1 DEF IsNav
    <2> QED
      BY <2>2, <2>3, PageFound DEF PageSound
  <1> QED
    BY <1>1, <1>2

(* A short press on a gauge goes back to the page of what is focused.      *)
LEMMA PressSound ==
  ASSUME NEW n, n = [view |-> n.view, page |-> n.page, focus |-> n.focus], PageSound(n)
  PROVE  LET p == NavPress(n) IN
         /\ p = [view |-> p.view, page |-> p.page, focus |-> p.focus]
         /\ p.view \in {"Quad", "Focus"} /\ PageSound(p)
  <1>1. CASE n.view = "Quad"
    <2>1. NavPress(n) = [view |-> "Focus", page |-> n.page, focus |-> n.focus]
      BY <1>1 DEF NavPress
    <2> QED
      BY <2>1 DEF PageSound
  <1>2. CASE n.view # "Quad"
    <2>1. NavPress(n) = [view |-> "Quad", page |-> readoutPageOf(n.focus), focus |-> n.focus]
      BY <1>2 DEF NavPress
    <2>2. ~IsDisplayed(profile, n.focus) => n.focus = "Trans"
      BY DEF PageSound, IsDisplayed
    <2> QED
      BY <2>1, <2>2, PageFound DEF PageSound
  <1> QED
    BY <1>1, <1>2

(* A turn in the menu ends on a row that is shown.                         *)
LEMMA RowSound ==
  ASSUME DialogSound, NEW d \in Int
  PROVE  LET m == menuMove(menu, d) IN
         /\ IsMenu(m) /\ m.armed = menu.armed /\ m.sel \in ToSet(Visible)
         /\ m.armed # NoItem => m.sel = menu.sel
  <1>1. /\ IsMenu(menuMove(menu, d)) /\ menuMove(menu, d).armed = menu.armed
        /\ menu.armed # NoItem => menuMove(menu, d).sel = menu.sel
    BY MenuMoved DEF DialogSound
  <1>2. CASE d = 0 \/ menu.armed # NoItem
    BY <1>1, <1>2 DEF menuMove, DialogSound
  <1>3. CASE d # 0 /\ menu.armed = NoItem
    <2> DEFINE n == Len(Visible)
               i == CHOOSE j \in 1 .. n : Visible[j] = menu.sel
               k == ((i - 1 + d) % n) + 1
    <2>1. n \in Nat /\ DOMAIN Visible = 1 .. n /\ n # 0
      <3>1. Visible \in Seq(ToSet(Items)) /\ Items[1] \in ToSet(Visible)
        BY Tables
      <3>2. DOMAIN Visible # {}
        BY <3>1 DEF ToSet
      <3> QED
        BY <3>1, <3>2
    <2>2. menuMove(menu, d) = [menu EXCEPT !.sel = Visible[k]]
      BY <1>3 DEF menuMove
    <2>3. \E j \in 1 .. n : Visible[j] = menu.sel
      BY <2>1 DEF DialogSound, ToSet
    <2>4. i \in 1 .. n
      BY <2>3
    <2> HIDE DEF i, n
    <2>5. k \in 1 .. n
      <3>1. i - 1 + d \in Int /\ n \in Nat \ {0}
        BY <2>1, <2>4
      <3>2. (i - 1 + d) % n \in 0 .. n - 1
        BY <3>1, Remainder
      <3> QED
        BY <3>1, <3>2
    <2> HIDE DEF k
    <2>6. Visible[k] \in ToSet(Visible)
      BY <2>1, <2>5 DEF ToSet
    <2>7. menuMove(menu, d).sel = Visible[k]
      BY <2>2 DEF DialogSound, IsMenu
    <2> QED
      BY <1>1, <2>6, <2>7
  <1> QED
    BY <1>1, <1>2, <1>3

(* A press in the menu, to whatever it leads.                              *)
LEMMA ChosenSound ==
  ASSUME ViewsSound, nav.view = "Menu", NEW d \in Int, Activate(menuMove(menu, d))
  PROVE  (IsNav /\ nav.view \in Views /\ PageSound(nav) /\ DialogSound /\ CursorsSound)'
  <1> DEFINE m == menuMove(menu, d)
             a == menuActivate(m)
  <1> USE DEF Destructive, NoItem, NoAction
  <1>1. IsMenu(m) /\ m.sel \in ToSet(Visible) /\ m.armed = menu.armed
    BY RowSound DEF ViewsSound
  <1>2. \/ /\ m.sel \notin Destructive /\ a.act = m.sel
           /\ a.menu = [sel |-> m.sel, armed |-> NoItem, yes |-> m.yes]
        \/ /\ m.sel \in Destructive /\ m.armed # m.sel /\ a.act = NoAction
           /\ a.menu = [sel |-> m.sel, armed |-> m.sel, yes |-> FALSE]
        \/ /\ m.sel \in Destructive /\ m.armed = m.sel
           /\ a.act = IF m.yes THEN m.sel ELSE NoAction
           /\ a.menu = [sel |-> m.sel, armed |-> NoItem, yes |-> FALSE]
    BY <1>1, RowPressed
  <1>3. /\ menu' = a.menu
        /\ \/ a.act \in Destructive \cup {"Close"} /\ To("Quad") /\ NoCursors
           \/ a.act = "SetTime" /\ To("TimeSet") /\ NoCursors
           \/ /\ a.act = "PickVehicle" /\ To("VehiclePick")
              /\ \E v \in 0 .. Vehicles : Cursors(Closed.field, v, Closed.tank)
           \/ /\ a.act = "FuelTank" /\ To("TankPick")
              /\ \E t \in tankPickSeed : Cursors(Closed.field, Closed.veh, t)
           \/ /\ a.act \notin Destructive \cup {"Close", "SetTime", "PickVehicle", "FuelTank"}
              /\ nav' = nav /\ NoCursors
    BY DEF Activate, Chosen
  <1> HIDE DEF m, a
  <1>4. IsNav' /\ nav'.view \in Views /\ PageSound(nav)'
    <2>1. nav' = nav \/ \E v \in Views : nav' = [nav EXCEPT !.view = v]
      BY <1>3 DEF To, Views
    <2> QED
      BY <2>1 DEF ViewsSound, IsNav, PageSound
  <1>5. CursorsSound'
    <2>1. /\ Closed.field = 0 /\ Closed.veh = 0
          /\ Closed.tank = [sel |-> 0, editing |-> Closed.tank.editing]
          /\ Closed.tank.editing = FALSE
      BY DEF Closed
    <2>2. /\ field' = 0 /\ veh' \in 0 .. Vehicles
          /\ tank' = Closed.tank \/ tank' \in tankPickSeed
      BY <1>3, <2>1, Tables DEF Cursors, NoCursors
    <2>3. IsTank(tank)' /\ tank'.editing = FALSE
      <3>1. CASE tank' = Closed.tank
        BY <2>1, <3>1 DEF IsTank
      <3>2. CASE tank' \in tankPickSeed
        <4>1. tank' \in [sel : 0 .. (TankRows - 1), editing : {FALSE}]
          BY <3>2 DEF tankPickSeed
        <4> QED
          BY <4>1 DEF IsTank
      <3> QED
        BY <2>2, <3>1, <3>2
    <2> QED
      BY <2>2, <2>3 DEF CursorsSound
  <1>6. DialogSound'
    <2>1. \E armed \in {NoItem, m.sel} : \E yes \in BOOLEAN :
            a.menu = [sel |-> m.sel, armed |-> armed, yes |-> yes]
      BY <1>1, <1>2 DEF IsMenu
    <2>2. IsMenu(a.menu) /\ a.menu.sel = m.sel /\ a.menu.armed \in {NoItem, m.sel}
      BY <2>1 DEF IsMenu
    <2> QED
      BY <1>1, <1>3, <2>2 DEF DialogSound
  <1> QED
    BY <1>4, <1>5, <1>6

(* A step within one of the views keeps the views in agreement.            *)
LEMMA ViewStep ==
  ASSUME ViewsSound, NEW d \in Int, NEW ev,
         \/ InMenu(d, ev) \/ InTimeSet(ev) \/ InVehiclePick(d, ev)
         \/ InTankPick(d, ev) \/ OnGauges(d, ev)
  PROVE  (IsNav /\ nav.view \in Views /\ PageSound(nav) /\ DialogSound /\ CursorsSound)'
  <1> USE DEF Views
  <1>1. /\ IsNav /\ nav.view \in Views /\ PageSound(nav) /\ DialogSound /\ CursorsSound
    BY DEF ViewsSound
  <1>2. /\ menuReset = [sel |-> Items[1], armed |-> NoItem, yes |-> menuReset.yes]
        /\ menuReset.yes \in BOOLEAN
    BY DEF menuReset
  <1>3. IsMenu(menuReset) /\ menuReset.sel \in ToSet(Visible) /\ menuReset.armed = NoItem
    BY <1>2, Tables DEF IsMenu
  <1>4. ASSUME NEW view \in Views, To(view) PROVE IsNav' /\ nav'.view = view /\ PageSound(nav)'
    BY <1>1, <1>4 DEF To, IsNav, PageSound
  <1>5. ASSUME NoCursors PROVE CursorsSound'
    <2>1. /\ Closed.field = 0 /\ Closed.veh = 0
          /\ Closed.tank = [sel |-> 0, editing |-> Closed.tank.editing]
          /\ Closed.tank.editing \in BOOLEAN /\ ~Closed.tank.editing
      BY DEF Closed
    <2>2. field' = 0 /\ veh' = 0 /\ tank' = Closed.tank
      BY <1>5, <2>1 DEF NoCursors, Cursors
    <2> QED
      BY <2>1, <2>2, Tables DEF CursorsSound, IsTank
  <1>6. CASE InMenu(d, ev)
    <2>1. CASE ev = "PressShort"
      BY <1>6, <2>1, ChosenSound DEF InMenu
    <2>2. CASE ev = "PressLong"
      <3>1. To("Quad") /\ menu' = menuMove(menu, d) /\ NoCursors
        BY <1>6, <2>2 DEF InMenu
      <3>2. DialogSound'
        BY <1>1, <3>1, RowSound DEF DialogSound
      <3> QED
        BY <1>4, <1>5, <3>1, <3>2
    <2>3. CASE ev = "None"
      <3>1. menu' = menuMove(menu, d) /\ UNCHANGED <<nav, field, veh, tank>> /\ nav.view = "Menu"
        BY <1>6, <2>3 DEF InMenu
      <3>2. DialogSound'
        BY <1>1, <3>1, RowSound DEF DialogSound
      <3> QED
        BY <1>1, <3>1, <3>2 DEF IsNav, PageSound, CursorsSound, IsTank
    <2> QED
      BY <1>6, <2>1, <2>2, <2>3 DEF InMenu
  <1>7. ASSUME UNCHANGED menu PROVE DialogSound'
    BY <1>1, <1>7 DEF DialogSound, IsMenu
  <1>8. CASE InTimeSet(ev)
    <2>1. nav.view = "TimeSet" /\ UNCHANGED menu /\ tank.editing = FALSE
      BY <1>1, <1>8 DEF InTimeSet, CursorsSound, IsTank
    <2>2. CASE To("Menu") /\ NoCursors
      BY <1>4, <1>5, <1>7, <2>1, <2>2
    <2>3. CASE Cursors((field + 1) % 5, veh, tank) /\ UNCHANGED nav
      <3>1. (field + 1) % 5 \in 0 .. 4
        BY <1>1 DEF CursorsSound
      <3> QED
        BY <1>1, <1>7, <2>1, <2>3, <3>1 DEF Cursors, CursorsSound, IsTank, IsNav, PageSound
    <2>4. CASE UNCHANGED <<nav, field, veh, tank>>
      BY <1>1, <1>7, <2>1, <2>4 DEF CursorsSound, IsTank, IsNav, PageSound
    <2> QED
      BY <1>8, <2>2, <2>3, <2>4 DEF InTimeSet
  <1>9. CASE InVehiclePick(d, ev)
    <2>1. nav.view = "VehiclePick" /\ UNCHANGED menu /\ tank.editing = FALSE
      BY <1>1, <1>9 DEF InVehiclePick, CursorsSound, IsTank
    <2>2. CASE To("Menu") /\ NoCursors
      BY <1>4, <1>5, <1>7, <2>1, <2>2
    <2>3. CASE Cursors(field, (veh + d) % (Vehicles + 1), tank) /\ UNCHANGED nav
      <3>1. veh + d \in Int /\ Vehicles + 1 \in Nat \ {0}
        BY <1>1, Tables DEF CursorsSound
      <3>2. (veh + d) % (Vehicles + 1) \in 0 .. (Vehicles + 1) - 1
        BY <3>1, Remainder
      <3>3. (veh + d) % (Vehicles + 1) \in 0 .. Vehicles
        BY <3>2, Tables
      <3> QED
        BY <1>1, <1>7, <2>1, <2>3, <3>3 DEF Cursors, CursorsSound, IsTank, IsNav, PageSound
    <2> QED
      BY <1>9, <2>2, <2>3 DEF InVehiclePick
  <1>10. CASE InTankPick(d, ev)
    <2> DEFINE t == tankPickMove(tank, d)
    <2>1. nav.view = "TankPick" /\ UNCHANGED menu
      BY <1>10 DEF InTankPick
    <2>2. IsTank(t) /\ t.editing = tank.editing /\ (tank.editing => t = tank)
      BY <1>1 DEF tankPickMove, CursorsSound, IsTank
    <2>3. /\ \/ To("Menu") /\ NoCursors
             \/ /\ ~tankCommits(t) /\ Cursors(field, veh, [t EXCEPT !.editing = TRUE])
                /\ UNCHANGED nav
             \/ Cursors(field, veh, t) /\ UNCHANGED nav
      BY <1>10 DEF InTankPick
    <2> HIDE DEF t
    <2>4. CASE To("Menu") /\ NoCursors
      BY <1>4, <1>5, <1>7, <2>1, <2>4
    <2>5. CASE /\ ~tankCommits(t) /\ Cursors(field, veh, [t EXCEPT !.editing = TRUE])
               /\ UNCHANGED nav
      <3>1. t.sel = Custom
        BY <2>5 DEF tankCommits
      <3>2. IsTank(tank)' /\ tank'.sel = Custom
        BY <2>2, <2>5, <3>1 DEF Cursors, IsTank
      <3> QED
        BY <1>1, <1>7, <2>1, <2>5, <3>2 DEF Cursors, CursorsSound, IsNav, PageSound
    <2>6. CASE Cursors(field, veh, t) /\ UNCHANGED nav
      <3>1. IsTank(tank)' /\ (tank'.editing => tank'.sel = Custom)
        BY <1>1, <2>2, <2>6 DEF Cursors, CursorsSound, IsTank
      <3> QED
        BY <1>1, <1>7, <2>1, <2>6, <3>1 DEF Cursors, CursorsSound, IsNav, PageSound
    <2> QED
      BY <2>3, <2>4, <2>5, <2>6
  <1>11. CASE OnGauges(d, ev)
    <2> DEFINE n == CursorBy(d)
    <2>1. n = [view |-> nav.view, page |-> n.page, focus |-> n.focus] /\ PageSound(n)
      BY <1>1, CursorSound
    <2>2. /\ nav.view \in {"Quad", "Focus"}
          /\ \/ nav' \in {n, NavPress(n)} /\ UNCHANGED menu
             \/ nav' = [n EXCEPT !.view = "Menu"] /\ menu' = menuReset
          /\ UNCHANGED <<field, veh, tank>>
      BY <1>11 DEF OnGauges
    <2> HIDE DEF n
    <2>3. n.view = nav.view /\ n = [view |-> n.view, page |-> n.page, focus |-> n.focus]
      BY <2>1
    <2>4. IsNav' /\ nav'.view \in Views /\ PageSound(nav)'
      <3>1. CASE nav' = n
        BY <1>1, <2>1, <2>3, <3>1 DEF IsNav, PageSound
      <3>2. CASE nav' = NavPress(n)
        BY <2>1, <2>3, <3>2, PressSound DEF IsNav, PageSound
      <3>3. CASE nav' = [n EXCEPT !.view = "Menu"]
        BY <2>1, <2>3, <3>3 DEF IsNav, PageSound
      <3> QED
        BY <2>2, <3>1, <3>2, <3>3
    <2>5. DialogSound'
      BY <1>3, <1>7, <2>2 DEF DialogSound
    <2>6. CursorsSound'
      BY <1>1, <2>2 DEF CursorsSound, IsTank
    <2> QED
      BY <2>4, <2>5, <2>6
  <1> QED
    BY <1>6, <1>8, <1>9, <1>10, <1>11

(* The views agree with each other, whatever is turned, pressed and held:  *)
(* page and focus, dialog and cursor, and no half-edited capacity outlives *)
(* its view.                                                               *)
THEOREM NavRightHolds == Spec => []NavRight
  <1>1. Init => ViewsSound
    <2> SUFFICES ASSUME Init PROVE ViewsSound
      OBVIOUS
    <2>1. IsNav /\ nav.view \in Views /\ PageSound(nav) /\ pos \in Int
      BY Tables DEF Init, IsNav, Views, PageSound
    <2>2. /\ menu = [sel |-> Items[1], armed |-> NoItem, yes |-> menu.yes]
          /\ menu.yes \in BOOLEAN
      BY DEF Init, menuReset
    <2>3. DialogSound
      BY <2>2, Tables DEF DialogSound, IsMenu
    <2>4. /\ tank = [sel |-> 0, editing |-> tank.editing]
          /\ tank.editing \in BOOLEAN /\ ~tank.editing
          /\ field = 0 /\ veh = 0
      BY DEF Init, Closed
    <2>5. CursorsSound
      BY <2>4, Tables DEF CursorsSound, IsTank
    <2> QED
      BY <2>1, <2>3, <2>5 DEF ViewsSound
  <1>2. ViewsSound /\ [Next]_vars => ViewsSound'
    <2> SUFFICES ASSUME ViewsSound, [Next]_vars PROVE ViewsSound'
      OBVIOUS
    <2>1. ASSUME NEW raw \in BOOLEAN, NEW turn \in Turns, NEW gap \in Gaps,
                 Sample(raw, turn, gap)
          PROVE  ViewsSound'
      <3> DEFINE d == rotation(Count(pos + turn))
      <3>1. pos + turn + HalfRange \in Int /\ 2 * HalfRange \in Nat \ {0} /\ HalfRange \in Int
        BY Constants DEF ViewsSound
      <3>2. (pos + turn + HalfRange) % (2 * HalfRange) \in 0 .. 2 * HalfRange - 1
        BY <3>1, Remainder
      <3>3. pos' = Count(pos + turn) /\ Count(pos + turn) \in Int
        BY <2>1, <3>1, <3>2, SampleShape DEF Count
      <3>4. d \in Int
        BY <3>3 DEF rotation, ViewsSound
      <3> HIDE DEF d
      <3>5. \E ev : \/ InMenu(d, ev) \/ InTimeSet(ev) \/ InVehiclePick(d, ev)
                    \/ InTankPick(d, ev) \/ OnGauges(d, ev)
        BY <2>1, SampleShape DEF d
      <3> QED
        BY <3>3, <3>4, <3>5, ViewStep DEF ViewsSound
    <2>2. CASE Consume \/ UNCHANGED vars
      BY <2>2 DEF Consume, vars, ViewsSound, IsNav, PageSound, DialogSound, IsMenu,
                  CursorsSound, IsTank
    <2> QED
      BY <2>1, <2>2 DEF Next
  <1>3. ViewsSound /\ DialogKept => NavRight
    BY DEF ViewsSound, PageSound, DialogSound, DialogKept, CursorsSound, Overlays, NavRight
  <1> QED
    BY <1>1, <1>2, <1>3, DialogInit, DialogNext, PTL DEF Spec
=============================================================================

----------------------------- MODULE WifiStore ------------------------------
(***************************************************************************)
(* The WiFi credentials (src/src/wifi_cred_store.cpp) and the portal that  *)
(* edits them (src/src/ota_portal.cpp): the handlers change the list in    *)
(* memory and save it to flash one key at a time.  The power can be cut    *)
(* between any two writes, each of which is whole or not made at all, and  *)
(* while the namespace is cleared, item by item.                           *)
(***************************************************************************)
EXTENDS Integers, Sequences, FiniteSets

CONSTANTS Ssid, Pass,   \* what a phone may send; Blank is the empty string
          Blank,
          Max           \* WIFI_CRED_MAX

VARIABLES portal,   \* otaPortalRun() is serving
          list,     \* g_list
          keys,     \* the namespace "wifi": n, and s and p of each index
          todo,     \* the writes credSave() still has to make
          geo,      \* the keys lat, lon and tz, each as the save that wrote it
          meant,    \* history: the list of the last save that cleared the keys
          kept      \* history: how much of it the keys hold: "all", the "first"
                    \* networks (a cut in its save) or "some" (one in a clear)

vars == <<portal, list, keys, todo, geo, meant, kept>>

NoKey == [n |-> 0, s |-> [i \in 1..Max |-> Blank], p |-> [i \in 1..Max |-> Blank]]

Entry(s, p) == [ssid |-> s, pass |-> p]

credFind(l, ssid) == {i \in 1..Len(l) : l[i].ssid = ssid}

(* The same SSID gets the new password; a new one is refused when full.    *)
credAdd(l, ssid, pass) ==
  IF ssid = Blank THEN l
  ELSE IF credFind(l, ssid) # {}
  THEN [i \in 1..Len(l) |-> IF i \in credFind(l, ssid) THEN Entry(ssid, pass) ELSE l[i]]
  ELSE IF Len(l) >= Max THEN l
  ELSE Append(l, Entry(ssid, pass))

credRemove(l, i) ==
  IF i \notin 1..Len(l) THEN l
  ELSE SubSeq(l, 1, i - 1) \o SubSeq(l, i + 1, Len(l))

(* credLoad(): an index without an SSID is passed over.                    *)
credLoad(k) ==
  LET load[i \in 0..Max] ==
        IF i = 0 THEN << >>
        ELSE IF i > k.n THEN load[i - 1]
        ELSE credAdd(load[i - 1], k.s[i], k.p[i])
  IN  load[Max]

(* The writes of credSave(), in its order.                                 *)
Put(key, i, val) == [key |-> key, i |-> i, val |-> val]

credSaveClearsLate(l) ==
  [j \in 1..(2 * Len(l) + 2) |->
     LET i == (j - 1) \div 2
     IN  IF j = 1 THEN Put("n", 0, Len(l)) ELSE IF j = 2 THEN Put("clear", 0, 0)
         ELSE IF j % 2 = 1 THEN Put("s", i, l[i].ssid) ELSE Put("p", i, l[i].pass)]

credSave(l) ==
  <<Put("clear", 0, 0), Put("n", 0, Len(l))>> \o
  [j \in 1..(2 * Len(l)) |->
     LET i == (j + 1) \div 2
     IN  IF j % 2 = 1 THEN Put("s", i, l[i].ssid) ELSE Put("p", i, l[i].pass)]

(* The writes of a location that passed the checks of its handler.         *)
SaveLocation(v) == [i \in 1..3 |-> Put(<<"lat", "lon", "tz">>[i], 0, v)]

Init ==
  /\ portal = FALSE
  /\ list = << >>
  /\ keys = NoKey
  /\ todo = << >>
  /\ geo = [lat |-> 0, lon |-> 0, tz |-> 0]
  /\ meant = << >>
  /\ kept = "all"

(* The menu's WiFi set-up, until Done or the five minutes are over; the    *)
(* board then restarts.                                                    *)
OpenPortal ==
  /\ ~portal
  /\ portal' = TRUE
  /\ list' = credLoad(keys)
  /\ UNCHANGED <<keys, todo, geo, meant, kept>>

ClosePortal ==
  /\ portal /\ todo = << >>
  /\ portal' = FALSE
  /\ list' = << >>
  /\ UNCHANGED <<keys, todo, geo, meant, kept>>

Save(l) ==
  /\ list' = l
  /\ todo' = credSave(l)
  /\ UNCHANGED <<portal, keys, geo, meant, kept>>

(* A handler saves whether or not the list has changed.                    *)
Add(ssid, pass) ==
  /\ portal /\ todo = << >>
  /\ Save(credAdd(list, ssid, pass))

(* The index is the one on the page the phone loaded, now or earlier.      *)
Del(i) ==
  /\ portal /\ todo = << >>
  /\ Save(credRemove(list, i))

Loc ==
  /\ portal /\ todo = << >>
  /\ \E v \in 0..1 : todo' = SaveLocation(v)
  /\ UNCHANGED <<portal, list, keys, geo, meant, kept>>

(* The clear removes the items of the namespace in whatever order it finds *)
(* them; no item is as good as an empty one.                               *)
Erase ==
  /\ todo # << >> /\ Head(todo).key = "clear"
  /\ keys' \in {[keys EXCEPT !.n = 0]}
               \cup {[keys EXCEPT !.s[i] = Blank] : i \in 1..Max}
               \cup {[keys EXCEPT !.p[i] = Blank] : i \in 1..Max}
  /\ keys' # keys
  /\ kept' = "some"
  /\ UNCHANGED <<portal, list, todo, geo, meant>>

WriteKey ==
  /\ todo # << >>
  /\ Head(todo).key = "clear" => keys = NoKey
  /\ todo' = Tail(todo)
  /\ LET w == Head(todo) IN
       /\ keys' = IF w.key = "n" THEN [keys EXCEPT !.n = w.val]
                  ELSE IF w.key = "s" THEN [keys EXCEPT !.s[w.i] = w.val]
                  ELSE IF w.key = "p" THEN [keys EXCEPT !.p[w.i] = w.val]
                  ELSE keys
       /\ geo' = IF w.key \in DOMAIN geo THEN [geo EXCEPT ![w.key] = w.val] ELSE geo
       /\ meant' = IF w.key = "clear" THEN list ELSE meant
       /\ kept' = IF w.key = "clear" THEN "all" ELSE kept
  /\ UNCHANGED <<portal, list>>

(* In the middle of a save of the credentials, its keys already cleared.   *)
Saving == todo # << >> /\ Head(todo).key \in {"n", "s", "p"}

PowerCut ==
  /\ portal
  /\ portal' = FALSE
  /\ list' = << >>
  /\ todo' = << >>
  /\ kept' = IF Saving THEN "first" ELSE kept
  /\ UNCHANGED <<keys, geo, meant>>

Next ==
  \/ OpenPortal \/ ClosePortal
  \/ \E s \in Ssid : \E p \in Pass : Add(s, p)
  \/ \E i \in 1..Max : Del(i)
  \/ Loc
  \/ Erase \/ WriteKey
  \/ PowerCut

-----------------------------------------------------------------------------
(* Properties *)

(* What a load finds is what was last saved, network for network.  A cut   *)
(* in the middle of a save loses networks from the end of the list (all of *)
(* them at worst, for the keys are cleared first), and can leave the last  *)
(* one that is found without its password.  A cut in the clear can lose    *)
(* any network or password of the list before.  Neither mixes two lists,   *)
(* pairs a network with another's password or finds one that was removed   *)
(* (wifi_cred_store.cpp:57).                                               *)
CredsKept ==
  LET found == credLoad(keys)
      lost(e, i) == e = Entry(meant[i].ssid, Blank)
  IN
  /\ \A e \in {found[i] : i \in 1..Len(found)} :
       \E i \in 1..Len(meant) : e = meant[i] \/ lost(e, i)
  /\ kept # "some" =>
       /\ Len(found) <= Len(meant)
       /\ \A i \in 1..Len(found) :
            found[i] = meant[i] \/ (i = Len(found) /\ lost(found[i], i))
  /\ kept = "all" /\ ~Saving => found = meant
=============================================================================

------------------------------- MODULE SdLog --------------------------------
(***************************************************************************)
(* The CSV log on the SD card: logTick() (src/src/sd_log.cpp), called by   *)
(* the OBD task on every round.  One file stands for those that get the    *)
(* same name, as when the clock is stuck.  Time is kept as ages, in units  *)
(* of the shortest time between two rows.                                  *)
(***************************************************************************)
EXTENDS Integers

CONSTANTS Retry,     \* the 30 s between two attempts to mount, in units
          MaxRows    \* bound: rows in the file

VARIABLES card,      \* the card: "out", "full" (writes are cut short), "good"
          mount,     \* the card in the slot is the one that was mounted
          linked, enabled,     \* the arguments of logTick()
          clock,     \* the RTC has been read
          log,       \* s_status, s_open, the age of s_lastRow
          lastRetry, \* an age; 0 is also the time of the boot
          file,      \* what is in the file: its header, its rows
          logn,      \* the session counter in NVS, modulo 2
          heads      \* history: headers written whole

vars == <<card, mount, linked, enabled, clock, log, lastRetry, file, logn, heads>>

(* sdBegin()                                                               *)
Mounted(c) == [status |-> IF c = "out" THEN "NoCard" ELSE "Off", open |-> FALSE,
               lastRow |-> 1]

Mount ==
  /\ log' = [Mounted(card) EXCEPT !.lastRow = log.lastRow]
  /\ mount' = (card # "out")

Init ==
  /\ card = "out" /\ mount = FALSE
  /\ linked = FALSE /\ enabled = TRUE /\ clock = FALSE
  /\ log = Mounted(card)
  /\ lastRetry = 0
  /\ file = [header |-> "none", rows |-> 0]
  /\ logn = 0
  /\ heads = 0

-----------------------------------------------------------------------------
(* logTick() *)

Faulted == log.status \in {"NoCard", "Err"}

RemountParked ==
  /\ Faulted /\ ~linked
  /\ lastRetry >= Retry
  /\ lastRetry' = 0
  /\ Mount
  /\ UNCHANGED <<file, logn, heads>>

(* A fault is retried at most every thirty seconds.                        *)
Remount ==
  /\ Faulted
  /\ lastRetry >= Retry
  /\ lastRetry' = 0
  /\ Mount
  /\ UNCHANGED <<file, logn, heads>>

(* The file is closed in both of the cases that do not log.                *)
StayOff ==
  /\ ~Faulted
  /\ ~enabled \/ ~linked
  /\ log' = [log EXCEPT !.open = FALSE, !.status = "Off"]
  /\ UNCHANGED <<mount, lastRetry, file, logn, heads>>

(* A card that was pulled answers nothing, put back or not, until it is    *)
(* mounted anew.                                                           *)
Medium == IF mount THEN card ELSE "out"

(* openFile(): to append, with a header only into an empty file; a stamp   *)
(* of 0 makes the first row due at once.  A result is what is known of the *)
(* file and what is in it.                                                 *)
On(f)  == [log |-> [status |-> "On", open |-> TRUE, lastRow |-> 1], file |-> f]
Err(f) == [log |-> [status |-> "Err", open |-> FALSE, lastRow |-> log.lastRow],
           file |-> f]

openFileAnew ==
  IF log.open THEN {[log |-> log, file |-> file]}
  ELSE IF Medium # "good" THEN {Err(file)}
  ELSE {On([header |-> "whole", rows |-> 0])}

openFile ==
  IF log.open THEN {[log |-> log, file |-> file]}
  ELSE IF Medium = "out" THEN {Err(file)}
  ELSE IF file.header # "none" THEN {On(file)}
  ELSE IF Medium = "good" THEN {On([file EXCEPT !.header = "whole"])}
  ELSE {Err([file EXCEPT !.header = h]) : h \in {"none", "torn"}}

(* A row, once a second, flushed at once.                                  *)
writeRow(o) ==
  IF ~o.log.open \/ o.log.lastRow < 1 THEN o
  ELSE IF Medium = "good"
  THEN [log  |-> [o.log EXCEPT !.lastRow = 0],
        file |-> [o.file EXCEPT !.rows = IF @ < MaxRows THEN @ + 1 ELSE @]]
  ELSE [o EXCEPT !.log = [status |-> "Err", open |-> FALSE, lastRow |-> 0]]

Log ==
  /\ ~Faulted
  /\ enabled /\ linked
  /\ logn' = IF log.open \/ clock THEN logn ELSE (logn + 1) % 2
  /\ \E o \in openFile :
       /\ log' = writeRow(o).log
       /\ file' = writeRow(o).file
       /\ heads' = IF file.header = "none" /\ o.file.header = "whole"
                   THEN heads + 1 ELSE heads
  /\ UNCHANGED <<mount, lastRetry>>

LogTick ==
  /\ Remount \/ StayOff \/ Log
  /\ UNCHANGED <<card, linked, enabled, clock>>

-----------------------------------------------------------------------------
(* The card, the link, the menu, the clock, and time *)

Card(c) ==
  /\ card' = c
  /\ mount' = (mount /\ c # "out")
  /\ UNCHANGED <<linked, enabled, clock, log, lastRetry, file, logn, heads>>

LinkChange ==
  /\ linked' = ~linked
  /\ UNCHANGED <<card, mount, enabled, clock, log, lastRetry, file, logn, heads>>

ToggleLogging ==
  /\ enabled' = ~enabled
  /\ UNCHANGED <<card, mount, linked, clock, log, lastRetry, file, logn, heads>>

ClockRead ==
  /\ clock' = TRUE
  /\ UNCHANGED <<card, mount, linked, enabled, log, lastRetry, file, logn, heads>>

Tick ==
  /\ lastRetry' = IF lastRetry < Retry THEN lastRetry + 1 ELSE lastRetry
  /\ log' = [log EXCEPT !.lastRow = 1]
  /\ UNCHANGED <<card, mount, linked, enabled, clock, file, logn, heads>>

PowerCut ==
  /\ log' = Mounted(card) /\ mount' = (card # "out")
  /\ linked' = FALSE /\ clock' = FALSE
  /\ lastRetry' = 0
  /\ UNCHANGED <<card, enabled, file, logn, heads>>

Next ==
  \/ LogTick
  \/ \E c \in {"out", "full", "good"} : Card(c)
  \/ LinkChange \/ ToggleLogging \/ ClockRead
  \/ Tick
  \/ PowerCut

(* The OBD task comes round, and time passes.                              *)
Fairness == WF_vars(LogTick) /\ WF_vars(Tick)

-----------------------------------------------------------------------------
(* Properties *)

(* Nothing that reached the card is lost to a later opening: the rows of a *)
(* file only grow, over remounts, restarts and a name used again, and its  *)
(* header stands once, before every row (sd_log.cpp:84).                   *)
LogKept ==
  /\ [][file'.rows >= file.rows]_vars
  /\ [](heads <= 1 /\ (file.rows > 0 => file.header # "none"))

(* A fault is not for ever: while a good card is in, logging is on and the *)
(* link is up, logging comes back, whatever failed before (sd_log.cpp:109). *)
LogRecovers ==
  <>[](card = "good" /\ linked /\ enabled) => <>[](log.status = "On" /\ log.open)
=============================================================================

---------------------------- MODULE RekeyWatchdog ----------------------------
(***************************************************************************)
(* The watchdog thread of a PTK receiver against the clock.  The writer    *)
(* (system_manager.py on the AP, sta_passphrase.py on the STA) puts the    *)
(* time of a rekey in a trigger file; the watchdog polls the file and      *)
(* disconnects WiFi when no PTK has been installed once Timeout has        *)
(* passed.  ptk_receiver_ap.py and ptk_receiver_sta.py run the same code,  *)
(* each on a file of its own; this is either of them.                      *)
(*                                                                         *)
(* Time is counted in units no step is shorter than: everything but        *)
(* sleeping and disconnecting takes no time, in whatever order.            *)
(***************************************************************************)
EXTENDS Naturals

CONSTANTS
    Timeout,   \* HANDSHAKE_TIMEOUT, 30 s
    Period,    \* from one poll to the next: sleep(5), and the time iw takes
    Gap,       \* from one mark of a running writer to the next, at least
    MaxTime,   \* bound: the clock
    IwFails    \* an iw may fail, hang or exit with an error

\* With the default REKEY_INTERVAL (60 s) and HANDSHAKE_TIMEOUT they are 30 s, at
\* most 9 s and at least 55 s: on the AP a disconnect runs iw twice for at most
\* 2 s; on the STA an ACK may follow its request by 6 to 21 s and the requests
\* follow each other by 70 s when it takes more than 10.
ASSUME ClockAssumption ==
    /\ Timeout \in Nat \ {0} /\ Period \in Nat \ {0}
    /\ Gap \in Nat /\ MaxTime \in Nat
    /\ Timeout + 2 * Period < Gap

ASSUME IwAssumption == IwFails \in BOOLEAN

VARIABLES
    now,           \* time.time(); 0 is before any time
    writer,        \* "open" while the writer has truncated the file
    nextMark,      \* when the writer is ready for its next mark
    trigger,       \* time in the trigger file, 0 when it is absent or empty
    up,            \* the receiver is running
    installTime,   \* last_ptk_install_time
    pc,            \* watchdog thread
    rekeyTime,     \* rekey_time
    handled,       \* last_handled_rekey
    timer,         \* time since the last poll began
    started,       \* history: when the receiver was started
    mark,          \* history: the last time marked
    inTime,        \* history: a PTK was installed less than Timeout after mark
    dropped,       \* history: the last trigger that disconnected WiFi
    kept           \* history: the last trigger whose disconnect failed in iw

writerVars == <<writer, nextMark, trigger, mark>>
dogVars == <<pc, rekeyTime, handled, timer>>
attempts == <<dropped, kept>>
history == <<started, inTime, attempts>>
vars == <<now, up, installTime, writerVars, dogVars, history>>

Time == 0 .. MaxTime

TypeOK ==
    /\ {now, trigger, installTime, rekeyTime, handled, started, mark,
        dropped, kept} \subseteq Time
    /\ nextMark \in Nat
    /\ timer \in 0 .. Period
    /\ writer \in {"idle", "open"}
    /\ pc \in {"sleep", "read", "drop"}
    /\ up \in BOOLEAN /\ inTime \in BOOLEAN

\* The system has just been booted: /tmp is empty, nothing is started yet.
Init ==
    /\ now = 0
    /\ writer = "idle" /\ nextMark = 0 /\ trigger = 0 /\ mark = 0
    /\ up = FALSE /\ installTime = 0 /\ started = 0
    /\ pc = "sleep" /\ rekeyTime = 0 /\ handled = 0 /\ timer = 0
    /\ inTime = FALSE /\ dropped = 0 /\ kept = 0

\* A watchdog that runs does not sleep beyond Period, and does not pause between
\* reading the file and judging it.
Tick ==
    /\ now < MaxTime
    /\ up => timer < Period /\ pc # "read"
    /\ now' = now + 1
    /\ timer' = IF up THEN timer + 1 ELSE timer
    /\ UNCHANGED <<up, installTime, writerVars, pc, rekeyTime, handled, history>>

-----------------------------------------------------------------------------
(* The writer                                                              *)

\* open(REKEY_TRIGGER_FILE, "w") truncates the file ...
MarkOpen ==
    /\ writer = "idle"
    /\ 0 < now /\ nextMark <= now
    /\ writer' = "open"
    /\ trigger' = 0
    /\ UNCHANGED <<now, up, installTime, nextMark, mark, dogVars, history>>

\* ... and the time is written to it.
MarkWrite ==
    /\ writer = "open"
    /\ writer' = "idle"
    /\ trigger' = now
    /\ mark' = now
    /\ nextMark' = now + Gap
    /\ inTime' = FALSE
    /\ UNCHANGED <<now, up, installTime, dogVars, started, attempts>>

-----------------------------------------------------------------------------
(* The receiver                                                            *)

\* A sync has succeeded.
InstallPtk ==
    /\ up
    /\ installTime' = now
    /\ inTime' = (inTime \/ now < mark + Timeout)
    /\ UNCHANGED <<now, up, writerVars, dogVars, started, attempts>>

\* Mutant of ReadTrigger: an empty file ends the thread (ValueError not caught).
ReadRaises ==
    /\ up
    /\ pc = "sleep"
    /\ rekeyTime' = trigger
    /\ pc' = IF trigger = 0 /\ writer = "open" THEN "ended" ELSE "read"
    /\ timer' = 0
    /\ UNCHANGED <<now, up, installTime, writerVars, handled, history>>

\* The poll: a file that is absent or empty counts as no trigger.
ReadTrigger ==
    /\ up
    /\ pc = "sleep"
    /\ rekeyTime' = trigger
    /\ pc' = "read"
    /\ timer' = 0
    /\ UNCHANGED <<now, up, installTime, writerVars, handled, history>>

judgeRest == <<now, up, installTime, writerVars, rekeyTime, timer, history>>

\* Mutants of Judge: last_handled_rekey set only after a disconnect; no wait for
\* HANDSHAKE_TIMEOUT; last_handled_rekey set before the wait.
JudgeForgets ==
    /\ up
    /\ pc = "read"
    /\ IF handled < rekeyTime /\ rekeyTime + Timeout <= now /\ installTime < rekeyTime
       THEN handled' = rekeyTime /\ pc' = "drop"
       ELSE pc' = "sleep" /\ UNCHANGED handled
    /\ UNCHANGED judgeRest

JudgeAtOnce ==
    /\ up
    /\ pc = "read"
    /\ IF handled < rekeyTime
       THEN /\ handled' = rekeyTime
            /\ pc' = IF rekeyTime <= installTime THEN "sleep" ELSE "drop"
       ELSE pc' = "sleep" /\ UNCHANGED handled
    /\ UNCHANGED judgeRest

JudgeOnce ==
    /\ up
    /\ pc = "read"
    /\ IF handled < rekeyTime
       THEN /\ handled' = rekeyTime
            /\ pc' = IF rekeyTime <= installTime \/ now < rekeyTime + Timeout
                     THEN "sleep" ELSE "drop"
       ELSE pc' = "sleep" /\ UNCHANGED handled
    /\ UNCHANGED judgeRest

\* A trigger is judged once, when it is Timeout old, by the time of the last
\* install.
Judge ==
    /\ up
    /\ pc = "read"
    /\ IF handled < rekeyTime /\ rekeyTime + Timeout <= now
       THEN /\ handled' = rekeyTime
            /\ pc' = IF rekeyTime <= installTime THEN "sleep" ELSE "drop"
       ELSE pc' = "sleep" /\ UNCHANGED handled
    /\ UNCHANGED judgeRest

\* disconnect_wifi_link returns: WiFi is down, or an iw failed and the link is as
\* it was.  The trigger is handled by now, so this is not tried again.
Drop ==
    /\ up
    /\ pc = "drop"
    /\ pc' = "sleep"
    /\ \/ dropped' = rekeyTime /\ UNCHANGED kept
       \/ IwFails /\ kept' = rekeyTime /\ UNCHANGED dropped
    /\ UNCHANGED <<now, up, installTime, writerVars, rekeyTime, handled, timer,
                   started, inTime>>

\* The kill scripts end the receiver, and the writer with it or not; the trigger
\* file stays.
Kill ==
    /\ up
    /\ up' = FALSE
    /\ \/ writer' = "idle" /\ nextMark' = now
       \/ UNCHANGED <<writer, nextMark>>
    /\ UNCHANGED <<now, installTime, trigger, mark, dogVars, history>>

\* Mutant of Start: last_ptk_install_time starts at 0, like last_handled_rekey.
StartUnstamped ==
    /\ ~up
    /\ up' = TRUE
    /\ installTime' = 0
    /\ started' = now
    /\ pc' = "sleep" /\ rekeyTime' = 0 /\ handled' = 0 /\ timer' = 0
    /\ UNCHANGED <<now, writerVars, inTime, attempts>>

\* The receiver begins as if a PTK had just been installed.
Start ==
    /\ ~up
    /\ up' = TRUE
    /\ installTime' = now
    /\ started' = now
    /\ pc' = "sleep" /\ rekeyTime' = 0 /\ handled' = 0 /\ timer' = 0
    /\ UNCHANGED <<now, writerVars, inTime, attempts>>

Next ==
    \/ Tick
    \/ MarkOpen \/ MarkWrite
    \/ InstallPtk \/ ReadTrigger \/ Judge \/ Drop
    \/ Kill \/ Start

Spec == Init /\ [][Next]_vars

-----------------------------------------------------------------------------
(* Properties, of triggers marked since the receiver was started           *)

Watched == up /\ started < mark

\* No trigger is overwritten before it is judged: the watchdog looks at the file
\* often enough, and an empty file costs it no trigger.
NoTriggerLost == Watched /\ writer = "open" => handled = mark

\* A PTK installed less than Timeout after the mark saves the link, although the
\* verdict is passed, and the link taken down, some time later.
InstallPreventsDrop == pc = "drop" => ~(rekeyTime = mark /\ inTime)

\* A trigger file left from before the receiver was started, by a run that was
\* killed before it had judged it, does not disconnect the new link.
StaleTriggerHarmless == up /\ pc = "drop" => started < rekeyTime

\* At the latest two polls after the timeout a marked round has its PTK, or WiFi
\* has been disconnected for it, or the one disconnect there is has failed in iw,
\* which the code swallows: then the round stays as it is, link and all.
RoundSettled ==
    Watched /\ mark + Timeout + 2 * Period < now =>
        mark <= installTime \/ dropped = mark \/ (IwFails /\ kept = mark)
=============================================================================

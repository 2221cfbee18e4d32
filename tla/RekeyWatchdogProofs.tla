------------------------- MODULE RekeyWatchdogProofs -------------------------
(***************************************************************************)
(* What RekeyWatchdog's properties rest on, for any timeout, poll, gap and *)
(* clock within ClockAssumption.                                           *)
(***************************************************************************)
EXTENDS RekeyWatchdog, TLAPS

\* Nothing is dated in the future, and what is read, handled or disconnected for
\* is not newer than the last mark.
Dated ==
    /\ started <= now /\ installTime <= now /\ mark <= now
    /\ rekeyTime <= mark /\ handled <= mark
    /\ up => started <= installTime

\* The file holds the last mark or nothing; since the receiver was started the
\* writer keeps its distance.
Written ==
    /\ trigger \in {0, mark}
    /\ writer = "open" => trigger = 0
    /\ Watched => /\ nextMark = mark + Gap
                  /\ writer = "idle" => trigger = mark
                  /\ writer = "open" => mark + Gap <= now

\* As long as the last mark is not judged, the last poll began before it was
\* Timeout old, or is the one that will judge it.  A poll that read an older one
\* read one that is judged.
Judging ==
    /\ Watched /\ handled # mark =>
          /\ now < mark + Timeout + Period
          /\ pc # "read" => now < mark + Timeout + timer
          /\ pc = "read" => rekeyTime = mark \/ now < mark + Timeout
    /\ up /\ pc = "read" /\ started < rekeyTime =>
          rekeyTime = mark \/ rekeyTime <= handled

\* A disconnect is under way for the last mark, and soon after its verdict.
Dropping ==
    /\ pc = "read" => timer = 0
    /\ up /\ pc = "drop" =>
          /\ started < rekeyTime /\ rekeyTime = mark /\ handled = mark
          /\ writer = "idle"
          /\ mark + Timeout <= now
          /\ now <= mark + Timeout + Period + timer

\* A verdict was either that there is a PTK, or it leads to a disconnect.
Settled ==
    /\ inTime => mark <= installTime
    /\ pc = "drop" => ~(rekeyTime = mark /\ inTime)
    /\ Watched /\ handled = mark =>
          \/ mark <= installTime
          \/ dropped = mark
          \/ IwFails /\ kept = mark
          \/ pc = "drop" /\ rekeyTime = mark

Inv == TypeOK /\ Dated /\ Written /\ Judging /\ Dropping /\ Settled

\* Type correctness: the times are within the clock.
LEMMA TypeStep == TypeOK /\ [Next]_vars => TypeOK'
<1> SUFFICES ASSUME TypeOK, [Next]_vars PROVE TypeOK'
  OBVIOUS
<1> USE ClockAssumption DEF TypeOK, Time
<1>0. now \in Nat /\ now + Gap \in Nat
  OBVIOUS
<1>1. CASE Tick
  BY <1>1 DEF Tick, writerVars, history, attempts
<1>2. CASE MarkOpen
  BY <1>2 DEF MarkOpen, dogVars, history, attempts
<1>3. CASE MarkWrite
  BY <1>0, <1>3 DEF MarkWrite, dogVars, attempts
<1>4. CASE InstallPtk
  BY <1>4 DEF InstallPtk, writerVars, dogVars, attempts
<1>5. CASE ReadTrigger
  BY <1>5 DEF ReadTrigger, writerVars, history, attempts
<1>6. CASE Judge
  BY <1>6 DEF Judge, judgeRest, writerVars, history, attempts
<1>7. CASE Drop
  BY <1>7 DEF Drop, writerVars
<1>8. CASE Kill
  BY <1>0, <1>8 DEF Kill, dogVars, history, attempts
<1>9. CASE Start
  BY <1>9 DEF Start, writerVars, attempts
<1>10. CASE UNCHANGED vars
  BY <1>10 DEF vars, writerVars, dogVars, history, attempts
<1>11. QED
  BY <1>1, <1>2, <1>3, <1>4, <1>5, <1>6, <1>7, <1>8, <1>9, <1>10 DEF Next

\* Each conjunct of the invariant is kept by each action; the clock's step is
\* the one that needs the distance between marks and polls.
LEMMA InvStep == Inv /\ [Next]_vars => Inv'
<1> SUFFICES ASSUME Inv, [Next]_vars PROVE Inv'
  OBVIOUS
<1>1. TypeOK /\ TypeOK'
  BY TypeStep DEF Inv
<1>2. /\ now \in Nat /\ installTime \in Nat /\ trigger \in Nat /\ mark \in Nat
      /\ nextMark \in Nat /\ rekeyTime \in Nat /\ handled \in Nat
      /\ started \in Nat /\ dropped \in Nat /\ kept \in Nat /\ timer \in Nat
      /\ timer <= Period
      /\ writer \in {"idle", "open"} /\ pc \in {"sleep", "read", "drop"}
      /\ up \in BOOLEAN /\ inTime \in BOOLEAN
  BY <1>1, ClockAssumption DEF TypeOK, Time
<1>3. /\ Timeout \in Nat /\ Period \in Nat /\ Gap \in Nat
      /\ 0 < Timeout /\ 0 < Period
      /\ Timeout + 2 * Period < Gap
  BY ClockAssumption
<1>4. Dated /\ Written /\ Judging /\ Dropping /\ Settled
  BY DEF Inv
<1>5. (Dated /\ Written /\ Judging /\ Dropping /\ Settled)'
  <2> USE <1>2, <1>3, <1>4
  <2>1. CASE Tick
    <3>1. Dated' /\ Written'
      BY <2>1 DEF Tick, writerVars, history, attempts, Dated, Written, Watched
    <3>2. Judging' /\ Dropping'
      BY <2>1 DEF Tick, writerVars, history, attempts, Judging, Dropping, Watched
    <3>3. Settled'
      BY <2>1 DEF Tick, writerVars, history, attempts, Settled, Watched
    <3>4. QED
      BY <3>1, <3>2, <3>3
  <2>2. CASE MarkOpen
    <3>1. Dated' /\ Written'
      BY <2>2 DEF MarkOpen, dogVars, history, attempts, Dated, Written, Watched
    <3>2. Judging' /\ Dropping'
      BY <2>2 DEF MarkOpen, dogVars, history, attempts, Written, Judging, Dropping, Watched
    <3>3. Settled'
      BY <2>2 DEF MarkOpen, dogVars, history, attempts, Settled, Watched
    <3>4. QED
      BY <3>1, <3>2, <3>3
  <2>3. CASE MarkWrite
    <3>1. Dated' /\ Written'
      BY <2>3 DEF MarkWrite, dogVars, Dated, Written, Watched
    <3>2. Judging'
      BY <2>3 DEF MarkWrite, dogVars, Dated, Written, Judging, Dropping, Watched
    <3>3. Dropping'
      BY <2>3 DEF MarkWrite, dogVars, Dropping, Watched
    <3>4. Watched' => handled' # mark'
      BY <2>3 DEF MarkWrite, dogVars, Dated, Written, Watched
    <3>5. Settled'
      BY <2>3, <3>4 DEF MarkWrite, dogVars, attempts, Settled, Watched
    <3>6. QED
      BY <3>1, <3>2, <3>3, <3>5
  <2>4. CASE InstallPtk
    <3>1. Dated' /\ Written'
      BY <2>4 DEF InstallPtk, writerVars, dogVars, Dated, Written, Watched
    <3>2. Judging' /\ Dropping'
      BY <2>4 DEF InstallPtk, writerVars, dogVars, Judging, Dropping, Watched
    <3>3. Settled'
      BY <2>4 DEF InstallPtk, writerVars, dogVars, attempts, Dated, Dropping, Settled,
         Watched
    <3>4. QED
      BY <3>1, <3>2, <3>3
  <2>5. CASE ReadTrigger
    <3>1. Dated' /\ Written'
      BY <2>5 DEF ReadTrigger, writerVars, history, attempts, Dated, Written, Watched
    <3>2. Judging'
      BY <2>5 DEF ReadTrigger, writerVars, history, attempts, Written, Judging, Watched
    <3>3. Dropping' /\ Settled'
      BY <2>5 DEF ReadTrigger, writerVars, history, attempts, Dropping, Settled, Watched
    <3>4. QED
      BY <3>1, <3>2, <3>3
  <2>6. CASE Judge
    <3>1. Dated' /\ Written'
      BY <2>6 DEF Judge, judgeRest, writerVars, history, attempts, Dated, Written, Watched
    <3>2. Judging'
      BY <2>6 DEF Judge, judgeRest, writerVars, history, attempts, Dated, Judging,
         Dropping, Watched
    <3>3. Dropping'
      <4>1. CASE pc' = "drop"
        <5>1. /\ handled < rekeyTime /\ rekeyTime + Timeout <= now
              /\ installTime < rekeyTime
              /\ handled' = rekeyTime
              /\ UNCHANGED <<now, up, installTime, writer, mark, rekeyTime,
                             timer, started>>
          BY <2>6, <4>1 DEF Judge, judgeRest, writerVars, history, attempts
        <5>2. up /\ pc = "read" /\ started < rekeyTime
          BY <2>6, <5>1 DEF Judge, Dated
        <5>3. rekeyTime = mark /\ Watched /\ handled # mark
          BY <5>1, <5>2 DEF Judging, Dated, Watched
        <5>4. now < mark + Timeout + Period
          BY <5>3 DEF Judging
        <5>5. writer = "idle"
          BY <5>3, <5>4 DEF Written
        <5>6. QED
          BY <4>1, <5>1, <5>2, <5>3, <5>4, <5>5 DEF Dropping
      <4>2. CASE pc' # "drop"
        BY <2>6, <4>2 DEF Judge, Dropping
      <4>3. QED
        BY <4>1, <4>2
    <3>4. Settled'
      BY <2>6 DEF Judge, judgeRest, writerVars, history, attempts, Settled, Watched
    <3>5. QED
      BY <3>1, <3>2, <3>3, <3>4
  <2>7. CASE Drop
    <3>1. Dated' /\ Written'
      BY <2>7 DEF Drop, writerVars, Dated, Written, Watched
    <3>2. Judging' /\ Dropping' /\ Settled'
      BY <2>7 DEF Drop, writerVars, Judging, Dropping, Settled, Watched
    <3>3. QED
      BY <3>1, <3>2
  <2>8. CASE Kill
    BY <2>8 DEF Kill, dogVars, history, attempts, Dated, Written, Judging, Dropping,
       Settled, Watched
  <2>9. CASE Start
    BY <2>9 DEF Start, writerVars, attempts, Dated, Written, Judging, Dropping, Settled,
       Watched
  <2>10. CASE UNCHANGED vars
    BY <2>10 DEF vars, writerVars, dogVars, history, attempts, Dated, Written, Judging,
       Dropping, Settled, Watched
  <2>11. QED
    BY <2>1, <2>2, <2>3, <2>4, <2>5, <2>6, <2>7, <2>8, <2>9, <2>10 DEF Next
<1>6. QED
  BY <1>1, <1>5 DEF Inv

\* The inductive invariant holds throughout.
THEOREM Invariance == Spec => []Inv
<1>1. Init => Inv
  <2>1. ASSUME Init PROVE TypeOK
    <3>1. 0 \in Time /\ 0 \in 0 .. Period
      BY ClockAssumption DEF Time
    <3>2. {now, trigger, installTime, rekeyTime, handled, started, mark,
           dropped, kept} \subseteq Time
      BY <2>1, <3>1 DEF Init
    <3>3. QED
      BY <2>1, <3>1, <3>2 DEF Init, TypeOK
  <2>2. Init => Dated /\ Written
    BY DEF Init, Dated, Written, Watched
  <2>3. Init => Judging /\ Dropping /\ Settled
    BY DEF Init, Judging, Dropping, Settled, Watched
  <2>4. QED
    BY <2>1, <2>2, <2>3 DEF Inv
<1>2. QED
  BY <1>1, InvStep, PTL DEF Spec

\* Type correctness of the watchdog and its clock.
THEOREM TypeCorrect == Spec => []TypeOK
<1>1. Inv => TypeOK
  BY DEF Inv
<1>2. QED
  BY <1>1, Invariance, PTL

\* A trigger is judged before the next mark truncates the file.
THEOREM TriggersJudged == Spec => []NoTriggerLost
<1>1. Inv => NoTriggerLost
  BY ClockAssumption
  DEF Inv, TypeOK, Time, Written, Judging, NoTriggerLost, Watched
<1>2. QED
  BY <1>1, Invariance, PTL

\* A PTK installed in time prevents the disconnect.
THEOREM InTimeSaves == Spec => []InstallPreventsDrop
<1>1. Inv => InstallPreventsDrop
  BY DEF Inv, Settled, InstallPreventsDrop
<1>2. QED
  BY <1>1, Invariance, PTL

\* A trigger from before the start never disconnects.
THEOREM OldTriggersHarmless == Spec => []StaleTriggerHarmless
<1>1. Inv => StaleTriggerHarmless
  BY DEF Inv, Dropping, StaleTriggerHarmless
<1>2. QED
  BY <1>1, Invariance, PTL

\* Every marked round is settled two polls after its timeout: keyed, disconnected,
\* or left as it was by an iw that failed.
THEOREM RoundsSettled == Spec => []RoundSettled
<1>1. ASSUME Inv PROVE RoundSettled
  <2> SUFFICES ASSUME Watched, mark + Timeout + 2 * Period < now
               PROVE  \/ mark <= installTime \/ dropped = mark
                      \/ IwFails /\ kept = mark
    BY DEF RoundSettled
  <2>1. /\ now \in Nat /\ mark \in Nat /\ timer \in Nat /\ timer <= Period
        /\ Timeout \in Nat /\ Period \in Nat
    BY <1>1, ClockAssumption DEF Inv, TypeOK, Time
  <2>2. handled = mark
    BY <1>1, <2>1 DEF Inv, Judging
  <2>3. ~(pc = "drop" /\ rekeyTime = mark)
    BY <1>1, <2>1 DEF Inv, Dropping, Watched
  <2>4. QED
    BY <1>1, <2>2, <2>3 DEF Inv, Settled
<1>2. QED
  BY <1>1, Invariance, PTL
=============================================================================

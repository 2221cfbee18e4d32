---------------------------- MODULE FourWayPushes ----------------------------
(***************************************************************************)
(* Which PTKs the two ends of FourWay push, and in which order, proved on  *)
(* top of the invariants of FourWayProofs: hostapd never derives two PTKs  *)
(* from one ANonce, wpa_supplicant never one it has left behind.           *)
(*                                                                         *)
(* A message 2 is live while hostapd would still take it.  Several may be, *)
(* answers to several messages 1 or even to those of the handshake before; *)
(* what has to be shown is that they all carry one SNonce, and that the    *)
(* STA does not draw another one before hostapd moves on to a new ANonce.  *)
(***************************************************************************)
EXTENDS FourWayProofs

Waiting == apState \in {"start", "calc"}
LiveM1(f) == f \in Range(toSta) /\ f.type = "m1" /\ f.ctr \in valid
LiveM2(f) == f \in Range(toAp) /\ f.type = "m2" /\ f.ctr \in valid
PendingM3(f) == f \in Range(toSta) /\ f.type = "m3"

\* The STA, if it is still there, answers with this SNonce.
Answering(sn) == linked => ~renew /\ snonce = sn

M2s == \A f \in Range(toAp) :
    f.type = "m2" => f.ctr <= ctr /\ staPushed # NoKey
OneSNonce ==
    Waiting =>
        /\ \A f : LiveM2(f) => Answering(f.sn)
        /\ \A f, g : LiveM2(f) /\ LiveM2(g) => f.sn = g.sn
Derived ==
    /\ apPushed.an <= anonce
    /\ Waiting /\ apPushed.an = anonce =>
          /\ apPushed.pmk = apPsk
          /\ Answering(apPushed.sn)
          /\ \A f : LiveM2(f) => f.sn = apPushed.sn

\* A message 3 makes the STA draw a new SNonce, so none may be on its way once a
\* live message 2 is.
Settled ==
    /\ Waiting =>
          /\ \A f, g : LiveM1(f) /\ PendingM3(g) => g.an < f.an
          /\ \A g : PendingM3(g) => apPushed.an # anonce /\ \A f : ~LiveM2(f)
    /\ apState = "init" => \A f : ~LiveM1(f) /\ ~LiveM2(f)
    /\ apState = "done" => valid = {}

Pushes == M2s /\ OneSNonce /\ Derived /\ Settled

\* The STA's last PTK is made of its SNonce, the ANonce it has seen last and, until
\* the next SNonce, its PMK.
StaLast ==
    /\ staPushed.sn = snonce /\ staPushed.an = staAnonce
    /\ ~renew => staPushed.pmk = staPmk
    /\ staPmk <= round /\ staPend <= round
    /\ staPend # 0 => staPmk < staPend

\* PTKs of the STA, in the order of their SNonces, ANonces and PMKs.
Earlier(k, l) ==
    \/ k.sn < l.sn
    \/ k.sn = l.sn /\ k.an < l.an
    \/ k.sn = l.sn /\ k.an = l.an /\ k.pmk < l.pmk

-----------------------------------------------------------------------------
(* The steps                                                               *)

\* Frames are delivered, ignored or lost, and the STA may go.
Settles ==
    /\ Range(toSta') \subseteq Range(toSta) \cup {Deauth}
    /\ Range(toAp') \subseteq Range(toAp) \cup {Deauth}
    /\ UNCHANGED <<apState, anonce, ctr, valid, apPsk, apPushed, snonce, staPushed>>
    /\ linked' => linked /\ renew' = renew

\* hostapd forgets the STA.
Forgets ==
    /\ apState' = "gone"
    /\ Range(toAp') \subseteq Range(toAp)
    /\ UNCHANGED <<anonce, ctr, apPushed, staPushed>>

\* Message 3 has been verified: message 4 goes out.
Confirmed(f) ==
    /\ PendingM3(f)
    /\ Range(toSta') \subseteq Range(toSta)
    /\ \E g \in Frame : g.type \in {"m4", "deauth"} /\ Range(toAp') = Range(toAp) \cup {g}
    /\ UNCHANGED <<apState, anonce, ctr, valid, apPsk, apPushed, staPushed>>

LEMMA SettlesStep == Pushes /\ Settles => Pushes'
<1> SUFFICES ASSUME Pushes, Settles PROVE Pushes'
  OBVIOUS
<1>1. Deauth.type = "deauth"
  BY DEF Deauth
<1>2. /\ \A f : LiveM1(f)' => LiveM1(f)
      /\ \A f : LiveM2(f)' => LiveM2(f)
      /\ \A f : PendingM3(f)' => PendingM3(f)
  BY <1>1 DEF Settles, LiveM1, LiveM2, PendingM3
<1>3. /\ Waiting' = Waiting /\ apState' = apState /\ valid' = valid
      /\ UNCHANGED <<anonce, ctr, apPsk, apPushed, staPushed>>
      /\ \A sn : Answering(sn) => Answering(sn)'
  BY DEF Settles, Waiting, Answering
<1>4. M2s'
  BY <1>1, <1>3 DEF Settles, Pushes, M2s
<1>5. OneSNonce' /\ Derived'
  BY <1>2, <1>3 DEF Pushes, OneSNonce, Derived
<1>6. Settled'
  BY <1>2, <1>3 DEF Pushes, Settled
<1>7. QED
  BY <1>4, <1>5, <1>6 DEF Pushes

LEMMA ForgetsStep == Pushes /\ Forgets => Pushes'
  BY DEF Pushes, Forgets, M2s, OneSNonce, Derived, Settled, Waiting

LEMMA ConfirmedStep ==
  ASSUME Pushes, NEW f, Confirmed(f), apState \in {"gone", "start", "calc", "init", "done"}
  PROVE  Pushes'
<1>1. /\ \A h : LiveM1(h)' => LiveM1(h)
      /\ \A h : LiveM2(h)' => LiveM2(h)
      /\ \A h : PendingM3(h)' => PendingM3(h)
  BY DEF Confirmed, LiveM1, LiveM2, PendingM3
<1>2. /\ Waiting' = Waiting /\ apState' = apState /\ valid' = valid /\ PendingM3(f)
      /\ UNCHANGED <<anonce, ctr, apPsk, apPushed, staPushed>>
  BY DEF Confirmed, Waiting
<1>3. M2s'
  BY <1>2 DEF Confirmed, Pushes, M2s
<1>4. Waiting => apPushed.an # anonce /\ \A h : ~LiveM2(h)
  BY <1>2 DEF Pushes, Settled
<1>5. OneSNonce' /\ Derived'
  BY <1>1, <1>2, <1>4 DEF Pushes, OneSNonce, Derived
<1>6. Settled'
  BY <1>1, <1>2 DEF Pushes, Settled
<1>7. QED
  BY <1>3, <1>5, <1>6 DEF Pushes

\* What Fresh and Agreement say of the queues and the counters.
LEMMA Known ==
  ASSUME Fresh, Agreement
  PROVE  /\ toSta \in Seq(Frame) /\ toAp \in Seq(Frame)
         /\ Range(toSta) \subseteq Frame /\ Range(toAp) \subseteq Frame
         /\ \A f \in Frame : f.ctr \in Nat /\ f.an \in Nat /\ f.sn \in Nat
         /\ anonce \in Nat /\ ctr \in Nat /\ snonce \in Nat
         /\ apPushed \in OptKey /\ apPushed.an \in Nat
         /\ apState \in {"gone", "start", "calc", "init", "done"}
         /\ \A f \in Range(toSta) : f.ctr <= ctr
         /\ \A f \in Range(toSta) : f.type = "m1" => f.an # 0
         /\ \A g : PendingM3(g) => g \in Frame /\ g.an <= anonce
         /\ Waiting => \A g : PendingM3(g) => g.an < anonce
<1>1. Typed /\ ToSta /\ Line
  BY TypeParts DEF Fresh, Agreement
<1>2. /\ toSta \in Seq(Frame) /\ toAp \in Seq(Frame)
      /\ anonce \in Nat /\ ctr \in Nat /\ snonce \in Nat /\ apPushed \in OptKey
      /\ apState \in {"gone", "start", "calc", "init", "done"}
  BY <1>1 DEF Typed, Shaking
<1>3. Range(toSta) \subseteq Frame /\ Range(toAp) \subseteq Frame
  BY <1>1, Members
<1>4. \A f \in Frame : f.ctr \in Nat /\ f.an \in Nat /\ f.sn \in Nat
  BY DEF Frame
<1>5. apPushed.an \in Nat
  BY <1>2 DEF OptKey, Key, NoKey
<1>6. /\ \A f \in Range(toSta) : f.ctr <= ctr
      /\ \A f \in Range(toSta) : f.type = "m1" => f.an # 0
      /\ \A g : PendingM3(g) => g \in Frame /\ g.an <= anonce
  BY <1>1, <1>3 DEF ToSta, PendingM3
<1>7. Waiting => \A g : PendingM3(g) => g.an # anonce
  BY <1>1 DEF Line, PendingM3, Waiting
<1>8. Waiting => \A g : PendingM3(g) => g.an < anonce
  BY <1>2, <1>4, <1>6, <1>7
<1>9. QED
  BY <1>2, <1>3, <1>4, <1>5, <1>6, <1>8

\* A message that opens or repeats message 1 has a new counter.
LEMMA NewCounter ==
  ASSUME Fresh, Agreement, M2s, valid' \subseteq valid \cup {ctr + 1},
         NEW m \in Frame, m.type \in {"m1", "m3"},
         toSta' = Append(toSta, m), toAp' = toAp
  PROVE  /\ \A f : LiveM2(f)' => LiveM2(f)
         /\ \A f : LiveM1(f)' => LiveM1(f) \/ (f = m /\ m.type = "m1")
         /\ \A f : PendingM3(f)' => PendingM3(f) \/ (f = m /\ m.type = "m3")
<1>1. Range(toSta') = Range(toSta) \cup {m}
  BY Known, RangeAppend
<1>2. ASSUME NEW f, LiveM2(f)' PROVE LiveM2(f)
  <2>1. f \in Range(toAp) /\ f.type = "m2" /\ f.ctr \in valid \cup {ctr + 1}
    BY <1>2 DEF LiveM2
  <2>2. f.ctr # ctr + 1
    BY <2>1, Known DEF M2s
  <2>3. QED
    BY <2>1, <2>2 DEF LiveM2
<1>3. ASSUME NEW f, LiveM1(f)' PROVE LiveM1(f) \/ (f = m /\ m.type = "m1")
  <2>1. f \in Range(toSta) \cup {m} /\ f.type = "m1" /\ f.ctr \in valid \cup {ctr + 1}
    BY <1>1, <1>3 DEF LiveM1
  <2>2. f \in Range(toSta) => f.ctr # ctr + 1
    BY Known
  <2>3. QED
    BY <2>1, <2>2 DEF LiveM1
<1>4. \A f : PendingM3(f)' => PendingM3(f) \/ (f = m /\ m.type = "m3")
  BY <1>1 DEF PendingM3
<1>5. QED
  BY <1>2, <1>3, <1>4

LEMMA SetptkStep ==
  ASSUME Fresh, Agreement, Pushes, Setptk
  PROVE  Pushes'
<1> DEFINE m == M1(ctr + 1, anonce + 1, apTk)
<1>1. /\ apState # "gone" /\ apState' = "start" /\ anonce' = anonce + 1
      /\ ctr' = ctr + 1 /\ toSta' = Append(toSta, m)
      /\ valid' \subseteq valid \cup {ctr + 1}
      /\ UNCHANGED <<apPushed, staPushed, linked, renew, snonce, toAp>>
  BY DEF Setptk, StartHandshake, Pending, staVars, staHand
<1>2. m \in Frame /\ m.type = "m1" /\ m.an = anonce + 1
  <2>1. apTk \in OptKey /\ NoKey \in OptKey
    BY TypeParts DEF Fresh, Typed, OptKey
  <2>2. QED
    BY <2>1, Known DEF M1, Frame
<1> HIDE DEF m
<1>3. /\ \A f : LiveM2(f)' => LiveM2(f)
      /\ \A f : LiveM1(f)' => LiveM1(f) \/ f = m
      /\ \A f : PendingM3(f)' => PendingM3(f)
  BY <1>1, <1>2, NewCounter DEF Pushes
<1>4. \/ Waiting
      \/ ~Waiting /\ \A f : ~LiveM1(f) /\ ~LiveM2(f)
  BY <1>1, Known DEF Pushes, Settled, Waiting, LiveM1, LiveM2
<1>5. apPushed'.an < anonce' /\ Waiting'
  BY <1>1, Known DEF Pushes, Derived, Waiting
<1>6. M2s'
  BY <1>1, Known DEF Pushes, M2s
<1>7. OneSNonce'
  BY <1>1, <1>3, <1>4 DEF Pushes, OneSNonce, Answering
<1>8. Derived'
  BY <1>1, <1>5, Known DEF Derived
<1>9. Settled'
  <2>1. ASSUME NEW f, NEW g, LiveM1(f)', PendingM3(g)' PROVE g.an < f.an
    <3>1. CASE f = m
      BY <1>2, <1>3, <2>1, <3>1, Known
    <3>2. CASE f # m
      BY <1>3, <1>4, <2>1, <3>2 DEF Pushes, Settled
    <3>3. QED
      BY <3>1, <3>2
  <2>2. ASSUME NEW f, NEW g, PendingM3(g)' PROVE ~LiveM2(f)'
    BY <1>3, <1>4, <2>2 DEF Pushes, Settled
  <2>3. QED
    BY <1>1, <1>5, <2>1, <2>2, Known DEF Settled
<1>10. QED
  BY <1>6, <1>7, <1>8, <1>9 DEF Pushes

LEMMA AssociateStep ==
  ASSUME Fresh, Agreement, Pushes, Associate
  PROVE  Pushes'
<1> DEFINE m == M1(1, anonce + 1, NoKey)
<1>1. /\ apState' = "start" /\ anonce' = anonce + 1
      /\ toSta' = <<m>> /\ toAp' = <<>>
      /\ UNCHANGED apPushed
  BY DEF Associate, StartHandshake
<1>2. m.type = "m1"
  BY DEF M1
<1> HIDE DEF m
<1>3. Range(toSta') = {m} /\ Range(toAp') = {}
  BY <1>1 DEF Range
<1>4. /\ \A f : ~LiveM2(f)'
      /\ \A f : ~PendingM3(f)'
  BY <1>2, <1>3 DEF LiveM2, PendingM3
<1>5. apPushed'.an < anonce'
  BY <1>1, Known DEF Pushes, Derived
<1>6. M2s'
  BY <1>3 DEF M2s
<1>7. OneSNonce' /\ Derived'
  BY <1>1, <1>4, <1>5, Known DEF OneSNonce, Derived
<1>8. Settled'
  BY <1>1, <1>4 DEF Settled
<1>9. QED
  BY <1>6, <1>7, <1>8 DEF Pushes

LEMMA RepeatStep ==
  ASSUME Fresh, Agreement, Pushes, ApTimeout, tries < Retries
  PROVE  Pushes'
<1> DEFINE m == Retransmission
<1>1. /\ apState \in Shaking /\ apState' = IF apState = "init" THEN "init" ELSE "start"
      /\ ctr' = ctr + 1 /\ toSta' = Append(toSta, m)
      /\ valid' \subseteq valid \cup {ctr + 1}
      /\ UNCHANGED <<anonce, apPsk, apPushed, staPushed, linked, renew, snonce, toAp>>
  BY DEF ApTimeout, Pending, staVars, staHand
<1>2. /\ m \in Frame /\ m.an = anonce
      /\ m.type = IF apState = "init" THEN "m3" ELSE "m1"
  <2>1. apTk \in OptKey /\ apPtk \in OptKey /\ NoKey \in OptKey
    BY TypeParts DEF Fresh, Typed, OptKey
  <2>2. QED
    BY <2>1, Known DEF Retransmission, M1, M3, Frame
<1> HIDE DEF m
<1>3. /\ \A f : LiveM2(f)' => LiveM2(f)
      /\ \A f : LiveM1(f)' => LiveM1(f) \/ (f = m /\ m.type = "m1")
      /\ \A f : PendingM3(f)' => PendingM3(f) \/ (f = m /\ m.type = "m3")
  BY <1>1, <1>2, NewCounter DEF Pushes
<1>4. M2s'
  BY <1>1, Known DEF Pushes, M2s
<1>5. CASE apState = "init"
  <2>1. apState' = "init" /\ m.type = "m3"
    BY <1>1, <1>2, <1>5
  <2>2. Settled'
    BY <1>3, <1>5, <2>1 DEF Pushes, Settled, Waiting
  <2>3. OneSNonce' /\ Derived'
    BY <1>1, <2>1 DEF OneSNonce, Pushes, Derived, Waiting
  <2>4. QED
    BY <1>4, <2>2, <2>3 DEF Pushes
<1>6. CASE apState # "init"
  <2>1. Waiting /\ Waiting' /\ apState' = "start" /\ m.type = "m1"
    BY <1>1, <1>2, <1>6 DEF Waiting, Shaking
  <2>2. OneSNonce' /\ Derived'
    BY <1>1, <1>3, <2>1 DEF Pushes, OneSNonce, Derived, Answering
  <2>3. ASSUME NEW f, NEW g, LiveM1(f)', PendingM3(g)' PROVE g.an < f.an
    <3>1. PendingM3(g) /\ (LiveM1(f) \/ f = m)
      BY <1>3, <2>1, <2>3
    <3>2. CASE f = m
      BY <1>2, <2>1, <3>1, <3>2, Known
    <3>3. CASE LiveM1(f)
      BY <2>1, <3>1, <3>3 DEF Pushes, Settled
    <3>4. QED
      BY <3>1, <3>2, <3>3
  <2>4. Settled'
    BY <1>1, <1>3, <2>1, <2>3 DEF Pushes, Settled
  <2>5. QED
    BY <1>4, <2>2, <2>4 DEF Pushes
<1>7. QED
  BY <1>5, <1>6

\* Message 2: while it is live, no other SNonce has come with this ANonce.
LEMMA Msg2Step ==
  ASSUME Fresh, Agreement, Pushes, toAp # <<>>, ApMsg2(Head(toAp)),
         toAp' = Tail(toAp), UNCHANGED <<staVars, bounds>>
  PROVE  /\ Pushes'
         /\ apPushed' # apPushed => apPushed'.an > apPushed.an
<1> DEFINE f == Head(toAp)
           ptk == [pmk |-> apPsk, an |-> anonce, sn |-> f.sn]
<1>1. f \in Range(toAp) /\ Range(toAp') \subseteq Range(toAp)
  BY Known, TakeTail DEF Take
<1>2. /\ f.type = "m2" /\ Waiting /\ f.ctr \in valid
      /\ apPushed' = ptk
      /\ UNCHANGED <<anonce, apPsk, linked, renew, snonce, staPushed>>
  BY DEF ApMsg2, Waiting, staVars, staHand
<1>3. LiveM2(f)
  BY <1>1, <1>2 DEF LiveM2
<1>4. ptk.pmk = apPsk /\ ptk.an = anonce /\ ptk.sn = f.sn
  OBVIOUS
<1>5. apPushed' # apPushed => apPushed'.an > apPushed.an
  <2>1. CASE apPushed.an = anonce
    <3>1. apPushed.pmk = apPsk /\ apPushed.sn = f.sn
      BY <1>2, <1>3, <2>1 DEF Pushes, Derived
    <3>2. apPushed = [pmk |-> apPushed.pmk, an |-> apPushed.an, sn |-> apPushed.sn]
      BY Known DEF OptKey, Key, NoKey
    <3>3. QED
      BY <1>2, <2>1, <3>1, <3>2
  <2>2. CASE apPushed.an # anonce
    BY <1>2, <1>4, <2>2, Known DEF Pushes, Derived
  <2>3. QED
    BY <2>1, <2>2
<1> HIDE DEF ptk, f
<1>6. CASE f.mic = ptk
  <2> DEFINE m == M3(ctr + 1, anonce, ptk, apTk)
  <2>1. /\ apState' = "init" /\ ctr' = ctr + 1 /\ valid' = {ctr + 1}
        /\ toSta' = Append(toSta, m)
    BY <1>6 DEF ApMsg2, f, ptk
  <2>2. m \in Frame /\ m.type = "m3"
    <3>1. apTk \in OptKey /\ f.mic \in OptKey
      BY <1>1, Known, TypeParts DEF Fresh, Typed, Frame
    <3>2. QED
      BY <1>6, <3>1, Known DEF M3, Frame
  <2> HIDE DEF m
  <2>3. Range(toSta') = Range(toSta) \cup {m}
    BY <2>1, <2>2, Known, RangeAppend
  <2>4. M2s'
    BY <1>1, <1>2, <2>1, Known DEF Pushes, M2s
  <2>5. \A g : ~LiveM1(g)' /\ ~LiveM2(g)'
    <3>1. ASSUME NEW g PROVE ~LiveM1(g)'
      BY <2>1, <2>2, <2>3, Known DEF LiveM1
    <3>2. ASSUME NEW g PROVE ~LiveM2(g)'
      BY <1>1, <2>1, Known DEF LiveM2, Pushes, M2s
    <3>3. QED
      BY <3>1, <3>2
  <2>6. OneSNonce' /\ Derived' /\ Settled'
    BY <1>2, <1>4, <2>1, <2>5, Known DEF OneSNonce, Derived, Settled, Waiting
  <2>7. QED
    BY <1>5, <2>4, <2>6 DEF Pushes
<1>7. CASE f.mic # ptk
  <2>1. /\ apState' = "calc" /\ valid' = {} /\ ctr' = ctr /\ toSta' = toSta
    BY <1>7 DEF ApMsg2, f, ptk
  <2>2. M2s'
    BY <1>1, <1>2, <2>1 DEF Pushes, M2s
  <2>3. \A g : ~LiveM1(g)' /\ ~LiveM2(g)'
    BY <2>1 DEF LiveM1, LiveM2
  <2>4. Answering(f.sn)
    BY <1>2, <1>3 DEF Pushes, OneSNonce
  <2>5. OneSNonce' /\ Derived'
    BY <1>2, <1>4, <2>3, <2>4, Known DEF OneSNonce, Derived, Answering
  <2>6. \A g : ~PendingM3(g)'
    BY <1>2, <1>3, <2>1 DEF Pushes, Settled, PendingM3
  <2>7. Settled'
    BY <2>1, <2>6 DEF Settled
  <2>8. QED
    BY <1>5, <2>2, <2>5, <2>7 DEF Pushes
<1>8. QED
  BY <1>6, <1>7

LEMMA Msg4Step ==
  ASSUME Fresh, Agreement, Pushes, toAp # <<>>, ApMsg4(Head(toAp)),
         toAp' = Tail(toAp), UNCHANGED <<staVars, bounds>>
  PROVE  Pushes'
<1>1. Range(toAp') \subseteq Range(toAp)
  BY Known, TakeTail DEF Take
<1>2. /\ apState' = "done" /\ valid' = {}
      /\ UNCHANGED <<anonce, ctr, apPushed, staPushed>>
  BY DEF ApMsg4, staVars
<1>3. QED
  BY <1>1, <1>2 DEF Pushes, M2s, OneSNonce, Derived, Settled, Waiting

\* Message 1: the STA keeps its SNonce while hostapd may still derive with it.
LEMMA Msg1Step ==
  ASSUME Fresh, Agreement, Pushes, toSta # <<>>, linked, StaMsg1(Head(toSta)),
         toSta' = Tail(toSta), UNCHANGED <<apVars, bounds>>
  PROVE  Pushes'
<1> DEFINE f == Head(toSta)
           m == M2(f.ctr, snonce', tptk', staTk)
<1>1. /\ f \in Range(toSta) /\ Range(toSta') \subseteq Range(toSta) /\ f \in Frame
      /\ \A g \in Range(toSta') : Before(f, g)
  <2>1. Ordered(toSta)
    BY DEF Agreement, Line
  <2>2. QED
    BY <2>1, Known, TakeTail DEF Take
<1>2. /\ f.type = "m1" /\ renew' = FALSE /\ linked' = linked
      /\ snonce' = IF renew THEN snonce + 1 ELSE snonce
      /\ staPushed' = tptk' /\ tptk'.an = f.an
      /\ toAp' = Append(toAp, m)
      /\ UNCHANGED <<apState, anonce, ctr, valid, apPsk, apPushed>>
  BY DEF StaMsg1, apVars, apHand
<1>3. tptk' \in Key /\ staPushed' # NoKey
  <2>1. f.an \in Nat \ {0}
    BY <1>1, <1>2, Known
  <2>2. /\ (IF staPend # 0 THEN staPend ELSE staPmk) \in 0 .. MaxRound
        /\ snonce' \in Nat \ {0}
    <3>1. /\ staPend \in 0 .. MaxRound /\ staPmk \in 0 .. MaxRound
          /\ ~renew => snonce # 0
      BY TypeParts DEF Fresh, Counted, StaNonces
    <3>2. QED
      BY <1>2, <3>1, Known
  <2>3. tptk' = [pmk |-> IF staPend # 0 THEN staPend ELSE staPmk,
                 an |-> f.an, sn |-> snonce']
    BY DEF StaMsg1
  <2>4. tptk' \in Key
    BY <2>1, <2>2, <2>3 DEF Key
  <2>5. QED
    BY <1>2, <2>4 DEF Key, NoKey
<1>4. /\ m \in Frame /\ m.type = "m2" /\ m.ctr = f.ctr /\ m.sn = snonce'
  <2>1. staTk \in OptKey
    BY TypeParts DEF Fresh, Typed
  <2>2. snonce' \in Nat /\ f.ctr \in Nat
    <3>1. snonce \in Nat /\ \A g \in Frame : g.ctr \in Nat
      BY Known
    <3>2. QED
      BY <1>1, <1>2, <3>1
  <2>3. QED
    BY <1>3, <2>1, <2>2 DEF M2, Frame, OptKey
<1> HIDE DEF f, m
<1>5. Range(toAp') = Range(toAp) \cup {m}
  BY <1>2, <1>4, Known, RangeAppend
<1>6. /\ \A g : LiveM1(g)' => LiveM1(g)
      /\ \A g : PendingM3(g)' => PendingM3(g) /\ g \in Range(toSta')
      /\ \A g : LiveM2(g)' => LiveM2(g) \/ (g = m /\ LiveM1(f))
  BY <1>1, <1>2, <1>4, <1>5 DEF LiveM1, LiveM2, PendingM3
<1>7. \A sn : Answering(sn) => snonce' = sn /\ Answering(sn)'
  BY <1>2 DEF Answering
<1>8. Waiting' = Waiting
  BY <1>2 DEF Waiting
<1>9. M2s'
  BY <1>1, <1>2, <1>3, <1>4, <1>5, Known DEF Pushes, M2s
<1>10. \A sn : sn = snonce' => (linked' => ~renew' /\ snonce' = sn)
  BY <1>2
<1>11. ASSUME Waiting, NEW g, LiveM2(g)' PROVE g.sn = snonce'
  BY <1>4, <1>6, <1>7, <1>11 DEF Pushes, OneSNonce
<1>12. OneSNonce'
  BY <1>8, <1>10, <1>11 DEF OneSNonce, Answering
<1>13. Derived'
  BY <1>2, <1>7, <1>8, <1>11 DEF Pushes, Derived
<1>14. Settled'
  <2>1. CASE Waiting
    <3>1. ASSUME NEW g, PendingM3(g)' PROVE ~LiveM1(f)
      <4>1. /\ PendingM3(g) /\ Before(f, g) /\ g \in Frame
            /\ g.type = "m3"
        BY <1>1, <1>6, <3>1, Known DEF PendingM3
      <4>2. f.an <= g.an /\ f.an \in Nat /\ g.an \in Nat
        BY <1>1, <1>2, <4>1, Known DEF Before
      <4>3. LiveM1(f) => g.an < f.an
        BY <2>1, <4>1 DEF Pushes, Settled
      <4>4. QED
        BY <4>2, <4>3
    <3>2. QED
      BY <1>2, <1>6, <1>8, <2>1, <3>1 DEF Pushes, Settled, Waiting
  <2>2. CASE ~Waiting
    BY <1>2, <1>6, <1>8, <2>2 DEF Pushes, Settled
  <2>3. QED
    BY <2>1, <2>2
<1>15. QED
  BY <1>9, <1>12, <1>13, <1>14 DEF Pushes

\* Message 3, or message 3 again.
LEMMA Msg3Step ==
  ASSUME Fresh, Agreement, Pushes, toSta # <<>>,
         StaMsg3(Head(toSta)) \/ StaMsg3Again(Head(toSta)),
         toSta' = Tail(toSta), UNCHANGED <<apVars, bounds>>
  PROVE  Pushes'
<1> DEFINE f == Head(toSta)
<1>1. /\ f \in Range(toSta) /\ Range(toSta') \subseteq Range(toSta) /\ f \in Frame
      /\ f.type = "m3"
  BY Known, TakeTail DEF Take, StaMsg3, StaMsg3Again
<1>2. UNCHANGED <<apState, anonce, ctr, valid, apPsk, apPushed, staPushed>>
  BY DEF StaMsg3, StaMsg3Again, StaDeauthenticates, DropKeys, apVars, apHand
<1>3. staTk \in OptKey /\ tptk \in OptKey /\ NoKey \in OptKey
  BY TypeParts DEF Fresh, Typed, OptKey
<1>4. \E g \in Frame : g.type \in {"m4", "deauth"} /\ toAp' = Append(toAp, g)
  <2>1. \A k \in OptKey, enc \in OptKey :
            M4(f.ctr, k, enc) \in Frame /\ M4(f.ctr, k, enc).type = "m4"
    BY <1>1, <1>3, Known DEF M4, Frame
  <2>2. Deauth \in Frame /\ Deauth.type = "deauth"
    BY DeauthFrame
  <2>3. \/ toAp' = Append(toAp, Deauth)
        \/ toAp' = Append(toAp, M4(f.ctr, tptk, NoKey))
        \/ toAp' = Append(toAp, M4(f.ctr, tptk, staTk))
        \/ toAp' = Append(toAp, M4(f.ctr, staTk, staTk))
    BY DEF StaMsg3, StaMsg3Again, StaDeauthenticates
  <2> HIDE DEF f
  <2>4. QED
    BY <1>3, <2>1, <2>2, <2>3
<1>5. \E g \in Frame : g.type \in {"m4", "deauth"} /\ Range(toAp') = Range(toAp) \cup {g}
  <2>1. \A g \in Frame : Range(Append(toAp, g)) = Range(toAp) \cup {g}
    BY Known, RangeAppend
  <2>2. QED
    BY <1>4, <2>1
<1>6. Confirmed(f)
  BY <1>1, <1>2, <1>5 DEF Confirmed, PendingM3
<1>7. QED
  BY <1>6, Known, ConfirmedStep

LEMMA ApReceiveStep ==
  ASSUME Fresh, Agreement, Pushes, ApReceive
  PROVE  /\ Pushes'
         /\ apPushed' # apPushed => apPushed'.an > apPushed.an
<1> DEFINE f == Head(toAp)
<1>1. /\ toAp # <<>> /\ toAp' = Tail(toAp) /\ UNCHANGED <<staVars, bounds>>
      /\ ApMsg2(f) \/ ApMsg4(f) \/ ApDeauth(f) \/ ApIgnores(f)
  BY DEF ApReceive, ApAccepts
<1>2. Range(toAp') \subseteq Range(toAp)
  BY <1>1, Known, TakeTail DEF Take
<1>3. CASE ApMsg2(f)
  BY <1>1, <1>3, Msg2Step
<1>4. CASE ApMsg4(f)
  <2>1. apPushed' = apPushed
    BY <1>4 DEF ApMsg4
  <2>2. QED
    BY <1>1, <1>4, <2>1, Msg4Step
<1>5. CASE ApDeauth(f)
  <2>1. Forgets
    BY <1>1, <1>2, <1>5 DEF ApDeauth, ForgetSta, Forgets, staVars
  <2>2. QED
    BY <2>1, ForgetsStep DEF Forgets
<1>6. CASE ApIgnores(f)
  <2>1. Settles
    BY <1>1, <1>2, <1>6 DEF ApIgnores, apVars, apHand, staVars, staHand, Settles
  <2>2. QED
    BY <2>1, SettlesStep DEF Settles
<1>7. QED
  BY <1>1, <1>3, <1>4, <1>5, <1>6

LEMMA StaReceiveStep ==
  ASSUME Fresh, Agreement, Pushes, StaReceive
  PROVE  Pushes' /\ apPushed' = apPushed
<1> DEFINE f == Head(toSta)
<1>1. /\ toSta # <<>> /\ toSta' = Tail(toSta) /\ UNCHANGED <<apVars, bounds>>
      /\ \/ linked /\ (StaMsg1(f) \/ StaMsg3(f) \/ StaMsg3Again(f))
         \/ StaDeauth(f)
         \/ StaIgnores(f)
  BY DEF StaReceive, StaAccepts
<1>2. Range(toSta') \subseteq Range(toSta) /\ apPushed' = apPushed
  BY <1>1, Known, TakeTail DEF Take, apVars
<1>3. CASE linked /\ StaMsg1(f)
  BY <1>1, <1>2, <1>3, Msg1Step
<1>4. CASE StaMsg3(f) \/ StaMsg3Again(f)
  BY <1>1, <1>2, <1>4, Msg3Step
<1>5. CASE StaDeauth(f) \/ StaIgnores(f)
  <2>1. Settles
    BY <1>1, <1>2, <1>5
    DEF StaDeauth, DropKeys, StaIgnores, apVars, apHand, staVars, staHand, Settles
  <2>2. QED
    BY <1>2, <2>1, SettlesStep
<1>6. QED
  BY <1>1, <1>3, <1>4, <1>5

LEMMA PushesStep ==
  Fresh /\ Agreement /\ Pushes /\ [Next]_vars =>
      /\ Pushes'
      /\ apPushed' # apPushed => apPushed'.an > apPushed.an
<1> SUFFICES ASSUME Fresh, Agreement, Pushes, [Next]_vars
             PROVE  /\ Pushes'
                    /\ apPushed' # apPushed => apPushed'.an > apPushed.an
  OBVIOUS
<1>1. CASE ApReceive
  BY <1>1, ApReceiveStep
<1>2. CASE StaReceive
  BY <1>2, StaReceiveStep
<1>3. CASE Setptk
  BY <1>3, SetptkStep DEF Setptk
<1>4. CASE Associate
  BY <1>4, AssociateStep DEF Associate
<1>5. CASE ApTimeout /\ tries < Retries
  BY <1>5, RepeatStep DEF ApTimeout
<1>6. CASE ApInactivity \/ (ApTimeout /\ ~(tries < Retries))
  <2>1. Forgets
    BY <1>6 DEF ApInactivity, ApTimeout, ForgetSta, Forgets, staVars
  <2>2. QED
    BY <2>1, ForgetsStep DEF Forgets
<1>7. CASE ApRejects \/ StaSetPsk \/ StaLeaves \/ LoseToSta \/ LoseToAp \/ UNCHANGED vars
  <2>1. Settles
    <3>1. /\ Range(Append(toAp, Deauth)) = Range(toAp) \cup {Deauth}
          /\ Range(Append(toSta, Deauth)) = Range(toSta) \cup {Deauth}
          /\ toSta # <<>> => Range(Tail(toSta)) \subseteq Range(toSta)
          /\ toAp # <<>> => Range(Tail(toAp)) \subseteq Range(toAp)
      BY Known, DeauthFrame, RangeAppend, TakeTail DEF Take
    <3>2. toSta = <<>> => <<Deauth>> = Append(toSta, Deauth)
      OBVIOUS
    <3>3. /\ UNCHANGED <<apState, anonce, ctr, valid, apPsk, apPushed, snonce, staPushed>>
          /\ linked' => linked /\ renew' = renew
      BY <1>7
      DEF ApRejects, StaSetPsk, StaLeaves, DropKeys, LoseToSta, LoseToAp, vars,
          apVars, apHand, staVars, staHand
    <3>4. /\ toSta' = toSta \/ toSta' = Append(toSta, Deauth)
             \/ (toSta # <<>> /\ toSta' = Tail(toSta))
          /\ toAp' = toAp \/ toAp' = Append(toAp, Deauth)
             \/ (toAp # <<>> /\ toAp' = Tail(toAp))
      BY <1>7, <3>2
      DEF ApRejects, StaSetPsk, StaLeaves, LoseToSta, LoseToAp, vars
    <3>5. /\ Range(toSta') \subseteq Range(toSta) \cup {Deauth}
          /\ Range(toAp') \subseteq Range(toAp) \cup {Deauth}
      BY <3>1, <3>4
    <3>6. QED
      BY <3>3, <3>5 DEF Settles
  <2>2. QED
    BY <2>1, SettlesStep DEF Settles
<1>8. QED
  BY <1>1, <1>2, <1>3, <1>4, <1>5, <1>6, <1>7 DEF Next

LEMMA PushesInit == Init => Pushes
<1>1. Range(<<>>) = {}
  BY DEF Range
<1>2. QED
  BY <1>1
  DEF Init, Pushes, M2s, OneSNonce, Derived, Settled, Waiting, NoKey

\* What the two ends push, in every reachable state.
THEOREM Pushed == Spec => []Pushes
  BY Freshness, Agreed, PushesInit, PushesStep, PTL DEF Spec

\* hostapd derives at most one PTK from an ANonce.
THEOREM OnePtkEach == Spec => OnePtkPerANonce
<1>1. Fresh /\ Agreement /\ Pushes /\ [Next]_vars =>
          [apPushed' # apPushed => apPushed'.an > apPushed.an]_vars
  BY PushesStep
<1>2. QED
  BY <1>1, Freshness, Agreed, Pushed, PTL DEF Spec, OnePtkPerANonce

-----------------------------------------------------------------------------
(* What wpa_supplicant leaves behind                                       *)

LEMMA Msg1Later ==
  ASSUME Fresh, Agreement, StaLast, toSta # <<>>, StaMsg1(Head(toSta)),
         UNCHANGED round
  PROVE  StaLast' /\ (staPushed' = staPushed \/ Earlier(staPushed, staPushed'))
<1> DEFINE f == Head(toSta)
           pmk == IF staPend # 0 THEN staPend ELSE staPmk
           sn == IF renew THEN snonce + 1 ELSE snonce
           ptk == [pmk |-> pmk, an |-> f.an, sn |-> sn]
<1>1. /\ f.type = "m1" /\ f \in Range(toSta) /\ f \in Frame
      /\ staAnonce <= f.an /\ f.an \in Nat /\ staAnonce \in Nat
  <2>1. f.type = "m1" /\ f \in Range(toSta) /\ f \in Frame
    BY Known, TakeTail DEF Take, StaMsg1
  <2>2. f.an \in Nat
    BY <2>1, Known
  <2>3. staAnonce <= f.an
    BY <2>1 DEF Agreement, Line
  <2>4. staAnonce \in Nat
    BY Known, TypeParts DEF Fresh, Typed
  <2>5. QED
    BY <2>1, <2>2, <2>3, <2>4
<1>2. /\ staPushed' = ptk /\ snonce' = sn /\ staAnonce' = f.an
      /\ staPmk' = pmk /\ staPend' = 0
  BY DEF StaMsg1
<1>3. /\ staPend \in Nat /\ staPmk \in Nat /\ snonce \in Nat /\ round \in Nat
      /\ staPushed \in OptKey
  BY Known, TypeParts DEF Fresh, Counted, Typed
<1>4. ptk.pmk = pmk /\ ptk.an = f.an /\ ptk.sn = sn
  OBVIOUS
<1> HIDE DEF f, ptk
<1>5. StaLast'
  BY <1>2, <1>3, <1>4 DEF StaLast
<1>6. CASE renew
  BY <1>2, <1>3, <1>4, <1>6 DEF StaLast, Earlier
<1>7. CASE ~renew /\ staAnonce < f.an
  BY <1>2, <1>3, <1>4, <1>7 DEF StaLast, Earlier
<1>8. CASE ~renew /\ f.an = staAnonce /\ staPend # 0
  BY <1>2, <1>3, <1>4, <1>8 DEF StaLast, Earlier
<1>9. CASE ~renew /\ f.an = staAnonce /\ staPend = 0
  <2>1. staPushed.pmk = ptk.pmk /\ staPushed.an = ptk.an /\ staPushed.sn = ptk.sn
    BY <1>3, <1>4, <1>9 DEF StaLast
  <2>2. /\ staPushed = [pmk |-> staPushed.pmk, an |-> staPushed.an, sn |-> staPushed.sn]
        /\ ptk = [pmk |-> ptk.pmk, an |-> ptk.an, sn |-> ptk.sn]
    BY <1>3 DEF OptKey, Key, NoKey, ptk
  <2>3. QED
    BY <1>2, <1>5, <2>1, <2>2
<1>10. QED
  BY <1>1, <1>5, <1>6, <1>7, <1>8, <1>9

LEMMA StaLastStep ==
  Fresh /\ Agreement /\ StaLast /\ [Next]_vars =>
      /\ StaLast'
      /\ staPushed' = staPushed \/ Earlier(staPushed, staPushed')
<1> SUFFICES ASSUME Fresh, Agreement, StaLast, [Next]_vars
             PROVE  /\ StaLast'
                    /\ staPushed' = staPushed \/ Earlier(staPushed, staPushed')
  OBVIOUS
<1>1. ASSUME UNCHANGED <<staPushed, snonce, staAnonce, staPmk, staPend, round>>,
             renew' = renew \/ renew' = TRUE
      PROVE  StaLast'
  BY <1>1 DEF StaLast
<1>2. CASE StaReceive
  <2> DEFINE f == Head(toSta)
  <2>1. /\ toSta # <<>> /\ UNCHANGED round
        /\ \/ StaMsg1(f)
           \/ StaMsg3(f) \/ StaMsg3Again(f) \/ StaDeauth(f)
           \/ StaIgnores(f)
    BY <1>2 DEF StaReceive, StaAccepts, bounds
  <2>2. CASE StaMsg1(f)
    BY <2>1, <2>2, Msg1Later
  <2>3. CASE StaMsg3(f) \/ StaMsg3Again(f) \/ StaDeauth(f) \/ StaIgnores(f)
    BY <1>1, <2>1, <2>3
    DEF StaMsg3, StaMsg3Again, StaDeauthenticates, DropKeys, StaDeauth, StaIgnores,
        staVars, staHand
  <2>4. QED
    BY <2>1, <2>2, <2>3
<1>3. CASE StaSetPsk
  <2>1. /\ round' = round + 1 /\ staPend' = round + 1
        /\ UNCHANGED <<staPushed, snonce, staAnonce, staPmk, renew>>
    BY <1>3 DEF StaSetPsk, staHand
  <2>2. round \in Nat /\ staPmk \in Nat
    BY TypeParts DEF Fresh, Counted
  <2>3. QED
    BY <2>1, <2>2 DEF StaLast
<1>4. CASE Associate
  <2>1. /\ staPmk' = 0 /\ renew' = TRUE
        /\ UNCHANGED <<staPushed, snonce, staAnonce, staPend, round>>
    BY <1>4 DEF Associate
  <2>2. round \in Nat /\ staPend \in Nat
    BY TypeParts DEF Fresh, Counted
  <2>3. QED
    BY <2>1, <2>2 DEF StaLast
<1>5. CASE \/ Setptk \/ ApReceive \/ ApTimeout \/ ApRejects \/ ApInactivity
           \/ StaLeaves \/ LoseToSta \/ LoseToAp \/ UNCHANGED vars
  BY <1>1, <1>5
  DEF Setptk, ApReceive, ApTimeout, ApRejects, ApInactivity, StaLeaves, DropKeys,
      LoseToSta, LoseToAp, vars, staVars, staHand, bounds
<1>6. QED
  BY <1>2, <1>3, <1>4, <1>5 DEF Next

LEMMA StaLastInit == Init => StaLast
  BY FourWayAssumption DEF Init, StaLast, NoKey

THEOREM StaLatest == Spec => []StaLast
  BY Freshness, Agreed, StaLastInit, StaLastStep, PTL DEF Spec

\* wpa_supplicant pushes its last PTK again, or a later one: it never comes back to
\* one it has left.
THEOREM StaNeverReturns ==
  Spec => [][staPushed' # staPushed => Earlier(staPushed, staPushed')]_vars
<1>1. Fresh /\ Agreement /\ StaLast /\ [Next]_vars =>
          [staPushed' # staPushed => Earlier(staPushed, staPushed')]_vars
  BY StaLastStep
<1>2. QED
  BY <1>1, Freshness, Agreed, StaLatest, PTL DEF Spec
=============================================================================

---------------------------- MODULE FourWayProofs ----------------------------
(***************************************************************************)
(* FourWay's safety properties and its refinement of KeyHandover, for any  *)
(* number of passphrases, associations, lost frames and retries.  The      *)
(* invariant comes in three layers, each inductive on top of the last:     *)
(* Fresh (nonces are new), Agreement (what a handshake that has come so    *)
(* far implies of the other end) and Behind (the AP is at most one key     *)
(* behind the STA).                                                        *)
(***************************************************************************)
EXTENDS FourWay, TLAPS

\* f is before g in the queue to the STA: handshakes follow one another, and
\* message 1 of one is not sent again after its message 3.
Before(f, g) ==
    f.type \in {"m1", "m3"} /\ g.type \in {"m1", "m3"} =>
        /\ f.an <= g.an
        /\ f.type = "m3" /\ f.an = g.an => g.type = "m3"
Ordered(q) == \A i, j \in 1 .. Len(q) : i < j => Before(q[i], q[j])

\* What is on its way.
ToSta == \A f \in Range(toSta) :
    /\ f.type \in {"m1", "m3", "deauth"}
    /\ f.ctr <= ctr
    /\ f.type # "deauth" => f.an # 0 /\ f.an <= anonce
    /\ f.type = "m3" => f.mic \in Key
ToAp == \A f \in Range(toAp) :
    /\ f.type \in {"m2", "m4", "deauth"}
    /\ f.type = "m2" => f.sn # 0

\* The SNonce of a PTK that may still be set has not been used.
StaNonces ==
    /\ ~renew => snonce # 0
    /\ tptk # NoKey => tptk.sn = snonce
    /\ \A k \in Range(staUsed) :
          /\ k.sn <= snonce
          /\ ~renew \/ tptk # NoKey => k.sn < snonce
    /\ IsInjective(staUsed)

\* Neither has the ANonce of a handshake under way.
ApNonces ==
    /\ apState # "gone" => anonce # 0
    /\ apState \in {"init", "done"} => apPtk \in Key /\ apPtk.an = anonce
    /\ \A k \in Range(apUsed) :
          /\ k.an <= anonce
          /\ apState \in Shaking => k.an < anonce
    /\ IsInjective(apUsed)

Fresh == TypeOK /\ ToSta /\ ToAp /\ StaNonces /\ ApNonces

\* A message 3 is for the last message 1 the STA has seen.
Line ==
    /\ Ordered(toSta)
    /\ \A f \in Range(toSta) : f.type # "deauth" => staAnonce <= f.an
    /\ \A f \in Range(toSta) : f.type = "m3" =>
          /\ f.an = staAnonce
          /\ apState # "gone" /\ f.an = anonce =>
                apState \in {"init", "done"} /\ f.mic = apPtk
Answers == \A f \in Range(toAp) :
    f.type # "deauth" => f.mic \in Key /\ f.mic.an <= staAnonce
StaHolds ==
    /\ staTk.an <= staAnonce
    /\ tptk # NoKey => tptk.an = staAnonce /\ staPushed = tptk
    /\ staTk # NoKey => staUsed # <<>> /\ Last(staUsed) = staTk
    /\ ~linked => tptk = NoKey /\ staTk = NoKey
ApHolds ==
    /\ apState \in {"init", "done"} => apPushed = apPtk /\ staAnonce = anonce
    /\ apState = "done" => apTk = apPtk

\* The STA has set the TK of the handshake under way: it has pushed no other PTK,
\* and no message 1 can make it do so.
Reached ==
    /\ apState \in {"init", "done"}
    /\ staPushed = apPtk
    /\ linked => staTk = apPtk /\ tptk = NoKey
    /\ \A f \in Range(toSta) : f.type # "m1"
    /\ staUsed # <<>> /\ Last(staUsed) = apPtk
Meeting ==
    /\ apState # "gone" /\ staTk.an = anonce => Reached
    /\ apState = "done" => Reached
    /\ \A f \in Range(toAp) :
          apState # "gone" /\ f.type = "m4" /\ f.mic.an = anonce =>
              Reached /\ f.mic = apPtk

Agreement == Line /\ Answers /\ StaHolds /\ ApHolds /\ Meeting

\* As long as the TK that message 3 stands for is not set, the STA still has the
\* TK of the AP: message 2 went through, encrypted with it or in the clear.
Behind ==
    /\ Range(apUsed) \subseteq Range(staUsed)
    /\ \A f, g \in Range(toSta) :
          f.type = "m3" /\ g.type = "m3" => f.mic = g.mic
    /\ linked /\ apState # "gone" =>
          /\ staTk = NoKey => apTk = NoKey
          /\ \A f \in Range(toAp) :
                apState \in {"start", "calc"} /\ f.type = "m2" /\ f.mic.an = anonce =>
                    f.enc = staTk
          /\ \A f \in Range(toSta) :
                f.type = "m3" /\ f.mic \notin Range(staUsed) => apTk = staTk
          /\ apState = "init" /\ apPtk \notin Range(staUsed) => apTk = staTk

-----------------------------------------------------------------------------
(* Queues                                                                  *)

\* r is q less what was delivered or lost, and Deauth at most more.
Fewer(q, r) ==
    /\ r \in Seq(Frame)
    /\ Range(r) \subseteq Range(q) \cup {Deauth}
    /\ Ordered(q) => Ordered(r)

\* r is q and f behind it.
Put(q, f, r) ==
    /\ r \in Seq(Frame)
    /\ Range(r) = Range(q) \cup {f}
    /\ Ordered(q) /\ (\A g \in Range(q) : Before(g, f)) => Ordered(r)

\* f is taken from the head of q, and r left.
Take(q, f, r) ==
    /\ f \in Range(q)
    /\ Fewer(q, r)
    /\ Range(r) \subseteq Range(q)
    /\ Ordered(q) => \A g \in Range(r) : Before(f, g)

LEMMA RangeAppend ==
  ASSUME NEW S, NEW q \in Seq(S), NEW x \in S
  PROVE  /\ Append(q, x) \in Seq(S)
         /\ Range(Append(q, x)) = Range(q) \cup {x}
         /\ Append(q, x) # <<>>
         /\ Last(Append(q, x)) = x
<1> DEFINE r == Append(q, x)
<1>1. /\ r \in Seq(S) /\ Len(r) = Len(q) + 1 /\ Len(q) \in Nat
      /\ DOMAIN q = 1 .. Len(q) /\ DOMAIN r = 1 .. Len(q) + 1
      /\ r[Len(q) + 1] = x
      /\ \A i \in 1 .. Len(q) : r[i] = q[i]
  OBVIOUS
<1>2. Range(r) \subseteq Range(q) \cup {x}
  <2> SUFFICES ASSUME NEW i \in 1 .. Len(q) + 1 PROVE r[i] \in Range(q) \cup {x}
    BY <1>1 DEF Range
  <2>1. i = Len(q) + 1 \/ i \in 1 .. Len(q)
    BY <1>1
  <2>2. QED
    BY <1>1, <2>1 DEF Range
<1>3. Range(q) \cup {x} \subseteq Range(r)
  <2>1. \A i \in 1 .. Len(q) : q[i] = r[i] /\ i \in 1 .. Len(q) + 1
    BY <1>1
  <2>2. Len(q) + 1 \in 1 .. Len(q) + 1
    BY <1>1
  <2>3. QED
    BY <1>1, <2>1, <2>2 DEF Range
<1>4. r # <<>> /\ Last(r) = x
  BY <1>1 DEF Last
<1>5. QED
  BY <1>1, <1>2, <1>3, <1>4

LEMMA RangeTail ==
  ASSUME NEW S, NEW q \in Seq(S), q # <<>>
  PROVE  /\ Tail(q) \in Seq(S)
         /\ Head(q) \in Range(q)
         /\ Range(Tail(q)) \subseteq Range(q)
         /\ Len(Tail(q)) \in Nat /\ Len(q) = Len(Tail(q)) + 1
         /\ Head(q) = q[1]
         /\ \A i \in 1 .. Len(Tail(q)) : i + 1 \in 1 .. Len(q) /\ Tail(q)[i] = q[i + 1]
<1>1. /\ Tail(q) \in Seq(S) /\ Len(Tail(q)) \in Nat /\ Len(q) = Len(Tail(q)) + 1
      /\ DOMAIN q = 1 .. Len(q) /\ DOMAIN Tail(q) = 1 .. Len(Tail(q))
      /\ Head(q) = q[1]
  OBVIOUS
<1>2. \A i \in 1 .. Len(Tail(q)) : i + 1 \in 1 .. Len(q) /\ Tail(q)[i] = q[i + 1]
  BY <1>1
<1>3. 1 \in 1 .. Len(q)
  BY <1>1
<1>4. Head(q) \in Range(q)
  BY <1>1, <1>3 DEF Range
<1>5. Range(Tail(q)) \subseteq Range(q)
  BY <1>1, <1>2 DEF Range
<1>6. QED
  BY <1>1, <1>2, <1>4, <1>5

LEMMA RangeIn == ASSUME NEW S, NEW q \in Seq(S) PROVE Range(q) \subseteq S
<1>1. \A i \in DOMAIN q : q[i] \in S
  OBVIOUS
<1>2. QED
  BY <1>1 DEF Range

LEMMA DeauthFrame == Deauth \in Frame /\ Deauth.type = "deauth"
  BY DEF Deauth, Frame, OptKey

LEMMA FewerSame == ASSUME NEW q \in Seq(Frame) PROVE Fewer(q, q)
  BY DEF Fewer

LEMMA PutAppend ==
  ASSUME NEW q \in Seq(Frame), NEW f \in Frame
  PROVE  Put(q, f, Append(q, f))
<1> DEFINE r == Append(q, f)
<1>1. r \in Seq(Frame) /\ Range(r) = Range(q) \cup {f}
  BY RangeAppend
<1>2. ASSUME Ordered(q), \A g \in Range(q) : Before(g, f) PROVE Ordered(r)
  <2>1. /\ Len(r) = Len(q) + 1 /\ Len(q) \in Nat
        /\ r[Len(q) + 1] = f
        /\ \A i \in 1 .. Len(q) : r[i] = q[i]
    OBVIOUS
  <2> SUFFICES ASSUME NEW i \in 1 .. Len(r), NEW j \in 1 .. Len(r), i < j
               PROVE  Before(r[i], r[j])
    BY DEF Ordered
  <2>2. i \in 1 .. Len(q) /\ (j \in 1 .. Len(q) \/ j = Len(q) + 1)
    BY <2>1
  <2>3. CASE j \in 1 .. Len(q)
    <3>1. r[i] = q[i] /\ r[j] = q[j]
      BY <2>1, <2>2, <2>3
    <3>2. Before(q[i], q[j])
      BY <1>2, <2>2, <2>3 DEF Ordered
    <3>3. QED
      BY <3>1, <3>2
  <2>4. CASE j = Len(q) + 1
    <3>1. r[i] = q[i] /\ r[j] = f
      BY <2>1, <2>2, <2>4
    <3>2. q[i] \in Range(q)
      BY <2>2 DEF Range
    <3>3. QED
      BY <1>2, <3>1, <3>2
  <2>5. QED
    BY <2>2, <2>3, <2>4
<1>3. QED
  BY <1>1, <1>2 DEF Put

LEMMA FewerDeauth == ASSUME NEW q \in Seq(Frame) PROVE Fewer(q, Append(q, Deauth))
<1>1. Put(q, Deauth, Append(q, Deauth))
  BY DeauthFrame, PutAppend
<1>2. \A g \in Range(q) : Before(g, Deauth)
  BY DeauthFrame DEF Before
<1>3. QED
  BY <1>1, <1>2 DEF Put, Fewer

LEMMA TakeTail ==
  ASSUME NEW q \in Seq(Frame), q # <<>>
  PROVE  Take(q, Head(q), Tail(q))
<1> DEFINE r == Tail(q)
<1>1. /\ r \in Seq(Frame) /\ Head(q) \in Range(q) /\ Range(r) \subseteq Range(q)
      /\ Len(r) \in Nat /\ Len(q) = Len(r) + 1 /\ Head(q) = q[1]
      /\ \A i \in 1 .. Len(r) : i + 1 \in 1 .. Len(q) /\ r[i] = q[i + 1]
  BY RangeTail
<1>2. ASSUME Ordered(q) PROVE Ordered(r)
  <2> SUFFICES ASSUME NEW i \in 1 .. Len(r), NEW j \in 1 .. Len(r), i < j
               PROVE  Before(r[i], r[j])
    BY DEF Ordered
  <2>1. i + 1 \in 1 .. Len(q) /\ j + 1 \in 1 .. Len(q) /\ i + 1 < j + 1
    BY <1>1
  <2>2. Before(q[i + 1], q[j + 1])
    BY <1>2, <2>1 DEF Ordered
  <2>3. QED
    BY <1>1, <2>2
<1>3. ASSUME Ordered(q), NEW g \in Range(r) PROVE Before(Head(q), g)
  <2>1. PICK i \in 1 .. Len(r) : g = r[i]
    BY <1>1 DEF Range
  <2>2. 1 \in 1 .. Len(q) /\ i + 1 \in 1 .. Len(q) /\ 1 < i + 1 /\ g = q[i + 1]
    BY <1>1, <2>1
  <2>3. Before(q[1], q[i + 1])
    BY <1>3, <2>2 DEF Ordered
  <2>4. QED
    BY <1>1, <2>2, <2>3
<1>4. QED
  BY <1>1, <1>2, <1>3 DEF Take, Fewer

\* One frame is in order.
LEMMA Single == ASSUME NEW f \in Frame PROVE Put(<<>>, f, <<f>>) /\ Ordered(<<f>>)
<1>1. <<>> \in Seq(Frame) /\ Append(<<>>, f) = <<f>>
  OBVIOUS
<1>2. Put(<<>>, f, <<f>>)
  BY <1>1, PutAppend
<1>3. Ordered(<<f>>)
  BY DEF Ordered
<1>4. QED
  BY <1>2, <1>3

\* A key that was not used before can be used once.
LEMMA InjectiveAppend ==
  ASSUME NEW q \in Seq(Key), NEW x \in Key, IsInjective(q), x \notin Range(q)
  PROVE  IsInjective(Append(q, x))
<1> DEFINE r == Append(q, x)
<1>1. /\ DOMAIN r = 1 .. Len(q) + 1 /\ Len(q) \in Nat /\ DOMAIN q = 1 .. Len(q)
      /\ r[Len(q) + 1] = x
      /\ \A i \in 1 .. Len(q) : r[i] = q[i]
  OBVIOUS
<1> SUFFICES ASSUME NEW i \in 1 .. Len(q) + 1, NEW j \in 1 .. Len(q) + 1, r[i] = r[j]
             PROVE  i = j
  BY <1>1 DEF IsInjective
<1>2. \A n \in 1 .. Len(q) + 1 : n \in 1 .. Len(q) \/ n = Len(q) + 1
  BY <1>1
<1>3. \A n \in 1 .. Len(q) : r[n] # x
  BY <1>1 DEF Range
<1>4. QED
  BY <1>1, <1>2, <1>3 DEF IsInjective

-----------------------------------------------------------------------------
(* The steps, by what they do to the keys and the queues                   *)

apSide == <<apHand, apKeys, apPushed>>
staSide == <<linked, staHand, staKeys, staPushed>>

Air == Fewer(toSta, toSta') /\ Fewer(toAp, toAp')

Quiet == Air /\ UNCHANGED <<apSide, staSide>>

StaDrops ==
    /\ Air
    /\ linked' = FALSE /\ tptk' = NoKey /\ staTk' = NoKey
    /\ UNCHANGED <<apSide, snonce, renew, staAnonce, rxCtr, staUsed, staPushed>>

ApDrops ==
    /\ Air
    /\ ForgetSta
    /\ UNCHANGED <<apPushed, staSide>>

Opens(c, tk, q) ==
    /\ apState' = "start" /\ anonce' = anonce + 1 /\ apPtk' = NoKey
    /\ tries' = 1 /\ ctr' = c + 1 /\ valid' \subseteq 1 .. c + 1
    /\ Put(q, M1(c + 1, anonce + 1, tk), toSta')
    /\ UNCHANGED <<apUsed, apPushed, snonce, staAnonce, staUsed, staPushed>>

Restarts ==
    /\ apState # "gone"
    /\ Opens(ctr, apTk, toSta)
    /\ UNCHANGED <<apTk, linked, renew, tptk, staTk, rxCtr, toAp>>

Associates ==
    /\ Opens(0, NoKey, <<>>)
    /\ Ordered(toSta')
    /\ linked' = TRUE /\ renew' = TRUE /\ rxCtr' = 0
    /\ tptk' = NoKey /\ staTk' = NoKey /\ apTk' = NoKey
    /\ toAp' = <<>>

Repeats ==
    /\ apState \in Shaking
    /\ apState' = IF apState = "init" THEN "init" ELSE "start"
    /\ tries' \in 0 .. Retries /\ ctr' = ctr + 1 /\ valid' \subseteq 1 .. ctr + 1
    /\ Put(toSta, Retransmission, toSta')
    /\ UNCHANGED <<anonce, apPtk, apKeys, apPushed, staSide, toAp>>

\* Message 2, taken or refused.
Answered(f) ==
    /\ apState \in {"start", "calc"}
    /\ f.type = "m2" /\ f.enc \in {NoKey, apTk}
    /\ Take(toAp, f, toAp')
    /\ UNCHANGED <<anonce, apKeys, staSide>>

Takes(f) ==
    /\ Answered(f)
    /\ f.mic \in Key /\ f.mic.an = anonce
    /\ apState' = "init" /\ apPtk' = f.mic /\ apPushed' = f.mic
    /\ tries' = 1 /\ ctr' = ctr + 1 /\ valid' = {ctr + 1}
    /\ Put(toSta, M3(ctr + 1, anonce, f.mic, apTk), toSta')

Refuses(f) ==
    /\ Answered(f)
    /\ apState' = "calc" /\ valid' = {} /\ apPushed' \in Key
    /\ UNCHANGED <<apPtk, tries, ctr, toSta>>

Completes(f) ==
    /\ apState = "init"
    /\ f.type = "m4" /\ f.mic = apPtk
    /\ Take(toAp, f, toAp')
    /\ apState' = "done" /\ valid' = {}
    /\ apTk' = apPtk /\ apUsed' = Append(apUsed, apPtk)
    /\ UNCHANGED <<anonce, ctr, tries, apPtk, apPushed, staSide, toSta>>

Derives(f) ==
    /\ linked
    /\ f.type = "m1"
    /\ Take(toSta, f, toSta')
    /\ tptk' \in Key /\ tptk'.an = f.an /\ tptk'.sn = snonce'
    /\ snonce' = IF renew THEN snonce + 1 ELSE snonce
    /\ renew' = FALSE
    /\ staPushed' = tptk' /\ staAnonce' = f.an
    /\ Put(toAp, M2(f.ctr, snonce', tptk', staTk), toAp')
    /\ UNCHANGED <<apSide, linked, rxCtr, staKeys>>

\* Message 3, with k the key it is verified with.
Confirms(f, k, enc) ==
    /\ linked
    /\ f.type = "m3" /\ f.an = staAnonce /\ f.mic = k
    /\ Take(toSta, f, toSta')
    /\ Put(toAp, M4(f.ctr, k, enc), toAp')
    /\ renew' = TRUE /\ rxCtr' = f.ctr
    /\ UNCHANGED <<apSide, linked, snonce, staAnonce, staPushed>>

Sets(f, enc) ==
    /\ Confirms(f, tptk, enc)
    /\ staTk' = tptk /\ staUsed' = Append(staUsed, tptk) /\ tptk' = NoKey

Again(f) ==
    /\ Confirms(f, staTk, staTk)
    /\ f.mic # tptk
    /\ UNCHANGED <<tptk, staKeys>>

ApSteps(f) == Takes(f) \/ Refuses(f) \/ Completes(f)
StaSteps(f) == Derives(f) \/ Again(f) \/ \E enc \in OptKey : Sets(f, enc)
Kinds ==
    \/ Quiet \/ StaDrops \/ ApDrops \/ Restarts \/ Associates \/ Repeats
    \/ \E f \in Frame : ApSteps(f) \/ StaSteps(f)

LEMMA PendingRange ==
  ASSUME NEW c \in Nat, NEW old \in SUBSET (1 .. c)
  PROVE  Pending(old, c + 1) \subseteq 1 .. c + 1
<1> SUFFICES ASSUME NEW n \in Pending(old, c + 1) PROVE n \in 1 .. c + 1
  OBVIOUS
<1>1. n \in old \/ n = c + 1
  BY DEF Pending
<1>2. old \subseteq 1 .. c
  OBVIOUS
<1>3. n \in 1 .. c \/ n = c + 1
  BY <1>1, <1>2
<1>4. QED
  BY ONLY c \in Nat, <1>3

LEMMA StepKinds == Fresh /\ [Next]_vars => Kinds
<1> SUFFICES ASSUME Fresh, [Next]_vars PROVE Kinds
  OBVIOUS
<1>1. TypeOK /\ ToSta /\ ToAp /\ StaNonces /\ ApNonces
  BY DEF Fresh
<1>2. /\ toSta \in Seq(Frame) /\ toAp \in Seq(Frame)
      /\ anonce \in Nat /\ ctr \in Nat /\ snonce \in Nat
      /\ valid \in SUBSET (1 .. ctr) /\ tries \in 0 .. Retries
      /\ apTk \in OptKey /\ apPtk \in OptKey /\ staTk \in OptKey /\ tptk \in OptKey
      /\ apPsk \in 0 .. MaxRound /\ staPend \in 0 .. MaxRound
      /\ staPmk \in 0 .. MaxRound /\ NoKey \in OptKey
  BY <1>1 DEF TypeOK, OptKey
<1>3. /\ Fewer(toSta, toSta) /\ Fewer(toAp, toAp)
      /\ Fewer(toSta, Append(toSta, Deauth)) /\ Fewer(toAp, Append(toAp, Deauth))
  BY <1>2, FewerSame, FewerDeauth
<1>4. /\ toSta # <<>> => Take(toSta, Head(toSta), Tail(toSta))
      /\ toAp # <<>> => Take(toAp, Head(toAp), Tail(toAp))
  BY <1>2, TakeTail
<1>5. /\ toSta # <<>> => Fewer(toSta, Tail(toSta)) /\ Head(toSta) \in Range(toSta)
      /\ toAp # <<>> => Fewer(toAp, Tail(toAp)) /\ Head(toAp) \in Range(toAp)
  BY <1>4 DEF Take
<1>6. /\ toSta # <<>> => Head(toSta) \in Frame
      /\ toAp # <<>> => Head(toAp) \in Frame
  BY <1>2
<1>7. \A c \in Nat, an \in Nat, sn \in Nat, mic \in OptKey, enc \in OptKey :
          /\ M1(c, an, enc) \in Frame /\ M2(c, sn, mic, enc) \in Frame
          /\ M3(c, an, mic, enc) \in Frame /\ M4(c, mic, enc) \in Frame
  BY <1>2 DEF M1, M2, M3, M4, Frame
<1>8. CASE Setptk
  <2>1. M1(ctr + 1, anonce + 1, apTk) \in Frame
    BY <1>2, <1>7
  <2>2. Put(toSta, M1(ctr + 1, anonce + 1, apTk), toSta')
    BY <1>2, <1>8, <2>1, PutAppend DEF Setptk, StartHandshake
  <2>3. valid' \subseteq 1 .. ctr + 1
    BY <1>2, <1>8, PendingRange DEF Setptk, StartHandshake
  <2>4. Restarts
    BY <1>8, <2>2, <2>3
    DEF Setptk, StartHandshake, Restarts, Opens, apKeys, staVars, staHand, staKeys
  <2>5. QED
    BY <2>4 DEF Kinds
<1>9. CASE Associate
  <2>1. M1(1, anonce + 1, NoKey) \in Frame
    BY <1>2, <1>7
  <2>2. toSta' = <<M1(1, anonce + 1, NoKey)>>
    BY <1>9 DEF Associate, StartHandshake
  <2>3. Put(<<>>, M1(1, anonce + 1, NoKey), toSta') /\ Ordered(toSta')
    BY <2>1, <2>2, Single
  <2>4. valid' \subseteq 1 .. 1
    BY <1>9 DEF Associate, StartHandshake, Pending
  <2>5. Associates
    BY <1>9, <2>3, <2>4 DEF Associate, StartHandshake, Associates, Opens
  <2>6. QED
    BY <2>5 DEF Kinds
<1>10. CASE ApTimeout
  <2>1. CASE tries < Retries
    <3>1. Retransmission \in Frame
      BY <1>2, <1>7 DEF Retransmission
    <3>2. Put(toSta, Retransmission, toSta')
      BY <1>2, <1>10, <2>1, <3>1, PutAppend DEF ApTimeout
    <3>3. valid' \subseteq 1 .. ctr + 1
      BY <1>2, <1>10, <2>1, PendingRange DEF ApTimeout
    <3>4. tries' \in 0 .. Retries
      BY <1>2, <1>10, <2>1, FourWayAssumption DEF ApTimeout
    <3>5. Repeats
      BY <1>10, <2>1, <3>2, <3>3, <3>4
      DEF ApTimeout, Repeats, apKeys, staSide, staVars
    <3>6. QED
      BY <3>5 DEF Kinds
  <2>2. CASE ~(tries < Retries)
    <3>1. ApDrops
      BY <1>3, <1>10, <2>2 DEF ApTimeout, ApDrops, Air, staSide, staVars
    <3>2. QED
      BY <3>1 DEF Kinds
  <2>3. QED
    BY <2>1, <2>2
<1>11. CASE ApRejects
  <2>1. toSta' = Append(toSta, Deauth)
    BY <1>11 DEF ApRejects
  <2>2. Quiet
    BY <1>3, <1>11, <2>1
    DEF ApRejects, Quiet, Air, apSide, staSide, apVars, staVars
  <2>3. QED
    BY <2>2 DEF Kinds
<1>12. CASE ApInactivity
  <2>1. ApDrops
    BY <1>3, <1>12 DEF ApInactivity, ApDrops, Air, staSide, staVars
  <2>2. QED
    BY <2>1 DEF Kinds
<1>13. CASE StaSetPsk
  <2>1. Quiet
    BY <1>3, <1>13 DEF StaSetPsk, Quiet, Air, apSide, staSide, apVars
  <2>2. QED
    BY <2>1 DEF Kinds
<1>14. CASE StaLeaves
  <2>1. StaDrops
    BY <1>3, <1>14 DEF StaLeaves, DropKeys, StaDrops, Air, apSide, apVars
  <2>2. QED
    BY <2>1 DEF Kinds
<1>15. CASE LoseToSta \/ LoseToAp \/ UNCHANGED vars
  <2>1. Quiet
    BY <1>3, <1>5, <1>15
    DEF LoseToSta, LoseToAp, vars, Quiet, Air, apSide, staSide, apVars, staVars
  <2>2. QED
    BY <2>1 DEF Kinds
<1>16. CASE ApReceive
  <2> DEFINE f == Head(toAp)
  <2>1. /\ toAp # <<>> /\ toAp' = Tail(toAp)
        /\ UNCHANGED <<staVars, bounds>>
        /\ ApAccepts(f) \/ ApIgnores(f)
    BY <1>16 DEF ApReceive
  <2>2. /\ f \in Frame /\ f \in Range(toAp) /\ Take(toAp, f, toAp')
        /\ Fewer(toAp, toAp')
    BY <1>4, <1>5, <1>6, <2>1
  <2>3. UNCHANGED staSide
    BY <2>1 DEF staSide, staVars
  <2> HIDE DEF f
  <2>4. ASSUME ApAccepts(f), ApMsg2(f) PROVE Takes(f) \/ Refuses(f)
    <3> DEFINE ptk == [pmk |-> apPsk, an |-> anonce, sn |-> f.sn]
    <3>1. /\ apState \in {"start", "calc"} /\ f.type = "m2"
          /\ f.enc \in {NoKey, apTk}
          /\ UNCHANGED <<anonce, apKeys>>
      BY <2>4 DEF ApAccepts, Readable, ApMsg2
    <3>2. ptk \in Key
      BY <1>1, <1>2, <2>2, <3>1 DEF Frame, Key, ToAp, ApNonces
    <3>3. CASE f.mic = ptk
      <4>1. /\ apState' = "init" /\ apPtk' = ptk /\ apPushed' = ptk
            /\ tries' = 1 /\ ctr' = ctr + 1 /\ valid' = {ctr + 1}
            /\ toSta' = Append(toSta, M3(ctr + 1, anonce, ptk, apTk))
        BY <2>4, <3>3 DEF ApMsg2
      <4>2. M3(ctr + 1, anonce, ptk, apTk) \in Frame
        BY <1>2, <1>7, <3>2 DEF OptKey
      <4>3. Put(toSta, M3(ctr + 1, anonce, ptk, apTk), toSta')
        BY <1>2, <4>1, <4>2, PutAppend
      <4>4. f.mic \in Key /\ f.mic.an = anonce
        BY <3>2, <3>3
      <4>5. Takes(f)
        BY <2>2, <2>3, <3>1, <3>3, <4>1, <4>3, <4>4 DEF Takes, Answered
      <4>6. QED
        BY <4>5
    <3>4. CASE f.mic # ptk
      <4>1. /\ apState' = "calc" /\ valid' = {} /\ apPushed' = ptk
            /\ UNCHANGED <<apPtk, tries, ctr, toSta>>
        BY <2>4, <3>4 DEF ApMsg2
      <4>2. Refuses(f)
        BY <2>2, <2>3, <3>1, <3>2, <4>1 DEF Refuses, Answered
      <4>3. QED
        BY <4>2
    <3>5. QED
      BY <3>3, <3>4
  <2>5. ASSUME ApMsg4(f) PROVE Completes(f)
    BY <2>2, <2>3, <2>5 DEF ApMsg4, Completes
  <2>6. ASSUME ApDeauth(f) PROVE ApDrops
    BY <1>3, <2>2, <2>3, <2>6 DEF ApDeauth, ApDrops, Air
  <2>7. ASSUME ApIgnores(f) PROVE Quiet
    BY <1>3, <2>2, <2>3, <2>7 DEF ApIgnores, Quiet, Air, apSide, apVars
  <2>8. QED
    BY <2>1, <2>2, <2>4, <2>5, <2>6, <2>7 DEF ApAccepts, Kinds, ApSteps
<1>17. CASE StaReceive
  <2> DEFINE f == Head(toSta)
  <2>1. /\ toSta # <<>> /\ toSta' = Tail(toSta)
        /\ UNCHANGED <<apVars, bounds>>
        /\ StaAccepts(f) \/ StaIgnores(f)
    BY <1>17 DEF StaReceive
  <2>2. /\ f \in Frame /\ f \in Range(toSta) /\ Take(toSta, f, toSta')
        /\ Fewer(toSta, toSta')
    BY <1>4, <1>5, <1>6, <2>1
  <2>3. UNCHANGED apSide
    BY <2>1 DEF apSide, apVars
  <2>4. f.ctr \in Nat
    BY <2>2 DEF Frame
  <2> HIDE DEF f
  <2>5. ASSUME linked, StaMsg1(f) PROVE Derives(f)
    <3> DEFINE pmk == IF staPend # 0 THEN staPend ELSE staPmk
               sn  == IF renew THEN snonce + 1 ELSE snonce
               ptk == [pmk |-> pmk, an |-> f.an, sn |-> sn]
    <3>1. /\ f.type = "m1" /\ snonce' = sn /\ renew' = FALSE
          /\ tptk' = ptk /\ staPushed' = ptk
          /\ toAp' = Append(toAp, M2(f.ctr, sn, ptk, staTk))
          /\ staAnonce' = f.an
          /\ UNCHANGED <<linked, rxCtr, staKeys>>
      BY <2>5 DEF StaMsg1
    <3>2. /\ pmk \in 0 .. MaxRound /\ sn \in Nat /\ sn # 0
          /\ f.an \in Nat /\ f.an # 0
      <4>1. pmk \in 0 .. MaxRound
        BY <1>2
      <4>2. sn \in Nat /\ sn # 0
        BY <1>1, <1>2 DEF StaNonces
      <4>3. f.an \in Nat /\ f.an # 0
        BY <1>1, <2>2, <3>1 DEF ToSta, Frame
      <4>4. QED
        BY <4>1, <4>2, <4>3
    <3>3. ptk \in Key /\ ptk.an = f.an /\ ptk.sn = sn
      BY <3>2 DEF Key
    <3>4. M2(f.ctr, sn, ptk, staTk) \in Frame
      BY <1>2, <1>7, <2>4, <3>2, <3>3 DEF OptKey
    <3>5. Put(toAp, M2(f.ctr, sn, ptk, staTk), toAp')
      BY <1>2, <3>1, <3>4, PutAppend
    <3> HIDE DEF ptk
    <3>6. QED
      BY <2>2, <2>3, <2>5, <3>1, <3>3, <3>5 DEF Derives
  <2>6. ASSUME StaDeauthenticates PROVE StaDrops
    BY <1>3, <2>2, <2>3, <2>6 DEF StaDeauthenticates, DropKeys, StaDrops, Air
  <2>7. ASSUME linked, StaMsg3(f)
        PROVE  StaDrops \/ \E enc \in OptKey : Sets(f, enc)
    <3>1. CASE f.an = staAnonce
      <4>1. PICK enc \in {NoKey, staTk} : toAp' = Append(toAp, M4(f.ctr, tptk, enc))
        BY <2>7, <3>1 DEF StaMsg3
      <4>2. enc \in OptKey /\ M4(f.ctr, tptk, enc) \in Frame
        BY <1>2, <1>7, <2>4
      <4>3. Put(toAp, M4(f.ctr, tptk, enc), toAp')
        BY <1>2, <4>1, <4>2, PutAppend
      <4>4. Sets(f, enc)
        BY <2>2, <2>3, <2>7, <3>1, <4>3 DEF StaMsg3, Sets, Confirms
      <4>5. QED
        BY <4>2, <4>4
    <3>2. CASE f.an # staAnonce
      BY <2>6, <2>7, <3>2 DEF StaMsg3
    <3>3. QED
      BY <3>1, <3>2
  <2>8. ASSUME linked, StaMsg3Again(f) PROVE StaDrops \/ Again(f)
    <3>1. CASE f.an = staAnonce
      <4>1. toAp' = Append(toAp, M4(f.ctr, staTk, staTk))
        BY <2>8, <3>1 DEF StaMsg3Again
      <4>2. M4(f.ctr, staTk, staTk) \in Frame
        BY <1>2, <1>7, <2>4
      <4>3. Put(toAp, M4(f.ctr, staTk, staTk), toAp')
        BY <1>2, <4>1, <4>2, PutAppend
      <4>4. Again(f)
        BY <2>2, <2>3, <2>8, <3>1, <4>3 DEF StaMsg3Again, Again, Confirms
      <4>5. QED
        BY <4>4
    <3>2. CASE f.an # staAnonce
      BY <2>6, <2>8, <3>2 DEF StaMsg3Again
    <3>3. QED
      BY <3>1, <3>2
  <2>9. ASSUME StaDeauth(f) PROVE StaDrops
    BY <1>3, <2>2, <2>3, <2>9 DEF StaDeauth, DropKeys, StaDrops, Air
  <2>10. ASSUME StaIgnores(f) PROVE Quiet
    BY <1>3, <2>2, <2>3, <2>10 DEF StaIgnores, Quiet, Air, staSide, staVars
  <2>11. QED
    BY <2>1, <2>2, <2>5, <2>7, <2>8, <2>9, <2>10
    DEF StaAccepts, Kinds, StaSteps
<1>18. QED
  BY <1>8, <1>9, <1>10, <1>11, <1>12, <1>13, <1>14, <1>15, <1>16, <1>17 DEF Next

-----------------------------------------------------------------------------
(* Nonces are new                                                          *)

Counted ==
    /\ apPsk \in 0 .. MaxRound /\ staPend \in 0 .. MaxRound
    /\ staPmk \in 0 .. MaxRound /\ round \in 0 .. MaxRound
    /\ losses \in 0 .. MaxLoss /\ assocs \in 0 .. MaxAssoc

Typed ==
    /\ apState \in Shaking \cup {"done", "gone"}
    /\ anonce \in Nat /\ ctr \in Nat
    /\ valid \in SUBSET (1 .. ctr)
    /\ tries \in 0 .. Retries
    /\ apPtk \in OptKey /\ apTk \in OptKey /\ apPushed \in OptKey
    /\ tptk \in OptKey /\ staTk \in OptKey /\ staPushed \in OptKey
    /\ linked \in BOOLEAN /\ renew \in BOOLEAN
    /\ snonce \in Nat /\ staAnonce \in 0 .. anonce /\ rxCtr \in 0 .. ctr
    /\ toSta \in Seq(Frame) /\ toAp \in Seq(Frame)
    /\ apUsed \in Seq(Key) /\ staUsed \in Seq(Key)

LEMMA Members ==
  ASSUME Typed
  PROVE  /\ Range(toSta) \subseteq Frame /\ Range(toAp) \subseteq Frame
         /\ \A f \in Range(toSta) : f.ctr \in Nat /\ f.an \in Nat
         /\ \A k \in Range(apUsed) \cup Range(staUsed) : k.an \in Nat /\ k.sn \in Nat
<1>1. Range(toSta) \subseteq Frame /\ Range(toAp) \subseteq Frame
  <2>1. toSta \in Seq(Frame) /\ toAp \in Seq(Frame)
    BY DEF Typed
  <2>2. QED
    BY <2>1, RangeIn
<1>2. Range(apUsed) \subseteq Key /\ Range(staUsed) \subseteq Key
  <2>1. apUsed \in Seq(Key) /\ staUsed \in Seq(Key)
    BY DEF Typed
  <2>2. QED
    BY <2>1, RangeIn
<1>3. QED
  BY <1>1, <1>2 DEF Frame, Key

LEMMA TypeParts == TypeOK <=> Counted /\ Typed
  BY DEF TypeOK, Counted, Typed

LEMMA CountedStep == Counted /\ [Next]_vars => Counted'
<1> SUFFICES ASSUME Counted, [Next]_vars PROVE Counted'
  OBVIOUS
<1> USE FourWayAssumption DEF Counted
<1>1. CASE Setptk
  BY <1>1 DEF Setptk, bounds, staVars
<1>2. CASE ApReceive
  <2>1. apPsk' = apPsk
    BY <1>2 DEF ApReceive, ApAccepts, ApIgnores, ApMsg2, ApMsg4, ApDeauth, apVars
  <2>2. UNCHANGED <<staVars, bounds>>
    BY <1>2 DEF ApReceive
  <2>3. QED
    BY <2>1, <2>2 DEF staVars, bounds
<1>3. CASE ApTimeout \/ ApRejects \/ ApInactivity
  BY <1>3 DEF ApTimeout, ApRejects, ApInactivity, apVars, staVars, bounds
<1>4. CASE StaSetPsk
  BY <1>4 DEF StaSetPsk, apVars
<1>5. CASE StaReceive
  <2> DEFINE f == Head(toSta)
  <2>1. UNCHANGED <<apVars, bounds>> /\ (StaAccepts(f) \/ StaIgnores(f))
    BY <1>5 DEF StaReceive
  <2> HIDE DEF f
  <2>2. CASE StaMsg1(f)
    BY <2>1, <2>2 DEF StaMsg1, apVars, bounds
  <2>3. CASE ~StaMsg1(f)
    <3>1. UNCHANGED <<staPend, staPmk>>
      BY <2>1, <2>3
      DEF StaAccepts, StaIgnores, StaMsg3, StaMsg3Again, StaDeauth,
          StaDeauthenticates, DropKeys, staVars
    <3>2. QED
      BY <2>1, <3>1 DEF apVars, bounds
  <2>4. QED
    BY <2>2, <2>3
<1>6. CASE Associate
  BY <1>6 DEF Associate
<1>7. CASE StaLeaves
  BY <1>7 DEF StaLeaves, DropKeys, apVars, bounds
<1>8. CASE LoseToSta \/ LoseToAp
  <2>1. UNCHANGED <<apVars, staVars, assocs, round>>
    BY <1>8 DEF LoseToSta, LoseToAp
  <2>2. losses' \in 0 .. MaxLoss
    BY <1>8 DEF LoseToSta, LoseToAp
  <2>3. QED
    BY <2>1, <2>2 DEF apVars, staVars
<1>9. CASE UNCHANGED vars
  BY <1>9 DEF vars, apVars, staVars, bounds
<1>10. QED
  BY <1>1, <1>2, <1>3, <1>4, <1>5, <1>6, <1>7, <1>8, <1>9 DEF Next

\* The queues, while no handshake is opened and no message sent.
LEMMA AirFresh ==
  ASSUME Fresh, Air, anonce' = anonce, ctr' = ctr
  PROVE  ToSta' /\ ToAp'
<1>1. Deauth.type = "deauth" /\ Deauth.ctr = 0
  BY DEF Deauth
<1>2. ctr \in Nat
  BY DEF Fresh, TypeOK
<1>3. ToSta'
  BY <1>1, <1>2 DEF Fresh, Air, Fewer, ToSta
<1>4. ToAp'
  BY <1>1 DEF Fresh, Air, Fewer, ToAp
<1>5. QED
  BY <1>3, <1>4

LEMMA FreshStep == Fresh /\ [Next]_vars => Fresh'
<1> SUFFICES ASSUME Fresh, [Next]_vars PROVE Fresh'
  OBVIOUS
<1>1. Typed /\ ToSta /\ ToAp /\ StaNonces /\ ApNonces
  BY TypeParts DEF Fresh
<1>2. /\ anonce \in Nat /\ ctr \in Nat /\ snonce \in Nat
      /\ renew \in BOOLEAN /\ NoKey \in OptKey
      /\ staAnonce \in Nat /\ staAnonce <= anonce
  BY <1>1 DEF Typed, OptKey
<1>3. Kinds
  BY StepKinds
<1>4. Typed' /\ ToSta' /\ ToAp' /\ StaNonces' /\ ApNonces'
  <2>1. CASE Quiet
    <3>1. Typed'
      BY <1>1, <2>1
      DEF Quiet, Air, Fewer, Typed, apSide, apHand, apKeys, staSide, staHand, staKeys
    <3>2. ToSta' /\ ToAp'
      BY <2>1, AirFresh DEF Quiet, apSide, apHand
    <3>3. StaNonces' /\ ApNonces'
      BY <1>1, <2>1
      DEF Quiet, StaNonces, ApNonces, apSide, apHand, apKeys, staSide, staHand, staKeys
    <3>4. QED
      BY <3>1, <3>2, <3>3
  <2>2. CASE StaDrops
    <3>1. Typed'
      BY <1>1, <1>2, <2>2 DEF StaDrops, Air, Fewer, Typed, apSide, apHand, apKeys
    <3>2. ToSta' /\ ToAp'
      BY <2>2, AirFresh DEF StaDrops, apSide, apHand
    <3>3. StaNonces'
      BY <1>1, <2>2 DEF StaDrops, StaNonces
    <3>4. ApNonces'
      BY <1>1, <2>2 DEF StaDrops, ApNonces, apSide, apHand, apKeys
    <3>5. QED
      BY <3>1, <3>2, <3>3, <3>4
  <2>3. CASE ApDrops
    <3>1. Typed'
      BY <1>1, <1>2, <2>3, FourWayAssumption
      DEF ApDrops, ForgetSta, Air, Fewer, Typed, staSide, staHand, staKeys
    <3>2. ToSta' /\ ToAp'
      BY <2>3, AirFresh DEF ApDrops, ForgetSta
    <3>3. StaNonces'
      BY <1>1, <2>3 DEF ApDrops, StaNonces, staSide, staHand, staKeys
    <3>4. ApNonces'
      BY <1>1, <2>3 DEF ApDrops, ForgetSta, ApNonces, Shaking
    <3>5. QED
      BY <3>1, <3>2, <3>3, <3>4
  <2>4. CASE Restarts
    <3>1. Typed'
      <4>1. /\ anonce' \in Nat /\ ctr' \in Nat /\ valid' \in SUBSET (1 .. ctr')
            /\ tries' \in 0 .. Retries
            /\ staAnonce' \in 0 .. anonce' /\ rxCtr' \in 0 .. ctr'
        BY <1>1, <1>2, <2>4, FourWayAssumption DEF Restarts, Opens, Typed
      <4>2. QED
        BY <1>1, <1>2, <2>4, <4>1 DEF Restarts, Opens, Put, Typed, Shaking
    <3>2. ToSta' /\ ToAp'
      <4>1. \A f \in Range(toSta) : f.ctr \in Nat /\ f.an \in Nat
        BY <1>1, Members
      <4>2. ToSta'
        BY <1>1, <1>2, <2>4, <4>1 DEF Restarts, Opens, Put, ToSta, M1
      <4>3. QED
        BY <1>1, <2>4, <4>2 DEF Restarts, ToAp
    <3>3. StaNonces' /\ ApNonces'
      <4>1. StaNonces'
        BY <1>1, <2>4 DEF Restarts, Opens, StaNonces
      <4>2. \A k \in Range(apUsed) : k.an \in Nat
        BY <1>1, Members
      <4>3. QED
        BY <1>1, <1>2, <2>4, <4>1, <4>2 DEF Restarts, Opens, ApNonces, Shaking
    <3>4. QED
      BY <3>1, <3>2, <3>3
  <2>5. CASE Associates
    <3>1. Typed'
      <4>1. /\ anonce' \in Nat /\ ctr' \in Nat /\ valid' \in SUBSET (1 .. ctr')
            /\ tries' \in 0 .. Retries
            /\ staAnonce' \in 0 .. anonce' /\ rxCtr' \in 0 .. ctr'
        BY <1>1, <1>2, <2>5, FourWayAssumption DEF Associates, Opens, Typed
      <4>2. QED
        BY <1>1, <1>2, <2>5, <4>1 DEF Associates, Opens, Put, Typed, Shaking
    <3>2. ToSta' /\ ToAp'
      <4>1. Range(<<>>) = {}
        BY DEF Range
      <4>2. ToSta'
        BY <1>2, <2>5, <4>1 DEF Associates, Opens, Put, ToSta, M1
      <4>3. ToAp'
        BY <2>5, <4>1 DEF Associates, ToAp
      <4>4. QED
        BY <4>2, <4>3
    <3>3. StaNonces' /\ ApNonces'
      <4>1. StaNonces'
        BY <1>1, <2>5 DEF Associates, Opens, StaNonces
      <4>2. \A k \in Range(apUsed) : k.an \in Nat
        BY <1>1, Members
      <4>3. QED
        BY <1>1, <1>2, <2>5, <4>1, <4>2 DEF Associates, Opens, ApNonces, Shaking
    <3>4. QED
      BY <3>1, <3>2, <3>3
  <2>6. CASE Repeats
    <3>1. Typed'
      <4>1. /\ anonce' \in Nat /\ ctr' \in Nat /\ valid' \in SUBSET (1 .. ctr')
            /\ staAnonce' \in 0 .. anonce' /\ rxCtr' \in 0 .. ctr'
        BY <1>1, <1>2, <2>6 DEF Repeats, Typed, staSide, staHand
      <4>2. QED
        BY <1>1, <2>6, <4>1
        DEF Repeats, Put, Typed, Shaking, apKeys, staSide, staHand, staKeys
    <3>2. ToSta' /\ ToAp'
      <4>1. /\ Retransmission.type \in {"m1", "m3"}
            /\ Retransmission.ctr = ctr + 1
            /\ Retransmission.an = anonce
            /\ Retransmission.type = "m3" => Retransmission.mic \in Key
        BY <1>1, <2>6 DEF Retransmission, M1, M3, ApNonces
      <4>2. anonce # 0
        BY <1>1, <2>6 DEF Repeats, ApNonces, Shaking
      <4>3. Range(toSta') = Range(toSta) \cup {Retransmission}
        BY <2>6 DEF Repeats, Put
      <4>4. \A f \in Range(toSta) : f.ctr \in Nat /\ f.an \in Nat
        BY <1>1, Members
      <4>5. ToSta'
        BY <1>1, <1>2, <2>6, <4>1, <4>2, <4>3, <4>4 DEF Repeats, ToSta
      <4>6. QED
        BY <1>1, <2>6, <4>5 DEF Repeats, ToAp
    <3>3. StaNonces'
      BY <1>1, <2>6 DEF Repeats, StaNonces, staSide, staHand, staKeys
    <3>4. ApNonces'
      BY <1>1, <2>6 DEF Repeats, ApNonces, Shaking, apKeys
    <3>5. QED
      BY <3>1, <3>2, <3>3, <3>4
  <2>7. ASSUME NEW f \in Frame, Takes(f)
        PROVE  Typed' /\ ToSta' /\ ToAp' /\ StaNonces' /\ ApNonces'
    <3>1. UNCHANGED <<anonce, apKeys, staSide>>
      BY <2>7 DEF Takes, Answered
    <3>2. Typed'
      <4>1. /\ ctr' \in Nat /\ valid' \in SUBSET (1 .. ctr')
            /\ tries' \in 0 .. Retries
            /\ staAnonce' \in 0 .. anonce' /\ rxCtr' \in 0 .. ctr'
        BY <1>1, <1>2, <2>7, <3>1, FourWayAssumption
        DEF Takes, Typed, staSide, staHand
      <4>2. QED
        BY <1>1, <2>7, <3>1, <4>1
        DEF Takes, Answered, Take, Fewer, Put, Typed, Shaking, OptKey, apKeys,
            staSide, staHand, staKeys
    <3>3. ToSta' /\ ToAp'
      <4>1. \A g \in Range(toSta) : g.ctr \in Nat /\ g.an \in Nat
        BY <1>1, Members
      <4>2. anonce # 0
        BY <1>1, <2>7 DEF Takes, Answered, ApNonces
      <4>3. ToSta'
        BY <1>1, <1>2, <2>7, <3>1, <4>1, <4>2 DEF Takes, Put, ToSta, M3
      <4>4. ToAp'
        BY <1>1, <2>7 DEF Takes, Answered, Take, ToAp
      <4>5. QED
        BY <4>3, <4>4
    <3>4. StaNonces'
      BY <1>1, <3>1 DEF StaNonces, staSide, staHand, staKeys
    <3>5. ApNonces'
      BY <1>1, <2>7, <3>1 DEF Takes, Answered, ApNonces, Shaking, apKeys
    <3>6. QED
      BY <3>2, <3>3, <3>4, <3>5
  <2>8. ASSUME NEW f \in Frame, Refuses(f)
        PROVE  Typed' /\ ToSta' /\ ToAp' /\ StaNonces' /\ ApNonces'
    <3>1. UNCHANGED <<anonce, apKeys, staSide, apPtk, tries, ctr, toSta>>
      BY <2>8 DEF Refuses, Answered
    <3>2. Typed'
      BY <1>1, <2>8, <3>1
      DEF Refuses, Answered, Take, Fewer, Typed, Shaking, OptKey, apKeys, staSide,
          staHand, staKeys
    <3>3. ToSta' /\ ToAp'
      BY <1>1, <2>8, <3>1 DEF Refuses, Answered, Take, ToSta, ToAp
    <3>4. StaNonces'
      BY <1>1, <3>1 DEF StaNonces, staSide, staHand, staKeys
    <3>5. ApNonces'
      BY <1>1, <2>8, <3>1 DEF Refuses, Answered, ApNonces, Shaking, apKeys
    <3>6. QED
      BY <3>2, <3>3, <3>4, <3>5
  <2>9. ASSUME NEW f \in Frame, Completes(f)
        PROVE  Typed' /\ ToSta' /\ ToAp' /\ StaNonces' /\ ApNonces'
    <3>1. /\ apUsed \in Seq(Key) /\ apPtk \in Key /\ apPtk.an = anonce
          /\ \A k \in Range(apUsed) : k.an < anonce
          /\ IsInjective(apUsed)
      BY <1>1, <2>9 DEF Completes, Typed, ApNonces, Shaking
    <3>2. /\ apUsed' \in Seq(Key)
          /\ Range(apUsed') = Range(apUsed) \cup {apPtk}
      BY <2>9, <3>1, RangeAppend DEF Completes
    <3>3. IsInjective(apUsed')
      <4>1. apPtk \notin Range(apUsed)
        BY <1>2, <3>1
      <4>2. QED
        BY <2>9, <3>1, <4>1, InjectiveAppend DEF Completes
    <3>4. Typed'
      BY <1>1, <2>9, <3>2
      DEF Completes, Take, Fewer, Typed, staSide, staHand, staKeys
    <3>5. ToSta' /\ ToAp'
      BY <1>1, <2>9 DEF Completes, Take, ToSta, ToAp
    <3>6. StaNonces'
      BY <1>1, <2>9 DEF Completes, StaNonces, staSide, staHand, staKeys
    <3>7. ApNonces'
      <4>1. apState' = "done" /\ anonce' = anonce /\ apPtk' = apPtk /\ anonce # 0
        BY <1>1, <2>9 DEF Completes, ApNonces
      <4>2. \A k \in Range(apUsed') : k.an <= anonce
        BY <1>1, <1>2, <3>1, <3>2 DEF ApNonces
      <4>3. QED
        BY <3>1, <3>3, <4>1, <4>2 DEF ApNonces, Shaking
    <3>8. QED
      BY <3>4, <3>5, <3>6, <3>7
  <2>10. ASSUME NEW f \in Frame, Derives(f)
         PROVE  Typed' /\ ToSta' /\ ToAp' /\ StaNonces' /\ ApNonces'
    <3>1. UNCHANGED <<apSide, linked, rxCtr, staKeys>> /\ f \in Range(toSta)
      BY <2>10 DEF Derives, Take
    <3>2. snonce' \in Nat /\ snonce <= snonce' /\ snonce' # 0
      BY <1>1, <1>2, <2>10 DEF Derives, StaNonces
    <3>3. Typed'
      <4>1. staAnonce' \in 0 .. anonce'
        BY <1>1, <1>2, <2>10, <3>1 DEF Derives, ToSta, Frame, apSide, apHand
      <4>2. QED
        BY <1>1, <2>10, <3>1, <3>2, <4>1
        DEF Derives, Take, Fewer, Put, Typed, OptKey, apSide, apHand, apKeys, staKeys
    <3>4. ToSta' /\ ToAp'
      <4>1. ToSta'
        BY <1>1, <2>10, <3>1 DEF Derives, Take, ToSta, apSide, apHand
      <4>2. ToAp'
        BY <1>1, <2>10, <3>2 DEF Derives, Put, ToAp, M2
      <4>3. QED
        BY <4>1, <4>2
    <3>5. StaNonces'
      <4>1. \A k \in Range(staUsed) : k.sn \in Nat
        BY <1>1, Members
      <4>2. \A k \in Range(staUsed) : k.sn < snonce'
        BY <1>1, <1>2, <2>10, <4>1 DEF Derives, StaNonces
      <4>3. QED
        BY <1>1, <2>10, <3>1, <3>2, <4>1, <4>2 DEF Derives, StaNonces, staKeys
    <3>6. ApNonces'
      BY <1>1, <3>1 DEF ApNonces, apSide, apHand, apKeys
    <3>7. QED
      BY <3>3, <3>4, <3>5, <3>6
  <2>11. ASSUME NEW f \in Frame, NEW k, NEW enc, Confirms(f, k, enc)
         PROVE  ToSta' /\ ToAp' /\ ApNonces' /\ rxCtr' \in 0 .. ctr'
    <3>1. UNCHANGED apSide /\ f \in Range(toSta)
      BY <2>11 DEF Confirms, Take
    <3>2. ToSta'
      BY <1>1, <2>11, <3>1 DEF Confirms, Take, ToSta, apSide, apHand
    <3>3. ToAp'
      BY <1>1, <2>11 DEF Confirms, Put, ToAp, M4
    <3>4. rxCtr' \in 0 .. ctr'
      BY <1>1, <1>2, <2>11, <3>1 DEF Confirms, ToSta, Frame, apSide, apHand
    <3>5. ApNonces'
      BY <1>1, <3>1 DEF ApNonces, apSide, apHand, apKeys
    <3>6. QED
      BY <3>2, <3>3, <3>4, <3>5
  <2>12. ASSUME NEW f \in Frame, NEW enc \in OptKey, Sets(f, enc)
         PROVE  Typed' /\ ToSta' /\ ToAp' /\ StaNonces' /\ ApNonces'
    <3>1. ToSta' /\ ToAp' /\ ApNonces' /\ rxCtr' \in 0 .. ctr'
      BY <2>11, <2>12 DEF Sets
    <3>2. tptk \in Key
      BY <1>1, <2>12 DEF Sets, Confirms, Take, ToSta
    <3>3. /\ tptk # NoKey /\ tptk.sn = snonce
          /\ staUsed \in Seq(Key) /\ IsInjective(staUsed)
          /\ \A k \in Range(staUsed) : k.sn < snonce
      BY <1>1, <3>2 DEF StaNonces, Typed, Key, NoKey
    <3>4. /\ staUsed' \in Seq(Key)
          /\ Range(staUsed') = Range(staUsed) \cup {tptk}
      BY <2>12, <3>2, <3>3, RangeAppend DEF Sets
    <3>5. IsInjective(staUsed')
      <4>1. tptk \notin Range(staUsed)
        BY <1>2, <3>3
      <4>2. QED
        BY <2>12, <3>2, <3>3, <4>1, InjectiveAppend DEF Sets
    <3>6. Typed'
      BY <1>1, <1>2, <2>12, <3>1, <3>4
      DEF Sets, Confirms, Take, Fewer, Put, Typed, apSide, apHand, apKeys
    <3>7. StaNonces'
      <4>1. renew' = TRUE /\ tptk' = NoKey /\ snonce' = snonce
        BY <2>12 DEF Sets, Confirms
      <4>2. \A k \in Range(staUsed) : k.sn \in Nat
        BY <1>1, Members
      <4>3. \A k \in Range(staUsed') : k.sn <= snonce
        BY <1>2, <3>3, <3>4, <4>2
      <4>4. QED
        BY <3>5, <4>1, <4>3 DEF StaNonces
    <3>8. QED
      BY <3>1, <3>6, <3>7
  <2>13. ASSUME NEW f \in Frame, Again(f)
         PROVE  Typed' /\ ToSta' /\ ToAp' /\ StaNonces' /\ ApNonces'
    <3>1. ToSta' /\ ToAp' /\ ApNonces' /\ rxCtr' \in 0 .. ctr'
      BY <2>11, <2>13 DEF Again
    <3>2. Typed'
      BY <1>1, <2>13, <3>1
      DEF Again, Confirms, Take, Fewer, Put, Typed, apSide, apHand, apKeys, staKeys
    <3>3. StaNonces'
      BY <1>1, <2>13 DEF Again, Confirms, StaNonces, staKeys
    <3>4. QED
      BY <3>1, <3>2, <3>3
  <2>14. QED
    BY <1>3, <2>1, <2>2, <2>3, <2>4, <2>5, <2>6, <2>7, <2>8, <2>9, <2>10, <2>12,
       <2>13
    DEF Kinds, ApSteps, StaSteps
<1>5. Counted'
  BY CountedStep, TypeParts DEF Fresh
<1>6. TypeOK'
  <2>1. Counted' /\ Typed' => TypeOK'
    BY DEF TypeOK, Counted, Typed
  <2>2. QED
    BY <1>4, <1>5, <2>1
<1>7. QED
  BY <1>4, <1>6 DEF Fresh

LEMMA FreshInit == Init => Fresh
<1> SUFFICES ASSUME Init PROVE Fresh
  OBVIOUS
<1> USE FourWayAssumption DEF Init
<1>1. Range(<<>>) = {} /\ IsInjective(<<>>)
  BY DEF Range, IsInjective
<1>2. TypeOK
  <2>1. Counted
    BY DEF Counted
  <2>2. NoKey \in OptKey /\ <<>> \in Seq(Frame) /\ <<>> \in Seq(Key)
    BY DEF OptKey
  <2>3. 0 \in 0 .. 0 /\ 0 \in 0 .. Retries /\ {} \in SUBSET (1 .. 0)
    OBVIOUS
  <2>4. /\ valid \in SUBSET (1 .. ctr) /\ tries \in 0 .. Retries
        /\ staAnonce \in 0 .. anonce /\ rxCtr \in 0 .. ctr
    BY <2>3
  <2>5. /\ apPtk \in OptKey /\ apTk \in OptKey /\ apPushed \in OptKey
        /\ tptk \in OptKey /\ staTk \in OptKey /\ staPushed \in OptKey
    BY <2>2
  <2>6. /\ toSta \in Seq(Frame) /\ toAp \in Seq(Frame)
        /\ apUsed \in Seq(Key) /\ staUsed \in Seq(Key)
    BY <2>2
  <2>7. Typed
    BY <2>4, <2>5, <2>6 DEF Typed
  <2>8. QED
    BY <2>1, <2>7, TypeParts
<1>3. ToSta /\ ToAp
  BY <1>1 DEF ToSta, ToAp
<1>4. StaNonces /\ ApNonces
  BY <1>1 DEF StaNonces, ApNonces, Shaking
<1>5. QED
  BY <1>2, <1>3, <1>4 DEF Fresh

\* The nonces behind the PTKs that may still be set are new ones.
THEOREM Freshness == Spec => []Fresh
  BY FreshInit, FreshStep, PTL DEF Spec

\* Type correctness of the handshake.
THEOREM TypeCorrect == Spec => []TypeOK
<1>1. Fresh => TypeOK
  BY DEF Fresh
<1>2. QED
  BY <1>1, Freshness, PTL

\* No TK is set twice, on either side.
THEOREM NeverReinstalled == Spec => []NoReinstall
<1>1. Fresh => NoReinstall
  BY DEF Fresh, StaNonces, ApNonces, NoReinstall
<1>2. QED
  BY <1>1, Freshness, PTL

-----------------------------------------------------------------------------
(* What one end knows of the other                                         *)

\* Steps that move no key: what was delivered or lost is missing from the air.
LEMMA AirAgreement ==
  ASSUME Agreement, Air, UNCHANGED <<anonce, staAnonce, staPushed, staUsed>>
  PROVE  /\ Answers'
         /\ apState' = apState /\ apPtk' = apPtk => Line'
         /\ apState' = "gone" => Line'
         /\ (\A f \in Range(toSta) : f.type # "m1") =>
                \A f \in Range(toSta') : f.type # "m1"
<1>1. Deauth.type = "deauth"
  BY DEF Deauth
<1>2. Line /\ Answers
  BY DEF Agreement
<1>3. Answers'
  BY <1>1, <1>2 DEF Air, Fewer, Answers
<1>4. ASSUME (apState' = apState /\ apPtk' = apPtk) \/ apState' = "gone"
      PROVE  Line'
  <2>1. Ordered(toSta')
    BY <1>2 DEF Air, Fewer, Line
  <2>2. \A f \in Range(toSta') : f.type # "deauth" => staAnonce' <= f.an
    BY <1>1, <1>2 DEF Air, Fewer, Line
  <2>3. \A f \in Range(toSta') : f.type = "m3" =>
            /\ f.an = staAnonce'
            /\ apState' # "gone" /\ f.an = anonce' =>
                  apState' \in {"init", "done"} /\ f.mic = apPtk'
    BY <1>1, <1>2, <1>4 DEF Air, Fewer, Line
  <2>4. QED
    BY <2>1, <2>2, <2>3 DEF Line
<1>5. (\A f \in Range(toSta) : f.type # "m1") =>
          \A f \in Range(toSta') : f.type # "m1"
  BY <1>1 DEF Air, Fewer
<1>6. QED
  BY <1>3, <1>4, <1>5

LEMMA AgreementStep == Fresh /\ Agreement /\ [Next]_vars => Agreement'
<1> SUFFICES ASSUME Fresh, Agreement, [Next]_vars PROVE Agreement'
  OBVIOUS
<1>1. /\ Typed /\ ToSta /\ ToAp /\ StaNonces /\ ApNonces
      /\ Line /\ Answers /\ StaHolds /\ ApHolds /\ Meeting
  BY TypeParts DEF Fresh, Agreement
<1>2. /\ anonce \in Nat /\ staAnonce \in Nat /\ staAnonce <= anonce
      /\ NoKey.an = 0 /\ NoKey \notin Key
  BY <1>1 DEF Typed, NoKey, Key
<1>3. /\ \A f \in Range(toSta) : f.an \in Nat
      /\ \A k \in Key : k.an \in Nat /\ k.an # 0
  BY <1>1, Members DEF Key
<1>4. Kinds
  BY StepKinds
<1>5. CASE Quiet
  <2>1. UNCHANGED <<apSide, staSide>> /\ Air
    BY <1>5 DEF Quiet
  <2>2. Line' /\ Answers'
    BY <2>1, AirAgreement
    DEF apSide, apHand, staSide, staHand, staKeys
  <2>3. StaHolds' /\ ApHolds'
    BY <1>1, <2>1
    DEF StaHolds, ApHolds, apSide, apHand, apKeys, staSide, staHand, staKeys
  <2>4. Reached => Reached'
    BY <2>1, AirAgreement
    DEF Reached, apSide, apHand, staSide, staHand, staKeys
  <2>5. \A f \in Range(toAp') : f.type = "m4" => f \in Range(toAp)
    BY <2>1 DEF Air, Fewer, Deauth
  <2>6. Meeting'
    BY <1>1, <2>1, <2>4, <2>5
    DEF Meeting, apSide, apHand, staSide, staHand, staKeys
  <2>7. QED
    BY <2>2, <2>3, <2>6 DEF Agreement
<1>6. CASE StaDrops
  <2>1. /\ UNCHANGED <<apState, anonce, apPtk, apTk, apPushed, staAnonce, staUsed,
                       staPushed>>
        /\ Air /\ linked' = FALSE /\ tptk' = NoKey /\ staTk' = NoKey
    BY <1>6 DEF StaDrops, apSide, apHand, apKeys
  <2>2. Line' /\ Answers'
    BY <2>1, AirAgreement
  <2>3. StaHolds' /\ ApHolds'
    BY <1>1, <1>2, <2>1 DEF StaHolds, ApHolds
  <2>4. Reached => Reached'
    BY <2>1, AirAgreement DEF Reached
  <2>5. \A f \in Range(toAp') : f.type = "m4" => f \in Range(toAp)
    BY <2>1 DEF Air, Fewer, Deauth
  <2>6. Meeting'
    BY <1>1, <1>2, <2>1, <2>4, <2>5 DEF Meeting, ApNonces
  <2>7. QED
    BY <2>2, <2>3, <2>6 DEF Agreement
<1>7. CASE ApDrops
  <2>1. /\ UNCHANGED <<anonce, apPushed, linked, tptk, staTk, staAnonce, staUsed,
                       staPushed>>
        /\ Air /\ apState' = "gone"
    BY <1>7 DEF ApDrops, ForgetSta, staSide, staHand, staKeys
  <2>2. Line' /\ Answers'
    BY <2>1, AirAgreement
  <2>3. StaHolds' /\ ApHolds' /\ Meeting'
    BY <1>1, <2>1 DEF StaHolds, ApHolds, Meeting
  <2>4. QED
    BY <2>2, <2>3 DEF Agreement
<1>8. CASE Restarts
  <2> DEFINE m == M1(ctr + 1, anonce + 1, apTk)
  <2>1. /\ UNCHANGED <<apTk, linked, tptk, staTk, toAp, staAnonce, staUsed, staPushed>>
        /\ apState' = "start" /\ anonce' = anonce + 1
        /\ Put(toSta, m, toSta')
    BY <1>8 DEF Restarts, Opens
  <2>2. m.type = "m1" /\ m.an = anonce + 1
    BY DEF M1
  <2> HIDE DEF m
  <2>3. \A f \in Range(toSta) : Before(f, m)
    BY <1>1, <1>2, <1>3, <2>2 DEF ToSta, Before
  <2>4. Line'
    <3>1. Ordered(toSta')
      BY <1>1, <2>1, <2>3 DEF Line, Put
    <3>2. Range(toSta') = Range(toSta) \cup {m}
      BY <2>1 DEF Put
    <3>3. \A f \in Range(toSta') : f.type # "deauth" => staAnonce <= f.an
      BY <1>1, <1>2, <2>2, <3>2 DEF Line
    <3>4. \A f \in Range(toSta') : f.type = "m3" => f.an = staAnonce /\ f.an # anonce'
      BY <1>1, <1>2, <2>1, <2>2, <3>2 DEF Line
    <3>5. QED
      BY <2>1, <3>1, <3>3, <3>4 DEF Line
  <2>5. Answers' /\ StaHolds' /\ ApHolds'
    BY <1>1, <2>1 DEF Answers, StaHolds, ApHolds
  <2>6. Meeting'
    <3>1. staTk.an # anonce'
      <4>1. staTk.an \in Nat
        BY <1>1, <1>2, <1>3 DEF Typed, OptKey
      <4>2. QED
        BY <1>1, <1>2, <2>1, <4>1 DEF StaHolds
    <3>2. \A f \in Range(toAp) : f.type = "m4" => f.mic.an # anonce'
      BY <1>1, <1>2, <1>3, <2>1 DEF Answers
    <3>3. QED
      BY <2>1, <3>1, <3>2 DEF Meeting
  <2>7. QED
    BY <2>4, <2>5, <2>6 DEF Agreement
<1>9. CASE Associates
  <2> DEFINE m == M1(1, anonce + 1, NoKey)
  <2>1. /\ UNCHANGED <<staAnonce, staUsed, staPushed>>
        /\ linked' = TRUE /\ tptk' = NoKey /\ staTk' = NoKey /\ toAp' = <<>>
        /\ apState' = "start" /\ anonce' = anonce + 1
        /\ Put(<<>>, m, toSta') /\ Ordered(toSta')
    BY <1>9 DEF Associates, Opens
  <2>2. m.type = "m1" /\ m.an = anonce + 1
    BY DEF M1
  <2> HIDE DEF m
  <2>3. Range(<<>>) = {}
    BY DEF Range
  <2>4. Range(toSta') = {m} /\ Range(toAp') = {}
    BY <2>1, <2>3 DEF Put
  <2>5. Line'
    BY <1>2, <2>1, <2>2, <2>4 DEF Line
  <2>6. Answers' /\ StaHolds' /\ ApHolds'
    BY <1>2, <2>1, <2>4 DEF Answers, StaHolds, ApHolds
  <2>7. Meeting'
    BY <1>2, <2>1, <2>4 DEF Meeting
  <2>8. QED
    BY <2>5, <2>6, <2>7 DEF Agreement
<1>10. CASE Repeats
  <2> DEFINE m == Retransmission
  <2>1. /\ UNCHANGED <<anonce, apPtk, apTk, apPushed, linked, tptk, staTk, toAp,
                       staAnonce, staUsed, staPushed>>
        /\ apState \in Shaking
        /\ apState' = IF apState = "init" THEN "init" ELSE "start"
        /\ Put(toSta, m, toSta')
    BY <1>10 DEF Repeats, apKeys, staSide, staHand, staKeys
  <2>2. /\ m.an = anonce
        /\ apState = "init" => m.type = "m3" /\ m.mic = apPtk
        /\ apState # "init" => m.type = "m1"
    BY DEF Retransmission, M1, M3
  <2>3. Range(toSta') = Range(toSta) \cup {m}
    BY <2>1 DEF Put
  <2> HIDE DEF m
  <2>4. \A f \in Range(toSta) : Before(f, m)
    BY <1>1, <1>2, <1>3, <2>1, <2>2 DEF ToSta, Line, Before, Shaking
  <2>5. Line'
    <3>1. Ordered(toSta')
      BY <1>1, <2>1, <2>4 DEF Line, Put
    <3>2. \A f \in Range(toSta') : f.type # "deauth" => staAnonce <= f.an
      BY <1>1, <1>2, <2>2, <2>3 DEF Line
    <3>3. \A f \in Range(toSta') : f.type = "m3" =>
              f.an = staAnonce /\ (f.an = anonce => apState = "init" /\ f.mic = apPtk)
      BY <1>1, <1>2, <2>1, <2>2, <2>3 DEF Line, ApHolds, Shaking
    <3>4. QED
      BY <2>1, <3>1, <3>2, <3>3 DEF Line
  <2>6. Answers' /\ StaHolds' /\ ApHolds'
    BY <1>1, <2>1 DEF Answers, StaHolds, ApHolds
  <2>7. Reached => Reached'
    BY <2>1, <2>2, <2>3 DEF Reached, Shaking
  <2>8. Meeting'
    BY <1>1, <2>1, <2>7 DEF Meeting, Shaking
  <2>9. QED
    BY <2>5, <2>6, <2>8 DEF Agreement
<1>11. ASSUME NEW f \in Frame, Answered(f)
       PROVE  /\ f \in Range(toAp) /\ Range(toAp') \subseteq Range(toAp)
              /\ Answers' /\ StaHolds'
              /\ staTk.an # anonce
              /\ \A g \in Range(toAp) : g.type = "m4" => g.mic.an # anonce
              /\ \A g \in Range(toSta) : g.type = "m3" => g.an # anonce
  <2>1. /\ f \in Range(toAp) /\ Range(toAp') \subseteq Range(toAp)
        /\ apState \in {"start", "calc"}
        /\ UNCHANGED staSide
    BY <1>11 DEF Answered, Take
  <2>2. ~Reached /\ apState # "gone" /\ apState \notin {"init", "done"}
    BY <2>1 DEF Reached
  <2>3. Answers' /\ StaHolds'
    BY <1>1, <2>1 DEF Answers, StaHolds, staSide, staHand, staKeys
  <2>4. QED
    BY <1>1, <2>1, <2>2, <2>3 DEF Meeting, Line
<1>12. ASSUME NEW f \in Frame, Takes(f) PROVE Agreement'
  <2> DEFINE m == M3(ctr + 1, anonce, f.mic, apTk)
  <2>1. /\ Answered(f) /\ UNCHANGED <<anonce, apKeys, staSide>>
        /\ f.mic \in Key /\ f.mic.an = anonce /\ f.type = "m2"
        /\ apState' = "init" /\ apPtk' = f.mic /\ apPushed' = f.mic
        /\ Put(toSta, m, toSta')
    BY <1>12 DEF Takes, Answered
  <2>2. m.type = "m3" /\ m.an = anonce /\ m.mic = f.mic
    BY DEF M3
  <2>3. Range(toSta') = Range(toSta) \cup {m}
    BY <2>1 DEF Put
  <2> HIDE DEF m
  <2>4. staAnonce = anonce
    BY <1>1, <1>2, <1>11, <2>1 DEF Answers
  <2>5. \A g \in Range(toSta) : Before(g, m)
    BY <1>1, <2>2 DEF ToSta, Before
  <2>6. Line'
    <3>1. Ordered(toSta')
      BY <1>1, <2>1, <2>5 DEF Line, Put
    <3>2. \A g \in Range(toSta') : g.type # "deauth" => staAnonce <= g.an
      BY <1>1, <1>2, <2>2, <2>3, <2>4 DEF Line
    <3>3. \A g \in Range(toSta') : g.type = "m3" => g = m
      BY <1>1, <1>11, <2>1, <2>3, <2>4 DEF Line
    <3>4. QED
      BY <2>1, <2>2, <2>4, <3>1, <3>2, <3>3 DEF Line, staSide, staHand
  <2>7. ApHolds'
    BY <2>1, <2>4 DEF ApHolds, staSide, staHand
  <2>8. Meeting'
    BY <1>11, <2>1 DEF Meeting, staSide, staKeys
  <2>9. QED
    BY <1>11, <2>1, <2>6, <2>7, <2>8 DEF Agreement
<1>13. ASSUME NEW f \in Frame, Refuses(f) PROVE Agreement'
  <2>1. /\ Answered(f) /\ UNCHANGED <<anonce, apKeys, staSide, toSta>>
        /\ apState' = "calc"
    BY <1>13 DEF Refuses, Answered
  <2>2. Line'
    BY <1>1, <1>11, <2>1 DEF Line, staSide, staHand
  <2>3. ApHolds' /\ Meeting'
    BY <1>11, <2>1 DEF ApHolds, Meeting, staSide, staKeys
  <2>4. QED
    BY <1>11, <2>1, <2>2, <2>3 DEF Agreement
<1>14. ASSUME NEW f \in Frame, Completes(f) PROVE Agreement'
  <2>1. /\ apState = "init" /\ f.type = "m4" /\ f.mic = apPtk
        /\ f \in Range(toAp) /\ Range(toAp') \subseteq Range(toAp)
        /\ apState' = "done" /\ apTk' = apPtk
        /\ UNCHANGED <<anonce, apPtk, apPushed, staSide, toSta>>
    BY <1>14 DEF Completes, Take
  <2>2. Line' /\ Answers' /\ StaHolds' /\ ApHolds'
    BY <1>1, <2>1
    DEF Line, Answers, StaHolds, ApHolds, staSide, staHand, staKeys
  <2>3. Reached
    BY <1>1, <2>1 DEF ApNonces, Meeting
  <2>4. Reached'
    BY <2>1, <2>3 DEF Reached, staSide, staHand, staKeys
  <2>5. Meeting'
    BY <1>1, <2>1, <2>4 DEF Meeting
  <2>6. QED
    BY <2>2, <2>5 DEF Agreement
<1>15. ASSUME NEW f \in Frame, Derives(f) PROVE Agreement'
  <2> DEFINE m == M2(f.ctr, snonce', tptk', staTk)
  <2>1. /\ linked /\ f.type = "m1" /\ f \in Range(toSta)
        /\ Range(toSta') \subseteq Range(toSta)
        /\ Ordered(toSta') /\ \A g \in Range(toSta') : Before(f, g)
        /\ tptk' \in Key /\ tptk'.an = f.an
        /\ staPushed' = tptk' /\ staAnonce' = f.an
        /\ Put(toAp, m, toAp')
        /\ UNCHANGED <<apSide, linked, staTk, staUsed>>
    BY <1>1, <1>15 DEF Derives, Take, Fewer, Line, staKeys
  <2>2. UNCHANGED <<apState, anonce, apPtk, apTk, apPushed>>
    BY <2>1 DEF apSide, apHand, apKeys
  <2>3. m.type = "m2" /\ m.mic = tptk'
    BY DEF M2
  <2>4. Range(toAp') = Range(toAp) \cup {m}
    BY <2>1 DEF Put
  <2> HIDE DEF m
  <2>5. staAnonce <= f.an /\ f.an <= anonce /\ f.an \in Nat
    BY <1>1, <1>3, <2>1 DEF Line, ToSta
  <2>6. ~Reached
    BY <2>1 DEF Reached
  <2>7. Line'
    <3>1. \A g \in Range(toSta') : g.type # "deauth" => f.an <= g.an
      BY <1>1, <2>1 DEF ToSta, Before
    <3>2. \A g \in Range(toSta') : g.type = "m3" => g.an = f.an
      BY <1>1, <1>2, <1>3, <2>1, <2>5, <3>1 DEF Line
    <3>3. QED
      BY <1>1, <2>1, <2>2, <3>1, <3>2 DEF Line
  <2>8. Answers'
    BY <1>1, <1>2, <1>3, <2>1, <2>3, <2>4, <2>5 DEF Answers
  <2>9. StaHolds'
    <3>1. staTk.an \in Nat
      BY <1>1, <1>2, <1>3 DEF Typed, OptKey
    <3>2. staTk.an <= f.an
      BY <1>1, <1>2, <2>5, <3>1 DEF StaHolds
    <3>3. QED
      BY <1>1, <2>1, <3>2 DEF StaHolds
  <2>10. ApHolds'
    BY <1>1, <1>2, <2>1, <2>2, <2>5 DEF ApHolds
  <2>11. Meeting'
    BY <1>1, <2>1, <2>2, <2>3, <2>4, <2>6 DEF Meeting
  <2>12. QED
    BY <2>7, <2>8, <2>9, <2>10, <2>11 DEF Agreement
<1>16. ASSUME NEW f \in Frame, NEW k \in Key, NEW enc, Confirms(f, k, enc), k.an <= staAnonce
       PROVE  /\ UNCHANGED <<apState, anonce, apPtk, apTk, apPushed, staAnonce,
                             staPushed, linked>>
              /\ f \in Range(toSta) /\ Range(toSta') \subseteq Range(toSta)
              /\ Line' /\ Answers' /\ ApHolds'
              /\ \A g \in Range(toSta') : Before(f, g)
              /\ \A g \in Range(toAp') : g.type = "m4" =>
                    g \in Range(toAp) \/ g.mic = k
  <2> DEFINE m == M4(f.ctr, k, enc)
  <2>1. /\ UNCHANGED <<apState, anonce, apPtk, apTk, apPushed, staAnonce, staPushed,
                       linked>>
        /\ f \in Range(toSta) /\ Range(toSta') \subseteq Range(toSta)
        /\ Ordered(toSta') /\ \A g \in Range(toSta') : Before(f, g)
        /\ Put(toAp, m, toAp')
    BY <1>1, <1>16 DEF Confirms, Take, Fewer, Line, apSide, apHand, apKeys
  <2>2. m.mic = k
    BY DEF M4
  <2>3. Range(toAp') = Range(toAp) \cup {m}
    BY <2>1 DEF Put
  <2> HIDE DEF m
  <2>4. Line'
    BY <1>1, <2>1 DEF Line
  <2>5. Answers'
    BY <1>1, <1>2, <1>16, <2>1, <2>2, <2>3 DEF Answers
  <2>6. ApHolds'
    BY <1>1, <2>1 DEF ApHolds
  <2>7. QED
    BY <2>1, <2>2, <2>3, <2>4, <2>5, <2>6
<1>17. ASSUME NEW f \in Frame, NEW enc \in OptKey, Sets(f, enc) PROVE Agreement'
  <2>1. /\ Confirms(f, tptk, enc) /\ linked /\ f.type = "m3" /\ f.mic = tptk
        /\ f.an = staAnonce /\ f \in Range(toSta)
        /\ staTk' = tptk /\ tptk' = NoKey /\ staUsed' = Append(staUsed, tptk)
    BY <1>17 DEF Sets, Confirms, Take
  <2>2. tptk \in Key /\ tptk # NoKey /\ tptk.an = staAnonce /\ staPushed = tptk
    BY <1>1, <1>2, <2>1 DEF ToSta, StaHolds
  <2>3. staUsed' # <<>> /\ Last(staUsed') = tptk
    <3>1. staUsed \in Seq(Key)
      BY <1>1 DEF Typed
    <3>2. QED
      BY <2>1, <2>2, <3>1, RangeAppend
  <2>4. /\ UNCHANGED <<apState, anonce, apPtk, apTk, apPushed, staAnonce, staPushed,
                       linked>>
        /\ Range(toSta') \subseteq Range(toSta)
        /\ Line' /\ Answers' /\ ApHolds'
        /\ \A g \in Range(toSta') : Before(f, g)
        /\ \A g \in Range(toAp') : g.type = "m4" => g \in Range(toAp) \/ g.mic = tptk
    <3>1. tptk.an <= staAnonce
      BY <1>2, <2>2
    <3>2. QED
      BY <1>16, <2>1, <2>2, <3>1
  <2>5. StaHolds'
    BY <1>2, <2>1, <2>2, <2>3, <2>4 DEF StaHolds
  <2>6. CASE apState # "gone" /\ staAnonce = anonce
    <3>1. apState \in {"init", "done"} /\ tptk = apPtk
      BY <1>1, <2>1, <2>6 DEF Line
    <3>2. \A g \in Range(toSta') : g.type # "m1"
      BY <1>1, <1>2, <1>3, <2>1, <2>2, <2>4, <2>6 DEF Before, ToSta
    <3>3. Reached'
      BY <2>1, <2>2, <2>3, <2>4, <3>1, <3>2 DEF Reached
    <3>4. \A g \in Range(toAp') : g.type = "m4" /\ g.mic.an = anonce => g.mic = apPtk
      BY <1>1, <2>1, <2>2, <2>4, <2>6, <3>1 DEF Meeting
    <3>5. Meeting'
      BY <2>1, <2>2, <2>4, <3>3, <3>4 DEF Meeting
    <3>6. QED
      BY <2>1, <2>2, <2>4, <2>5, <3>5 DEF Agreement
  <2>7. CASE apState # "gone" /\ staAnonce # anonce
    <3>1. staTk'.an # anonce /\ apState # "done"
      BY <1>1, <2>1, <2>2, <2>7 DEF ApHolds
    <3>2. \A g \in Range(toAp) : g.type = "m4" => g.mic.an # anonce
      BY <1>1, <1>2, <1>3, <2>7 DEF Answers
    <3>3. Meeting'
      BY <2>1, <2>2, <2>4, <2>7, <3>1, <3>2 DEF Meeting
    <3>4. QED
      BY <2>1, <2>2, <2>4, <2>5, <3>3 DEF Agreement
  <2>8. CASE apState = "gone"
    <3>1. Meeting'
      BY <2>1, <2>2, <2>4, <2>8 DEF Meeting
    <3>2. QED
      BY <2>1, <2>2, <2>4, <2>5, <3>1 DEF Agreement
  <2>9. QED
    BY <2>6, <2>7, <2>8
<1>18. ASSUME NEW f \in Frame, Again(f) PROVE Agreement'
  <2>1. /\ Confirms(f, staTk, staTk) /\ linked /\ f.type = "m3" /\ f.mic = staTk
        /\ f.an = staAnonce /\ f \in Range(toSta)
        /\ UNCHANGED <<tptk, staTk, staUsed>>
    BY <1>18 DEF Again, Confirms, Take, staKeys
  <2>2. staTk \in Key
    BY <1>1, <2>1 DEF ToSta
  <2>3. staTk \in Key /\ staTk.an <= staAnonce
    BY <1>1, <2>2 DEF StaHolds
  <2>4. /\ UNCHANGED <<apState, anonce, apPtk, apTk, apPushed, staAnonce, staPushed,
                       linked>>
        /\ Range(toSta') \subseteq Range(toSta)
        /\ Line' /\ Answers' /\ ApHolds'
        /\ \A g \in Range(toAp') : g.type = "m4" => g \in Range(toAp) \/ g.mic = staTk
    BY <1>16, <2>1, <2>3
  <2>5. StaHolds'
    BY <1>1, <2>1, <2>4 DEF StaHolds
  <2>6. Reached => Reached'
    BY <2>1, <2>4 DEF Reached
  <2>7. \A g \in Range(toAp') :
            apState # "gone" /\ g.type = "m4" /\ g.mic.an = anonce =>
                Reached /\ g.mic = apPtk
    <3>1. apState # "gone" /\ staTk.an = anonce => Reached /\ staTk = apPtk
      BY <1>1, <2>1 DEF Meeting, Reached
    <3>2. QED
      BY <1>1, <2>4, <3>1 DEF Meeting
  <2>8. Meeting'
    BY <1>1, <2>1, <2>4, <2>6, <2>7 DEF Meeting
  <2>9. QED
    BY <2>4, <2>5, <2>8 DEF Agreement
<1>19. QED
  BY <1>4, <1>5, <1>6, <1>7, <1>8, <1>9, <1>10, <1>12, <1>13, <1>14, <1>15, <1>17,
     <1>18
  DEF Kinds, ApSteps, StaSteps

LEMMA AgreementInit == Init => Agreement
<1> SUFFICES ASSUME Init PROVE Agreement
  OBVIOUS
<1> USE DEF Init
<1>1. Range(<<>>) = {} /\ Ordered(<<>>) /\ NoKey.an = 0
  BY DEF Range, Ordered, NoKey
<1>2. Line /\ Answers
  BY <1>1 DEF Line, Answers
<1>3. StaHolds /\ ApHolds
  BY <1>1 DEF StaHolds, ApHolds
<1>4. Meeting
  BY <1>1 DEF Meeting
<1>5. QED
  BY <1>2, <1>3, <1>4 DEF Agreement

\* What each end may conclude about the other from the state of the handshake.
THEOREM Agreed == Spec => []Agreement
  BY Freshness, AgreementInit, AgreementStep, PTL DEF Spec

\* When the handshake is completed, the PTK pushed for WiFi is that of LiFi.
THEOREM PushedKeyUsed == Spec => []WifiKeyIsLifiKey
<1>1. Agreement => WifiKeyIsLifiKey
  BY DEF Agreement, ApHolds, Meeting, Reached, WifiKeyIsLifiKey
<1>2. QED
  BY <1>1, Agreed, PTL

-----------------------------------------------------------------------------
(* The AP is at most one key behind                                        *)

LEMMA LastIn == ASSUME NEW S, NEW q \in Seq(S), q # <<>> PROVE Last(q) \in Range(q)
<1>1. Len(q) \in DOMAIN q
  OBVIOUS
<1>2. QED
  BY <1>1 DEF Last, Range

LEMMA BehindStep == Fresh /\ Agreement /\ Behind /\ [Next]_vars => Behind'
<1> SUFFICES ASSUME Fresh, Agreement, Behind, [Next]_vars PROVE Behind'
  OBVIOUS
<1>1. /\ Typed /\ ToSta /\ ToAp /\ StaNonces /\ ApNonces
      /\ Line /\ Answers /\ StaHolds /\ ApHolds /\ Meeting
  BY TypeParts DEF Fresh, Agreement
<1>2. /\ anonce \in Nat /\ staAnonce \in Nat /\ staAnonce <= anonce
      /\ NoKey \notin Key
      /\ \A k \in Key : k.an \in Nat
  BY <1>1 DEF Typed, NoKey, Key
<1>3. Kinds
  BY StepKinds
<1>4. CASE Quiet
  <2>1. /\ UNCHANGED <<apState, anonce, apPtk, apTk, apUsed, linked, staTk, staUsed>>
        /\ \A f \in Range(toSta') : f.type = "m3" => f \in Range(toSta)
        /\ \A f \in Range(toAp') : f.type = "m2" => f \in Range(toAp)
    BY <1>4
    DEF Quiet, Air, Fewer, Deauth, apSide, apHand, apKeys, staSide, staKeys
  <2>2. QED
    BY <2>1 DEF Behind
<1>5. CASE StaDrops
  <2>1. /\ UNCHANGED <<apUsed, staUsed>> /\ linked' = FALSE
        /\ \A f \in Range(toSta') : f.type = "m3" => f \in Range(toSta)
    BY <1>5 DEF StaDrops, Air, Fewer, Deauth, apSide, apKeys
  <2>2. QED
    BY <2>1 DEF Behind
<1>6. CASE ApDrops
  <2>1. /\ UNCHANGED <<apUsed, staUsed>> /\ apState' = "gone"
        /\ \A f \in Range(toSta') : f.type = "m3" => f \in Range(toSta)
    BY <1>6 DEF ApDrops, ForgetSta, Air, Fewer, Deauth, staSide, staKeys
  <2>2. QED
    BY <2>1 DEF Behind
<1>7. CASE Restarts
  <2>1. /\ UNCHANGED <<apTk, apUsed, linked, staTk, staUsed, toAp>>
        /\ apState # "gone" /\ apState' = "start" /\ anonce' = anonce + 1
        /\ \A f \in Range(toSta') : f.type = "m3" => f \in Range(toSta)
    BY <1>7 DEF Restarts, Opens, Put, M1
  <2>2. \A f \in Range(toAp) : f.type = "m2" => f.mic.an # anonce'
    BY <1>1, <1>2, <2>1 DEF Answers
  <2>3. QED
    BY <2>1, <2>2 DEF Behind
<1>8. CASE Associates
  <2>1. /\ UNCHANGED <<apUsed, staUsed>>
        /\ apTk' = NoKey /\ staTk' = NoKey /\ toAp' = <<>> /\ apState' = "start"
        /\ Range(toSta') = Range(<<>>) \cup {M1(1, anonce + 1, NoKey)}
    BY <1>8 DEF Associates, Opens, Put
  <2>2. Range(<<>>) = {}
    BY DEF Range
  <2>3. \A f \in Range(toSta') : f.type # "m3"
    BY <2>1, <2>2 DEF M1
  <2>4. QED
    BY <2>1, <2>2, <2>3 DEF Behind
<1>9. CASE Repeats
  <2> DEFINE m == Retransmission
  <2>1. /\ UNCHANGED <<anonce, apPtk, apTk, apUsed, linked, staTk, staUsed, toAp>>
        /\ apState \in Shaking
        /\ apState' = IF apState = "init" THEN "init" ELSE "start"
        /\ Range(toSta') = Range(toSta) \cup {m}
    BY <1>9 DEF Repeats, Put, apKeys, staSide, staKeys
  <2>2. m.type = "m3" => apState = "init" /\ m.mic = apPtk
    BY DEF Retransmission, M1, M3
  <2> HIDE DEF m
  <2>3. apState = "init" =>
            \A f \in Range(toSta) : f.type = "m3" => f.mic = apPtk
    BY <1>1 DEF Line, ApHolds
  <2>4. \A f, g \in Range(toSta') :
            f.type = "m3" /\ g.type = "m3" => f.mic = g.mic
    BY <2>1, <2>2, <2>3 DEF Behind
  <2>5. ASSUME linked
        PROVE  \A f \in Range(toSta') :
                   f.type = "m3" /\ f.mic \notin Range(staUsed) => apTk = staTk
    BY <2>1, <2>2, <2>5 DEF Behind, Shaking
  <2>6. QED
    BY <2>1, <2>4, <2>5 DEF Behind, Shaking
<1>10. ASSUME NEW f \in Frame, Answered(f)
       PROVE  /\ UNCHANGED <<anonce, apTk, apUsed, linked, staTk, staUsed>>
              /\ f \in Range(toAp) /\ f.type = "m2" /\ f.enc \in {NoKey, apTk}
              /\ Range(toAp') \subseteq Range(toAp)
              /\ apState \in {"start", "calc"}
  BY <1>10 DEF Answered, Take, apKeys, staSide, staKeys
<1>11. ASSUME NEW f \in Frame, Takes(f) PROVE Behind'
  <2> DEFINE m == M3(ctr + 1, anonce, f.mic, apTk)
  <2>1. /\ Answered(f) /\ f.mic.an = anonce /\ f.mic \in Key
        /\ apState' = "init" /\ apPtk' = f.mic
        /\ Range(toSta') = Range(toSta) \cup {m}
    BY <1>11 DEF Takes, Put
  <2>2. m.type = "m3" /\ m.mic = f.mic
    BY DEF M3
  <2> HIDE DEF m
  <2>3. staAnonce = anonce
    BY <1>1, <1>2, <1>10, <2>1 DEF Answers
  <2>4. \A g \in Range(toSta) : g.type # "m3"
    BY <1>1, <1>10, <2>1, <2>3 DEF Line
  <2>5. linked => apTk = staTk
    BY <1>10, <2>1 DEF Behind
  <2>6. \A g \in Range(toSta') : g.type = "m3" => g = m
    BY <2>1, <2>4
  <2>7. QED
    BY <1>10, <2>1, <2>5, <2>6 DEF Behind
<1>12. ASSUME NEW f \in Frame, Refuses(f) PROVE Behind'
  <2>1. Answered(f) /\ apState' = "calc" /\ toSta' = toSta
    BY <1>12 DEF Refuses
  <2>2. QED
    BY <1>10, <2>1 DEF Behind
<1>13. ASSUME NEW f \in Frame, Completes(f) PROVE Behind'
  <2>1. /\ apState = "init" /\ f \in Range(toAp) /\ f.type = "m4" /\ f.mic = apPtk
        /\ apState' = "done" /\ apTk' = apPtk /\ apUsed' = Append(apUsed, apPtk)
        /\ UNCHANGED <<linked, staTk, staUsed, toSta>>
    BY <1>13 DEF Completes, Take, staSide, staKeys
  <2>2. Reached /\ apPtk \in Key
    BY <1>1, <2>1 DEF ApNonces, Meeting
  <2>3. apPtk \in Range(staUsed)
    <3>1. staUsed \in Seq(Key)
      BY <1>1 DEF Typed
    <3>2. QED
      BY <2>2, <3>1, LastIn DEF Reached
  <2>4. Range(apUsed') = Range(apUsed) \cup {apPtk}
    <3>1. apUsed \in Seq(Key)
      BY <1>1 DEF Typed
    <3>2. QED
      BY <2>1, <2>2, <3>1, RangeAppend
  <2>5. linked => staTk = apTk'
    BY <2>1, <2>2 DEF Reached
  <2>6. QED
    BY <2>1, <2>3, <2>4, <2>5 DEF Behind
<1>14. ASSUME NEW f \in Frame, Derives(f) PROVE Behind'
  <2> DEFINE m == M2(f.ctr, snonce', tptk', staTk)
  <2>1. /\ UNCHANGED <<apState, anonce, apPtk, apTk, apUsed, linked, staTk, staUsed>>
        /\ Range(toSta') \subseteq Range(toSta)
        /\ Range(toAp') = Range(toAp) \cup {m}
    BY <1>14 DEF Derives, Take, Put, apSide, apHand, apKeys, staKeys
  <2>2. m.enc = staTk
    BY DEF M2
  <2> HIDE DEF m
  <2>3. QED
    BY <2>1, <2>2 DEF Behind
<1>15. ASSUME NEW f \in Frame, NEW k, NEW enc, Confirms(f, k, enc)
       PROVE  /\ UNCHANGED <<apState, anonce, apPtk, apTk, apUsed, linked>>
              /\ linked /\ f \in Range(toSta) /\ f.type = "m3"
              /\ f.mic = k /\ f.an = staAnonce
              /\ Range(toSta') \subseteq Range(toSta)
              /\ \A g \in Range(toAp') : g.type = "m2" => g \in Range(toAp)
  BY <1>15 DEF Confirms, Take, Put, M4, apSide, apHand, apKeys
<1>16. ASSUME NEW f \in Frame, NEW enc \in OptKey, Sets(f, enc) PROVE Behind'
  <2>1. /\ Confirms(f, tptk, enc)
        /\ staTk' = tptk /\ staUsed' = Append(staUsed, tptk)
    BY <1>16 DEF Sets
  <2>2. /\ UNCHANGED <<apState, anonce, apPtk, apTk, apUsed, linked>>
        /\ f \in Range(toSta) /\ f.type = "m3" /\ f.mic = tptk /\ f.an = staAnonce
        /\ Range(toSta') \subseteq Range(toSta)
        /\ \A g \in Range(toAp') : g.type = "m2" => g \in Range(toAp)
    BY <1>15, <2>1
  <2>3. tptk \in Key
    BY <1>1, <2>2 DEF ToSta
  <2>4. Range(staUsed') = Range(staUsed) \cup {tptk}
    <3>1. staUsed \in Seq(Key)
      BY <1>1 DEF Typed
    <3>2. QED
      BY <2>1, <2>3, <3>1, RangeAppend
  <2>5. \A g \in Range(toSta') : g.type = "m3" => g.mic \in Range(staUsed')
    BY <2>2, <2>4 DEF Behind
  <2>6. apState = "init" => apPtk \in Range(staUsed')
    BY <1>1, <2>2, <2>4 DEF ApHolds, Line
  <2>7. apState \in {"start", "calc"} =>
            \A g \in Range(toAp) : g.type = "m2" => g.mic.an # anonce
    BY <1>1, <1>2, <2>2 DEF Answers, Line
  <2>8. staTk' # NoKey
    BY <1>2, <2>1, <2>3
  <2>9. Range(apUsed') \subseteq Range(staUsed')
    BY <2>2, <2>4 DEF Behind
  <2>10. QED
    BY <2>2, <2>5, <2>6, <2>7, <2>8, <2>9 DEF Behind
<1>17. ASSUME NEW f \in Frame, Again(f) PROVE Behind'
  <2>1. Confirms(f, staTk, staTk) /\ UNCHANGED <<staTk, staUsed>>
    BY <1>17 DEF Again, staKeys
  <2>2. QED
    BY <1>15, <2>1 DEF Behind
<1>18. QED
  BY <1>3, <1>4, <1>5, <1>6, <1>7, <1>8, <1>9, <1>11, <1>12, <1>13, <1>14, <1>16,
     <1>17
  DEF Kinds, ApSteps, StaSteps

LEMMA BehindInit == Init => Behind
<1>1. Range(<<>>) = {}
  BY DEF Range
<1>2. QED
  BY <1>1 DEF Init, Behind

\* The AP never falls more than one key behind the STA.
THEOREM OneBehind == Spec => []Behind
  BY Freshness, Agreed, BehindInit, BehindStep, PTL DEF Spec

LEMMA HandoverInit == Init => Handover!Init
  BY DEF Init, Handover!Init

LEMMA HandoverStep ==
  Fresh /\ Agreement /\ Behind /\ [Next]_vars => [Handover!Next]_Handover!vars
<1> SUFFICES ASSUME Fresh, Agreement, Behind, [Next]_vars
             PROVE  [Handover!Next]_Handover!vars
  OBVIOUS
<1>1. Kinds /\ Typed /\ StaNonces /\ ApNonces /\ ToSta /\ Meeting
  BY StepKinds, TypeParts DEF Fresh, Agreement
<1>2. apUsed \in Seq(Key) /\ staUsed \in Seq(Key) /\ NoKey \notin Key
  BY <1>1 DEF Typed, Key, NoKey
<1>3. CASE Quiet
  BY <1>3 DEF Quiet, apSide, apHand, apKeys, staSide, staKeys, Handover!vars
<1>4. CASE StaDrops
  BY <1>4
  DEF StaDrops, apSide, apHand, apKeys, Handover!Next, Handover!StaDrop
<1>5. CASE ApDrops
  BY <1>5
  DEF ApDrops, ForgetSta, staSide, staKeys, Handover!Next, Handover!ApDrop
<1>6. CASE Restarts
  BY <1>6 DEF Restarts, Opens, Handover!vars
<1>7. CASE Associates
  BY <1>7 DEF Associates, Opens, Handover!Next, Handover!Join
<1>8. CASE Repeats
  BY <1>8 DEF Repeats, Shaking, apKeys, staSide, staKeys, Handover!vars
<1>9. ASSUME NEW f \in Frame, Takes(f) \/ Refuses(f)
      PROVE  [Handover!Next]_Handover!vars
  BY <1>9
  DEF Takes, Refuses, Answered, apKeys, staSide, staKeys, Handover!vars
<1>10. ASSUME NEW f \in Frame, Completes(f)
       PROVE  [Handover!Next]_Handover!vars
  <2>1. /\ apState = "init" /\ apState' = "done"
        /\ f \in Range(toAp) /\ f.type = "m4" /\ f.mic = apPtk
        /\ apTk' = apPtk /\ apUsed' = Append(apUsed, apPtk)
        /\ UNCHANGED <<staTk, staUsed>>
    BY <1>10 DEF Completes, Take, staSide, staKeys
  <2>2. /\ apPtk.an = anonce /\ anonce \in Nat
        /\ \A k \in Range(apUsed) : k.an < anonce
    BY <1>1, <2>1 DEF ApNonces, Shaking, Typed
  <2>3. staUsed # <<>> /\ Last(staUsed) = apPtk
    BY <1>1, <2>1, <2>2 DEF Meeting, Reached
  <2>4. apPtk \notin Range(apUsed)
    BY <2>2
  <2>5. Handover!ApSwitch
    BY <2>1, <2>3, <2>4
    DEF Handover!ApSwitch, Last, Range, Handover!Last, Handover!Range
  <2>6. QED
    BY <2>5 DEF Handover!Next
<1>11. ASSUME NEW f \in Frame, Derives(f) \/ Again(f)
       PROVE  [Handover!Next]_Handover!vars
  BY <1>11
  DEF Derives, Again, Confirms, apSide, apHand, apKeys, staKeys, Handover!vars
<1>12. ASSUME NEW f \in Frame, NEW enc \in OptKey, Sets(f, enc)
       PROVE  [Handover!Next]_Handover!vars
  <2>1. /\ linked /\ f \in Range(toSta) /\ f.type = "m3" /\ f.mic = tptk
        /\ staTk' = tptk /\ staUsed' = Append(staUsed, tptk)
        /\ UNCHANGED <<apState, apTk, apUsed>>
    BY <1>12 DEF Sets, Confirms, Take, apSide, apHand, apKeys
  <2>2. tptk \in Key /\ tptk # NoKey /\ snonce \in Nat
    BY <1>1, <1>2, <2>1 DEF ToSta, Typed
  <2>3. tptk \notin Range(staUsed)
    BY <1>1, <2>2 DEF StaNonces
  <2>4. tptk \notin Range(apUsed) /\ (apState # "gone" => apTk = staTk)
    BY <2>1, <2>3 DEF Behind
  <2>5. Handover!StaSwitch
    BY <2>1, <2>2, <2>3, <2>4 DEF Handover!StaSwitch, Range, Handover!Range
  <2>6. QED
    BY <2>5 DEF Handover!Next
<1>13. QED
  BY <1>1, <1>3, <1>4, <1>5, <1>6, <1>7, <1>8, <1>9, <1>10, <1>11, <1>12
  DEF Kinds, ApSteps, StaSteps

\* The handshake implements the handover of keys.
THEOREM KeysHandedOver == Spec => HandsKeysOver
  BY Freshness, Agreed, OneBehind, HandoverInit, HandoverStep, PTL
  DEF Spec, Handover!Spec, HandsKeysOver
=============================================================================

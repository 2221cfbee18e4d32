---------------------------- MODULE RekeyProofs ----------------------------
(***************************************************************************)
(* Safety of RekeyControl, proved for any number of rounds, outages and    *)
(* retries and any combination of faults.                                  *)
(*                                                                         *)
(* The inductive invariant follows one passphrase through its round:       *)
(*   Requests   passphrases reach the STA in the order of their rounds;    *)
(*   Working    the one sta_passphrase.py works on precedes those waiting, *)
(*              and is the last one given once setpsk has succeeded;       *)
(*   Acked      from the ACK until the handshake it leads to has ended,    *)
(*              nothing is left that could give the STA another one;       *)
(*   Quiet      before its setptk, a calm round has no handshake;          *)
(*   Associated an undisturbed LiFi association has an entry at the AP;    *)
(*   StaReady   the STA has the given passphrase, in use or to be used;    *)
(*   ApReady    hostapd uses the passphrase of the round from setptk on;   *)
(*   ApWatches, StaWatches                                                 *)
(*              an open round is still watched on a side whose trigger     *)
(*              file can be written;                                       *)
(*   KeptByIw   a link is kept only by an iw that fails.                   *)
(***************************************************************************)
EXTENDS RekeyControl, TLAPS

\* The server sets a passphrase only after it has received one.
Loaded == server = "setpsk" => got \in Pass

Typed == TypeOK /\ Loaded

Requests ==
    /\ \A i \in DOMAIN reqs :
          reqs[i] <= round /\ (mgr = "send" => reqs[i] < round)
    /\ \A i, j \in DOMAIN reqs : i < j => reqs[i] < reqs[j]
    /\ mgr = "send" => reply = "none"

Working ==
    /\ server \in {"setpsk", "flush", "ack", "nack", "mark"} =>
          /\ got <= round
          /\ mgr = "send" => got < round
          /\ \A i \in DOMAIN reqs : got < reqs[i]
    /\ server \in {"flush", "ack", "mark"} => given = got

AckKnown == (mgr = "await" /\ reply = "ACK") \/ mgr \in {"rekey", "mark"}

Rekeying == AckKnown \/ (calm /\ (cmd # None \/ hs # "done"))

Acked ==
    Rekeying => given = round /\ reqs = <<>> /\ server \in {"mark", "accept"}

Quiet ==
    calm /\ mgr \in {"send", "await", "drop", "rekey"} => cmd = None /\ hs = "done"

Associated == (lifi # "down" => apEntry) /\ (calm => lifi = "up")

StaReady ==
    calm /\ (server \in {"flush", "ack", "mark"} \/ Rekeying) =>
        staPend = given \/ (staPend = None /\ staPmk = given)

ApReady ==
    calm => /\ cmd # None => cmd = round
            /\ hs # "done" => apPsk = round
            /\ hs \in {"m2", "m3", "badmic"} => staPend = None

ApWatches ==
    "apfile" \notin Faults /\ cover = "open" /\ mgr = "fetch" =>
        trig["ap"] /\ ~fresh["ap"]

KeptByIw == cover = "kept" => "iw" \in Faults

StaWatches ==
    "stafile" \notin Faults /\ cover = "open" /\ (AckKnown \/ mgr = "fetch") =>
        server = "mark" \/ (trig["sta"] /\ ~fresh["sta"])

Inv ==
    /\ Typed
    /\ Requests
    /\ Working
    /\ Acked
    /\ Quiet
    /\ Associated
    /\ StaReady
    /\ ApReady
    /\ ApWatches
    /\ StaWatches
    /\ KeptByIw
-----------------------------------------------------------------------------
(* Type correctness.                                                       *)

USE DEF Side

LEMMA Passphrases ==
  /\ 0 \in Pass /\ Pass \subseteq Nat
  /\ Pass \subseteq OptPass /\ None \in OptPass /\ None \notin Pass
  /\ \A p \in OptPass : p \in Pass \/ p = None
  /\ \A n \in Pass : n < MaxRound => n + 1 \in Pass
  BY RekeyAssumption DEF None, OptPass, Pass

LEMMA Queues ==
  ASSUME NEW S, NEW q \in Seq(S)
  PROVE  /\ \A x \in S : Append(q, x) \in Seq(S)
         /\ q # <<>> => Head(q) \in S /\ Tail(q) \in Seq(S)
  OBVIOUS

LEMMA Marks ==
  ASSUME NEW f \in [Side -> BOOLEAN], NEW s \in Side, NEW b \in BOOLEAN
  PROVE  [f EXCEPT ![s] = b] \in [Side -> BOOLEAN]
  OBVIOUS

LEMMA InitTyped == Init => Typed
<1>1. 0 \in 0 .. Retries /\ 0 \in 0 .. MaxOutage
  BY RekeyAssumption
<1>2. 0 \in Pass /\ None \in OptPass
  BY Passphrases
<1>3. ASSUME Init
      PROVE  /\ reqs \in Seq(Pass) /\ pushed \in Seq({"good", "bad"})
             /\ trig \in [Side -> BOOLEAN] /\ fresh \in [Side -> BOOLEAN]
             /\ tries \in 0 .. Retries /\ outages \in 0 .. MaxOutage
  BY <1>1, <1>3 DEF Init
<1>4. QED
  BY <1>2, <1>3 DEF Init, Typed, Loaded, TypeOK, MgrPcs, ServerPcs

LEMMA MgrType ==
  ASSUME Typed, MgrStep
  PROVE  Typed'
<1> USE DEF Typed, Loaded, TypeOK, MgrPcs, mgrRest, serverVars, apLifi, staLifi,
        air, watch, history, outcome
<1>1. CASE MgrFetch
  BY <1>1, Passphrases, RekeyAssumption DEF MgrFetch
<1>2. CASE MgrSend
  BY <1>2, Passphrases, RekeyAssumption DEF MgrSend
<1>3. CASE MgrGiveUp
  <2>1. clean' = clean \/ clean' = FALSE
    BY <1>3 DEF MgrGiveUp
  <2>2. clean' \in BOOLEAN
    BY <2>1
  <2>3. QED
    BY <1>3, <2>2, Passphrases, RekeyAssumption DEF MgrGiveUp
<1>4. CASE MgrAck
  BY <1>4, Passphrases, RekeyAssumption DEF MgrAck
<1>5. CASE MgrRekey
  <2>1. clean' = clean \/ clean' = FALSE
    BY <1>5 DEF MgrRekey
  <2>2. clean' \in BOOLEAN
    BY <2>1
  <2>3. QED
    BY <1>5, <2>2, Passphrases, RekeyAssumption DEF MgrRekey
<1>6. CASE MgrMark
  <2>1. trig' \in [Side -> BOOLEAN] /\ fresh' \in [Side -> BOOLEAN]
    <3>1. /\ trig \in [Side -> BOOLEAN] /\ fresh \in [Side -> BOOLEAN]
          /\ \/ trig' = [trig EXCEPT !["ap"] = TRUE]
                /\ fresh' = [fresh EXCEPT !["ap"] = FALSE]
             \/ trig' = trig /\ fresh' = fresh
      BY <1>6 DEF MgrMark
    <3>2. "ap" \in Side /\ TRUE \in BOOLEAN /\ FALSE \in BOOLEAN
      OBVIOUS
    <3>3. QED
      BY <3>1, <3>2, Marks
  <2>2. mgr' = "fetch" /\ UNCHANGED <<mgrRest, round, reply, cmd, outcome>>
    BY <1>6 DEF MgrMark
  <2>3. QED
    BY <2>1, <2>2
<1>7. CASE MgrDrop
  BY <1>7, Passphrases, RekeyAssumption DEF MgrDrop, Disconnect
<1>8. QED
  BY <1>1, <1>2, <1>3, <1>4, <1>5, <1>6, <1>7 DEF MgrStep

LEMMA ServerType ==
  ASSUME Typed, ServerStep
  PROVE  Typed'
<1> USE DEF Typed, Loaded, TypeOK, ServerPcs, serverRest, mgrVars, apLifi, air,
        watch, Refuse
<1>1. CASE ServerReceive
  <2>1. Head(reqs) \in Pass /\ Head(reqs) \in OptPass /\ reqs' \in Seq(Pass)
    <3>1. reqs # <<>> /\ reqs \in Seq(Pass) /\ reqs' = Tail(reqs)
      BY <1>1 DEF ServerReceive
    <3>2. QED
      BY <3>1, Queues, Passphrases
  <2>2. QED
    BY <1>1, <2>1 DEF ServerReceive
<1>2. CASE ServerSetPsk
  <2>1. clean' = clean \/ clean' = FALSE
    BY <1>2 DEF ServerSetPsk
  <2>2. clean' \in BOOLEAN
    BY <2>1
  <2>3. QED
    BY <1>2, <2>2, Passphrases, RekeyAssumption DEF ServerSetPsk
<1>3. CASE ServerFlush
  <2>1. clean' = clean \/ clean' = FALSE
    BY <1>3 DEF ServerFlush
  <2>2. clean' \in BOOLEAN
    BY <2>1
  <2>3. QED
    BY <1>3, <2>2, Passphrases, RekeyAssumption DEF ServerFlush
<1>4. CASE ServerAck
  BY <1>4, Passphrases, RekeyAssumption DEF ServerAck, Answer
<1>5. CASE ServerNack
  BY <1>5, Passphrases, RekeyAssumption DEF ServerNack, Answer
<1>6. CASE ServerMark
  <2>1. trig' \in [Side -> BOOLEAN] /\ fresh' \in [Side -> BOOLEAN]
    <3>1. /\ trig \in [Side -> BOOLEAN] /\ fresh \in [Side -> BOOLEAN]
          /\ \/ trig' = [trig EXCEPT !["sta"] = TRUE]
                /\ fresh' = [fresh EXCEPT !["sta"] = FALSE]
             \/ trig' = trig /\ fresh' = fresh
      BY <1>6 DEF ServerMark
    <3>2. "sta" \in Side /\ TRUE \in BOOLEAN /\ FALSE \in BOOLEAN
      OBVIOUS
    <3>3. QED
      BY <3>1, <3>2, Marks
  <2>2. server' = "accept"
        /\ UNCHANGED <<serverRest, reqs, got, reply, staPend, given, clean>>
    BY <1>6 DEF ServerMark
  <2>3. QED
    BY <2>1, <2>2
<1>7. QED
  BY <1>1, <1>2, <1>3, <1>4, <1>5, <1>6 DEF ServerStep

LEMMA HandshakeType ==
  ASSUME Typed, HandshakeStep
  PROVE  Typed'
<1> USE DEF Typed, Loaded, TypeOK, lifiRest, mgrVars, serverVars, apLifi, staLifi,
        watch, outcome
<1>1. CASE HandleSetptk
  <2>1. cmd \in Pass /\ cmd' \in OptPass /\ 1 \in 0 .. Retries
    BY <1>1, Passphrases, RekeyAssumption DEF HandleSetptk
  <2>2. CASE ~apEntry
    BY <1>1, <2>1, <2>2 DEF HandleSetptk
  <2>3. CASE apEntry
    BY <1>1, <2>1, <2>3 DEF HandleSetptk
  <2>4. QED
    BY <2>2, <2>3
<1>2. CASE StaRecvM1
  BY <1>2, Passphrases DEF StaRecvM1
<1>3. CASE ApRecvM2
  <2>1. pushed' \in Seq({"good", "bad"}) /\ hs' \in {"m3", "badmic"}
        /\ tries' \in 0 .. Retries
    <3>1. /\ hs' \in {"m3", "badmic"} /\ tries' \in {tries, 1}
          /\ pushed \in Seq({"good", "bad"})
          /\ \E v \in {"good", "bad"} : pushed' = Append(pushed, v)
      BY <1>3 DEF ApRecvM2
    <3>2. tries' \in 0 .. Retries
      BY <3>1, RekeyAssumption
    <3>3. QED
      BY <3>1, <3>2, Queues
  <2>2. QED
    BY <1>3, <2>1 DEF ApRecvM2
<1>4. CASE HandshakeDone
  BY <1>4, RekeyAssumption DEF HandshakeDone
<1>5. CASE ApTimeout
  <2>1. tries' \in 0 .. Retries
    BY <1>5, RekeyAssumption DEF ApTimeout
  <2>2. CASE tries < Retries
    BY <1>5, <2>1, <2>2 DEF ApTimeout
  <2>3. CASE ~(tries < Retries)
    BY <1>5, <2>1, <2>3 DEF ApTimeout
  <2>4. QED
    BY <2>2, <2>3
<1>6. QED
  BY <1>1, <1>2, <1>3, <1>4, <1>5 DEF HandshakeStep

LEMMA OtherType ==
  ASSUME Typed,
         \/ Outage \/ ApForget \/ Reassociate \/ SyncOk \/ SyncFail
         \/ \E s \in Side : Watchdog(s)
  PROVE  Typed'
<1> USE DEF Typed, Loaded, TypeOK, lifiRest, wifiRest, mgrVars, serverVars, apLifi,
        staLifi, air, watch, outcome, Disconnect
<1>1. CASE Outage
  <2>1. outages' \in 0 .. MaxOutage
    BY <1>1, RekeyAssumption DEF Outage
  <2>2. QED
    BY <1>1, <2>1 DEF Outage
<1>2. CASE ApForget
  BY <1>2, RekeyAssumption DEF ApForget
<1>3. CASE Reassociate
  BY <1>3, Passphrases, RekeyAssumption DEF Reassociate
<1>4. CASE SyncOk
  BY <1>4, RekeyAssumption DEF SyncOk
<1>5. CASE SyncFail
  <2>1. pushed' \in Seq({"good", "bad"}) /\ fresh' \in [Side -> BOOLEAN]
    <3>1. pushed # <<>> /\ pushed' = Tail(pushed) /\ pushed \in Seq({"good", "bad"})
      BY <1>5 DEF SyncFail, Disconnect
    <3>2. fresh' = fresh \/ fresh' = [fresh EXCEPT !["sta"] = TRUE]
      BY <1>5 DEF SyncFail, Disconnect
    <3>3. QED
      BY <3>1, <3>2, Queues
  <2>2. cover' \in {"open", "good", "bad", "dropped", "kept"}
    BY <1>5 DEF SyncFail
  <2>3. clean' \in BOOLEAN
    BY <1>5 DEF SyncFail
  <2>4. QED
    BY <1>5, <2>1, <2>2, <2>3 DEF SyncFail
<1>6. CASE \E s \in Side : Watchdog(s)
  BY <1>6 DEF Watchdog, Disconnect
<1>7. QED
  BY <1>1, <1>2, <1>3, <1>4, <1>5, <1>6

LEMMA NextType ==
  ASSUME Typed, [Next]_vars
  PROVE  Typed'
<1>1. CASE UNCHANGED vars
  BY <1>1 DEF Typed, Loaded, TypeOK, vars, mgrVars, serverVars, apLifi, staLifi,
     air, watch, history, outcome
<1>2. CASE Next
  BY <1>2, MgrType, ServerType, HandshakeType, OtherType DEF Next, SyncStep
<1>3. QED
  BY <1>1, <1>2

\* The variables of the managers, the daemons and the watchdogs keep their types.
THEOREM TypeCorrect == Spec => []TypeOK
  <1>1. Spec => []Typed
  BY InitTyped, NextType, PTL DEF Spec
<1>2. Typed => TypeOK
  BY DEF Typed
<1>3. QED
  BY <1>1, <1>2, PTL

-----------------------------------------------------------------------------
(* The inductive invariant.                                                *)

LEMMA InvInit == Init => Inv
<1>1. Init => Typed
  BY InitTyped
<1>2. QED
  BY <1>1 DEF Init, Inv, Typed, Requests, Working, Acked, Rekeying, AckKnown,
             Quiet, Associated, StaReady, ApReady, ApWatches, StaWatches, KeptByIw

\* What the steps below need of the types.
LEMMA Facts ==
  ASSUME Typed
  PROVE  /\ round \in Nat /\ round # None
         /\ given \in Pass /\ given # None /\ staPmk # None
         /\ server = "setpsk" => got # None
         /\ reqs \in Seq(Pass) /\ Pass \subseteq Nat
         /\ calm \in BOOLEAN /\ apEntry \in BOOLEAN
         /\ trig \in [Side -> BOOLEAN] /\ fresh \in [Side -> BOOLEAN]
         /\ pushed # <<>> => Head(pushed) \in {"good", "bad"}
<1> USE DEF Typed, Loaded, TypeOK
<1>1. Pass \subseteq Nat /\ None \notin Pass
  BY Passphrases
<1>2. pushed # <<>> => Head(pushed) \in {"good", "bad"}
  <2>1. pushed \in Seq({"good", "bad"})
    OBVIOUS
  <2>2. QED
    BY <2>1, Queues
<1>3. QED
  BY <1>1, <1>2

\* Passphrases stay in the order of their rounds.
LEMMA OrderStep ==
  ASSUME Inv, Typed, Next
  PROVE  Requests' /\ Working'
<1> USE Facts DEF Inv, Requests, Working, Acked, Rekeying, AckKnown,
    mgrRest, serverRest, lifiRest, wifiRest, mgrVars, serverVars, apLifi, staLifi,
    air, watch, history, outcome
<1>1. CASE MgrFetch
  BY <1>1 DEF MgrFetch
<1>2. CASE MgrSend
  BY <1>2 DEF MgrSend
<1>3. CASE MgrGiveUp
  BY <1>3 DEF MgrGiveUp
<1>4. CASE MgrAck
  BY <1>4 DEF MgrAck
<1>5. CASE MgrRekey
  BY <1>5 DEF MgrRekey
<1>6. CASE MgrMark
  BY <1>6 DEF MgrMark
<1>7. CASE MgrDrop
  BY <1>7 DEF MgrDrop, Disconnect
<1>8. CASE ServerReceive
  <2>1. reqs # <<>> /\ reqs' = Tail(reqs) /\ reqs \in Seq(Pass)
    BY <1>8 DEF ServerReceive, Typed, TypeOK
  <2>2. /\ Head(reqs) = reqs[1] /\ 1 \in DOMAIN reqs
        /\ \A i \in DOMAIN reqs' :
              i \in Nat /\ i >= 1 /\ i + 1 \in DOMAIN reqs /\ reqs'[i] = reqs[i + 1]
    BY <2>1
  <2>3. QED
    BY <1>8, <2>2 DEF ServerReceive
<1>9. CASE ServerSetPsk
  BY <1>9 DEF ServerSetPsk, Refuse
<1>10. CASE ServerFlush
  BY <1>10 DEF ServerFlush, Refuse
<1>11. CASE ServerAck
  BY <1>11 DEF ServerAck, Answer
<1>12. CASE ServerNack
  BY <1>12 DEF ServerNack, Answer
<1>13. CASE ServerMark
  BY <1>13 DEF ServerMark
<1>14. CASE HandleSetptk
  BY <1>14 DEF HandleSetptk
<1>15. CASE StaRecvM1
  BY <1>15 DEF StaRecvM1
<1>16. CASE ApRecvM2
  BY <1>16 DEF ApRecvM2
<1>17. CASE HandshakeDone
  BY <1>17 DEF HandshakeDone
<1>18. CASE ApTimeout
  BY <1>18 DEF ApTimeout
<1>19. CASE Outage
  BY <1>19 DEF Outage
<1>20. CASE ApForget
  BY <1>20 DEF ApForget
<1>21. CASE Reassociate
  BY <1>21 DEF Reassociate
<1>22. CASE SyncOk
  BY <1>22 DEF SyncOk
<1>23. CASE SyncFail
  BY <1>23 DEF SyncFail, Disconnect
<1>24. CASE \E s \in Side : Watchdog(s)
  BY <1>24 DEF Watchdog, Disconnect
<1>25. QED
  BY <1>1, <1>2, <1>3, <1>4, <1>5, <1>6, <1>7, <1>8, <1>9, <1>10, <1>11, <1>12,
     <1>13, <1>14, <1>15, <1>16, <1>17, <1>18, <1>19, <1>20, <1>21, <1>22,
     <1>23, <1>24 DEF Next, MgrStep, ServerStep, HandshakeStep, SyncStep

\* Nothing comes between an ACK and the handshake it leads to.
LEMMA AckStep ==
  ASSUME Inv, Typed, Next
  PROVE  Acked' /\ Quiet'
<1> USE Facts DEF Inv, Requests, Working, Acked, Rekeying, AckKnown,
    Quiet, Associated,
    mgrRest, serverRest, lifiRest, wifiRest, mgrVars, serverVars, apLifi, staLifi,
    air, watch, history, outcome
<1>1. CASE MgrFetch
  BY <1>1 DEF MgrFetch
<1>2. CASE MgrSend
  BY <1>2 DEF MgrSend
<1>3. CASE MgrGiveUp
  BY <1>3 DEF MgrGiveUp
<1>4. CASE MgrAck
  BY <1>4 DEF MgrAck
<1>5. CASE MgrRekey
  BY <1>5 DEF MgrRekey
<1>6. CASE MgrMark
  BY <1>6 DEF MgrMark
<1>7. CASE MgrDrop
  BY <1>7 DEF MgrDrop, Disconnect
<1>8. CASE ServerReceive
  BY <1>8 DEF ServerReceive
<1>9. CASE ServerSetPsk
  BY <1>9 DEF ServerSetPsk, Refuse
<1>10. CASE ServerFlush
  BY <1>10 DEF ServerFlush, Refuse
<1>11. CASE ServerAck
  BY <1>11 DEF ServerAck, Answer
<1>12. CASE ServerNack
  BY <1>12 DEF ServerNack, Answer
<1>13. CASE ServerMark
  BY <1>13 DEF ServerMark
<1>14. CASE HandleSetptk
  BY <1>14 DEF HandleSetptk
<1>15. CASE StaRecvM1
  BY <1>15 DEF StaRecvM1
<1>16. CASE ApRecvM2
  BY <1>16 DEF ApRecvM2
<1>17. CASE HandshakeDone
  BY <1>17 DEF HandshakeDone
<1>18. CASE ApTimeout
  BY <1>18 DEF ApTimeout
<1>19. CASE Outage
  BY <1>19 DEF Outage
<1>20. CASE ApForget
  BY <1>20 DEF ApForget
<1>21. CASE Reassociate
  BY <1>21 DEF Reassociate
<1>22. CASE SyncOk
  BY <1>22 DEF SyncOk
<1>23. CASE SyncFail
  BY <1>23 DEF SyncFail, Disconnect
<1>24. CASE \E s \in Side : Watchdog(s)
  BY <1>24 DEF Watchdog, Disconnect
<1>25. QED
  BY <1>1, <1>2, <1>3, <1>4, <1>5, <1>6, <1>7, <1>8, <1>9, <1>10, <1>11, <1>12,
     <1>13, <1>14, <1>15, <1>16, <1>17, <1>18, <1>19, <1>20, <1>21, <1>22,
     <1>23, <1>24 DEF Next, MgrStep, ServerStep, HandshakeStep, SyncStep

\* An undisturbed association stays one.
LEMMA AssociatedStep ==
  ASSUME Inv, Typed, Next
  PROVE  Associated'
<1> USE Facts DEF Inv, Associated,
    mgrRest, serverRest, lifiRest, wifiRest, mgrVars, serverVars, apLifi, staLifi,
    air, watch, history, outcome
<1>1. CASE MgrFetch
  BY <1>1 DEF MgrFetch
<1>2. CASE MgrSend
  BY <1>2 DEF MgrSend
<1>3. CASE MgrGiveUp
  BY <1>3 DEF MgrGiveUp
<1>4. CASE MgrAck
  BY <1>4 DEF MgrAck
<1>5. CASE MgrRekey
  BY <1>5 DEF MgrRekey
<1>6. CASE MgrMark
  BY <1>6 DEF MgrMark
<1>7. CASE MgrDrop
  BY <1>7 DEF MgrDrop, Disconnect
<1>8. CASE ServerReceive
  BY <1>8 DEF ServerReceive
<1>9. CASE ServerSetPsk
  BY <1>9 DEF ServerSetPsk, Refuse
<1>10. CASE ServerFlush
  BY <1>10 DEF ServerFlush, Refuse
<1>11. CASE ServerAck
  BY <1>11 DEF ServerAck, Answer
<1>12. CASE ServerNack
  BY <1>12 DEF ServerNack, Answer
<1>13. CASE ServerMark
  BY <1>13 DEF ServerMark
<1>14. CASE HandleSetptk
  BY <1>14 DEF HandleSetptk
<1>15. CASE StaRecvM1
  BY <1>15 DEF StaRecvM1
<1>16. CASE ApRecvM2
  BY <1>16 DEF ApRecvM2
<1>17. CASE HandshakeDone
  BY <1>17 DEF HandshakeDone
<1>18. CASE ApTimeout
  BY <1>18 DEF ApTimeout
<1>19. CASE Outage
  BY <1>19 DEF Outage
<1>20. CASE ApForget
  BY <1>20 DEF ApForget
<1>21. CASE Reassociate
  BY <1>21 DEF Reassociate
<1>22. CASE SyncOk
  BY <1>22 DEF SyncOk
<1>23. CASE SyncFail
  BY <1>23 DEF SyncFail, Disconnect
<1>24. CASE \E s \in Side : Watchdog(s)
  BY <1>24 DEF Watchdog, Disconnect
<1>25. QED
  BY <1>1, <1>2, <1>3, <1>4, <1>5, <1>6, <1>7, <1>8, <1>9, <1>10, <1>11, <1>12,
     <1>13, <1>14, <1>15, <1>16, <1>17, <1>18, <1>19, <1>20, <1>21, <1>22,
     <1>23, <1>24 DEF Next, MgrStep, ServerStep, HandshakeStep, SyncStep

\* Both sides come to use the passphrase of the round.
LEMMA ReadyStep ==
  ASSUME Inv, Typed, Next
  PROVE  StaReady' /\ ApReady'
<1> USE Facts DEF Inv, Requests, Working, Acked, Rekeying, AckKnown,
    Quiet, Associated, StaReady, ApReady,
    mgrRest, serverRest, lifiRest, wifiRest, mgrVars, serverVars, apLifi, staLifi,
    air, watch, history, outcome
<1>1. CASE MgrFetch
  BY <1>1 DEF MgrFetch
<1>2. CASE MgrSend
  BY <1>2 DEF MgrSend
<1>3. CASE MgrGiveUp
  BY <1>3 DEF MgrGiveUp
<1>4. CASE MgrAck
  BY <1>4 DEF MgrAck
<1>5. CASE MgrRekey
  BY <1>5 DEF MgrRekey
<1>6. CASE MgrMark
  BY <1>6 DEF MgrMark
<1>7. CASE MgrDrop
  BY <1>7 DEF MgrDrop, Disconnect
<1>8. CASE ServerReceive
  BY <1>8 DEF ServerReceive
<1>9. CASE ServerSetPsk
  BY <1>9 DEF ServerSetPsk, Refuse
<1>10. CASE ServerFlush
  BY <1>10 DEF ServerFlush, Refuse
<1>11. CASE ServerAck
  BY <1>11 DEF ServerAck, Answer
<1>12. CASE ServerNack
  BY <1>12 DEF ServerNack, Answer
<1>13. CASE ServerMark
  BY <1>13 DEF ServerMark
<1>14. CASE HandleSetptk
  BY <1>14 DEF HandleSetptk
<1>15. CASE StaRecvM1
  BY <1>15 DEF StaRecvM1
<1>16. CASE ApRecvM2
  BY <1>16 DEF ApRecvM2
<1>17. CASE HandshakeDone
  BY <1>17 DEF HandshakeDone
<1>18. CASE ApTimeout
  BY <1>18 DEF ApTimeout
<1>19. CASE Outage
  BY <1>19 DEF Outage
<1>20. CASE ApForget
  BY <1>20 DEF ApForget
<1>21. CASE Reassociate
  BY <1>21 DEF Reassociate
<1>22. CASE SyncOk
  BY <1>22 DEF SyncOk
<1>23. CASE SyncFail
  BY <1>23 DEF SyncFail, Disconnect
<1>24. CASE \E s \in Side : Watchdog(s)
  BY <1>24 DEF Watchdog, Disconnect
<1>25. QED
  BY <1>1, <1>2, <1>3, <1>4, <1>5, <1>6, <1>7, <1>8, <1>9, <1>10, <1>11, <1>12,
     <1>13, <1>14, <1>15, <1>16, <1>17, <1>18, <1>19, <1>20, <1>21, <1>22,
     <1>23, <1>24 DEF Next, MgrStep, ServerStep, HandshakeStep, SyncStep

\* A round still open is watched.
LEMMA WatchStep ==
  ASSUME Inv, Typed, Next
  PROVE  ApWatches' /\ StaWatches' /\ KeptByIw'
<1> USE Facts DEF Inv, Requests, Acked, Rekeying, AckKnown, ApWatches, StaWatches, KeptByIw,
    mgrRest, serverRest, lifiRest, wifiRest, mgrVars, serverVars, apLifi, staLifi,
    air, watch, history, outcome
<1>1. CASE MgrFetch
  BY <1>1 DEF MgrFetch
<1>2. CASE MgrSend
  BY <1>2 DEF MgrSend
<1>3. CASE MgrGiveUp
  BY <1>3 DEF MgrGiveUp
<1>4. CASE MgrAck
  BY <1>4 DEF MgrAck
<1>5. CASE MgrRekey
  BY <1>5 DEF MgrRekey
<1>6. CASE MgrMark
  BY <1>6 DEF MgrMark
<1>7. CASE MgrDrop
  BY <1>7 DEF MgrDrop, Disconnect
<1>8. CASE ServerReceive
  BY <1>8 DEF ServerReceive
<1>9. CASE ServerSetPsk
  BY <1>9 DEF ServerSetPsk, Refuse
<1>10. CASE ServerFlush
  BY <1>10 DEF ServerFlush, Refuse
<1>11. CASE ServerAck
  BY <1>11 DEF ServerAck, Answer
<1>12. CASE ServerNack
  BY <1>12 DEF ServerNack, Answer
<1>13. CASE ServerMark
  BY <1>13 DEF ServerMark
<1>14. CASE HandleSetptk
  BY <1>14 DEF HandleSetptk
<1>15. CASE StaRecvM1
  BY <1>15 DEF StaRecvM1
<1>16. CASE ApRecvM2
  BY <1>16 DEF ApRecvM2
<1>17. CASE HandshakeDone
  BY <1>17 DEF HandshakeDone
<1>18. CASE ApTimeout
  BY <1>18 DEF ApTimeout
<1>19. CASE Outage
  BY <1>19 DEF Outage
<1>20. CASE ApForget
  BY <1>20 DEF ApForget
<1>21. CASE Reassociate
  BY <1>21 DEF Reassociate
<1>22. CASE SyncOk
  BY <1>22 DEF SyncOk
<1>23. CASE SyncFail
  BY <1>23 DEF SyncFail, Disconnect
<1>24. CASE \E s \in Side : Watchdog(s)
  BY <1>24 DEF Watchdog, Disconnect
<1>25. QED
  BY <1>1, <1>2, <1>3, <1>4, <1>5, <1>6, <1>7, <1>8, <1>9, <1>10, <1>11, <1>12,
     <1>13, <1>14, <1>15, <1>16, <1>17, <1>18, <1>19, <1>20, <1>21, <1>22,
     <1>23, <1>24 DEF Next, MgrStep, ServerStep, HandshakeStep, SyncStep

LEMMA InvStep ==
  ASSUME Inv, [Next]_vars
  PROVE  Inv'
<1>1. CASE UNCHANGED vars
  BY <1>1 DEF Inv, TypeOK, Typed, Loaded, Requests, Working, Acked, Rekeying,
     AckKnown, Quiet, Associated, StaReady, ApReady, ApWatches, StaWatches,
     KeptByIw, vars, mgrVars,
     serverVars, apLifi, staLifi, air, watch, history, outcome
<1>2. CASE Next
  <2>1. Typed /\ Typed'
    BY NextType DEF Inv
  <2>2. QED
    BY <1>2, <2>1, OrderStep, AckStep, AssociatedStep, ReadyStep, WatchStep
       DEF Inv, Typed
<1>3. QED
  BY <1>1, <1>2

\* The managers, the LiFi daemons and the watchdogs keep the inductive invariant.
THEOREM Invariance == Spec => []Inv
  BY InvInit, InvStep, PTL DEF Spec

-----------------------------------------------------------------------------
(* What follows from it.                                                   *)

\* sta_passphrase.py and system_manager.py: when the manager goes on with a
\* round, the STA was given the passphrase of that round last.
THEOREM AckIsTrue == Spec => []AckMeansSet
<1>1. Inv => AckMeansSet
  BY DEF Inv, Acked, Rekeying, AckKnown, AckMeansSet
<1>2. QED
  BY <1>1, Invariance, PTL

\* lifi_listener.c, wpa_auth.c and rsn_supp/wpa.c: over an undisturbed LiFi
\* association the handshake after setptk finds the same PMK on both sides.
THEOREM CalmRekeyVerifies == Spec => []UndisturbedRekeyVerifies
<1>1. Inv => UndisturbedRekeyVerifies
  <2> SUFFICES ASSUME Inv, calm, hs \in {"m2", "badmic"}
               PROVE  staPmk = apPsk
    BY DEF UndisturbedRekeyVerifies
  <2>1. Rekeying /\ given = round
    BY DEF Inv, Rekeying, Acked
  <2>2. apPsk = round /\ staPend = None
    BY DEF Inv, ApReady
  <2>3. staPmk = given
    BY <2>1, <2>2, Facts DEF Inv, StaReady
  <2>4. QED
    BY <2>1, <2>2, <2>3
<1>2. QED
  BY <1>1, Invariance, PTL

\* The two watchdogs and the manager: as long as one of the trigger files can be
\* written, no round begins while WiFi is left as the round before it found it,
\* unless the disconnects of that round have failed in iw.
THEOREM EveryRoundCovered ==
  ASSUME {"apfile", "stafile"} \ Faults # {}
  PROVE  Spec => NoRoundUncovered
<1>1. Inv /\ [Next]_vars => [round' # round => Covered]_vars
  <2> SUFFICES ASSUME Inv, Next, round' # round PROVE Covered
    BY DEF vars
  <2>1. MgrFetch
    BY DEF Next, MgrStep, ServerStep, HandshakeStep, SyncStep, Watchdog,
       MgrSend, MgrGiveUp, MgrAck, MgrRekey, MgrMark, MgrDrop, ServerReceive,
       ServerSetPsk, ServerFlush, ServerAck, ServerNack, ServerMark,
       HandleSetptk, StaRecvM1, ApRecvM2, HandshakeDone, ApTimeout, Outage,
       ApForget, Reassociate, SyncOk, SyncFail, mgrRest, serverRest, lifiRest,
       wifiRest, mgrVars
  <2>2. cover # "open"
    BY <2>1 DEF Inv, MgrFetch, ApWatches, StaWatches
  <2>3. QED
    BY <2>2 DEF Inv, Typed, TypeOK, KeptByIw, Covered
<1>2. QED
  BY <1>1, Invariance, PTL DEF Spec, NoRoundUncovered

\* The same where iw does its work: every round ends with WiFi rekeyed or down.
THEOREM WorkingIwCovers ==
  ASSUME {"apfile", "stafile"} \ Faults # {}, "iw" \notin Faults
  PROVE  Spec => [][round' # round => cover \in {"good", "bad", "dropped"}]_vars
<1>1. Covered => cover \in {"good", "bad", "dropped"}
  BY DEF Covered
<1>2. [round' # round => Covered]_vars
      => [round' # round => cover \in {"good", "bad", "dropped"}]_vars
  BY <1>1
<1>3. QED
  BY <1>2, EveryRoundCovered, PTL DEF NoRoundUncovered
=============================================================================

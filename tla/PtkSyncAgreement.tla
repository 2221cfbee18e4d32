-------------------------- MODULE PtkSyncAgreement --------------------------
(***************************************************************************)
(* What a sync promises, proved: OneMessageInFlight, SyncAgreement,        *)
(* EachPtkOnce and LatestInstalled of PtkSync, on top of the invariant of  *)
(* PtkSyncSafety.                                                          *)
(*                                                                         *)
(*   Wire       what the two directions of a live connection can hold for  *)
(*              every pair of places the two receivers can be at;          *)
(*   Delivered  while the WiFi link is undisturbed, the last payload given *)
(*              to a WiFi daemon, read or not, is the PTK that the         *)
(*              exchange says it has;                                      *)
(*   Once       a PTK that another has followed does not come again,       *)
(*              neither from hostapd nor to WiFi;                          *)
(*   Handed     every push reaches the receiver, and in a sync that        *)
(*              succeeds the WiFi daemons.                                 *)
(***************************************************************************)
EXTENDS PtkSyncSafety

\* Where the STA stands in connection i.
StaAt(i) == IF served = i THEN staPc ELSE "unserved"

\* The AP at pc, the STA at st, q on its way to the STA and r to the AP.
Line(pc, st, q, r) ==
    /\ Len(q) <= 1 /\ Len(r) <= 1
    /\ pc = "station" => q = <<>> /\ r = <<>>
    /\ pc = "ready" /\ r # <<>> /\ Head(r) = "READY" => q = <<>>
    /\ st \in {"unserved", "sync", "assoc"} => pc = "ready" /\ r = <<>>
    /\ st = "assoc" => q = <<>>
    /\ st = "install" /\ q # <<>> => pc \in {"ok", "forward"} /\ r = <<>>
    /\ st \in {"forward", "record"} => pc \in {"ok", "forward"} /\ r = <<>>

Wire ==
    \A i \in Sess : conn[i].ap = "open" =>
        Line(apPc, StaAt(i), conn[i].toSta, conn[i].toAp)

-----------------------------------------------------------------------------
(* OneMessageInFlight.                                                     *)

LEMMA ShortQueue ==
  ASSUME NEW S, NEW q \in Seq(S), Len(q) <= 1
  PROVE  /\ q # <<>> => Tail(q) = <<>>
         /\ \A m \in S : q = <<>> => Len(Append(q, m)) = 1
<1>1. ASSUME q # <<>> PROVE Tail(q) = <<>>
  <2>1. Len(q) = 1
    <3>1. Len(q) # 0 /\ Len(q) \in Nat
      BY <1>1
    <3>2. QED
      BY <3>1
  <2>2. Tail(q) \in Seq(S) /\ Len(Tail(q)) = 0
    BY <1>1, <2>1
  <2>3. QED
    BY <2>2
<1>2. ASSUME NEW m \in S, q = <<>> PROVE Len(Append(q, m)) = 1
  BY <1>2
<1>3. QED
  BY <1>1, <1>2

\* The four moves of the AP on an open connection.
LEMMA LineAp ==
  ASSUME NEW st,
         NEW q \in Seq({"SYNC", "INSTALL"}),
         NEW r \in Seq({"READY", "NOTREADY", "FAIL", "OK"})
  PROVE  /\ Line("ready", st, q, r) /\ r # <<>> /\ Head(r) = "READY"
            => Line("station", st, q, Tail(r))
         /\ Line("ok", st, q, r) /\ r # <<>> => Line("forward", st, q, Tail(r))
         /\ Line("station", st, q, r)
            => Line("ok", st, Append(q, "INSTALL"), r)
<1>1. Len(<<>>) = 0
  OBVIOUS
<1>2. ASSUME Line("ready", st, q, r), r # <<>>, Head(r) = "READY"
      PROVE  Line("station", st, q, Tail(r))
  <2>1. Tail(r) = <<>> /\ q = <<>>
    BY <1>2, ShortQueue DEF Line
  <2>2. st \notin {"unserved", "sync", "assoc", "forward", "record"}
    BY <1>2 DEF Line
  <2>3. \A t : t = <<>> => Line("station", st, q, t)
    <3> SUFFICES ASSUME NEW t, t = <<>> PROVE Line("station", st, q, t)
      OBVIOUS
    <3>1. Len(q) <= 1 /\ Len(t) <= 1
      BY <1>1, <2>1
    <3>2. QED
      BY <2>1, <2>2, <3>1 DEF Line
  <2>4. QED
    BY <2>1, <2>3
<1>3. ASSUME Line("ok", st, q, r), r # <<>>
      PROVE  Line("forward", st, q, Tail(r))
  <2>1. Tail(r) = <<>> /\ Len(q) <= 1
    BY <1>3, ShortQueue DEF Line
  <2>2. st \notin {"unserved", "sync", "assoc", "forward", "record"}
    BY <1>3 DEF Line
  <2>3. \A t : t = <<>> => Line("forward", st, q, t)
    BY <1>1, <2>1, <2>2 DEF Line
  <2>4. QED
    BY <2>1, <2>3
<1>4. ASSUME Line("station", st, q, r)
      PROVE  Line("ok", st, Append(q, "INSTALL"), r)
  <2>1. q = <<>> /\ r = <<>> /\ Len(q) <= 1
    BY <1>4 DEF Line
  <2>2. Len(Append(q, "INSTALL")) = 1
    BY <2>1, ShortQueue
  <2>3. st \notin {"unserved", "sync", "assoc", "forward", "record"}
    BY <1>4 DEF Line
  <2>4. QED
    BY <1>1, <2>1, <2>2, <2>3 DEF Line
<1>5. QED
  BY <1>2, <1>3, <1>4

\* The moves of the STA on an open connection.
LEMMA LineSta ==
  ASSUME NEW pc,
         NEW q \in Seq({"SYNC", "INSTALL"}),
         NEW r \in Seq({"READY", "NOTREADY", "FAIL", "OK"})
  PROVE  /\ Line(pc, "unserved", q, r) => Line(pc, "sync", q, r)
         /\ Line(pc, "sync", q, r) /\ q # <<>> => Line(pc, "assoc", Tail(q), r)
         /\ Line(pc, "assoc", q, r)
            => /\ Line(pc, "install", q, Append(r, "READY"))
               /\ Line(pc, "accept", q, Append(r, "NOTREADY"))
         /\ Line(pc, "install", q, r) /\ q # <<>>
            => /\ Line(pc, "forward", Tail(q), r)
               /\ Line(pc, "failing", Tail(q), Append(r, "NOTREADY"))
         /\ Line(pc, "forward", q, r)
            => /\ Line(pc, "record", q, r)
               /\ Line(pc, "failing", q, Append(r, "FAIL"))
         /\ Line(pc, "record", q, r) => Line(pc, "accept", q, Append(r, "OK"))
         /\ \A st : Line(pc, st, q, r)
            => Line(pc, "drop", q, r) /\ Line(pc, "accept", q, r)
<1>1. Len(<<>>) = 0
  OBVIOUS
<1>2. Line(pc, "unserved", q, r) => Line(pc, "sync", q, r)
  BY DEF Line
<1>3. ASSUME Line(pc, "sync", q, r), q # <<>>
      PROVE  Line(pc, "assoc", Tail(q), r)
  <2>1. Tail(q) = <<>> /\ r = <<>> /\ pc = "ready"
    BY <1>3, ShortQueue DEF Line
  <2>2. \A t : t = <<>> => Line(pc, "assoc", t, r)
    BY <1>1, <2>1 DEF Line
  <2>3. QED
    BY <2>1, <2>2
<1>4. ASSUME Line(pc, "assoc", q, r)
      PROVE  /\ Line(pc, "install", q, Append(r, "READY"))
             /\ Line(pc, "accept", q, Append(r, "NOTREADY"))
  <2>1. q = <<>> /\ r = <<>> /\ pc = "ready" /\ Len(r) <= 1
    BY <1>4 DEF Line
  <2>2. Len(Append(r, "READY")) = 1 /\ Len(Append(r, "NOTREADY")) = 1
    BY <2>1, ShortQueue
  <2>3. QED
    BY <1>1, <2>1, <2>2 DEF Line
<1>5. ASSUME Line(pc, "install", q, r), q # <<>>
      PROVE  /\ Line(pc, "forward", Tail(q), r)
             /\ Line(pc, "failing", Tail(q), Append(r, "NOTREADY"))
  <2>1. Tail(q) = <<>> /\ r = <<>> /\ pc \in {"ok", "forward"} /\ Len(r) <= 1
    BY <1>5, ShortQueue DEF Line
  <2>2. Len(Append(r, "NOTREADY")) = 1
    BY <2>1, ShortQueue
  <2>3. \A t : t = <<>> => Line(pc, "forward", t, r)
    BY <1>1, <2>1 DEF Line
  <2>4. \A t, u : t = <<>> /\ Len(u) = 1 => Line(pc, "failing", t, u)
    BY <1>1, <2>1 DEF Line
  <2>5. QED
    BY <2>1, <2>2, <2>3, <2>4
<1>6. ASSUME Line(pc, "forward", q, r)
      PROVE  /\ Line(pc, "record", q, r)
             /\ Line(pc, "failing", q, Append(r, "FAIL"))
  <2>1. r = <<>> /\ pc \in {"ok", "forward"} /\ Len(r) <= 1 /\ Len(q) <= 1
    BY <1>6 DEF Line
  <2>2. Len(Append(r, "FAIL")) = 1
    BY <2>1, ShortQueue
  <2>3. QED
    BY <1>1, <2>1, <2>2 DEF Line
<1>7. ASSUME Line(pc, "record", q, r)
      PROVE  Line(pc, "accept", q, Append(r, "OK"))
  <2>1. r = <<>> /\ pc \in {"ok", "forward"} /\ Len(r) <= 1 /\ Len(q) <= 1
    BY <1>7 DEF Line
  <2>2. Len(Append(r, "OK")) = 1
    BY <2>1, ShortQueue
  <2>3. QED
    BY <2>1, <2>2 DEF Line
<1>8. \A st : Line(pc, st, q, r)
         => Line(pc, "drop", q, r) /\ Line(pc, "accept", q, r)
  BY DEF Line
<1>9. QED
  BY <1>2, <1>3, <1>4, <1>5, <1>6, <1>7, <1>8

LEMMA WireAp ==
  ASSUME Inv, Wire, ApStep
  PROVE  Wire'
<1> USE Counters DEF Inv
<1> SUFFICES ASSUME NEW i \in Sess, conn'[i].ap = "open"
             PROVE  Line(apPc, StaAt(i), conn[i].toSta, conn[i].toAp)'
  BY DEF Wire
<1>1. CASE ApConnect
  <2>1. i = nSess'
    <3>1. i # nSess' => conn[i].ap = "open"
      BY <1>1, ApOpenFrame
    <3>2. ~ApActive
      BY <1>1 DEF ApConnect, ApActive
    <3>3. QED
      BY <3>1, <3>2 DEF ApOrder
  <2>2. /\ conn'[i].toSta = <<"SYNC">> /\ conn'[i].toAp = <<>>
        /\ apPc' = "ready" /\ served' = served /\ nSess' = nSess + 1
    BY <1>1, <2>1, ApOpenFrame DEF staVars
  <2>3. StaAt(i)' = "unserved"
    BY <2>1, <2>2 DEF StaAt, StaOrder
  <2>4. Len(<<"SYNC">>) = 1 /\ Len(<<>>) = 0
    OBVIOUS
  <2>5. QED
    BY <2>2, <2>3, <2>4 DEF Line
<1>2. CASE ~ApConnect
  <2>1. StaAt(i)' = StaAt(i)
    BY <1>2, ApFrame DEF StaAt, staVars
  <2>2. conn[i] \in ConnType /\ conn \in [Sess -> ConnType]
    BY DEF TypeOK
  <2>3. /\ conn[i].toSta \in Seq({"SYNC", "INSTALL"})
        /\ conn[i].toAp \in Seq({"READY", "NOTREADY", "FAIL", "OK"})
    BY <2>2 DEF ConnType
  <2>4. ASSUME conn[i].ap = "open"
        PROVE  /\ i = nSess /\ ApActive
               /\ Line(apPc, StaAt(i), conn[i].toSta, conn[i].toAp)
    BY <2>4 DEF ApOrder, Wire
  <2>5. CASE ApAcceptPush \/ ApConnectFail \/ ApDrop
    BY <2>4, <2>5 DEF ApAcceptPush, ApConnectFail, ApDrop, ApActive
  <2>6. CASE ApRecvReady
    <3>1. /\ apPc = "ready" /\ apPc' = "station" /\ conn[nSess].toAp # <<>>
          /\ Head(conn[nSess].toAp) = "READY"
          /\ conn' = [conn EXCEPT ![nSess].toAp = Tail(@)]
      BY <2>6 DEF ApRecvReady, ApReceive
    <3>2. conn[i].ap = "open"
      BY <2>2, <3>1 DEF ConnType
    <3>3. conn'[i].toSta = conn[i].toSta /\ conn'[i].toAp = Tail(conn[i].toAp)
      BY <2>2, <2>4, <3>1, <3>2 DEF ConnType
    <3>4. QED
      BY <2>1, <2>3, <2>4, <3>1, <3>2, <3>3, LineAp
  <2>7. CASE ApRecvOk
    <3>1. /\ apPc = "ok" /\ apPc' = "forward" /\ conn[nSess].toAp # <<>>
          /\ conn' = [conn EXCEPT ![nSess].toAp = Tail(@)]
      BY <2>7 DEF ApRecvOk, ApReceive
    <3>2. conn[i].ap = "open"
      BY <2>2, <3>1 DEF ConnType
    <3>3. conn'[i].toSta = conn[i].toSta /\ conn'[i].toAp = Tail(conn[i].toAp)
      BY <2>2, <2>4, <3>1, <3>2 DEF ConnType
    <3>4. QED
      BY <2>1, <2>3, <2>4, <3>1, <3>2, <3>3, LineAp
  <2>8. CASE ApSendInstall
    <3>1. /\ apPc = "station" /\ apPc' = "ok"
          /\ conn' = [conn EXCEPT ![nSess].toSta = Append(@, "INSTALL")]
      BY <2>8 DEF ApSendInstall
    <3>2. conn[i].ap = "open"
      BY <2>2, <3>1 DEF ConnType
    <3>3. /\ conn'[i].toSta = Append(conn[i].toSta, "INSTALL")
          /\ conn'[i].toAp = conn[i].toAp
      BY <2>2, <2>4, <3>1, <3>2 DEF ConnType
    <3>4. QED
      BY <2>1, <2>3, <2>4, <3>1, <3>2, <3>3, LineAp
  <2>9. CASE ApSyncFail \/ ApForward
    <3>1. nSess \in Sess /\ ApActive
      BY <2>9 DEF ApSyncFail, ApForward, ApOrder, ApActive
    <3>2. conn'[nSess].ap \in {"failed", "synced"}
      BY <2>9, <3>1 DEF ApSyncFail, ApForward, TypeOK, ConnType
    <3>3. i # nSess /\ conn'[i] = conn[i]
      BY <1>2, <3>2, ApFrame
    <3>4. QED
      BY <2>4, <3>3
  <2>10. QED
    BY <1>2, <2>5, <2>6, <2>7, <2>8, <2>9 DEF ApStep
<1>3. QED
  BY <1>1, <1>2

LEMMA WireSta ==
  ASSUME Inv, Wire, StaMainStep \/ StaSyncStep
  PROVE  Wire'
<1> USE Counters DEF Inv
<1> SUFFICES ASSUME NEW i \in Sess, conn'[i].ap = "open"
             PROVE  Line(apPc, StaAt(i), conn[i].toSta, conn[i].toAp)'
  BY DEF Wire
<1>1. apPc' = apPc /\ conn[i].ap = "open"
  BY StaFrame DEF apVars
<1>2. Line(apPc, StaAt(i), conn[i].toSta, conn[i].toAp) /\ i = nSess
  BY <1>1 DEF Wire, ApOrder
<1>3. conn[i] \in ConnType /\ conn \in [Sess -> ConnType]
  BY DEF TypeOK
<1>4. /\ conn[i].toSta \in Seq({"SYNC", "INSTALL"})
      /\ conn[i].toAp \in Seq({"READY", "NOTREADY", "FAIL", "OK"})
  BY <1>3 DEF ConnType
<1>5. CASE served # i
  <2>1. conn'[i] = conn[i]
    BY <1>5, StaFrame
  <2>2. StaAt(i)' \in {"unserved", "sync"}
    BY <1>5 DEF StaAt, StaMainStep, StaSyncStep, StaAcceptPush, StaStorePending,
       StaAcceptConn, StaRecvSync, StaSendReady, StaSendNotReady,
       StaRecvInstall, StaRecvEof, StaForward, StaRecord, StaTimeout, StaDrop
  <2>3. StaAt(i) = "unserved"
    BY <1>5 DEF StaAt
  <2>4. QED
    BY <1>1, <1>2, <1>4, <2>1, <2>2, <2>3, LineSta
<1>6. CASE served = i
  <2> DEFINE q == conn[i].toSta
             r == conn[i].toAp
  <2>1. Line(apPc, staPc, q, r)
    BY <1>2, <1>6 DEF StaAt
  <2>2. SUFFICES Line(apPc, StaAt(i)', conn'[i].toSta, conn'[i].toAp)
    BY <1>1
  <2>3. ASSUME served' = served PROVE StaAt(i)' = staPc'
    BY <1>6, <2>3 DEF StaAt
  <2>4. CASE StaAcceptPush \/ StaStorePending
    <3>1. served' = served /\ staPc' = staPc
      BY <2>4 DEF StaAcceptPush, StaStorePending
    <3>2. UNCHANGED conn \/ conn' = [conn EXCEPT ![served].late = TRUE]
      BY <2>4 DEF StaAcceptPush, StaStorePending
    <3>3. conn'[i] \in {conn[i], [conn[i] EXCEPT !.late = TRUE]}
      BY <1>3, <1>6, <3>2
    <3>4. conn'[i].toSta = q /\ conn'[i].toAp = r
      BY <1>3, <3>3 DEF ConnType
    <3>5. QED
      BY <2>1, <2>3, <3>1, <3>4
  <2>5. CASE StaAcceptConn
    BY <1>2, <1>6, <2>5 DEF StaAcceptConn
  <2>6. CASE StaRecvSync
    <3>1. /\ served' = served /\ staPc = "sync" /\ staPc' = "assoc" /\ q # <<>>
          /\ conn' = [conn EXCEPT ![i].toSta = Tail(@)]
      BY <1>6, <2>6 DEF StaRecvSync
    <3>2. conn'[i].toSta = Tail(q) /\ conn'[i].toAp = r
      BY <1>3, <3>1 DEF ConnType
    <3>3. QED
      BY <1>4, <2>1, <2>3, <3>1, <3>2, LineSta
  <2>7. CASE StaSendReady
    <3>1. /\ served' = served /\ staPc = "assoc" /\ staPc' = "install"
          /\ conn' = [conn EXCEPT ![i].toAp = Append(@, "READY")]
      BY <1>6, <2>7 DEF StaSendReady
    <3>2. conn'[i].toSta = q /\ conn'[i].toAp = Append(r, "READY")
      BY <1>3, <3>1 DEF ConnType
    <3>3. QED
      BY <1>4, <2>1, <2>3, <3>1, <3>2, LineSta
  <2>8. CASE StaSendNotReady
    <3>1. /\ served' = served /\ staPc = "assoc" /\ staPc' = "accept"
          /\ conn' = [conn EXCEPT ![i].toAp = Append(@, "NOTREADY"),
                                  ![i].staOpen = FALSE]
      BY <1>6, <2>8 DEF StaSendNotReady
    <3>2. conn'[i].toSta = q /\ conn'[i].toAp = Append(r, "NOTREADY")
      BY <1>3, <3>1 DEF ConnType
    <3>3. QED
      BY <1>4, <2>1, <2>3, <3>1, <3>2, LineSta
  <2>9. CASE StaRecvInstall
    <3>1. served' = served /\ staPc = "install" /\ q # <<>>
      BY <1>6, <2>9 DEF StaRecvInstall
    <3>2. CASE /\ staPc' = "forward"
               /\ conn' = [conn EXCEPT ![i].toSta = Tail(@)]
      <4>1. conn'[i].toSta = Tail(q) /\ conn'[i].toAp = r
        BY <1>3, <3>2 DEF ConnType
      <4>2. QED
        BY <1>4, <2>1, <2>3, <3>1, <3>2, <4>1, LineSta
    <3>3. CASE /\ staPc' = "failing"
               /\ conn' = [conn EXCEPT ![i].toSta = Tail(@),
                                       ![i].toAp = Append(@, "NOTREADY")]
      <4>1. conn'[i].toSta = Tail(q) /\ conn'[i].toAp = Append(r, "NOTREADY")
        BY <1>3, <3>3 DEF ConnType
      <4>2. QED
        BY <1>4, <2>1, <2>3, <3>1, <3>3, <4>1, LineSta
    <3>4. QED
      BY <1>6, <2>9, <3>2, <3>3 DEF StaRecvInstall
  <2>10. CASE StaRecvEof
    BY <1>1, <1>6, <2>10 DEF StaRecvEof
  <2>11. CASE StaForward
    <3>1. served' = served /\ staPc = "forward"
      BY <2>11 DEF StaForward
    <3>2. CASE staPc' = "record" /\ UNCHANGED conn
      BY <1>4, <2>1, <2>3, <3>1, <3>2, LineSta
    <3>3. CASE /\ staPc' = "failing"
               /\ conn' = [conn EXCEPT ![i].toAp = Append(@, "FAIL")]
      <4>1. conn'[i].toSta = q /\ conn'[i].toAp = Append(r, "FAIL")
        BY <1>3, <3>3 DEF ConnType
      <4>2. QED
        BY <1>4, <2>1, <2>3, <3>1, <3>3, <4>1, LineSta
    <3>4. QED
      BY <1>6, <2>11, <3>2, <3>3 DEF StaForward
  <2>12. CASE StaRecord
    <3>1. /\ served' = served /\ staPc = "record" /\ staPc' = "accept"
          /\ conn' = [conn EXCEPT ![i].toAp = Append(@, "OK"),
                                  ![i].okKey = pending,
                                  ![i].staOpen = FALSE]
      BY <1>1, <1>6, <2>12 DEF StaRecord
    <3>2. conn'[i].toSta = q /\ conn'[i].toAp = Append(r, "OK")
      BY <1>3, <3>1 DEF ConnType
    <3>3. QED
      BY <1>4, <2>1, <2>3, <3>1, <3>2, LineSta
  <2>13. CASE StaTimeout
    BY <1>4, <2>1, <2>3, <2>13, LineSta DEF StaTimeout
  <2>14. CASE StaDrop
    <3>1. /\ served' = served /\ staPc' = "accept"
          /\ conn' = [conn EXCEPT ![i].staOpen = FALSE]
      BY <1>6, <2>14 DEF StaDrop
    <3>2. conn'[i].toSta = q /\ conn'[i].toAp = r
      BY <1>3, <3>1 DEF ConnType
    <3>3. QED
      BY <1>4, <2>1, <2>3, <3>1, <3>2, LineSta
  <2>15. QED
    BY <2>4, <2>5, <2>6, <2>7, <2>8, <2>9, <2>10, <2>11, <2>12, <2>13, <2>14
       DEF StaMainStep, StaSyncStep
<1>7. QED
  BY <1>5, <1>6

LEMMA WireStep ==
  ASSUME Inv, Wire, [Next]_vars
  PROVE  Wire'
<1>1. CASE ApStep
  BY <1>1, WireAp
<1>2. CASE StaMainStep \/ StaSyncStep
  BY <1>2, WireSta
<1>3. CASE \/ LifiStep \/ WifiStep
           \/ \E s \in Side : ControlDrop(s) \/ WifiHandlePtk(s)
  BY <1>3, OtherFrame DEF Wire, StaAt
<1>4. CASE UNCHANGED vars
  BY <1>4 DEF Wire, StaAt, vars, apVars, staVars
<1>5. QED
  BY <1>1, <1>2, <1>3, <1>4 DEF Next, ReceiverStep

LEMMA WireHolds == Spec => []Wire
<1>1. Init => Wire
  BY DEF Init, Wire, Unopened
<1>2. Inv /\ Wire /\ [Next]_vars => Wire'
  BY WireStep
<1>3. QED
  BY <1>1, <1>2, Invariance, PTL DEF Spec

\* Neither direction of a live connection ever holds two messages, which is
\* what lets both receivers compare the whole of one recv with one word
\* (ptk_receiver_ap.py:214, ptk_receiver_sta.py:206).
THEOREM NeverTwoMessages == Spec => []OneMessageInFlight
<1>1. Wire => OneMessageInFlight
  BY DEF Wire, Line, OneMessageInFlight
<1>2. QED
  BY <1>1, WireHolds, PTL

-----------------------------------------------------------------------------
(* SyncAgreement.                                                          *)

\* The key side s has once its daemon has read what it was given.
Final(s) == IF inbox[s] = <<>> THEN wkey[s] ELSE inbox[s][Len(inbox[s])]

Delivered ==
    calm /\ nSess > 0 =>
        /\ conn[nSess].okKey # NoKey => Final("sta") = conn[nSess].okKey
        /\ staPc = "record" /\ served = nSess => Final("sta") = pending
        /\ conn[nSess].ap = "synced" => Final("ap") = conn[nSess].key

LEMMA LastOf ==
  ASSUME NEW S, NEW q \in Seq(S)
  PROVE  /\ q # <<>> /\ Tail(q) = <<>> => q[Len(q)] = Head(q)
         /\ q # <<>> /\ Tail(q) # <<>> => Tail(q)[Len(Tail(q))] = q[Len(q)]
         /\ \A m \in S : /\ Append(q, m) # <<>>
                         /\ Append(q, m)[Len(Append(q, m))] = m
<1>1. ASSUME q # <<>> PROVE Tail(q) \in Seq(S) /\ Len(Tail(q)) = Len(q) - 1
  BY <1>1
<1>2. ASSUME q # <<>>, Tail(q) = <<>> PROVE q[Len(q)] = Head(q)
  <2>1. Len(q) = 1
    <3>1. Len(q) \in Nat
      OBVIOUS
    <3>2. Len(Tail(q)) = 0
      <4>1. \A t : t = <<>> => Len(t) = 0
        OBVIOUS
      <4>2. QED
        BY <1>2, <4>1
    <3>3. QED
      BY <1>1, <1>2, <3>1, <3>2
  <2>2. QED
    BY <1>2, <2>1
<1>3. ASSUME q # <<>>, Tail(q) # <<>>
      PROVE  Tail(q)[Len(Tail(q))] = q[Len(q)]
  <2>1. Len(Tail(q)) \in DOMAIN Tail(q)
    BY <1>1, <1>3
  <2>2. Tail(q)[Len(Tail(q))] = q[Len(Tail(q)) + 1]
    BY <1>3, <2>1, TailElements
  <2>3. Len(Tail(q)) + 1 = Len(q)
    BY <1>1, <1>3
  <2>4. QED
    BY <2>2, <2>3
<1>4. ASSUME NEW m \in S
      PROVE  /\ Append(q, m) # <<>>
             /\ Append(q, m)[Len(Append(q, m))] = m
  BY <1>4
<1>5. QED
  BY <1>2, <1>3, <1>4

\* A payload delivered is the last one of its side.
LEMMA FinalSend ==
  ASSUME WifiTypeOK, NEW s \in Side, NEW k \in PTK, NEW o,
         SendPtk(s, k, TRUE, o)
  PROVE  Final(s)' = k /\ \A t \in Side : t # s => Final(t)' = Final(t)
<1>1. inbox[s] \in Seq(PTK)
  BY DEF WifiTypeOK
<1>2. inbox' = [inbox EXCEPT ![s] = Append(@, k)] /\ wkey' = wkey
  BY DEF SendPtk
<1>3. inbox'[s] = Append(inbox[s], k)
  BY <1>2 DEF WifiTypeOK
<1>4. Final(s)' = k
  BY <1>1, <1>3, LastOf DEF Final
<1>5. \A t \in Side : t # s => inbox'[t] = inbox[t]
  BY <1>2 DEF WifiTypeOK
<1>6. QED
  BY <1>2, <1>4, <1>5 DEF Final

\* A payload that the driver takes brings the key nearer to the last one.
LEMMA FinalHandle ==
  ASSUME WifiTypeOK, NEW s \in Side, HandlePtk(s), wkey'[s] = Head(inbox[s])
  PROVE  \A t \in Side : Final(t)' = Final(t)
<1>1. inbox[s] \in Seq(PTK) /\ inbox[s] # <<>>
  BY DEF WifiTypeOK, HandlePtk
<1>2. inbox'[s] = Tail(inbox[s])
  BY DEF WifiTypeOK, HandlePtk
<1>3. Final(s)' = Final(s)
  <2>1. CASE Tail(inbox[s]) = <<>>
    <3>1. inbox[s][Len(inbox[s])] = Head(inbox[s])
      BY <1>1, <2>1, LastOf
    <3>2. QED
      BY <1>1, <1>2, <2>1, <3>1 DEF Final
  <2>2. CASE Tail(inbox[s]) # <<>>
    <3>1. Tail(inbox[s])[Len(Tail(inbox[s]))] = inbox[s][Len(inbox[s])]
      BY <1>1, <2>2, LastOf
    <3>2. QED
      BY <1>1, <1>2, <2>2, <3>1 DEF Final
  <2>3. QED
    BY <2>1, <2>2
<1>4. \A t \in Side : t # s => inbox'[t] = inbox[t] /\ wkey'[t] = wkey[t]
  BY DEF WifiTypeOK, HandlePtk
<1>5. QED
  BY <1>3, <1>4 DEF Final

\* The steps that leave the WiFi link undisturbed, and what they do to it.
LEMMA CalmSteps ==
  ASSUME Inv, Next, calm'
  PROVE  \/ ApConnect
         \/ calm /\ ApForward /\ Final("ap")' = apLast
                 /\ Final("sta")' = Final("sta")
         \/ calm /\ StaForward /\ Final("sta")' = pending
                 /\ Final("ap")' = Final("ap")
         \/ /\ calm /\ ~ApForward /\ ~StaForward /\ ~ApConnect
            /\ \A s \in Side : Final(s)' = Final(s)
<1>1. WifiTypeOK
  BY DEF Inv, TypeOK
<1>2. CASE ApForward
  <2>1. PICK d \in BOOLEAN, o \in BOOLEAN :
           SendPtk("ap", apLast, d, o) /\ calm' = (calm /\ d)
    BY <1>2 DEF ApForward
  <2>2. apLast \in PTK
    BY <1>2 DEF ApForward, Inv, Grounded
  <2>3. calm /\ d = TRUE
    BY <2>1
  <2>4. SendPtk("ap", apLast, TRUE, o)
    BY <2>1, <2>3
  <2>5. "ap" \in Side /\ "sta" \in Side /\ "ap" # "sta"
    BY DEF Side
  <2>6. Final("ap")' = apLast /\ Final("sta")' = Final("sta")
    BY <1>1, <2>2, <2>4, <2>5, FinalSend
  <2>7. QED
    BY <1>2, <2>3, <2>6
<1>3. CASE StaForward
  <2>1. PICK d \in BOOLEAN, o \in BOOLEAN :
           SendPtk("sta", pending, d, o) /\ calm' = (calm /\ d)
    BY <1>3 DEF StaForward
  <2>2. pending \in PTK
    BY <1>3 DEF StaForward, Inv, Grounded
  <2>3. calm /\ d = TRUE
    BY <2>1
  <2>4. SendPtk("sta", pending, TRUE, o)
    BY <2>1, <2>3
  <2>5. "ap" \in Side /\ "sta" \in Side /\ "ap" # "sta"
    BY DEF Side
  <2>6. Final("sta")' = pending /\ Final("ap")' = Final("ap")
    BY <1>1, <2>2, <2>4, <2>5, FinalSend
  <2>7. QED
    BY <1>3, <2>3, <2>6
<1>4. CASE ApStep /\ ~ApForward /\ ~ApConnect
  <2>1. UNCHANGED <<calm, wifiVars>>
    BY <1>4 DEF ApStep, ApAcceptPush, ApConnectFail, ApRecvReady, ApRecvOk,
       ApReceive, ApSendInstall, ApSyncFail, ApDrop
  <2>2. ~StaForward
    BY <1>4, ApFrame DEF StaForward, staVars, Inv
  <2>3. QED
    BY <1>4, <2>1, <2>2 DEF Final, wifiVars
<1>5. CASE StaMainStep \/ StaSyncStep
  <2>1. CASE ~StaForward
    <3>1. UNCHANGED <<calm, wifiVars, apVars>>
      BY <1>5, <2>1 DEF StaMainStep, StaSyncStep, StaAcceptPush,
         StaStorePending, StaAcceptConn, StaRecvSync, StaSendReady,
         StaSendNotReady, StaRecvInstall, StaRecvEof, StaRecord, StaTimeout,
         StaDrop, staRest
    <3>2. ~ApForward /\ ~ApConnect
      BY <3>1 DEF ApForward, ApConnect, apVars
    <3>3. QED
      BY <2>1, <3>1, <3>2 DEF Final, wifiVars
  <2>2. QED
    BY <1>3, <2>1
<1>6. CASE LifiStep
  <2>1. UNCHANGED <<calm, wifiVars, apPc, staPc>>
    BY <1>6 DEF LifiStep, LifiStaDerive, LifiApDerive, apVars, staVars
  <2>2. ~ApForward /\ ~ApConnect /\ ~StaForward
    BY <2>1 DEF ApForward, ApConnect, StaForward
  <2>3. QED
    BY <2>1, <2>2 DEF Final, wifiVars
<1>7. CASE WifiStep \/ \E s \in Side : ControlDrop(s)
  BY <1>7 DEF WifiStep, ControlDrop
<1>8. CASE \E s \in Side : WifiHandlePtk(s)
  <2>1. PICK s \in Side : WifiHandlePtk(s)
    BY <1>8
  <2>2. HandlePtk(s) /\ calm /\ wkey'[s] = Head(inbox[s])
    BY <2>1 DEF WifiHandlePtk
  <2>3. UNCHANGED <<apPc, staPc>>
    BY <2>1 DEF WifiHandlePtk, wifiRest, apVars, staVars
  <2>4. ~ApForward /\ ~ApConnect /\ ~StaForward
    BY <2>3 DEF ApForward, ApConnect, StaForward
  <2>5. QED
    BY <1>1, <2>2, <2>4, FinalHandle
<1>9. QED
  BY <1>2, <1>3, <1>4, <1>5, <1>6, <1>7, <1>8, Actors DEF Next, ReceiverStep

LEMMA DeliveredStep ==
  ASSUME Inv, [Next]_vars, Delivered
  PROVE  Delivered'
<1> USE Counters
<1>0. /\ TypeOK /\ Grounded /\ ApOrder /\ StaOrder /\ Answers
      /\ nSess \in Nat /\ served \in Nat
  BY DEF Inv
<1>1. CASE UNCHANGED vars
  BY <1>0, <1>1 DEF Delivered, Final, vars, apVars, staVars, wifiVars
<1> SUFFICES ASSUME Next, calm', nSess' > 0
             PROVE  /\ conn'[nSess'].okKey # NoKey
                       => Final("sta")' = conn'[nSess'].okKey
                    /\ staPc' = "record" /\ served' = nSess'
                       => Final("sta")' = pending'
                    /\ conn'[nSess'].ap = "synced"
                       => Final("ap")' = conn'[nSess'].key
  BY <1>0, <1>1 DEF Delivered
<1>2. CASE ApConnect
  <2>1. /\ conn'[nSess'].okKey = NoKey /\ conn'[nSess'].ap = "open"
        /\ served' = served /\ nSess' = nSess + 1
    BY <1>0, <1>2, ApOpenFrame DEF staVars
  <2>2. served' # nSess'
    BY <1>0, <2>1 DEF StaOrder
  <2>3. QED
    BY <1>0, <2>1, <2>2
<1>3. CASE ApStep /\ ~ApConnect
  <2>1. UNCHANGED <<nSess, served, staPc, pending>>
    BY <1>0, <1>3, ApFrame DEF staVars
  <2>2. nSess \in Sess
    BY <1>0, <2>1
  <2>3. /\ conn'[nSess].okKey = conn[nSess].okKey
        /\ conn'[nSess].key = conn[nSess].key
    BY <1>0, <1>3, <2>2, ApFrame
  <2>a. ~StaForward
    BY <1>0, <2>1 DEF StaForward
  <2>4. calm /\ Final("sta")' = Final("sta")
    BY <1>3, <2>a, CalmSteps DEF Side
  <2>5. CASE ApForward
    <3>1. Final("ap")' = apLast
      BY <1>3, <2>a, <2>5, CalmSteps
    <3>2. conn[nSess].key = apLast
      BY <1>0, <2>5 DEF ApForward, ApOrder, ApActive
    <3>3. QED
      BY <1>0, <2>1, <2>2, <2>3, <2>4, <3>1, <3>2 DEF Delivered
  <2>6. CASE ~ApForward
    <3>1. Final("ap")' = Final("ap")
      BY <1>3, <2>a, <2>6, CalmSteps DEF Side
    <3>2. conn'[nSess].ap = "synced" => conn[nSess].ap = "synced"
      <4>1. CASE ApRecvReady \/ ApRecvOk
        <5>1. conn' = [conn EXCEPT ![nSess].toAp = Tail(@)]
          BY <1>0, <4>1 DEF ApRecvReady, ApRecvOk, ApReceive
        <5>2. QED
          BY <1>0, <2>2, <5>1 DEF TypeOK, ConnType
      <4>2. CASE ApSendInstall
        BY <1>0, <2>2, <4>2 DEF ApSendInstall, TypeOK, ConnType
      <4>3. CASE ApSyncFail
        BY <1>0, <2>2, <4>3 DEF ApSyncFail, TypeOK, ConnType
      <4>4. CASE ApAcceptPush \/ ApConnectFail \/ ApDrop
        BY <1>0, <4>4 DEF ApAcceptPush, ApConnectFail, ApDrop
      <4>5. QED
        BY <1>0, <1>3, <2>6, <4>1, <4>2, <4>3, <4>4 DEF ApStep
    <3>3. QED
      BY <1>0, <2>1, <2>2, <2>3, <2>4, <3>1, <3>2 DEF Delivered
  <2>7. QED
    BY <1>0, <2>5, <2>6
<1>4. CASE StaMainStep \/ StaSyncStep
  <2>1. UNCHANGED nSess /\ nSess \in Sess
    BY <1>0, <1>4, StaFrame DEF apVars
  <2>2. /\ conn'[nSess].key = conn[nSess].key
        /\ conn'[nSess].ap = conn[nSess].ap
    BY <1>0, <1>4, <2>1, StaFrame
  <2>a. ~ApForward /\ ~ApConnect
    BY <1>0, <1>4, StaFrame DEF ApForward, ApConnect, apVars
  <2>3. calm /\ Final("ap")' = Final("ap")
    BY <2>a, CalmSteps DEF Side
  <2>4. conn[nSess].ap = "synced" => Final("ap") = conn[nSess].key
    BY <1>0, <2>1, <2>3 DEF Delivered
  <2>5. CASE StaForward
    <3>1. Final("sta")' = pending /\ pending' = pending /\ served \in Nat
      <4>1. Final("sta")' = pending
        BY <2>5, <2>a, CalmSteps
      <4>2. pending' = pending
        BY <1>0, <2>5 DEF StaForward
      <4>3. QED
        BY <1>0, <4>1, <4>2
    <3>2. conn[nSess].okKey = NoKey
      BY <1>0, <2>1, <2>5 DEF StaForward, StaOrder
    <3>3. conn'[nSess].okKey = conn[nSess].okKey
      BY <1>0, <2>1, <2>5, StaFrame DEF StaSyncStep, StaForward, StaRecord
    <3>4. QED
      BY <1>0, <2>1, <2>2, <2>3, <2>4, <3>1, <3>2, <3>3
  <2>6. CASE ~StaForward
    <3>1. Final("sta")' = Final("sta")
      BY <2>6, <2>a, CalmSteps DEF Side
    <3>2. staPc' = "record" =>
             staPc = "record" /\ UNCHANGED <<served, pending>>
      BY <1>0, <1>4, <2>6 DEF StaMainStep, StaSyncStep, StaAcceptPush,
         StaStorePending, StaAcceptConn, StaRecvSync, StaSendReady,
         StaSendNotReady, StaRecvInstall, StaRecvEof, StaRecord, StaTimeout,
         StaDrop, Locked
    <3>3. \/ conn'[nSess].okKey = conn[nSess].okKey
          \/ StaRecord /\ nSess = served /\ conn'[nSess].okKey = pending
      BY <1>0, <1>4, <2>1, StaReplies
    <3>4. conn'[nSess].okKey # NoKey => Final("sta") = conn'[nSess].okKey
      BY <1>0, <2>1, <2>3, <3>3 DEF Delivered, StaRecord
    <3>5. staPc = "record" /\ served = nSess => Final("sta") = pending
      BY <1>0, <2>1, <2>3 DEF Delivered
    <3>6. QED
      BY <1>0, <2>1, <2>2, <2>3, <2>4, <3>1, <3>2, <3>4, <3>5
  <2>7. QED
    BY <1>0, <2>5, <2>6
<1>5. CASE \/ LifiStep \/ WifiStep
           \/ \E s \in Side : ControlDrop(s) \/ WifiHandlePtk(s)
  <2>1. UNCHANGED <<conn, apPc, nSess, pending, staPc, served>>
    BY <1>0, <1>5, OtherFrame
  <2>2. ~ApForward /\ ~StaForward /\ ~ApConnect
    BY <1>0, <2>1 DEF ApForward, StaForward, ApConnect
  <2>3. calm /\ Final("ap")' = Final("ap") /\ Final("sta")' = Final("sta")
    BY <2>2, CalmSteps DEF Side
  <2>4. QED
    BY <1>0, <2>1, <2>3 DEF Delivered
<1>6. QED
  BY <1>0, <1>2, <1>3, <1>4, <1>5, Actors

\* What a sync that succeeds promises: both WiFi daemons hold the PTK that the
\* AP proposed, as sync_with_sta and ptk_sync_server intend.  The two payloads
\* are the last that either daemon was given, and the second was sent because
\* the STA had answered for the first.
THEOREM SyncsAgree == Spec => []SyncAgreement
<1>1. Init => Delivered
  BY DEF Init, Delivered
<1>2. Inv /\ Delivered /\ [Next]_vars => Delivered'
  BY DeliveredStep
<1>3. Inv /\ Delivered => SyncAgreement
  <2> SUFFICES ASSUME Inv, Delivered, nSess > 0, conn[nSess].ap = "synced",
                      ~conn[nSess].late, calm, Drained
               PROVE  \A s \in Side : wkey[s] = conn[nSess].key
    BY DEF SyncAgreement
  <2>1. nSess \in Sess
    BY Counters DEF Inv
  <2>2. conn[nSess].okKey = conn[nSess].key /\ conn[nSess].okKey # NoKey
    BY <2>1 DEF Inv, Answers, SessionAgreement
  <2>3. Final("ap") = wkey["ap"] /\ Final("sta") = wkey["sta"]
    BY DEF Drained, Final, Side
  <2>4. wkey["sta"] = conn[nSess].key /\ wkey["ap"] = conn[nSess].key
    BY <2>2, <2>3 DEF Delivered
  <2>5. QED
    BY <2>4 DEF Side
<1>4. QED
  BY <1>1, <1>2, <1>3, Invariance, PTL DEF Spec

-----------------------------------------------------------------------------
(* EachPtkOnce and LatestInstalled.                                        *)

\* What the AP receiver took last, what waits for it, and what hostapd derived
\* last, in the order in which they were derived.
LaneOf(q, last, new) ==
    [i \in 0 .. Len(q) + 1 |->
        IF i = 0 THEN last ELSE IF i <= Len(q) THEN q[i] ELSE new]

Lane == LaneOf(apQ, apLast, cur["ap"])

\* A PTK that another has followed does not come again.
Grouped(f, n) ==
    \A i, j, k \in 0 .. n :
        i < j /\ j < k /\ f[i] = f[k] /\ f[i] \in PTK => f[j] \in {f[i], Short}

Once ==
    /\ Grouped(Lane, Len(apQ) + 1)
    /\ \A i \in DOMAIN Lane : Lane[i] \in PTK => Lane[i] \in used["ap"]
    /\ \A n \in 1 .. nSess :
          /\ conn[n].key \in used["ap"]
          /\ conn[n].key = apLast => n = nSess /\ apPc # "connect"
          /\ conn[n].key # apLast => \A i \in DOMAIN Lane : Lane[i] # conn[n].key
    /\ EachPtkOnce

\* Every push has reached the receiver, and when it is through with one, WiFi has
\* been given that PTK or was disturbed.
Handed ==
    /\ "push" \notin Faults => Lane[Len(apQ)] = cur["ap"]
    /\ calm => nSess > 0
    /\ calm /\ apPc = "accept" =>
          /\ conn[nSess].ap = "synced"
          /\ "disk" \notin Faults => conn[nSess].key = apLast

\* g is f with elements left out or repeated, short pushes put in, and at most a
\* new PTK x at its end; e says which element of f one of g is.
Rearranged(g, m, f, n, e, x) ==
    /\ n \in Nat /\ m \in Nat
    /\ e \in [0 .. m -> 0 .. n]
    /\ \A i, j \in 0 .. m : i <= j => e[i] <= e[j]
    /\ \A i \in 0 .. m :
          \/ g[i] = Short \/ g[i] = f[e[i]]
          \/ g[i] = x /\ \A j \in 0 .. m : j > i => g[j] = x
    /\ \A i \in 0 .. n : f[i] # x

LEMMA Regroup ==
  ASSUME NEW n, NEW m, NEW f, NEW g, NEW x, NEW e,
         Grouped(f, n), Rearranged(g, m, f, n, e, x)
  PROVE  Grouped(g, m)
<1> USE DEF Rearranged
<1> SUFFICES ASSUME NEW i \in 0 .. m, NEW j \in 0 .. m, NEW k \in 0 .. m,
                    i < j, j < k, g[i] = g[k], g[i] \in PTK,
                    g[j] # g[i], g[j] # Short
             PROVE  FALSE
  BY DEF Grouped
<1>1. g[i] # Short /\ g[k] # Short
  BY SyncAssumption
<1>2. e[i] \in 0 .. n /\ e[j] \in 0 .. n /\ e[k] \in 0 .. n
  OBVIOUS
<1>3. e[i] <= e[j] /\ e[j] <= e[k]
  <2>1. i <= j /\ j <= k
    OBVIOUS
  <2>2. QED
    BY <2>1
<1>4. g[i] # x
  <2>1. f[e[i]] # x
    BY <1>2
  <2>2. g[i] = f[e[i]] \/ g[j] = x
    BY <1>1
  <2>3. QED
    BY <2>1, <2>2
<1>5. g[i] = f[e[i]] /\ g[k] = f[e[k]]
  BY <1>1, <1>4
<1>6. g[j] = f[e[j]]
  <2>1. g[j] # x \/ g[k] = x
    OBVIOUS
  <2>2. QED
    BY <2>1, <1>4
<1>7. e[i] # e[j] /\ e[j] # e[k]
  BY <1>5, <1>6
<1>8. e[i] < e[j] /\ e[j] < e[k]
  BY <1>2, <1>3, <1>7
<1>9. f[e[j]] \in {f[e[i]], Short}
  <2>1. f[e[i]] = f[e[k]] /\ f[e[i]] \in PTK
    BY <1>5
  <2>2. QED
    BY <1>2, <1>8, <2>1 DEF Grouped
<1>10. QED
  BY <1>5, <1>6, <1>9

LEMMA LaneFacts ==
  ASSUME NEW q \in Seq(Push), NEW last, NEW new
  PROVE  /\ Len(q) \in Nat
         /\ DOMAIN LaneOf(q, last, new) = 0 .. Len(q) + 1
         /\ LaneOf(q, last, new)[0] = last
         /\ \A i \in 1 .. Len(q) : LaneOf(q, last, new)[i] = q[i]
         /\ LaneOf(q, last, new)[Len(q) + 1] = new
  BY DEF LaneOf

\* A PTK that hostapd derives goes to the end of the lane.
LEMMA LaneGrows ==
  ASSUME TypeOK, NEW k \in PTK, LifiApDerive(k)
  PROVE  /\ apQ \in Seq(Push) /\ apQ' \in Seq(Push) /\ Len(apQ') \in Nat
         /\ Len(apQ) \in Nat /\ Len(apQ) <= Len(apQ')
         /\ \A i \in 0 .. Len(apQ) : Lane'[i] = Lane[i]
         /\ \A i \in Len(apQ) + 1 .. Len(apQ') + 1 : Lane'[i] \in {k, Short}
         /\ Lane'[Len(apQ') + 1] = k
<1>1. apQ \in Seq(Push) /\ "ap" \in DOMAIN cur
  BY DEF TypeOK, Side
<1>2. apQ' \in {apQ, Append(apQ, k), Append(apQ, Short)}
  BY DEF LifiApDerive, PushTo
<1>3. apLast' = apLast /\ cur'["ap"] = k
  BY <1>1 DEF LifiApDerive, Derive
<1>4. Lane' = LaneOf(apQ', apLast, k)
  BY <1>3 DEF Lane
<1>5. k \in Push /\ Short \in Push
  BY DEF Push
<1>6. apQ' \in Seq(Push)
  BY <1>1, <1>2, <1>5
<1>7. Len(apQ) \in Nat /\ Len(apQ') \in Nat /\ Len(apQ) <= Len(apQ')
  BY <1>1, <1>2, <1>5
<1>8. ASSUME NEW i \in 0 .. Len(apQ) PROVE Lane'[i] = Lane[i]
  <2>1. CASE i = 0
    BY <1>1, <1>4, <1>6, <2>1, LaneFacts DEF Lane
  <2>2. CASE i # 0
    <3>1. i \in 1 .. Len(apQ) /\ i \in 1 .. Len(apQ')
      BY <1>7, <2>2
    <3>2. apQ'[i] = apQ[i]
      BY <1>1, <1>2, <1>5, <3>1
    <3>3. Lane[i] = apQ[i] /\ Lane'[i] = apQ'[i]
      BY <1>1, <1>4, <1>6, <3>1, LaneFacts DEF Lane
    <3>4. QED
      BY <3>2, <3>3
  <2>3. QED
    BY <2>1, <2>2
<1>9. Lane'[Len(apQ') + 1] = k
  BY <1>4, <1>6, LaneFacts
<1>10. ASSUME NEW i \in Len(apQ) + 1 .. Len(apQ') + 1 PROVE Lane'[i] \in {k, Short}
  <2>1. CASE i = Len(apQ') + 1
    BY <1>9, <2>1
  <2>2. CASE i # Len(apQ') + 1
    <3>1. i \in 1 .. Len(apQ') /\ i = Len(apQ) + 1
      BY <1>1, <1>2, <1>5, <1>7, <2>2
    <3>2. apQ'[i] \in {k, Short}
      BY <1>1, <1>2, <1>5, <1>7, <3>1
    <3>3. QED
      BY <1>4, <1>6, <3>1, <3>2, LaneFacts
  <2>3. QED
    BY <2>1, <2>2
<1>11. QED
  BY <1>1, <1>6, <1>7, <1>8, <1>9, <1>10

\* Every PTK in the lane or in a connection has been derived.
LEMMA OnceFacts ==
  ASSUME Inv, Once
  PROVE  /\ apQ \in Seq(Push) /\ Len(apQ) \in Nat
         /\ DOMAIN Lane = 0 .. Len(apQ) + 1
         /\ Lane[0] = apLast /\ Lane[Len(apQ) + 1] = cur["ap"]
         /\ nSess \in Nat /\ 1 .. nSess \subseteq Sess
         /\ used["ap"] \subseteq PTK
         /\ \A n \in 1 .. nSess : conn[n].key \in PTK
         /\ \A i \in 0 .. Len(apQ) + 1 :
               Lane[i] \in PTK => Lane[i] \in used["ap"]
<1>1. apQ \in Seq(Push) /\ used["ap"] \subseteq PTK /\ nSess \in 0 .. MaxSess
  BY DEF Inv, TypeOK, Side
<1>2. nSess \in Nat /\ 1 .. nSess \subseteq Sess
  BY <1>1, SyncAssumption DEF Sess
<1>3. /\ Len(apQ) \in Nat /\ DOMAIN Lane = 0 .. Len(apQ) + 1
      /\ Lane[0] = apLast /\ Lane[Len(apQ) + 1] = cur["ap"]
  BY <1>1, LaneFacts DEF Lane
<1>4. /\ \A n \in 1 .. nSess : conn[n].key \in PTK
      /\ \A i \in 0 .. Len(apQ) + 1 : Lane[i] \in PTK => Lane[i] \in used["ap"]
  BY <1>1, <1>3 DEF Once
<1>5. QED
  BY <1>1, <1>2, <1>3, <1>4

LEMMA OnceDerive ==
  ASSUME Inv, Once, NEW k \in PTK, LifiApDerive(k), TypeOK'
  PROVE  Once'
<1> DEFINE n == Len(apQ) + 1
           m == Len(apQ') + 1
           e == [i \in 0 .. m |-> IF i < n THEN i ELSE n]
<1>1. TypeOK
  BY DEF Inv
<1>2. /\ n \in Nat /\ m \in Nat /\ n <= m /\ n > 0
      /\ \A i \in 0 .. m : i < n => Lane'[i] = Lane[i]
      /\ \A i \in 0 .. m : i >= n => Lane'[i] \in {k, Short}
      /\ Lane'[m] = k
  BY <1>1, LaneGrows
<1>3. DOMAIN Lane' = 0 .. m /\ DOMAIN Lane = 0 .. n
  <2>1. apQ' \in Seq(Push)
    BY <1>1, LaneGrows
  <2>2. QED
    BY <2>1, OnceFacts, LaneFacts DEF Lane
<1>4. /\ UNCHANGED <<conn, nSess, apLast, apPc>>
      /\ k = cur["ap"] \/ k \notin used["ap"]
      /\ used'["ap"] = used["ap"] \cup {k}
  <2>1. "ap" \in DOMAIN used
    BY <1>1 DEF TypeOK, Side
  <2>2. QED
    BY <2>1 DEF LifiApDerive, Derive
<1>5. Lane[n] = cur["ap"]
  BY OnceFacts
<1>6. Grouped(Lane, n)
  BY DEF Once
<1>7. /\ e \in [0 .. m -> 0 .. n]
      /\ \A i, j \in 0 .. m : i <= j => e[i] <= e[j]
      /\ \A i \in 0 .. m : i < n => e[i] = i
      /\ \A i \in 0 .. m : i >= n => e[i] = n
  <2> HIDE DEF n, m
  <2>1. QED
    BY <1>2
<1> HIDE DEF n, m, e
<1>8. Grouped(Lane', m)
  <2>1. CASE k = cur["ap"]
    <3>1. \A i \in 0 .. m :
             \/ Lane'[i] = Short \/ Lane'[i] = Lane[e[i]]
             \/ Lane'[i] = Default /\ \A j \in 0 .. m : j > i => Lane'[j] = Default
      BY <1>2, <1>5, <1>7, <2>1
    <3>2. \A i \in 0 .. n : Lane[i] # Default
      <4>1. \A i \in 0 .. n : Lane[i] \in Opt(PTK) \cup {Short}
        <5>1. apQ \in Seq(Push) /\ apLast \in Opt(PTK) /\ cur["ap"] \in Opt(PTK)
          BY <1>1 DEF TypeOK, Side
        <5>2. QED
          BY <5>1 DEF Lane, LaneOf, Push, Opt, n
      <4>2. QED
        BY <4>1, KeyAssumption, SyncAssumption DEF Opt
    <3>3. QED
      <4>1. Rearranged(Lane', m, Lane, n, e, Default)
        BY <1>2, <1>7, <3>1, <3>2 DEF Rearranged
      <4>2. QED
        BY <1>6, <4>1, Regroup
  <2>2. CASE k \notin used["ap"]
    <3>1. \A i \in 0 .. n : Lane[i] # k
      <4>1. \A i \in 0 .. n : Lane[i] \in PTK => Lane[i] \in used["ap"]
        BY OnceFacts DEF n
      <4>2. QED
        BY <2>2, <4>1
    <3>2. \A i \in 0 .. m :
             \/ Lane'[i] = Short \/ Lane'[i] = Lane[e[i]]
             \/ Lane'[i] = k /\ \A j \in 0 .. m : j > i => Lane'[j] = k
      <4> SUFFICES ASSUME NEW i \in 0 .. m, i >= n, Lane'[i] = k,
                          NEW j \in 0 .. m, j > i
                   PROVE  Lane'[j] = k
        BY <1>2, <1>7
      <4>1. m <= n + 1
        <5>1. Len(apQ') <= Len(apQ) + 1
          <6>1. apQ' \in {apQ, Append(apQ, k), Append(apQ, Short)}
            BY DEF LifiApDerive, PushTo
          <6>2. apQ \in Seq(Push) /\ k \in Push /\ Short \in Push
            BY <1>1 DEF TypeOK, Push
          <6>3. QED
            BY <6>1, <6>2
        <5>2. QED
          BY <5>1, <1>1, LaneGrows DEF n, m
      <4>2. j = m
        BY <1>2, <4>1
      <4>3. QED
        BY <1>2, <4>2
    <3>3. QED
      <4>1. Rearranged(Lane', m, Lane, n, e, k)
        BY <1>2, <1>7, <3>1, <3>2 DEF Rearranged
      <4>2. QED
        BY <1>6, <4>1, Regroup
  <2>3. QED
    BY <1>4, <2>1, <2>2
<1>9. \A i \in 0 .. m : Lane'[i] \in PTK => Lane'[i] \in used'["ap"]
  <2>1. \A i \in 0 .. n : Lane[i] \in PTK => Lane[i] \in used["ap"]
    BY OnceFacts DEF n
  <2>2. QED
    BY <1>2, <1>4, <2>1, SyncAssumption
<1>10. ASSUME NEW c \in 1 .. nSess, conn[c].key # apLast, NEW i \in 0 .. m
       PROVE  Lane'[i] # conn[c].key
  <2>1. /\ conn[c].key \in used["ap"] /\ conn[c].key \in PTK
        /\ \A j \in 0 .. n : Lane[j] # conn[c].key
    BY <1>3, <1>10, OnceFacts DEF Once
  <2>2. k # conn[c].key
    BY <1>2, <1>4, <1>5, <2>1
  <2>3. QED
    BY <1>2, <2>1, <2>2, SyncAssumption
<1>11. /\ \A c \in 1 .. nSess :
             /\ conn[c].key \in used'["ap"]
             /\ conn[c].key = apLast => c = nSess /\ apPc # "connect"
       /\ EachPtkOnce'
  BY <1>4 DEF Once, EachPtkOnce
<1>12. QED
  BY <1>3, <1>4, <1>8, <1>9, <1>10, <1>11 DEF Once, m

\* The AP receiver takes a push off the lane, or leaves it out.
LEMMA LaneShrinks ==
  ASSUME TypeOK, ApAcceptPush
  PROVE  /\ Len(apQ) \in Nat /\ Len(apQ) > 0 /\ Len(apQ') = Len(apQ) - 1
         /\ DOMAIN Lane' = 0 .. Len(apQ)
         /\ \A i \in 1 .. Len(apQ) : Lane'[i] = Lane[i + 1]
         /\ Lane'[0] = apLast' /\ Lane[0] = apLast
         /\ Lane[1] \in Push
         /\ \/ apLast' = apLast /\ Lane[1] \in {Short, apLast} /\ apPc' = "accept"
            \/ /\ apLast' = Lane[1] /\ Lane[1] \notin {Short, apLast}
               /\ \/ apPc' = "connect"
                  \/ "disk" \in Faults /\ apPc' = "accept"
         /\ UNCHANGED <<conn, nSess, cur, used, calm>>
<1>1. apQ \in Seq(Push) /\ apQ # <<>> /\ apQ' = Tail(apQ)
  BY DEF TypeOK, ApAcceptPush
<1>2. /\ Len(apQ) \in Nat /\ Len(apQ) > 0 /\ Len(apQ') = Len(apQ) - 1
      /\ apQ' \in Seq(Push) /\ Head(apQ) = apQ[1] /\ Head(apQ) \in Push
      /\ \A i \in 1 .. Len(apQ) - 1 : apQ'[i] = apQ[i + 1]
  BY <1>1
<1>3. UNCHANGED <<conn, nSess, cur, used, calm>>
  BY DEF ApAcceptPush, apRest, lifiVars
<1>a. Lane' = LaneOf(apQ', apLast', cur["ap"])
  BY <1>3 DEF Lane
<1>4. Lane[1] = Head(apQ)
  BY <1>1, <1>2, LaneFacts DEF Lane
<1>5. DOMAIN Lane' = 0 .. Len(apQ) /\ Lane'[0] = apLast' /\ Lane[0] = apLast
  <2>1. DOMAIN Lane' = 0 .. Len(apQ') + 1 /\ Lane'[0] = apLast'
    BY <1>2, <1>a, LaneFacts
  <2>2. Len(apQ') + 1 = Len(apQ)
    BY <1>2
  <2>3. Lane[0] = apLast
    BY <1>1, LaneFacts DEF Lane
  <2>4. QED
    BY <2>1, <2>2, <2>3
<1>6. ASSUME NEW i \in 1 .. Len(apQ) PROVE Lane'[i] = Lane[i + 1]
  <2>1. CASE i = Len(apQ)
    <3>1. Lane'[i] = cur["ap"]
      <4>1. Lane'[Len(apQ') + 1] = cur'["ap"]
        BY <1>2, <1>3, <1>a, LaneFacts
      <4>2. QED
        BY <1>2, <1>3, <2>1, <4>1
    <3>2. Lane[i + 1] = cur["ap"]
      BY <1>1, <2>1, LaneFacts DEF Lane
    <3>3. QED
      BY <3>1, <3>2
  <2>2. CASE i # Len(apQ)
    <3>1. i \in 1 .. Len(apQ') /\ i + 1 \in 1 .. Len(apQ)
      BY <1>2, <2>2
    <3>2. Lane'[i] = apQ'[i] /\ Lane[i + 1] = apQ[i + 1]
      <4>1. Lane'[i] = apQ'[i]
        BY <1>2, <1>a, <3>1, LaneFacts
      <4>2. Lane[i + 1] = apQ[i + 1]
        BY <1>1, <3>1, LaneFacts DEF Lane
      <4>3. QED
        BY <4>1, <4>2
    <3>3. QED
      BY <1>2, <3>1, <3>2
  <2>3. QED
    BY <2>1, <2>2
<1>7. \/ apLast' = apLast /\ Lane[1] \in {Short, apLast} /\ apPc' = "accept"
      \/ /\ apLast' = Lane[1] /\ Lane[1] \notin {Short, apLast}
         /\ \/ apPc' = "connect"
            \/ "disk" \in Faults /\ apPc' = "accept"
  BY <1>4 DEF ApAcceptPush
<1>8. QED
  BY <1>2, <1>3, <1>4, <1>5, <1>6, <1>7

LEMMA OnceAccept ==
  ASSUME Inv, Once, ApAcceptPush
  PROVE  Once'
<1> DEFINE n == Len(apQ)
           skip == apLast' = apLast
           e == [i \in 0 .. n |-> IF i = 0 /\ skip THEN 0 ELSE i + 1]
<1>1. TypeOK
  BY DEF Inv
<1>2. /\ n \in Nat /\ n > 0 /\ n = Len(apQ') + 1
      /\ DOMAIN Lane = 0 .. n + 1 /\ DOMAIN Lane' = 0 .. n
      /\ \A i \in 1 .. n : Lane'[i] = Lane[i + 1]
      /\ Lane'[0] = apLast' /\ Lane[0] = apLast
  BY <1>1, LaneShrinks, OnceFacts
<1>3. UNCHANGED <<conn, nSess, used>>
  BY <1>1, LaneShrinks
<1>4. skip => apPc' # "connect"
  BY <1>1, LaneShrinks
<1>5. ~skip => apLast' = Lane[1] /\ Lane[1] \notin {Short, apLast}
  BY <1>1, LaneShrinks
<1>6. Grouped(Lane, n + 1)
  BY DEF Once
<1>7. Grouped(Lane', n)
  <2> HIDE DEF n
  <2>1. /\ n + 1 \in Nat /\ e \in [0 .. n -> 0 .. n + 1]
        /\ \A i, j \in 0 .. n : i <= j => e[i] <= e[j]
    BY <1>2
  <2>2. \A i \in 0 .. n : Lane'[i] = Lane[e[i]]
    BY <1>2, <1>5
  <2>3. \A i \in 0 .. n + 1 : Lane[i] # Default
    <3>1. \A i \in 0 .. n + 1 : Lane[i] \in Opt(PTK) \cup {Short}
      <4>1. apQ \in Seq(Push) /\ apLast \in Opt(PTK) /\ cur["ap"] \in Opt(PTK)
        BY <1>1 DEF TypeOK, Side
      <4>2. QED
        BY <4>1 DEF Lane, LaneOf, Push, Opt, n
    <3>2. QED
      BY <3>1, KeyAssumption, SyncAssumption DEF Opt
  <2> HIDE DEF e
  <2>4. Rearranged(Lane', n, Lane, n + 1, e, Default)
    BY <1>2, <2>1, <2>2, <2>3 DEF Rearranged
  <2>5. QED
    BY <1>6, <2>4, Regroup
<1> HIDE DEF n, e
<1>8. \A i \in 0 .. n : Lane'[i] \in PTK => Lane'[i] \in used'["ap"]
  <2>1. \A i \in 0 .. n + 1 : Lane[i] \in PTK => Lane[i] \in used["ap"]
    BY OnceFacts DEF n
  <2>2. QED
    BY <1>2, <1>3, <1>5, <2>1
<1>9. ASSUME NEW c \in 1 .. nSess
      PROVE  /\ conn[c].key \in used["ap"]
             /\ conn[c].key = apLast' => c = nSess /\ apPc' # "connect"
             /\ conn[c].key # apLast' => \A i \in 0 .. n : Lane'[i] # conn[c].key
  <2>1. /\ conn[c].key \in used["ap"] /\ conn[c].key \in PTK
        /\ conn[c].key = apLast => c = nSess
        /\ conn[c].key # apLast => \A i \in 0 .. n + 1 : Lane[i] # conn[c].key
    BY <1>2, OnceFacts DEF Once
  <2>2. CASE conn[c].key # apLast
    BY <1>2, <1>4, <1>5, <2>1, <2>2
  <2>3. CASE conn[c].key = apLast /\ skip
    BY <1>4, <2>1, <2>3
  <2>4. CASE conn[c].key = apLast /\ ~skip
    <3>1. ASSUME NEW i \in 1 .. n PROVE Lane[i + 1] # apLast
      <4>1. i + 1 \in 0 .. n + 1 /\ 0 \in 0 .. n + 1 /\ 1 \in 0 .. n + 1
            /\ 0 < 1 /\ 1 < i + 1
        BY <1>2
      <4>2. Lane[0] = apLast /\ apLast \in PTK
        BY <1>2, <2>1, <2>4
      <4>3. Lane[1] \notin {Short, apLast}
        BY <1>5, <2>4
      <4>4. QED
        BY <1>6, <4>1, <4>2, <4>3 DEF Grouped
    <3>2. \A i \in 0 .. n : Lane'[i] # apLast
      BY <1>2, <1>5, <2>4, <3>1
    <3>3. QED
      BY <1>5, <2>1, <2>4, <3>2
  <2>5. QED
    BY <2>2, <2>3, <2>4
<1>10. EachPtkOnce'
  BY <1>3 DEF Once, EachPtkOnce
<1>11. QED
  BY <1>2, <1>3, <1>7, <1>8, <1>9, <1>10 DEF Once

LEMMA OnceConnect ==
  ASSUME Inv, Once, ApConnect
  PROVE  Once'
<1>1. TypeOK /\ Grounded
  BY DEF Inv
<1>2. /\ nSess' = nSess + 1 /\ nSess' \in Sess /\ apPc = "connect" /\ apPc' = "ready"
      /\ UNCHANGED <<cur, used, apLast>>
      /\ \A c \in Sess : c # nSess' => conn'[c] = conn[c]
      /\ conn'[nSess'].key = apLast
  BY <1>1, ApOpenFrame DEF lifiVars
<1>3. UNCHANGED <<apQ, Lane>>
  BY <1>2 DEF ApConnect, Lane
<1>4. apLast \in PTK
  BY <1>1, <1>2 DEF TypeOK, Grounded, Opt
<1>5. nSess \in Nat /\ 1 .. nSess \subseteq Sess
  BY OnceFacts
<1>6. \A c \in 1 .. nSess : conn'[c].key = conn[c].key /\ conn'[c].key # apLast
  BY <1>2, <1>5 DEF Once
<1>7. apLast \in used["ap"]
  BY <1>4, OnceFacts DEF Once
<1>8. ASSUME NEW c \in 1 .. nSess'
      PROVE  /\ conn'[c].key \in used'["ap"]
             /\ conn'[c].key = apLast' => c = nSess' /\ apPc' # "connect"
             /\ conn'[c].key # apLast' => \A i \in DOMAIN Lane : Lane[i] # conn'[c].key
  <2>1. CASE c = nSess'
    BY <1>2, <1>7, <2>1
  <2>2. CASE c # nSess'
    <3>1. c \in 1 .. nSess
      BY <1>2, <1>5, <2>2
    <3>2. QED
      BY <1>2, <1>6, <3>1 DEF Once
  <2>3. QED
    BY <2>1, <2>2
<1>9. EachPtkOnce'
  <2> SUFFICES ASSUME NEW c \in 1 .. nSess', NEW d \in 1 .. nSess',
                      conn'[c].key = conn'[d].key
               PROVE  c = d
    BY DEF EachPtkOnce
  <2>1. (c = nSess' \/ c \in 1 .. nSess) /\ (d = nSess' \/ d \in 1 .. nSess)
    BY <1>2, <1>5
  <2>2. QED
    BY <1>2, <1>6, <2>1 DEF Once, EachPtkOnce
<1>10. QED
  BY <1>2, <1>3, <1>8, <1>9 DEF Once

LEMMA OnceStep ==
  ASSUME Inv, Once, [Next]_vars
  PROVE  Once'
<1>1. TypeOK /\ Grounded
  BY DEF Inv
<1>2. ASSUME UNCHANGED <<used, apQ, cur["ap"], apLast, nSess>>,
             apPc' = "connect" => apPc = "connect",
             \A c \in Sess : conn'[c].key = conn[c].key
      PROVE  Once'
  <2>1. UNCHANGED Lane
    BY <1>2 DEF Lane
  <2>2. \A c \in 1 .. nSess : conn'[c].key = conn[c].key
    BY <1>2, OnceFacts
  <2>3. QED
    BY <1>2, <2>1, <2>2 DEF Once, EachPtkOnce
<1>3. CASE UNCHANGED vars
  BY <1>2, <1>3 DEF vars, lifiVars, apVars
<1>4. CASE ApConnect
  BY <1>4, OnceConnect
<1>5. CASE ApAcceptPush
  BY <1>5, OnceAccept
<1>6. CASE ApStep /\ ~ApConnect /\ ~ApAcceptPush
  <2>1. UNCHANGED <<apQ, apLast>> /\ (apPc' = "connect" => apPc = "connect")
    BY <1>6 DEF ApStep, ApConnectFail, ApRecvReady, ApRecvOk, ApReceive,
       ApSendInstall, ApSyncFail, ApForward, ApDrop
  <2>2. QED
    BY <1>1, <1>2, <1>6, <2>1, ApFrame DEF lifiVars
<1>7. CASE StaMainStep \/ StaSyncStep
  BY <1>1, <1>2, <1>7, StaFrame DEF lifiVars, apVars
<1>8. CASE \/ WifiStep
           \/ \E s \in Side : ControlDrop(s) \/ WifiHandlePtk(s)
  BY <1>2, <1>8 DEF WifiStep, ControlDrop, WifiHandlePtk, wifiRest, lifiVars, apVars
<1>9. CASE LifiStep
  <2>1. PICK k \in PTK : LifiStaDerive(k) \/ LifiApDerive(k)
    BY <1>9 DEF LifiStep
  <2>2. CASE LifiApDerive(k)
    <3>1. TypeOK'
      BY <1>1, <1>9, LifiType
    <3>2. QED
      BY <2>2, <3>1, OnceDerive
  <2>3. CASE LifiStaDerive(k)
    <3>1. /\ UNCHANGED <<apVars, conn>>
          /\ cur'["ap"] = cur["ap"] /\ used'["ap"] = used["ap"]
      BY <1>1, <2>3 DEF LifiStaDerive, Derive, TypeOK, Side
    <3>2. UNCHANGED Lane
      BY <3>1 DEF Lane, apVars
    <3>3. QED
      BY <3>1, <3>2 DEF Once, EachPtkOnce, apVars
  <2>4. QED
    BY <2>1, <2>2, <2>3
<1>10. QED
  BY <1>3, <1>4, <1>5, <1>6, <1>7, <1>8, <1>9, Actors

LEMMA OnceInit ==
  ASSUME Init
  PROVE  Once
<1>1. apQ = <<>> /\ apLast = NoKey /\ cur["ap"] = NoKey /\ nSess = 0
  BY DEF Init, Side
<1>2. \A i \in DOMAIN Lane : Lane[i] = NoKey
  BY <1>1 DEF Lane, LaneOf
<1>3. Grouped(Lane, Len(apQ) + 1)
  <2>1. DOMAIN Lane = 0 .. Len(apQ) + 1
    BY DEF Lane, LaneOf
  <2>2. QED
    BY <1>2, <2>1, KeyAssumption DEF Grouped
<1>4. QED
  BY <1>1, <1>2, <1>3, KeyAssumption DEF Once, EachPtkOnce

\* No PTK is synchronised twice, so no PTK goes to a WiFi driver a second time
\* while it is in use there: last_ptk_hex of ptk_receiver_ap.py.
THEOREM PtksSyncedOnce == Spec => []EachPtkOnce
<1>1. Init => Once
  BY OnceInit
<1>2. Inv /\ Once /\ [Next]_vars => Once'
  BY OnceStep
<1>3. Once => EachPtkOnce
  BY DEF Once
<1>4. QED
  BY <1>1, <1>2, <1>3, Invariance, PTL DEF Spec

\* While no push fails, the last place of the lane before its end holds what
\* hostapd derived last.
LEMMA CaughtUpStep ==
  ASSUME Inv, Handed, [Next]_vars, "push" \notin Faults
  PROVE  (Lane[Len(apQ)])' = cur'["ap"]
<1>1. TypeOK /\ Grounded /\ Lane[Len(apQ)] = cur["ap"]
  BY DEF Inv, Handed
<1>2. apQ \in Seq(Push) /\ Len(apQ) \in Nat /\ "ap" \in Side /\ "sta" \in Side
  BY <1>1 DEF TypeOK, Side
<1>3. CASE UNCHANGED <<apQ, apLast, cur["ap"]>>
  BY <1>1, <1>3 DEF Lane
<1>4. CASE ApAcceptPush
  <2>1. /\ Len(apQ) > 0 /\ Len(apQ') = Len(apQ) - 1 /\ cur' = cur
        /\ \A i \in 1 .. Len(apQ) : Lane'[i] = Lane[i + 1]
        /\ Lane'[0] = apLast'
        /\ \/ apLast' = apLast /\ Lane[1] \in {Short, apLast}
           \/ apLast' = Lane[1]
    BY <1>1, <1>4, LaneShrinks
  <2>2. CASE Len(apQ) = 1
    <3>1. Lane[1] # Short
      BY <1>1, <1>2, <2>2, SyncAssumption DEF TypeOK, Opt
    <3>2. Lane'[0] = Lane[1] /\ Len(apQ') = 0
      BY <2>1, <2>2, <3>1
    <3>3. QED
      BY <1>1, <2>1, <2>2, <3>2
  <2>3. CASE Len(apQ) # 1
    <3>1. Len(apQ') \in 1 .. Len(apQ) /\ Len(apQ') + 1 = Len(apQ)
      BY <1>2, <2>1, <2>3
    <3>2. QED
      BY <1>1, <2>1, <3>1
  <2>4. QED
    BY <2>2, <2>3
<1>5. CASE LifiStep
  <2>1. PICK k \in PTK : LifiStaDerive(k) \/ LifiApDerive(k)
    BY <1>5 DEF LifiStep
  <2>2. CASE LifiStaDerive(k)
    BY <1>1, <1>2, <1>3, <2>2 DEF LifiStaDerive, Derive, TypeOK, apVars
  <2>3. CASE LifiApDerive(k)
    <3>1. apQ' = Append(apQ, k) /\ cur'["ap"] = k /\ k \in Push
      BY <1>1, <1>2, <2>3 DEF LifiApDerive, PushTo, Derive, TypeOK, Push
    <3>2. /\ apQ' \in Seq(Push) /\ Len(apQ') \in 1 .. Len(apQ')
          /\ apQ'[Len(apQ')] = k
      BY <1>2, <3>1
    <3>3. Lane' = LaneOf(apQ', apLast', k)
      BY <3>1 DEF Lane
    <3>4. LaneOf(apQ', apLast', k)[Len(apQ')] = apQ'[Len(apQ')]
      BY <3>2, LaneFacts
    <3>5. QED
      BY <3>1, <3>2, <3>3, <3>4
  <2>4. QED
    BY <2>1, <2>2, <2>3
<1>6. CASE ApConnect
  BY <1>1, <1>3, <1>6, ApOpenFrame DEF lifiVars, ApConnect
<1>7. CASE ApStep /\ ~ApConnect /\ ~ApAcceptPush
  <2>1. UNCHANGED <<apQ, apLast>>
    BY <1>7 DEF ApStep, ApConnectFail, ApRecvReady, ApRecvOk, ApReceive,
       ApSendInstall, ApSyncFail, ApForward, ApDrop
  <2>2. QED
    BY <1>1, <1>3, <1>7, <2>1, ApFrame DEF lifiVars
<1>8. CASE StaMainStep \/ StaSyncStep
  BY <1>1, <1>3, <1>8, StaFrame DEF lifiVars, apVars
<1>9. CASE \/ WifiStep
           \/ \E s \in Side : ControlDrop(s) \/ WifiHandlePtk(s)
  BY <1>3, <1>9 DEF WifiStep, ControlDrop, WifiHandlePtk, wifiRest, lifiVars, apVars
<1>10. CASE UNCHANGED vars
  BY <1>3, <1>10 DEF vars, lifiVars, apVars
<1>11. QED
  BY <1>4, <1>5, <1>6, <1>7, <1>8, <1>9, <1>10, Actors

LEMMA HandedStep ==
  ASSUME Inv, Handed, [Next]_vars
  PROVE  Handed'
<1>1. TypeOK /\ Grounded /\ ApOrder /\ nSess \in Nat
      /\ (nSess > 0 => nSess \in Sess)
  BY Counters DEF Inv
<1>2. "push" \notin Faults => (Lane[Len(apQ)])' = cur'["ap"]
  BY CaughtUpStep
<1>3. CASE UNCHANGED vars
  BY <1>2, <1>3 DEF Handed, vars, apVars
<1> SUFFICES ASSUME Next, calm'
             PROVE  /\ nSess' > 0
                    /\ apPc' = "accept" =>
                          /\ conn'[nSess'].ap = "synced"
                          /\ "disk" \notin Faults => conn'[nSess'].key = apLast'
  BY <1>2, <1>3 DEF Handed
<1>4. CASE ApConnect
  BY <1>1, <1>4, ApOpenFrame
<1>5. ASSUME ~ApConnect PROVE calm /\ nSess > 0 /\ nSess \in Sess
  BY <1>1, <1>5, CalmSteps DEF Handed
<1>6. CASE ApForward
  <2>1. nSess \in Sess /\ conn[nSess].key = apLast
    BY <1>1, <1>6 DEF ApForward, ApOrder, ApActive
  <2>2. /\ conn'[nSess].ap = "synced" /\ conn'[nSess].key = conn[nSess].key
        /\ UNCHANGED <<nSess, apLast>>
    BY <1>1, <1>6, <2>1 DEF ApForward, TypeOK, ConnType
  <2>3. QED
    BY <1>1, <2>1, <2>2 DEF Sess
<1>7. CASE ApAcceptPush
  <2>1. ~ApConnect /\ apPc = "accept"
    BY <1>7 DEF ApAcceptPush, ApConnect
  <2>2. /\ UNCHANGED <<conn, nSess>>
        /\ apPc' = "accept" => apLast' = apLast \/ "disk" \in Faults
    BY <1>1, <1>7, LaneShrinks
  <2>3. QED
    BY <1>5, <2>1, <2>2 DEF Handed
<1>8. CASE ApStep /\ ~ApConnect /\ ~ApAcceptPush /\ ~ApForward
  <2>1. apPc' # "accept" \/ calm' = FALSE
    BY <1>8 DEF ApStep, ApConnectFail, ApRecvReady, ApRecvOk, ApReceive,
       ApSendInstall, ApSyncFail, ApDrop
  <2>2. nSess' = nSess
    BY <1>1, <1>8, ApFrame
  <2>3. QED
    BY <1>5, <1>8, <2>1, <2>2
<1>9. CASE StaMainStep \/ StaSyncStep
  <2>1. UNCHANGED <<apPc, apLast, nSess>> /\ ~ApConnect
    BY <1>1, <1>9, StaFrame DEF apVars, ApConnect
  <2>2. conn'[nSess].ap = conn[nSess].ap /\ conn'[nSess].key = conn[nSess].key
    BY <1>1, <1>5, <1>9, <2>1, StaFrame
  <2>3. QED
    BY <1>5, <2>1, <2>2 DEF Handed
<1>10. CASE \/ LifiStep \/ WifiStep
            \/ \E s \in Side : ControlDrop(s) \/ WifiHandlePtk(s)
  <2>1. UNCHANGED <<conn, apPc, apLast, nSess>> /\ ~ApConnect
    BY <1>1, <1>10, OtherFrame DEF ApConnect
  <2>2. QED
    BY <1>5, <2>1 DEF Handed
<1>11. QED
  BY <1>4, <1>6, <1>7, <1>8, <1>9, <1>10, Actors

\* When the AP receiver is through with the queue and nothing went wrong, WiFi has
\* what hostapd derived last: the accept loop of ptk_receiver_ap.py.
THEOREM LatestPtkInstalled == Spec => []LatestInstalled
<1>1. Init => Handed
  <2> SUFFICES ASSUME Init PROVE Handed
    OBVIOUS
  <2>1. Lane[0] = apLast /\ Len(apQ) = 0
    BY DEF Init, Lane, LaneOf
  <2>2. QED
    BY <2>1 DEF Init, Handed, Side
<1>2. Inv /\ Handed /\ [Next]_vars => Handed'
  BY HandedStep
<1>3. Inv /\ Handed /\ SyncAgreement => LatestInstalled
  <2> SUFFICES ASSUME Inv, Handed, SyncAgreement,
                      Faults \cap {"push", "disk"} = {},
                      apPc = "accept", apQ = <<>>, calm, Drained,
                      ~conn[nSess].late
               PROVE  \A s \in Side : wkey[s] = cur["ap"]
    BY DEF LatestInstalled
  <2>1. apLast = cur["ap"]
    <3>1. Lane[0] = cur["ap"]
      BY DEF Handed
    <3>2. QED
      BY <3>1 DEF Lane, LaneOf
  <2>2. nSess > 0 /\ conn[nSess].ap = "synced" /\ conn[nSess].key = apLast
    BY DEF Handed
  <2>3. QED
    BY <2>1, <2>2 DEF SyncAgreement
<1>4. QED
  BY <1>1, <1>2, <1>3, Invariance, SyncsAgree, PTL DEF Spec
=============================================================================

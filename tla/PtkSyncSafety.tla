--------------------------- MODULE PtkSyncSafety ---------------------------
(***************************************************************************)
(* Safety of PtkSync, proved: SessionAgreement, ApNeverAhead and the       *)
(* refinement of TwoPhaseInstall.                                          *)
(*                                                                         *)
(* The inductive invariant says where the two receivers and the latest     *)
(* connection stand relative to each other.  Its parts:                    *)
(*   ApOrder    the AP works on its latest connection and on no other;     *)
(*   StaOrder   the STA serves connections in order, and nothing has been  *)
(*              said in those it has not accepted;                         *)
(*   Answers    an OK in transit, taken or acted on stands for a PTK that  *)
(*              the STA has forwarded;                                     *)
(*   Proposal   what the STA is about to install is what the AP proposed,  *)
(*              unless a LiFi push came between.                           *)
(***************************************************************************)
EXTENDS PtkSyncProofs

ApActive == apPc \in {"ready", "station", "ok", "forward"}

ApOrder ==
    /\ ApActive => nSess > 0 /\ conn[nSess].ap = "open"
                             /\ conn[nSess].key = apLast
    /\ \A i \in Sess : i > nSess => conn[i] = Unopened
    /\ \A i \in Sess : i <= nSess => conn[i].ap # "none"
    /\ \A i \in Sess : conn[i].ap = "open" => i = nSess /\ ApActive

StaOrder ==
    /\ served <= nSess
    /\ staPc # "accept" => conn[served].okKey = NoKey
    /\ \A i \in Sess : i > served => /\ conn[i].okKey = NoKey
                                     /\ conn[i].toAp = <<>>

Answers ==
    /\ \A i \in Sess : \A j \in DOMAIN conn[i].toAp :
          conn[i].toAp[j] = "OK" => conn[i].okKey # NoKey
    /\ apPc = "forward" => conn[nSess].okKey # NoKey
    /\ \A i \in Sess : conn[i].ap = "synced" => conn[i].okKey # NoKey

Proposal ==
    staPc \in {"assoc", "install", "forward", "record"}
    => pending = conn[served].key \/ conn[served].late

Inv ==
    /\ TypeOK
    /\ Grounded
    /\ ApOrder
    /\ StaOrder
    /\ Answers
    /\ Proposal
    /\ SessionAgreement
    /\ ApNeverAhead

-----------------------------------------------------------------------------

LEMMA InvInit == Init => Inv
<1> SUFFICES ASSUME Init PROVE Inv
  OBVIOUS
<1>1. TypeOK /\ Grounded
  BY InitTypeOK DEF Init, Grounded
<1>2. \A i \in Sess : conn[i] = Unopened
  BY DEF Init
<1>3. \A i \in Sess : i > 0 /\ i \in Nat
  BY SyncAssumption DEF Sess
<1>4. ApOrder
  BY <1>2, <1>3 DEF Init, ApOrder, ApActive, Unopened
<1>5. StaOrder
  BY <1>2, <1>3 DEF Init, StaOrder, Unopened
<1>6. Answers
  BY <1>2 DEF Init, Answers, Unopened
<1>7. Proposal
  BY DEF Init, Proposal
<1>8. SessionAgreement
  BY <1>2 DEF SessionAgreement, Unopened
<1>9. ApNeverAhead
  <2>1. wkey["ap"] = Default /\ inbox["ap"] = <<>>
    BY DEF Init, WifiInit, Side
  <2>2. QED
    BY <2>1, KeyAssumption DEF ApNeverAhead
<1>10. QED
  BY <1>1, <1>4, <1>5, <1>6, <1>7, <1>8, <1>9 DEF Inv

\* Sessions are numbered from 1, so the counters that point at a connection
\* are sessions as soon as they are positive.
LEMMA Counters ==
  ASSUME TypeOK
  PROVE  /\ nSess \in Nat /\ served \in Nat
         /\ nSess > 0 => nSess \in Sess
         /\ served > 0 => served \in Sess
         /\ \A i \in Sess : i \in Nat /\ i > 0
         /\ nSess < MaxSess => nSess + 1 \in Sess
         /\ served < nSess => served + 1 \in Sess
  BY SyncAssumption DEF TypeOK, Sess

\* What the steps of the STA receiver do to the connections: they touch the
\* one being served, and in it neither the proposed PTK nor the AP's verdict.
LEMMA StaFrame ==
  ASSUME TypeOK, Grounded, StaMainStep \/ StaSyncStep
  PROVE  /\ UNCHANGED <<apVars, lifiVars>>
         /\ \A i \in Sess : /\ conn'[i].key = conn[i].key
                            /\ conn'[i].ap = conn[i].ap
                            /\ i # served => conn'[i] = conn[i]
                            /\ StaMainStep \/ ~StaRecord =>
                                  conn'[i].okKey = conn[i].okKey
         /\ ~ UNCHANGED conn => served' = served /\ staPc # "accept"
<1> USE DEF staRest, Grounded, apVars, lifiVars
<1>1. CASE StaMainStep
  <2>1. CASE StaAcceptPush
    BY <2>1 DEF StaAcceptPush
  <2>2. CASE StaStorePending
    <3>1. CASE Serving /\ staHold # conn[served].key
      <4>1. conn' = [conn EXCEPT ![served].late = TRUE] /\ staPc # "accept"
        BY <2>2, <3>1 DEF StaStorePending, Serving
      <4>2. served' = served /\ UNCHANGED <<apVars, lifiVars>>
        BY <2>2 DEF StaStorePending
      <4>3. QED
        BY <4>1, <4>2 DEF TypeOK, ConnType
    <3>2. CASE ~(Serving /\ staHold # conn[served].key)
      BY <2>2, <3>2 DEF StaStorePending
    <3>3. QED
      BY <3>1, <3>2
  <2>3. QED
    BY <1>1, <2>1, <2>2 DEF StaMainStep
<1>2. CASE StaAcceptConn \/ StaTimeout
  BY <1>2 DEF StaAcceptConn, StaTimeout
<1>3. CASE StaRecvSync
  BY <1>3 DEF StaRecvSync, TypeOK, ConnType
<1>4. CASE StaSendReady
  BY <1>4 DEF StaSendReady, TypeOK, ConnType
<1>5. CASE StaSendNotReady
  BY <1>5 DEF StaSendNotReady, TypeOK, ConnType
<1>6. CASE StaRecvInstall
  BY <1>6 DEF StaRecvInstall, TypeOK, ConnType
<1>7. CASE StaRecvEof
  BY <1>7 DEF StaRecvEof, TypeOK, ConnType
<1>8. CASE StaForward
  BY <1>8 DEF StaForward, TypeOK, ConnType
<1>9. CASE StaRecord
  BY <1>9 DEF StaRecord, TypeOK, ConnType
<1>10. CASE StaDrop
  BY <1>10 DEF StaDrop, TypeOK, ConnType
<1>11. QED
  BY <1>1, <1>2, <1>3, <1>4, <1>5, <1>6, <1>7, <1>8, <1>9, <1>10
     DEF StaSyncStep

\* What the steps of the AP receiver do to the connections, other than opening
\* one: they touch the latest, and in it neither the proposed PTK nor what the
\* STA has made of it.
LEMMA ApFrame ==
  ASSUME TypeOK, ApStep, ~ApConnect
  PROVE  /\ UNCHANGED <<nSess, staVars, lifiVars>>
         /\ \A i \in Sess : /\ conn'[i].key = conn[i].key
                            /\ conn'[i].okKey = conn[i].okKey
                            /\ conn'[i].late = conn[i].late
                            /\ i # nSess => conn'[i] = conn[i]
<1> USE DEF apRest, staVars, lifiVars
<1>1. CASE ApAcceptPush \/ ApConnectFail \/ ApDrop
  BY <1>1 DEF ApAcceptPush, ApConnectFail, ApDrop
<1>2. CASE ApRecvReady \/ ApRecvOk
  <2>1. /\ conn' = [conn EXCEPT ![nSess].toAp = Tail(@)]
        /\ UNCHANGED <<nSess, staVars, lifiVars>>
    BY <1>2 DEF ApRecvReady, ApRecvOk, ApReceive
  <2>2. QED
    BY <2>1 DEF TypeOK, ConnType
<1>3. CASE ApSendInstall
  BY <1>3 DEF ApSendInstall, TypeOK, ConnType
<1>4. CASE ApSyncFail
  BY <1>4 DEF ApSyncFail, TypeOK, ConnType
<1>5. CASE ApForward
  BY <1>5 DEF ApForward, TypeOK, ConnType
<1>6. QED
  BY <1>1, <1>2, <1>3, <1>4, <1>5 DEF ApStep

LEMMA OpenFields ==
  ASSUME NEW k
  PROVE  /\ Opened(k).key = k /\ Opened(k).ap = "open"
         /\ Opened(k).toSta = <<"SYNC">> /\ Opened(k).toAp = <<>>
         /\ Opened(k).okKey = NoKey /\ ~Opened(k).late
<1>1. Unopened \in ConnType
  BY DEF Unopened, ConnType, Opt
<1>2. Opened(k).key = k
  BY <1>1 DEF Opened, ConnType
<1>3. Opened(k).ap = "open"
  BY <1>1 DEF Opened, ConnType
<1>4. Opened(k).toSta = <<"SYNC">>
  BY <1>1 DEF Opened, ConnType
<1>5. Opened(k).toAp = Unopened.toAp
  BY <1>1 DEF Opened, ConnType
<1>6. Opened(k).okKey = Unopened.okKey
  BY <1>1 DEF Opened, ConnType
<1>7. Opened(k).late = Unopened.late
  BY <1>1 DEF Opened, ConnType
<1>8. Unopened.toAp = <<>> /\ Unopened.okKey = NoKey
  BY DEF Unopened
<1>9. ~Unopened.late
  BY DEF Unopened
<1>10. QED
  BY <1>2, <1>3, <1>4, <1>5, <1>6, <1>7, <1>8, <1>9

LEMMA ApOpenFrame ==
  ASSUME TypeOK, ApConnect
  PROVE  /\ UNCHANGED <<staVars, lifiVars, apLast, wifiVars>>
         /\ nSess' = nSess + 1 /\ nSess' \in Sess /\ nSess' \in Nat
         /\ \A i \in Sess : i # nSess' => conn'[i] = conn[i]
         /\ conn'[nSess'].key = apLast /\ conn'[nSess'].ap = "open"
         /\ conn'[nSess'].okKey = NoKey /\ conn'[nSess'].toAp = <<>>
         /\ conn'[nSess'].toSta = <<"SYNC">> /\ ~conn'[nSess'].late
         /\ apPc = "connect" /\ apPc' = "ready"
<1>1. /\ UNCHANGED <<staVars, lifiVars, apLast, wifiVars>>
      /\ apPc = "connect" /\ apPc' = "ready" /\ nSess' = nSess + 1
  BY DEF ApConnect, apRest
<1>2. nSess' \in Sess /\ nSess' \in Nat
  BY Counters DEF ApConnect
<1>3. /\ \A i \in Sess : i # nSess' => conn'[i] = conn[i]
      /\ conn'[nSess'] = Opened(apLast)
  BY <1>1, <1>2 DEF ApConnect, TypeOK
<1>4. QED
  BY <1>1, <1>2, <1>3, OpenFields

\* The LiFi daemons and the WiFi link do nothing to the connections, nor to
\* the state of the receivers apart from their queues.
LEMMA OtherFrame ==
  ASSUME \/ LifiStep \/ WifiStep
         \/ \E s \in Side : ControlDrop(s) \/ WifiHandlePtk(s)
  PROVE  UNCHANGED <<conn, apPc, apLast, nSess, pending, staPc, served>>
  BY DEF LifiStep, LifiStaDerive, LifiApDerive, WifiStep, ControlDrop, WifiHandlePtk,
     wifiRest, apVars, staVars

LEMMA Actors ==
  ASSUME Next
  PROVE  \/ ApConnect
         \/ ApStep /\ ~ApConnect
         \/ StaMainStep \/ StaSyncStep
         \/ \/ LifiStep \/ WifiStep
            \/ \E s \in Side : ControlDrop(s) \/ WifiHandlePtk(s)
  BY DEF Next, ReceiverStep

LEMMA ApOrderStep ==
  ASSUME Inv, Next
  PROVE  ApOrder'
<1> USE Counters DEF Inv, ApOrder, ApActive
<1>1. CASE ApConnect
  BY <1>1, ApOpenFrame
<1>2. CASE ApStep /\ ~ApConnect
  <2>1. CASE ApAcceptPush
    BY <2>1 DEF ApAcceptPush
  <2>2. CASE ApConnectFail \/ ApDrop
    BY <2>2 DEF ApConnectFail, ApDrop
  <2>3. CASE ApRecvReady \/ ApRecvOk
    <3>1. /\ ApActive /\ ApActive' /\ UNCHANGED apLast
          /\ conn' = [conn EXCEPT ![nSess].toAp = Tail(@)]
      BY <2>3 DEF ApRecvReady, ApRecvOk, ApReceive
    <3>2. \A i \in Sess : conn[i] \in ConnType
      BY DEF TypeOK
    <3>3. \A i \in Sess : conn'[i].ap = conn[i].ap
      BY <3>1, <3>2 DEF TypeOK, ConnType
    <3>4. QED
      BY <1>2, <3>1, <3>3, ApFrame
  <2>4. CASE ApSendInstall
    <3>1. /\ \A i \in Sess : conn'[i].ap = conn[i].ap
          /\ ApActive /\ ApActive' /\ UNCHANGED apLast
      BY <2>4 DEF ApSendInstall, TypeOK, ConnType
    <3>2. QED
      BY <1>2, <3>1, ApFrame
  <2>5. CASE ApSyncFail \/ ApForward
    <3>1. /\ conn'[nSess].ap \in {"failed", "synced"}
          /\ ~ApActive' /\ UNCHANGED apLast
      BY <2>5 DEF ApSyncFail, ApForward, TypeOK, ConnType
    <3>2. QED
      BY <1>2, <3>1, ApFrame
  <2>6. QED
    BY <1>2, <2>1, <2>2, <2>3, <2>4, <2>5 DEF ApStep
<1>3. CASE StaMainStep \/ StaSyncStep
  <2>1. /\ UNCHANGED <<apPc, apLast, nSess>>
        /\ \A i \in Sess : conn'[i].ap = conn[i].ap /\ conn'[i].key = conn[i].key
    BY <1>3, StaFrame DEF apVars
  <2>2. \A i \in Sess : i > nSess => conn'[i] = conn[i]
    BY <1>3, StaFrame DEF StaOrder
  <2>3. QED
    BY <2>1, <2>2
<1>4. CASE \/ LifiStep \/ WifiStep
           \/ \E s \in Side : ControlDrop(s) \/ WifiHandlePtk(s)
  BY <1>4, OtherFrame
<1>5. QED
  BY <1>1, <1>2, <1>3, <1>4, Actors

LEMMA StaOrderStep ==
  ASSUME Inv, Next
  PROVE  StaOrder'
<1> USE Counters DEF Inv, StaOrder
<1>1. CASE ApConnect
  BY <1>1, ApOpenFrame DEF staVars, Grounded
<1>2. CASE ApStep /\ ~ApConnect
  <2>1. \A i \in Sess : i > served /\ conn[i].toAp = <<>> => conn'[i].toAp = <<>>
    <3>1. CASE ApRecvReady \/ ApRecvOk
      BY <3>1 DEF ApRecvReady, ApRecvOk, ApReceive, TypeOK, ConnType
    <3>2. CASE ApSendInstall
      BY <3>2 DEF ApSendInstall, TypeOK, ConnType
    <3>3. CASE ApSyncFail
      BY <3>3 DEF ApSyncFail, TypeOK, ConnType
    <3>4. CASE ApForward
      BY <3>4 DEF ApForward, TypeOK, ConnType
    <3>5. CASE ApAcceptPush \/ ApConnectFail \/ ApDrop
      BY <3>5 DEF ApAcceptPush, ApConnectFail, ApDrop
    <3>6. QED
      BY <1>2, <3>1, <3>2, <3>3, <3>4, <3>5 DEF ApStep
  <2>2. QED
    BY <1>2, <2>1, ApFrame DEF staVars, Grounded
<1>3. CASE StaMainStep
  <2>1. UNCHANGED <<nSess, served, staPc>>
    BY <1>3 DEF StaMainStep, StaAcceptPush, StaStorePending, apVars
  <2>2. \A i \in Sess : conn'[i].okKey = conn[i].okKey
    BY <1>3, StaFrame
  <2>3. QED
    BY <1>3, <2>1, <2>2, StaFrame DEF Grounded
<1>4. CASE StaSyncStep
  <2>1. CASE StaAcceptConn
    BY <2>1 DEF StaAcceptConn, staRest, apVars
  <2>2. CASE StaRecord
    <3>1. UNCHANGED <<nSess, served>>
      BY <2>2 DEF StaRecord, staRest, apVars
    <3>2. staPc' = "accept" \/ UNCHANGED conn
      BY <2>2 DEF StaRecord
    <3>3. staPc # "accept"
      BY <2>2 DEF StaRecord
    <3>4. QED
      BY <1>4, <3>1, <3>2, <3>3, StaFrame DEF Grounded
  <2>3. CASE ~StaAcceptConn /\ ~StaRecord
    <3>1. UNCHANGED <<nSess, served>> /\ staPc # "accept"
      BY <1>4, <2>3 DEF StaSyncStep, StaRecvSync, StaSendReady,
         StaSendNotReady, StaRecvInstall, StaRecvEof, StaForward, StaTimeout,
         StaDrop, staRest, apVars
    <3>2. \A i \in Sess : conn'[i].okKey = conn[i].okKey
      BY <1>4, <2>3, StaFrame
    <3>3. QED
      BY <1>4, <3>1, <3>2, StaFrame DEF Grounded
  <2>4. QED
    BY <2>1, <2>2, <2>3
<1>5. CASE \/ LifiStep \/ WifiStep
           \/ \E s \in Side : ControlDrop(s) \/ WifiHandlePtk(s)
  BY <1>5, OtherFrame
<1>6. QED
  BY <1>1, <1>2, <1>3, <1>4, <1>5, Actors

\* What the STA receiver adds to its answers.
LEMMA StaReplies ==
  ASSUME TypeOK, Grounded, StaMainStep \/ StaSyncStep, NEW i \in Sess
  PROVE  \/ conn'[i].toAp = conn[i].toAp /\ conn'[i].okKey = conn[i].okKey
         \/ \E m \in {"READY", "NOTREADY", "FAIL"} :
               /\ conn'[i].toAp = Append(conn[i].toAp, m)
               /\ conn'[i].okKey = conn[i].okKey
         \/ /\ StaRecord /\ i = served
            /\ conn'[i].toAp = Append(conn[i].toAp, "OK")
            /\ conn'[i].okKey = pending
<1>1. CASE i # served \/ UNCHANGED conn
  BY <1>1, StaFrame
<1>2. CASE i = served /\ StaStorePending
  BY <1>2 DEF StaStorePending, TypeOK, ConnType
<1>3. CASE i = served /\ StaRecvSync
  BY <1>3 DEF StaRecvSync, TypeOK, ConnType
<1>4. CASE i = served /\ StaSendReady
  BY <1>4 DEF StaSendReady, TypeOK, ConnType
<1>5. CASE i = served /\ StaSendNotReady
  BY <1>5 DEF StaSendNotReady, TypeOK, ConnType
<1>6. CASE i = served /\ StaRecvInstall
  BY <1>6 DEF StaRecvInstall, TypeOK, ConnType
<1>7. CASE i = served /\ StaRecvEof
  BY <1>7 DEF StaRecvEof, TypeOK, ConnType
<1>8. CASE i = served /\ StaForward
  BY <1>8 DEF StaForward, TypeOK, ConnType
<1>9. CASE i = served /\ StaRecord
  <2>1. conn[i] \in ConnType /\ conn \in [Sess -> ConnType]
    BY DEF TypeOK
  <2>2. \/ UNCHANGED conn
        \/ conn' = [conn EXCEPT ![i].toAp = Append(@, "OK"), ![i].okKey = pending,
                               ![i].staOpen = FALSE]
    BY <1>9 DEF StaRecord
  <2>3. \/ conn'[i] = conn[i]
        \/ /\ conn'[i].toAp = Append(conn[i].toAp, "OK")
           /\ conn'[i].okKey = pending
    BY <2>1, <2>2 DEF ConnType
  <2>4. QED
    BY <1>9, <2>3
<1>10. CASE i = served /\ StaDrop
  BY <1>10 DEF StaDrop, TypeOK, ConnType
<1>11. CASE StaAcceptPush \/ StaAcceptConn \/ StaTimeout
  BY <1>11, <1>1 DEF StaAcceptPush, StaAcceptConn, StaTimeout
<1>12. QED
  BY <1>1, <1>2, <1>3, <1>4, <1>5, <1>6, <1>7, <1>8, <1>9, <1>10, <1>11
     DEF StaMainStep, StaSyncStep

\* That a push came between is not forgotten.
LEMMA LateStays ==
  ASSUME TypeOK, Grounded, StaMainStep \/ StaSyncStep, NEW i \in Sess
  PROVE  conn[i].late => conn'[i].late
<1>1. CASE i # served \/ UNCHANGED conn
  BY <1>1, StaFrame
<1>2. CASE i = served /\ StaStorePending
  BY <1>2 DEF StaStorePending, TypeOK, ConnType
<1>3. CASE i = served /\ StaRecvSync
  BY <1>3 DEF StaRecvSync, TypeOK, ConnType
<1>4. CASE i = served /\ (StaSendReady \/ StaRecvEof)
  BY <1>4 DEF StaSendReady, StaRecvEof, TypeOK, ConnType
<1>5. CASE i = served /\ StaSendNotReady
  BY <1>5 DEF StaSendNotReady, TypeOK, ConnType
<1>6. CASE i = served /\ StaRecvInstall
  BY <1>6 DEF StaRecvInstall, TypeOK, ConnType
<1>7. CASE i = served /\ (StaForward \/ StaDrop)
  BY <1>7 DEF StaForward, StaDrop, TypeOK, ConnType
<1>8. CASE i = served /\ StaRecord
  <2>1. conn[i] \in ConnType /\ conn \in [Sess -> ConnType]
    BY DEF TypeOK
  <2>2. \/ UNCHANGED conn
        \/ conn' = [conn EXCEPT ![i].toAp = Append(@, "OK"), ![i].okKey = pending,
                               ![i].staOpen = FALSE]
    BY <1>8 DEF StaRecord
  <2>3. QED
    BY <2>1, <2>2 DEF ConnType
<1>9. CASE StaAcceptPush \/ StaAcceptConn \/ StaTimeout
  BY <1>9 DEF StaAcceptPush, StaAcceptConn, StaTimeout
<1>10. QED
  BY <1>1, <1>2, <1>3, <1>4, <1>5, <1>6, <1>7, <1>8, <1>9
     DEF StaMainStep, StaSyncStep

LEMMA TailElements ==
  ASSUME NEW S, NEW q \in Seq(S), q # <<>>, NEW j \in DOMAIN Tail(q)
  PROVE  j + 1 \in DOMAIN q /\ Tail(q)[j] = q[j + 1]
  OBVIOUS

LEMMA AppendElements ==
  ASSUME NEW S, NEW q \in Seq(S), NEW m \in S, NEW j \in DOMAIN Append(q, m)
  PROVE  \/ j \in DOMAIN q /\ Append(q, m)[j] = q[j]
         \/ Append(q, m)[j] = m
  OBVIOUS

\* An answer that the AP takes is the oldest one in transit.
LEMMA ApTakes ==
  ASSUME Inv, NEW pc, NEW reply, NEW next, ApReceive(pc, reply, next),
         nSess \in Sess
  PROVE  /\ conn[nSess].toAp # <<>>
         /\ conn[nSess].toAp[1] = reply /\ 1 \in DOMAIN conn[nSess].toAp
         /\ conn'[nSess].toAp = Tail(conn[nSess].toAp)
         /\ \A i \in Sess : conn'[i].ap = conn[i].ap
         /\ apPc' = next
  BY DEF ApReceive, Inv, TypeOK, ConnType

LEMMA AnswersStep ==
  ASSUME Inv, Next
  PROVE  Answers'
<1> USE Counters DEF Inv, Answers
<1> DEFINE Msg == {"READY", "NOTREADY", "FAIL", "OK"}
<1>0. \A i \in Sess : conn[i].toAp \in Seq(Msg)
  BY DEF TypeOK, ConnType
<1>1. CASE ApConnect
  BY <1>1, ApOpenFrame
<1>2. CASE ApStep /\ ~ApConnect
  <2>1. CASE ApAcceptPush \/ ApConnectFail \/ ApDrop
    BY <2>1 DEF ApAcceptPush, ApConnectFail, ApDrop
  <2>2. ASSUME NEW pc \in {"ready", "ok"}, NEW reply, NEW next,
               ApReceive(pc, reply, next),
               next = "forward" => reply = "OK"
        PROVE  Answers'
    <3>1. nSess \in Sess
      BY <2>2 DEF ApReceive, ApOrder, ApActive
    <3>2. /\ conn[nSess].toAp # <<>>
          /\ conn[nSess].toAp[1] = reply /\ 1 \in DOMAIN conn[nSess].toAp
          /\ conn'[nSess].toAp = Tail(conn[nSess].toAp)
          /\ \A i \in Sess : conn'[i].ap = conn[i].ap
          /\ apPc' = next
      BY <2>2, <3>1, ApTakes
    <3>3. \A j \in DOMAIN conn'[nSess].toAp :
             /\ j + 1 \in DOMAIN conn[nSess].toAp
             /\ conn'[nSess].toAp[j] = conn[nSess].toAp[j + 1]
      BY <1>0, <3>1, <3>2, TailElements
    <3>4. \A i \in Sess : conn'[i].okKey = conn[i].okKey
      BY <1>2, ApFrame
    <3>5. ASSUME NEW i \in Sess, NEW j \in DOMAIN conn'[i].toAp,
                 conn'[i].toAp[j] = "OK"
          PROVE  conn'[i].okKey # NoKey
      <4>1. CASE i = nSess
        BY <3>3, <3>4, <3>5, <4>1
      <4>2. CASE i # nSess
        BY <1>2, <3>5, <4>2, ApFrame
      <4>3. QED
        BY <4>1, <4>2
    <3>6. nSess' = nSess
      BY <1>2, ApFrame
    <3>7. apPc' = "forward" => conn[nSess].okKey # NoKey
      BY <2>2, <3>1, <3>2
    <3>8. QED
      BY <3>1, <3>2, <3>4, <3>5, <3>6, <3>7
  <2>3. CASE ApRecvReady \/ ApRecvOk
    BY <2>2, <2>3 DEF ApRecvReady, ApRecvOk
  <2>4. CASE ApSendInstall \/ ApSyncFail
    <3>1. /\ apPc' # "forward"
          /\ \A i \in Sess : /\ conn'[i].toAp = conn[i].toAp
                             /\ conn'[i].ap \in {conn[i].ap, "failed"}
      <4>1. CASE ApSendInstall
        BY <4>1 DEF ApSendInstall, TypeOK, ConnType
      <4>2. CASE ApSyncFail
        BY <4>2 DEF ApSyncFail, TypeOK, ConnType
      <4>3. QED
        BY <2>4, <4>1, <4>2
    <3>2. QED
      BY <1>2, <3>1, ApFrame
  <2>5. CASE ApForward
    <3>1. /\ apPc = "forward" /\ apPc' # "forward"
          /\ \A i \in Sess : /\ conn'[i].toAp = conn[i].toAp
                             /\ i # nSess => conn'[i].ap = conn[i].ap
      BY <2>5 DEF ApForward, TypeOK, ConnType
    <3>2. QED
      BY <1>2, <3>1, ApFrame
  <2>6. QED
    BY <1>2, <2>1, <2>3, <2>4, <2>5 DEF ApStep
<1>3. CASE StaMainStep \/ StaSyncStep
  <2>1. UNCHANGED <<apPc, nSess>> /\ \A i \in Sess : conn'[i].ap = conn[i].ap
    BY <1>3, StaFrame DEF apVars
  <2>2. ASSUME NEW i \in Sess
        PROVE  /\ conn[i].okKey # NoKey => conn'[i].okKey # NoKey
               /\ \A j \in DOMAIN conn'[i].toAp :
                     conn'[i].toAp[j] = "OK" => conn'[i].okKey # NoKey
    <3>1. CASE /\ conn'[i].toAp = conn[i].toAp
               /\ conn'[i].okKey = conn[i].okKey
      BY <3>1
    <3>2. CASE \E m \in {"READY", "NOTREADY", "FAIL"} :
                 /\ conn'[i].toAp = Append(conn[i].toAp, m)
                 /\ conn'[i].okKey = conn[i].okKey
      BY <1>0, <3>2, AppendElements
    <3>3. CASE StaRecord /\ conn'[i].okKey = pending
      BY <3>3, KeyAssumption DEF StaRecord, Grounded
    <3>4. QED
      BY <1>3, <3>1, <3>2, <3>3, StaReplies
  <2>3. apPc = "forward" => nSess \in Sess
    BY DEF ApOrder, ApActive
  <2>4. QED
    BY <2>1, <2>2, <2>3
<1>4. CASE \/ LifiStep \/ WifiStep
           \/ \E s \in Side : ControlDrop(s) \/ WifiHandlePtk(s)
  BY <1>4, OtherFrame
<1>5. QED
  BY <1>1, <1>2, <1>3, <1>4, Actors

LEMMA ProposalStep ==
  ASSUME Inv, Next
  PROVE  Proposal'
<1> USE Counters DEF Inv, Proposal
<1>1. CASE ApConnect
  BY <1>1, ApOpenFrame DEF staVars, StaOrder, Grounded
<1>2. CASE ApStep /\ ~ApConnect
  BY <1>2, ApFrame DEF staVars, Grounded
<1>3. CASE StaAcceptPush \/ StaAcceptConn \/ StaTimeout
  BY <1>3 DEF StaAcceptPush, StaAcceptConn, StaTimeout, staRest
<1>4. CASE StaStorePending
  <2>1. CASE Serving /\ staHold # conn[served].key
    <3>1. served' = served /\ served \in Sess
      BY <1>4, <2>1 DEF StaStorePending, Serving, Grounded
    <3>2. conn'[served].late = TRUE
      BY <1>4, <2>1, <3>1 DEF StaStorePending, TypeOK, ConnType
    <3>3. QED
      BY <3>1, <3>2
  <2>2. CASE ~(Serving /\ staHold # conn[served].key)
    BY <1>4, <2>2 DEF StaStorePending, Serving, Locked
  <2>3. QED
    BY <2>1, <2>2
<1>5. CASE StaRecvSync
  <2>1. pending' = conn[served].key /\ served' = served /\ served \in Sess
    BY <1>5 DEF StaRecvSync, Grounded
  <2>2. QED
    BY <1>5, <2>1, StaFrame DEF StaSyncStep
<1>6. CASE StaSendReady
  <2>1. UNCHANGED <<pending, served>> /\ served \in Sess /\ staPc = "assoc"
    BY <1>6 DEF StaSendReady, Grounded
  <2>2. conn'[served].key = conn[served].key /\ conn'[served].late = conn[served].late
    BY <1>6, <2>1 DEF StaSendReady, TypeOK, ConnType
  <2>3. QED
    BY <2>1, <2>2
<1>7. CASE StaRecvInstall
  <2>1. UNCHANGED <<pending, served>> /\ served \in Sess /\ staPc = "install"
    BY <1>7 DEF StaRecvInstall, Grounded
  <2>2. conn'[served].key = conn[served].key /\ conn'[served].late = conn[served].late
    BY <1>7, <2>1 DEF StaRecvInstall, TypeOK, ConnType
  <2>3. QED
    BY <2>1, <2>2
<1>8. CASE StaForward
  <2>1. UNCHANGED <<pending, served>> /\ served \in Sess /\ staPc = "forward"
    BY <1>8 DEF StaForward, Grounded
  <2>2. conn'[served].key = conn[served].key /\ conn'[served].late = conn[served].late
    BY <1>8, <2>1 DEF StaForward, TypeOK, ConnType
  <2>3. QED
    BY <2>1, <2>2
<1>9. CASE StaSendNotReady \/ StaRecvEof \/ StaRecord \/ StaDrop
  BY <1>9 DEF StaSendNotReady, StaRecvEof, StaRecord, StaDrop
<1>10. CASE \/ LifiStep \/ WifiStep
            \/ \E s \in Side : ControlDrop(s) \/ WifiHandlePtk(s)
  BY <1>10, OtherFrame
<1>11. QED
  BY <1>1, <1>2, <1>3, <1>4, <1>5, <1>6, <1>7, <1>8, <1>9, <1>10, Actors
     DEF StaMainStep, StaSyncStep

LEMMA SessionAgreementStep ==
  ASSUME Inv, Next
  PROVE  SessionAgreement'
<1> USE Counters DEF Inv, SessionAgreement
<1>1. CASE ApConnect
  BY <1>1, ApOpenFrame
<1>2. CASE ApStep /\ ~ApConnect
  BY <1>2, ApFrame
<1>3. CASE StaMainStep \/ StaSyncStep
  <2> SUFFICES ASSUME NEW i \in Sess
               PROVE  conn'[i].okKey \in {NoKey, conn'[i].key} \/ conn'[i].late
    OBVIOUS
  <2>1. conn[i].late => conn'[i].late
    BY <1>3, LateStays
  <2>2. CASE conn'[i].okKey = conn[i].okKey
    BY <1>3, <2>1, <2>2, StaFrame
  <2>3. CASE StaRecord /\ i = served /\ conn'[i].okKey = pending
    BY <1>3, <2>1, <2>3, StaFrame DEF Proposal, StaRecord
  <2>4. QED
    BY <1>3, <2>2, <2>3, StaReplies
<1>4. CASE \/ LifiStep \/ WifiStep
           \/ \E s \in Side : ControlDrop(s) \/ WifiHandlePtk(s)
  BY <1>4, OtherFrame
<1>5. QED
  BY <1>1, <1>2, <1>3, <1>4, Actors

\* A PTK in the hands of the AP's WiFi daemon, and one the STA has confirmed.
AtAp(k) == wkey["ap"] = k \/ \E j \in DOMAIN inbox["ap"] : inbox["ap"][j] = k
Confirmed(k) == \E i \in Sess : conn[i].key = k /\ conn[i].okKey # NoKey

LEMMA ConfirmedStays ==
  ASSUME Inv, Next, NEW k, Confirmed(k)
  PROVE  Confirmed(k)'
<1> USE Counters DEF Inv
<1>1. PICK i \in Sess : conn[i].key = k /\ conn[i].okKey # NoKey
  BY DEF Confirmed
<1> SUFFICES conn'[i].key = k /\ conn'[i].okKey # NoKey
  BY DEF Confirmed
<1>2. CASE ApConnect
  BY <1>1, <1>2, ApOpenFrame DEF ApOrder, Unopened
<1>3. CASE ApStep /\ ~ApConnect
  BY <1>1, <1>3, ApFrame
<1>4. CASE StaMainStep \/ StaSyncStep
  <2>1. conn'[i].key = k
    BY <1>1, <1>4, StaFrame
  <2>2. StaRecord => pending # NoKey
    BY KeyAssumption DEF StaRecord, Grounded
  <2>3. QED
    BY <1>1, <1>4, <2>1, <2>2, StaReplies
<1>5. CASE \/ LifiStep \/ WifiStep
           \/ \E s \in Side : ControlDrop(s) \/ WifiHandlePtk(s)
  BY <1>1, <1>5, OtherFrame
<1>6. QED
  BY <1>2, <1>3, <1>4, <1>5, Actors

\* Leaving the AP, associating and the rekey timer bring it no PTK.
LEMMA NoNewKey ==
  ASSUME WifiTypeOK, NEW k \in PTK,
         \/ Associate \/ UNCHANGED wifiVars
         \/ \E s \in Side : \/ NotifyAssoc(s) \/ RekeyTimer(s) \/ HandlePtk(s)
                            \/ Leave(s)
         \/ \E p, d, o : SendPtk("sta", p, d, o),
         AtAp(k)'
  PROVE  AtAp(k)
<1> USE KeyAssumption DEF AtAp, WifiTypeOK, Side
<1>1. CASE Associate \/ UNCHANGED wifiVars
  BY <1>1 DEF Associate, wifiVars
<1>2. CASE \E s \in Side : NotifyAssoc(s) \/ RekeyTimer(s) \/ Leave(s)
  BY <1>2 DEF NotifyAssoc, RekeyTimer, Leave
<1>3. CASE \E s \in Side : HandlePtk(s)
  <2>1. PICK s \in Side : HandlePtk(s)
    BY <1>3
  <2>2. CASE s = "sta"
    BY <2>1, <2>2 DEF HandlePtk
  <2>3. CASE s = "ap"
    <3>1. inbox["ap"] \in Seq(PTK) /\ inbox["ap"] # <<>>
      BY <2>1, <2>3 DEF HandlePtk
    <3>2. inbox'["ap"] = Tail(inbox["ap"])
      BY <2>1, <2>3 DEF HandlePtk
    <3>3. wkey'["ap"] \in {wkey["ap"], inbox["ap"][1]} /\ 1 \in DOMAIN inbox["ap"]
      BY <2>1, <2>3, <3>1 DEF HandlePtk
    <3>4. \A j \in DOMAIN inbox'["ap"] :
             j + 1 \in DOMAIN inbox["ap"] /\ inbox'["ap"][j] = inbox["ap"][j + 1]
      BY <3>1, <3>2, TailElements
    <3>5. QED
      BY <3>3, <3>4
  <2>4. QED
    BY <2>2, <2>3
<1>4. CASE \E p, d, o : SendPtk("sta", p, d, o)
  BY <1>4 DEF SendPtk
<1>5. QED
  BY <1>1, <1>2, <1>3, <1>4

\* What the AP receiver forwards is the only PTK that is new to the daemon.
LEMMA ForwardedKey ==
  ASSUME WifiTypeOK, NEW k \in PTK, NEW p \in PTK, NEW d, NEW o,
         SendPtk("ap", p, d, o), AtAp(k)'
  PROVE  AtAp(k) \/ k = p
<1>1. inbox["ap"] \in Seq(PTK) /\ UNCHANGED wkey
  BY DEF WifiTypeOK, Side, SendPtk
<1>2. inbox'["ap"] \in {inbox["ap"], Append(inbox["ap"], p)}
  BY DEF WifiTypeOK, Side, SendPtk
<1>3. QED
  BY <1>1, <1>2, AppendElements DEF AtAp

LEMMA ApNeverAheadStep ==
  ASSUME Inv, Next
  PROVE  ApNeverAhead'
<1> SUFFICES ASSUME NEW k \in PTK, AtAp(k)' PROVE Confirmed(k)'
  BY DEF ApNeverAhead, AtAp, Confirmed
<1>1. AtAp(k) => Confirmed(k)'
  BY ConfirmedStays DEF Inv, ApNeverAhead, AtAp, Confirmed
<1>2. WifiTypeOK
  BY DEF Inv, TypeOK
<1>3. CASE ApForward
  <2>1. apLast \in PTK /\ (k = apLast => Confirmed(k)')
    <3>1. apLast \in PTK /\ Confirmed(apLast)
      BY <1>3, Counters
         DEF ApForward, Inv, Grounded, ApOrder, ApActive, Answers, Confirmed
    <3>2. QED
      BY <3>1, ConfirmedStays
  <2>2. PICK d, o : SendPtk("ap", apLast, d, o)
    BY <1>3 DEF ApForward
  <2>3. QED
    BY <1>1, <1>2, <2>1, <2>2, ForwardedKey
<1>4. CASE ~ApForward
  <2>1. \/ Associate \/ UNCHANGED wifiVars
        \/ \E s \in Side : \/ NotifyAssoc(s) \/ RekeyTimer(s) \/ HandlePtk(s)
                           \/ Leave(s)
        \/ \E p, d, o : SendPtk("sta", p, d, o)
    <3>1. CASE ApStep
      BY <1>4, <3>1 DEF ApStep, ApAcceptPush, ApConnect, ApConnectFail,
         ApRecvReady, ApRecvOk, ApReceive, ApSendInstall, ApSyncFail, ApDrop,
         DisconnectWifi, Side
    <3>2. CASE StaMainStep \/ LifiStep
      BY <3>2 DEF StaMainStep, StaAcceptPush, StaStorePending, LifiStep,
         LifiStaDerive, LifiApDerive
    <3>3. CASE StaSyncStep
      BY <3>3 DEF StaSyncStep, StaAcceptConn, StaRecvSync, StaSendReady,
         StaSendNotReady, StaRecvInstall, StaRecvEof, StaForward, StaRecord,
         StaTimeout, StaDrop, DisconnectWifi, Side
    <3>4. CASE WifiStep \/ \E s \in Side : ControlDrop(s) \/ WifiHandlePtk(s)
      BY <3>4 DEF WifiStep, ControlDrop, WifiHandlePtk, NoticeLeft,
         DisconnectWifi
    <3>5. QED
      BY <3>1, <3>2, <3>3, <3>4 DEF Next, ReceiverStep
  <2>2. QED
    BY <1>1, <1>2, <2>1, NoNewKey
<1>5. QED
  BY <1>3, <1>4

-----------------------------------------------------------------------------

LEMMA InvStutter ==
  ASSUME Inv, UNCHANGED vars
  PROVE  Inv'
<1> USE DEF vars, lifiVars, apVars, staVars, wifiVars
<1>1. TypeOK' /\ Grounded'
  BY StutterType DEF Inv
<1>2. /\ ApOrder' /\ StaOrder' /\ Answers' /\ Proposal' /\ SessionAgreement'
      /\ ApNeverAhead'
  BY DEF Inv, ApOrder, ApActive, StaOrder, Answers, Proposal,
     SessionAgreement, ApNeverAhead
<1>3. QED
  BY <1>1, <1>2 DEF Inv

\* The conjunction is inductive.
THEOREM Invariance == Spec => []Inv
<1>1. Init => Inv
  BY InvInit
<1>2. Inv /\ [Next]_vars => Inv'
  <2>1. CASE Inv /\ Next
    BY <2>1, StepType, ApOrderStep, StaOrderStep, AnswersStep, ProposalStep,
       SessionAgreementStep, ApNeverAheadStep DEF Inv
  <2>2. QED
    BY <2>1, InvStutter
<1>3. QED
  BY <1>1, <1>2, PTL DEF Spec

\* The STA never confirms a PTK other than the AP's, unless a LiFi push came
\* between: the handling of SYNC and of pending_ptk_lock in
\* ptk_receiver_sta.py.
THEOREM SessionsAgree == Spec => []SessionAgreement
BY Invariance, PTL DEF Inv

\* The AP installs after the STA, whatever fails: the order of sync_with_sta in
\* ptk_receiver_ap.py.
THEOREM ApInstallsLast == Spec => []ApNeverAhead
BY Invariance, PTL DEF Inv

-----------------------------------------------------------------------------
(* The exchange implements TwoPhaseInstall.                                *)

Verdict == [i \in Sess |-> conn[i].ap]
Answered == {i \in Sess : conn[i].okKey # NoKey}

LEMMA RefinesInit == Init => TwoPhase!Init
<1> SUFFICES ASSUME Init PROVE TwoPhase!Init
  OBVIOUS
<1>1. \A i \in Sess : conn[i].ap = "none" /\ conn[i].okKey = NoKey
  BY DEF Init, Unopened
<1>2. QED
  BY <1>1 DEF TwoPhase!Init, TwoPhase!Round, Sess

\* A step that changes neither a verdict nor an answer is a stutter.
LEMMA RefinesStutter ==
  ASSUME \A i \in Sess : /\ conn'[i].ap = conn[i].ap
                         /\ conn'[i].okKey = conn[i].okKey
  PROVE  UNCHANGED TwoPhase!vars
<1>1. Verdict' = Verdict /\ Answered' = Answered
  BY DEF Verdict, Answered, Sess
<1>2. QED
  BY <1>1 DEF TwoPhase!vars, Verdict, Answered

\* A step that changes one verdict changes the mapped function at one point.
LEMMA VerdictChange ==
  ASSUME NEW n \in Sess, NEW v, conn'[n].ap = v,
         \A i \in Sess : /\ i # n => conn'[i].ap = conn[i].ap
                         /\ conn'[i].okKey = conn[i].okKey
  PROVE  Verdict' = [Verdict EXCEPT ![n] = v] /\ Answered' = Answered
BY DEF Verdict, Answered, Sess

\* The step of a round; its number is a value, not the counter it was read from.
LEMMA RoundStep ==
  ASSUME NEW i \in Sess,
         \/ TwoPhase!Open(i) \/ TwoPhase!Confirm(i)
         \/ TwoPhase!Commit(i) \/ TwoPhase!GiveUp(i)
  PROVE  TwoPhase!Next
<1>1. i \in TwoPhase!Round
  BY DEF TwoPhase!Round, Sess
<1>2. QED
  BY <1>1 DEF TwoPhase!Next

LEMMA RefinesStep ==
  ASSUME Inv, Next
  PROVE  TwoPhase!Next \/ UNCHANGED TwoPhase!vars
<1> USE Counters DEF Inv
<1>1. CASE ApConnect
  <2> DEFINE n == nSess + 1
  <2>1. n \in Sess /\ conn[n] = Unopened /\ ~ApActive
    BY <1>1, ApOpenFrame DEF ApOrder, ApActive
  <2>2. Verdict[n] = "none" /\ conn[n].okKey = NoKey
    BY <2>1 DEF Verdict, Unopened
  <2>3. \A j \in Sess : j < n => Verdict[j] \in {"synced", "failed"}
    BY <2>1 DEF ApOrder, Verdict, TypeOK, ConnType
  <2>4. Verdict' = [Verdict EXCEPT ![n] = "open"] /\ Answered' = Answered
    BY <1>1, <2>1, <2>2, ApOpenFrame, VerdictChange
  <2>5. \A m \in Sess : m = n => TwoPhase!Open(m)
    BY <2>1, <2>2, <2>3, <2>4
       DEF TwoPhase!Open, TwoPhase!Round, Sess, Verdict, Answered
  <2>6. QED
    BY <2>1, <2>5, RoundStep
<1>2. CASE ApStep /\ ~ApConnect
  <2>1. \A i \in Sess : conn'[i].okKey = conn[i].okKey
    BY <1>2, ApFrame
  <2>2. CASE ApSyncFail
    <3>1. nSess \in Sess /\ Verdict[nSess] = "open"
      BY <2>2 DEF ApSyncFail, ApOrder, ApActive, Verdict
    <3>2. conn'[nSess].ap = "failed"
      BY <2>2, <3>1 DEF ApSyncFail, TypeOK, ConnType
    <3>3. Verdict' = [Verdict EXCEPT ![nSess] = "failed"] /\ Answered' = Answered
      BY <1>2, <2>1, <3>1, <3>2, ApFrame, VerdictChange
    <3>4. \A n \in Sess : n = nSess => TwoPhase!GiveUp(n)
      BY <3>1, <3>3 DEF TwoPhase!GiveUp, Verdict, Answered
    <3>5. QED
      BY <3>1, <3>4, RoundStep
  <2>3. CASE ApForward
    <3>1. nSess \in Sess /\ Verdict[nSess] = "open" /\ nSess \in Answered
      BY <2>3 DEF ApForward, ApOrder, ApActive, Verdict, Answers, Answered
    <3>2. conn'[nSess].ap = "synced"
      BY <2>3, <3>1 DEF ApForward, TypeOK, ConnType
    <3>3. Verdict' = [Verdict EXCEPT ![nSess] = "synced"] /\ Answered' = Answered
      BY <1>2, <2>1, <3>1, <3>2, ApFrame, VerdictChange
    <3>4. \A n \in Sess : n = nSess => TwoPhase!Commit(n)
      BY <3>1, <3>3 DEF TwoPhase!Commit, Verdict, Answered
    <3>5. QED
      BY <3>1, <3>4, RoundStep
  <2>4. CASE ~ApSyncFail /\ ~ApForward
    <3>1. \A i \in Sess : conn'[i].ap = conn[i].ap
      <4>1. CASE ApAcceptPush \/ ApConnectFail \/ ApDrop
        BY <4>1 DEF ApAcceptPush, ApConnectFail, ApDrop
      <4>2. CASE ApRecvReady \/ ApRecvOk
        <5>1. conn' = [conn EXCEPT ![nSess].toAp = Tail(@)]
          BY <4>2 DEF ApRecvReady, ApRecvOk, ApReceive
        <5>2. QED
          BY <5>1 DEF TypeOK, ConnType
      <4>3. CASE ApSendInstall
        BY <4>3 DEF ApSendInstall, TypeOK, ConnType
      <4>4. QED
        BY <1>2, <2>4, <4>1, <4>2, <4>3 DEF ApStep
    <3>2. QED
      BY <2>1, <3>1, RefinesStutter
  <2>5. QED
    BY <2>2, <2>3, <2>4
<1>3. CASE StaMainStep \/ StaSyncStep
  <2>1. \A i \in Sess : conn'[i].ap = conn[i].ap
    BY <1>3, StaFrame
  <2>2. CASE \A i \in Sess : conn'[i].okKey = conn[i].okKey
    BY <2>1, <2>2, RefinesStutter
  <2>3. CASE \E i \in Sess : conn'[i].okKey # conn[i].okKey
    <3>1. /\ StaRecord /\ served \in Sess
          /\ conn'[served].okKey = pending
          /\ \A i \in Sess : i # served => conn'[i].okKey = conn[i].okKey
      BY <1>3, <2>3, StaReplies, StaFrame
    <3>2. pending # NoKey /\ conn[served].okKey = NoKey
      BY <3>1, KeyAssumption DEF StaRecord, Grounded, StaOrder
    <3>3. Verdict[served] \in {"open", "failed"}
      BY <3>1, <3>2 DEF Verdict, ApOrder, StaOrder, Answers, TypeOK, ConnType
    <3>4. \A j \in Answered : j < served
      BY <3>1, <3>2 DEF Answered, StaOrder
    <3>5. Answered' = Answered \cup {served} /\ Verdict' = Verdict
      BY <2>1, <3>1, <3>2 DEF Answered, Verdict, Sess
    <3>6. \A n \in Sess : n = served => TwoPhase!Confirm(n)
      BY <3>3, <3>4, <3>5 DEF TwoPhase!Confirm, Answered, Verdict
    <3>7. QED
      BY <3>1, <3>6, RoundStep
  <2>4. QED
    BY <2>2, <2>3
<1>4. CASE \/ LifiStep \/ WifiStep
           \/ \E s \in Side : ControlDrop(s) \/ WifiHandlePtk(s)
  BY <1>4, OtherFrame, RefinesStutter
<1>5. QED
  BY <1>1, <1>2, <1>3, <1>4, Actors

\* sync_with_sta and ptk_sync_server, message by message, implement the
\* two-phase install: no order of sends, receives, timeouts and pushes makes
\* the AP commit a round that the STA has not confirmed.
THEOREM SyncImplementsTwoPhase == Spec => ImplementsTwoPhase
<1>1. Init => TwoPhase!Init
  BY RefinesInit
<1>2. Inv /\ [Next]_vars => [TwoPhase!Next]_TwoPhase!vars
  <2>1. CASE Inv /\ Next
    BY <2>1, RefinesStep
  <2>2. CASE UNCHANGED vars
    BY <2>2, RefinesStutter DEF vars
  <2>3. QED
    BY <2>1, <2>2
<1>3. QED
  BY <1>1, <1>2, Invariance, PTL DEF Spec, ImplementsTwoPhase, TwoPhase!Spec
=============================================================================

--------------------------- MODULE PtkSyncProofs ---------------------------
(***************************************************************************)
(* Theorems about PtkSync, for every set of PTKs, every bound and every    *)
(* combination of faults.                                                  *)
(***************************************************************************)
EXTENDS PtkSync, SequenceTheorems, TLAPS

USE DEF Side

LEMMA InitTypeOK == Init => TypeOK
<1> SUFFICES ASSUME Init PROVE TypeOK
  OBVIOUS
<1>1. WifiTypeOK
  BY DEF Init, WifiInit, WifiTypeOK
<1>2. Unopened \in ConnType
  BY DEF Unopened, ConnType, Opt
<1>3. conn \in [Sess -> ConnType]
  BY <1>2 DEF Init
<1>4. /\ cur \in [Side -> Opt(PTK)] /\ used \in [Side -> SUBSET PTK]
      /\ apLast \in Opt(PTK) /\ staHold \in Opt(PTK)
      /\ pending \in Opt(PTK) /\ staLast \in Opt(PTK)
  BY DEF Init, Opt
<1>5. /\ apQ \in Seq(Push) /\ staQ \in Seq(Push)
      /\ apPc \in ApPcs /\ staPc \in StaPcs
  BY DEF Init, ApPcs, StaPcs
<1>6. nSess \in 0 .. MaxSess /\ served \in 0 .. MaxSess /\ calm \in BOOLEAN
  <2>1. MaxSess \in Nat
    BY SyncAssumption
  <2>2. nSess = 0 /\ served = 0 /\ calm = FALSE
    BY DEF Init
  <2>3. nSess \in 0 .. MaxSess /\ served \in 0 .. MaxSess
    BY <2>1, <2>2
  <2>4. calm \in BOOLEAN
    BY <2>2
  <2>5. QED
    BY <2>3, <2>4
<1>7. QED
  BY <1>1, <1>3, <1>4, <1>5, <1>6 DEF TypeOK

LEMMA LeaveType ==
  ASSUME WifiTypeOK, NEW s \in Side, Leave(s)
  PROVE  WifiTypeOK'
  BY DEF Leave, WifiTypeOK

LEMMA DisconnectType ==
  ASSUME WifiTypeOK, NEW s \in Side, DisconnectWifi(s)
  PROVE  WifiTypeOK'
  BY LeaveType DEF DisconnectWifi, wifiVars, WifiTypeOK

LEMMA SendPtkType ==
  ASSUME WifiTypeOK, NEW s \in Side, NEW k \in PTK,
         NEW delivered \in BOOLEAN, NEW ok \in BOOLEAN,
         SendPtk(s, k, delivered, ok)
  PROVE  WifiTypeOK'
  BY DEF SendPtk, WifiTypeOK

LEMMA WifiStepType ==
  ASSUME WifiTypeOK,
         \/ Associate
         \/ \E s \in Side :
              NotifyAssoc(s) \/ NoticeLeft(s) \/ RekeyTimer(s) \/ HandlePtk(s)
  PROVE  WifiTypeOK'
<1>1. CASE Associate
  BY <1>1 DEF Associate, WifiTypeOK
<1>2. CASE \E s \in Side : NotifyAssoc(s)
  BY <1>2 DEF NotifyAssoc, WifiTypeOK
<1>3. CASE \E s \in Side : NoticeLeft(s)
  BY <1>3, LeaveType DEF NoticeLeft
<1>4. CASE \E s \in Side : RekeyTimer(s)
  BY <1>4 DEF RekeyTimer, WifiTypeOK
<1>5. CASE \E s \in Side : HandlePtk(s)
  BY <1>5 DEF HandlePtk, WifiTypeOK
<1>6. QED
  BY <1>1, <1>2, <1>3, <1>4, <1>5

LEMMA PushToType ==
  ASSUME NEW q \in Seq(Push), NEW q1, NEW k \in PTK,
         \/ Len(q) < QMax /\ (q1 = Append(q, k) \/ q1 = Append(q, Short))
         \/ q1 = q
  PROVE  q1 \in Seq(Push)
<1>1. k \in Push /\ Short \in Push
  BY DEF Push
<1>2. QED
  BY <1>1

LEMMA LifiType ==
  ASSUME TypeOK, LifiStep
  PROVE  TypeOK'
<1>1. PICK k \in PTK : LifiStaDerive(k) \/ LifiApDerive(k)
  BY DEF LifiStep
<1>2. /\ cur' \in [Side -> Opt(PTK)] /\ used' \in [Side -> SUBSET PTK]
      /\ calm' \in BOOLEAN
      /\ WifiTypeOK'
  BY <1>1 DEF LifiStaDerive, LifiApDerive, Derive, TypeOK, WifiTypeOK, wifiVars, Opt
<1>3. CASE LifiStaDerive(k)
  <2>1. staQ' \in Seq(Push)
    BY <1>3, PushToType DEF LifiStaDerive, PushTo, TypeOK
  <2>2. QED
    BY <1>2, <1>3, <2>1 DEF LifiStaDerive, TypeOK, apVars
<1>4. CASE LifiApDerive(k)
  <2>1. apQ' \in Seq(Push)
    BY <1>4, PushToType DEF LifiApDerive, PushTo, TypeOK
  <2>2. QED
    BY <1>2, <1>4, <2>1 DEF LifiApDerive, TypeOK, staVars
<1>5. QED
  BY <1>1, <1>3, <1>4

-----------------------------------------------------------------------------
(* Type correctness.                                                       *)

\* Updates of a connection's fields that keep it one.
LEMMA ConnFields ==
  ASSUME NEW c \in ConnType
  PROVE  /\ \A q \in Seq({"SYNC", "INSTALL"}) :
               [c EXCEPT !.toSta = q] \in ConnType
         /\ \A q \in Seq({"READY", "NOTREADY", "FAIL", "OK"}) :
               [c EXCEPT !.toAp = q] \in ConnType
         /\ \A v \in {"none", "open", "synced", "failed"} :
               [c EXCEPT !.ap = v] \in ConnType
         /\ \A k \in Opt(PTK) : [c EXCEPT !.okKey = k] \in ConnType
         /\ [c EXCEPT !.staOpen = FALSE] \in ConnType
         /\ [c EXCEPT !.late = TRUE] \in ConnType
  BY DEF ConnType

LEMMA ConnQueues ==
  ASSUME NEW c \in ConnType
  PROVE  /\ \A m \in {"SYNC", "INSTALL"} :
               Append(c.toSta, m) \in Seq({"SYNC", "INSTALL"})
         /\ \A m \in {"READY", "NOTREADY", "FAIL", "OK"} :
               Append(c.toAp, m) \in Seq({"READY", "NOTREADY", "FAIL", "OK"})
         /\ c.toSta # <<>> => Tail(c.toSta) \in Seq({"SYNC", "INSTALL"})
         /\ c.toAp # <<>> =>
               Tail(c.toAp) \in Seq({"READY", "NOTREADY", "FAIL", "OK"})
  BY DEF ConnType

\* An update of one connection, the index being a session or not.
LEMMA ConnUpdate ==
  ASSUME TypeOK, NEW i, NEW c, i \in Sess => c \in ConnType,
         conn' = [conn EXCEPT ![i] = c]
  PROVE  conn' \in [Sess -> ConnType]
  BY DEF TypeOK

\* TypeOK alone is not inductive: a receiver forwards only a PTK, because it
\* has taken one from its queue (AP) or found one pending under the lock (STA),
\* and the sync server works on a connection it has accepted.
Grounded ==
    /\ apPc # "accept" => apLast \in PTK
    /\ staPc \in {"forward", "record"} => pending \in PTK
    /\ staPc # "accept" => served \in Sess

LEMMA ApType ==
  ASSUME TypeOK, Grounded, ApStep
  PROVE  TypeOK'
<1> USE DEF apRest, lifiVars, staVars, wifiVars, ApPcs
<1>1. CASE ApAcceptPush
  <2>1. apQ' \in Seq(Push)
    BY <1>1 DEF ApAcceptPush, TypeOK
  <2>2. apLast' \in Opt(PTK) /\ apPc' \in ApPcs
    BY <1>1 DEF ApAcceptPush, TypeOK, Push, Opt
  <2>3. QED
    BY <1>1, <2>1, <2>2 DEF ApAcceptPush, TypeOK, WifiTypeOK
<1>2. CASE ApConnect
  <2>1. Opened(apLast) \in ConnType
    <3>1. <<"SYNC">> \in Seq({"SYNC", "INSTALL"})
      OBVIOUS
    <3>2. Unopened \in ConnType
      BY DEF Unopened, ConnType, Opt
    <3>3. QED
      BY <3>1, <3>2 DEF Opened, ConnType, TypeOK
  <2>2. conn' \in [Sess -> ConnType]
    BY <1>2, <2>1 DEF ApConnect, TypeOK
  <2>3. nSess' \in 0 .. MaxSess
    BY <1>2, SyncAssumption DEF ApConnect, TypeOK
  <2>4. calm' \in BOOLEAN
    BY <1>2 DEF ApConnect, LinkUp, Drained
  <2>5. QED
    BY <1>2, <2>2, <2>3, <2>4 DEF ApConnect, TypeOK, WifiTypeOK
<1>3. CASE ApConnectFail
  BY <1>3 DEF ApConnectFail, TypeOK, WifiTypeOK
<1>4. ASSUME NEW pc, NEW reply, NEW next \in ApPcs, ApReceive(pc, reply, next)
      PROVE  TypeOK'
  <2>1. conn' \in [Sess -> ConnType]
    BY <1>4, ConnFields, ConnQueues, ConnUpdate DEF ApReceive, TypeOK
  <2>2. QED
    BY <1>4, <2>1 DEF ApReceive, TypeOK, WifiTypeOK
<1>5. CASE ApRecvReady \/ ApRecvOk
  BY <1>4, <1>5 DEF ApRecvReady, ApRecvOk
<1>6. CASE ApSendInstall
  <2>1. conn' \in [Sess -> ConnType]
    BY <1>6, ConnFields, ConnQueues, ConnUpdate DEF ApSendInstall, TypeOK
  <2>2. QED
    BY <1>6, <2>1 DEF ApSendInstall, TypeOK, WifiTypeOK
<1>7. CASE ApSyncFail
  <2>1. conn' \in [Sess -> ConnType]
    BY <1>7, ConnFields, ConnUpdate DEF ApSyncFail, TypeOK
  <2>2. QED
    BY <1>7, <2>1 DEF ApSyncFail, TypeOK, WifiTypeOK
<1>8. CASE ApForward
  <2>1. PICK d \in BOOLEAN, o \in BOOLEAN :
           SendPtk("ap", apLast, d, o) /\ calm' = (calm /\ d)
    BY <1>8 DEF ApForward
  <2>2. conn' \in [Sess -> ConnType]
    BY <1>8, ConnFields, ConnUpdate DEF ApForward, TypeOK
  <2>3. WifiTypeOK'
    BY <1>8, <2>1, SendPtkType DEF TypeOK, Grounded, ApForward
  <2>4. calm' \in BOOLEAN
    BY <2>1
  <2>5. QED
    BY <1>8, <2>2, <2>3, <2>4 DEF ApForward, TypeOK
<1>9. CASE ApDrop
  BY <1>9, DisconnectType DEF ApDrop, TypeOK
<1>10. QED
  BY <1>1, <1>2, <1>3, <1>5, <1>6, <1>7, <1>8, <1>9 DEF ApStep

\* The steps of the sync server that change two or three fields at once.
LEMMA ConnReply ==
  ASSUME TypeOK, NEW i,
         \/ conn' = [conn EXCEPT ![i].toAp = Append(@, "NOTREADY"),
                                 ![i].staOpen = FALSE]
         \/ /\ conn[i].toSta # <<>>
            /\ conn' = [conn EXCEPT ![i].toSta = Tail(@),
                                    ![i].toAp = Append(@, "NOTREADY")]
         \/ conn' = [conn EXCEPT ![i].toAp = Append(@, "OK"),
                                 ![i].okKey = pending,
                                 ![i].staOpen = FALSE]
         \/ UNCHANGED conn
  PROVE  conn' \in [Sess -> ConnType]
<1>1. /\ conn \in [Sess -> ConnType]
      /\ pending \in Opt(PTK)
  BY DEF TypeOK
<1>2. DOMAIN conn' = Sess
  BY <1>1
<1>3. ASSUME NEW j \in Sess PROVE conn'[j] \in ConnType
  <2>1. CASE j # i \/ UNCHANGED conn
    BY <1>1, <2>1
  <2>2. CASE j = i /\ conn' = [conn EXCEPT ![i].toAp = Append(@, "NOTREADY"),
                                           ![i].staOpen = FALSE]
    <3>1. conn'[i] = [[conn[i] EXCEPT !.toAp = Append(@, "NOTREADY")]
                        EXCEPT !.staOpen = FALSE]
      BY <1>1, <2>2
    <3>2. QED
      BY <1>1, <2>2, <3>1, ConnFields, ConnQueues
  <2>3. CASE /\ j = i
             /\ conn[i].toSta # <<>>
             /\ conn' = [conn EXCEPT ![i].toSta = Tail(@),
                                     ![i].toAp = Append(@, "NOTREADY")]
    <3>1. conn'[i] = [[conn[i] EXCEPT !.toSta = Tail(@)]
                        EXCEPT !.toAp = Append(@, "NOTREADY")]
      BY <1>1, <2>3
    <3>2. QED
      BY <1>1, <2>3, <3>1, ConnFields, ConnQueues
  <2>4. CASE j = i /\ conn' = [conn EXCEPT ![i].toAp = Append(@, "OK"),
                                           ![i].okKey = pending,
                                           ![i].staOpen = FALSE]
    <3>1. conn'[i] = [[[conn[i] EXCEPT !.toAp = Append(@, "OK")]
                        EXCEPT !.okKey = pending] EXCEPT !.staOpen = FALSE]
      BY <1>1, <2>4
    <3>2. QED
      BY <1>1, <2>4, <3>1, ConnFields, ConnQueues
  <2>5. QED
    BY <2>1, <2>2, <2>3, <2>4
<1>4. QED
  BY <1>1, <1>2, <1>3

LEMMA StaMainType ==
  ASSUME TypeOK, Grounded, StaMainStep
  PROVE  TypeOK'
<1> USE DEF lifiVars, apVars, wifiVars
<1>1. CASE StaAcceptPush
  <2>1. staQ' \in Seq(Push)
    BY <1>1 DEF StaAcceptPush, TypeOK
  <2>2. staHold' \in Opt(PTK)
    BY <1>1 DEF StaAcceptPush, TypeOK, Push, Opt
  <2>3. QED
    BY <1>1, <2>1, <2>2 DEF StaAcceptPush, TypeOK, WifiTypeOK
<1>2. CASE StaStorePending
  <2>1. conn' \in [Sess -> ConnType]
    BY <1>2, ConnFields, ConnUpdate DEF StaStorePending, TypeOK
  <2>2. QED
    BY <1>2, <2>1 DEF StaStorePending, TypeOK, WifiTypeOK, Opt
<1>3. QED
  BY <1>1, <1>2 DEF StaMainStep

LEMMA StaSyncType ==
  ASSUME TypeOK, Grounded, StaSyncStep
  PROVE  TypeOK'
<1> USE DEF staRest, lifiVars, apVars, wifiVars, StaPcs
<1>1. CASE StaAcceptConn
  BY <1>1, SyncAssumption DEF StaAcceptConn, TypeOK, WifiTypeOK
<1>2. CASE StaRecvSync
  <2>1. conn' \in [Sess -> ConnType]
    BY <1>2, ConnFields, ConnQueues, ConnUpdate DEF StaRecvSync, TypeOK
  <2>2. pending' \in Opt(PTK)
    BY <1>2 DEF StaRecvSync, TypeOK, ConnType, Grounded
  <2>3. QED
    BY <1>2, <2>1, <2>2 DEF StaRecvSync, TypeOK, WifiTypeOK
<1>3. CASE StaSendReady
  <2>1. conn' \in [Sess -> ConnType]
    BY <1>3, ConnFields, ConnQueues, ConnUpdate DEF StaSendReady, TypeOK
  <2>2. QED
    BY <1>3, <2>1 DEF StaSendReady, TypeOK, WifiTypeOK
<1>4. CASE StaSendNotReady
  <2>1. conn' \in [Sess -> ConnType]
    BY <1>4, ConnReply DEF StaSendNotReady, TypeOK
  <2>2. QED
    BY <1>4, <2>1 DEF StaSendNotReady, TypeOK, WifiTypeOK
<1>5. CASE StaRecvInstall
  <2>1. conn' \in [Sess -> ConnType]
    <3>1. CASE conn' = [conn EXCEPT ![served].toSta = Tail(@)]
      BY <1>5, <3>1, ConnFields, ConnQueues, ConnUpdate
         DEF StaRecvInstall, TypeOK
    <3>2. CASE conn' = [conn EXCEPT ![served].toSta = Tail(@),
                                    ![served].toAp = Append(@, "NOTREADY")]
      BY <1>5, <3>2, ConnReply DEF StaRecvInstall, TypeOK
    <3>3. QED
      BY <1>5, <3>1, <3>2 DEF StaRecvInstall
  <2>2. staPc' \in StaPcs
    BY <1>5 DEF StaRecvInstall
  <2>3. QED
    BY <1>5, <2>1, <2>2 DEF StaRecvInstall, TypeOK, WifiTypeOK
<1>6. CASE StaRecvEof
  <2>1. conn' \in [Sess -> ConnType]
    BY <1>6, ConnFields, ConnQueues, ConnUpdate DEF StaRecvEof, TypeOK
  <2>2. QED
    BY <1>6, <2>1 DEF StaRecvEof, TypeOK, WifiTypeOK
<1>7. CASE StaForward
  <2>1. PICK d \in BOOLEAN, o \in BOOLEAN :
           /\ SendPtk("sta", pending, d, o)
           /\ calm' = (calm /\ d)
           /\ IF o THEN staPc' = "record" /\ UNCHANGED conn
              ELSE /\ staPc' = "failing"
                   /\ conn' = [conn EXCEPT ![served].toAp = Append(@, "FAIL")]
    BY <1>7 DEF StaForward
  <2>2. conn' \in [Sess -> ConnType] /\ staPc' \in StaPcs
    BY <2>1, ConnFields, ConnQueues, ConnUpdate DEF TypeOK
  <2>3. WifiTypeOK'
    BY <1>7, <2>1, SendPtkType DEF TypeOK, Grounded, StaForward
  <2>4. calm' \in BOOLEAN
    BY <2>1
  <2>5. QED
    BY <1>7, <2>2, <2>3, <2>4 DEF StaForward, TypeOK
<1>8. CASE StaRecord
  <2>1. conn' \in [Sess -> ConnType]
    BY <1>8, ConnReply DEF StaRecord, TypeOK
  <2>2. staPc' \in StaPcs
    BY <1>8 DEF StaRecord
  <2>3. QED
    BY <1>8, <2>1, <2>2 DEF StaRecord, TypeOK, WifiTypeOK, Opt
<1>9. CASE StaTimeout
  BY <1>9 DEF StaTimeout, TypeOK, WifiTypeOK
<1>10. CASE StaDrop
  <2>1. conn' \in [Sess -> ConnType]
    BY <1>10, ConnFields, ConnUpdate DEF StaDrop, TypeOK
  <2>2. QED
    BY <1>10, <2>1, DisconnectType DEF StaDrop, TypeOK
<1>11. QED
  BY <1>1, <1>2, <1>3, <1>4, <1>5, <1>6, <1>7, <1>8, <1>9, <1>10
     DEF StaSyncStep

LEMMA WifiType ==
  ASSUME TypeOK,
         WifiStep \/ \E s \in Side : ControlDrop(s) \/ WifiHandlePtk(s)
  PROVE  TypeOK'
<1> USE DEF wifiRest, lifiVars, apVars, staVars
<1>1. CASE WifiStep
  BY <1>1, WifiStepType DEF WifiStep, TypeOK
<1>2. CASE \E s \in Side : ControlDrop(s)
  BY <1>2, DisconnectType DEF ControlDrop, TypeOK
<1>3. CASE \E s \in Side : WifiHandlePtk(s)
  <2>1. PICK s \in Side : WifiHandlePtk(s)
    BY <1>3
  <2>2. WifiTypeOK'
    BY <2>1, WifiStepType DEF WifiHandlePtk, TypeOK
  <2>3. calm' \in BOOLEAN
    BY <2>1 DEF WifiHandlePtk
  <2>4. QED
    BY <2>1, <2>2, <2>3 DEF WifiHandlePtk, TypeOK
<1>4. QED
  BY <1>1, <1>2, <1>3

LEMMA StutterType ==
  ASSUME TypeOK, Grounded, UNCHANGED vars
  PROVE  TypeOK' /\ Grounded'
  BY DEF TypeOK, WifiTypeOK, Grounded, vars, lifiVars, apVars, staVars, wifiVars

\* No step takes the key away from a receiver that is about to forward it.
LEMMA GroundedStep ==
  ASSUME TypeOK, Grounded, Next
  PROVE  Grounded'
<1> USE DEF Grounded, lifiVars, apVars, staVars, wifiVars
<1>1. CASE LifiStep
  BY <1>1 DEF LifiStep, LifiStaDerive, LifiApDerive
<1>2. CASE ApStep
  <2> USE DEF apRest
  <2>1. CASE ApAcceptPush
    BY <2>1 DEF ApAcceptPush, TypeOK, Push
  <2>2. CASE ApConnect \/ ApConnectFail \/ ApSendInstall \/ ApSyncFail
    BY <2>2 DEF ApConnect, ApConnectFail, ApSendInstall, ApSyncFail
  <2>3. CASE ApRecvReady \/ ApRecvOk
    BY <2>3 DEF ApRecvReady, ApRecvOk, ApReceive
  <2>4. CASE ApForward \/ ApDrop
    BY <2>4 DEF ApForward, ApDrop
  <2>5. QED
    BY <1>2, <2>1, <2>2, <2>3, <2>4 DEF ApStep
<1>3. CASE StaMainStep
  BY <1>3 DEF StaMainStep, StaAcceptPush, StaStorePending, Locked
<1>4. CASE StaSyncStep
  <2> USE DEF staRest
  <2>1. CASE StaAcceptConn
    BY <2>1, SyncAssumption DEF StaAcceptConn, TypeOK, Sess
  <2>6. CASE StaRecvSync \/ StaSendReady \/ StaSendNotReady
    BY <2>6 DEF StaRecvSync, StaSendReady, StaSendNotReady
  <2>2. CASE StaRecvInstall
    BY <2>2 DEF StaRecvInstall, TypeOK, Opt
  <2>3. CASE StaRecvEof \/ StaRecord \/ StaTimeout \/ StaDrop
    BY <2>3 DEF StaRecvEof, StaRecord, StaTimeout, StaDrop
  <2>4. CASE StaForward
    BY <2>4 DEF StaForward
  <2>5. QED
    BY <1>4, <2>1, <2>2, <2>3, <2>4, <2>6 DEF StaSyncStep
<1>5. CASE WifiStep \/ \E s \in Side : ControlDrop(s) \/ WifiHandlePtk(s)
  BY <1>5 DEF WifiStep, ControlDrop, WifiHandlePtk, wifiRest
<1>6. QED
  BY <1>1, <1>2, <1>3, <1>4, <1>5 DEF Next, ReceiverStep

LEMMA StepType ==
  ASSUME TypeOK, Grounded, [Next]_vars
  PROVE  TypeOK' /\ Grounded'
  BY GroundedStep, LifiType, ApType, StaMainType, StaSyncType, WifiType,
     StutterType DEF Next, ReceiverStep

\* Every variable keeps its type, the keys in the listeners of the WiFi daemons
\* included: no receiver ever forwards the absence of a PTK.
THEOREM TypeCorrect == Spec => [](TypeOK /\ Grounded)
<1>1. Init => TypeOK /\ Grounded
  BY InitTypeOK DEF Init, Grounded
<1>2. TypeOK /\ Grounded /\ [Next]_vars => (TypeOK /\ Grounded)'
  BY StepType
<1>3. QED
  BY <1>1, <1>2, PTL DEF Spec
=============================================================================

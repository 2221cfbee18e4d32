--------------------------- MODULE LightGuardProofs ---------------------------
(***************************************************************************)
(* The handshake and the receivers put together: FourWay does what PtkSync *)
(* assumes of the LiFi daemons, so that what is proved of each holds of    *)
(* both, and the key that WiFi ends with is the key of LiFi.               *)
(*                                                                         *)
(*   Carried  what a daemon has derived is behind its latest PTK: on the   *)
(*            side of hostapd by its ANonce, on the other side by SNonce,  *)
(*            ANonce and PMK.  OnePtkEach and StaNeverReturns keep it so.  *)
(***************************************************************************)
EXTENDS LightGuard, FourWayPushes

\* The theorems of PtkSync, for the PTKs that FourWay derives.
P == INSTANCE PtkSyncAgreement WITH cur <- [ap |-> apPushed, sta |-> staPushed]

Carried ==
    /\ used \in [{"ap", "sta"} -> SUBSET PTK]
    /\ \A k \in used["ap"] : k = apPushed \/ k.an < apPushed.an
    /\ \A k \in used["sta"] : k = staPushed \/ Earlier(k, staPushed)

LEMMA EarlierOrder ==
  ASSUME NEW k \in OptKey, NEW l \in OptKey, NEW n \in OptKey
  PROVE  /\ ~Earlier(k, k)
         /\ Earlier(k, l) /\ Earlier(l, n) => Earlier(k, n)
<1>1. \A x \in OptKey : x.pmk \in Int /\ x.an \in Int /\ x.sn \in Int
  BY FourWayAssumption DEF OptKey, Key, NoKey
<1>2. QED
  BY <1>1 DEF Earlier

\* A step of the system is one of the handshake, or none.
LEMMA SystemFourWay == [SystemNext]_allVars => [Next]_vars
  BY DEF SystemNext, allVars, HostapdReceives, SupplicantReceives, LifiElse,
         WifiSide, Next

THEOREM SystemHasFourWay == SystemSpec => Spec
<1>1. SystemInit => Init
  BY DEF SystemInit
<1>2. QED
  BY <1>1, SystemFourWay, PTL DEF SystemSpec, Spec

-----------------------------------------------------------------------------
(* The steps of the handshake, as steps of PtkSync                         *)

\* What the handshake owes the receivers in a step of its own.
Owed ==
    /\ Carried
    /\ apPushed \in OptKey /\ staPushed \in OptKey
    /\ apPushed' # apPushed => apPushed.an < apPushed'.an
    /\ staPushed' # staPushed => Earlier(staPushed, staPushed')

LEMMA Handshake ==
  ASSUME Fresh, Carried, Agreement, Pushes, StaLast, [Next]_vars
  PROVE  Owed
<1>1. apPushed \in OptKey /\ staPushed \in OptKey
  BY TypeParts DEF Fresh, Typed
<1>2. apPushed' # apPushed => apPushed'.an > apPushed.an
  BY PushesStep
<1>3. apPushed' # apPushed => apPushed.an < apPushed'.an
  BY <1>2
<1>4. staPushed' # staPushed => Earlier(staPushed, staPushed')
  BY StaLastStep
<1>5. QED
  BY <1>1, <1>3, <1>4 DEF Owed

LEMMA HostapdDerives ==
  ASSUME Owed, Pushes, HostapdReceives, ApDerives
  PROVE  Carried' /\ \E k \in PTK : Sync!LifiApDerive(k)
<1>1. /\ apPushed' \in PTK
      /\ Sync!PushTo(apQ, apPushed')
      /\ used' = [used EXCEPT !["ap"] = @ \cup {apPushed'}]
      /\ UNCHANGED <<staQ, recvVars, staPushed>>
  BY DEF HostapdReceives, ApReceive, staVars
<1>2. staPushed # NoKey
  <2>1. Head(toAp) \in Range(toAp) /\ Head(toAp).type = "m2"
    BY DEF ApDerives, Range
  <2>2. QED
    BY <2>1 DEF Pushes, M2s
<1>3. /\ used \in [{"ap", "sta"} -> SUBSET PTK]
      /\ \A k \in used["ap"] : k = apPushed \/ k.an < apPushed.an
      /\ \A k \in used["sta"] : k = staPushed \/ Earlier(k, staPushed)
      /\ apPushed' # apPushed => apPushed.an < apPushed'.an
      /\ apPushed.an \in Int /\ apPushed'.an \in Int
      /\ \A k \in used["ap"] : k.an \in Int
  BY <1>1, LightGuardAssumption DEF Owed, Carried, OptKey, Key, NoKey
<1>4. apPushed' = apPushed \/ apPushed' \notin used["ap"]
  BY <1>3
<1>5. /\ used'["ap"] = used["ap"] \cup {apPushed'} /\ used'["sta"] = used["sta"]
      /\ used' \in [{"ap", "sta"} -> SUBSET PTK]
  BY <1>1, <1>3
<1>6. \A k \in used'["ap"] : k = apPushed' \/ k.an < apPushed'.an
  BY <1>3, <1>5
<1>7. Carried'
  BY <1>1, <1>3, <1>5, <1>6 DEF Carried
<1>8. \E k \in PTK : Sync!LifiApDerive(k)
  <2>1. PICK k \in PTK : k = apPushed'
    BY <1>1
  <2>2. Sync!LifiApDerive(k)
    BY <1>1, <1>2, <1>4, <2>1
    DEF Sync!LifiApDerive, Sync!Derive, Sync!staVars, Sync!wifiVars, recvVars
  <2>3. QED
    BY <2>2
<1>9. QED
  BY <1>7, <1>8

LEMMA SupplicantDerives ==
  ASSUME Owed, SupplicantReceives, StaDerives
  PROVE  Carried' /\ \E k \in PTK : Sync!LifiStaDerive(k)
<1>1. /\ staPushed' \in PTK
      /\ Sync!PushTo(staQ, staPushed')
      /\ used' = [used EXCEPT !["sta"] = @ \cup {staPushed'}]
      /\ UNCHANGED <<apQ, recvVars, apPushed>>
  BY DEF SupplicantReceives, StaReceive, apVars
<1>2. /\ used \in [{"ap", "sta"} -> SUBSET PTK]
      /\ \A k \in used["ap"] : k = apPushed \/ k.an < apPushed.an
      /\ \A k \in used["sta"] : k = staPushed \/ Earlier(k, staPushed)
      /\ staPushed' # staPushed => Earlier(staPushed, staPushed')
      /\ staPushed \in OptKey /\ staPushed' \in OptKey
      /\ used["sta"] \subseteq OptKey
  BY <1>1, LightGuardAssumption DEF Owed, Carried, OptKey
<1>3. \A k \in used["sta"] : k = staPushed' \/ Earlier(k, staPushed')
  BY <1>2, EarlierOrder
<1>4. staPushed' = staPushed \/ staPushed' \notin used["sta"]
  BY <1>2, EarlierOrder
<1>5. /\ used'["sta"] = used["sta"] \cup {staPushed'} /\ used'["ap"] = used["ap"]
      /\ used' \in [{"ap", "sta"} -> SUBSET PTK]
  BY <1>1, <1>2
<1>6. Carried'
  BY <1>1, <1>2, <1>3, <1>5 DEF Carried
<1>7. \E k \in PTK : Sync!LifiStaDerive(k)
  <2>1. PICK k \in PTK : k = staPushed'
    BY <1>1
  <2>2. Sync!LifiStaDerive(k)
    BY <1>1, <1>4, <2>1
    DEF Sync!LifiStaDerive, Sync!Derive, Sync!apVars, Sync!wifiVars, recvVars
  <2>3. QED
    BY <2>2
<1>8. QED
  BY <1>6, <1>7

\* Other steps of the handshake leave both PTKs, and all of PtkSync, alone.
LEMMA NothingDerived ==
  ASSUME \/ HostapdReceives /\ ~ApDerives
         \/ SupplicantReceives /\ ~StaDerives
         \/ LifiElse
         \/ UNCHANGED allVars
  PROVE  UNCHANGED <<apPushed, staPushed, syncVars>>
<1>1. CASE HostapdReceives /\ ~ApDerives
  <2>1. ~ApMsg2(Head(toAp)) \/ ~Readable(Head(toAp), apTk)
    BY <1>1 DEF HostapdReceives, ApReceive, ApDerives, ApMsg2
  <2>2. QED
    BY <1>1, <2>1
    DEF HostapdReceives, ApReceive, ApAccepts, ApIgnores, ApMsg2, ApMsg4, ApDeauth,
        apVars, staVars
<1>2. CASE SupplicantReceives /\ ~StaDerives
  BY <1>2
  DEF SupplicantReceives, StaReceive, StaDerives, StaAccepts, StaIgnores, StaMsg1,
      StaMsg3, StaMsg3Again, StaDeauthenticates, StaDeauth, DropKeys, apVars, staVars
<1>3. CASE LifiElse
  BY <1>3
  DEF LifiElse, Setptk, ApTimeout, ApRejects, ApInactivity, StaSetPsk, Associate,
      StaLeaves, DropKeys, LoseToSta, LoseToAp, apVars, staVars
<1>4. CASE UNCHANGED allVars
  BY <1>4 DEF allVars, vars, apVars, staVars
<1>5. QED
  BY <1>1, <1>2, <1>3, <1>4

LEMMA CarriedStep ==
  ASSUME Fresh, Agreement, Pushes, StaLast, Carried, [SystemNext]_allVars
  PROVE  Carried' /\ [Sync!Next]_(Sync!vars)
<1>1. Owed
  BY SystemFourWay, Handshake
<1>2. CASE HostapdReceives /\ ApDerives
  <2>1. Carried' /\ \E k \in PTK : Sync!LifiApDerive(k)
    BY <1>1, <1>2, HostapdDerives
  <2>2. QED
    BY <2>1 DEF Sync!Next, Sync!LifiStep
<1>3. CASE SupplicantReceives /\ StaDerives
  <2>1. Carried' /\ \E k \in PTK : Sync!LifiStaDerive(k)
    BY <1>1, <1>3, SupplicantDerives
  <2>2. QED
    BY <2>1 DEF Sync!Next, Sync!LifiStep
<1>4. CASE \/ HostapdReceives /\ ~ApDerives
           \/ SupplicantReceives /\ ~StaDerives
           \/ LifiElse
           \/ UNCHANGED allVars
  <2>1. UNCHANGED <<apPushed, staPushed, syncVars>>
    BY <1>4, NothingDerived
  <2>2. UNCHANGED Sync!vars
    BY <2>1
    DEF syncVars, recvVars, Sync!vars, Sync!lifiVars, Sync!apVars, Sync!staVars,
        Sync!wifiVars
  <2>3. Carried'
    BY <2>1 DEF Carried, syncVars
  <2>4. QED
    BY <2>2, <2>3
<1>5. CASE WifiSide
  <2>1. UNCHANGED <<apPushed, staPushed>> /\ Sync!ReceiverStep
    BY <1>5 DEF WifiSide, vars, apVars, staVars
  <2>2. UNCHANGED used
    BY <2>1
    DEF Sync!ReceiverStep, Sync!ApStep, Sync!StaMainStep, Sync!StaSyncStep,
        Sync!ApAcceptPush, Sync!ApConnect, Sync!ApConnectFail, Sync!ApRecvReady,
        Sync!ApReceive, Sync!ApSendInstall, Sync!ApRecvOk, Sync!ApSyncFail,
        Sync!ApForward, Sync!ApDrop, Sync!StaAcceptPush, Sync!StaStorePending,
        Sync!StaAcceptConn, Sync!StaRecvSync, Sync!StaSendReady,
        Sync!StaSendNotReady, Sync!StaRecvInstall, Sync!StaRecvEof,
        Sync!StaForward, Sync!StaRecord, Sync!StaTimeout, Sync!StaDrop,
        Sync!WifiStep, Sync!ControlDrop, Sync!WifiHandlePtk, Sync!apRest,
        Sync!staRest, Sync!wifiRest, Sync!lifiVars
  <2>3. Carried'
    BY <2>1, <2>2 DEF Carried
  <2>4. QED
    BY <2>1, <2>3 DEF Sync!Next
<1>6. QED
  BY <1>2, <1>3, <1>4, <1>5 DEF SystemNext

LEMMA CarriedInit == SystemInit => Carried /\ Sync!Init
<1> SUFFICES ASSUME SystemInit PROVE Carried /\ Sync!Init
  OBVIOUS
<1>1. Sync!Init
  BY DEF SystemInit
<1>2. used = [s \in {"ap", "sta"} |-> {}]
  BY <1>1 DEF Sync!Init, Sync!Side
<1>3. Carried
  BY <1>2 DEF Carried
<1>4. QED
  BY <1>1, <1>3

\* In every reachable state of the system.
THEOREM SystemInvariants ==
  SystemSpec => [](Fresh /\ Agreement /\ Pushes /\ StaLast /\ Carried)
<1>1. SystemSpec => [](Fresh /\ Agreement /\ Pushes /\ StaLast)
  BY SystemHasFourWay, Freshness, Agreed, Pushed, StaLatest, PTL
<1>2. SystemInit => Carried
  BY CarriedInit
<1>3. Fresh /\ Agreement /\ Pushes /\ StaLast /\ Carried /\ [SystemNext]_allVars
          => Carried'
  BY CarriedStep
<1>4. QED
  BY <1>1, <1>2, <1>3, PTL DEF SystemSpec

\* The handshake derives PTKs as PtkSync takes it to: what is proved of PtkSync is
\* true of the system.
THEOREM KeysCarried == SystemSpec => CarriesKeys
<1>1. SystemInit => Sync!Init
  BY CarriedInit
<1>2. Fresh /\ Agreement /\ Pushes /\ StaLast /\ Carried /\ [SystemNext]_allVars
          => [Sync!Next]_(Sync!vars)
  BY CarriedStep
<1>3. QED
  BY <1>1, <1>2, SystemInvariants, PTL DEF SystemSpec, CarriesKeys, Sync!Spec

-----------------------------------------------------------------------------
(* What is proved of PtkSync, in the system                                *)

\* Sync and P are instances of the same module.
LEMMA SameNext == Sync!Next => P!Next
<1>1. Sync!ApStep => P!ApStep
  BY DEF Sync!ApStep, Sync!ApAcceptPush, Sync!ApConnect, Sync!ApConnectFail,
      Sync!ApRecvReady, Sync!ApReceive, Sync!ApSendInstall, Sync!ApRecvOk,
      Sync!ApSyncFail, Sync!ApForward, Sync!ApDrop, Sync!apRest, Sync!Side,
      Sync!lifiVars, Sync!staVars, Sync!wifiVars, Sync!LinkUp, Sync!Drained,
      Sync!Opened, Sync!Unopened, Sync!SendPtk, Sync!DisconnectWifi, Sync!Leave,
      P!ApStep, P!ApAcceptPush, P!ApConnect, P!ApConnectFail, P!ApRecvReady,
      P!ApReceive, P!ApSendInstall, P!ApRecvOk, P!ApSyncFail, P!ApForward,
      P!ApDrop, P!apRest, P!Side, P!lifiVars, P!staVars, P!wifiVars, P!LinkUp,
      P!Drained, P!Opened, P!Unopened, P!SendPtk, P!DisconnectWifi, P!Leave
<1>2. Sync!StaMainStep => P!StaMainStep
  BY DEF Sync!StaMainStep, Sync!StaAcceptPush, Sync!StaStorePending, Sync!Locked,
      Sync!Serving, Sync!lifiVars, Sync!apVars, Sync!wifiVars,
      P!StaMainStep, P!StaAcceptPush, P!StaStorePending, P!Locked, P!Serving,
      P!lifiVars, P!apVars, P!wifiVars
<1>3. Sync!StaSyncStep => P!StaSyncStep
  BY DEF Sync!StaSyncStep, Sync!StaAcceptConn, Sync!StaRecvSync, Sync!StaSendReady,
      Sync!StaSendNotReady, Sync!StaRecvInstall, Sync!StaRecvEof,
      Sync!StaForward, Sync!StaRecord, Sync!StaTimeout, Sync!StaDrop,
      Sync!staRest, Sync!lifiVars, Sync!apVars, Sync!wifiVars, Sync!SendPtk,
      Sync!DisconnectWifi, Sync!Leave,
      P!StaSyncStep, P!StaAcceptConn, P!StaRecvSync, P!StaSendReady,
      P!StaSendNotReady, P!StaRecvInstall, P!StaRecvEof, P!StaForward,
      P!StaRecord, P!StaTimeout, P!StaDrop, P!staRest, P!lifiVars, P!apVars,
      P!wifiVars, P!SendPtk, P!DisconnectWifi, P!Leave
<1>4. /\ Sync!WifiStep => P!WifiStep
      /\ \A s : Sync!ControlDrop(s) => P!ControlDrop(s)
      /\ \A s : Sync!WifiHandlePtk(s) => P!WifiHandlePtk(s)
      /\ Sync!Side = P!Side
  BY DEF Sync!WifiStep, Sync!Associate, Sync!NotifyAssoc, Sync!NoticeLeft,
      Sync!RekeyTimer, Sync!ControlDrop, Sync!WifiHandlePtk, Sync!HandlePtk,
      Sync!DisconnectWifi, Sync!Leave, Sync!Peer, Sync!Side, Sync!Drained,
      Sync!wifiRest, Sync!lifiVars, Sync!apVars, Sync!staVars, Sync!wifiVars,
      P!WifiStep, P!Associate, P!NotifyAssoc, P!NoticeLeft, P!RekeyTimer,
      P!ControlDrop, P!WifiHandlePtk, P!HandlePtk, P!DisconnectWifi, P!Leave,
      P!Peer, P!Side, P!Drained, P!wifiRest, P!lifiVars, P!apVars, P!staVars,
      P!wifiVars
<1>5. Sync!LifiStep => P!LifiStep
  BY DEF Sync!LifiStep, Sync!LifiStaDerive, Sync!LifiApDerive, Sync!Derive,
      Sync!PushTo, Sync!apVars, Sync!staVars, Sync!wifiVars,
      P!LifiStep, P!LifiStaDerive, P!LifiApDerive, P!Derive, P!PushTo, P!apVars,
      P!staVars, P!wifiVars
<1>6. QED
  BY <1>1, <1>2, <1>3, <1>4, <1>5
  DEF Sync!Next, Sync!ReceiverStep, P!Next, P!ReceiverStep

LEMMA SameSpec == Sync!Spec => P!Spec
<1>1. Sync!Init => P!Init
  BY DEF Sync!Init, Sync!WifiInit, Sync!Sess, Sync!Side, Sync!Unopened,
      P!Init, P!WifiInit, P!Sess, P!Side, P!Unopened
<1>2. UNCHANGED Sync!vars => UNCHANGED P!vars
  BY DEF Sync!vars, Sync!lifiVars, Sync!apVars, Sync!staVars, Sync!wifiVars,
      P!vars, P!lifiVars, P!apVars, P!staVars, P!wifiVars
<1>3. [Sync!Next]_(Sync!vars) => [P!Next]_(P!vars)
  BY <1>2, SameNext
<1>4. QED
  BY <1>1, <1>3, PTL DEF Sync!Spec, P!Spec

LEMMA Receivers ==
  /\ Short \notin PTK \cup {Default, NoKey} /\ MaxSess \in Nat /\ QMax \in Nat
  /\ TimerSides \subseteq P!Side
  /\ Default \notin PTK /\ NoKey \notin PTK /\ Default # NoKey
  /\ Faults \subseteq P!FaultKinds
  BY ReceiverAssumption
  DEF Sync!KeyAssumption, Sync!TimerAssumption, Sync!SyncAssumption, Sync!Side,
      Sync!FaultKinds, P!Side, P!FaultKinds

\* Type correctness of the system.
THEOREM SystemTypeCorrect == SystemSpec => [](TypeOK /\ P!TypeOK)
<1>1. SystemSpec => P!Spec
  BY KeysCarried, SameSpec DEF CarriesKeys
<1>2. P!Spec => [](P!TypeOK /\ P!Grounded)
  BY Receivers, P!TypeCorrect
<1>3. Fresh => TypeOK
  BY DEF Fresh
<1>4. QED
  BY <1>1, <1>2, <1>3, SystemInvariants, PTL

\* In the system, too, no PTK is synchronised twice, the AP installs last, and a
\* sync that succeeds leaves its PTK on both sides.
THEOREM SystemSyncs ==
  SystemSpec => [](P!EachPtkOnce /\ P!ApNeverAhead /\ P!SyncAgreement)
<1>1. SystemSpec => P!Spec
  BY KeysCarried, SameSpec DEF CarriesKeys
<1>2. P!Spec => []P!EachPtkOnce /\ []P!ApNeverAhead /\ []P!SyncAgreement
  BY Receivers, P!PtksSyncedOnce, P!ApInstallsLast, P!SyncsAgree
<1>3. QED
  BY <1>1, <1>2, PTL

\* WiFi is encrypted with the key of LiFi: WifiKeyIsLifiKey on the side of the
\* handshake, LatestInstalled on the side of the receivers.
THEOREM WifiHasLifiKey == SystemSpec => []KeyInUse
<1>1. SystemSpec => []P!LatestInstalled
  <2>1. P!Spec => []P!LatestInstalled
    BY Receivers, P!LatestPtkInstalled
  <2>2. QED
    BY <2>1, KeysCarried, SameSpec DEF CarriesKeys
<1>2. ASSUME Agreement, P!LatestInstalled PROVE KeyInUse
  <2> SUFFICES ASSUME apState = "done",
                      Faults \cap {"push", "disk"} = {},
                      apPc = "accept", apQ = <<>>,
                      calm, Sync!Drained, ~conn[nSess].late
               PROVE  \A s \in Sync!Side : wkey[s] = apTk
    BY DEF KeyInUse
  <2>1. apPushed = apTk
    BY <1>2 DEF Agreement, ApHolds
  <2>2. P!Drained
    BY DEF Sync!Drained, P!Drained, Sync!Side, P!Side
  <2>3. \A s \in P!Side : wkey[s] = apPushed
    BY <1>2, <2>2 DEF P!LatestInstalled
  <2>4. QED
    BY <2>1, <2>3 DEF Sync!Side, P!Side
<1>3. QED
  BY <1>1, <1>2, SystemInvariants, PTL
=============================================================================

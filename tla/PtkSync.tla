------------------------------ MODULE PtkSync ------------------------------
(***************************************************************************)
(* The cross-link PTK synchronisation of LightGuard: ptk_receiver_ap.py    *)
(* and ptk_receiver_sta.py carry the PTK of each LiFi handshake into the   *)
(* two WiFi daemons of WifiLink.                                           *)
(*                                                                         *)
(*   LiFi hostapd  --8877-->  receiver (AP)  --9899-->  WiFi hostapd       *)
(*                              |  ^  SYNC, READY, INSTALL, OK  (2223)     *)
(*                              v  |                                       *)
(*   LiFi supplicant --8877--> receiver (STA) --9900--> WiFi supplicant    *)
(*                                                                         *)
(* Threads: the AP receiver's main thread (apPc); the STA receiver's sync  *)
(* server thread (staPc) and main thread (staHold), which share            *)
(* pending_ptk_hex under pending_ptk_lock.  A receive that times out after *)
(* 15 s is a choice open in every waiting state.                           *)
(***************************************************************************)
EXTENDS WifiLink

CONSTANTS
    Short,      \* a connection to port 8877 that closes before 48 bytes
    MaxSess,    \* bound: sync connections the AP opens
    QMax        \* bound: pushes waiting in a port 8877 listen queue

ASSUME SyncAssumption ==
    /\ Short \notin PTK \cup {Default, NoKey}
    /\ MaxSess \in Nat
    /\ QMax \in Nat

Sess == 1 .. MaxSess

VARIABLES
    cur,      \* cur[s]: the PTK that the LiFi daemon of side s derived last
    used,     \* used[s]: the PTKs it has derived so far
    apQ,      \* pushes the AP receiver has not accepted yet
    apPc,     \* AP receiver, main thread
    apLast,   \* last_ptk_hex of the AP receiver
    nSess,    \* sync connections opened so far; the latest one has this index
    conn,     \* the sync connections, see ConnType
    staQ,     \* pushes the STA receiver has not accepted yet
    staHold,  \* PTK the STA main thread is about to store as pending
    pending,  \* pending_ptk_hex
    staLast,  \* last_ptk_hex of the STA receiver
    staPc,    \* STA receiver, sync server thread
    served,   \* sync connections accepted so far; the latest has this index
    calm      \* history: WiFi undisturbed since the latest connection opened

lifiVars == <<cur, used>>
apVars == <<apQ, apPc, apLast, nSess>>
staVars == <<staQ, staHold, pending, staLast, staPc, served>>
vars == <<lifiVars, apVars, conn, staVars, calm, wifiVars>>

Opt(S) == S \cup {NoKey}
Push == PTK \cup {Short}

\* One TCP connection to port 2223.  toSta and toAp hold what was sent and
\* not yet received; ap is the AP's end (and its verdict once closed), staOpen
\* the STA's.  okKey and late are history: the PTK the STA forwarded before it
\* answered OK, and whether a LiFi push replaced the pending PTK after SYNC.
ConnType ==
    [key : Opt(PTK),
     toSta : Seq({"SYNC", "INSTALL"}),
     toAp : Seq({"READY", "NOTREADY", "FAIL", "OK"}),
     ap : {"none", "open", "synced", "failed"},
     staOpen : BOOLEAN,
     okKey : Opt(PTK),
     late : BOOLEAN]

Unopened ==
    [key |-> NoKey, toSta |-> <<>>, toAp |-> <<>>, ap |-> "none",
     staOpen |-> TRUE, okKey |-> NoKey, late |-> FALSE]

\* Mutant of Opened: INSTALL is sent along with SYNC.
OpenedAtOnce(k) ==
    [Unopened EXCEPT !.key = k, !.ap = "open", !.toSta = <<"SYNC", "INSTALL">>]

Opened(k) ==
    [Unopened EXCEPT !.key = k, !.ap = "open", !.toSta = <<"SYNC">>]

ApPcs == {"accept", "connect", "ready", "station", "ok", "forward", "drop"}
StaPcs == {"accept", "sync", "assoc", "install", "forward", "record",
           "failing", "drop"}

TypeOK ==
    /\ WifiTypeOK
    /\ cur \in [Side -> Opt(PTK)]
    /\ used \in [Side -> SUBSET PTK]
    /\ apQ \in Seq(Push)
    /\ apPc \in ApPcs
    /\ apLast \in Opt(PTK)
    /\ nSess \in 0 .. MaxSess
    /\ conn \in [Sess -> ConnType]
    /\ staQ \in Seq(Push)
    /\ staHold \in Opt(PTK)
    /\ pending \in Opt(PTK)
    /\ staLast \in Opt(PTK)
    /\ staPc \in StaPcs
    /\ served \in 0 .. MaxSess
    /\ calm \in BOOLEAN

Init ==
    /\ WifiInit
    /\ cur = [s \in Side |-> NoKey] /\ used = [s \in Side |-> {}]
    /\ apQ = <<>> /\ apPc = "accept" /\ apLast = NoKey /\ nSess = 0
    /\ conn = [i \in Sess |-> Unopened]
    /\ staQ = <<>> /\ staHold = NoKey
    /\ pending = NoKey /\ staLast = NoKey /\ staPc = "accept" /\ served = 0
    /\ calm = FALSE

-----------------------------------------------------------------------------
(* LiFi daemons: wpa_pmk_to_ptk pushes every PTK it derives to port 8877.  *)

\* A push waits while the listen queue is full.  It is short when the connection
\* breaks, and lost when the receiver is not listening.
PushTo(q, k) ==
    \/ /\ Len(q) < QMax
       /\ q' = Append(q, k) \/ ("push" \in Faults /\ q' = Append(q, Short))
    \/ "push" \in Faults /\ UNCHANGED q

\* A daemon derives its latest PTK again, when a message of the handshake is
\* repeated, or a PTK it has not derived before.
Derive(s, k) ==
    /\ k = cur[s] \/ k \notin used[s]
    /\ cur' = [cur EXCEPT ![s] = k]
    /\ used' = [used EXCEPT ![s] = @ \cup {k}]

\* The LiFi supplicant derives on message 1.
LifiStaDerive(k) ==
    /\ Derive("sta", k)
    /\ PushTo(staQ, k)
    /\ UNCHANGED <<apVars, conn, staHold, pending, staLast, staPc, served, calm,
                   wifiVars>>

\* LiFi hostapd derives on message 2, before it checks the MIC: the supplicant's
\* PTK when it has the supplicant's PMK, ANonce and SNonce, else one that the
\* supplicant may never see.
LifiApDerive(k) ==
    /\ cur["sta"] # NoKey
    /\ Derive("ap", k)
    /\ PushTo(apQ, k)
    /\ UNCHANGED <<apPc, apLast, nSess, conn, staVars, calm, wifiVars>>

-----------------------------------------------------------------------------
(* AP receiver, main thread.                                               *)

apRest == <<lifiVars, staVars>>

\* Mutants of ApAcceptPush: a push is not compared with the last PTK; a push of
\* any length is taken for a PTK.
ApAcceptRepeats ==
    /\ apPc = "accept"
    /\ apQ # <<>>
    /\ apQ' = Tail(apQ)
    /\ IF Head(apQ) = Short
       THEN UNCHANGED <<apPc, apLast>>
       ELSE /\ apLast' = Head(apQ)
            /\ \/ apPc' = "connect"
               \/ "disk" \in Faults /\ UNCHANGED apPc
    /\ UNCHANGED <<apRest, nSess, conn, calm, wifiVars>>

ApAcceptAnyLength ==
    /\ apPc = "accept"
    /\ apQ # <<>>
    /\ apQ' = Tail(apQ)
    /\ IF Head(apQ) = apLast
       THEN UNCHANGED <<apPc, apLast>>
       ELSE apLast' = Head(apQ) /\ apPc' = "connect"
    /\ UNCHANGED <<apRest, nSess, conn, calm, wifiVars>>

\* A short push and a repeat of the last PTK are skipped.  Any other PTK is
\* remembered as the last one before it has been synchronised, even when the
\* write of ap_ptk.bin fails and nothing more is done about it.
ApAcceptPush ==
    /\ apPc = "accept"
    /\ apQ # <<>>
    /\ apQ' = Tail(apQ)
    /\ IF Head(apQ) \in {Short, apLast}
       THEN UNCHANGED <<apPc, apLast>>
       ELSE /\ apLast' = Head(apQ)
            /\ \/ apPc' = "connect"
               \/ "disk" \in Faults /\ UNCHANGED apPc
    /\ UNCHANGED <<apRest, nSess, conn, calm, wifiVars>>

ApConnect ==
    /\ apPc = "connect"
    /\ nSess < MaxSess
    /\ nSess' = nSess + 1
    /\ conn' = [conn EXCEPT ![nSess + 1] = Opened(apLast)]
    /\ apPc' = "ready"
    /\ calm' = (LinkUp /\ Drained)
    /\ UNCHANGED <<apRest, apQ, apLast, wifiVars>>

\* The STA host refuses or cannot be reached over LiFi.
ApConnectFail ==
    /\ apPc = "connect"
    /\ apPc' = "drop"
    /\ UNCHANGED <<apRest, apQ, apLast, nSess, conn, calm, wifiVars>>

ApReceive(pc, reply, next) ==
    /\ apPc = pc
    /\ conn[nSess].toAp # <<>>
    /\ Head(conn[nSess].toAp) = reply
    /\ conn' = [conn EXCEPT ![nSess].toAp = Tail(@)]
    /\ apPc' = next
    /\ UNCHANGED <<apRest, apQ, apLast, nSess, calm, wifiVars>>

\* Mutant of ApRecvReady: the AP installs as soon as the STA is ready.
ApInstallOnReady == ApReceive("ready", "READY", "forward")

ApRecvReady == ApReceive("ready", "READY", "station")
ApRecvOk == ApReceive("ok", "OK", "forward")

\* Whether a WiFi station shows up within 10 s makes no difference.
ApSendInstall ==
    /\ apPc = "station"
    /\ conn' = [conn EXCEPT ![nSess].toSta = Append(@, "INSTALL")]
    /\ apPc' = "ok"
    /\ UNCHANGED <<apRest, apQ, apLast, nSess, calm, wifiVars>>

\* Mutants of ApSyncFail: no timeout on the AP's receives; the verdict of a
\* failed sync swapped; the disconnect after a failed sync left out.
ApWaitsForever ==
    /\ apPc \in {"ready", "station", "ok"}
    /\ conn[nSess].toAp # <<>>
    /\ conn' = [conn EXCEPT ![nSess].ap = "failed"]
    /\ apPc' = "drop"
    /\ UNCHANGED <<apRest, apQ, apLast, nSess, calm, wifiVars>>

ApFailCounted ==
    /\ apPc \in {"ready", "station", "ok"}
    /\ conn' = [conn EXCEPT ![nSess].ap = "synced"]
    /\ apPc' = "drop"
    /\ UNCHANGED <<apRest, apQ, apLast, nSess, calm, wifiVars>>

ApFailKeepsLink ==
    /\ apPc \in {"ready", "station", "ok"}
    /\ conn' = [conn EXCEPT ![nSess].ap = "failed"]
    /\ apPc' = "accept"
    /\ UNCHANGED <<apRest, apQ, apLast, nSess, calm, wifiVars>>

\* Any other reply, end of file, a 15 s timeout, an error of the socket or a
\* sender that cannot be started: the connection is closed and the sync has
\* failed.
ApSyncFail ==
    /\ \/ apPc \in {"ready", "station", "ok"}
       \/ apPc = "forward" /\ "sender" \in Faults
    /\ conn' = [conn EXCEPT ![nSess].ap = "failed"]
    /\ apPc' = "drop"
    /\ UNCHANGED <<apRest, apQ, apLast, nSess, calm, wifiVars>>

\* The AP installs last, and ignores whether it could: the sync has succeeded.
ApForward ==
    /\ apPc = "forward"
    /\ \E delivered, ok \in BOOLEAN :
          /\ SendPtk("ap", apLast, delivered, ok)
          /\ calm' = (calm /\ delivered)
    /\ conn' = [conn EXCEPT ![nSess].ap = "synced"]
    /\ apPc' = "accept"
    /\ UNCHANGED <<apRest, apQ, apLast, nSess>>

ApDrop ==
    /\ apPc = "drop"
    /\ DisconnectWifi("ap")
    /\ apPc' = "accept"
    /\ calm' = FALSE
    /\ UNCHANGED <<apRest, apQ, apLast, nSess, conn>>

-----------------------------------------------------------------------------
(* STA receiver, main thread.                                              *)

Locked == staPc \in {"forward", "record", "failing"}
Serving == staPc \in {"assoc", "install"}

\* A push that is skipped, or whose sta_ptk.bin cannot be written, leaves
\* pending_ptk_hex alone.
StaAcceptPush ==
    /\ staHold = NoKey
    /\ staQ # <<>>
    /\ staQ' = Tail(staQ)
    /\ \/ Head(staQ) \notin {Short, staLast} /\ staHold' = Head(staQ)
       \/ /\ Head(staQ) \in {Short, staLast} \/ "disk" \in Faults
          /\ UNCHANGED staHold
    /\ UNCHANGED <<lifiVars, apVars, conn, pending, staLast, staPc, served, calm,
                   wifiVars>>

\* Mutant of StaStorePending: pending_ptk_hex is written without the lock.
StaStoreUnlocked ==
    /\ staHold # NoKey
    /\ pending' = staHold
    /\ staHold' = NoKey
    /\ IF Serving /\ staHold # conn[served].key
       THEN conn' = [conn EXCEPT ![served].late = TRUE]
       ELSE UNCHANGED conn
    /\ UNCHANGED <<lifiVars, apVars, staQ, staLast, staPc, served, calm, wifiVars>>

\* The write to pending_ptk_hex waits for the lock, which the sync server
\* holds only while it installs.
StaStorePending ==
    /\ staHold # NoKey
    /\ ~Locked
    /\ pending' = staHold
    /\ staHold' = NoKey
    /\ IF Serving /\ staHold # conn[served].key
       THEN conn' = [conn EXCEPT ![served].late = TRUE]
       ELSE UNCHANGED conn
    /\ UNCHANGED <<lifiVars, apVars, staQ, staLast, staPc, served, calm, wifiVars>>

-----------------------------------------------------------------------------
(* STA receiver, sync server thread: one connection at a time.             *)

staRest == <<lifiVars, apVars, staQ, staHold>>

StaAcceptConn ==
    /\ staPc = "accept"
    /\ served < nSess
    /\ served' = served + 1
    /\ staPc' = "sync"
    /\ UNCHANGED <<staRest, conn, pending, staLast, calm, wifiVars>>

\* Mutant of StaRecvSync: a PTK that is already pending is kept.
StaKeepsOwnPtk ==
    /\ staPc = "sync"
    /\ conn[served].toSta # <<>>
    /\ Head(conn[served].toSta) = "SYNC"
    /\ conn' = [conn EXCEPT ![served].toSta = Tail(@)]
    /\ pending' = IF pending = NoKey THEN conn[served].key ELSE pending
    /\ staPc' = "assoc"
    /\ UNCHANGED <<staRest, staLast, served, calm, wifiVars>>

StaRecvSync ==
    /\ staPc = "sync"
    /\ conn[served].toSta # <<>>
    /\ Head(conn[served].toSta) = "SYNC"
    /\ conn' = [conn EXCEPT ![served].toSta = Tail(@)]
    /\ pending' = conn[served].key
    /\ staPc' = "assoc"
    /\ UNCHANGED <<staRest, staLast, served, calm, wifiVars>>

StaSendReady ==
    /\ staPc = "assoc"
    /\ assoc["sta"]
    /\ conn' = [conn EXCEPT ![served].toAp = Append(@, "READY")]
    /\ staPc' = "install"
    /\ UNCHANGED <<staRest, pending, staLast, served, calm, wifiVars>>

\* No association within WIFI_INSTALL_WAIT (20 s, longer than the AP waits):
\* the WiFi link is left alone.
StaSendNotReady ==
    /\ staPc = "assoc"
    /\ ~assoc["sta"] \/ "iw" \in Faults
    /\ conn' = [conn EXCEPT ![served].toAp = Append(@, "NOTREADY"),
                            ![served].staOpen = FALSE]
    /\ staPc' = "accept"
    /\ UNCHANGED <<staRest, pending, staLast, served, calm, wifiVars>>

\* INSTALL is taken with the lock held from here to the reply.
StaRecvInstall ==
    /\ staPc = "install"
    /\ conn[served].toSta # <<>>
    /\ Head(conn[served].toSta) = "INSTALL"
    /\ \/ /\ pending # NoKey /\ assoc["sta"]
          /\ staPc' = "forward"
          /\ conn' = [conn EXCEPT ![served].toSta = Tail(@)]
       \/ /\ pending = NoKey \/ ~assoc["sta"] \/ "iw" \in Faults
          /\ staPc' = "failing"
          /\ conn' = [conn EXCEPT ![served].toSta = Tail(@),
                                  ![served].toAp = Append(@, "NOTREADY")]
    /\ UNCHANGED <<staRest, pending, staLast, served, calm, wifiVars>>

\* The AP closed the connection before it sent INSTALL.
StaRecvEof ==
    /\ staPc = "install"
    /\ conn[served].toSta = <<>>
    /\ conn[served].ap # "open"
    /\ conn' = [conn EXCEPT ![served].toAp = Append(@, "FAIL")]
    /\ staPc' = "drop"
    /\ UNCHANGED <<staRest, pending, staLast, served, calm, wifiVars>>

\* The STA installs first.
StaForward ==
    /\ staPc = "forward"
    /\ \E delivered, ok \in BOOLEAN :
          /\ SendPtk("sta", pending, delivered, ok)
          /\ calm' = (calm /\ delivered)
          /\ IF ok
             THEN staPc' = "record" /\ UNCHANGED conn
             ELSE /\ staPc' = "failing"
                  /\ conn' = [conn EXCEPT ![served].toAp = Append(@, "FAIL")]
    /\ UNCHANGED <<staRest, pending, staLast, served>>

\* Still under the lock: what was forwarded becomes the last PTK, and the AP
\* is told.  With the AP gone the reply may raise: the key stays, the WiFi
\* link is disconnected.
StaRecord ==
    /\ staPc = "record"
    /\ staLast' = pending
    /\ pending' = NoKey
    /\ \/ /\ conn' = [conn EXCEPT ![served].toAp = Append(@, "OK"),
                                  ![served].okKey = pending,
                                  ![served].staOpen = FALSE]
          /\ staPc' = "accept"
       \/ /\ conn[served].ap # "open"
          /\ staPc' = "drop"
          /\ UNCHANGED conn
    /\ UNCHANGED <<staRest, served, calm, wifiVars>>

\* Mutant of StaTimeout: an exception nobody catches ends the server thread.
StaThreadEnds ==
    /\ \/ staPc \in {"sync", "assoc", "install"}
       \/ staPc = "failing" /\ conn[served].ap # "open"
       \/ staPc = "forward" /\ "sender" \in Faults
    /\ staPc' = "ended"
    /\ UNCHANGED <<staRest, conn, pending, staLast, served, calm, wifiVars>>

\* A 15 s timeout, an error of the socket or a sender that cannot be started;
\* the reply of a failed install may raise too, once the AP has closed.
StaTimeout ==
    /\ \/ staPc \in {"sync", "assoc", "install"}
       \/ staPc = "failing" /\ conn[served].ap # "open"
       \/ staPc = "forward" /\ "sender" \in Faults
    /\ staPc' = "drop"
    /\ UNCHANGED <<staRest, conn, pending, staLast, served, calm, wifiVars>>

\* "iw disconnect", with the lock still held after a failed install.
StaDrop ==
    /\ staPc \in {"failing", "drop"}
    /\ DisconnectWifi("sta")
    /\ conn' = [conn EXCEPT ![served].staOpen = FALSE]
    /\ staPc' = "accept"
    /\ calm' = FALSE
    /\ UNCHANGED <<staRest, pending, staLast, served>>

-----------------------------------------------------------------------------
(* The WiFi link, seen from here.                                          *)

wifiRest == <<lifiVars, apVars, conn, staVars>>

\* system_manager.py and the watchdog threads disconnect the WiFi link on
\* their own: RekeyControl says when, here they may at any time.
ControlDrop(s) ==
    /\ assoc[s]
    /\ DisconnectWifi(s)
    /\ calm' = FALSE
    /\ UNCHANGED wifiRest

WifiStep ==
    /\ \/ Associate
       \/ \E s \in Side : NotifyAssoc(s) \/ NoticeLeft(s) \/ RekeyTimer(s)
    /\ calm' = FALSE
    /\ UNCHANGED wifiRest

WifiHandlePtk(s) ==
    /\ HandlePtk(s)
    /\ calm' = (calm /\ wkey'[s] = Head(inbox[s]))
    /\ UNCHANGED wifiRest

-----------------------------------------------------------------------------
ApStep ==
    \/ ApAcceptPush \/ ApConnect \/ ApConnectFail \/ ApRecvReady
    \/ ApSendInstall \/ ApRecvOk \/ ApSyncFail \/ ApForward \/ ApDrop

StaMainStep == StaAcceptPush \/ StaStorePending

StaSyncStep ==
    \/ StaAcceptConn \/ StaRecvSync \/ StaSendReady \/ StaSendNotReady
    \/ StaRecvInstall \/ StaRecvEof \/ StaForward \/ StaRecord \/ StaTimeout
    \/ StaDrop

\* Everything but the LiFi daemons.
ReceiverStep ==
    \/ ApStep \/ StaMainStep \/ StaSyncStep
    \/ WifiStep
    \/ \E s \in Side : ControlDrop(s) \/ WifiHandlePtk(s)

LifiStep == \E k \in PTK : LifiStaDerive(k) \/ LifiApDerive(k)

Next == LifiStep \/ ReceiverStep

Spec == Init /\ [][Next]_vars

\* Each thread keeps running and every wait in it ends, at the latest with
\* its timeout; the WiFi daemons keep reading, noticing and reassociating.
Fairness ==
    /\ WF_vars(ApStep)
    /\ WF_vars(StaMainStep)
    /\ WF_vars(StaSyncStep)
    /\ WF_vars(Associate /\ WifiStep)
    /\ \A s \in Side :
          /\ WF_vars(NotifyAssoc(s) /\ WifiStep)
          /\ WF_vars(NoticeLeft(s) /\ WifiStep)
          /\ WF_vars(WifiHandlePtk(s))

FairSpec == Spec /\ Fairness
-----------------------------------------------------------------------------
(* Safety.                                                                 *)

\* The AP installs only what the STA has confirmed: whatever PTK the WiFi AP
\* holds, or is about to read from its listener, was proposed in a connection
\* in which the STA answered OK ("STA installs first, AP installs after
\* confirmation", ptk_receiver_ap.py:180).
ApNeverAhead ==
    \A k \in PTK :
        \/ wkey["ap"] = k
        \/ \E j \in DOMAIN inbox["ap"] : inbox["ap"][j] = k
        => \E i \in Sess : conn[i].key = k /\ conn[i].okKey # NoKey

\* What the STA confirms is the PTK the AP proposed in that connection, or
\* the LiFi supplicant pushed another one to it after SYNC.  The lock keeps
\* such a push out of the install itself.
SessionAgreement ==
    \A i \in Sess :
        conn[i].okKey \in {NoKey, conn[i].key} \/ conn[i].late

\* Both receivers compare the whole result of one recv with one word.  That is
\* right because neither direction of a live connection ever holds two
\* messages.
OneMessageInFlight ==
    \A i \in Sess :
        conn[i].ap = "open" => Len(conn[i].toSta) <= 1 /\ Len(conn[i].toAp) <= 1

\* What the synchronisation promises.  A sync that succeeds leaves the new PTK
\* on both sides of the WiFi link once the daemons have read it, provided that
\* the link and the deliveries were undisturbed since it began and that no
\* LiFi push came between.
SyncAgreement ==
    (/\ nSess > 0 /\ conn[nSess].ap = "synced" /\ ~conn[nSess].late
     /\ calm /\ Drained)
    => \A s \in Side : wkey[s] = conn[nSess].key

\* The exchange implements the two-phase install it is meant to be: the AP
\* commits a connection only after the STA has confirmed it, one connection
\* after the other.
TwoPhase ==
    INSTANCE TwoPhaseInstall WITH
        Rounds <- MaxSess,
        verdict <- [i \in Sess |-> conn[i].ap],
        confirmed <- {i \in Sess : conn[i].okKey # NoKey}

\* The refinement, as a property of the runs.
ImplementsTwoPhase == TwoPhase!Spec

\* When the AP receiver is through with what hostapd pushed, and nothing went
\* wrong on the way, both WiFi daemons have the PTK that hostapd derived last,
\* not an earlier one: last_ptk_hex skips repeats and no others, and a sync that
\* fails is followed by a disconnect.  An iw that fails in that disconnect is
\* among what goes wrong: the link keeps its earlier key.
LatestInstalled ==
    (/\ Faults \cap {"push", "disk"} = {}
     /\ apPc = "accept" /\ apQ = <<>>
     /\ calm /\ Drained /\ ~conn[nSess].late)
    => \A s \in Side : wkey[s] = cur["ap"]

\* No PTK is carried to WiFi in two syncs.  last_ptk_hex remembers one PTK only,
\* which is enough because an earlier one is never derived again.
EachPtkOnce ==
    \A i, j \in 1 .. nSess : conn[i].key = conn[j].key => i = j

(* Claims of the documentation that the code does not keep.                *)

\* "Use AP's PTK directly (not relying on local pending).  This ensures both
\* sides have the same PTK" (ptk_receiver_sta.py:196): the STA never confirms
\* a PTK other than the one the AP proposed.
InstallsApPtk ==
    \A i \in Sess : conn[i].okKey \in {NoKey, conn[i].key}

\* "This two-phase commit ensures both WiFi interfaces switch to the new PTK
\* atomically, preventing any mismatch window" (README.md:55): after a sync
\* that succeeded, a link that is up has the same key on both sides.
SyncedMeansSameKey ==
    (nSess > 0 /\ conn[nSess].ap = "synced" /\ LinkUp /\ Drained) => KeysAgree

\* The same claim of a link that has not associated anew: after a sync in which
\* the STA installed what the AP proposed, both daemons have read what they were
\* sent and neither holds the built-in key, the two keys are the same.
SyncedInstalled ==
    (/\ nSess > 0 /\ conn[nSess].ap = "synced"
     /\ conn[nSess].okKey = conn[nSess].key
     /\ LinkUp /\ Drained
     /\ \A s \in Side : wkey[s] \in PTK)
    => KeysAgree

(* Liveness.                                                               *)

\* No connection hangs: the AP reaches a verdict on each one it opens.
SyncEnds == \A i \in Sess : conn[i].ap = "open" ~> conn[i].ap # "open"

\* The sync server comes back to accept, so pending_ptk_lock is released and
\* the next connection served, whatever the AP does.
StaServesAgain == staPc # "accept" ~> staPc = "accept"

\* A PTK the AP receiver has accepted is either confirmed by the STA or the
\* WiFi link is taken down on the AP.
AcceptedOrDropped ==
    apPc = "connect" ~>
        \/ ~assoc["ap"]
        \/ nSess > 0 /\ conn[nSess].ap = "synced" /\ conn[nSess].key = apLast

\* send_ptk_to_wifi connects from the event loop of a LiFi daemon and waits while
\* the listen queue is full.  However long the syncs take, the receivers come
\* back to their queues, so neither daemon stands still for ever.
DaemonsResume ==
    /\ Len(apQ) = QMax ~> Len(apQ) < QMax
    /\ Len(staQ) = QMax ~> Len(staQ) < QMax
=============================================================================

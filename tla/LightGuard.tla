----------------------------- MODULE LightGuard -----------------------------
(***************************************************************************)
(* The handshake of FourWay and the synchronisation of PtkSync in one      *)
(* system: from a message of the 4-way handshake on LiFi to the key of     *)
(* WiFi.                                                                   *)
(*                                                                         *)
(*   FourWay   hostapd, wpa_supplicant  --8877-->  receivers   PtkSync     *)
(*                                                                         *)
(* PtkSync alone lets a LiFi daemon derive any PTK that is new to it,      *)
(* hostapd one that the supplicant never sees.  Here a PTK is derived by   *)
(* the step of the handshake that derives it, which does not return before *)
(* the PTK is pushed: with a full queue the daemon waits in that step.     *)
(***************************************************************************)
EXTENDS FourWay

CONSTANTS
    PTK,        \* bound: the PTKs whose nonces are within the bounds
    WifiStays,  \* bound: TRUE if nothing ends a WiFi association
    Default, Faults, TimerSides, Short, MaxSess, QMax   \* of PtkSync

ASSUME LightGuardAssumption ==
    /\ PTK \subseteq Key
    /\ WifiStays \in BOOLEAN

VARIABLES
    used, apQ, apPc, apLast, nSess, conn, staQ, staHold, pending, staLast, staPc,
    served, calm, assoc, evt, inbox, wkey               \* of PtkSync

\* The receivers and the WiFi link, for the PTKs the handshake derives.
Sync == INSTANCE PtkSync WITH cur <- [ap |-> apPushed, sta |-> staPushed]

ASSUME ReceiverAssumption ==
    Sync!KeyAssumption /\ Sync!TimerAssumption /\ Sync!SyncAssumption

recvVars == <<apPc, apLast, nSess, conn, staHold, pending, staLast, staPc, served,
              calm, assoc, evt, inbox, wkey>>
syncVars == <<used, apQ, staQ, recvVars>>
allVars == <<vars, syncVars>>

SystemInit == Init /\ Sync!Init

\* The next frame makes hostapd derive a PTK: ApMsg2.
ApDerives ==
    /\ toAp # <<>>
    /\ apState \in {"start", "calc"}
    /\ Readable(Head(toAp), apTk)
    /\ Head(toAp).type = "m2" /\ Head(toAp).ctr \in valid

\* The next frame makes wpa_supplicant derive a PTK: StaMsg1.
StaDerives ==
    /\ linked
    /\ toSta # <<>>
    /\ Readable(Head(toSta), staTk)
    /\ Head(toSta).type = "m1" /\ Head(toSta).ctr > rxCtr

HostapdReceives ==
    /\ ApReceive
    /\ IF ApDerives
       THEN /\ apPushed' \in PTK
            /\ Sync!PushTo(apQ, apPushed')
            /\ used' = [used EXCEPT !["ap"] = @ \cup {apPushed'}]
            /\ UNCHANGED <<staQ, recvVars>>
       ELSE UNCHANGED syncVars

\* Mutant of SupplicantReceives: the push is given up while the queue is full.
SupplicantGivesUp ==
    /\ StaReceive
    /\ IF StaDerives
       THEN /\ staPushed' \in PTK
            /\ Sync!PushTo(staQ, staPushed') \/ (Len(staQ) = QMax /\ UNCHANGED staQ)
            /\ used' = [used EXCEPT !["sta"] = @ \cup {staPushed'}]
            /\ UNCHANGED <<apQ, recvVars>>
       ELSE UNCHANGED syncVars

SupplicantReceives ==
    /\ StaReceive
    /\ IF StaDerives
       THEN /\ staPushed' \in PTK
            /\ Sync!PushTo(staQ, staPushed')
            /\ used' = [used EXCEPT !["sta"] = @ \cup {staPushed'}]
            /\ UNCHANGED <<apQ, recvVars>>
       ELSE UNCHANGED syncVars

\* Steps of the handshake that derive nothing.
LifiElse ==
    /\ \/ Setptk \/ ApTimeout \/ ApRejects \/ ApInactivity
       \/ StaSetPsk \/ Associate \/ StaLeaves \/ LoseToSta \/ LoseToAp
    /\ UNCHANGED syncVars

WifiSide ==
    /\ UNCHANGED vars
    /\ Sync!ReceiverStep
    /\ WifiStays => \A s \in Sync!Side : assoc[s] => assoc'[s]

SystemNext == HostapdReceives \/ SupplicantReceives \/ LifiElse \/ WifiSide

SystemSpec == SystemInit /\ [][SystemNext]_allVars

-----------------------------------------------------------------------------
(* Properties                                                              *)

\* The handshake derives PTKs as PtkSync takes it that the LiFi daemons do:
\* hostapd none before the supplicant has derived one, and neither a PTK that it
\* has derived before, except its latest.  What PtkSync promises holds here.
CarriesKeys == Sync!Spec

\* What LightGuard is for.  When a handshake has completed and its PTKs have gone
\* through the receivers with nothing lost, refused or disconnected on the way,
\* WiFi is encrypted on both sides with the key that LiFi is encrypted with,
\* however often messages were repeated, refused and answered again.
KeyInUse ==
    (/\ apState = "done"
     /\ Faults \cap {"push", "disk"} = {}
     /\ apPc = "accept" /\ apQ = <<>>
     /\ calm /\ Sync!Drained /\ ~conn[nSess].late)
    => \A s \in Sync!Side : wkey[s] = apTk
=============================================================================

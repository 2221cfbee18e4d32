------------------------------- MODULE FourWay -------------------------------
(***************************************************************************)
(* The 4-way handshake on the LiFi link, between the authenticator of      *)
(* hostapd (src/ap/wpa_auth.c) and the supplicant of wpa_supplicant        *)
(* (src/rsn_supp/wpa.c) as LightGuard changed them: a passphrase given to  *)
(* the STA replaces its PMK when message 1 arrives, "setptk" replaces the  *)
(* PSK of hostapd and starts a handshake on the link in use, and every PTK *)
(* either side derives is pushed to the PTK receiver for WiFi.             *)
(*                                                                         *)
(* Frames keep their order and may be lost.  A frame carries the temporal  *)
(* key (TK) it is encrypted with; a driver delivers what is in the clear   *)
(* or encrypted with the TK it holds.  A PTK, its TK and the key of its    *)
(* MICs are one value, determined by PMK, ANonce and SNonce.               *)
(***************************************************************************)
EXTENDS Naturals, SequencesExt

CONSTANTS
    MaxRound,   \* bound: passphrases
    MaxAssoc,   \* bound: associations
    MaxLoss,    \* bound: lost frames
    Retries     \* wpa_pairwise_update_count

ASSUME FourWayAssumption ==
    /\ MaxRound \in Nat /\ MaxAssoc \in Nat /\ MaxLoss \in Nat
    /\ Retries \in Nat \ {0}

VARIABLES
    \* hostapd
    apState,     \* sm->wpa_ptk_state; "gone" without an entry for the STA
    apPsk,       \* passphrase behind hapd->conf->ssid.wpa_psk
    anonce,      \* sm->ANonce
    ctr,         \* sm->key_replay[0].counter
    valid,       \* the counters that are valid in sm->key_replay
    tries,       \* sm->TimeoutCtr
    apPtk,       \* sm->PTK, NoKey unless PTK_valid
    apTk,        \* TK in the driver of the AP; sm->pairwise_set
    apPushed,    \* last PTK pushed to the AP receiver
    \* wpa_supplicant
    linked,      \* associated
    staPend,     \* sm->lifi_passphrase, 0 unless lifi_passphrase_valid
    staPmk,      \* passphrase behind sm->pmk
    snonce,      \* sm->snonce
    renew,       \* sm->renew_snonce
    staAnonce,   \* sm->anonce
    tptk,        \* sm->tptk, NoKey unless tptk_set
    staTk,       \* sm->ptk and the TK in the driver of the STA
    rxCtr,       \* sm->rx_replay_counter, 0 unless set
    staPushed,   \* last PTK pushed to the STA receiver
    \* the air
    toSta, toAp, \* frames on their way
    losses,      \* frames lost so far
    assocs,      \* associations so far
    round,       \* the last passphrase the STA was given
    \* history: the TKs each side has set in its driver, in order
    apUsed, staUsed

apHand == <<apState, anonce, ctr, valid, tries, apPtk>>
apKeys == <<apTk, apUsed>>
apVars == <<apHand, apKeys, apPsk, apPushed>>
staHand == <<snonce, renew, staAnonce, tptk, rxCtr>>
staKeys == <<staTk, staUsed>>
staVars == <<linked, staPend, staPmk, staHand, staKeys, staPushed>>
bounds == <<losses, assocs, round>>
vars == <<apVars, staVars, toSta, toAp, bounds>>

\* A PTK.  Nonces are numbered from 1 in the order they are drawn.
Key == [pmk : 0 .. MaxRound, an : Nat \ {0}, sn : Nat \ {0}]
NoKey == [pmk |-> 0, an |-> 0, sn |-> 0]
OptKey == Key \cup {NoKey}

\* EAPOL-Key frames, and "deauth".
M1(c, an, enc) ==
    [type |-> "m1", ctr |-> c, an |-> an, sn |-> 0, mic |-> NoKey, enc |-> enc]
M2(c, sn, mic, enc) ==
    [type |-> "m2", ctr |-> c, an |-> 0, sn |-> sn, mic |-> mic, enc |-> enc]
M3(c, an, mic, enc) ==
    [type |-> "m3", ctr |-> c, an |-> an, sn |-> 0, mic |-> mic, enc |-> enc]
M4(c, mic, enc) ==
    [type |-> "m4", ctr |-> c, an |-> 0, sn |-> 0, mic |-> mic, enc |-> enc]
Deauth ==
    [type |-> "deauth", ctr |-> 0, an |-> 0, sn |-> 0, mic |-> NoKey,
     enc |-> NoKey]

Frame == [type : {"m1", "m2", "m3", "m4", "deauth"}, ctr : Nat, an : Nat,
          sn : Nat, mic : OptKey, enc : OptKey]

Shaking == {"start", "calc", "init"}     \* states with a retransmission timer

TypeOK ==
    /\ apState \in Shaking \cup {"done", "gone"}
    /\ apPsk \in 0 .. MaxRound
    /\ anonce \in Nat /\ ctr \in Nat
    /\ valid \in SUBSET (1 .. ctr)
    /\ tries \in 0 .. Retries
    /\ {apPtk, apTk, apPushed, tptk, staTk, staPushed} \subseteq OptKey
    /\ linked \in BOOLEAN /\ renew \in BOOLEAN
    /\ staPend \in 0 .. MaxRound /\ staPmk \in 0 .. MaxRound
    /\ snonce \in Nat /\ staAnonce \in 0 .. anonce /\ rxCtr \in 0 .. ctr
    /\ toSta \in Seq(Frame) /\ toAp \in Seq(Frame)
    /\ losses \in 0 .. MaxLoss
    /\ assocs \in 0 .. MaxAssoc
    /\ round \in 0 .. MaxRound
    /\ apUsed \in Seq(Key) /\ staUsed \in Seq(Key)

Init ==
    /\ apState = "gone" /\ apPsk = 0 /\ anonce = 0 /\ ctr = 0 /\ valid = {}
    /\ tries = 0 /\ apPtk = NoKey /\ apTk = NoKey /\ apPushed = NoKey
    /\ linked = FALSE /\ staPend = 0 /\ staPmk = 0
    /\ snonce = 0 /\ renew = TRUE /\ staAnonce = 0 /\ rxCtr = 0
    /\ tptk = NoKey /\ staTk = NoKey /\ staPushed = NoKey
    /\ toSta = <<>> /\ toAp = <<>>
    /\ losses = 0 /\ assocs = 0 /\ round = 0
    /\ apUsed = <<>> /\ staUsed = <<>>

-----------------------------------------------------------------------------
(* hostapd                                                                 *)

\* The driver holding tk can decrypt f.
Readable(f, tk) == f.enc \in {NoKey, tk}

\* RSNA_MAX_EAPOL_RETRIES: the counters of the last four frames are kept.
Pending(old, c) == {n \in old \cup {c} : n + 4 > c}

\* AUTHENTICATION2, INITPSK, PTKSTART: the first message 1 of a handshake.  c is
\* the last counter used, old the counters still valid, tk the TK of the driver,
\* air what is in flight.
StartHandshake(c, old, tk, air) ==
    /\ apState' = "start"
    /\ anonce' = anonce + 1
    /\ apPtk' = NoKey
    /\ tries' = 1
    /\ ctr' = c + 1
    /\ valid' = Pending(old, c + 1)
    /\ toSta' = Append(air, M1(c + 1, anonce + 1, tk))

\* Mutant of ForgetSta: INITIALIZE without wpa_remove_ptk.
ForgetStaKeepsTk ==
    /\ apState' = "gone"
    /\ valid' = {}
    /\ tries' = 0
    /\ apPtk' = NoKey
    /\ UNCHANGED <<anonce, ctr, apKeys>>

\* DISCONNECT, DISCONNECTED, INITIALIZE, and the removal of the entry.
ForgetSta ==
    /\ apState' = "gone"
    /\ valid' = {}
    /\ tries' = 0
    /\ apPtk' = NoKey
    /\ apTk' = NoKey
    /\ UNCHANGED <<anonce, ctr, apUsed>>

\* lifi_listener.c, "setptk" for an STA with an entry: WPA_REAUTH_EAPOL leaves
\* the TK in the driver and the replay counters alone.  system_manager.py sends
\* the command once the STA has acknowledged the passphrase.
Setptk ==
    /\ apState # "gone"
    /\ apPsk < round
    /\ apPsk' = round
    /\ StartHandshake(ctr, valid, apTk, toSta)
    /\ UNCHANGED <<apKeys, apPushed, staVars, toAp, bounds>>

\* Message 2 (PTKCALCNEGOTIATING, PTKCALCNEGOTIATING2, PTKINITNEGOTIATING): the
\* PTK is pushed as it is derived, before its MIC is known to be right.
ApMsg2(f) ==
    /\ f.type = "m2"
    /\ apState \in {"start", "calc"}
    /\ f.ctr \in valid
    /\ LET ptk == [pmk |-> apPsk, an |-> anonce, sn |-> f.sn] IN
       /\ apPushed' = ptk
       /\ IF f.mic = ptk
          THEN /\ apState' = "init"
               /\ apPtk' = ptk
               /\ tries' = 1
               /\ ctr' = ctr + 1
               /\ valid' = {ctr + 1}
               /\ toSta' = Append(toSta, M3(ctr + 1, anonce, ptk, apTk))
          ELSE /\ apState' = "calc"
               /\ valid' = {}
               /\ UNCHANGED <<apPtk, tries, ctr, toSta>>
    /\ UNCHANGED <<anonce, apKeys, apPsk>>

\* Mutant of ApMsg4: neither the state nor PTK_valid is looked at, and a MIC only
\* where there is a PTK to verify it with.
ApMsg4AnyState(f) ==
    /\ f.type = "m4"
    /\ f.ctr \in valid
    /\ apPtk # NoKey => f.mic = apPtk
    /\ apState' = "done"
    /\ valid' = {}
    /\ apTk' = apPtk
    /\ apUsed' = Append(apUsed, apPtk)
    /\ UNCHANGED <<anonce, ctr, tries, apPtk, apPsk, apPushed, toSta>>

\* Message 4 (PTKINITDONE): the TK goes to the driver.
ApMsg4(f) ==
    /\ f.type = "m4"
    /\ apState = "init"
    /\ f.ctr \in valid
    /\ f.mic = apPtk
    /\ apState' = "done"
    /\ valid' = {}
    /\ apTk' = apPtk
    /\ apUsed' = Append(apUsed, apPtk)
    /\ UNCHANGED <<anonce, ctr, tries, apPtk, apPsk, apPushed, toSta>>

\* handle_deauth: the STA has left.
ApDeauth(f) ==
    /\ f.type = "deauth"
    /\ ForgetSta
    /\ UNCHANGED <<apPsk, apPushed, toSta>>

ApAccepts(f) ==
    /\ apState # "gone"
    /\ Readable(f, apTk)
    /\ ApMsg2(f) \/ ApMsg4(f) \/ ApDeauth(f)

\* wpa_receive returns early, or the driver cannot decrypt the frame.
ApIgnores(f) ==
    /\ \/ apState = "gone"
       \/ ~Readable(f, apTk)
       \/ f.type = "m2" /\ (apState \notin {"start", "calc"} \/ f.ctr \notin valid)
       \/ f.type = "m4" /\ \/ apState # "init"
                           \/ f.ctr \notin valid
                           \/ f.mic # apPtk
    /\ UNCHANGED <<apVars, toSta>>

ApReceive ==
    /\ toAp # <<>>
    /\ ApAccepts(Head(toAp)) \/ ApIgnores(Head(toAp))
    /\ toAp' = Tail(toAp)
    /\ UNCHANGED <<staVars, bounds>>

\* What a timeout sends again.
Retransmission ==
    IF apState = "init" THEN M3(ctr + 1, anonce, apPtk, apTk)
    ELSE M1(ctr + 1, anonce, apTk)

\* Mutant of ApTimeout: the limit is compared after the message is sent.
ApTimeoutOneMore ==
    /\ apState \in Shaking
    /\ IF tries <= Retries
       THEN /\ apState' = IF apState = "init" THEN "init" ELSE "start"
            /\ tries' = tries + 1
            /\ ctr' = ctr + 1
            /\ valid' = Pending(valid, ctr + 1)
            /\ toSta' = Append(toSta, Retransmission)
            /\ UNCHANGED <<anonce, apPtk, apKeys>>
       ELSE /\ ForgetSta
            /\ toSta' = Append(toSta, Deauth)
    /\ UNCHANGED <<apPsk, apPushed, staVars, toAp, bounds>>

\* Mutant of ApTimeout: the timer is cancelled before the MIC of message 2 is
\* verified.
ApTimeoutCancelled ==
    /\ apState \in {"start", "init"}
    /\ IF tries < Retries
       THEN /\ tries' = tries + 1
            /\ ctr' = ctr + 1
            /\ valid' = Pending(valid, ctr + 1)
            /\ toSta' = Append(toSta, Retransmission)
            /\ UNCHANGED <<apState, anonce, apPtk, apKeys>>
       ELSE /\ ForgetSta
            /\ toSta' = Append(toSta, Deauth)
    /\ UNCHANGED <<apPsk, apPushed, staVars, toAp, bounds>>

\* wpa_send_eapol_timeout: send again, or give up after Retries messages.  The
\* timer is not timed: timers of earlier frames are still registered when a new
\* one is, so it may go off at once.
ApTimeout ==
    /\ apState \in Shaking
    /\ IF tries < Retries
       THEN /\ apState' = IF apState = "init" THEN "init" ELSE "start"
            /\ tries' = tries + 1
            /\ ctr' = ctr + 1
            /\ valid' = Pending(valid, ctr + 1)
            /\ toSta' = Append(toSta, Retransmission)
            /\ UNCHANGED <<anonce, apPtk, apKeys>>
       ELSE /\ ForgetSta
            /\ toSta' = Append(toSta, Deauth)
    /\ UNCHANGED <<apPsk, apPushed, staVars, toAp, bounds>>

\* ieee802_11_rx_from_unknown: the STA missed the deauthentication and goes on
\* sending.
ApRejects ==
    /\ apState = "gone"
    /\ linked
    /\ toSta = <<>>
    /\ toSta' = <<Deauth>>
    /\ UNCHANGED <<apVars, staVars, toAp, bounds>>

\* ap_handle_timer: an STA that left without a word is dropped.
ApInactivity ==
    /\ apState = "done"
    /\ ~linked
    /\ ForgetSta
    /\ toSta' = Append(toSta, Deauth)
    /\ UNCHANGED <<apPsk, apPushed, staVars, toAp, bounds>>

-----------------------------------------------------------------------------
(* wpa_supplicant                                                          *)

\* "setpsk": the passphrase is kept for the next message 1.
StaSetPsk ==
    /\ round < MaxRound
    /\ round' = round + 1
    /\ staPend' = round + 1
    /\ UNCHANGED <<apVars, linked, staPmk, staHand, staKeys, staPushed, toSta,
                   toAp, losses, assocs>>

\* wpa_sm_notify_disassoc, wpa_sm_drop_sa.
DropKeys ==
    /\ linked' = FALSE
    /\ tptk' = NoKey
    /\ staTk' = NoKey
    /\ UNCHANGED <<staPend, staPmk, snonce, renew, staAnonce, rxCtr, staUsed,
                   staPushed>>

\* Mutant of StaMsg1: message 2 goes out in the clear during a rekey too.
StaMsg1Clear(f) ==
    /\ f.type = "m1"
    /\ LET pmk == IF staPend # 0 THEN staPend ELSE staPmk
           sn  == IF renew THEN snonce + 1 ELSE snonce
           ptk == [pmk |-> pmk, an |-> f.an, sn |-> sn]
       IN  /\ staPmk' = pmk
           /\ staPend' = 0
           /\ snonce' = sn
           /\ renew' = FALSE
           /\ tptk' = ptk
           /\ staPushed' = ptk
           /\ toAp' = Append(toAp, M2(f.ctr, sn, ptk, NoKey))
    /\ staAnonce' = f.an
    /\ UNCHANGED <<linked, rxCtr, staKeys>>

\* Mutant of StaMsg1: every message 1 is answered with a new SNonce.
StaMsg1Renews(f) ==
    /\ f.type = "m1"
    /\ LET pmk == IF staPend # 0 THEN staPend ELSE staPmk
           sn  == snonce + 1
           ptk == [pmk |-> pmk, an |-> f.an, sn |-> sn]
       IN  /\ staPmk' = pmk
           /\ staPend' = 0
           /\ snonce' = sn
           /\ renew' = FALSE
           /\ tptk' = ptk
           /\ staPushed' = ptk
           /\ toAp' = Append(toAp, M2(f.ctr, sn, ptk, staTk))
    /\ staAnonce' = f.an
    /\ UNCHANGED <<linked, rxCtr, staKeys>>

\* Message 1: the PTK is pushed as it is derived.
StaMsg1(f) ==
    /\ f.type = "m1"
    /\ LET pmk == IF staPend # 0 THEN staPend ELSE staPmk
           sn  == IF renew THEN snonce + 1 ELSE snonce
           ptk == [pmk |-> pmk, an |-> f.an, sn |-> sn]
       IN  /\ staPmk' = pmk
           /\ staPend' = 0
           /\ snonce' = sn
           /\ renew' = FALSE
           /\ tptk' = ptk
           /\ staPushed' = ptk
           /\ toAp' = Append(toAp, M2(f.ctr, sn, ptk, staTk))
    /\ staAnonce' = f.an
    /\ UNCHANGED <<linked, rxCtr, staKeys>>

\* wpa_sm_deauthenticate: message 3 has another ANonce than the last message 1.
\* With frames in order that does not happen.
StaDeauthenticates ==
    /\ DropKeys
    /\ toAp' = Append(toAp, Deauth)

\* Message 3 verified with the PTK of the last message 1: message 4 is sent, in
\* the clear over a control port (the new PTK is not installed yet) or under the
\* TK the driver has over a packet socket, and the TK goes to the driver.
StaMsg3(f) ==
    /\ f.type = "m3"
    /\ f.mic = tptk
    /\ IF f.an = staAnonce
       THEN /\ \E enc \in {NoKey, staTk} :
                  toAp' = Append(toAp, M4(f.ctr, tptk, enc))
            /\ staTk' = tptk
            /\ staUsed' = Append(staUsed, tptk)
            /\ tptk' = NoKey
            /\ renew' = TRUE
            /\ rxCtr' = f.ctr
            /\ UNCHANGED <<linked, staPend, staPmk, snonce, staAnonce, staPushed>>
       ELSE StaDeauthenticates

\* Mutant of StaMsg3Again: ptk.installed is not looked at.
StaMsg3Reinstalls(f) ==
    /\ f.type = "m3"
    /\ f.mic # tptk /\ f.mic = staTk
    /\ IF f.an = staAnonce
       THEN /\ toAp' = Append(toAp, M4(f.ctr, staTk, staTk))
            /\ staUsed' = Append(staUsed, staTk)
            /\ renew' = TRUE
            /\ rxCtr' = f.ctr
            /\ UNCHANGED <<linked, staPend, staPmk, snonce, staAnonce, tptk, staTk,
                           staPushed>>
       ELSE StaDeauthenticates

\* Message 3 again, verified with the PTK in use: message 4 is sent again and the
\* TK, ptk.installed, is not set again.
StaMsg3Again(f) ==
    /\ f.type = "m3"
    /\ f.mic # tptk /\ f.mic = staTk
    /\ IF f.an = staAnonce
       THEN /\ toAp' = Append(toAp, M4(f.ctr, staTk, staTk))
            /\ renew' = TRUE
            /\ rxCtr' = f.ctr
            /\ UNCHANGED <<linked, staPend, staPmk, snonce, staAnonce, tptk,
                           staKeys, staPushed>>
       ELSE StaDeauthenticates

StaDeauth(f) ==
    /\ f.type = "deauth"
    /\ DropKeys
    /\ UNCHANGED toAp

StaAccepts(f) ==
    /\ linked
    /\ Readable(f, staTk)
    /\ \/ f.ctr > rxCtr /\ (StaMsg1(f) \/ StaMsg3(f) \/ StaMsg3Again(f))
       \/ StaDeauth(f)

\* wpa_sm_rx_eapol returns early, or the driver cannot decrypt the frame.
StaIgnores(f) ==
    /\ \/ ~linked
       \/ ~Readable(f, staTk)
       \/ f.type \in {"m1", "m3"} /\ f.ctr <= rxCtr
       \/ f.type = "m3" /\ f.mic \notin {tptk, staTk}
    /\ UNCHANGED <<staVars, toAp>>

StaReceive ==
    /\ toSta # <<>>
    /\ StaAccepts(Head(toSta)) \/ StaIgnores(Head(toSta))
    /\ toSta' = Tail(toSta)
    /\ UNCHANGED <<apVars, bounds>>

-----------------------------------------------------------------------------
(* The link                                                                *)

\* The STA associates, with the passphrase of its configuration.  What was in
\* flight before the exchange of association frames is past.
Associate ==
    /\ ~linked
    /\ assocs < MaxAssoc
    /\ assocs' = assocs + 1
    /\ linked' = TRUE
    /\ staPmk' = 0
    /\ renew' = TRUE
    /\ rxCtr' = 0
    /\ tptk' = NoKey /\ staTk' = NoKey
    /\ apTk' = NoKey
    /\ toAp' = <<>>
    /\ StartHandshake(0, {}, NoKey, <<>>)
    /\ UNCHANGED <<apPsk, apPushed, apUsed, staPend, snonce, staAnonce, staUsed,
                   staPushed, losses, round>>

\* The STA loses the AP, or leaves it, which the AP may be told.
StaLeaves ==
    /\ linked
    /\ DropKeys
    /\ toAp' \in {toAp, Append(toAp, Deauth)}
    /\ UNCHANGED <<apVars, toSta, bounds>>

LoseToSta ==
    /\ toSta # <<>>
    /\ losses < MaxLoss
    /\ losses' = losses + 1
    /\ toSta' = Tail(toSta)
    /\ UNCHANGED <<apVars, staVars, toAp, assocs, round>>

LoseToAp ==
    /\ toAp # <<>>
    /\ losses < MaxLoss
    /\ losses' = losses + 1
    /\ toAp' = Tail(toAp)
    /\ UNCHANGED <<apVars, staVars, toSta, assocs, round>>

Next ==
    \/ Setptk \/ ApReceive \/ ApTimeout \/ ApRejects \/ ApInactivity
    \/ StaSetPsk \/ StaReceive
    \/ Associate \/ StaLeaves \/ LoseToSta \/ LoseToAp

Spec == Init /\ [][Next]_vars

\* Frames arrive, timers go off, and an associated STA sends data.  Nobody has to
\* give a new passphrase, associate, or lose anything.
FairSpec ==
    /\ Spec
    /\ WF_vars(ApReceive) /\ WF_vars(StaReceive)
    /\ WF_vars(ApTimeout) /\ WF_vars(ApRejects) /\ WF_vars(ApInactivity)

-----------------------------------------------------------------------------
(* Properties                                                              *)

\* A TK is set in a driver at most once (a second time would restart its packet
\* numbers), however often messages 1 and 3 are repeated: sm->ptk.installed and
\* the clearing of sm->tptk on the STA, the invalidated counters on the AP.
NoReinstall == IsInjective(apUsed) /\ IsInjective(staUsed)

\* When hostapd reports the handshake completed, the last PTK either daemon has
\* pushed for WiFi is the one both drivers encrypt LiFi with, whatever was derived
\* and pushed on the way.
WifiKeyIsLifiKey ==
    apState = "done" =>
        /\ apPushed = apTk /\ staPushed = apTk
        /\ linked => staTk = apTk

\* However often messages are repeated, answered late or refused, hostapd derives
\* at most one PTK from an ANonce: the receivers recognise a PTK that is pushed
\* again only by comparing it with the last one.
OnePtkPerANonce ==
    [][apPushed' # apPushed => apPushed'.an > apPushed.an]_vars

\* The STA goes first, the AP follows or drops it, and nobody moves on while the
\* other is behind.
Handover == INSTANCE KeyHandover WITH
    apUp <- apState # "gone", ap <- apTk, sta <- staTk
HandsKeysOver == Handover!Spec

\* Two ends with different keys do not stay so: a lost message 4 ends in the keys
\* meeting or in both ends without one.
KeysMeet == (apTk # staTk) ~> (apTk = staTk)

\* A handshake comes to an end: the retries are counted over every way back to
\* message 1.
HandshakeEnds == (apState \in Shaking) ~> (apState \in {"done", "gone"})
=============================================================================

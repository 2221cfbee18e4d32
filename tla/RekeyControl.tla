---------------------------- MODULE RekeyControl ----------------------------
(***************************************************************************)
(* The rekey rounds of LightGuard: system_manager.py on the AP gives a     *)
(* fresh passphrase to sta_passphrase.py on the STA (port 2222, over       *)
(* LiFi), waits for its ACK, has LiFi hostapd adopt the passphrase and     *)
(* start a 4-way handshake ("setptk", port 7789), and marks the round for  *)
(* the watchdog of the AP receiver; the STA marks it for its own.          *)
(*                                                                         *)
(* Passphrase n is the one of round n; 0 is the one in both configuration  *)
(* files.  The handshake is reduced to who uses which passphrase when, and *)
(* the PTK synchronisation, PtkSync, to its outcome.                       *)
(***************************************************************************)
EXTENDS Naturals, Sequences

CONSTANTS
    MaxRound,   \* bound: rounds
    MaxOutage,  \* bound: losses of the LiFi association
    Retries,    \* wpa_pairwise_update_count: how often message 1 is sent
    PushMax,    \* bound: PTKs waiting at the AP receiver
    Faults      \* the subset of FaultKinds the environment may produce

\* The passphrase server is down; a wpa_cli fails or hangs; the STA takes longer
\* than the AP waits; hostapd does not listen; a trigger file cannot be written;
\* a synchronisation fails; a connection is left half open; an iw fails, hangs or
\* exits with an error.
FaultKinds == {"fetch", "cli", "slow", "refuse", "apfile", "stafile", "sync",
               "halfopen", "iw"}

ASSUME RekeyAssumption ==
    /\ MaxRound \in Nat /\ MaxOutage \in Nat
    /\ Retries \in Nat \ {0} /\ PushMax \in Nat \ {0}
    /\ Faults \subseteq FaultKinds

Side == {"ap", "sta"}
Pass == 0 .. MaxRound
None == MaxRound + 1            \* no passphrase
OptPass == Pass \cup {None}

VARIABLES
    mgr,      \* system_manager.py
    round,    \* rounds begun; latest_passphrase is the one of this round
    reqs,     \* passphrases on their way to sta_passphrase.py
    reply,    \* its answer in the connection of this round
    server,   \* sta_passphrase.py
    got,      \* the passphrase it works on
    cmd,      \* setptk command hostapd has not read yet
    apPsk,    \* passphrase behind hapd->conf->ssid.wpa_psk
    cached,   \* cached_passphrase of lifi_listener.c
    apEntry,  \* hostapd has an entry for the STA
    staPend,  \* sm->lifi_passphrase, None unless lifi_passphrase_valid
    staPmk,   \* passphrase behind sm->pmk
    lifi,     \* LiFi as the STA sees it: "down", "assoc" or "up" (carries data)
    hs,       \* 4-way handshake: the message due next, "done" if none is
    tries,    \* sm->TimeoutCtr
    outages,  \* losses of the LiFi association so far
    pushed,   \* PTKs pushed to the AP receiver: from a matching handshake or not
    trig,     \* trig[s]: s's watchdog has a trigger it has not handled
    fresh,    \* fresh[s]: last_ptk_install_time is later than that trigger
    given,    \* history: the last passphrase wpa_supplicant was given
    cover,    \* history: what became of WiFi since this round began
    calm,     \* history: LiFi undisturbed since this round began
    clean     \* history: calm, and nothing a rekey needs has failed since then

mgrVars == <<mgr, round>>
serverVars == <<server, got, reqs>>
apLifi == <<cmd, apPsk, cached, apEntry>>
staLifi == <<staPend, staPmk>>
air == <<lifi, hs, tries, outages>>
watch == <<trig, fresh>>
outcome == <<cover, calm, clean>>
history == <<given, outcome>>
vars == <<mgrVars, serverVars, reply, apLifi, staLifi, air, pushed, watch,
          history>>

MgrPcs == {"fetch", "send", "await", "rekey", "mark", "drop"}
ServerPcs == {"accept", "setpsk", "flush", "ack", "mark", "nack", "blocked"}

TypeOK ==
    /\ mgr \in MgrPcs
    /\ round \in Pass
    /\ reqs \in Seq(Pass)
    /\ reply \in {"none", "ACK", "NACK"}
    /\ server \in ServerPcs
    /\ got \in OptPass /\ cmd \in OptPass
    /\ cached \in OptPass /\ staPend \in OptPass
    /\ apPsk \in Pass /\ staPmk \in Pass /\ given \in Pass
    /\ apEntry \in BOOLEAN
    /\ lifi \in {"down", "assoc", "up"}
    /\ hs \in {"done", "m1", "m2", "m3", "badmic"}
    /\ tries \in 0 .. Retries
    /\ outages \in 0 .. MaxOutage
    /\ pushed \in Seq({"good", "bad"})
    /\ trig \in [Side -> BOOLEAN]
    /\ fresh \in [Side -> BOOLEAN]
    /\ cover \in {"open", "good", "bad", "dropped", "kept"}
    /\ calm \in BOOLEAN /\ clean \in BOOLEAN

\* LiFi is associated with the configured passphrase before the first round.
Init ==
    /\ mgr = "fetch" /\ round = 0
    /\ reqs = <<>> /\ reply = "none" /\ server = "accept" /\ got = None
    /\ cmd = None /\ apPsk = 0 /\ cached = None /\ apEntry = TRUE
    /\ staPend = None /\ staPmk = 0
    /\ lifi = "up" /\ hs = "done" /\ tries = 0 /\ outages = 0
    /\ pushed = <<>>
    /\ trig = [s \in Side |-> FALSE]
    /\ fresh = [s \in Side |-> TRUE]
    /\ given = 0 /\ cover = "good" /\ calm = FALSE /\ clean = FALSE

-----------------------------------------------------------------------------
(* system_manager.py                                                       *)

mgrRest == <<serverVars, apPsk, cached, apEntry, staLifi, air, pushed, given>>

\* A new round, REKEY_INTERVAL (60 s) after the last one: longer than the server
\* on the STA takes for a passphrase (21 s), a watchdog for a trigger (35 s),
\* hostapd for a command and an established LiFi link for a handshake (4 s).
MgrFetch ==
    /\ mgr = "fetch"
    /\ round < MaxRound
    /\ server \in {"accept", "blocked"}
    /\ \A s \in Side : ~trig[s]
    /\ cmd = None
    /\ lifi = "up" => hs = "done"
    /\ round' = round + 1
    /\ cover' = "open"
    /\ calm' = (lifi = "up")
    /\ reply' = "none"
    /\ \/ mgr' = "send" /\ clean' = (calm' /\ server = "accept")
       \/ "fetch" \in Faults /\ mgr' = "drop" /\ clean' = FALSE
    /\ UNCHANGED <<mgrRest, cmd, watch>>

MgrSend ==
    /\ mgr = "send"
    /\ lifi = "up"
    /\ reqs' = Append(reqs, round)
    /\ mgr' = "await"
    /\ UNCHANGED <<round, server, got, reply, apLifi, staLifi, air, pushed, watch,
                   history>>

\* Mutant of MgrGiveUp: the round is given up without disconnecting WiFi.
MgrGiveUpQuietly ==
    /\ mgr \in {"send", "await"}
    /\ lifi # "up" \/ reply = "NACK"
    /\ mgr' = "fetch"
    /\ UNCHANGED <<round, serverVars, reply, apLifi, staLifi, air, pushed, watch,
                   history>>

\* LiFi is down, or no answer within 10 s, or an answer that is not the ACK with
\* the hash of this passphrase: the round is given up and WiFi disconnected.
MgrGiveUp ==
    /\ \/ mgr = "send" /\ lifi # "up" /\ UNCHANGED clean
       \/ /\ mgr = "await" /\ reply = "none"
          /\ \/ (lifi # "up" \/ ~calm \/ server = "blocked") /\ UNCHANGED clean
             \/ "slow" \in Faults /\ clean' = FALSE
       \/ mgr = "await" /\ reply = "NACK" /\ UNCHANGED clean
    /\ mgr' = "drop"
    /\ UNCHANGED <<round, serverVars, reply, apLifi, staLifi, air, pushed, watch,
                   given, cover, calm>>

\* The result of hostapd's pmksa_flush is ignored, and WPA-PSK has no PMKSA.
MgrAck ==
    /\ mgr = "await"
    /\ reply = "ACK"
    /\ mgr' = "rekey"
    /\ UNCHANGED <<round, serverVars, reply, apLifi, staLifi, air, pushed, watch,
                   history>>

\* A command that cannot be sent is only printed.
MgrRekey ==
    /\ mgr = "rekey"
    /\ \/ cmd = None /\ cmd' = round /\ UNCHANGED clean
       \/ "refuse" \in Faults /\ UNCHANGED cmd /\ clean' = FALSE
    /\ mgr' = "mark"
    /\ UNCHANGED <<mgrRest, round, reply, watch, cover, calm>>

\* The trigger is written after the command, whether that was sent or not.
MgrMark ==
    /\ mgr = "mark"
    /\ \/ /\ trig' = [trig EXCEPT !["ap"] = TRUE]
          /\ fresh' = [fresh EXCEPT !["ap"] = FALSE]
       \/ "apfile" \in Faults /\ UNCHANGED watch
    /\ mgr' = "fetch"
    /\ UNCHANGED <<mgrRest, round, reply, cmd, outcome>>

\* disconnect_wifi_link, of this script and of either receiver.  It returns alike
\* whether WiFi was taken down or an iw failed and the link was kept, and no
\* caller tries again.
Disconnect ==
    \/ cover' = "dropped"
    \/ "iw" \in Faults /\ cover' = IF cover = "open" THEN "kept" ELSE cover

MgrDrop ==
    /\ mgr = "drop"
    /\ Disconnect
    /\ mgr' = "fetch"
    /\ UNCHANGED <<mgrRest, round, reply, cmd, watch, calm, clean>>

-----------------------------------------------------------------------------
(* sta_passphrase.py                                                       *)

serverRest == <<mgrVars, apLifi, staPmk, air, pushed, cover, calm>>

\* One of the STA's wpa_cli calls has failed: the passphrase is refused.
Refuse == "cli" \in Faults /\ server' = "nack" /\ clean' = FALSE

\* recv has no timeout: a connection whose data never comes blocks the server.
ServerReceive ==
    /\ server = "accept"
    /\ reqs # <<>>
    /\ reqs' = Tail(reqs)
    /\ \/ lifi = "up" /\ server' = "setpsk" /\ got' = Head(reqs)
       \/ /\ lifi # "up" /\ "halfopen" \in Faults
          /\ server' = "blocked" /\ UNCHANGED got
    /\ UNCHANGED <<serverRest, reply, staPend, watch, given, clean>>

\* Mutant of ServerSetPsk: the exit status of wpa_cli is ignored.
ServerSetPskUnchecked ==
    /\ server = "setpsk"
    /\ server' = "flush"
    /\ \/ staPend' = got /\ given' = got
       \/ "cli" \in Faults /\ UNCHANGED <<staPend, given>>
    /\ UNCHANGED <<serverRest, reqs, got, reply, watch, clean>>

\* wpa_cli setpsk: a wpa_cli that hangs is killed after 5 s, its command may
\* have been carried out.  The check that follows sees a hidden psk and passes.
ServerSetPsk ==
    /\ server = "setpsk"
    /\ \/ /\ staPend' = got /\ given' = got
          /\ (server' = "flush" /\ UNCHANGED clean) \/ Refuse
       \/ Refuse /\ UNCHANGED <<staPend, given>>
    /\ UNCHANGED <<serverRest, reqs, got, reply, watch>>

\* The STA's pmksa_flush, whose failure does refuse the passphrase.
ServerFlush ==
    /\ server = "flush"
    /\ (server' = "ack" /\ UNCHANGED clean) \/ Refuse
    /\ UNCHANGED <<serverRest, reqs, got, reply, staPend, watch, given>>

\* An answer reaches the manager if it still waits in that connection and LiFi
\* carries it.
Answer(a) ==
    reply' = IF mgr = "await" /\ got = round /\ lifi = "up" THEN a ELSE reply

\* After SETPSK_ACK_DELAY.  Sending to a manager that has closed may raise, and
\* then the trigger is not written.
ServerAck ==
    /\ server = "ack"
    /\ Answer("ACK")
    /\ \/ server' = "mark"
       \/ (mgr # "await" \/ got # round) /\ server' = "accept"
    /\ UNCHANGED <<serverRest, reqs, got, staPend, watch, given, clean>>

ServerNack ==
    /\ server = "nack"
    /\ Answer("NACK")
    /\ server' = "accept"
    /\ UNCHANGED <<serverRest, reqs, got, staPend, watch, given, clean>>

ServerMark ==
    /\ server = "mark"
    /\ \/ /\ trig' = [trig EXCEPT !["sta"] = TRUE]
          /\ fresh' = [fresh EXCEPT !["sta"] = FALSE]
       \/ "stafile" \in Faults /\ UNCHANGED watch
    /\ server' = "accept"
    /\ UNCHANGED <<serverRest, reqs, got, reply, staPend, given, clean>>

-----------------------------------------------------------------------------
(* LiFi hostapd and wpa_supplicant.                                        *)

lifiRest == <<mgrVars, serverVars, reply, given>>

\* Mutant of HandleSetptk: no reauthentication follows the new PMK.
HandleSetptkOnly ==
    /\ cmd # None
    /\ cmd' = None
    /\ apPsk' = IF apEntry THEN cmd ELSE apPsk
    /\ cached' = IF apEntry THEN cached ELSE cmd
    /\ UNCHANGED <<lifiRest, apEntry, staLifi, air, pushed, watch, outcome>>

\* lifi_handle_line.  Without an entry for the STA the passphrase is only put
\* aside; an entry that has no state machine yet drops the command.
HandleSetptk ==
    /\ cmd # None
    /\ cmd' = None
    /\ \/ /\ ~apEntry
          /\ cached' = cmd
          /\ UNCHANGED <<apPsk, hs, tries>>
       \/ /\ apEntry
          /\ apPsk' = cmd /\ hs' = "m1" /\ tries' = 1
          /\ UNCHANGED cached
       \/ /\ apEntry /\ lifi = "down"
          /\ UNCHANGED <<apPsk, cached, hs, tries>>
    /\ UNCHANGED <<lifiRest, apEntry, staLifi, lifi, outages, pushed, watch,
                   outcome>>

\* Mutant of StaRecvM1: the passphrase is used up without a new PMK.
StaRecvM1KeepsPmk ==
    /\ hs = "m1"
    /\ lifi # "down"
    /\ staPend' = None
    /\ hs' = "m2"
    /\ UNCHANGED <<lifiRest, apLifi, staPmk, lifi, tries, outages, pushed, watch,
                   outcome>>

\* The STA derives its PMK anew only from a passphrase not used before.  A lost
\* message 1 or 2 is repeated and changes nothing.
StaRecvM1 ==
    /\ hs = "m1"
    /\ lifi # "down"
    /\ staPmk' = IF staPend = None THEN staPmk ELSE staPend
    /\ staPend' = None
    /\ hs' = "m2"
    /\ UNCHANGED <<lifiRest, apLifi, lifi, tries, outages, pushed, watch, outcome>>

\* The AP takes its PSK as it is now, derives, pushes the PTK to port 8877, and
\* only then compares the MIC.
ApRecvM2 ==
    /\ hs = "m2"
    /\ lifi # "down"
    /\ Len(pushed) < PushMax
    /\ \/ /\ staPmk = apPsk /\ pushed' = Append(pushed, "good")
          /\ hs' = "m3" /\ tries' = 1
       \/ /\ staPmk # apPsk /\ pushed' = Append(pushed, "bad")
          /\ hs' = "badmic" /\ UNCHANGED tries
    /\ UNCHANGED <<lifiRest, apLifi, staLifi, lifi, outages, watch, outcome>>

\* Messages 3 and 4.  Until then a rekey leaves the old PTK in place.
HandshakeDone ==
    /\ hs = "m3"
    /\ lifi # "down"
    /\ hs' = "done"
    /\ lifi' = "up"
    /\ UNCHANGED <<lifiRest, apLifi, staLifi, tries, outages, pushed, watch, outcome>>

\* Mutant of ApTimeout: message 1 is repeated once too often.
ApTimeoutOneMore ==
    /\ hs = "badmic" \/ (hs # "done" /\ lifi = "down")
    /\ tries <= Retries
    /\ tries' = tries + 1
    /\ hs' = "m1"
    /\ UNCHANGED <<lifiRest, apLifi, staLifi, lifi, outages, pushed, watch, outcome>>

\* No valid answer in time: the message again, or the STA is disconnected.
ApTimeout ==
    /\ hs = "badmic" \/ (hs # "done" /\ lifi = "down")
    /\ IF tries < Retries
       THEN /\ tries' = tries + 1 /\ hs' = IF hs = "m3" THEN "m3" ELSE "m1"
            /\ UNCHANGED <<apEntry, lifi, calm, clean>>
       ELSE /\ apEntry' = FALSE /\ lifi' = "down" /\ hs' = "done"
            /\ calm' = FALSE /\ clean' = FALSE
            /\ UNCHANGED tries
    /\ UNCHANGED <<lifiRest, cmd, apPsk, cached, staLifi, outages, pushed, watch,
                   cover>>

\* The light is blocked: the STA loses the association, the AP may not notice.
Outage ==
    /\ lifi # "down"
    /\ outages < MaxOutage
    /\ outages' = outages + 1
    /\ lifi' = "down"
    /\ calm' = FALSE /\ clean' = FALSE
    /\ UNCHANGED <<lifiRest, apLifi, staLifi, hs, tries, pushed, watch, cover>>

\* The AP removes an entry that is no longer active.
ApForget ==
    /\ lifi = "down"
    /\ apEntry
    /\ apEntry' = FALSE
    /\ hs' = "done"
    /\ UNCHANGED <<lifiRest, cmd, apPsk, cached, staLifi, lifi, tries, outages,
                   pushed, watch, outcome>>

\* The STA sets its PMK from the configuration file before it associates.  What
\* hostapd has put aside stays there: sta_info.c looks at a copy of its own.
Reassociate ==
    /\ lifi = "down"
    /\ lifi' = "assoc"
    /\ apEntry' = TRUE
    /\ staPmk' = 0
    /\ hs' = "m1" /\ tries' = 1
    /\ UNCHANGED <<lifiRest, cmd, apPsk, cached, staPend, outages, pushed, watch,
                   outcome>>

-----------------------------------------------------------------------------
(* PTK receivers and their watchdogs.                                      *)

wifiRest == <<mgrVars, serverVars, reply, apLifi, staLifi, air, given, calm>>

SyncOk ==
    /\ pushed # <<>>
    /\ lifi = "up"
    /\ pushed' = Tail(pushed)
    /\ cover' = Head(pushed)
    /\ fresh' = [s \in Side |-> TRUE]
    /\ UNCHANGED <<wifiRest, trig, clean>>

\* The STA may have installed before the AP gave up.
SyncFail ==
    /\ pushed # <<>>
    /\ lifi # "up" \/ "sync" \in Faults
    /\ pushed' = Tail(pushed)
    /\ Disconnect
    /\ clean' = FALSE
    /\ \/ UNCHANGED fresh
       \/ "sync" \in Faults /\ fresh' = [fresh EXCEPT !["sta"] = TRUE]
    /\ UNCHANGED <<wifiRest, trig>>

\* Mutant of Watchdog: the trigger is handled, the install time is not looked at.
WatchdogTrusts(s) ==
    /\ trig[s]
    /\ trig' = [trig EXCEPT ![s] = FALSE]
    /\ UNCHANGED <<wifiRest, pushed, cover, clean, fresh>>

\* HANDSHAKE_TIMEOUT after its trigger, which is handled whatever iw does.
Watchdog(s) ==
    /\ trig[s]
    /\ trig' = [trig EXCEPT ![s] = FALSE]
    /\ (fresh[s] /\ UNCHANGED cover) \/ (~fresh[s] /\ Disconnect)
    /\ UNCHANGED <<wifiRest, pushed, fresh, clean>>

-----------------------------------------------------------------------------
MgrStep ==
    MgrFetch \/ MgrSend \/ MgrGiveUp \/ MgrAck \/ MgrRekey \/ MgrMark \/ MgrDrop

ServerStep ==
    ServerReceive \/ ServerSetPsk \/ ServerFlush \/ ServerAck \/ ServerNack
    \/ ServerMark

HandshakeStep ==
    HandleSetptk \/ StaRecvM1 \/ ApRecvM2 \/ HandshakeDone \/ ApTimeout

SyncStep == SyncOk \/ SyncFail

Next ==
    \/ MgrStep \/ ServerStep \/ HandshakeStep
    \/ Outage \/ ApForget \/ Reassociate
    \/ SyncStep
    \/ \E s \in Side : Watchdog(s)

Spec == Init /\ [][Next]_vars

\* Every process and daemon keeps running; a LiFi station keeps associating.
Fairness ==
    /\ WF_vars(MgrStep) /\ WF_vars(ServerStep) /\ WF_vars(HandshakeStep)
    /\ WF_vars(Reassociate) /\ WF_vars(SyncStep)
    /\ \A s \in Side : WF_vars(Watchdog(s))

FairSpec == Spec /\ Fairness
-----------------------------------------------------------------------------
(* Safety.                                                                 *)

\* The ACK of a round means that the STA's wpa_supplicant was given the
\* passphrase of that round last, not only that the server received it.
AckMeansSet == mgr = "rekey" => given = round

\* While LiFi stays associated, the handshake that setptk starts finds both
\* sides with the same PMK, whatever earlier rounds left behind: a passphrase
\* the STA took but the AP never heard of, or a round given up half way.
UndisturbedRekeyVerifies == calm /\ hs \in {"m2", "badmic"} => staPmk = apPsk

\* WiFi was rekeyed or disconnected since this round began, or every disconnect
\* tried has failed: "kept" is a round in which WiFi goes on with its old key
\* because the code swallows the failure of an iw.
Covered ==
    \/ cover \in {"good", "bad", "dropped"}
    \/ "iw" \in Faults /\ cover = "kept"

\* No round is left with the WiFi link neither rekeyed nor disconnected, and
\* nobody having tried: before the next one begins a PTK was synchronised, or
\* the manager, a receiver or a watchdog has run disconnect_wifi_link, which
\* works unless iw fails.  Either watchdog is enough.
NoRoundUncovered == [][round' # round => Covered]_vars

(* Claims of the documentation that the code does not keep.                *)

\* "This prevents the WiFi data channel from continuing with a stale or
\* unverified key" (README.md:61): the PTKs that reach WiFi come from
\* handshakes whose message 2 the AP has verified.
VerifiedKeyOnly == cover # "bad"

\* "Supports PMK caching for STAs that have not yet associated, applying the
\* cached PMK once the STA connects" (MODIFICATIONS.md:16).
CachedPmkApplied ==
    [][~apEntry /\ apEntry' /\ cached # None => apPsk' = cached]_vars

\* "The link recovers automatically once LiFi realignment succeeds and the next
\* rekey completes" (README.md:61): a LiFi association that is lost comes back.
LifiRecovers == lifi = "down" ~> lifi = "up"

(* Liveness.                                                               *)

\* A round in which LiFi holds and nothing but a trigger file or an iw fails
\* brings a PTK from a verified handshake to the WiFi link, whatever has failed
\* in the rounds before it.
RekeySucceeds == mgr = "send" /\ clean ~> cover = "good" \/ ~clean

\* Every round comes to an end: whatever fails in it but iw, WiFi is rekeyed or
\* disconnected; when iw fails too, a disconnect has at least been tried.
RoundCovered == cover = "open" ~> Covered
=============================================================================

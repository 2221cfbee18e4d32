# LightGuard in TLA+

LightGuard keys a WiFi link over a LiFi link.  The WPA2 4-way handshake runs over
LiFi only; each PTK it yields is carried by Python processes to the WiFi daemons,
which run no handshake of their own.  Most of the 3007 files of the repository are
four vendored copies of hostapd and wpa_supplicant 2.10.  The system itself is the
Python processes, the start scripts and a few hundred changed lines of C; this
project is about those.

## 1. The system

### 1.1 Components

| component | code | state it keeps | operations |
|---|---|---|---|
| passphrase server | `LiFi_link/hostapd-2.10-lifi/scripts/get_random_time.py`, port 9911 | none: a fresh passphrase per connection | serve |
| system manager (AP) | `.../scripts/system_manager.py` | `last_passphrase`, trigger file `/tmp/rekey_triggered` | fetch a passphrase, send it to the STA and check the ACK, flush the PMKSA cache, `setptk`, mark the trigger; disconnect WiFi on failure |
| passphrase receiver (STA) | `LiFi_link/wpa_supplicant-2.10-lifi/scripts/sta_passphrase.py`, port 2222 | trigger file `/tmp/rekey_triggered_sta` | receive a passphrase, `wpa_cli setpsk`, verify, ACK with a hash, mark the trigger |
| LiFi listener (AP) | `src/ap/lifi_listener.c`, port 7789, `ctrl_iface` | PSK of the BSS, a cached passphrase per header inclusion | `setptk`: derive the PMK, start a reauthentication |
| LiFi 4-way handshake | LiFi `wpa_auth.c`, `rsn_supp/wpa.c`, `wpa_common.c` | PMK, PTK and TK of each side, nonces, replay counters, the STA's pending passphrase | associate, M1 to M4, retransmission, PTK push to port 8877 on derivation |
| PTK receiver (AP) | `scripts/ptk_receiver_ap.py`, port 8877 | `last_ptk_hex`, watchdog time | accept a push, drive SYNC/READY/INSTALL/OK, forward to WiFi, disconnect |
| PTK receiver (STA) | `scripts/ptk_receiver_sta.py`, ports 8877 and 2223 | `pending_ptk_hex`, `last_ptk_hex`, watchdog time | accept a push, serve the exchange, forward to WiFi, disconnect |
| watchdogs | a thread of each receiver | last handled trigger | disconnect WiFi when no PTK followed a trigger within 30 s |
| PTK senders | `WiFi_link/system_manager/send_ptk_ap.py`, `send_ptk_sta.py` | none | wait for an association, write the PTK to the daemon, retry |
| WiFi hostapd | `WiFi_link/hostapd-2.10-wifi/src/ap/wpa_auth.c`, port 9899 | pairwise key per station | install the built-in PTK on association, install what the listener is given, rekey timer |
| WiFi wpa_supplicant | `WiFi_link/wpa_supplicant-2.10-wifi/src/rsn_supp/wpa.c`, port 9900 | pairwise key | the same |
| manual bridge | `ap_ptk_sync.py`, `sta_ptk_sync.py`, port 10000 | none | send one PTK to both sides |
| scripts | `start_*.sh`, `kill_*.sh` | none | start and stop the processes |

### 1.2 Interactions

```
 get_random_time --9911--> system_manager --2222 (LiFi)--> sta_passphrase
                              | 7789                          | wpa_cli setpsk
                              v                               v
                        LiFi hostapd <==== 4-way, LiFi ====> LiFi wpa_supplicant
                              | 8877                          | 8877
                              v                               v
                        ptk_receiver_ap --2223 (LiFi)--> ptk_receiver_sta
                              | 9899                          | 9900
                              v                               v
                        WiFi hostapd <======= WiFi =======> WiFi wpa_supplicant
```

Every arrow is a TCP connection.  The receivers also read the trigger files that the
managers of their own side write, and everybody may disconnect the WiFi link with `iw`.

### 1.3 What is hard here

* Two threads of the STA receiver share `pending_ptk_hex`; the lock is not held from
  SYNC to INSTALL.
* The two ends of the exchange run different clocks: the AP gives a reply 15 s, the STA
  may take 20 s for its answer, so an answer may come after the AP has given up, and the
  STA may install and confirm for an AP that no longer listens.
* An association, at any moment, puts the built-in key back, on each side separately.
* The last step, the AP's own install, has no check; the sender scripts and daemons report
  success for work not done.
* A receiver remembers a PTK before it is synchronised, so the repeat is not a retry.
* `disconnect_wifi_link`, the answer to every failure, swallows the failures of `iw`: it returns
  alike whether WiFi is down or not, and its caller does not try again.
* The watchdogs judge by files written after the event they time, by polling a clock, and
  forget when they are restarted what they have judged; the files stay.
* A rekey runs on a link in use: the frames of the handshake are encrypted with a key that the
  handshake replaces, on one side before the other, and any of them may be lost.  After a lost
  message 4 the two drivers cannot read each other.
* Both LiFi daemons push a PTK when it is derived, which a repeated message 1, a passphrase
  given in between, or a message 2 that does not verify makes happen more than once.
* The LiFi daemons push from their event loops, with a connect that waits for the receiver.
* The passphrase travels before the handshake that uses it, and the ACK is for the
  passphrase received, not for the one installed.

`PROJECT.json` lists each of these as a hazard at its line, with the properties aimed at it.

### 1.4 What makes each component correct

* **Exchange.** The AP never installs a PTK the STA has not confirmed; what is confirmed is
  what was proposed; every connection ends; after a success both sides of an undisturbed
  link hold the same key; after a failure the link goes down, as far as `iw` works.
* **Receivers.** Only PTKs of full length go on; no message is lost in another; the lock is
  always released.
* **WiFi daemons.** The key in the driver is the built-in one, or the last one the listener
  was given in this association.
* **Rekey control.** A passphrase is acknowledged only when the STA has it; a rekey that
  nothing disturbs uses it; every round ends with a new key on WiFi or, as far as `iw` works,
  with WiFi disconnected.
* **Watchdogs.** Each trigger is judged, once, before the next replaces it; a PTK in time saves
  the link; a trigger of an earlier run does not cost the new one its link.
* **LiFi handshake.** No key is set twice; the AP follows the STA key by key or drops it; after a
  completed handshake the PTK last pushed on either side is the one in use; two ends that
  disagree meet again; every handshake ends.

## 2. Plan

Most important behaviour first: the exchange that puts the same key on both ends of the
WiFi link, then the control loop that starts and guards it, then the handshake beneath.

| order | module | models | composed with | state |
|---|---|---|---|---|
| 1 | `WifiLink` | the two WiFi daemons, the sender scripts, `iw` | extended by `PtkSync` | done |
| 2 | `PtkSync` | the two PTK receivers and the pushes they get | `WifiLink` | done |
| 3 | `TwoPhaseInstall` | what the exchange promises, without messages | refined by `PtkSync` | done |
| 4 | `PtkSyncProofs`, `PtkSyncSafety` | type, safety and refinement theorems | `PtkSync` | done |
| 5 | `RekeyControl` | manager, passphrase receiver, `setptk`, watchdogs; handshake and sync by their outcome | | done |
| 6 | `RekeyProofs` | its safety theorems | `RekeyControl` | done |
| 7 | `FourWay` | LiFi 4-way handshake: the state machine of `wpa_auth.c`, `rsn_supp/wpa.c`, replay counters, lost and repeated frames, the PTK pushes | | done |
| 8 | `KeyHandover` | what a handshake promises about the keys in the drivers, without messages | refined by `FourWay` | done |
| 9 | `FourWayProofs` | type, safety and refinement theorems | `FourWay` | done |
| 10 | `RekeyWatchdog` | one watchdog against the clock, its trigger file, restarts | | done |
| 11 | `RekeyWatchdogProofs` | its theorems | `RekeyWatchdog` | done |
| 12 | `PtkSyncAgreement` | the theorems that follow messages and keys through queues and inboxes | `PtkSyncSafety` | done |
| 13 | `FourWayPushes` | which PTKs a handshake derives, and in which order | `FourWayProofs` | done |
| 14 | `LightGuard` | the handshake and the synchronisation as one system | extends `FourWay`, instantiates `PtkSync` | done |
| 15 | `LightGuardProofs` | `LightGuard` implements `PtkSync`; the key of LiFi ends on WiFi | 4, 12, 13 | done |
| 16 | `RekeyControl` on top of `LightGuard` | the rounds, with `FourWay` and `PtkSync` in place of their outcomes | 5, 14 | open |

`RekeyControl` holds only the outcomes of a handshake and of a sync, with the guards that
matter to a round; `LightGuard` is the detail.  That `LightGuard` under the manager implements
`RekeyControl` is the one abstract statement left.  Its state space is beyond TLC at bounds where
a round could fail (`LightGuard` alone has half a million states with one rekey), so it is worth
stating only with a proof.

## 3. The modules

### 3.1 `WifiLink`

`assoc[s]` is what the driver of side `s` knows, `evt[s]` an association its daemon has not
handled, `inbox[s]` the payloads in the daemon's listener socket, `wkey[s]` the pairwise key
in the driver.

| action | code |
|---|---|
| `Associate`, `Leave`, `NoticeLeft` | drivers (external) |
| `NotifyAssoc` | `wpa_sm_notify_assoc`, `wpa_auth_sta_associated`: the built-in key goes in |
| `HandlePtk` | `wpa_sm_ptk_tcp_handler`, `wpa_auth_ptk_tcp_handler` |
| `RekeyTimer` | `wpa_sm_rekey_ptk`, `wpa_rekey_ptk`: the built-in key again |
| `DisconnectWifi` | `disconnect_wifi_link` of all Python processes |
| `SendPtk` | `send_ptk_ap.py`, `send_ptk_sta.py` under their callers' 5 s limit |

### 3.2 `PtkSync`

One variable per piece of state of the receivers: `apLast`, `staLast` (`last_ptk_hex`),
`pending` (`pending_ptk_hex`), a program counter for each thread that waits, and `conn`, one
record per TCP connection to port 2223 with what travels in each direction.  `staHold` is the
STA main thread between reading a push and taking the lock; `Locked` is
`pending_ptk_lock`.  `apQ` and `staQ` are the listen queues of port 8877.  `cur[s]` is the PTK
that the LiFi daemon of side `s` derived last, `used[s]` (history) all it has derived.

| actor | actions | code |
|---|---|---|
| AP main thread | `ApAcceptPush`, `ApConnect`, `ApRecvReady`, `ApSendInstall`, `ApRecvOk`, `ApForward`, `ApSyncFail`, `ApConnectFail`, `ApDrop` | main loop and `sync_with_sta_and_install` |
| STA main thread | `StaAcceptPush`, `StaStorePending` | main loop |
| STA sync thread | `StaAcceptConn`, `StaRecvSync`, `StaSendReady`, `StaSendNotReady`, `StaRecvInstall`, `StaRecvEof`, `StaForward`, `StaRecord`, `StaTimeout`, `StaDrop` | `run_sync_server` |
| LiFi daemons | `LifiStaDerive`, `LifiApDerive`, both `Derive` and `PushTo` | `wpa_pmk_to_ptk`, `send_ptk_to_wifi` |
| WiFi link | `WifiStep`, `WifiHandlePtk`, `ControlDrop` | `WifiLink`, and the disconnects of manager and watchdogs |

The daemons are an environment here: each derives its latest PTK again, when a message of the
handshake is repeated, or one it has not derived before.  That this is all they do is shown of
the handshake itself in `LightGuard`.  The receivers depend on it: they recognise a repeated push
by comparing it with one PTK, the last.  Deriving and pushing is one step, because the daemon
blocks in `send_ptk_to_wifi` until the push is in the queue; `PushTo` has no outcome while the
queue is full, unless pushes may fail (`"push"`).

A wait with a timeout is a state in which the message and the timeout are both possible.
`okKey`, `late` and `calm` are history variables: they record what the STA forwarded before
it said OK, whether a LiFi push came after SYNC, and whether the WiFi link was left alone.

`TwoPhaseInstall` is the same exchange as a commit protocol: `verdict[i]` is the AP's end of
round `i`, `confirmed` the rounds with an OK.

### 3.3 `RekeyControl`

Passphrase `n` is the one of round `n`, 0 the configured one.  A PMK is named by the
passphrase it is derived from.

| actor | state | actions |
|---|---|---|
| `system_manager.py` | `mgr`, `round` | `MgrFetch` to `MgrDrop` |
| `sta_passphrase.py` | `server`, `got`, connections `reqs`, `reply` | `ServerReceive` to `ServerNack` |
| LiFi hostapd | `cmd` (port 7789), `apPsk`, `cached`, `apEntry`, `hs`, `tries` | `HandleSetptk`, `ApRecvM2`, `ApTimeout`, `ApForget` |
| LiFi wpa_supplicant | `staPend`, `staPmk`, `lifi` | `StaRecvM1`, `Reassociate`, `HandshakeDone` |
| receivers | `pushed` | `SyncOk`, `SyncFail`: the outcome of `PtkSync` |
| watchdogs | `trig`, `fresh` | `Watchdog` |
| the light | `outages` | `Outage` |

`fresh[s]` stands for `last_ptk_install_time >= rekey_time`.  `cover` is history: what has
happened to the WiFi link since the round began (`"open"`: nothing; `"good"`, `"bad"`: a PTK
of a verified or a failed handshake was synchronised; `"dropped"`: disconnected; `"kept"`:
one or more disconnects were tried and each failed in `iw`, so that the link goes on with its old
key).  `calm` and `clean` are history too: LiFi has held since the round began, and nothing a rekey
needs has failed either.

`Disconnect` is `disconnect_wifi_link` as the manager (`MgrDrop`), a receiver after a failed sync
(`SyncFail`) and the watchdogs (`Watchdog`) call it.  The function catches every exception, looks at
no exit status, and takes an empty station list for an empty cell; the model has one fault, `"iw"`,
for all of these.  In each of the three the caller goes on as if WiFi were down.

### 3.4 `FourWay` and `KeyHandover`

A PTK is the triple of what determines it, `[pmk, an, sn]`: the passphrase behind the PMK and
the numbers of the two nonces.  Its TK and the key of its MICs are the same value, so that a MIC
verifies exactly when both sides have derived from the same three.  `enc` of a frame is the TK
the sender's driver held; the receiver's driver delivers it if it holds the same, or if the frame
is in the clear.  `apTk` and `staTk` are the drivers, `apPtk` and `tptk` the PTKs derived and not
yet set; `valid` is `sm->key_replay`.  `toSta` and `toAp` are the air: frames stay in order and
may be lost.

| actor | actions | code |
|---|---|---|
| hostapd | `StartHandshake` | AUTHENTICATION2, INITPSK, PTKSTART of `SM_STATE(WPA_PTK, ...)` |
| | `Setptk` | `lifi_listener.c`, `WPA_REAUTH_EAPOL` |
| | `ApMsg2`, `ApMsg4`, `ApDeauth`, `ApIgnores` | `wpa_receive`, PTKCALCNEGOTIATING, PTKINITNEGOTIATING, PTKINITDONE |
| | `ApTimeout` | `wpa_send_eapol_timeout`, the retry limits of `SM_STEP(WPA_PTK)` |
| | `ForgetSta`, `ApRejects`, `ApInactivity` | DISCONNECT, INITIALIZE, `ieee802_11_rx_from_unknown`, `ap_handle_timer` |
| wpa_supplicant | `StaSetPsk` | `SET_LIFI_PASS` |
| | `StaMsg1`, `StaMsg3`, `StaMsg3Again`, `StaIgnores` | `wpa_sm_rx_eapol`, `wpa_supplicant_process_1_of_4`, `..._3_of_4` |
| | `StaDeauth`, `DropKeys` | `wpa_sm_notify_disassoc`, `wpa_sm_drop_sa` |
| the link | `Associate`, `StaLeaves`, `LoseToSta`, `LoseToAp` | drivers (external) |

A receive is one action, and either accepts the frame at the head of the queue or ignores it;
the two cover every frame.  `apUsed` and `staUsed` are history: the TKs each side has set, in
order.

`KeyHandover` has only the two keys, whether the AP has an entry, and what was used: the STA
switches to a fresh key while the two agree, the AP follows it to the last one, either may drop.

### 3.5 `RekeyWatchdog`

Both receivers run the same `ptk_watchdog` on a trigger file of their own; the module is either
of them, with the process that writes the file.

| actor | actions | code |
|---|---|---|
| writer | `MarkOpen`, `MarkWrite` | `open(..., "w")` truncates, `write` follows: `system_manager.py`, `sta_passphrase.py` |
| main thread | `InstallPtk` | `last_ptk_install_time = time.time()` |
| watchdog | `ReadTrigger`, `Judge`, `Drop` | the file read and the verdict in the loop of `ptk_watchdog`, `disconnect_wifi_link` |
| scripts | `Kill`, `Start` | kill and start scripts: a receiver ends and begins anew, the file stays |
| time | `Tick` | everything but sleeping and disconnecting takes no time |

`dropped` and `kept` are history: the last trigger that took WiFi down, and the last one whose
disconnect failed in `iw` (only where `IwFails`).  The watchdog tells them apart as little as the
code does: `handled` is set before either.

### 3.6 `LightGuard`

All of `FourWay` and all of `PtkSync` over one another's state: `cur` of `PtkSync` is
`[ap |-> apPushed, sta |-> staPushed]` of `FourWay`, so that no PTK is handed over other than by
the step that derives it.

| actor | actions | code |
|---|---|---|
| hostapd | `HostapdReceives`: `ApReceive`, and with it the push when message 2 makes it derive (`ApDerives`) | `wpa_receive`, PTKCALCNEGOTIATING, `wpa_pmk_to_ptk` |
| wpa_supplicant | `SupplicantReceives`: `StaReceive`, and the push when message 1 makes it derive (`StaDerives`) | `wpa_supplicant_process_1_of_4`, `wpa_pmk_to_ptk` |
| LiFi, otherwise | `LifiElse`: every other action of `FourWay` | |
| receivers and WiFi | `WifiSide`: every action of `PtkSync` but the derivations | |

A daemon whose queue is full does not take the step: it waits in it, and its timers, which run in
the same event loop, could not fire meanwhile.  The model lets them fire; that adds behaviours and
takes none away.

`CarriesKeys` is `Spec` of `PtkSync` under this substitution, `KeyInUse` the purpose of the
repository: after a completed handshake whose PTKs went through undisturbed, WiFi is encrypted
with the key LiFi is encrypted with.

## 4. The runs

| run | bounds | shows |
|---|---|---|
| `ptk_sync` | 2 PTKs, 2 connections, listen queues of 1, `iw` may fail | `ApNeverAhead`, `SessionAgreement`, `OneMessageInFlight`, `SyncAgreement`, `EachPtkOnce` (no PTK in two syncs), `LatestInstalled` (what hostapd derived last is what ends on WiFi), refinement of `TwoPhaseInstall` |
| `ptk_sync_faults` | 1 PTK, 1 connection, every fault but `iw`, AP rekey timer, under `FairSpec` | `TypeOK`; `ApNeverAhead` whatever senders, drivers and disk do; `SyncAgreement` for syncs whose deliveries and installs succeed (its `calm` excludes the others), also when a sender is killed after it has delivered; every connection gets a verdict, the STA's server comes back, an accepted PTK is confirmed or the link dropped, a LiFi daemon that waits for the receiver goes on |
| `rekey` | 2 rounds, 2 outages, 2 transmissions, 2 pushes, every fault (`iw` included) but the STA's trigger file, under `FairSpec` | `AckMeansSet`, `UndisturbedRekeyVerifies`, `NoRoundUncovered`, `RoundCovered`, `RekeySucceeds` |
| `four_way` | 1 new passphrase, 2 associations, 2 lost frames, 2 transmissions, under `FairSpec` | `NoReinstall`, `WifiKeyIsLifiKey`, `OnePtkPerANonce`, refinement of `KeyHandover`, `KeysMeet`, `HandshakeEnds` |
| `light_guard` | 1 new passphrase, 1 association, 1 lost frame, 1 transmission, 2 nonces a side, 2 connections, queues of 1, WiFi stays associated, nothing else fails | `KeyInUse`, and `CarriesKeys`: the handshake implements the daemons of `PtkSync` |
| `watchdog` | timeout 2, poll 1, gap 5, clock to 14, `iw` may fail | `NoTriggerLost`, `InstallPreventsDrop`, `StaleTriggerHarmless`, `RoundSettled` |
| `installs_ap_ptk`, `stale_association`, `lost_install`, `verified_key`, `cached_pmk`, `lifi_recovers` | smallest that show it | section 7 |

**Bounds.** Two PTKs and two connections are the least with which a message, a lock or a
reply of one exchange can meet the next, and with which a push can replace a pending PTK; the
PTKs are interchangeable, so symmetry is sound (no liveness property is checked with it).  A
third PTK or connection adds repetitions: a connection shares with later ones only
`last_ptk_hex`, the pending PTK and the WiFi keys, all overwritten by the next.  A queue of
one push already makes the daemons wait and reorder.  Two rounds let a passphrase, a
handshake or a trigger of one meet the next; two outages let a passphrase be used in one
association and the configured one come back in another; two transmissions make a retry and
a last attempt possible.

In `four_way` one passphrase given on a link in use is a rekey with a new PMK, and the two
associations give a handshake before and one after it; two losses take both a frame and its
repetition, or one in each direction.  In `watchdog` the clock has the smallest numbers with
`Timeout + 2 * Period < Gap`, which is the order of the real ones (30 s, 9 s, 55 s), and runs
long enough for two marks, the verdict on both, and a restart between them.  The real numbers are
those of the default configuration: `REKEY_INTERVAL` is 60 in `system_manager.py`,
`HANDSHAKE_TIMEOUT` an environment variable of the receivers with the default 30, and nothing in
the code relates the two.  From a timeout of 37 s on, neither the run nor the theorems of the
watchdog say anything.

`rekey` leaves out one fault, an STA that cannot write its trigger file.  Either watchdog is enough
to cover a round, so that one of the two files may fail (the AP's does here); with both, nobody
watches a round whose handshake fails, and `NoRoundUncovered` is false.  A failing `iw` is among
the faults of the run.  What it does to a round is part of the property and not of an assumption:
`Covered` has a state of its own for a round in which every disconnect that was tried failed, and
`NoRoundUncovered` says that there is no round in which nobody tried.  Where `iw` works, the round
ends rekeyed or disconnected (`WorkingIwCovers`, section 6).  `RekeySucceeds` is about the
rounds that are `clean`, whatever failed in the rounds before.

`light_guard` has one rekey over a link in use, so that both handshakes complete and the PTKs of
the second reach a queue that may be full with those of the first.  Three of its bounds do not
belong to its parts: `Nonces` and `PTK` cut off behaviours that draw more nonces than two (a
handshake that would derive a PTK outside `PTK` stops there), and `WifiStays` leaves out the ends
of WiFi associations.  With disconnects, or a second transmission, the run would take hours; they
make `KeyInUse` true by its premise `calm`, and both parts are checked with them on their own.
The theorems of `LightGuardProofs` are for any `PTK`, with or without `WifiStays`.

Safety in every one of these runs, and the two refinements, hold without these bounds by the
theorems of section 6.

`CHECK_DEADLOCK FALSE` is set for `RekeyControl`, `FourWay` and `LightGuard`: after the last
round, and after the last association, nothing is left to do.  `PtkSync` and `RekeyWatchdog` are checked for
deadlock: `iw` and reassociation always go on, and a receiver can always be killed or started.

**Mutants.** Each property is also run against a changed definition, kept beside the original
and commented: a receive without a timeout, a lock left out, an install before the
confirmation, a TK set again, a verdict passed too early.  Each is found.

## 5. Fairness

`PtkSync`: weak fairness of each thread (`ApStep`, `StaMainStep`, `StaSyncStep`): threads of
running processes, and every socket wait in them ends with a timeout, so a step is always
taken in the end.  Weak fairness of the daemons' event loops (`NotifyAssoc`, `NoticeLeft`,
`WifiHandlePtk`) and of `Associate`: wpa_supplicant scans and reassociates by itself.  The
pushes, disconnects by other processes and timers are not fair.

`RekeyControl`: weak fairness of the manager's loop, the passphrase receiver, the handshake
(both daemons retransmit), the receivers, each watchdog and `Reassociate`.  Outages, station
removal and faults are not fair.  Weak fairness is enough everywhere: no step that has to
happen is disabled again and again by another actor.

`FourWay`: weak fairness of `ApReceive` and `StaReceive` (a frame that is not lost is handled),
`ApTimeout` (a registered timer goes off), `ApRejects` (an associated STA goes on sending, and
hostapd answers a frame from a station it does not know) and `ApInactivity` (hostapd polls
stations that are silent).  Nobody has to associate, to give a passphrase or to run `setptk`, and
losses are bounded by `MaxLoss`, not by fairness: a link that loses every frame makes the AP
give up all the same.

`RekeyWatchdog` needs no fairness: its promises have deadlines, and time does not pass a
deadline of a running thread.

In `RekeyControl` the times in the code enter only as guards: `MgrFetch` waits until the passphrase receiver,
the watchdogs and an undisturbed handshake are done, since 60 s are longer than 21, 35 and 4.

## 6. Proofs

Every theorem is for all values of the constants, from the assumptions `KeyAssumption`,
`TimerAssumption`, `SyncAssumption`, `RekeyAssumption`, `FourWayAssumption`, `ClockAssumption`,
`LightGuardAssumption` and `ReceiverAssumption` (the first three again, for the PTKs of
`FourWay`): the built-in key, "no key" and a short push are not PTKs, the bounds are
natural numbers, there is at least one transmission, and timeout and two polls together are
shorter than the gap between two marks.  `IwAssumption` only says that `IwFails` is a Boolean.

**`PtkSyncProofs.TypeCorrect`.** `TypeOK` is not inductive: a step writes what a
thread holds into a queue of PTKs, and that may be "no key".  `Grounded` adds that there is
a PTK whenever one is proposed or forwarded, and a connection whenever one is served.

**`PtkSyncSafety`.** The inductive invariant `Inv` adds `ApOrder` (the AP works on its latest
connection, older ones are closed), `StaOrder` (the STA serves them in order; no answer in one
not yet accepted), `Answers` (an OK anywhere on its way stands for a forwarded PTK) and
`Proposal` (what is pending during an exchange is the proposal, unless a push came late).
`ApNeverAhead` needs `Answers`, `SessionAgreement` needs `Proposal` and the lock.
`SyncImplementsTwoPhase` maps each step: `ApConnect` is `Open`, an OK is `Confirm`,
`ApForward` is `Commit`, `ApSyncFail` is `GiveUp`, everything else stutters.

**`RekeyProofs`.** `AckMeansSet` holds because requests reach the STA in the order of their
rounds (`Requests`, `Working`), so that an ACK for the latest leaves none behind it
(`Acked`).  `UndisturbedRekeyVerifies` adds where the passphrase is on either side until the
handshake ends (`Quiet`, `Associated`, `StaReady`, `ApReady`).  `EveryRoundCovered` assumes
that one of the two trigger files can be written and follows the round to the watchdog that
will judge it (`ApWatches`, `StaWatches`); without that assumption `NoRoundUncovered` is
false, which is why the run `rekey` leaves one of the two faults out.  It promises no more than the
code: WiFi was rekeyed, disconnected, or every disconnect that was tried failed in `iw`.
`KeptByIw`, a link is kept only where `iw` may fail, turns it into `WorkingIwCovers`: with a
working `iw` every round ends rekeyed or disconnected.

**`PtkSyncAgreement`.** `OneMessageInFlight` alone says too little about the next message.
`Wire` relates the contents of both directions to the places of the two receivers, as one
predicate `Line` of four values; `LineAp` and `LineSta` say that each move of either end keeps
it.  For `SyncAgreement`, `Final(s)` is the key side `s` will have once its daemon has read its
inbox, so that reading changes nothing; `Delivered` says whose key that is between the STA's
install and its answer, after the answer, and after the AP's install.  A STA that has answered
is no longer in `forward`, so no later push of the same exchange can replace it.

`EachPtkOnce` and `LatestInstalled` are about a queue between two comparisons.  `Lane` is what the
AP receiver took last, what waits for it, and what hostapd derived last, as one sequence; in it a
PTK that another has followed does not come again (`Grouped`).  A derivation lengthens the lane, an
accept shortens it, and `Regroup` shows once that any such rearrangement keeps it grouped.  `Once`
adds that a PTK whose connection was opened is either the receiver's last one or no longer in the
lane, so that an accepted one is new.  `Handed` relates the last place of the lane, the verdict of
the latest connection and `calm`; with `SyncAgreement` it gives `LatestInstalled`.

**`RekeyWatchdogProofs`.** `Inv` has five parts: `Dated` (no time lies in the future), `Written`
(what the file holds while it is being written and after), `Judging` (how old an unjudged mark can
be, given the poll the watchdog is in), `Dropping` (a disconnect under way is for the last mark)
and `Settled` (a verdict was an install, or leads to a disconnect or to one that failed in `iw`).  `ClockAssumption` is used
once: a mark that is `Gap` old has been judged.

**`FourWayProofs`.** Three layers, each inductive with the help of the one before.  `Fresh`:
the nonces of a PTK that may still be set are newer than those of all that were
(`StaNonces`, `ApNonces`), from which `NoReinstall` follows.  `Agreement`: what is on the air in
what order (`Line`, `Answers`), and that with a message 4 of the handshake under way on the air
the STA has set that TK and will push no other (`Reached`, `Meeting`), from which
`WifiKeyIsLifiKey` follows.  `Behind`: while the STA has not set the TK of a message 3, it still
has the AP's.  `StepKinds` first reduces every step to what it does to the two queues and
two keys; the invariants are proved for those kinds, not for the actions.  `KeysHandedOver` maps
an association to `Join`, the two key installations to `StaSwitch` and `ApSwitch`, the loss of
an entry or a link to `ApDrop` and `StaDrop`, the rest to a stutter.

**`FourWayPushes`.** Nothing in `wpa_auth.c` keeps hostapd from deriving again from one ANonce:
it derives again for the answer to every message 1 it repeats, also after one that failed its MIC.
`OnePtkPerANonce` therefore needs to know that all those it would still take carry one SNonce, the
STA's present one (`OneSNonce`), and the SNonce of the PTK derived from this ANonce (`Derived`).
The STA draws another SNonce only after a message 3, which must not be on its way while a message 2
is still good (`Settled`): hostapd invalidates the counters of its messages 1 before it sends
message 3, and an older message 3 reaches the STA before the messages 1 of a new handshake.  For wpa_supplicant `StaLast` orders its PTKs by SNonce, ANonce and
passphrase; `StaNeverReturns` is that every new one is later in this order, so that a PTK left
behind is not derived again.

**`LightGuardProofs`.** The two parts meet in `Carried`: what a daemon has derived is behind its
latest PTK, by the ANonce on the side of hostapd and by the order of `StaNeverReturns` on the other.
With it each step of the system is a step of `PtkSync` or a stutter: `HostapdDerives` and
`SupplicantDerives` show that a deriving receive is `LifiApDerive` or `LifiStaDerive`, for
`WifiSide` there is nothing to show, and everything else leaves `PtkSync` alone (`NothingDerived`).
That is `KeysCarried`, by which the theorems of `PtkSync` hold of the system: `SystemTypeCorrect`,
`SystemSyncs`.  `WifiHasLifiKey` joins the two halves, `WifiKeyIsLifiKey` (the AP's last pushed PTK
is the TK of LiFi) and `LatestInstalled` (it is the key of WiFi).  `SameNext` and `SameSpec` only
relate two instances of `PtkSync`, the one `LightGuard` names and the one with the theorems.

**Only model-checked.** All liveness properties (`SyncEnds`, `StaServesAgain`,
`AcceptedOrDropped`, `DaemonsResume`, `RoundCovered`, `RekeySucceeds`, `KeysMeet`,
`HandshakeEnds`): the prover has no rule for fairness.  Every safety property of the passing runs
is proved.

## 7. What the code does otherwise than its documentation says

| run | what happens | documented |
|---|---|---|
| `installs_ap_ptk` | a LiFi push between SYNC and INSTALL replaces the AP's PTK; the STA installs that and answers OK | `ptk_receiver_sta.py:196` |
| `stale_association` | a reassociation during an exchange leaves the built-in key on one side, the sync succeeds | `README.md:55` |
| `lost_install` | the AP's own install, or the STA's, is lost in a sender or refused by a driver; its result is ignored or wrong, the sync succeeds with two different PTKs | `README.md:55` |
| `verified_key` | a PTK is pushed before message 2 is verified, and synchronised | `README.md:61` |
| `cached_pmk` | the passphrase cached for an absent STA is never applied | `MODIFICATIONS.md:16` |
| `lifi_recovers` | after a rekey the AP keeps the new PSK, a STA that lost LiFi returns with the configured one, for ever | `README.md:61` |

Beside these: after a failed sync and its disconnect the WiFi link comes back at once with the
built-in key on both sides.  `README.md:61` has the link recover when "the next rekey completes";
it does not say that nothing is sent before, so no run is made of it.

A failed `iw` is only printed.  `README.md:61` has the watchdog disconnect the link at once, which
"prevents the WiFi data channel from continuing with a stale or unverified key"; when `iw` fails the
link stays up with the key it had, and the caller does not try again (the state `"kept"` of `RekeyControl`, reached in the run `rekey`).  No run is made of it: the sentence
is about what the watchdog does when LiFi fails, not about a system whose tools fail.

`stale_association` needs no fault and `lost_install` no association: they are two ways to the same
mismatch.

## 8. What is not modelled

* In `PtkSync` connecting and sending SYNC are one step, so the STA never reads an empty or another
  first message; that it closes such a connection (`ptk_receiver_sta.py:188-191`) is left out.  The
  AP would take it for a failed sync, as it does the other ends of a connection.
* The bytes: hex coding, lengths and split reads are reduced to "a PTK" or "short".
* In `FourWay`: group keys; a wall clock; frames out of order, without which the STA's second
  SNonce (`alt_SNonce`), `prev_key_replay` and the deauthentication on a changed ANonce are
  out of reach (`StaDeauthenticates` is there and no run takes it).
* In `RekeyWatchdog`: `time.time()` set back by NTP; a PTK installed between `setptk` and the
  mark, which is judged missing, as the code would: the handshake and the sync take longer than
  the write of a file.
* A crash or restart of a process, apart from the receivers' watchdogs: nothing is persisted but
  trigger files, and the start scripts restart no process.
* More than one station, and the fallback 4-way handshake of the WiFi AP after a refused key.
* The manual bridge: two scripts without state that an operator runs by hand instead of the
  receivers; no start script names them.
* The start and kill scripts, `csi_pmk.c` (its callers are commented out), and the rest of the
  four copies of hostapd and wpa_supplicant.  `start_sta.sh` starts `get_csi_pmk.py`, which the
  repository does not have; the models take `sta_passphrase.py` to run in its place.

------------------------------ MODULE WifiLink ------------------------------
(***************************************************************************)
(* The WiFi link of LightGuard: the modified hostapd ("ap") and            *)
(* wpa_supplicant ("sta") of WiFi_link/.  Neither runs a 4-way handshake.  *)
(* On every association each installs the built-in g_custom_test_ptk, and  *)
(* afterwards each installs whatever PTK its local TCP listener (9899 on   *)
(* the AP, 9900 on the STA) is given.  Nothing ties the two keys together: *)
(* the link carries data only while the two sides happen to hold the same  *)
(* one, which is what the synchronisation of PtkSync is for.               *)
(*                                                                         *)
(* A payload written to a listener waits in the daemon's socket until the  *)
(* daemon's event loop reads it; an association is seen by the driver      *)
(* before the daemon handles its event.  Both gaps are kept.               *)
(***************************************************************************)
EXTENDS Naturals, Sequences

CONSTANTS
    PTK,        \* the PTKs LiFi handshakes derive
    Default,    \* g_custom_test_ptk, compiled into both daemons
    NoKey,      \* no pairwise key in the driver
    Faults,     \* the subset of FaultKinds the environment may produce
    TimerSides  \* the sides whose configuration sets wpa_ptk_rekey

\* A sender script that fails or hangs, a driver that refuses a key, an iw that
\* fails, a /tmp that cannot be written, a push to port 8877 that fails.
FaultKinds == {"sender", "driver", "iw", "disk", "push"}

ASSUME KeyAssumption ==
    /\ Default \notin PTK
    /\ NoKey \notin PTK
    /\ Default # NoKey
    /\ Faults \subseteq FaultKinds

Side == {"ap", "sta"}
Peer(s) == IF s = "ap" THEN "sta" ELSE "ap"

ASSUME TimerAssumption == TimerSides \subseteq Side

VARIABLES
    assoc,   \* assoc[s]: side s's driver holds the association
    evt,     \* evt[s]: s's daemon has not yet handled that association
    inbox,   \* inbox[s]: payloads in the PTK listener of s, not yet read
    wkey     \* wkey[s]: the pairwise key in the driver of s

wifiVars == <<assoc, evt, inbox, wkey>>

WifiTypeOK ==
    /\ assoc \in [Side -> BOOLEAN]
    /\ evt \in [Side -> BOOLEAN]
    /\ inbox \in [Side -> Seq(PTK)]
    /\ wkey \in [Side -> PTK \cup {Default, NoKey}]

\* start_ap.sh and start_sta.sh start the WiFi daemons first and give them
\* 20 s, so the receivers find an associated link.
WifiInit ==
    /\ assoc = [s \in Side |-> TRUE]
    /\ evt = [s \in Side |-> FALSE]
    /\ inbox = [s \in Side |-> <<>>]
    /\ wkey = [s \in Side |-> Default]

LinkUp == \A s \in Side : assoc[s] /\ ~evt[s]
Drained == \A s \in Side : inbox[s] = <<>>
KeysAgree == wkey["ap"] = wkey["sta"]

-----------------------------------------------------------------------------
\* The STA associates, on a clean station entry at the AP.  An association
\* takes several rounds of both event loops, so what their listeners held
\* before it has been read.
Associate ==
    /\ ~assoc["sta"]
    /\ Drained
    /\ assoc' = [s \in Side |-> TRUE]
    /\ evt' = [s \in Side |-> TRUE]
    /\ wkey' = [s \in Side |-> NoKey]
    /\ UNCHANGED inbox

\* Side s's daemon handles the association: no 4-way handshake, the built-in
\* key goes to the driver and the port is authorised.  (When the driver refuses
\* the key the AP starts a 4-way handshake, which is not modelled.)
NotifyAssoc(s) ==
    /\ evt[s]
    /\ evt' = [evt EXCEPT ![s] = FALSE]
    /\ \/ wkey' = [wkey EXCEPT ![s] = Default]
       \/ "driver" \in Faults /\ UNCHANGED wkey
    /\ UNCHANGED <<assoc, inbox>>

\* The listener's handler: the payload replaces the key of the association.
\* The event loop dispatches the driver's socket, registered first, before the
\* listener, so an association that began before the payload came is handled.
\* Without one there is no station (AP) or no peer (STA) to set it for, and a
\* key the driver refuses is only logged: the sender hears of neither.
HandlePtk(s) ==
    /\ inbox[s] # <<>>
    /\ ~evt[s]
    /\ inbox' = [inbox EXCEPT ![s] = Tail(@)]
    /\ \/ /\ assoc[s]
          /\ wkey' = [wkey EXCEPT ![s] = Head(inbox[s])]
       \/ /\ ~assoc[s] \/ "driver" \in Faults
          /\ UNCHANGED wkey
    /\ UNCHANGED <<assoc, evt>>

\* A configured wpa_ptk_rekey timer puts the built-in key back, on this side
\* alone.
RekeyTimer(s) ==
    /\ s \in TimerSides
    /\ assoc[s] /\ ~evt[s]
    /\ wkey' = [wkey EXCEPT ![s] = Default]
    /\ UNCHANGED <<assoc, evt, inbox>>

\* The association of side s ends and its driver forgets the key.
Leave(s) ==
    /\ assoc' = [assoc EXCEPT ![s] = FALSE]
    /\ evt' = [evt EXCEPT ![s] = FALSE]
    /\ wkey' = [wkey EXCEPT ![s] = NoKey]
    /\ UNCHANGED inbox

\* Side s learns, some time later, that its peer has left.
NoticeLeft(s) ==
    /\ assoc[s]
    /\ ~assoc[Peer(s)]
    /\ Leave(s)

\* disconnect_wifi_link: "iw station del" for every station on the AP,
\* "iw disconnect" on the STA.  An iw that fails or hangs is only printed.
DisconnectWifi(s) ==
    \/ Leave(s)
    \/ "iw" \in Faults /\ UNCHANGED wifiVars

\* The sender script of side s (send_ptk_ap.py, send_ptk_sta.py) run with its
\* 5 s limit.  It waits for an association before it writes, so without one
\* it is killed; it exits 0 even when all three attempts to connect failed.
SendPtk(s, k, delivered, ok) ==
    /\ \/ delivered /\ ok /\ assoc[s]
       \/ ~delivered /\ ~ok /\ ~assoc[s]
       \/ "sender" \in Faults
    /\ inbox' = IF delivered THEN [inbox EXCEPT ![s] = Append(@, k)] ELSE inbox
    /\ UNCHANGED <<assoc, evt, wkey>>

=============================================================================

--------------------------- MODULE TwoPhaseInstall ---------------------------
(***************************************************************************)
(* What the SYNC / READY / INSTALL / OK exchange promises, without its     *)
(* messages: a sequence of rounds, one per connection.  The AP opens a     *)
(* round only after it has closed the one before; it commits ("synced")    *)
(* only a round the STA has confirmed, and may give up on an open round at *)
(* any time.  The STA confirms rounds in order, at most once each, and may *)
(* confirm one that the AP has already given up: that is the gap the WiFi  *)
(* disconnect is there to cover.                                           *)
(***************************************************************************)
EXTENDS Naturals

CONSTANT Rounds      \* how many rounds there are

VARIABLES
    verdict,    \* verdict[i]: what the AP has made of round i
    confirmed   \* the rounds the STA has confirmed

vars == <<verdict, confirmed>>

Round == 1 .. Rounds

Init ==
    /\ verdict = [i \in Round |-> "none"]
    /\ confirmed = {}

Open(i) ==
    /\ verdict[i] = "none"
    /\ \A j \in Round : j < i => verdict[j] \in {"synced", "failed"}
    /\ verdict' = [verdict EXCEPT ![i] = "open"]
    /\ UNCHANGED confirmed

Confirm(i) ==
    /\ verdict[i] \in {"open", "failed"}
    /\ \A j \in confirmed : j < i
    /\ confirmed' = confirmed \cup {i}
    /\ UNCHANGED verdict

Commit(i) ==
    /\ verdict[i] = "open"
    /\ i \in confirmed
    /\ verdict' = [verdict EXCEPT ![i] = "synced"]
    /\ UNCHANGED confirmed

GiveUp(i) ==
    /\ verdict[i] = "open"
    /\ verdict' = [verdict EXCEPT ![i] = "failed"]
    /\ UNCHANGED confirmed

Next == \E i \in Round : Open(i) \/ Confirm(i) \/ Commit(i) \/ GiveUp(i)

Spec == Init /\ [][Next]_vars
=============================================================================

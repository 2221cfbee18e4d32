----------------------------- MODULE KeyHandover -----------------------------
(***************************************************************************)
(* What a 4-way handshake promises about the key the two drivers encrypt   *)
(* with, without its messages: the STA goes first to a key neither side    *)
(* has used, and the AP follows it to that key or drops the STA.  The STA  *)
(* never moves on while the AP is still behind, and neither side takes a   *)
(* key twice (which would restart its packet numbers).                     *)
(***************************************************************************)
EXTENDS SequencesExt

CONSTANTS
    Key,    \* the temporal keys
    NoKey   \* no key is set

VARIABLES
    apUp,      \* the AP knows the STA
    ap, sta,   \* the key in use on either side
    apUsed,    \* the keys the AP has taken, in order
    staUsed    \* the keys the STA has taken, in order

vars == <<apUp, ap, sta, apUsed, staUsed>>

Init ==
    /\ apUp = FALSE
    /\ ap = NoKey /\ sta = NoKey
    /\ apUsed = <<>> /\ staUsed = <<>>

\* The STA joins, or joins again: both start without a key.
Join ==
    /\ apUp' = TRUE
    /\ ap' = NoKey /\ sta' = NoKey
    /\ UNCHANGED <<apUsed, staUsed>>

StaSwitch ==
    /\ apUp => ap = sta
    /\ sta' \in Key \ (Range(apUsed) \cup Range(staUsed))
    /\ staUsed' = Append(staUsed, sta')
    /\ UNCHANGED <<apUp, ap, apUsed>>

\* The STA may have left in the meantime: the AP learns of it later.
ApSwitch ==
    /\ apUp
    /\ staUsed # <<>>
    /\ Last(staUsed) \notin Range(apUsed)
    /\ ap' = Last(staUsed)
    /\ apUsed' = Append(apUsed, Last(staUsed))
    /\ UNCHANGED <<apUp, sta, staUsed>>

ApDrop ==
    /\ apUp' = FALSE
    /\ ap' = NoKey
    /\ UNCHANGED <<sta, apUsed, staUsed>>

StaDrop ==
    /\ sta' = NoKey
    /\ UNCHANGED <<apUp, ap, apUsed, staUsed>>

Next ==
    \/ Join
    \/ StaSwitch
    \/ ApSwitch
    \/ ApDrop
    \/ StaDrop

Spec == Init /\ [][Next]_vars
=============================================================================

---------------------------- MODULE TrackOffers ----------------------------
(***************************************************************************)
(* What the jukebox promises about a track in a session, with requests,    *)
(* rows and scores left out: it waits in the queue, is heard and stays     *)
(* heard, or is withdrawn before it is heard, with all that wait.  Only    *)
(* deleting the track ends this, in all sessions and for good.             *)
(* JukeboxQueue is shown to implement this specification.                  *)
(***************************************************************************)
CONSTANTS Sessions, Tracks

VARIABLES
    offer,      \* of each track in each session
    gone        \* the tracks that are deleted

vars == <<offer, gone>>

Waiting(s) == {t \in Tracks : offer[s][t] = "waiting"}

Init ==
    /\ offer = [s \in Sessions |-> [t \in Tracks |-> "out"]]
    /\ gone = {}

Move(s, T, to) ==
    /\ offer' = [offer EXCEPT ![s] = [t \in Tracks |-> IF t \in T THEN to ELSE @[t]]]
    /\ UNCHANGED gone

Offer(s, t) == t \notin gone /\ offer[s][t] = "out" /\ Move(s, {t}, "waiting")
Hear(s, T)  == T \subseteq Waiting(s) /\ Move(s, T, "heard")
Withdraw(s) == Move(s, Waiting(s), "out")

Delete(t) ==
    /\ t \notin gone
    /\ gone' = gone \cup {t}
    /\ offer' = [s \in Sessions |-> [offer[s] EXCEPT ![t] = "out"]]

Next ==
    \/ \E s \in Sessions : \/ \E t \in Tracks : Offer(s, t)
                           \/ \E T \in SUBSET Tracks : Hear(s, T)
                           \/ Withdraw(s)
    \/ \E t \in Tracks : Delete(t)

Spec == Init /\ [][Next]_vars
=============================================================================

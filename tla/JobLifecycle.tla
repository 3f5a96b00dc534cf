---------------------------- MODULE JobLifecycle ----------------------------
(***************************************************************************)
(* What the transcoding pipeline promises about one transcode job, with    *)
(* tables, files and processes left out: a job is queued once, taken by    *)
(* one worker, and then either settled (done or failed) or abandoned.  An  *)
(* abandoned job is never taken again; only deleting its track ends it.    *)
(* TranscodePipeline is shown to implement this specification.             *)
(***************************************************************************)
CONSTANTS Jobs

VARIABLES phase

Phases == {"absent", "waiting", "working", "settled", "abandoned", "removed"}

Init == phase = [j \in Jobs |-> "absent"]

Move(j, from, to) ==
    /\ phase[j] \in from
    /\ phase' = [phase EXCEPT ![j] = to]

Enqueue(j) == Move(j, {"absent"}, "waiting")
Take(j)    == Move(j, {"waiting"}, "working")
Settle(j)  == Move(j, {"working"}, "settled")
\* The worker died, or the database did not acknowledge one of its writes.
Abandon(j) == Move(j, {"waiting", "working"}, "abandoned")
Remove(j)  == Move(j, Phases \ {"absent", "removed"}, "removed")

Next == \E j \in Jobs : \/ Enqueue(j) \/ Take(j) \/ Settle(j)
                        \/ Abandon(j) \/ Remove(j)

Spec == Init /\ [][Next]_phase
=============================================================================

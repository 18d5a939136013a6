----------------------------- MODULE MCPlayback -----------------------------
(* One study run of two passes and one run of another topic, two levels.   *)
EXTENDS Playback, TLC

Narration == [type |-> "NONE", difficulty |-> "NONE"]
Swap == [type |-> "SWAP_DECISION", difficulty |-> "PROCEDURAL"]
PassEnd == [type |-> "PASS_COMPLETE", difficulty |-> "CONCEPTUAL"]

StudyRun == <<Narration, Swap, Swap, PassEnd, Swap, PassEnd, Narration>>
OtherRun == <<Narration, Narration, Swap, Narration>>

MCRuns == {StudyRun, OtherRun}
MCStudyRuns == {StudyRun}
MCPerformOneIn == [HIGH |-> 2, LOW |-> 1]
============================================================================

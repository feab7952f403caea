----------------------------- MODULE MCMilestones -----------------------------
EXTENDS Milestones, TLC

CONSTANTS p1, p2, m1

OneMilestone == {m1}
TwoProcesses == {p1, p2}

NoBudget == [what \in Spending |-> 0]
Scene(processes, budget) == [processes |-> processes, budget |-> budget]

\* Two sends of one milestone; a timeout, a crash and a failed storage call.
Disturbed == [NoBudget EXCEPT !["dispatch"] = 2, !["expiry"] = 1, !["crash"] = 1,
                              !["fault"] = 1]
\* An operator who pauses, resumes and retries while duplicates are in the queue.
Operator == [NoBudget EXCEPT !["dispatch"] = 2, !["pause"] = 1, !["retry"] = 1]
\* One send, and the retry of an operator amid timeouts, faults and a crash.
Retried == [NoBudget EXCEPT !["dispatch"] = 1, !["retry"] = 1, !["expiry"] = 1,
                            !["crash"] = 1, !["fault"] = 1]
\* Two instances share the queue; one may crash, one storage call may fail.
Shared == [NoBudget EXCEPT !["dispatch"] = 2, !["crash"] = 1, !["fault"] = 1]
\* Only what the queue itself does: duplicate sends, failed attempts, timeouts.
Calm == [NoBudget EXCEPT !["dispatch"] = 2, !["expiry"] = 2]

AllScenes == {Scene({p1}, Disturbed), Scene({p1}, Operator), Scene({p1}, Retried),
              Scene({p1, p2}, Shared), Scene({p1}, Calm)}
===============================================================================

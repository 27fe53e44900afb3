------------------------------ MODULE MCRecovery ------------------------------
(* Instances of Recovery for TLC. *)
EXTENDS Recovery

\* The selections do not matter here: one model per role.
OneModelPerRole == [r \in Role |-> r]

Ask(lane) ==
  [lane |-> lane, deepMode |-> "serial", reviewer |-> TRUE, noReview |-> FALSE,
   reviewAlways |-> FALSE, rejectDirty |-> FALSE, unsafeSteps |-> FALSE,
   maxTransient |-> 1, maxRepairs |-> 1]

\* With and without a reviewer, with and without an unsafe validator step.
CrashRequests ==
  {Ask("standard"), Ask("mechanical"),
   [Ask("standard") EXCEPT !.unsafeSteps = TRUE],
   [Ask("standard") EXCEPT !.reviewer = FALSE]}
PlainRequest == {Ask("standard")}

OneFailure ==
  {[stage |-> 0, failing |-> {"t1"}, anonymous |-> 0]}
CrashFlags == {{"exited_zero"}, {"credentials"}}
Errors == {"error"}
\* A cancellation, an edit of the original checkout, and a process that outlived
\* its controller and writes the worktree.
Outsiders == {"cancel", "edit", "touch"}
NoEvents == {}
=============================================================================

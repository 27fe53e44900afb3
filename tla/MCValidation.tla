----------------------------- MODULE MCValidation -----------------------------
(* Instances of Validation for TLC. *)
EXTENDS Validation

S(name, stage, policy) ==
  [name |-> name, stage |-> stage, policy |-> policy, here |-> TRUE]
Elsewhere(step) == [step EXCEPT !.here = FALSE]

\* Each pair of policies across two stages, listed out of order; steps that do
\* not match the machine; a manual step; nothing for the candidate.
RequiredConfigs ==
  {<<S("b", "full", "no_regression"), S("a", "baseline", "must_pass")>>,
   <<S("b", "targeted", "no_regression"), S("a", "smoke", "must_pass")>>,
   <<S("b", "full", "must_pass"), S("a", "smoke", "advisory")>>,
   <<S("b", "full", "manual"), S("a", "targeted", "must_pass")>>,
   <<S("b", "baseline", "no_regression"),
     Elsewhere(S("a", "smoke", "manual"))>>,
   <<S("b", "baseline", "must_pass")>>}

AdvisoryConfigs == RequiredConfigs \cup {<<S("b", "full", "advisory")>>}
=============================================================================

----------------------------- MODULE RunContract -----------------------------
(***************************************************************************)
(* What a run promises to its user, whatever happens inside: it is active  *)
(* until it takes one outcome, it keeps that outcome, what it has delivered *)
(* does not change any more, and it is accepted only when the delivered    *)
(* patch is that of the content the final validation tested.               *)
(***************************************************************************)
CONSTANTS Content,   \* what a worktree may hold
          Outcome    \* how a run may end, "ACCEPTED" among others

VARIABLES outcome, delivered, tested

contractVars == <<outcome, delivered, tested>>

ContractInit == outcome = "active" /\ delivered = {} /\ tested = {}

\* While the run is active, exports and tests come in any order.
Work ==
  /\ outcome = "active"
  /\ outcome' = "active"
  /\ delivered' \subseteq Content
  /\ tested' \subseteq Content

Accept ==
  /\ outcome = "active"
  /\ \E c \in Content : delivered = {c} /\ tested = {c}
  /\ outcome' = "ACCEPTED"
  /\ UNCHANGED <<delivered, tested>>

Stop ==
  /\ outcome = "active"
  /\ outcome' \in Outcome \ {"ACCEPTED"}
  /\ tested' \subseteq Content
  /\ UNCHANGED delivered

ContractNext == Work \/ Accept \/ Stop

ContractSpec == ContractInit /\ [][ContractNext]_contractVars
=============================================================================

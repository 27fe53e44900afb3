------------------------------- MODULE MCDelivery ------------------------------
(* One change of the tracked files, one of the untracked ones.               *)
EXTENDS Delivery

TrackedContents == {"base", "fix"}
UntrackedContents == {"nothing", "new"}
=============================================================================

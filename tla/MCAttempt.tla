------------------------------- MODULE MCAttempt -------------------------------
(* One attempt on either platform with two processes below the command.     *)
EXTENDS Attempt

TwoKids == {"k1", "k2"}
BothPlatforms == {"posix", "windows"}
EffortsAsked == {"high", "ultra"}
=============================================================================

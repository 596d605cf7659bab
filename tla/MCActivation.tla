---------------------------- MODULE MCActivation ----------------------------
(* One activation with room for every operation on scopes, and a second    *)
(* one whose drive may be under way when the host turns to the first.      *)
EXTENDS ActivationRuntime, TLC

CONSTANTS main, other

MCActivations == {main, other}
MCMaxFrames == main :> 2 @@ other :> 1
MCMaxCleanups == main :> 4 @@ other :> 0

(* Bound: the second activation is explored up to the end of its drive,    *)
(* beside a first one that has made at most two registrations.             *)
Focus == status[other] # "idle" => status[other] = "running" /\ opened[main] <= 2
=============================================================================

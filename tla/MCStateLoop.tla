----------------------------- MODULE MCStateLoop -----------------------------
(* Two managed bindings and two continue expressions.                      *)
EXTENDS StateLoop, TLC

CONSTANT main

MCActivations == {main}
MCMaxFrames == main :> 1
MCMaxCleanups == main :> 6
MCContinues == << <<1>>, <<2, 1>> >>
=============================================================================

-------------------------- MODULE MCBotController --------------------------
(* Instances of BotController for TLC. *)
EXTENDS BotController

CONSTANTS e1, e2, e3, routed

QueueSteerAppend == e1 :> "queue" @@ e2 :> "steer" @@ e3 :> "append"
AllMain == [e \in Events |-> Main]
BothQueue == e1 :> "queue" @@ e2 :> "queue"
MainRouted == e1 :> Main @@ e2 :> routed
=============================================================================

---------------------- MODULE MCChannelConversation ----------------------
(***************************************************************************)
(* Instances of ChannelConversation for model checking.                    *)
(***************************************************************************)
EXTENDS ChannelConversation

CONSTANT c1

\* The first call is a long send.
LongSend == [k \in Keys |-> IF k = c1 THEN 2 ELSE 1]

=============================================================================

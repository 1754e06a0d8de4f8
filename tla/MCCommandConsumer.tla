------------------------- MODULE MCCommandConsumer --------------------------
(***************************************************************************)
(* Instances of CommandConsumer for TLC.                                   *)
(***************************************************************************)
EXTENDS CommandConsumer

CONSTANTS c1, c2, c3, c4, u1

\* A booking event, an email, a slot event and a record that is no command.
MCKind == [c \in Commands |-> CASE c = c1 -> "booking" [] c = c2 -> "identity"
                                [] c = c3 -> "slot"    [] c = c4 -> "invalid"
                                [] OTHER -> "message"]
\* The booking event is published twice.
MCRecords == <<c1, c4, c2, c1, c3>>
MCRecipient == [c \in Commands |-> u1]

=============================================================================

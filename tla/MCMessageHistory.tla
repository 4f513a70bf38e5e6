-------------------------- MODULE MCMessageHistory --------------------------
(* Instances of MessageHistory for TLC: o is a text sent from here, t a text *)
(* from somebody else.                                                       *)
EXTENDS MessageHistory

CONSTANTS o, t, chatA, chatB

MCContent == [m \in Msgs |-> "text"]

(* One chat has the messages; the other, if any, is a page to go to and come *)
(* back from *)
MCChatOf == [m \in Msgs |-> chatA]

(* Seconds: two messages of one chat may carry the same one *)
MCStampOf == [m \in Msgs |-> 1]

=============================================================================

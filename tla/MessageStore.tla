---------------------------- MODULE MessageStore ----------------------------
(***************************************************************************)
(* storage.MessageStore: the messages table, as the set of ids that have a *)
(* row and one function per column that ever changes. The columns that     *)
(* never change (chat, sender, text, time, media keys) are constants: a    *)
(* message that is saved again is saved with the same values.              *)
(*                                                                         *)
(* Each operator is one SQL statement, which SQLite runs atomically.       *)
(***************************************************************************)
EXTENDS Naturals, FiniteSets, FiniteSetsExt

CONSTANTS
    Msgs,           \* message ids
    Chats,          \* chat jids
    ChatOf,         \* ChatOf[m]: the chat of m
    StampOf,        \* StampOf[m]: its time, in seconds
    FromMe          \* the messages this account sent, here or on the phone

ASSUME ChatOfAssumption == ChatOf \in [Msgs -> Chats]
ASSUME StampOfAssumption == StampOf \in [Msgs -> Nat]
ASSUME FromMeAssumption == FromMe \subseteq Msgs

VARIABLES
    messages,       \* the ids that have a row
    receipt,        \* receipt[m]: 0 sent, 1 delivered, 2 read
    isRead          \* isRead[m]: the user has seen m

storeVars == <<messages, receipt, isRead>>

Receipts == 0..2

StoreTypeOK ==
    /\ messages \subseteq Msgs
    /\ receipt \in [Msgs -> Receipts]
    /\ isRead \in [Msgs -> BOOLEAN]

StoreInit ==
    /\ messages = {}
    /\ receipt = [m \in Msgs |-> 0]
    /\ isRead = [m \in Msgs |-> FALSE]

Larger(a, b) == IF a > b THEN a ELSE b

SaveOverwrites(m, newReceipt, newRead) ==   \* mutant: is_read = excluded.is_read
    /\ messages' = messages \cup {m}
    /\ receipt' = [receipt EXCEPT
            ![m] = IF m \in messages THEN Larger(newReceipt, @) ELSE newReceipt]
    /\ isRead' = [isRead EXCEPT ![m] = newRead]

(* INSERT ... ON CONFLICT(id) DO UPDATE: an existing row keeps its higher    *)
(* receipt and its read mark.                                                *)
Save(m, newReceipt, newRead) ==
    /\ messages' = messages \cup {m}
    /\ receipt' = [receipt EXCEPT
            ![m] = IF m \in messages THEN Larger(newReceipt, @) ELSE newReceipt]
    /\ isRead' = [isRead EXCEPT
            ![m] = IF m \in messages THEN newRead \/ @ ELSE newRead]

UpdateReceiptOfOwn(m, level) == \* mutant: AND from_me = 1
    /\ receipt' = [receipt EXCEPT ![m] = IF m \in messages \cap FromMe THEN Larger(@, level) ELSE @]
    /\ UNCHANGED <<messages, isRead>>

(* UPDATE ... WHERE id = ?: no row, no effect *)
UpdateReceipt(m, level) ==
    /\ receipt' = [receipt EXCEPT ![m] = IF m \in messages THEN Larger(@, level) ELSE @]
    /\ UNCHANGED <<messages, isRead>>

InChat(c) == {m \in messages : ChatOf[m] = c}
Unread(c) == {m \in InChat(c) \ FromMe : ~isRead[m]}

MarkJIDAsRead(c) ==
    /\ isRead' = [m \in Msgs |-> isRead[m] \/ m \in Unread(c)]
    /\ UNCHANGED <<messages, receipt>>

GetUnreadCount(c) == Cardinality(Unread(c))

(* The join on MAX(timestamp): every row of a chat that has its newest time *)
GetRecentChats ==
    {m \in messages : \A n \in InChat(ChatOf[m]) : StampOf[n] <= StampOf[m]}

(* The frontend's sum over the rows GetChats answers *)
getTotalUnread == MapThenSumSet(LAMBDA m : GetUnreadCount(ChatOf[m]), GetRecentChats)

=============================================================================

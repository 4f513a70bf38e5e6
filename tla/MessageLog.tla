----------------------------- MODULE MessageLog -----------------------------
(***************************************************************************)
(* What the daemon and its page promise about messages, without handler,   *)
(* channel, bus, calls or goroutines: a log of what the server has         *)
(* confirmed, and one page that is a copy of one chat's part of it. A row  *)
(* is written once and never taken back, receipts and read marks only      *)
(* rise, and no row, receipt or tick says more than the server did.        *)
(***************************************************************************)
EXTENDS Naturals

CONSTANTS Msgs, Chats, ChatOf, FromMe, NoChat

VARIABLES
    known,          \* the messages the server delivered or accepted
    reported,       \* reported[m]: the highest receipt it reported
    rows,           \* the messages the log has
    receipt,        \* receipt[m]: the receipt it has for m
    isRead,         \* isRead[m]: the user has seen m
    open,           \* the chat of the page
    shown,          \* the messages on the page
    tick            \* tick[m]: the receipt the page shows for m

log == <<rows, receipt, isRead>>
page == <<open, shown, tick>>
logVars == <<known, reported, log, page>>

Nothing == [m \in Msgs |-> 0]

Init ==
    /\ known = {} /\ reported = Nothing
    /\ rows = {} /\ receipt = Nothing /\ isRead = [m \in Msgs |-> FALSE]
    /\ open = NoChat /\ shown = {} /\ tick = Nothing

(* The server has m, or says more about it *)
Confirm(m) ==
    /\ known' = known \cup {m}
    /\ UNCHANGED <<reported, log, page>>

Report(m, level) ==
    /\ m \in known /\ level > reported[m]
    /\ reported' = [reported EXCEPT ![m] = level]
    /\ UNCHANGED <<known, log, page>>

(* m enters the log: not read yet, unless it is the user's own *)
Record(m) ==
    /\ m \in known \ rows
    /\ rows' = rows \cup {m}
    /\ isRead' = [isRead EXCEPT ![m] = m \in FromMe]
    /\ UNCHANGED <<known, reported, receipt, page>>

Raise(m, level) ==
    /\ m \in rows /\ receipt[m] < level /\ level <= reported[m]
    /\ receipt' = [receipt EXCEPT ![m] = level]
    /\ UNCHANGED <<known, reported, rows, isRead, page>>

(* The user has the chat open: all of it is read *)
MarkRead ==
    /\ isRead' = [m \in Msgs |-> isRead[m] \/ (m \in rows /\ ChatOf[m] = open)]
    /\ UNCHANGED <<known, reported, rows, receipt, page>>

(* Another page, empty at first *)
Turn(c) ==
    /\ open' = c /\ shown' = {} /\ tick' = Nothing
    /\ UNCHANGED <<known, reported, log>>

(* The page becomes what the log has of its chat *)
Copy ==
    /\ shown' = {m \in rows : ChatOf[m] = open}
    /\ tick' = [m \in Msgs |-> IF m \in shown' THEN receipt[m] ELSE 0]
    /\ UNCHANGED <<known, reported, log, open>>

(* One tick of it changes: to something the server has reported *)
Tick(m, level) ==
    /\ m \in shown /\ level <= reported[m]
    /\ tick' = [tick EXCEPT ![m] = level]
    /\ UNCHANGED <<known, reported, log, open, shown>>

Next ==
    \/ \E m \in Msgs : Confirm(m) \/ Record(m)
    \/ \E m \in Msgs, level \in 0..2 : Report(m, level) \/ Raise(m, level) \/ Tick(m, level)
    \/ MarkRead \/ Copy
    \/ \E c \in Chats \cup {NoChat} : Turn(c)

Spec == Init /\ [][Next]_logVars

=============================================================================

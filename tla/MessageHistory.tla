--------------------------- MODULE MessageHistory ---------------------------
(***************************************************************************)
(* The way of a message: from the library's handler through the store and  *)
(* the event channel to the D-Bus signals and the frontend's chat page;    *)
(* and from the page through SendTextMessage to the server and the store.  *)
(*                                                                         *)
(* The library hands its nodes to the handler one at a time. Every D-Bus   *)
(* call runs on a goroutine of its own. The frontend has one thread, which *)
(* blocks while it waits for the answer to a call; the signals that arrive *)
(* meanwhile wait.                                                         *)
(***************************************************************************)
EXTENDS MessageStore, Sequences

CONSTANTS
    Own,            \* the messages the frontend sends
    Content,        \* Content[m]: what a message carries, for m not in Own
    EventsCap,      \* capacity of eventsCh (32 in the code)
    BusCap,         \* bound on the signals that wait for the frontend
    NoMsg,
    NoChat,
    World           \* what may happen in a run

ASSUME OwnAssumption == Own \subseteq FromMe
ASSUME ContentAssumption == Content \in [Msgs -> {"text", "caption", "media", "other"}]
ASSUME HistoryCapAssumption == EventsCap \in Nat \ {0} /\ BusCap \in Nat \ {0}
ASSUME SentinelAssumption == NoMsg \notin Msgs /\ NoChat \notin Chats

(* "redeliver": the server delivers a message again.  "receipts": it sends   *)
(* receipts.  "disorder": those of several devices or group members, in no   *)
(* order.  "disk": an SQL statement fails.  "slow": an answer does not come  *)
(* in time.  "crash": the daemon dies and is started again.  "send": the     *)
(* user sends.                                                               *)
HistoryWorldKinds == {"redeliver", "receipts", "disorder", "disk", "slow", "crash", "send"}

ASSUME HistoryWorldAssumption == World \subseteq HistoryWorldKinds

VARIABLES
    arrived,        \* the messages the server has delivered, and forgets
    handlerPC,      \* where the library's event handler stands
    handled,        \* the event it handles
    eventsCh,       \* the channel to the event loop
    accepted,       \* own messages the server has taken
    sendPC,         \* sendPC[m]: where SendTextMessage stands for own message m
    signals,        \* signals on the bus, oldest first
    open,           \* the chat whose page is shown
    shown,          \* the messages on the page
    tick,           \* tick[m]: the receipt the page shows for m
    uiTodo,         \* calls the frontend still makes before it waits for events
    uiSend,         \* the message whose SendTextMessage it waits for
    inline,         \* that call is a notification's inline reply
    tray,           \* the count on the tray icon
    heard           \* heard[m]: highest receipt handled so far (observer only)

daemonVars == <<handlerPC, handled, eventsCh, signals>>
serverVars == <<arrived, accepted, heard>>
pageVars == <<open, shown, tick>>
uiVars == <<uiTodo, uiSend, inline, tray>>
historyVars == <<storeVars, daemonVars, serverVars, sendPC, pageVars, uiVars>>

Events == [kind : {"Message", "Receipt"}, id : Msgs, level : Receipts]
Message(m) == [kind |-> "Message", id |-> m, level |-> 0]
Receipt(m, level) == [kind |-> "Receipt", id |-> m, level |-> level]

SendPCs == {"no", "calling", "save", "saved", "error", "done"}
Tasks == {"tray", "mark", "load"}

HistoryTypeOK ==
    /\ StoreTypeOK
    /\ arrived \subseteq Msgs \ Own
    /\ handlerPC \in {"idle", "store", "enqueue"}
    /\ handled \in Events \cup {NoMsg}
    /\ handlerPC # "idle" => handled \in Events
    /\ eventsCh \in Seq(Events) /\ Len(eventsCh) <= EventsCap
    /\ signals \in Seq(Events) /\ Len(signals) <= BusCap
    /\ accepted \subseteq Own
    /\ sendPC \in [Own -> SendPCs]
    /\ open \in Chats \cup {NoChat}
    /\ shown \subseteq Msgs
    /\ tick \in [Msgs -> Receipts]
    /\ uiTodo \in Seq(Tasks)
    /\ uiSend \in Own \cup {NoMsg}
    /\ inline \in BOOLEAN
    /\ heard \in [Msgs -> Receipts]

HistoryInit ==
    /\ StoreInit
    /\ arrived = {} /\ accepted = {} /\ heard = [m \in Msgs |-> 0]
    /\ handlerPC = "idle" /\ handled = NoMsg
    /\ eventsCh = <<>> /\ signals = <<>>
    /\ sendPC = [m \in Own |-> "no"]
    /\ open = NoChat /\ shown = {} /\ tick = [m \in Msgs |-> 0]
    /\ uiTodo = <<>> /\ uiSend = NoMsg /\ inline = FALSE /\ tray = 0

-----------------------------------------------------------------------------
(* The library's handler.                                                    *)

(* "" is a delivery receipt; played and read receipts differ in name only.   *)
ReceiptTypes == {"", "read", "read-self", "sender"}

mapReceiptType(type) ==
    CASE type \in {"read", "read-self"} -> 2
      [] type = "" -> 1
      [] OTHER -> 0

(* Another device of this account reports what was read, others report on    *)
(* what this account sent.                                                   *)
TypesFor(m) == IF m \in FromMe THEN ReceiptTypes \ {"read-self"} ELSE {"read-self"}

(* The library acknowledges a node before it hands it on *)
MessageArrives(m) ==
    /\ handlerPC = "idle"
    /\ m \notin arrived \/ "redeliver" \in World
    /\ arrived' = arrived \cup {m}
    /\ handlerPC' = "store" /\ handled' = Message(m)
    /\ UNCHANGED <<storeVars, eventsCh, signals, accepted, heard, sendPC, pageVars, uiVars>>

(* A receipt for several messages is one event here for each of them *)
ReceiptArrives(m, type) ==
    /\ "receipts" \in World
    /\ handlerPC = "idle"
    /\ m \in accepted \cup arrived
    /\ type \in TypesFor(m)
    /\ "disorder" \in World \/ mapReceiptType(type) > heard[m]
    /\ handlerPC' = "store" /\ handled' = Receipt(m, mapReceiptType(type))
    /\ heard' = [heard EXCEPT ![m] = Larger(@, mapReceiptType(type))]
    /\ UNCHANGED <<storeVars, eventsCh, signals, arrived, accepted, sendPC, pageVars, uiVars>>

(* What the row of a message gets: the text, or else the caption of a media  *)
(* message. "other" is what yields neither: reactions, polls, edits.         *)
buildStoredMessage(m) ==
    [text |-> Content[m] \in {"text", "caption"}, media |-> Content[m] \in {"caption", "media"}]

(* What a signal shows of a message: a caption is not looked at *)
extractDisplayText(m) == Content[m] = "text"

Storable(m) == buildStoredMessage(m).text \/ buildStoredMessage(m).media

(* Save if there is text or media, UpdateReceipt if the level is known; a    *)
(* statement that fails is only logged.                                      *)
HandlerStores ==
    /\ handlerPC = "store"
    /\ \/ /\ handled.kind = "Message" /\ Storable(handled.id)
          /\ Save(handled.id, 0, handled.id \in FromMe)
       \/ /\ handled.kind = "Receipt" /\ handled.level > 0
          /\ UpdateReceipt(handled.id, handled.level)
       \/ /\ \/ handled.kind = "Message" /\ ~Storable(handled.id)
             \/ handled.kind = "Receipt" /\ handled.level = 0
             \/ "disk" \in World
          /\ UNCHANGED storeVars
    /\ handlerPC' = "enqueue"
    /\ UNCHANGED <<handled, eventsCh, signals, serverVars, sendPC, pageVars, uiVars>>

HandlerEnqueuesOneTooMany ==    \* mutant: off by one at the capacity
    /\ handlerPC = "enqueue"
    /\ eventsCh' = IF Len(eventsCh) <= EventsCap THEN Append(eventsCh, handled) ELSE eventsCh
    /\ handlerPC' = "idle" /\ handled' = NoMsg
    /\ UNCHANGED <<storeVars, signals, serverVars, sendPC, pageVars, uiVars>>

(* A full channel loses the event *)
HandlerEnqueues ==
    /\ handlerPC = "enqueue"
    /\ eventsCh' = IF Len(eventsCh) < EventsCap THEN Append(eventsCh, handled) ELSE eventsCh
    /\ handlerPC' = "idle" /\ handled' = NoMsg
    /\ UNCHANGED <<storeVars, signals, serverVars, sendPC, pageVars, uiVars>>

AnnouncedMessages(e) ==         \* mutant: receipts are not announced
    e.kind = "Message" /\ extractDisplayText(e.id) /\ e.id \notin FromMe

(* The events RunEventLoop makes a signal of: MessageReceived for text of    *)
(* others, MessageAcknowledged for a known level.                            *)
Announced(e) ==
    \/ e.kind = "Message" /\ extractDisplayText(e.id) /\ e.id \notin FromMe
    \/ e.kind = "Receipt" /\ e.level > 0

EventLoop ==
    /\ eventsCh # <<>> /\ Len(signals) < BusCap
    /\ eventsCh' = Tail(eventsCh)
    /\ signals' = IF Announced(Head(eventsCh)) THEN Append(signals, Head(eventsCh)) ELSE signals
    /\ UNCHANGED <<storeVars, handlerPC, handled, serverVars, sendPC, pageVars, uiVars>>

-----------------------------------------------------------------------------
(* SendTextMessage.                                                          *)

ServerAccepts(m) ==
    /\ sendPC[m] = "calling"
    /\ accepted' = accepted \cup {m}
    /\ UNCHANGED <<storeVars, daemonVars, arrived, heard, sendPC, pageVars, uiVars>>

SendReturnsAnything(m) ==       \* mutant: an error after the server's answer as well
    /\ sendPC[m] = "calling"
    /\ \E pc \in {"save", "error"} : sendPC' = [sendPC EXCEPT ![m] = pc]
    /\ UNCHANGED <<storeVars, daemonVars, serverVars, pageVars, uiVars>>

SendReturnsUnsaved(m) ==        \* mutant: a reply nobody waits for is not saved
    /\ sendPC[m] = "calling"
    /\ \/ /\ m \in accepted
          /\ sendPC' = [sendPC EXCEPT ![m] = IF uiSend = m THEN "save" ELSE "saved"]
       \/ /\ m \notin accepted \/ "slow" \in World
          /\ sendPC' = [sendPC EXCEPT ![m] = "error"]
    /\ UNCHANGED <<storeVars, daemonVars, serverVars, pageVars, uiVars>>

(* SendText returns, with an error if the server did not answer *)
SendReturns(m) ==
    /\ sendPC[m] = "calling"
    /\ \/ /\ m \in accepted
          /\ sendPC' = [sendPC EXCEPT ![m] = "save"]
       \/ /\ m \notin accepted \/ "slow" \in World
          /\ sendPC' = [sendPC EXCEPT ![m] = "error"]
    /\ UNCHANGED <<storeVars, daemonVars, serverVars, pageVars, uiVars>>

(* The row is written only now, with receipt 0; a failure is only logged *)
SendSaves(m) ==
    /\ sendPC[m] = "save"
    /\ \/ Save(m, 0, TRUE)
       \/ "disk" \in World /\ UNCHANGED storeVars
    /\ sendPC' = [sendPC EXCEPT ![m] = "saved"]
    /\ UNCHANGED <<daemonVars, serverVars, pageVars, uiVars>>

(* The daemon dies: what it had in memory is gone, and a call that waits for *)
(* it fails. It starts again with the same database.                         *)
Crash ==
    /\ "crash" \in World
    /\ handlerPC' = "idle" /\ handled' = NoMsg
    /\ eventsCh' = <<>>
    /\ sendPC' = [m \in Own |-> IF sendPC[m] = "no" THEN "no" ELSE "done"]
    /\ uiSend' = NoMsg /\ inline' = FALSE
    /\ UNCHANGED <<storeVars, signals, serverVars, pageVars, uiTodo, tray>>

-----------------------------------------------------------------------------
(* The frontend: a chat page and the bridge. It does one thing at a time.    *)

UIFree == uiTodo = <<>> /\ uiSend = NoMsg

(* openChat, or a page that becomes visible again: mark as read, then load *)
OpenChat(c) ==
    /\ UIFree
    /\ open # c
    /\ open' = c /\ shown' = {} /\ tick' = [m \in Msgs |-> 0]
    /\ uiTodo' = <<"mark", "load">>
    /\ UNCHANGED <<storeVars, daemonVars, serverVars, sendPC, uiSend, inline, tray>>

(* Back to the page below *)
CloseChat ==
    /\ UIFree /\ open # NoChat
    /\ open' = NoChat /\ shown' = {} /\ tick' = [m \in Msgs |-> 0]
    /\ UNCHANGED <<storeVars, daemonVars, serverVars, sendPC, uiVars>>

(* showLogin and showChatList throw every page away and count for the tray *)
ShowPage ==
    /\ UIFree
    /\ open' = NoChat /\ shown' = {} /\ tick' = [m \in Msgs |-> 0]
    /\ uiTodo' = <<"tray">>
    /\ UNCHANGED <<storeVars, daemonVars, serverVars, sendPC, uiSend, inline, tray>>

(* updateTrayUnread on a status or login signal, whatever page is shown *)
TrayRefresh ==
    /\ UIFree
    /\ uiTodo' = <<"tray">>
    /\ UNCHANGED <<storeVars, daemonVars, serverVars, sendPC, pageVars, uiSend, inline, tray>>

(* sendCurrentMessage, or the reply action of a notification *)
UserSends(m, reply) ==
    /\ "send" \in World
    /\ UIFree
    /\ sendPC[m] = "no"
    /\ reply \/ open = ChatOf[m]
    /\ uiSend' = m /\ inline' = reply
    /\ sendPC' = [sendPC EXCEPT ![m] = "calling"]
    /\ UNCHANGED <<storeVars, daemonVars, serverVars, pageVars, uiTodo, tray>>

SendAnsweredNoReload(m) ==      \* mutant: the page is not reloaded after a send
    /\ sendPC[m] \in {"saved", "error"}
    /\ sendPC' = [sendPC EXCEPT ![m] = "done"]
    /\ IF uiSend = m
       THEN uiSend' = NoMsg /\ inline' = FALSE
       ELSE UNCHANGED <<uiSend, inline>>
    /\ UNCHANGED <<storeVars, daemonVars, serverVars, pageVars, uiTodo, tray>>

(* The answer comes: the page marks and reloads, or shows an error; an inline*)
(* reply looks at no answer. An answer after the timeout is nobody's.        *)
SendAnswered(m) ==
    /\ sendPC[m] \in {"saved", "error"}
    /\ sendPC' = [sendPC EXCEPT ![m] = "done"]
    /\ IF uiSend = m
       THEN /\ uiSend' = NoMsg /\ inline' = FALSE
            /\ uiTodo' = IF sendPC[m] = "saved" /\ ~inline THEN <<"mark", "load">> ELSE <<>>
       ELSE UNCHANGED <<uiSend, uiTodo, inline>>
    /\ UNCHANGED <<storeVars, daemonVars, serverVars, pageVars, tray>>

(* The call times out in the frontend; the daemon goes on *)
SendTimesOut ==
    /\ "slow" \in World
    /\ uiSend # NoMsg
    /\ uiSend' = NoMsg /\ inline' = FALSE
    /\ UNCHANGED <<storeVars, daemonVars, serverVars, sendPC, pageVars, uiTodo, tray>>

(* A call that finds no daemon, or whose statement fails, changes nothing and*)
(* brings back nothing. GetChats also asks the network, and may time out.    *)
CallFails(unreliable) == World \cap unreliable # {}

(* MarkAsRead *)
UIMarks ==
    /\ \/ MarkJIDAsRead(open)
       \/ CallFails({"disk", "crash"}) /\ UNCHANGED storeVars
    /\ UNCHANGED <<pageVars, tray>>

(* GetMessages: the page shows what the answer holds *)
UILoads ==
    /\ shown' \in {InChat(open)} \cup (IF CallFails({"disk", "crash"}) THEN {{}} ELSE {})
    /\ tick' = [m \in Msgs |-> IF m \in shown' THEN receipt[m] ELSE 0]
    /\ UNCHANGED <<storeVars, open, tray>>

(* GetChats, summed up for the tray *)
UICounts ==
    /\ tray' \in {getTotalUnread}
                 \cup (IF CallFails({"disk", "crash", "slow"}) THEN {0} ELSE {})
    /\ UNCHANGED <<storeVars, pageVars>>

(* The next of the calls to make *)
UITask ==
    /\ uiTodo # <<>>
    /\ uiTodo' = Tail(uiTodo)
    /\ CASE Head(uiTodo) = "mark" -> UIMarks
         [] Head(uiTodo) = "load" -> UILoads
         [] OTHER -> UICounts
    /\ UNCHANGED <<daemonVars, serverVars, sendPC, uiSend, inline>>

UISignalNoReload ==             \* mutant: the page does not react to MessageReceived
    /\ UIFree
    /\ signals # <<>>
    /\ signals' = Tail(signals)
    /\ LET s == Head(signals) IN
       IF s.kind = "Message"
       THEN uiTodo' = <<"tray">> /\ UNCHANGED tick
       ELSE /\ tick' = IF s.id \in shown THEN [tick EXCEPT ![s.id] = s.level] ELSE tick
            /\ UNCHANGED uiTodo
    /\ UNCHANGED <<storeVars, handlerPC, handled, eventsCh, serverVars, sendPC, open, shown,
                   uiSend, inline, tray>>

UISignalAnyRow ==               \* mutant: the acknowledged id is not compared
    /\ UIFree
    /\ signals # <<>>
    /\ signals' = Tail(signals)
    /\ LET s == Head(signals) IN
       IF s.kind = "Message"
       THEN /\ uiTodo' = IF open = ChatOf[s.id] THEN <<"tray", "mark", "load">> ELSE <<"tray">>
            /\ UNCHANGED tick
       ELSE /\ tick' = [m \in Msgs |-> IF m \in shown THEN s.level ELSE tick[m]]
            /\ UNCHANGED uiTodo
    /\ UNCHANGED <<storeVars, handlerPC, handled, eventsCh, serverVars, sendPC, open, shown,
                   uiSend, inline, tray>>

(* MessageReceived: the tray first, then the page if it shows that chat.     *)
(* MessageAcknowledged: the page shows the level the signal carries.         *)
UISignal ==
    /\ UIFree
    /\ signals # <<>>
    /\ signals' = Tail(signals)
    /\ LET s == Head(signals) IN
       IF s.kind = "Message"
       THEN /\ uiTodo' = IF open = ChatOf[s.id] THEN <<"tray", "mark", "load">> ELSE <<"tray">>
            /\ UNCHANGED tick
       ELSE /\ tick' = IF s.id \in shown THEN [tick EXCEPT ![s.id] = s.level] ELSE tick
            /\ UNCHANGED uiTodo
    /\ UNCHANGED <<storeVars, handlerPC, handled, eventsCh, serverVars, sendPC, open, shown,
                   uiSend, inline, tray>>

-----------------------------------------------------------------------------

HandlerStep == HandlerStores \/ HandlerEnqueues

HistoryNext ==
    \/ \E m \in Msgs \ Own : MessageArrives(m)
    \/ \E m \in Msgs, type \in ReceiptTypes : ReceiptArrives(m, type)
    \/ HandlerStep \/ EventLoop
    \/ \E m \in Own : ServerAccepts(m) \/ SendReturns(m) \/ SendSaves(m) \/ SendAnswered(m)
    \/ Crash
    \/ \E c \in Chats : OpenChat(c)
    \/ CloseChat \/ ShowPage \/ TrayRefresh
    \/ \E m \in Own, reply \in BOOLEAN : UserSends(m, reply)
    \/ SendTimesOut \/ UITask \/ UISignal

HistorySpec == HistoryInit /\ [][HistoryNext]_historyVars

(***************************************************************************)
(* Fairness: goroutines run, and the frontend's event loop serves its      *)
(* queue in order, whatever the user does in between. The server and the   *)
(* user owe nothing.                                                       *)
(***************************************************************************)
HistoryFairness ==
    /\ WF_historyVars(HandlerStep) /\ WF_historyVars(EventLoop)
    /\ \A m \in Own : WF_historyVars(SendReturns(m) \/ SendSaves(m) \/ SendAnswered(m))
    /\ WF_historyVars(UITask) /\ SF_historyVars(UISignal)

FairHistorySpec == HistorySpec /\ HistoryFairness

-----------------------------------------------------------------------------
(* Properties.                                                               *)

NoRowShrinks ==
    \A m \in messages :
        /\ m \in messages'
        /\ receipt'[m] >= receipt[m]
        /\ isRead[m] => isRead'[m]

(* The store forgets nothing: whatever is saved again, in whatever order     *)
(* receipts, read marks and redeliveries come, across failures and restarts, *)
(* a row stays, its receipt never falls and a read message stays read.       *)
RowsOnlyGrow == [][NoRowShrinks]_historyVars

(* No receipt out of thin air: what a row holds, and what the page shows     *)
(* after a channel, a signal or a load, was reported by the server for this  *)
(* very message.                                                             *)
ReceiptsEarned ==
    \A m \in Msgs : receipt[m] <= heard[m] /\ tick[m] <= heard[m]

Log == INSTANCE MessageLog WITH
    known <- arrived \cup accepted, reported <- heard, rows <- messages

(* Handler, channel, loop, calls, bus, page and all that can go wrong with   *)
(* them implement the plain log: a row is written only for what the server   *)
(* delivered or accepted, a receipt is raised or shown only to what it       *)
(* reported, a message becomes read only while its chat is open, and the page*)
(* is a copy of one chat's rows.                                             *)
ImplementsMessageLog == Log!Spec

(* What is on its way from the store to the page about m *)
Coming(kind, m) ==
    {e \in (IF handlerPC = "enqueue" THEN {handled} ELSE {}) \cup Range(eventsCh) \cup Range(signals) :
        e.kind = kind /\ e.id = m}

(* A call the frontend makes before it takes the next signal *)
Due(task) == task \in Range(uiTodo)

(* A text in the open chat that nothing will bring to the page, or nothing   *)
(* will mark as read, unless the user does something                         *)
Overlooked(m) ==
    /\ m \in messages \ FromMe /\ extractDisplayText(m) /\ open = ChatOf[m]
    /\ \/ m \notin shown /\ ~Due("load")
       \/ ~isRead[m] /\ ~Due("mark")
    /\ Coming("Message", m) = {}

(* A tick that is lower than its row, and nothing will raise it *)
LeftBehind(m) ==
    /\ m \in shown /\ tick[m] < receipt[m]
    /\ ~Due("load")
    /\ \A e \in Coming("Receipt", m) : e.level < receipt[m]

(* What can go wrong on the way: the channel is full, the daemon dies, a     *)
(* call fails, a signal is older than the row.                               *)
Dropped(m, kind) ==
    /\ handlerPC = "enqueue" /\ handled.kind = kind /\ handled.id = m
    /\ Len(eventsCh) = EventsCap

TaskFails ==
    /\ uiTodo # <<>> /\ uiTodo' = Tail(uiTodo)
    /\ CallFails({"disk", "crash"})
    /\ \/ Head(uiTodo) = "mark" /\ isRead' = isRead
       \/ Head(uiTodo) = "load" /\ shown' = {}

Outdated(m) ==
    /\ signals # <<>> /\ signals' = Tail(signals)
    /\ Head(signals).kind = "Receipt" /\ Head(signals).id = m
    /\ Head(signals).level < receipt[m]

(* A text is overlooked only by the step that loses it: its event is dropped *)
(* at the full channel, the daemon dies, or MarkAsRead or GetMessages fails. *)
(* No order of saves, signals, reloads, sends, time-outs and page changes    *)
(* does it.                                                                  *)
OverlookedOnlyIfLost ==
    [][\A m \in Msgs :
        Overlooked(m)' => Overlooked(m) \/ Dropped(m, "Message") \/ TaskFails \/ Crash
      ]_historyVars

(* A tick is left behind its row only by a dropped receipt event, the death  *)
(* of the daemon, or a signal that is older than the row.                    *)
BehindOnlyIfLost ==
    [][\A m \in Msgs :
        LeftBehind(m)' => LeftBehind(m) \/ Dropped(m, "Receipt") \/ Outdated(m) \/ Crash
      ]_historyVars

(* What the server delivered or accepted, and no row to come unless it is    *)
(* delivered again: its handler or its call is over.                         *)
Unstored(m) ==
    /\ m \notin messages
    /\ IF m \in Own THEN m \in accepted /\ sendPC[m] \notin {"calling", "save"}
       ELSE /\ m \in arrived /\ Storable(m)
            /\ ~(handlerPC = "store" /\ handled = Message(m))

(* Two more losses: Save fails, and SendText gives up waiting for the answer *)
(* to a message the server has taken.                                        *)
SaveFails(m) ==
    /\ "disk" \in World
    /\ \/ handled = Message(m) /\ handlerPC = "store" /\ handlerPC' = "enqueue"
       \/ m \in Own /\ sendPC[m] = "save" /\ sendPC'[m] = "saved"

AnswerLost(m) ==
    "slow" \in World /\ m \in Own /\ sendPC[m] = "calling" /\ sendPC'[m] = "error"

(* A message gets no row only if Save fails, the daemon dies, or the answer  *)
(* to a send is lost: not by a full channel, a frontend that waits no longer,*)
(* a redelivery, or whatever else is sent and received at the same time.     *)
UnstoredOnlyIfLost ==
    [][\A m \in Msgs :
        Unstored(m)' => Unstored(m) \/ SaveFails(m) \/ AnswerLost(m) \/ Crash]_historyVars

(* What others sent, and what the phone sent: once the handler is done with  *)
(* a receipt the row has the highest one reported, where statements do not   *)
(* fail and the daemon does not die. (Not so for messages sent from here:    *)
(* HighestKnownStored.)                                                      *)
OthersReceiptsKept ==
    World \cap {"disk", "crash"} = {} =>
        \A m \in messages \ Own : handlerPC = "idle" => receipt[m] = heard[m]

(* A text that arrives while its chat is open appears on the page and is     *)
(* marked as read, without the user's help.                                  *)
ArrivesOnPage(m) ==
    m \in messages /\ open = ChatOf[m]
        ~> (m \in shown /\ isRead[m]) \/ open # ChatOf[m]

TextAppears ==
    \A m \in Msgs \ FromMe : extractDisplayText(m) => ArrivesOnPage(m)

(* A message on the page ends up with the receipt its row has.               *)
ReadIsShown ==
    \A m \in Msgs : m \in shown /\ receipt[m] = 2 ~> tick[m] = 2 \/ open # ChatOf[m]

(* A message sent from the page appears there once the daemon has stored it. *)
SentAppears ==
    \A m \in Own :
        uiSend = m /\ ~inline /\ sendPC[m] = "saved" ~> m \in shown \/ open # ChatOf[m]

(* live-test-guide.md, "Send a message": "Confirm the receipt changes from   *)
(* sent to delivered, then read". It never changes back.                     *)
TicksNeverFall ==
    [][\A m \in shown : m \in shown' => tick'[m] >= tick[m]]_historyVars

(* messages.go: "UpdateReceipt stores the highest-known receipt state for an *)
(* outgoing message".                                                        *)
HighestKnownStored ==
    \A m \in Own \cap messages : handlerPC = "idle" => receipt[m] = heard[m]

=============================================================================

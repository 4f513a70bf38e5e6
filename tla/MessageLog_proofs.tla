-------------------------- MODULE MessageLog_proofs --------------------------
(***************************************************************************)
(* MessageHistory implements MessageLog, and what can keep a text or a tick*)
(* from the page, for any messages, chats and capacities and in any world. *)
(***************************************************************************)
EXTENDS MessageHistory_proofs

-----------------------------------------------------------------------------
(* What the statements do, in the terms of the log.                          *)

(* Save with receipt 0, as all callers have it: a new row, or a read mark. *)
LEMMA SaveEffect ==
    ASSUME StoreTypeOK, NEW m \in Msgs, NEW b \in BOOLEAN, Save(m, 0, b)
    PROVE  /\ messages' = messages \cup {m}
           /\ receipt' = [receipt EXCEPT ![m] = IF m \in messages THEN @ ELSE 0]
           /\ isRead' = [isRead EXCEPT ![m] = b \/ (m \in messages /\ @)]
<1>1. receipt[m] \in 0..2 /\ isRead[m] \in BOOLEAN
  BY DEF StoreTypeOK, Receipts
<1>2. Larger(0, receipt[m]) = receipt[m]
  BY <1>1 DEF Larger
<1>3. m \in messages => (b \/ isRead[m]) = (b \/ (m \in messages /\ isRead[m]))
  OBVIOUS
<1>4. m \notin messages => b = (b \/ (m \in messages /\ isRead[m]))
  OBVIOUS
<1>5. QED
  BY <1>2, <1>3, <1>4 DEF Save

(* UpdateReceipt: the row takes a higher level, or nothing happens. *)
LEMMA UpdateEffect ==
    ASSUME StoreTypeOK, NEW m \in Msgs, NEW level \in Receipts, UpdateReceipt(m, level)
    PROVE  /\ messages' = messages /\ isRead' = isRead
           /\ \/ receipt' = receipt /\ (m \in messages => receipt[m] >= level)
              \/ /\ m \in messages /\ receipt[m] < level
                 /\ receipt' = [receipt EXCEPT ![m] = level]
<1>1. receipt \in [Msgs -> 0..2] /\ level \in 0..2
  BY DEF StoreTypeOK, Receipts
<1> DEFINE new == IF m \in messages THEN Larger(receipt[m], level) ELSE receipt[m]
<1>2. messages' = messages /\ isRead' = isRead /\ receipt' = [receipt EXCEPT ![m] = new]
  BY DEF UpdateReceipt
<1>3. CASE m \in messages /\ receipt[m] < level
  <2>1. new = level
    BY <1>1, <1>3 DEF Larger
  <2>2. QED
    BY <1>2, <1>3, <2>1
<1>4. CASE ~(m \in messages /\ receipt[m] < level)
  <2>1. new = receipt[m] /\ (m \in messages => receipt[m] >= level)
    BY <1>1, <1>4 DEF Larger
  <2>2. receipt' = receipt
    BY <1>1, <1>2, <2>1
  <2>3. QED
    BY <1>2, <2>1, <2>2
<1>5. QED
  BY <1>3, <1>4

-----------------------------------------------------------------------------
(* The log.                                                                  *)

(* What the mapping needs: the handler and a call on their way to the store  *)
(* have what the server confirmed, and a message without a row has no receipt*)
(* yet.                                                                      *)
LogInv ==
    /\ messages \subseteq arrived \cup accepted
    /\ \A m \in Msgs \ messages : receipt[m] = 0
    /\ \A m \in messages \cap FromMe : isRead[m]
    /\ handlerPC = "store" /\ handled.kind = "Message" => handled.id \in arrived
    /\ \A m \in Own : sendPC[m] = "save" => m \in accepted

LEMMA LogInit == HistoryInit => LogInv
BY DEF HistoryInit, StoreInit, LogInv

(* Another row, with receipt 0 if it is new. *)
LEMMA SaveKeepsLog ==
    ASSUME HistoryTypeOK, LogInv, NEW m \in arrived \cup accepted, m \in Msgs,
           Save(m, 0, m \in FromMe), UNCHANGED <<arrived, accepted>>
    PROVE  /\ messages' \subseteq (arrived \cup accepted)'
           /\ \A n \in Msgs \ messages' : receipt'[n] = 0
           /\ \A n \in messages' \cap FromMe : isRead'[n]
<1>1. StoreTypeOK /\ (m \in FromMe) \in BOOLEAN
  BY DEF HistoryTypeOK
<1>2. /\ messages' = messages \cup {m}
      /\ receipt' = [receipt EXCEPT ![m] = IF m \in messages THEN @ ELSE 0]
      /\ isRead' = [isRead EXCEPT ![m] = m \in FromMe \/ (m \in messages /\ @)]
  BY <1>1, SaveEffect
<1>3. QED
  BY <1>1, <1>2, FromMeAssumption DEF LogInv, StoreTypeOK

LEMMA LogNext == HistoryTypeOK /\ LogInv /\ [HistoryNext]_historyVars => LogInv'
<1> SUFFICES ASSUME HistoryTypeOK, LogInv, [HistoryNext]_historyVars PROVE LogInv'
  OBVIOUS
<1> USE DEF LogInv
<1>1. CASE UNCHANGED <<storeVars, arrived, accepted, handlerPC, handled, sendPC>>
  BY <1>1 DEF storeVars
<1>2. ASSUME NEW m \in Msgs \ Own, MessageArrives(m) PROVE LogInv'
  BY <1>2 DEF MessageArrives, Message, storeVars
<1>3. ASSUME NEW m \in Msgs, NEW type \in ReceiptTypes, ReceiptArrives(m, type) PROVE LogInv'
  BY <1>3 DEF ReceiptArrives, Receipt, storeVars
<1>4. CASE HandlerStores
  <2>1. handled.id \in Msgs /\ handled.level \in Receipts
    BY <1>4 DEF HandlerStores, HistoryTypeOK, Events
  <2>2. UNCHANGED <<arrived, accepted, sendPC>> /\ handlerPC' = "enqueue"
    BY <1>4 DEF HandlerStores, serverVars
  <2>3. CASE handled.kind = "Message" /\ Save(handled.id, 0, handled.id \in FromMe)
    <3>1. handled.id \in arrived
      BY <1>4, <2>3 DEF HandlerStores
    <3>2. QED
      BY <2>1, <2>2, <2>3, <3>1, SaveKeepsLog
  <2>4. CASE UpdateReceipt(handled.id, handled.level)
    <3>1. /\ messages' = messages /\ isRead' = isRead
          /\ \A n \in Msgs \ messages : receipt'[n] = receipt[n]
      BY <2>1, <2>4, UpdateEffect DEF HistoryTypeOK, StoreTypeOK
    <3>2. QED
      BY <2>2, <3>1
  <2>5. CASE UNCHANGED storeVars
    BY <2>2, <2>5 DEF storeVars
  <2>6. QED
    BY <1>4, <2>3, <2>4, <2>5 DEF HandlerStores
<1>5. CASE HandlerEnqueues
  BY <1>5 DEF HandlerEnqueues, storeVars, serverVars
<1>6. ASSUME NEW m \in Own, ServerAccepts(m) PROVE LogInv'
  BY <1>6 DEF ServerAccepts, storeVars, daemonVars
<1>7. ASSUME NEW m \in Own, SendReturns(m) PROVE LogInv'
  BY <1>7 DEF SendReturns, HistoryTypeOK, storeVars, daemonVars, serverVars
<1>8. ASSUME NEW m \in Own, SendSaves(m) PROVE LogInv'
  <2>1. m \in accepted /\ m \in Msgs /\ m \in FromMe
    BY <1>8, OwnAssumption, FromMeAssumption DEF SendSaves
  <2>2. UNCHANGED <<arrived, accepted, handlerPC, handled>>
    BY <1>8 DEF SendSaves, daemonVars, serverVars
  <2>3. \A n \in Own : sendPC'[n] = "save" => n \in accepted
    BY <1>8 DEF SendSaves, HistoryTypeOK
  <2>4. CASE Save(m, 0, TRUE)
    <3>1. Save(m, 0, m \in FromMe)
      <4>1. (m \in FromMe) = TRUE
        BY <2>1
      <4>2. QED
        BY <2>4, <4>1
    <3>2. QED
      BY <2>1, <2>2, <2>3, <3>1, SaveKeepsLog
  <2>5. CASE UNCHANGED storeVars
    BY <2>2, <2>3, <2>5 DEF storeVars
  <2>6. QED
    BY <1>8, <2>4, <2>5 DEF SendSaves
<1>9. ASSUME NEW m \in Own, SendAnswered(m) PROVE LogInv'
  BY <1>9 DEF SendAnswered, HistoryTypeOK, storeVars, daemonVars, serverVars
<1>10. CASE Crash
  BY <1>10 DEF Crash, HistoryTypeOK, storeVars, serverVars
<1>11. ASSUME NEW m \in Own, NEW reply \in BOOLEAN, UserSends(m, reply) PROVE LogInv'
  BY <1>11 DEF UserSends, HistoryTypeOK, storeVars, daemonVars, serverVars
<1>12. CASE UITask
  <2>1. UNCHANGED <<messages, receipt, arrived, accepted, handlerPC, handled, sendPC>>
    BY <1>12 DEF UITask, UIMarks, UILoads, UICounts, MarkJIDAsRead, storeVars, daemonVars, serverVars
  <2>2. \A m \in messages : isRead[m] => isRead'[m]
    BY StoreNext DEF StoreGrows, NoRowShrinks
  <2>3. QED
    BY <2>1, <2>2
<1>13. QED
  BY <1>1, <1>2, <1>3, <1>4, <1>5, <1>6, <1>7, <1>8, <1>9, <1>10, <1>11, <1>12
     DEF HistoryNext, HandlerStep, EventLoop, OpenChat, CloseChat, ShowPage,
         TrayRefresh, SendTimesOut, UISignal, historyVars, daemonVars, serverVars

(* Save is Record, or changes nothing: a row that is the user's own is read. *)
LEMMA SaveLogs ==
    ASSUME HistoryTypeOK, LogInv, NEW m \in arrived \cup accepted, m \in Msgs,
           Save(m, 0, m \in FromMe), UNCHANGED <<arrived \cup accepted, heard, open, shown, tick>>
    PROVE  Log!Record(m) \/ UNCHANGED storeVars
<1>1. StoreTypeOK /\ (m \in FromMe) \in BOOLEAN
  BY DEF HistoryTypeOK
<1>2. /\ messages' = messages \cup {m}
      /\ receipt' = [receipt EXCEPT ![m] = IF m \in messages THEN @ ELSE 0]
      /\ isRead' = [isRead EXCEPT ![m] = m \in FromMe \/ (m \in messages /\ @)]
  BY <1>1, SaveEffect
<1>3. receipt \in [Msgs -> Receipts] /\ isRead \in [Msgs -> BOOLEAN]
  BY <1>1 DEF StoreTypeOK
<1>4. CASE m \in messages
  <2>1. (m \in FromMe \/ (m \in messages /\ isRead[m])) = isRead[m]
    BY <1>3, <1>4 DEF LogInv
  <2>2. messages' = messages /\ receipt' = receipt
    BY <1>2, <1>3, <1>4
  <2>3. isRead' = isRead
    BY <1>2, <1>3, <2>1
  <2>4. QED
    BY <2>2, <2>3 DEF storeVars
<1>5. CASE m \notin messages
  <2>1. receipt[m] = 0 /\ receipt' = receipt
    BY <1>2, <1>3, <1>5 DEF LogInv
  <2>2. (m \in FromMe \/ (m \in messages /\ isRead[m])) = (m \in FromMe)
    BY <1>5
  <2>3. isRead' = [isRead EXCEPT ![m] = m \in FromMe]
    BY <1>2, <2>2
  <2>4. QED
    BY <1>2, <1>5, <2>1, <2>3 DEF Log!Record, Log!page
<1>6. QED
  BY <1>4, <1>5

(* The handler's statement is one step of the log, or none. *)
LEMMA HandlerStoresLogs ==
    ASSUME HistoryTypeOK, LogInv, EarnedInv, HandlerStores
    PROVE  [Log!Next]_(Log!logVars)
<1>1. handled \in Events /\ handled.id \in Msgs /\ handled.level \in 0..2
      /\ handled.level <= heard[handled.id]
  BY DEF HandlerStores, HistoryTypeOK, EarnedInv, EarnedEvents, Events, Receipts
<1>2. UNCHANGED <<arrived \cup accepted, heard, open, shown, tick>>
  BY DEF HandlerStores, serverVars, pageVars
<1>3. CASE handled.kind = "Message" /\ Save(handled.id, 0, handled.id \in FromMe)
  <2>1. handled.id \in arrived
    BY <1>3 DEF HandlerStores, LogInv
  <2>2. Log!Record(handled.id) \/ UNCHANGED storeVars
    BY <1>1, <1>2, <1>3, <2>1, SaveLogs
  <2>3. QED
    BY <1>1, <1>2, <2>2 DEF Log!Next, Log!logVars, Log!log, Log!page, storeVars
<1>4. CASE UpdateReceipt(handled.id, handled.level)
  <2>1. /\ messages' = messages /\ isRead' = isRead
        /\ \/ receipt' = receipt
           \/ /\ handled.id \in messages /\ receipt[handled.id] < handled.level
              /\ receipt' = [receipt EXCEPT ![handled.id] = handled.level]
    BY <1>1, <1>4, UpdateEffect DEF HistoryTypeOK, Receipts
  <2>2. Log!Raise(handled.id, handled.level) \/ UNCHANGED storeVars
    BY <1>1, <1>2, <2>1 DEF Log!Raise, Log!page, storeVars
  <2>3. QED
    BY <1>1, <1>2, <2>2 DEF Log!Next, Log!logVars, Log!log, Log!page, storeVars
<1>5. CASE UNCHANGED storeVars
  BY <1>2, <1>5 DEF Log!logVars, Log!log, Log!page, storeVars
<1>6. QED
  BY <1>3, <1>4, <1>5 DEF HandlerStores

(* The calls of the frontend: marking, and making the page anew. *)
LEMMA UITaskLogs ==
    ASSUME HistoryTypeOK, LogInv, UITask
    PROVE  [Log!Next]_(Log!logVars)
<1>1. UNCHANGED <<arrived \cup accepted, heard, open, messages, receipt>>
  BY DEF UITask, UIMarks, UILoads, UICounts, MarkJIDAsRead, serverVars, pageVars, storeVars
<1>2. CASE MarkJIDAsRead(open) /\ UNCHANGED pageVars
  <2>1. \A m \in Msgs : (isRead[m] \/ m \in Unread(open))
                      = (isRead[m] \/ (m \in messages /\ ChatOf[m] = open))
    BY DEF Unread, InChat, LogInv, HistoryTypeOK, StoreTypeOK
  <2>2. isRead' = [m \in Msgs |-> isRead[m] \/ (m \in messages /\ ChatOf[m] = open)]
    BY <1>2, <2>1 DEF MarkJIDAsRead
  <2>3. Log!MarkRead
    BY <1>1, <1>2, <2>2 DEF Log!MarkRead, Log!page, pageVars
  <2>4. QED
    BY <2>3 DEF Log!Next
<1>3. CASE UILoads
  <2>1. CASE shown' = InChat(open)
    <3>1. Log!Copy
      BY <1>1, <1>3, <2>1 DEF UILoads, InChat, Log!Copy, Log!log, storeVars
    <3>2. QED
      BY <3>1 DEF Log!Next
  <2>2. CASE shown' = {}
    <3>1. tick' = [m \in Msgs |-> 0]
      BY <1>3, <2>2 DEF UILoads
    <3>2. Log!Turn(open)
      BY <1>1, <1>3, <2>2, <3>1 DEF UILoads, Log!Turn, Log!Nothing, Log!log, storeVars
    <3>3. QED
      BY <3>2 DEF Log!Next, HistoryTypeOK
  <2>3. QED
    BY <1>3, <2>1, <2>2 DEF UILoads
<1>4. CASE UNCHANGED storeVars /\ UNCHANGED pageVars
  BY <1>1, <1>4 DEF Log!logVars, Log!log, Log!page, storeVars, pageVars
<1>5. QED
  BY <1>2, <1>3, <1>4 DEF UITask, UIMarks, UICounts

(* Everything that only passes things on: a stutter of the log. *)
LEMMA LogStutters ==
    ASSUME UNCHANGED <<storeVars, serverVars, pageVars>>
    PROVE  [Log!Next]_(Log!logVars)
BY DEF storeVars, serverVars, pageVars, Log!logVars, Log!log, Log!page

LEMMA LogStep ==
    HistoryTypeOK /\ LogInv /\ EarnedInv /\ [HistoryNext]_historyVars => [Log!Next]_(Log!logVars)
<1> SUFFICES ASSUME HistoryTypeOK, LogInv, EarnedInv, [HistoryNext]_historyVars
             PROVE  [Log!Next]_(Log!logVars)
  OBVIOUS
<1>1. CASE UNCHANGED <<storeVars, serverVars, pageVars>>
  BY <1>1, LogStutters
<1>2. ASSUME NEW m \in Msgs \ Own, MessageArrives(m) PROVE [Log!Next]_(Log!logVars)
  <2>1. Log!Confirm(m)
    BY <1>2 DEF MessageArrives, Log!Confirm, Log!log, Log!page, storeVars, pageVars
  <2>2. QED
    BY <2>1 DEF Log!Next
<1>3. ASSUME NEW m \in Msgs, NEW type \in ReceiptTypes, ReceiptArrives(m, type)
      PROVE  [Log!Next]_(Log!logVars)
  <2> DEFINE level == mapReceiptType(type)
  <2>1. level \in 0..2 /\ heard \in [Msgs -> 0..2]
    BY DEF mapReceiptType, HistoryTypeOK, Receipts
  <2>2. /\ m \in arrived \cup accepted
        /\ heard' = [heard EXCEPT ![m] = Larger(heard[m], level)]
        /\ UNCHANGED <<storeVars, arrived, accepted, pageVars>>
    BY <1>3 DEF ReceiptArrives
  <2> HIDE DEF level
  <2>3. CASE level > heard[m]
    <3>1. Larger(heard[m], level) = level
      BY <2>1, <2>3 DEF Larger
    <3>2. Log!Report(m, level)
      BY <2>2, <2>3, <3>1 DEF Log!Report, Log!log, Log!page, storeVars, pageVars
    <3>3. QED
      BY <2>1, <3>2 DEF Log!Next
  <2>4. CASE ~(level > heard[m])
    <3>1. Larger(heard[m], level) = heard[m]
      BY <2>1, <2>4 DEF Larger
    <3>2. heard' = heard
      BY <2>1, <2>2, <3>1
    <3>3. QED
      BY <2>2, <3>2, LogStutters DEF serverVars
  <2>5. QED
    BY <2>3, <2>4
<1>4. CASE HandlerStores
  BY <1>4, HandlerStoresLogs
<1>5. ASSUME NEW m \in Own, ServerAccepts(m) PROVE [Log!Next]_(Log!logVars)
  <2>1. m \in Msgs
    BY OwnAssumption, FromMeAssumption
  <2>2. Log!Confirm(m)
    BY <1>5 DEF ServerAccepts, Log!Confirm, Log!log, Log!page, storeVars, pageVars
  <2>3. QED
    BY <2>1, <2>2 DEF Log!Next
<1>6. ASSUME NEW m \in Own, SendSaves(m) PROVE [Log!Next]_(Log!logVars)
  <2>1. m \in accepted /\ m \in Msgs /\ m \in FromMe
    BY <1>6, OwnAssumption, FromMeAssumption DEF SendSaves, LogInv
  <2>2. UNCHANGED <<arrived \cup accepted, heard, open, shown, tick>>
    BY <1>6 DEF SendSaves, serverVars, pageVars
  <2>3. CASE Save(m, 0, TRUE)
    <3>1. Save(m, 0, m \in FromMe)
      <4>1. (m \in FromMe) = TRUE
        BY <2>1
      <4>2. QED
        BY <2>3, <4>1
    <3>2. Log!Record(m) \/ UNCHANGED storeVars
      BY <2>1, <2>2, <3>1, SaveLogs
    <3>3. QED
      BY <2>1, <2>2, <3>2 DEF Log!Next, Log!logVars, Log!log, Log!page, storeVars
  <2>4. QED
    BY <1>1, <1>6, <2>3 DEF SendSaves
<1>7. ASSUME NEW c \in Chats \cup {NoChat}, open' = c, shown' = {}, tick' = [m \in Msgs |-> 0],
             UNCHANGED <<storeVars, serverVars>>
      PROVE  [Log!Next]_(Log!logVars)
  <2>1. Log!Turn(c)
    BY <1>7 DEF Log!Turn, Log!Nothing, Log!log, storeVars, serverVars
  <2>2. QED
    BY <2>1 DEF Log!Next
<1>8. CASE UITask
  BY <1>8, UITaskLogs
<1>9. CASE UISignal
  <2>1. Head(signals) \in EarnedEvents
    BY <1>9, HeadAndTail DEF UISignal, EarnedInv
  <2> DEFINE s == Head(signals)
  <2>2. s.id \in Msgs /\ s.level \in 0..2 /\ s.level <= heard[s.id]
    BY <2>1 DEF EarnedEvents, Events, Receipts
  <2>3. CASE s.id \in shown /\ tick' = [tick EXCEPT ![s.id] = s.level]
    <3>1. Log!Tick(s.id, s.level)
      BY <1>9, <2>2, <2>3 DEF UISignal, Log!Tick, Log!log, storeVars, serverVars
    <3>2. QED
      BY <2>2, <3>1 DEF Log!Next
  <2>4. CASE tick' = tick
    BY <1>1, <1>9, <2>4 DEF UISignal, pageVars
  <2>5. QED
    BY <1>9, <2>3, <2>4 DEF UISignal
<1>10. QED
  BY <1>1, <1>2, <1>3, <1>4, <1>5, <1>6, <1>7, <1>8, <1>9
     DEF HistoryNext, HandlerStep, HandlerEnqueues, EventLoop, SendReturns, SendAnswered, Crash,
         OpenChat, CloseChat, ShowPage, TrayRefresh, UserSends, SendTimesOut, historyVars,
         uiVars, pageVars

LEMMA LogStart == HistoryInit => Log!Init
BY DEF HistoryInit, StoreInit, Log!Init, Log!Nothing

(* What the daemon and its page promise of messages: whatever the world does,*)
(* each step of the handler, the channel, the calls, the signals and the page*)
(* records, raises, marks, copies or ticks as the plain log may, or leaves   *)
(* the log alone.                                                            *)
THEOREM LogRefinement == HistorySpec => ImplementsMessageLog
<1>1. HistoryTypeOK /\ LogInv /\ EarnedInv /\ [HistoryNext]_historyVars
        => LogInv' /\ EarnedInv' /\ [Log!Next]_(Log!logVars)
  BY LogNext, EarnedNext, LogStep
<1>2. HistoryInit => LogInv /\ EarnedInv /\ Log!Init
  BY LogInit, EarnedInit, LogStart
<1>3. QED
  BY <1>1, <1>2, HistoryTypeCorrect, PTL DEF HistorySpec, Log!Spec, ImplementsMessageLog

-----------------------------------------------------------------------------
(* Receipts of others' messages.                                             *)

(* Why OthersReceiptsKept is inductive: a row has all that was reported but  *)
(* for the receipt in the handler's hand; a message that is to have a row has*)
(* one before the handler takes the first receipt for it.                    *)
KeptInv ==
    \A m \in Msgs \ Own :
        /\ m \in messages =>
            /\ Storable(m)
            /\ IF handlerPC = "store" /\ handled.kind = "Receipt" /\ handled.id = m
               THEN heard[m] = Larger(receipt[m], handled.level)
               ELSE heard[m] = receipt[m]
        /\ m \in arrived \ messages /\ Storable(m) =>
            handlerPC = "store" /\ handled.kind = "Message" /\ handled.id = m /\ heard[m] = 0
        /\ m \notin arrived => heard[m] = 0

LEMMA KeptNext ==
    ASSUME World \cap {"disk", "crash"} = {},
           HistoryTypeOK, LogInv, KeptInv, [HistoryNext]_historyVars
    PROVE  KeptInv'
<1>1. heard \in [Msgs -> 0..2] /\ receipt \in [Msgs -> 0..2]
  BY DEF HistoryTypeOK, StoreTypeOK, Receipts
<1>2. \A m \in Msgs \ Own : Storable(m)' = Storable(m)
  BY DEF Storable, buildStoredMessage
<1>3. messages \subseteq arrived \cup accepted /\ accepted \subseteq Own
  BY DEF LogInv, HistoryTypeOK
<1>4. CASE UNCHANGED <<messages, receipt, heard, arrived, handlerPC, handled>>
  BY <1>2, <1>4 DEF KeptInv
<1>5. ASSUME NEW n \in Msgs \ Own, MessageArrives(n) PROVE KeptInv'
  <2>1. /\ handlerPC = "idle" /\ handlerPC' = "store" /\ arrived' = arrived \cup {n}
        /\ handled'.kind = "Message" /\ handled'.id = n
        /\ UNCHANGED <<messages, receipt, heard>>
    BY <1>5 DEF MessageArrives, Message, storeVars
  <2>2. QED
    BY <1>2, <2>1 DEF KeptInv
<1>6. ASSUME NEW n \in Msgs, NEW type \in ReceiptTypes, ReceiptArrives(n, type) PROVE KeptInv'
  <2> DEFINE level == mapReceiptType(type)
  <2>1. level \in 0..2
    BY DEF mapReceiptType
  <2>2. /\ handlerPC = "idle" /\ handlerPC' = "store" /\ n \in accepted \cup arrived
        /\ handled'.kind = "Receipt" /\ handled'.id = n /\ handled'.level = level
        /\ heard' = [heard EXCEPT ![n] = Larger(heard[n], level)]
        /\ UNCHANGED <<messages, receipt, arrived>>
    BY <1>6 DEF ReceiptArrives, Receipt, storeVars
  <2> HIDE DEF level
  <2>3. ASSUME NEW m \in Msgs \ Own, m # n PROVE heard'[m] = heard[m]
    BY <2>2, <2>3
  <2>4. n \in messages \ Own => heard'[n] = Larger(receipt[n], level)
    BY <1>1, <2>2 DEF KeptInv
  <2>5. n \in Msgs \ Own => n \in arrived /\ (n \notin messages => ~Storable(n))
    BY <1>3, <2>2 DEF KeptInv
  <2>6. QED
    BY <1>2, <2>2, <2>3, <2>4, <2>5 DEF KeptInv
<1>7. CASE HandlerStores
  <2>1. handled \in Events /\ handled.id \in Msgs /\ handled.level \in 0..2
    BY <1>7 DEF HandlerStores, HistoryTypeOK, Events, Receipts
  <2>2. UNCHANGED <<heard, arrived, handled>> /\ handlerPC = "store" /\ handlerPC' = "enqueue"
    BY <1>7 DEF HandlerStores, serverVars
  <2>3. CASE /\ handled.kind = "Message" /\ Storable(handled.id)
             /\ Save(handled.id, 0, handled.id \in FromMe)
    <3>1. StoreTypeOK /\ (handled.id \in FromMe) \in BOOLEAN
      BY DEF HistoryTypeOK
    <3>2. /\ messages' = messages \cup {handled.id}
          /\ receipt' = [receipt EXCEPT ![handled.id] = IF handled.id \in messages THEN @ ELSE 0]
      BY <2>1, <2>3, <3>1, SaveEffect
    <3>3. ASSUME NEW m \in Msgs \ Own, m \in messages' PROVE Storable(m) /\ heard[m] = receipt'[m]
      <4>1. CASE m \in messages
        BY <1>1, <2>3, <3>2, <4>1 DEF KeptInv
      <4>2. CASE m \notin messages
        <5>1. m = handled.id /\ m \in arrived
          BY <2>2, <2>3, <3>2, <3>3, <4>2 DEF LogInv
        <5>2. QED
          BY <1>1, <2>3, <3>2, <4>2, <5>1 DEF KeptInv
      <4>3. QED
        BY <4>1, <4>2
    <3>4. ASSUME NEW m \in Msgs \ Own, m \in arrived \ messages' PROVE ~Storable(m)
      BY <3>2, <3>4 DEF KeptInv
    <3>5. QED
      BY <1>2, <2>2, <3>3, <3>4 DEF KeptInv
  <2>4. CASE /\ handled.kind = "Receipt" /\ UpdateReceipt(handled.id, handled.level)
    <3>1. /\ messages' = messages
          /\ \A m \in Msgs : receipt'[m] = IF m \in messages /\ m = handled.id
                                         THEN Larger(receipt[m], handled.level) ELSE receipt[m]
      BY <1>1, <2>4 DEF UpdateReceipt
    <3>2. QED
      BY <1>2, <2>2, <2>4, <3>1 DEF KeptInv
  <2>5. CASE /\ handled.kind = "Receipt" /\ handled.level = 0 /\ UNCHANGED storeVars
    <3>1. \A m \in Msgs : Larger(receipt[m], 0) = receipt[m]
      BY <1>1 DEF Larger
    <3>2. QED
      BY <1>2, <2>2, <2>5, <3>1 DEF KeptInv, storeVars
  <2>6. CASE /\ handled.kind = "Message" /\ ~Storable(handled.id) /\ UNCHANGED storeVars
    BY <1>2, <2>2, <2>6 DEF KeptInv, storeVars
  <2>7. QED
    BY <1>7, <2>3, <2>4, <2>5, <2>6 DEF HandlerStores
<1>8. CASE HandlerEnqueues
  BY <1>2, <1>8 DEF HandlerEnqueues, KeptInv, storeVars, serverVars
<1>9. ASSUME NEW n \in Own, SendSaves(n) PROVE KeptInv'
  <2>1. UNCHANGED <<heard, arrived, handlerPC, handled>>
    BY <1>9 DEF SendSaves, daemonVars, serverVars
  <2>2. \A m \in Msgs \ Own : (m \in messages' <=> m \in messages) /\ receipt'[m] = receipt[m]
    BY <1>1, <1>9 DEF SendSaves, Save, storeVars
  <2>3. QED
    BY <1>2, <2>1, <2>2 DEF KeptInv
<1>10. CASE UITask
  BY <1>4, <1>10
     DEF UITask, UIMarks, UILoads, UICounts, MarkJIDAsRead, storeVars, daemonVars, serverVars
<1>11. ~Crash
  BY DEF Crash
<1>12. QED
  BY <1>4, <1>5, <1>6, <1>7, <1>8, <1>9, <1>10, <1>11
     DEF HistoryNext, HandlerStep, EventLoop, ServerAccepts, SendReturns, SendAnswered, OpenChat,
         CloseChat, ShowPage, TrayRefresh, UserSends, SendTimesOut, UISignal, historyVars,
         storeVars, daemonVars, serverVars

(* Why the row is there in time for messages that come over the handler: it  *)
(* saves the message before it takes the next node, so no receipt overtakes  *)
(* it. It holds for redelivery, receipts in any order and late answers.      *)
THEOREM OthersKept == HistorySpec => []OthersReceiptsKept
<1>1. CASE World \cap {"disk", "crash"} = {}
  <2>1. HistoryInit => LogInv /\ KeptInv
    BY LogInit DEF HistoryInit, StoreInit, KeptInv
  <2>2. HistoryTypeOK /\ LogInv /\ KeptInv /\ [HistoryNext]_historyVars => LogInv' /\ KeptInv'
    BY <1>1, LogNext, KeptNext
  <2>3. HistoryTypeOK /\ KeptInv => OthersReceiptsKept
    BY DEF KeptInv, OthersReceiptsKept, HistoryTypeOK, StoreTypeOK
  <2>4. QED
    BY <2>1, <2>2, <2>3, HistoryTypeCorrect, PTL DEF HistorySpec
<1>2. CASE World \cap {"disk", "crash"} # {}
  <2>1. OthersReceiptsKept
    BY <1>2 DEF OthersReceiptsKept
  <2>2. QED
    BY <2>1, PTL
<1>3. QED
  BY <1>1, <1>2

-----------------------------------------------------------------------------
(* Texts and ticks on their way to the page.                                 *)

LEMMA RangeOfTail ==
    ASSUME NEW S, NEW q \in Seq(S), q # <<>>
    PROVE  Range(q) = {Head(q)} \cup Range(Tail(q))
<1>1. \A i \in 1..Len(q) : i = 1 \/ i - 1 \in 1..Len(Tail(q))
  OBVIOUS
<1>2. \A i \in 2..Len(q) : q[i] = Tail(q)[i - 1]
  OBVIOUS
<1>3. ASSUME NEW x \in Range(q) PROVE x \in {Head(q)} \cup Range(Tail(q))
  <2>1. PICK i \in 1..Len(q) : x = q[i]
    BY DEF Range
  <2>2. CASE i = 1
    BY <2>1, <2>2
  <2>3. CASE i # 1
    <3>1. i \in 2..Len(q) /\ i - 1 \in 1..Len(Tail(q))
      BY <1>1, <2>1, <2>3
    <3>2. i - 1 \in DOMAIN Tail(q) /\ x = Tail(q)[i - 1]
      BY <1>2, <2>1, <3>1
    <3>3. QED
      BY <3>2 DEF Range
  <2>4. QED
    BY <2>2, <2>3
<1>4. ASSUME NEW x \in Range(Tail(q)) PROVE x \in Range(q)
  <2>1. PICK i \in 1..Len(Tail(q)) : x = Tail(q)[i]
    BY DEF Range
  <2>2. i + 1 \in 1..Len(q) /\ x = q[i + 1]
    BY <2>1
  <2>3. QED
    BY <2>2 DEF Range
<1>5. Head(q) \in Range(q)
  BY DEF Range
<1>6. QED
  BY <1>3, <1>4, <1>5

LEMMA RangeOfAppend ==
    ASSUME NEW S, NEW q \in Seq(S), NEW x \in S
    PROVE  Range(Append(q, x)) = Range(q) \cup {x}
<1>1. DOMAIN Append(q, x) = DOMAIN q \cup {Len(q) + 1}
  OBVIOUS
<1>2. \A i \in DOMAIN q : Append(q, x)[i] = q[i]
  OBVIOUS
<1>3. Append(q, x)[Len(q) + 1] = x
  OBVIOUS
<1>4. QED
  BY <1>1, <1>2, <1>3 DEF Range

(* Of the three queues, and of the frontend's calls. *)
LEMMA Queues ==
    ASSUME HistoryTypeOK
    PROVE  /\ eventsCh # <<>> => Range(eventsCh) = {Head(eventsCh)} \cup Range(Tail(eventsCh))
           /\ signals # <<>> => Range(signals) = {Head(signals)} \cup Range(Tail(signals))
           /\ uiTodo # <<>> => Range(uiTodo) = {Head(uiTodo)} \cup Range(Tail(uiTodo))
           /\ \A e \in Events : /\ Range(Append(eventsCh, e)) = Range(eventsCh) \cup {e}
                              /\ Range(Append(signals, e)) = Range(signals) \cup {e}
BY RangeOfTail, RangeOfAppend DEF HistoryTypeOK

LEMMA RangeOfLists ==
    /\ Range(<< >>) = {}
    /\ Range(<<"tray">>) = {"tray"}
    /\ Range(<<"mark", "load">>) = {"mark", "load"}
    /\ Range(<<"tray", "mark", "load">>) = {"tray", "mark", "load"}
BY DEF Range

(* The frontend's thread waits for a send only with no other call to make;   *)
(* otherwise the answer would wipe calls that are due.                       *)
SendWaitsAlone == uiSend # NoMsg => uiTodo = <<>>

LEMMA WaitsNext == HistoryTypeOK /\ SendWaitsAlone /\ [HistoryNext]_historyVars => SendWaitsAlone'
<1> SUFFICES ASSUME HistoryTypeOK, SendWaitsAlone, [HistoryNext]_historyVars PROVE SendWaitsAlone'
  OBVIOUS
<1>1. CASE UNCHANGED <<uiTodo, uiSend>>
  BY <1>1 DEF SendWaitsAlone
<1>2. ASSUME NEW m \in Own, SendAnswered(m) PROVE SendWaitsAlone'
  BY <1>2 DEF SendAnswered, SendWaitsAlone
<1>3. CASE UITask \/ Crash \/ SendTimesOut
  BY <1>3 DEF UITask, Crash, SendTimesOut, SendWaitsAlone
<1>4. CASE ShowPage \/ TrayRefresh \/ UISignal
  BY <1>4 DEF ShowPage, TrayRefresh, UISignal, UIFree, SendWaitsAlone
<1>5. ASSUME NEW c \in Chats, OpenChat(c) PROVE SendWaitsAlone'
  BY <1>5 DEF OpenChat, UIFree, SendWaitsAlone
<1>6. ASSUME NEW m \in Own, NEW reply \in BOOLEAN, UserSends(m, reply) PROVE SendWaitsAlone'
  BY <1>6 DEF UserSends, UIFree, SendWaitsAlone
<1>7. QED
  BY <1>1, <1>2, <1>3, <1>4, <1>5, <1>6
     DEF HistoryNext, HandlerStep, MessageArrives, ReceiptArrives, HandlerStores, HandlerEnqueues,
         EventLoop, ServerAccepts, SendReturns, SendSaves, CloseChat, historyVars, uiVars

(* What a step of the handler or the loop does to what is coming. *)
LEMMA HandlerComing ==
    ASSUME HistoryTypeOK, HandlerEnqueues, NEW m \in Msgs, NEW kind, ~Dropped(m, kind)
    PROVE  Coming(kind, m)' = Coming(kind, m)
<1>1. handled \in Events /\ handlerPC = "enqueue" /\ handlerPC' = "idle" /\ signals' = signals
  BY DEF HandlerEnqueues, HistoryTypeOK
<1>2. CASE eventsCh' = Append(eventsCh, handled)
  <2>1. Range(eventsCh') = Range(eventsCh) \cup {handled}
    BY <1>1, <1>2, Queues
  <2>2. QED
    BY <1>1, <2>1 DEF Coming
<1>3. CASE eventsCh' = eventsCh /\ ~(Len(eventsCh) < EventsCap)
  <2>1. Len(eventsCh) = EventsCap
    BY <1>3, HistoryCapAssumption DEF HistoryTypeOK
  <2>2. ~(handled.kind = kind /\ handled.id = m)
    BY <1>1, <2>1 DEF Dropped
  <2>3. QED
    BY <1>1, <1>3, <2>2 DEF Coming
<1>4. QED
  BY <1>2, <1>3 DEF HandlerEnqueues

LEMMA LoopComing ==
    ASSUME HistoryTypeOK, EventLoop, NEW m \in Msgs, NEW kind
    PROVE  \A e \in Coming(kind, m) : Announced(e) => e \in Coming(kind, m)'
<1>1. Head(eventsCh) \in Events /\ eventsCh # <<>> /\ eventsCh' = Tail(eventsCh)
      /\ UNCHANGED <<handlerPC, handled>>
  BY HeadAndTail DEF EventLoop, HistoryTypeOK
<1>2. Range(eventsCh) = {Head(eventsCh)} \cup Range(eventsCh')
  BY <1>1, Queues
<1>3. CASE Announced(Head(eventsCh)) /\ signals' = Append(signals, Head(eventsCh))
  <2>1. Range(signals') = Range(signals) \cup {Head(eventsCh)}
    BY <1>1, <1>3, Queues
  <2>2. QED
    BY <1>1, <1>2, <2>1 DEF Coming
<1>4. CASE ~Announced(Head(eventsCh)) /\ signals' = signals
  BY <1>1, <1>2, <1>4 DEF Coming
<1>5. QED
  BY <1>3, <1>4 DEF EventLoop

(* A signal that is about something else. *)
LEMMA SignalComing ==
    ASSUME HistoryTypeOK, UISignal, NEW m \in Msgs, NEW kind,
           ~(Head(signals).kind = kind /\ Head(signals).id = m)
    PROVE  Coming(kind, m)' = Coming(kind, m)
<1>1. Range(signals) = {Head(signals)} \cup Range(signals')
  BY Queues DEF UISignal
<1>2. QED
  BY <1>1 DEF UISignal, Coming

(* The frontend's calls and signals, for a text that is overlooked after. *)
LEMMA TaskOverlooks ==
    ASSUME HistoryTypeOK, UITask, ~TaskFails, NEW m \in Msgs, Overlooked(m)'
    PROVE  Overlooked(m)
<1>1. /\ uiTodo # <<>> /\ uiTodo' = Tail(uiTodo)
      /\ Range(uiTodo) = {Head(uiTodo)} \cup Range(uiTodo')
      /\ UNCHANGED <<messages, open>> /\ Coming("Message", m)' = Coming("Message", m)
  BY Queues
     DEF UITask, UIMarks, UILoads, UICounts, MarkJIDAsRead, Coming, storeVars, daemonVars, pageVars
<1>2. /\ m \in messages \ FromMe /\ extractDisplayText(m) /\ open = ChatOf[m]
      /\ Coming("Message", m) = {}
  BY <1>1 DEF Overlooked, extractDisplayText
<1>3. CASE Head(uiTodo) = "mark" /\ UIMarks
  <2>1. shown' = shown /\ (Due("load") => Due("load")')
    BY <1>1, <1>3 DEF UIMarks, pageVars, Due
  <2>2. CASE MarkJIDAsRead(open)
    <3>1. isRead'[m]
      BY <1>2, <2>2 DEF MarkJIDAsRead, Unread, InChat
    <3>2. m \notin shown /\ ~Due("load")
      BY <2>1, <3>1 DEF Overlooked
    <3>3. QED
      BY <1>2, <3>2 DEF Overlooked
  <2>3. CASE CallFails({"disk", "crash"}) /\ UNCHANGED storeVars
    BY <1>1, <1>3, <2>3 DEF TaskFails, storeVars
  <2>4. QED
    BY <1>3, <2>2, <2>3 DEF UIMarks
<1>4. CASE Head(uiTodo) = "load" /\ UILoads
  <2>1. isRead' = isRead /\ (Due("mark") => Due("mark")')
    BY <1>1, <1>4 DEF UILoads, storeVars, Due
  <2>2. CASE shown' = InChat(open)
    <3>1. m \in shown'
      BY <1>2, <2>2 DEF InChat
    <3>2. ~isRead[m] /\ ~Due("mark")
      BY <2>1, <3>1 DEF Overlooked
    <3>3. QED
      BY <1>2, <3>2 DEF Overlooked
  <2>3. CASE CallFails({"disk", "crash"}) /\ shown' = {}
    BY <1>1, <1>4, <2>3 DEF TaskFails
  <2>4. QED
    BY <1>4, <2>2, <2>3 DEF UILoads
<1>5. CASE Head(uiTodo) \notin {"mark", "load"} /\ UICounts
  <2>1. UNCHANGED <<shown, isRead>>
    BY <1>5 DEF UICounts, storeVars, pageVars
  <2>2. \A task \in {"mark", "load"} : Due(task) => Due(task)'
    BY <1>1, <1>5 DEF Due
  <2>3. QED
    BY <1>2, <2>1, <2>2 DEF Overlooked
<1>6. QED
  BY <1>3, <1>4, <1>5 DEF UITask

LEMMA SignalOverlooks ==
    ASSUME HistoryTypeOK, UISignal, NEW m \in Msgs, Overlooked(m)'
    PROVE  Overlooked(m)
<1>1. /\ uiTodo = <<>> /\ ~Due("load") /\ ~Due("mark")
      /\ UNCHANGED <<storeVars, open, shown>>
  BY RangeOfLists DEF UISignal, UIFree, Due
<1>2. /\ m \in messages \ FromMe /\ extractDisplayText(m) /\ open = ChatOf[m]
      /\ m \notin shown \/ ~isRead[m]
  BY <1>1 DEF Overlooked, extractDisplayText, storeVars
<1>3. ~(Head(signals).kind = "Message" /\ Head(signals).id = m)
  <2>1. SUFFICES ASSUME Head(signals).kind = "Message", Head(signals).id = m PROVE FALSE
    OBVIOUS
  <2>2. uiTodo' = <<"tray", "mark", "load">>
    BY <1>2, <2>1 DEF UISignal
  <2>3. Due("mark")' /\ Due("load")'
    BY <2>2, RangeOfLists DEF Due
  <2>4. QED
    BY <2>3 DEF Overlooked
<1>4. Coming("Message", m)' = Coming("Message", m)
  BY <1>3, SignalComing
<1>5. QED
  BY <1>1, <1>2, <1>4 DEF Overlooked

LEMMA OverlookedNext ==
    ASSUME HistoryTypeOK, SendWaitsAlone, [HistoryNext]_historyVars, NEW m \in Msgs,
           Overlooked(m)', ~Dropped(m, "Message"), ~TaskFails, ~Crash
    PROVE  Overlooked(m)
<1> DEFINE kept == UNCHANGED <<messages, isRead, open, shown>>
<1>1. /\ m \in messages' \ FromMe /\ extractDisplayText(m) /\ open' = ChatOf[m]
      /\ m \in Msgs \ Own /\ Coming("Message", m)' = {}
  BY OwnAssumption DEF Overlooked, extractDisplayText
<1>2. CASE kept /\ uiTodo' = uiTodo /\ Coming("Message", m) = {}
  BY <1>2 DEF Overlooked, extractDisplayText, Due
<1>3. CASE kept /\ uiTodo' = uiTodo /\ Coming("Message", m)' = Coming("Message", m)
  BY <1>1, <1>2, <1>3
<1>4. CASE UNCHANGED <<storeVars, pageVars, handlerPC, handled, eventsCh, signals, uiTodo>>
  BY <1>3, <1>4 DEF storeVars, pageVars, Coming
<1>5. CASE handlerPC = "idle" /\ handlerPC' = "store" /\ UNCHANGED <<storeVars, pageVars, eventsCh, signals, uiTodo>>
  BY <1>3, <1>5 DEF storeVars, pageVars, Coming
<1>6. CASE HandlerStores
  <2>1. /\ handlerPC = "store" /\ handlerPC' = "enqueue"
        /\ UNCHANGED <<handled, eventsCh, signals, open, shown, uiTodo>>
    BY <1>6 DEF HandlerStores, pageVars, uiVars
  <2>2. ~(handled.kind = "Message" /\ handled.id = m) /\ Coming("Message", m) = {}
    BY <1>1, <2>1 DEF Coming
  <2>3. handled.id \in Msgs /\ handled.level \in Receipts /\ StoreTypeOK
    BY <1>6 DEF HandlerStores, HistoryTypeOK, Events
  <2>4. CASE handled.kind = "Message" /\ Save(handled.id, 0, handled.id \in FromMe)
    <3>1. m \in messages /\ isRead'[m] = isRead[m]
      BY <1>1, <2>2, <2>3, <2>4 DEF Save, StoreTypeOK
    <3>2. QED
      BY <1>1, <2>1, <2>2, <3>1 DEF Overlooked, Due
  <2>5. CASE UNCHANGED <<messages, isRead>>
    BY <1>2, <2>1, <2>2, <2>5
  <2>6. QED
    BY <1>6, <2>4, <2>5 DEF HandlerStores, UpdateReceipt, storeVars
<1>7. CASE HandlerEnqueues
  BY <1>3, <1>7, HandlerComing DEF HandlerEnqueues, storeVars, pageVars, uiVars
<1>8. CASE EventLoop
  <2>1. \A e \in Coming("Message", m) : Announced(e)
    BY <1>1 DEF Coming, Announced
  <2>2. Coming("Message", m) = {}
    BY <1>1, <1>8, <2>1, LoopComing
  <2>3. QED
    BY <1>2, <1>8, <2>2 DEF EventLoop, storeVars, pageVars, uiVars
<1>9. ASSUME NEW n \in Own, SendSaves(n) PROVE Overlooked(m)
  <2>1. UNCHANGED <<handlerPC, handled, eventsCh, signals, open, shown, uiTodo>>
    BY <1>9 DEF SendSaves, daemonVars, pageVars, uiVars
  <2>2. m # n /\ n \in Msgs
    BY <1>1, OwnAssumption, FromMeAssumption
  <2>3. m \in messages /\ isRead'[m] = isRead[m]
    <3>1. StoreTypeOK
      BY DEF HistoryTypeOK
    <3>2. CASE Save(n, 0, TRUE)
      BY <1>1, <2>2, <3>1, <3>2 DEF Save, StoreTypeOK
    <3>3. CASE UNCHANGED storeVars
      BY <1>1, <3>3 DEF storeVars
    <3>4. QED
      BY <1>9, <3>2, <3>3 DEF SendSaves
  <2>4. Coming("Message", m)' = Coming("Message", m)
    BY <2>1 DEF Coming
  <2>5. QED
    BY <1>1, <2>1, <2>3, <2>4 DEF Overlooked, Due
<1>10. ASSUME NEW n \in Own, SendAnswered(n) PROVE Overlooked(m)
  <2>1. UNCHANGED <<storeVars, pageVars, handlerPC, handled, eventsCh, signals>>
    BY <1>10 DEF SendAnswered, daemonVars
  <2>2. ASSUME uiTodo' = <<"mark", "load">> PROVE FALSE
    <3>1. Due("mark")' /\ Due("load")'
      BY <2>2, RangeOfLists DEF Due
    <3>2. QED
      BY <3>1 DEF Overlooked
  <2>3. uiTodo' = uiTodo
    <3>1. CASE uiSend = n
      <4>1. uiSend # NoMsg
        BY <3>1, OwnAssumption, FromMeAssumption, SentinelAssumption
      <4>2. uiTodo = <<>>
        BY <4>1 DEF SendWaitsAlone
      <4>3. QED
        BY <1>10, <2>2, <3>1, <4>2 DEF SendAnswered
    <3>2. QED
      BY <1>10, <3>1 DEF SendAnswered
  <2>4. QED
    BY <1>4, <2>1, <2>3
<1>11. ASSUME NEW c \in Chats, OpenChat(c) PROVE Overlooked(m)
  <2>1. Due("mark")' /\ Due("load")'
    BY <1>11, RangeOfLists DEF OpenChat, Due
  <2>2. QED
    BY <2>1 DEF Overlooked
<1>12. CASE CloseChat \/ ShowPage
  <2>1. ChatOf[m] = NoChat
    BY <1>1, <1>12 DEF CloseChat, ShowPage
  <2>2. QED
    BY <2>1, ChatOfAssumption, SentinelAssumption
<1>13. CASE TrayRefresh
  <2>1. UNCHANGED <<storeVars, pageVars, handlerPC, handled, eventsCh, signals>>
    BY <1>13 DEF TrayRefresh, daemonVars
  <2>2. ~Due("mark") /\ ~Due("load")
    BY <1>13, RangeOfLists DEF TrayRefresh, UIFree, Due
  <2>3. Coming("Message", m)' = Coming("Message", m)
    BY <2>1 DEF Coming
  <2>4. QED
    BY <1>1, <2>1, <2>2, <2>3 DEF Overlooked, storeVars, pageVars
<1>14. CASE UITask
  BY <1>14, TaskOverlooks
<1>15. CASE UISignal
  BY <1>15, SignalOverlooks
<1>16. QED
  BY <1>4, <1>5, <1>6, <1>7, <1>8, <1>9, <1>10, <1>11, <1>12, <1>13, <1>14, <1>15
     DEF HistoryNext, HandlerStep, MessageArrives, ReceiptArrives, ServerAccepts, SendReturns,
         UserSends, SendTimesOut, historyVars, daemonVars, uiVars

(* The safety part of TextAppears, in any world: between the row and the page*)
(* there is always an event, a signal or a call that will bring the text and *)
(* mark it, until one of three steps that lose it.                           *)
THEOREM OverlookedCorrect == HistorySpec => OverlookedOnlyIfLost
<1>1. HistoryTypeOK /\ SendWaitsAlone /\ [HistoryNext]_historyVars
        => [\A m \in Msgs :
                Overlooked(m)' => Overlooked(m) \/ Dropped(m, "Message") \/ TaskFails \/ Crash
           ]_historyVars
  BY OverlookedNext
<1>2. HistoryInit => SendWaitsAlone
  BY DEF HistoryInit, SendWaitsAlone
<1>3. QED
  BY <1>1, <1>2, WaitsNext, HistoryTypeCorrect, PTL DEF HistorySpec, OverlookedOnlyIfLost

(* The same for a tick. *)
LEMMA TaskLeavesBehind ==
    ASSUME HistoryTypeOK, UITask, NEW m \in Msgs, LeftBehind(m)'
    PROVE  LeftBehind(m)
<1>1. /\ uiTodo # <<>> /\ uiTodo' = Tail(uiTodo)
      /\ Range(uiTodo) = {Head(uiTodo)} \cup Range(uiTodo')
      /\ receipt' = receipt /\ Coming("Receipt", m)' = Coming("Receipt", m)
  BY Queues
     DEF UITask, UIMarks, UILoads, UICounts, MarkJIDAsRead, Coming, storeVars, daemonVars
<1>2. CASE Head(uiTodo) = "load" /\ UILoads
  <2>1. m \in shown' /\ tick'[m] < receipt[m]
    BY <1>1 DEF LeftBehind
  <2>2. tick'[m] = receipt[m]
    BY <1>2, <2>1 DEF UILoads
  <2>3. receipt[m] \in 0..2
    BY DEF HistoryTypeOK, StoreTypeOK, Receipts
  <2>4. QED
    BY <2>1, <2>2, <2>3
<1>3. CASE Head(uiTodo) # "load" /\ UNCHANGED pageVars
  <2>1. Due("load") => Due("load")'
    BY <1>1, <1>3 DEF Due
  <2>2. QED
    BY <1>1, <1>3, <2>1 DEF LeftBehind, pageVars
<1>4. QED
  BY <1>2, <1>3 DEF UITask, UIMarks, UICounts

LEMMA SignalLeavesBehind ==
    ASSUME HistoryTypeOK, UISignal, NEW m \in Msgs, LeftBehind(m)', ~Outdated(m)
    PROVE  LeftBehind(m)
<1>1. /\ ~Due("load") /\ signals # <<>> /\ signals' = Tail(signals)
      /\ UNCHANGED <<receipt, shown>>
  BY RangeOfLists DEF UISignal, UIFree, Due, storeVars
<1>2. m \in shown /\ tick'[m] < receipt[m]
  BY <1>1 DEF LeftBehind
<1>3. ~(Head(signals).kind = "Receipt" /\ Head(signals).id = m)
  <2>1. SUFFICES ASSUME Head(signals).kind = "Receipt", Head(signals).id = m PROVE FALSE
    OBVIOUS
  <2>2. tick'[m] = Head(signals).level
    BY <1>2, <2>1 DEF UISignal, HistoryTypeOK
  <2>3. QED
    BY <1>1, <1>2, <2>1, <2>2 DEF Outdated
<1>4. Coming("Receipt", m)' = Coming("Receipt", m)
  BY <1>3, SignalComing
<1>5. tick'[m] = tick[m]
  <2>1. Head(signals) \in Events
    BY <1>1, HeadAndTail DEF HistoryTypeOK
  <2>2. Head(signals).kind \in {"Message", "Receipt"}
    BY <2>1 DEF Events
  <2>3. QED
    BY <1>3, <2>2 DEF UISignal, HistoryTypeOK
<1>6. QED
  BY <1>1, <1>2, <1>4, <1>5 DEF LeftBehind

LEMMA LeftBehindNext ==
    ASSUME HistoryTypeOK, SendWaitsAlone, [HistoryNext]_historyVars, NEW m \in Msgs,
           LeftBehind(m)', ~Dropped(m, "Receipt"), ~Outdated(m), ~Crash
    PROVE  LeftBehind(m)
<1>1. /\ m \in shown' /\ tick'[m] < receipt'[m] /\ ~Due("load")'
      /\ \A e \in Coming("Receipt", m)' : e.level < receipt'[m]
  BY DEF LeftBehind
<1>2. receipt \in [Msgs -> 0..2] /\ receipt' \in [Msgs -> 0..2] /\ tick \in [Msgs -> 0..2]
  <2>1. HistoryTypeOK'
    BY HistoryTypeNext
  <2>2. QED
    BY <2>1 DEF HistoryTypeOK, StoreTypeOK, Receipts
<1>3. CASE /\ UNCHANGED <<shown, tick>> /\ receipt'[m] <= receipt[m]
           /\ Due("load")' = Due("load")
           /\ \A e \in Coming("Receipt", m) : e.level < receipt[m]
  BY <1>1, <1>2, <1>3 DEF LeftBehind
<1>4. CASE /\ UNCHANGED <<shown, tick, uiTodo>> /\ receipt'[m] = receipt[m]
           /\ Coming("Receipt", m)' = Coming("Receipt", m)
  BY <1>1, <1>2, <1>3, <1>4 DEF Due
<1>5. CASE UNCHANGED <<storeVars, pageVars, handlerPC, handled, eventsCh, signals, uiTodo>>
  BY <1>4, <1>5 DEF storeVars, pageVars, Coming
<1>6. CASE handlerPC = "idle" /\ handlerPC' = "store"
           /\ UNCHANGED <<storeVars, pageVars, eventsCh, signals, uiTodo>>
  BY <1>4, <1>6 DEF storeVars, pageVars, Coming
<1>7. CASE HandlerStores
  <2>1. /\ handlerPC = "store" /\ handlerPC' = "enqueue"
        /\ UNCHANGED <<handled, eventsCh, signals, shown, tick, uiTodo>>
    BY <1>7 DEF HandlerStores, pageVars, uiVars
  <2>2. /\ handled.id \in Msgs /\ handled.level \in 0..2 /\ StoreTypeOK
        /\ (handled.id \in FromMe) \in BOOLEAN
    BY <1>7 DEF HandlerStores, HistoryTypeOK, Events, Receipts
  <2>3. Coming("Receipt", m) \subseteq Coming("Receipt", m)'
    BY <2>1 DEF Coming
  <2>4. CASE Save(handled.id, 0, handled.id \in FromMe)
    <3>1. receipt' = [receipt EXCEPT ![handled.id] = IF handled.id \in messages THEN @ ELSE 0]
      BY <2>2, <2>4, SaveEffect
    <3>2. receipt'[m] = receipt[m]
      BY <1>1, <1>2, <2>1, <2>2, <3>1
    <3>3. \A e \in Coming("Receipt", m) : e.level < receipt[m]
      BY <1>1, <2>3, <3>2
    <3>4. QED
      BY <1>2, <1>3, <2>1, <3>2, <3>3 DEF Due
  <2>5. CASE handled.kind = "Receipt" /\ UpdateReceipt(handled.id, handled.level)
    <3>1. \/ receipt' = receipt
          \/ receipt' = [receipt EXCEPT ![handled.id] = handled.level]
      BY <2>2, <2>5, UpdateEffect DEF Receipts
    <3>2. ASSUME handled.id = m PROVE handled.level < receipt'[m]
      BY <1>1, <2>1, <2>5, <3>2 DEF Coming
    <3>3. receipt'[m] = receipt[m]
      BY <1>2, <2>2, <3>1, <3>2
    <3>4. \A e \in Coming("Receipt", m) : e.level < receipt[m]
      BY <1>1, <2>3, <3>3
    <3>5. QED
      BY <1>2, <1>3, <2>1, <3>3, <3>4 DEF Due
  <2>6. CASE UNCHANGED storeVars
    <3>1. \A e \in Coming("Receipt", m) : e.level < receipt[m]
      BY <1>1, <2>3, <2>6 DEF storeVars
    <3>2. QED
      BY <1>2, <1>3, <2>1, <2>6, <3>1 DEF Due, storeVars
  <2>7. QED
    BY <1>7, <2>4, <2>5, <2>6 DEF HandlerStores
<1>8. CASE HandlerEnqueues
  BY <1>4, <1>8, HandlerComing DEF HandlerEnqueues, storeVars, pageVars, uiVars
<1>9. CASE EventLoop
  <2>1. UNCHANGED <<storeVars, shown, tick, uiTodo>>
    BY <1>9 DEF EventLoop, pageVars, uiVars
  <2>2. ASSUME NEW e \in Coming("Receipt", m) PROVE e.level < receipt[m]
    <3>1. CASE Announced(e)
      BY <1>1, <1>9, <2>1, <2>2, <3>1, LoopComing DEF storeVars
    <3>2. CASE ~Announced(e)
      <4>1. e \in Events
        BY <2>2 DEF Coming, Range, HistoryTypeOK
      <4>2. e.level = 0
        BY <2>2, <3>2, <4>1 DEF Coming, Announced, Events, Receipts
      <4>3. receipt[m] > 0
        BY <1>1, <1>2, <2>1 DEF storeVars
      <4>4. QED
        BY <4>2, <4>3
    <3>3. QED
      BY <3>1, <3>2
  <2>3. QED
    BY <1>2, <1>3, <2>1, <2>2 DEF Due, storeVars
<1>10. ASSUME NEW n \in Own, SendSaves(n) PROVE LeftBehind(m)
  <2>1. UNCHANGED <<handlerPC, handled, eventsCh, signals, shown, tick, uiTodo>>
    BY <1>10 DEF SendSaves, daemonVars, pageVars, uiVars
  <2>2. n \in Msgs
    BY OwnAssumption, FromMeAssumption
  <2>3. receipt'[m] = receipt[m]
    <3>1. CASE Save(n, 0, TRUE)
      <4>1. receipt' = [receipt EXCEPT ![n] = IF n \in messages THEN @ ELSE 0]
        BY <2>2, <3>1, SaveEffect DEF HistoryTypeOK
      <4>2. QED
        BY <1>1, <1>2, <2>1, <4>1
    <3>2. CASE UNCHANGED storeVars
      BY <3>2 DEF storeVars
    <3>3. QED
      BY <1>10, <3>1, <3>2 DEF SendSaves
  <2>4. QED
    BY <1>4, <2>1, <2>3 DEF Coming
<1>11. ASSUME NEW n \in Own, SendAnswered(n) PROVE LeftBehind(m)
  <2>1. UNCHANGED <<storeVars, pageVars, handlerPC, handled, eventsCh, signals>>
    BY <1>11 DEF SendAnswered, daemonVars
  <2>2. uiTodo' # <<"mark", "load">>
    BY <1>1, RangeOfLists DEF Due
  <2>3. uiTodo' = uiTodo
    <3>1. CASE uiSend = n
      <4>1. uiSend # NoMsg
        BY <3>1, OwnAssumption, FromMeAssumption, SentinelAssumption
      <4>2. uiTodo = <<>>
        BY <4>1 DEF SendWaitsAlone
      <4>3. QED
        BY <1>11, <2>2, <3>1, <4>2 DEF SendAnswered
    <3>2. QED
      BY <1>11, <3>1 DEF SendAnswered
  <2>4. QED
    BY <1>5, <2>1, <2>3
<1>12. ~CloseChat /\ ~ShowPage /\ \A c \in Chats : ~OpenChat(c)
  BY <1>1 DEF CloseChat, ShowPage, OpenChat
<1>13. CASE TrayRefresh
  <2>1. UNCHANGED <<storeVars, pageVars, handlerPC, handled, eventsCh, signals>> /\ ~Due("load")
    BY <1>13, RangeOfLists DEF TrayRefresh, UIFree, daemonVars, Due
  <2>2. Coming("Receipt", m)' = Coming("Receipt", m)
    BY <2>1 DEF Coming
  <2>3. QED
    BY <1>1, <2>1, <2>2 DEF LeftBehind, storeVars, pageVars
<1>14. CASE UITask
  BY <1>14, TaskLeavesBehind
<1>15. CASE UISignal
  BY <1>15, SignalLeavesBehind
<1>16. QED
  BY <1>5, <1>6, <1>7, <1>8, <1>9, <1>10, <1>11, <1>12, <1>13, <1>14, <1>15
     DEF HistoryNext, HandlerStep, MessageArrives, ReceiptArrives, ServerAccepts, SendReturns,
         UserSends, SendTimesOut, historyVars, daemonVars, uiVars

(* The safety part of ReadIsShown, in any world: while a tick is lower than  *)
(* its row, a reload or a signal that will raise it is on its way, unless it *)
(* was dropped, the daemon died, or an older signal came after a reload.     *)
THEOREM BehindCorrect == HistorySpec => BehindOnlyIfLost
<1>1. HistoryTypeOK /\ SendWaitsAlone /\ [HistoryNext]_historyVars
        => [\A m \in Msgs :
                LeftBehind(m)' => LeftBehind(m) \/ Dropped(m, "Receipt") \/ Outdated(m) \/ Crash
           ]_historyVars
  BY LeftBehindNext
<1>2. HistoryInit => SendWaitsAlone
  BY DEF HistoryInit, SendWaitsAlone
<1>3. QED
  BY <1>1, <1>2, WaitsNext, HistoryTypeCorrect, PTL DEF HistorySpec, BehindOnlyIfLost

=============================================================================

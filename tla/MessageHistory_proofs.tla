------------------------ MODULE MessageHistory_proofs ------------------------
(***************************************************************************)
(* Theorems about MessageHistory, for any messages, chats, capacities and  *)
(* anything that may happen in the world.                                  *)
(***************************************************************************)
EXTENDS MessageHistory, TLAPS

(* Larger is the maximum of two receipts. *)
LEMMA LargerIsMax ==
    ASSUME NEW a \in Receipts, NEW b \in Receipts
    PROVE  /\ Larger(a, b) \in Receipts
           /\ Larger(a, b) >= a /\ Larger(a, b) >= b
           /\ Larger(a, b) = a \/ Larger(a, b) = b
BY DEF Larger, Receipts

-----------------------------------------------------------------------------
(* The statements of the store.                                              *)

(* A statement keeps the types, loses no row, lowers no receipt and takes no *)
(* read mark back.                                                           *)
StoreGrows == StoreTypeOK' /\ NoRowShrinks

LEMMA SaveGrows ==
    ASSUME StoreTypeOK, NEW m \in Msgs, NEW r \in Receipts, NEW b \in BOOLEAN, Save(m, r, b)
    PROVE  StoreGrows
<1>1. \A n \in Msgs : Larger(r, receipt[n]) \in Receipts /\ Larger(r, receipt[n]) >= receipt[n]
  BY LargerIsMax DEF StoreTypeOK
<1>2. messages' = messages \cup {m} /\ isRead' \in [Msgs -> BOOLEAN]
  BY DEF Save, StoreTypeOK
<1>3. receipt' \in [Msgs -> Receipts]
  BY <1>1 DEF Save, StoreTypeOK
<1>4. \A n \in messages : receipt'[n] >= receipt[n]
  BY <1>1 DEF Save, StoreTypeOK, Receipts
<1>5. \A n \in messages : isRead[n] => isRead'[n]
  BY DEF Save, StoreTypeOK
<1>6. QED BY <1>2, <1>3, <1>4, <1>5 DEF StoreGrows, NoRowShrinks, StoreTypeOK

LEMMA UpdateGrows ==
    ASSUME StoreTypeOK, NEW m \in Msgs, NEW level \in Receipts, UpdateReceipt(m, level)
    PROVE  StoreGrows
<1>1. \A n \in Msgs : Larger(receipt[n], level) \in Receipts /\ Larger(receipt[n], level) >= receipt[n]
  BY LargerIsMax DEF StoreTypeOK
<1>2. receipt' \in [Msgs -> Receipts]
  BY <1>1 DEF UpdateReceipt, StoreTypeOK
<1>3. \A n \in messages : receipt'[n] >= receipt[n]
  BY <1>1 DEF UpdateReceipt, StoreTypeOK, Receipts
<1>4. QED BY <1>2, <1>3 DEF UpdateReceipt, StoreGrows, NoRowShrinks, StoreTypeOK

LEMMA MarkGrows ==
    ASSUME StoreTypeOK, NEW c, MarkJIDAsRead(c)
    PROVE  StoreGrows
BY DEF MarkJIDAsRead, StoreGrows, NoRowShrinks, StoreTypeOK, Receipts

LEMMA IdleGrows ==
    ASSUME StoreTypeOK, UNCHANGED storeVars
    PROVE  StoreGrows
BY DEF storeVars, StoreGrows, NoRowShrinks, StoreTypeOK, Receipts

-----------------------------------------------------------------------------
(* Types.                                                                    *)

LEMMA HistoryTypeInit == HistoryInit => HistoryTypeOK
<1> SUFFICES ASSUME HistoryInit PROVE HistoryTypeOK
  OBVIOUS
<1>1. StoreTypeOK
  BY DEF HistoryInit, StoreInit, StoreTypeOK, Receipts
<1>2. eventsCh \in Seq(Events) /\ Len(eventsCh) <= EventsCap
  BY HistoryCapAssumption DEF HistoryInit
<1>3. signals \in Seq(Events) /\ Len(signals) <= BusCap
  BY HistoryCapAssumption DEF HistoryInit
<1>4. tick \in [Msgs -> Receipts] /\ heard \in [Msgs -> Receipts]
  BY DEF HistoryInit, Receipts
<1>5. uiTodo \in Seq(Tasks)
  BY DEF HistoryInit
<1>6. QED
  BY <1>1, <1>2, <1>3, <1>4, <1>5 DEF HistoryInit, HistoryTypeOK, SendPCs

(* Where the store changes, it grows; that is all that is said of it below.  *)
LEMMA StoreNext == HistoryTypeOK /\ [HistoryNext]_historyVars => StoreGrows
<1> SUFFICES ASSUME HistoryTypeOK, [HistoryNext]_historyVars PROVE StoreGrows
  OBVIOUS
<1>1. StoreTypeOK
  BY DEF HistoryTypeOK
<1>2. CASE UNCHANGED storeVars
  BY <1>1, <1>2, IdleGrows
<1>3. CASE HandlerStores
  <2>1. handled \in Events
    BY <1>3 DEF HandlerStores, HistoryTypeOK
  <2>2. handled.id \in Msgs /\ handled.level \in Receipts
    BY <2>1 DEF Events
  <2>3. 0 \in Receipts /\ (handled.id \in FromMe) \in BOOLEAN
    BY DEF Receipts
  <2>4. CASE Save(handled.id, 0, handled.id \in FromMe)
    BY <1>1, <2>2, <2>3, <2>4, SaveGrows
  <2>5. CASE UpdateReceipt(handled.id, handled.level)
    BY <1>1, <2>2, <2>5, UpdateGrows
  <2>6. QED
    BY <1>2, <1>3, <2>4, <2>5 DEF HandlerStores
<1>4. ASSUME NEW m \in Own, SendSaves(m) PROVE StoreGrows
  <2>1. m \in Msgs /\ 0 \in Receipts
    BY OwnAssumption, FromMeAssumption DEF Receipts
  <2>2. CASE Save(m, 0, TRUE)
    BY <1>1, <2>1, <2>2, SaveGrows
  <2>3. QED
    BY <1>2, <1>4, <2>2 DEF SendSaves
<1>5. CASE UITask
  BY <1>1, <1>2, <1>5, MarkGrows DEF UITask, UIMarks, UILoads, UICounts
<1>6. QED
  BY <1>2, <1>3, <1>4, <1>5
     DEF HistoryNext, HandlerStep, MessageArrives, ReceiptArrives, HandlerEnqueues, EventLoop,
         ServerAccepts, SendReturns, SendAnswered, Crash, OpenChat, CloseChat, ShowPage,
         TrayRefresh, UserSends, SendTimesOut, UISignal, historyVars

(* What taking the first element of a queue leaves. *)
LEMMA HeadAndTail ==
    ASSUME NEW S, NEW q \in Seq(S), q # <<>>
    PROVE  Head(q) \in S /\ Tail(q) \in Seq(S) /\ Len(q) \in Nat /\ Len(Tail(q)) = Len(q) - 1
OBVIOUS

(* What adding one at the end makes of it. *)
LEMMA OneMore ==
    ASSUME NEW S, NEW q \in Seq(S), NEW x \in S
    PROVE  Append(q, x) \in Seq(S) /\ Len(q) \in Nat /\ Len(Append(q, x)) = Len(q) + 1
OBVIOUS

(* A step of the path itself: everything but the store and the tray. *)
LEMMA HistoryTypeNext == HistoryTypeOK /\ [HistoryNext]_historyVars => HistoryTypeOK'
<1> SUFFICES ASSUME HistoryTypeOK, [HistoryNext]_historyVars PROVE HistoryTypeOK'
  OBVIOUS
<1>1. StoreTypeOK'
  BY StoreNext DEF StoreGrows
<1>2. CASE UNCHANGED historyVars
  BY <1>1, <1>2 DEF HistoryTypeOK, historyVars, daemonVars, serverVars, pageVars, uiVars
<1>3. ASSUME NEW m \in Msgs \ Own, MessageArrives(m) PROVE HistoryTypeOK'
  BY <1>1, <1>3 DEF HistoryTypeOK, MessageArrives, Message, Events, Receipts, pageVars, uiVars
<1>4. ASSUME NEW m \in Msgs, NEW type \in ReceiptTypes, ReceiptArrives(m, type)
      PROVE  HistoryTypeOK'
  <2>1. mapReceiptType(type) \in Receipts
    BY DEF mapReceiptType, Receipts
  <2>2. heard' \in [Msgs -> Receipts]
    BY <1>4, <2>1, LargerIsMax DEF HistoryTypeOK, ReceiptArrives
  <2>3. handled' \in Events
    BY <1>4, <2>1 DEF ReceiptArrives, Receipt, Events
  <2>4. QED
    BY <1>1, <1>4, <2>2, <2>3 DEF HistoryTypeOK, ReceiptArrives, pageVars, uiVars
<1>5. CASE HandlerStores
  BY <1>1, <1>5 DEF HistoryTypeOK, HandlerStores, serverVars, pageVars, uiVars
<1>6. CASE HandlerEnqueues
  <2>1. handled \in Events
    BY <1>6 DEF HistoryTypeOK, HandlerEnqueues
  <2>2. eventsCh' \in Seq(Events) /\ Len(eventsCh') <= EventsCap
    BY <1>6, <2>1, OneMore, HistoryCapAssumption DEF HistoryTypeOK, HandlerEnqueues
  <2>3. QED
    BY <1>1, <1>6, <2>2 DEF HistoryTypeOK, HandlerEnqueues, serverVars, pageVars, uiVars
<1>7. CASE EventLoop
  <2>1. Head(eventsCh) \in Events /\ Tail(eventsCh) \in Seq(Events)
        /\ Len(Tail(eventsCh)) <= EventsCap
    BY <1>7, HeadAndTail, HistoryCapAssumption DEF HistoryTypeOK, EventLoop
  <2>2. signals' \in Seq(Events) /\ Len(signals') <= BusCap
    BY <1>7, <2>1, OneMore, HistoryCapAssumption DEF HistoryTypeOK, EventLoop
  <2>3. QED
    BY <1>1, <1>7, <2>1, <2>2 DEF HistoryTypeOK, EventLoop, serverVars, pageVars, uiVars
<1>8. ASSUME NEW m \in Own, ServerAccepts(m) \/ SendReturns(m) \/ SendSaves(m)
      PROVE  HistoryTypeOK'
  BY <1>1, <1>8
     DEF HistoryTypeOK, ServerAccepts, SendReturns, SendSaves, SendPCs, daemonVars, serverVars,
         pageVars, uiVars
<1>9. ASSUME NEW m \in Own, SendAnswered(m) PROVE HistoryTypeOK'
  <2>1. <<"mark", "load">> \in Seq(Tasks) /\ << >> \in Seq(Tasks)
    BY DEF Tasks
  <2>2. QED
    BY <1>1, <1>9, <2>1
       DEF HistoryTypeOK, SendAnswered, SendPCs, daemonVars, serverVars, pageVars
<1>10. CASE Crash
  <2>1. sendPC' \in [Own -> SendPCs]
    BY <1>10 DEF HistoryTypeOK, Crash, SendPCs
  <2>2. uiSend' = NoMsg /\ inline' = FALSE
    BY <1>10 DEF HistoryTypeOK, Crash
  <2>3. eventsCh' \in Seq(Events) /\ Len(eventsCh') <= EventsCap
    BY <1>10, HistoryCapAssumption DEF Crash
  <2>4. QED
    BY <1>1, <1>10, <2>1, <2>2, <2>3 DEF HistoryTypeOK, Crash, serverVars, pageVars
<1>11. ASSUME NEW c \in Chats, OpenChat(c) PROVE HistoryTypeOK'
  <2>1. <<"mark", "load">> \in Seq(Tasks)
    BY DEF Tasks
  <2>2. QED
    BY <1>1, <1>11, <2>1 DEF HistoryTypeOK, OpenChat, Receipts, daemonVars, serverVars
<1>12. CASE CloseChat
  BY <1>1, <1>12 DEF HistoryTypeOK, CloseChat, Receipts, daemonVars, serverVars, uiVars
<1>13. CASE ShowPage \/ TrayRefresh
  <2>1. <<"tray">> \in Seq(Tasks)
    BY DEF Tasks
  <2>2. CASE ShowPage
    BY <1>1, <2>1, <2>2 DEF HistoryTypeOK, ShowPage, Receipts, daemonVars, serverVars
  <2>3. CASE TrayRefresh
    BY <1>1, <2>1, <2>3 DEF HistoryTypeOK, TrayRefresh, daemonVars, serverVars, pageVars
  <2>4. QED
    BY <1>13, <2>2, <2>3
<1>14. ASSUME NEW m \in Own, NEW reply \in BOOLEAN, UserSends(m, reply) PROVE HistoryTypeOK'
  BY <1>1, <1>14 DEF HistoryTypeOK, UserSends, SendPCs, daemonVars, serverVars, pageVars
<1>15. CASE SendTimesOut
  BY <1>1, <1>15 DEF HistoryTypeOK, SendTimesOut, daemonVars, serverVars, pageVars
<1>16. CASE UITask
  <2>1. Tail(uiTodo) \in Seq(Tasks)
    BY <1>16, HeadAndTail DEF HistoryTypeOK, UITask
  <2>2. shown' \subseteq Msgs /\ tick' \in [Msgs -> Receipts]
    BY <1>16 DEF HistoryTypeOK, StoreTypeOK, UITask, UIMarks, UILoads, UICounts, InChat,
                  Receipts, pageVars
  <2>3. open' = open
    BY <1>16 DEF UITask, UIMarks, UILoads, UICounts, pageVars
  <2>4. QED
    BY <1>1, <1>16, <2>1, <2>2, <2>3 DEF HistoryTypeOK, UITask, daemonVars, serverVars
<1>17. CASE UISignal
  <2>1. Head(signals) \in Events /\ Tail(signals) \in Seq(Events) /\ Len(Tail(signals)) <= BusCap
    BY <1>17, HeadAndTail, HistoryCapAssumption DEF HistoryTypeOK, UISignal
  <2>2. <<"tray", "mark", "load">> \in Seq(Tasks) /\ <<"tray">> \in Seq(Tasks)
    BY DEF Tasks
  <2>3. uiTodo' \in Seq(Tasks) /\ tick' \in [Msgs -> Receipts]
    BY <1>17, <2>1, <2>2 DEF HistoryTypeOK, UISignal, Events
  <2>4. QED
    BY <1>1, <1>17, <2>1, <2>3 DEF HistoryTypeOK, UISignal, serverVars
<1>18. QED
  BY <1>2, <1>3, <1>4, <1>5, <1>6, <1>7, <1>8, <1>9, <1>10, <1>11, <1>12, <1>13, <1>14, <1>15,
     <1>16, <1>17
     DEF HistoryNext, HandlerStep

(* The table, the channel, the bus, the calls and the page hold what the     *)
(* code can put there: no row of a foreign id, no event beyond the channel's *)
(* capacity, no handler without an event in its hand.                        *)
THEOREM HistoryTypeCorrect == HistorySpec => []HistoryTypeOK
BY HistoryTypeInit, HistoryTypeNext, PTL DEF HistorySpec

-----------------------------------------------------------------------------

(* messages.go, Save, UpdateReceipt and MarkJIDAsRead, whoever calls them:   *)
(* no row is ever lost, no receipt lowered, no read mark taken back, for any *)
(* messages and in any world of crashes, redeliveries and failing statements.*)
THEOREM RowsGrow == HistorySpec => RowsOnlyGrow
<1>1. HistoryTypeOK /\ [HistoryNext]_historyVars => [NoRowShrinks]_historyVars
  BY StoreNext DEF StoreGrows
<1>2. QED
  BY <1>1, HistoryTypeCorrect, PTL DEF HistorySpec, RowsOnlyGrow

-----------------------------------------------------------------------------
(* Receipts.                                                                 *)

(* The events that carry a level the server has reported by now *)
EarnedEvents == {e \in Events : e.level <= heard[e.id]}

(* ReceiptsEarned alone is not inductive: a level on its way to a row or to  *)
(* the page, in the handler, in the channel or on the bus, was reported too. *)
EarnedInv ==
    /\ ReceiptsEarned
    /\ handlerPC # "idle" => handled \in EarnedEvents
    /\ eventsCh \in Seq(EarnedEvents)
    /\ signals \in Seq(EarnedEvents)

(* A queue of elements of S is one of elements of a larger set. *)
LEMMA SeqMonotone ==
    ASSUME NEW S, NEW T, S \subseteq T, NEW q \in Seq(S)
    PROVE  q \in Seq(T)
OBVIOUS

LEMMA EarnedInit == HistoryInit => EarnedInv
BY DEF HistoryInit, StoreInit, EarnedInv, ReceiptsEarned

(* What was earned stays so while the levels heard only rise. *)
LEMMA EarnedMonotone ==
    ASSUME HistoryTypeOK, HistoryTypeOK', EarnedInv,
           \A m \in Msgs : heard'[m] >= heard[m]
    PROVE  /\ EarnedEvents \subseteq EarnedEvents'
           /\ \A m \in Msgs : receipt[m] <= heard'[m] /\ tick[m] <= heard'[m]
<1>1. heard \in [Msgs -> 0..2] /\ heard' \in [Msgs -> 0..2]
  BY DEF HistoryTypeOK, Receipts
<1>2. receipt \in [Msgs -> 0..2] /\ tick \in [Msgs -> 0..2]
  BY DEF HistoryTypeOK, StoreTypeOK, Receipts
<1>3. \A m \in Msgs : receipt[m] <= heard'[m] /\ tick[m] <= heard'[m]
  BY <1>1, <1>2 DEF EarnedInv, ReceiptsEarned
<1>4. ASSUME NEW e \in EarnedEvents PROVE e \in EarnedEvents'
  <2>1. e \in Events /\ e.id \in Msgs /\ e.level \in 0..2 /\ e.level <= heard[e.id]
    BY <1>4 DEF EarnedEvents, Events, Receipts
  <2>2. e.level <= heard'[e.id]
    BY <1>1, <2>1
  <2>3. QED
    BY <2>1, <2>2 DEF EarnedEvents, Events
<1>5. QED
  BY <1>3, <1>4

LEMMA EarnedNext == HistoryTypeOK /\ EarnedInv /\ [HistoryNext]_historyVars => EarnedInv'
<1> SUFFICES ASSUME HistoryTypeOK, EarnedInv, [HistoryNext]_historyVars PROVE EarnedInv'
  OBVIOUS
<1>1. HistoryTypeOK'
  BY HistoryTypeNext
<1>2. heard \in [Msgs -> 0..2] /\ receipt \in [Msgs -> 0..2] /\ tick \in [Msgs -> 0..2]
  BY DEF HistoryTypeOK, StoreTypeOK, Receipts
<1>3. ASSUME heard' = heard PROVE EarnedEvents' = EarnedEvents
  BY <1>3 DEF EarnedEvents, Events
<1>4. CASE UNCHANGED <<receipt, tick, heard, handlerPC, handled, eventsCh, signals>>
  BY <1>3, <1>4 DEF EarnedInv, ReceiptsEarned
<1>5. ASSUME NEW m \in Msgs \ Own, MessageArrives(m) PROVE EarnedInv'
  <2>1. handled' \in EarnedEvents'
    BY <1>2, <1>3, <1>5 DEF MessageArrives, Message, EarnedEvents, Events, Receipts
  <2>2. QED
    BY <1>3, <1>5, <2>1 DEF MessageArrives, EarnedInv, ReceiptsEarned, storeVars, pageVars
<1>6. ASSUME NEW m \in Msgs, NEW type \in ReceiptTypes, ReceiptArrives(m, type)
      PROVE  EarnedInv'
  <2>1. mapReceiptType(type) \in Receipts
    BY DEF mapReceiptType, Receipts
  <2>2. /\ heard' = [heard EXCEPT ![m] = Larger(heard[m], mapReceiptType(type))]
        /\ handled' = Receipt(m, mapReceiptType(type))
        /\ UNCHANGED <<receipt, tick, eventsCh, signals>>
    BY <1>6 DEF ReceiptArrives, storeVars, pageVars
  <2>3. \A n \in Msgs : heard'[n] >= heard[n]
    BY <1>2, <2>1, <2>2, LargerIsMax DEF Receipts
  <2>4. /\ EarnedEvents \subseteq EarnedEvents'
        /\ \A n \in Msgs : receipt[n] <= heard'[n] /\ tick[n] <= heard'[n]
    BY <1>1, <2>3, EarnedMonotone
  <2>5. handled' \in EarnedEvents'
    <3>1. heard'[m] >= mapReceiptType(type)
      BY <1>2, <2>1, <2>2, LargerIsMax DEF Receipts
    <3>2. QED
      BY <2>1, <2>2, <3>1 DEF Receipt, EarnedEvents, Events
  <2>6. eventsCh' \in Seq(EarnedEvents') /\ signals' \in Seq(EarnedEvents')
    BY <2>2, <2>4, SeqMonotone DEF EarnedInv
  <2>7. QED
    BY <2>2, <2>4, <2>5, <2>6 DEF EarnedInv, ReceiptsEarned
<1>7. CASE HandlerStores
  <2>1. handled \in Events /\ handled.id \in Msgs /\ handled.level \in 0..2
        /\ handled.level <= heard[handled.id] /\ handled' \in EarnedEvents
    BY <1>7 DEF HandlerStores, EarnedInv, EarnedEvents, Events, Receipts
  <2>2. UNCHANGED <<tick, heard, eventsCh, signals>>
    BY <1>7 DEF HandlerStores, serverVars, pageVars
  <2>3. \A n \in Msgs : receipt'[n] <= heard[n]
    <3>1. CASE Save(handled.id, 0, handled.id \in FromMe)
      BY <1>2, <2>1, <3>1 DEF Save, Larger, EarnedInv, ReceiptsEarned
    <3>2. CASE UpdateReceipt(handled.id, handled.level)
      BY <1>2, <2>1, <3>2 DEF UpdateReceipt, Larger, EarnedInv, ReceiptsEarned
    <3>3. CASE UNCHANGED storeVars
      BY <3>3 DEF storeVars, EarnedInv, ReceiptsEarned
    <3>4. QED
      BY <1>7, <3>1, <3>2, <3>3 DEF HandlerStores
  <2>4. QED
    BY <1>3, <2>1, <2>2, <2>3 DEF EarnedInv, ReceiptsEarned
<1>8. CASE HandlerEnqueues
  <2>1. handled \in EarnedEvents
    BY <1>8 DEF HandlerEnqueues, EarnedInv
  <2>2. eventsCh' \in Seq(EarnedEvents)
    BY <1>8, <2>1, OneMore DEF HandlerEnqueues, EarnedInv
  <2>3. QED
    BY <1>3, <1>8, <2>2
       DEF HandlerEnqueues, EarnedInv, ReceiptsEarned, storeVars, serverVars, pageVars
<1>9. CASE EventLoop
  <2>1. Head(eventsCh) \in EarnedEvents /\ Tail(eventsCh) \in Seq(EarnedEvents)
    BY <1>9, HeadAndTail DEF EventLoop, EarnedInv
  <2>2. signals' \in Seq(EarnedEvents)
    BY <1>9, <2>1, OneMore DEF EventLoop, EarnedInv
  <2>3. QED
    BY <1>3, <1>9, <2>1, <2>2
       DEF EventLoop, EarnedInv, ReceiptsEarned, storeVars, serverVars, pageVars
<1>10. ASSUME NEW m \in Own, SendSaves(m) PROVE EarnedInv'
  <2>1. UNCHANGED <<tick, heard, handlerPC, handled, eventsCh, signals>>
    BY <1>10 DEF SendSaves, daemonVars, serverVars, pageVars
  <2>2. \A n \in Msgs : receipt'[n] <= heard[n]
    <3>1. CASE Save(m, 0, TRUE)
      BY <1>2, <3>1 DEF Save, Larger, EarnedInv, ReceiptsEarned
    <3>2. QED
      BY <1>10, <3>1 DEF SendSaves, storeVars, EarnedInv, ReceiptsEarned
  <2>3. QED
    BY <1>3, <2>1, <2>2 DEF EarnedInv, ReceiptsEarned
<1>11. CASE Crash
  BY <1>3, <1>11 DEF Crash, EarnedInv, ReceiptsEarned, storeVars, serverVars, pageVars
<1>12. ASSUME NEW c \in Chats, OpenChat(c) PROVE EarnedInv'
  BY <1>2, <1>3, <1>12
     DEF OpenChat, EarnedInv, ReceiptsEarned, storeVars, daemonVars, serverVars
<1>13. CASE CloseChat \/ ShowPage
  BY <1>2, <1>3, <1>13
     DEF CloseChat, ShowPage, EarnedInv, ReceiptsEarned, storeVars, daemonVars, serverVars
<1>14. CASE UITask
  <2>1. UNCHANGED <<heard, handlerPC, handled, eventsCh, signals>>
    BY <1>14 DEF UITask, daemonVars, serverVars
  <2>2. receipt' = receipt
    BY <1>14 DEF UITask, UIMarks, UILoads, UICounts, MarkJIDAsRead, storeVars
  <2>3. \A n \in Msgs : tick'[n] <= heard[n]
    BY <1>2, <1>14
       DEF UITask, UIMarks, UILoads, UICounts, EarnedInv, ReceiptsEarned, pageVars
  <2>4. QED
    BY <1>3, <2>1, <2>2, <2>3 DEF EarnedInv, ReceiptsEarned
<1>15. CASE UISignal
  <2>1. Head(signals) \in EarnedEvents /\ Tail(signals) \in Seq(EarnedEvents)
    BY <1>15, HeadAndTail DEF UISignal, EarnedInv
  <2>2. \A n \in Msgs : tick'[n] <= heard[n]
    BY <1>2, <1>15, <2>1 DEF UISignal, EarnedEvents, Events, EarnedInv, ReceiptsEarned
  <2>3. QED
    BY <1>3, <1>15, <2>1, <2>2
       DEF UISignal, EarnedInv, ReceiptsEarned, storeVars, serverVars
<1>16. QED
  BY <1>4, <1>5, <1>6, <1>7, <1>8, <1>9, <1>10, <1>11, <1>12, <1>13, <1>14, <1>15
     DEF HistoryNext, HandlerStep, ServerAccepts, SendReturns, SendAnswered, TrayRefresh,
         UserSends, SendTimesOut, historyVars, storeVars, daemonVars, serverVars, pageVars

(* No receipt is made up or carried over to another message on its way from  *)
(* the library over UpdateReceipt, the channel and the signals to ChatPage's *)
(* model, however messages and receipts are delayed, dropped or reordered.   *)
THEOREM ReceiptsCorrect == HistorySpec => []ReceiptsEarned
<1>1. HistoryInit => EarnedInv
  BY EarnedInit
<1>2. HistoryTypeOK /\ EarnedInv /\ [HistoryNext]_historyVars => EarnedInv'
  BY EarnedNext
<1>3. EarnedInv => ReceiptsEarned
  BY DEF EarnedInv
<1>4. QED
  BY <1>1, <1>2, <1>3, HistoryTypeCorrect, PTL DEF HistorySpec

-----------------------------------------------------------------------------
(* Rows that are missing.                                                    *)

(* A message gets no row only in the named ways, whatever fails, is sent     *)
(* again, comes out of order, or is done on the page at the same time.       *)
THEOREM UnstoredCorrect == HistorySpec => UnstoredOnlyIfLost
<1>1. HistoryTypeOK /\ [HistoryNext]_historyVars
      => [\A m \in Msgs :
            Unstored(m)' => Unstored(m) \/ SaveFails(m) \/ AnswerLost(m) \/ Crash]_historyVars
  <2> SUFFICES ASSUME HistoryTypeOK, [HistoryNext]_historyVars, NEW m \in Msgs,
                      Unstored(m)', ~Crash, ~SaveFails(m), ~AnswerLost(m)
               PROVE  Unstored(m)
    OBVIOUS
  <2> USE DEF Unstored
  <2>s. m \notin messages /\ m \notin messages'
    BY StoreNext DEF StoreGrows, NoRowShrinks
  <2>t. sendPC \in [Own -> SendPCs] /\ arrived \subseteq Msgs \ Own
    BY DEF HistoryTypeOK
  <2>1. CASE UNCHANGED <<arrived, accepted, sendPC, handlerPC, handled>>
    BY <2>s, <2>1 DEF Storable
  <2>2. ASSUME NEW n \in Msgs \ Own, MessageArrives(n) PROVE Unstored(m)
    BY <2>s, <2>2 DEF MessageArrives, Storable
  <2>3. ASSUME NEW n \in Msgs, NEW type \in ReceiptTypes, ReceiptArrives(n, type) PROVE Unstored(m)
    BY <2>s, <2>3 DEF ReceiptArrives, Storable
  <2>4. CASE HandlerStores
    BY <2>s, <2>4 DEF HandlerStores, SaveFails, Save, Message, Storable, serverVars
  <2>5. CASE HandlerEnqueues
    BY <2>s, <2>5 DEF HandlerEnqueues, Storable, serverVars
  <2>6. ASSUME NEW n \in Own, ServerAccepts(n) \/ SendReturns(n) \/ SendAnswered(n) PROVE Unstored(m)
    BY <2>s, <2>t, <2>6 DEF ServerAccepts, SendReturns, SendAnswered, AnswerLost, Storable, serverVars, daemonVars
  <2>7. ASSUME NEW n \in Own, SendSaves(n) PROVE Unstored(m)
    BY <2>s, <2>t, <2>7 DEF SendSaves, Save, SaveFails, Storable, serverVars, daemonVars
  <2>8. ASSUME NEW n \in Own, NEW reply \in BOOLEAN, UserSends(n, reply) PROVE Unstored(m)
    BY <2>s, <2>t, <2>8 DEF UserSends, Storable, serverVars, daemonVars
  <2>9. QED
    BY <2>1, <2>2, <2>3, <2>4, <2>5, <2>6, <2>7, <2>8
       DEF HistoryNext, HandlerStep, EventLoop, OpenChat, CloseChat, ShowPage, TrayRefresh, SendTimesOut,
           UITask, UISignal, historyVars, serverVars, daemonVars
<1>2. QED BY <1>1, HistoryTypeCorrect, PTL DEF HistorySpec, UnstoredOnlyIfLost

=============================================================================

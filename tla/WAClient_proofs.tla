--------------------------- MODULE WAClient_proofs ---------------------------
(***************************************************************************)
(* Theorems about WAClient, for any number of clients, of the library's    *)
(* goroutines and of retry loops, and any capacity of the event channel.   *)
(***************************************************************************)
EXTENDS WAClient, TLAPS

(* What is true of an event goroutine beyond its types: the step it stands   *)
(* before goes with the event it delivers, and it belongs to a client.       *)
HandlerShape ==
    \A h \in Handlers :
        /\ hPC[h] = "start" => hEvent[h] = "Disconnected"
        /\ hPC[h] = "enqueue" => hEvent[h] \in EventKinds
        /\ hPC[h] # "idle" => hClient[h] \in Clients

-----------------------------------------------------------------------------
(* Types.                                                                    *)

(* The slot frees or names a loop: what CancelSlot does to the types. *)
LEMMA CancelSlotTypes ==
    ASSUME TypeOK, CancelSlot
    PROVE  /\ slot' \in Loops \cup {NoLoop}
           /\ cancelled' \in [Loops -> BOOLEAN]
BY DEF TypeOK, CancelSlot

(* A bounded channel stays a bounded channel of events. *)
LEMMA EnqueueTypes ==
    ASSUME TypeOK, NEW kind \in QueuedKinds, Enqueue(kind)
    PROVE  eventsCh' \in Seq(QueuedKinds) /\ Len(eventsCh') <= EventsCap
BY EventsCapAssumption DEF TypeOK, Enqueue

LEMMA FinishTypes ==
    ASSUME TypeOK, NEW h \in Handlers, Finish(h)
    PROVE  /\ hPC' \in [Handlers -> HandlerPCs]
           /\ hEvent' \in [Handlers -> Deliveries]
           /\ hClient' \in [Handlers -> Clients \cup {NoClient}]
BY DEF TypeOK, LibTypeOK, Finish, HandlerPCs, Deliveries

LEMMA SpawnTypes ==
    ASSUME TypeOK, NEW h \in Handlers, NEW c \in Clients, NEW ev \in Deliveries, Spawn(h, c, ev)
    PROVE  /\ hPC' \in [Handlers -> HandlerPCs]
           /\ hEvent' \in [Handlers -> Deliveries]
           /\ hClient' \in [Handlers -> Clients \cup {NoClient}]
BY DEF TypeOK, LibTypeOK, Spawn, HandlerPCs, Deliveries

LEMMA ClientSideTypes ==
    ASSUME TypeOK, NEW c,
           BeginDial(c) \/ CloseSocket(c) \/ DeleteDevice(c) \/ EndDial(c, TRUE) \/ EndDial(c, FALSE)
    PROVE  /\ sock' \in [Clients -> SockStates]
           /\ device' \in [Clients -> DeviceStates]
           /\ expected' \in [Clients -> BOOLEAN]
BY DEF TypeOK, LibTypeOK, BeginDial, CloseSocket, DeleteDevice, EndDial, SockStates, DeviceStates

LEMMA TypeInit == Init => TypeOK /\ HandlerShape
BY MaxClientsAssumption, EventsCapAssumption
   DEF Init, LibInit, TypeOK, LibTypeOK, Clients, SockStates, DeviceStates, HandlerPCs,
       Deliveries, LoopPCs, NoClient, HandlerShape

LEMMA TypeNext == TypeOK /\ HandlerShape /\ [Next]_waVars => TypeOK'
<1> SUFFICES ASSUME TypeOK, HandlerShape, [Next]_waVars PROVE TypeOK'
  OBVIOUS
<1> USE DEF retryVars, libVars, handlerVars
<1>1. CASE LibraryStep
  <2> SUFFICES LibTypeOK'
    BY <1>1 DEF LibraryStep, TypeOK
  <2>1. ASSUME NEW c \in Clients, RemoteClose(c) \/ SilentRejection(c) PROVE LibTypeOK'
    BY <2>1 DEF TypeOK, LibTypeOK, RemoteClose, SilentRejection, SockStates
  <2>2. ASSUME NEW c \in Clients, NEW h \in Handlers, AuthSuccess(c, h) PROVE LibTypeOK'
    BY <2>2, SpawnTypes DEF TypeOK, LibTypeOK, AuthSuccess, SockStates, Deliveries, EventKinds
  <2>3. ASSUME NEW c \in Clients, NEW h \in Handlers, RemoteLogout(c, h) PROVE LibTypeOK'
    BY <2>3, SpawnTypes DEF TypeOK, LibTypeOK, RemoteLogout, DeviceStates, Deliveries, EventKinds
  <2>4. ASSUME NEW c \in Clients, NEW h \in Handlers, RestartRequired(c, h) PROVE LibTypeOK'
    BY <2>4, SpawnTypes DEF TypeOK, LibTypeOK, RestartRequired, Deliveries
  <2>5. ASSUME NEW c \in Clients, NEW h \in Handlers, OnDisconnect(c, h) PROVE LibTypeOK'
    BY <2>5, SpawnTypes DEF TypeOK, LibTypeOK, OnDisconnect, SockStates, Deliveries, EventKinds
  <2>6. ASSUME NEW h \in Handlers, RestartDisconnect(h) PROVE LibTypeOK'
    BY <2>6, ClientSideTypes DEF TypeOK, LibTypeOK, RestartDisconnect, HandlerPCs
  <2>7. ASSUME NEW h \in Handlers, RestartConnect(h) PROVE LibTypeOK'
    BY <2>7, ClientSideTypes, FinishTypes DEF TypeOK, LibTypeOK, RestartConnect, HandlerPCs
  <2>8. ASSUME NEW h \in Handlers, NEW ok \in BOOLEAN, RestartDialed(h, ok) PROVE LibTypeOK'
    BY <2>8, ClientSideTypes, FinishTypes DEF TypeOK, LibTypeOK, RestartDialed
  <2>9. QED
    BY <1>1, <2>1, <2>2, <2>3, <2>4, <2>5, <2>6, <2>7, <2>8 DEF LibraryStep, Network, Library
<1>2. CASE PairStep
  BY <1>2 DEF PairStep, Pair, TypeOK, LibTypeOK, SockStates, DeviceStates
<1>3. ASSUME NEW h \in Handlers, HandlerStop(h) PROVE TypeOK'
  BY <1>3, CancelSlotTypes DEF HandlerStop, StopReconnect, TypeOK, LibTypeOK, HandlerPCs
<1>4. ASSUME NEW h \in Handlers, HandlerHasSession(h) PROVE TypeOK'
  BY <1>4 DEF HandlerHasSession, TypeOK, LibTypeOK, HandlerPCs
<1>5. ASSUME NEW h \in Handlers, HandlerStart(h) PROVE TypeOK'
  BY <1>5 DEF HandlerStart, StartReconnectLoop, TypeOK, LibTypeOK, HandlerPCs, LoopPCs
<1>6. ASSUME NEW h \in Handlers, HandlerEnqueue(h) PROVE TypeOK'
  <2>1. hEvent[h] \in QueuedKinds
    BY <1>6 DEF HandlerEnqueue, HandlerShape, QueuedKinds
  <2>2. QED
    BY <1>6, <2>1, EnqueueTypes, FinishTypes DEF HandlerEnqueue, TypeOK, LibTypeOK
<1>7. ASSUME NEW c \in Clients, OtherEvent(c) PROVE TypeOK'
  BY <1>7, EnqueueTypes DEF OtherEvent, TypeOK, LibTypeOK, QueuedKinds
<1>8. ASSUME NEW l \in Loops, LoopStep(l) PROVE TypeOK'
  <2>1. CASE LoopTimer(l) \/ LoopDone(l) \/ LoopCheck(l)
    BY <2>1 DEF LoopTimer, LoopDone, LoopCheck, SetLoop, TypeOK, LibTypeOK, LoopPCs
  <2>2. CASE LoopConnect(l)
    BY <2>2, ClientSideTypes DEF LoopConnect, SetLoop, TypeOK, LibTypeOK, LoopPCs
  <2>3. ASSUME NEW ok \in BOOLEAN, LoopDialed(l, ok) PROVE TypeOK'
    BY <2>3, ClientSideTypes DEF LoopDialed, SetLoop, TypeOK, LibTypeOK, LoopPCs
  <2>4. CASE LoopExit(l)
    BY <2>4, CancelSlotTypes DEF LoopExit, SetLoop, TypeOK, LibTypeOK, LoopPCs
  <2>5. QED BY <1>8, <2>1, <2>2, <2>3, <2>4 DEF LoopStep
<1>9. CASE Caller
  <2>1. CASE CallStopReconnect
    BY <2>1, CancelSlotTypes DEF CallStopReconnect, StopReconnect, TypeOK, LibTypeOK
  <2>2. CASE CallConnect \/ CallDelete
    BY <2>2, ClientSideTypes DEF CallConnect, CallDelete, TypeOK, LibTypeOK
  <2>3. CASE CallReplaceClient
    BY <2>3, MaxClientsAssumption
       DEF CallReplaceClient, ReplaceClient, TypeOK, LibTypeOK, Clients, DeviceStates
  <2>4. CASE Receive
    BY <2>4, EventsCapAssumption DEF Receive, TypeOK, LibTypeOK
  <2>5. ASSUME NEW c \in Clients, CallDisconnect(c) PROVE TypeOK'
    BY <2>5, ClientSideTypes DEF CallDisconnect, TypeOK, LibTypeOK
  <2>6. ASSUME NEW c \in Clients, NEW ok \in BOOLEAN, CallConnectReturns(c, ok) PROVE TypeOK'
    BY <2>6, ClientSideTypes DEF CallConnectReturns, TypeOK, LibTypeOK
  <2>7. QED BY <1>9, <2>1, <2>2, <2>3, <2>4, <2>5, <2>6 DEF Caller
<1>10. CASE UNCHANGED waVars
  BY <1>10 DEF waVars, TypeOK, LibTypeOK
<1>11. QED
  BY <1>1, <1>2, <1>3, <1>4, <1>5, <1>6, <1>7, <1>8, <1>9, <1>10 DEF Next, Handler

(* Every step but the ones named leaves the event goroutines alone. *)
LEMMA ShapeNext == TypeOK /\ HandlerShape /\ [Next]_waVars => HandlerShape'
<1> SUFFICES ASSUME TypeOK, HandlerShape, [Next]_waVars PROVE HandlerShape'
  OBVIOUS
<1> USE DEF HandlerShape, TypeOK, LibTypeOK, handlerVars
<1>1. CASE UNCHANGED handlerVars
  BY <1>1
<1>2. ASSUME NEW h \in Handlers, NEW c \in Clients, NEW ev, Spawn(h, c, ev) PROVE HandlerShape'
  BY <1>2 DEF Spawn
<1>3. ASSUME NEW h \in Handlers, Finish(h) PROVE HandlerShape'
  BY <1>3 DEF Finish
<1>4. ASSUME NEW h \in Handlers, RestartDisconnect(h) \/ RestartConnect(h) PROVE HandlerShape'
  BY <1>4, <1>3 DEF RestartDisconnect, RestartConnect
<1>5. ASSUME NEW h \in Handlers,
             HandlerStop(h) \/ HandlerHasSession(h) \/ HandlerStart(h) PROVE HandlerShape'
  BY <1>5 DEF HandlerStop, HandlerHasSession, HandlerStart, EventKinds
<1>6. CASE LibraryStep
  <2>1. ASSUME NEW c \in Clients, RemoteClose(c) \/ SilentRejection(c) PROVE HandlerShape'
    BY <2>1 DEF RemoteClose, SilentRejection
  <2>2. ASSUME NEW c \in Clients, NEW h \in Handlers,
               AuthSuccess(c, h) \/ RemoteLogout(c, h) \/ RestartRequired(c, h) \/ OnDisconnect(c, h)
        PROVE  HandlerShape'
    BY <2>2, <1>1, <1>2 DEF AuthSuccess, RemoteLogout, RestartRequired, OnDisconnect
  <2>3. ASSUME NEW h \in Handlers, NEW ok \in BOOLEAN, RestartDialed(h, ok) PROVE HandlerShape'
    BY <2>3, <1>3 DEF RestartDialed
  <2>4. QED BY <1>4, <1>6, <2>1, <2>2, <2>3 DEF LibraryStep, Network, Library
<1>7. ASSUME NEW h \in Handlers, HandlerEnqueue(h) PROVE HandlerShape'
  BY <1>3, <1>7 DEF HandlerEnqueue
<1>8. ASSUME NEW l \in Loops, LoopStep(l) PROVE UNCHANGED handlerVars
  BY <1>8 DEF LoopStep, LoopTimer, LoopDone, LoopCheck, LoopConnect, LoopDialed, LoopExit, libVars
<1>9. CASE Caller
  BY <1>1, <1>9 DEF Caller, CallStopReconnect, CallConnect, CallDelete, CallReplaceClient, Receive,
                    CallDisconnect, CallConnectReturns, libVars
<1>10. CASE PairStep \/ (\E c \in Clients : OtherEvent(c)) \/ UNCHANGED waVars
  BY <1>1, <1>10 DEF PairStep, OtherEvent, libVars, waVars
<1>11. QED BY <1>1, <1>5, <1>6, <1>7, <1>8, <1>9, <1>10 DEF Next, Handler

(* The types of every variable, and the channel's bound: no sequence of calls*)
(* and events makes eventsCh longer than its capacity.                       *)
THEOREM TypeCorrect == Spec => []TypeOK
<1>1. Init => TypeOK /\ HandlerShape
  BY TypeInit
<1>2. TypeOK /\ HandlerShape /\ [Next]_waVars => TypeOK' /\ HandlerShape'
  BY TypeNext, ShapeNext
<1>3. QED BY <1>1, <1>2, PTL DEF Spec

-----------------------------------------------------------------------------
(* The slot.                                                                 *)

LEMMA SlotInit == Init => SlotGuardsLoops
BY NoLoopAssumption DEF Init, SlotGuardsLoops

(* Steps that touch neither the slot nor the loops' lives. *)
LEMMA SlotUntouched == SlotGuardsLoops /\ UNCHANGED retryVars => SlotGuardsLoops'
BY DEF SlotGuardsLoops, retryVars

(* CancelSlot leaves no loop in charge, whatever else the step does to the   *)
(* positions of loops that were alive.                                       *)
LEMMA SlotCancelled ==
    ASSUME TypeOK, SlotGuardsLoops, CancelSlot,
           \A l \in Loops : loopPC[l] = "free" => loopPC'[l] = "free"
    PROVE  SlotGuardsLoops'
BY NoLoopAssumption DEF TypeOK, SlotGuardsLoops, CancelSlot

LEMMA SlotNext == TypeOK /\ SlotGuardsLoops /\ [Next]_waVars => SlotGuardsLoops'
<1> SUFFICES ASSUME TypeOK, SlotGuardsLoops, [Next]_waVars PROVE SlotGuardsLoops'
  OBVIOUS
<1>1. CASE LibraryStep \/ PairStep \/ (\E c \in Clients : OtherEvent(c)) \/ UNCHANGED waVars
  BY <1>1, SlotUntouched DEF LibraryStep, PairStep, OtherEvent, waVars
<1>2. ASSUME NEW h \in Handlers, HandlerStop(h) PROVE SlotGuardsLoops'
  BY <1>2, SlotCancelled DEF HandlerStop, StopReconnect
<1>3. ASSUME NEW h \in Handlers, HandlerStart(h) PROVE SlotGuardsLoops'
  <2>1. CASE slot # NoLoop
    BY <1>3, <2>1, SlotUntouched DEF HandlerStart, StartReconnectLoop
  <2>2. CASE slot = NoLoop
    <3>1. PICK l \in Loops : /\ loopPC' = [loopPC EXCEPT ![l] = "wait"]
                             /\ cancelled' = [cancelled EXCEPT ![l] = FALSE]
                             /\ slot' = l
      BY <1>3, <2>2 DEF HandlerStart, StartReconnectLoop
    <3>2. \A m \in Loops : ~(loopPC[m] # "free" /\ ~cancelled[m])
      BY <2>2, NoLoopAssumption DEF SlotGuardsLoops
    <3>3. QED BY <3>1, <3>2 DEF SlotGuardsLoops, TypeOK
  <2>3. QED BY <2>1, <2>2
<1>4. ASSUME NEW h \in Handlers, HandlerHasSession(h) \/ HandlerEnqueue(h) PROVE SlotGuardsLoops'
  BY <1>4, SlotUntouched DEF HandlerHasSession, HandlerEnqueue
<1>5. ASSUME NEW l \in Loops, LoopExit(l) PROVE SlotGuardsLoops'
  BY <1>5, SlotCancelled DEF LoopExit, SetLoop, TypeOK
<1>6. ASSUME NEW l \in Loops, LoopStep(l), ~LoopExit(l) PROVE SlotGuardsLoops'
  <2>1. UNCHANGED <<slot, cancelled>>
    BY <1>6 DEF LoopStep, LoopTimer, LoopDone, LoopCheck, LoopConnect, LoopDialed
  <2>2. \A m \in Loops : loopPC'[m] = "free" <=> loopPC[m] = "free"
    BY <1>6 DEF LoopStep, LoopTimer, LoopDone, LoopCheck, LoopConnect, LoopDialed, SetLoop, TypeOK
  <2>3. QED BY <2>1, <2>2 DEF SlotGuardsLoops
<1>7. CASE Caller
  <2>1. CASE CallStopReconnect
    BY <2>1, SlotCancelled DEF CallStopReconnect, StopReconnect
  <2>2. CASE ~CallStopReconnect
    BY <1>7, <2>2, SlotUntouched DEF Caller, CallConnect, CallDelete, CallReplaceClient, Receive,
                                     CallDisconnect, CallConnectReturns
  <2>3. QED BY <2>1, <2>2
<1>8. QED BY <1>1, <1>2, <1>3, <1>4, <1>5, <1>6, <1>7 DEF Next, Handler

(* The slot always names the one loop that is alive and not cancelled, so    *)
(* StopReconnect reaches every loop that still wants to redial.              *)
THEOREM SlotCorrect == Spec => []SlotGuardsLoops
<1>1. Init => TypeOK /\ HandlerShape /\ SlotGuardsLoops
  BY TypeInit, SlotInit
<1>2. TypeOK /\ HandlerShape /\ SlotGuardsLoops /\ [Next]_waVars
        => TypeOK' /\ HandlerShape' /\ SlotGuardsLoops'
  BY TypeNext, ShapeNext, SlotNext
<1>3. QED BY <1>1, <1>2, PTL DEF Spec

-----------------------------------------------------------------------------
(* The slot implements RetryPolicy.                                          *)

(* A step that changes neither who is alive nor who is cancelled *)
LEMMA RoleKept ==
    ASSUME UNCHANGED cancelled, \A l \in Loops : loopPC'[l] = "free" <=> loopPC[l] = "free"
    PROVE  RetryRole' = RetryRole
BY DEF RetryRole

(* StopReconnect relieves the loop in charge, if there is one. *)
LEMMA RoleCancelled ==
    ASSUME TypeOK, SlotGuardsLoops, CancelSlot, UNCHANGED loopPC
    PROVE  [Policy!Next]_RetryRole
<1>1. CASE slot = NoLoop
  <2>1. \A l \in Loops : cancelled'[l] = cancelled[l]
    BY <1>1, NoLoopAssumption DEF CancelSlot, TypeOK
  <2>2. RetryRole' = RetryRole
    BY <2>1 DEF RetryRole
  <2>3. QED BY <2>2
<1>2. CASE slot # NoLoop
  <2>1. slot \in Loops /\ RetryRole[slot] = "inCharge"
    BY <1>2 DEF TypeOK, SlotGuardsLoops, RetryRole
  <2>2. RetryRole' = [RetryRole EXCEPT ![slot] = "relieved"]
    BY <2>1 DEF CancelSlot, TypeOK, RetryRole
  <2>3. Policy!Relieve(slot)
    BY <2>1, <2>2 DEF Policy!Relieve
  <2>4. QED BY <2>1, <2>3 DEF Policy!Next
<1>3. QED BY <1>1, <1>2

LEMMA PolicyStep ==
    TypeOK /\ SlotGuardsLoops /\ [Next]_waVars => [Policy!Next]_RetryRole
<1> SUFFICES ASSUME TypeOK, SlotGuardsLoops, [Next]_waVars PROVE [Policy!Next]_RetryRole
  OBVIOUS
<1>1. ASSUME UNCHANGED retryVars PROVE RetryRole' = RetryRole
  BY <1>1, RoleKept DEF retryVars
<1>2. CASE LibraryStep \/ PairStep \/ (\E c \in Clients : OtherEvent(c)) \/ UNCHANGED waVars
  BY <1>1, <1>2 DEF LibraryStep, PairStep, OtherEvent, waVars
<1>3. ASSUME NEW h \in Handlers, HandlerStop(h) PROVE [Policy!Next]_RetryRole
  BY <1>3, RoleCancelled DEF HandlerStop, StopReconnect
<1>4. ASSUME NEW h \in Handlers, HandlerHasSession(h) \/ HandlerEnqueue(h) PROVE RetryRole' = RetryRole
  BY <1>1, <1>4 DEF HandlerHasSession, HandlerEnqueue
<1>5. ASSUME NEW h \in Handlers, HandlerStart(h) PROVE [Policy!Next]_RetryRole
  <2>1. CASE slot # NoLoop
    BY <1>1, <1>5, <2>1 DEF HandlerStart, StartReconnectLoop
  <2>2. CASE slot = NoLoop
    <3>1. PICK l \in Loops : /\ loopPC[l] = "free"
                             /\ loopPC' = [loopPC EXCEPT ![l] = "wait"]
                             /\ cancelled' = [cancelled EXCEPT ![l] = FALSE]
      BY <1>5, <2>2 DEF HandlerStart, StartReconnectLoop
    <3>2. Policy!InCharge = {}
      BY <2>2, NoLoopAssumption DEF Policy!InCharge, SlotGuardsLoops, RetryRole
    <3>3. RetryRole[l] = "absent" /\ RetryRole' = [RetryRole EXCEPT ![l] = "inCharge"]
      BY <3>1 DEF TypeOK, RetryRole
    <3>4. QED BY <3>2, <3>3 DEF Policy!Next, Policy!Appoint
  <2>3. QED BY <2>1, <2>2
<1>6. ASSUME NEW l \in Loops, LoopExit(l) PROVE [Policy!Next]_RetryRole
  <2>1. RetryRole[l] # "absent"
    BY <1>6 DEF LoopExit, RetryRole
  <2>2. ASSUME NEW m \in Loops, m # l
        PROVE  RetryRole'[m] = IF RetryRole[m] = "inCharge" THEN "relieved" ELSE RetryRole[m]
    BY <1>6, <2>2 DEF LoopExit, SetLoop, CancelSlot, TypeOK, SlotGuardsLoops, RetryRole
  <2>3. RetryRole'[l] = "absent"
    BY <1>6 DEF LoopExit, SetLoop, TypeOK, RetryRole
  <2>4. Policy!Leave(l)
    BY <2>1, <2>2, <2>3 DEF Policy!Leave, RetryRole
  <2>5. QED BY <2>4 DEF Policy!Next
<1>7. ASSUME NEW l \in Loops, LoopStep(l), ~LoopExit(l) PROVE RetryRole' = RetryRole
  <2>1. UNCHANGED cancelled
    BY <1>7 DEF LoopStep, LoopTimer, LoopDone, LoopCheck, LoopConnect, LoopDialed
  <2>2. \A m \in Loops : loopPC'[m] = "free" <=> loopPC[m] = "free"
    BY <1>7 DEF LoopStep, LoopTimer, LoopDone, LoopCheck, LoopConnect, LoopDialed, SetLoop, TypeOK
  <2>3. QED BY <2>1, <2>2, RoleKept
<1>8. CASE Caller
  <2>1. CASE CallStopReconnect
    BY <2>1, RoleCancelled DEF CallStopReconnect, StopReconnect
  <2>2. CASE ~CallStopReconnect
    BY <1>1, <1>8, <2>2 DEF Caller, CallConnect, CallDelete, CallReplaceClient, Receive,
                            CallDisconnect, CallConnectReturns
  <2>3. QED BY <2>1, <2>2
<1>9. QED BY <1>2, <1>3, <1>4, <1>5, <1>6, <1>7, <1>8 DEF Next, Handler

(* The mutex, the contexts and the slot implement the retry policy: one loop *)
(* in charge at most, and a relieved loop never in charge again.             *)
THEOREM RetryRefinement == Spec => ImplementsRetryPolicy
<1>1. Init => Policy!Init
  BY DEF Init, Policy!Init, RetryRole
<1>2. TypeOK /\ SlotGuardsLoops /\ [Next]_waVars => [Policy!Next]_RetryRole
  BY PolicyStep
<1>3. QED
  BY <1>1, <1>2, TypeCorrect, SlotCorrect, PTL DEF Spec, Policy!Spec, ImplementsRetryPolicy

-----------------------------------------------------------------------------
(* The socket lock.                                                          *)

LoopDials(l) == loopPC[l] = "dialing"
HandlerDials(h) == hPC[h] = "dialing"

(* The inductive form of DialsExclusive: a dialer holds the lock of the      *)
(* client it dials, and no two dialers hold one lock.                        *)
DialersHoldLocks ==
    /\ \A l \in Loops : LoopDials(l) => loopClient[l] \in Clients /\ sock[loopClient[l]] = "dialing"
    /\ \A h \in Handlers : HandlerDials(h) => hClient[h] \in Clients /\ sock[hClient[h]] = "dialing"

DialersApart ==
    /\ \A l, m \in Loops : LoopDials(l) /\ LoopDials(m) /\ loopClient[l] = loopClient[m] => l = m
    /\ \A g, h \in Handlers : HandlerDials(g) /\ HandlerDials(h) /\ hClient[g] = hClient[h] => g = h
    /\ \A l \in Loops, h \in Handlers : LoopDials(l) /\ HandlerDials(h) => loopClient[l] # hClient[h]

DialInv == DialersHoldLocks /\ DialersApart

LEMMA DialInit == Init => DialInv
BY DEF Init, LibInit, DialInv, DialersHoldLocks, DialersApart, LoopDials, HandlerDials

LEMMA DialInvImplies == DialInv => DialsExclusive
BY DEF DialInv, DialersHoldLocks, DialersApart, LoopDials, HandlerDials, DialsExclusive, Dialers

(* A step that begins and ends no dial of a loop or of a goroutine, and      *)
(* leaves every socket alone that somebody is dialling.                      *)
LEMMA DialUntouched ==
    ASSUME DialInv,
           \A l \in Loops : LoopDials(l)' => LoopDials(l) /\ loopClient'[l] = loopClient[l],
           \A h \in Handlers : HandlerDials(h)' => HandlerDials(h) /\ hClient'[h] = hClient[h],
           \A c \in Clients : sock[c] = "dialing" =>
               \/ sock'[c] = "dialing"
               \/ /\ \A l \in Loops : LoopDials(l)' => loopClient[l] # c
                  /\ \A h \in Handlers : HandlerDials(h)' => hClient[h] # c
    PROVE  DialInv'
BY DEF DialInv, DialersHoldLocks, DialersApart

LEMMA DialNext == TypeOK /\ HandlerShape /\ DialInv /\ [Next]_waVars => DialInv'
<1> SUFFICES ASSUME TypeOK, HandlerShape, DialInv, [Next]_waVars PROVE DialInv'
  OBVIOUS
<1> USE DEF TypeOK, LibTypeOK, LoopDials, HandlerDials
<1>1. ASSUME UNCHANGED <<sock, loopPC, loopClient, hPC, hClient>> PROVE DialInv'
  BY <1>1, DialUntouched
<1>2. ASSUME UNCHANGED <<sock, loopPC, loopClient>>, NEW h \in Handlers, NEW pc,
             pc # "dialing", hPC' = [hPC EXCEPT ![h] = pc],
             \A g \in Handlers : g # h => hClient'[g] = hClient[g]
      PROVE  DialInv'
  BY <1>2, DialUntouched
<1>3. CASE LibraryStep
  <2>1. ASSUME NEW c \in Clients, RemoteClose(c) \/ SilentRejection(c) PROVE DialInv'
    BY <1>3, <2>1, DialUntouched
       DEF LibraryStep, RemoteClose, SilentRejection, IsConnected, retryVars
  <2>2. ASSUME NEW c \in Clients, NEW h \in Handlers,
               AuthSuccess(c, h) \/ RemoteLogout(c, h) \/ RestartRequired(c, h) \/ OnDisconnect(c, h)
        PROVE  DialInv'
    <3>1. UNCHANGED <<loopPC, loopClient>>
      BY <1>3 DEF LibraryStep, retryVars
    <3>2. \A d \in Clients : sock[d] = "dialing" => sock'[d] = "dialing"
      BY <2>2 DEF AuthSuccess, RemoteLogout, RestartRequired, OnDisconnect, Spawn
    <3>3. \A g \in Handlers : HandlerDials(g)' => HandlerDials(g) /\ hClient'[g] = hClient[g]
      BY <2>2 DEF AuthSuccess, RemoteLogout, RestartRequired, OnDisconnect, Spawn, handlerVars
    <3>4. QED BY <3>1, <3>2, <3>3, DialUntouched
  <2>3. ASSUME NEW h \in Handlers, RestartDisconnect(h) PROVE DialInv'
    <3>1. UNCHANGED <<loopPC, loopClient>>
      BY <1>3 DEF LibraryStep, retryVars
    <3>2. \A d \in Clients : sock[d] = "dialing" => sock'[d] = "dialing"
      BY <2>3 DEF RestartDisconnect, CloseSocket, LockFree
    <3>3. \A g \in Handlers : HandlerDials(g)' => HandlerDials(g) /\ hClient'[g] = hClient[g]
      BY <2>3 DEF RestartDisconnect
    <3>4. QED BY <3>1, <3>2, <3>3, DialUntouched
  <2>4. ASSUME NEW h \in Handlers, RestartConnect(h) PROVE DialInv'
    <3>1. UNCHANGED <<loopPC, loopClient>>
      BY <1>3 DEF LibraryStep, retryVars
    <3>2. CASE Finish(h) /\ UNCHANGED sock
      BY <3>1, <3>2, <1>2 DEF Finish
    <3>3. CASE BeginDial(hClient[h]) /\ hPC' = [hPC EXCEPT ![h] = "dialing"] /\ UNCHANGED hClient
      <4>1. hClient[h] \in Clients /\ sock[hClient[h]] # "dialing"
        BY <2>4, <3>3 DEF RestartConnect, HandlerShape, BeginDial, LockFree
      <4>2. sock' = [sock EXCEPT ![hClient[h]] = "dialing"]
        BY <3>3 DEF BeginDial
      <4>3. DialersHoldLocks'
        BY <3>1, <3>3, <4>1, <4>2 DEF DialInv, DialersHoldLocks
      <4>4. DialersApart'
        BY <3>1, <3>3, <4>1 DEF DialInv, DialersHoldLocks, DialersApart
      <4>5. QED BY <4>3, <4>4 DEF DialInv
    <3>4. QED BY <2>4, <3>2, <3>3 DEF RestartConnect
  <2>5. ASSUME NEW h \in Handlers, NEW ok \in BOOLEAN, RestartDialed(h, ok) PROVE DialInv'
    <3>1. UNCHANGED <<loopPC, loopClient>>
      BY <1>3 DEF LibraryStep, retryVars
    <3>2. \A g \in Handlers : HandlerDials(g)' =>
             g # h /\ HandlerDials(g) /\ hClient'[g] = hClient[g]
      BY <2>5 DEF RestartDialed, Finish
    <3>3. \A d \in Clients : d # hClient[h] => sock'[d] = sock[d]
      BY <2>5 DEF RestartDialed, EndDial
    <3>4. HandlerDials(h)
      BY <2>5 DEF RestartDialed
    <3>5. QED
      BY <3>1, <3>2, <3>3, <3>4, DialUntouched DEF DialInv, DialersApart
  <2>6. QED BY <1>3, <2>1, <2>2, <2>3, <2>4, <2>5 DEF LibraryStep, Network, Library
<1>4. CASE PairStep \/ (\E c \in Clients : OtherEvent(c)) \/ UNCHANGED waVars
  BY <1>1, <1>4 DEF PairStep, Pair, OtherEvent, waVars, libVars, retryVars, handlerVars
<1>5. ASSUME NEW h \in Handlers,
             HandlerStop(h) \/ HandlerHasSession(h) \/ HandlerEnqueue(h)
      PROVE  DialInv'
  BY <1>2, <1>5 DEF HandlerStop, StopReconnect, HandlerHasSession, HandlerEnqueue, Finish, retryVars
<1>6. ASSUME NEW h \in Handlers, HandlerStart(h) PROVE DialInv'
  <2>1. \A l \in Loops : LoopDials(l)' => LoopDials(l) /\ loopClient'[l] = loopClient[l]
    BY <1>6 DEF HandlerStart, StartReconnectLoop, retryVars
  <2>2. \A g \in Handlers : HandlerDials(g)' => HandlerDials(g) /\ hClient'[g] = hClient[g]
    BY <1>6 DEF HandlerStart
  <2>3. UNCHANGED sock
    BY <1>6 DEF HandlerStart
  <2>4. QED BY <2>1, <2>2, <2>3, DialUntouched
<1>7. ASSUME NEW l \in Loops, LoopStep(l) PROVE DialInv'
  <2>1. CASE LoopTimer(l) \/ LoopDone(l) \/ LoopCheck(l) \/ LoopExit(l)
    <3>1. UNCHANGED <<sock, loopClient, hPC, hClient>>
      BY <2>1 DEF LoopTimer, LoopDone, LoopCheck, LoopExit, libVars
    <3>2. \A m \in Loops : LoopDials(m)' => LoopDials(m)
      BY <2>1 DEF LoopTimer, LoopDone, LoopCheck, LoopExit, SetLoop
    <3>3. QED BY <3>1, <3>2, DialUntouched
  <2>2. CASE LoopConnect(l)
    <3>1. UNCHANGED <<hPC, hClient>>
      BY <2>2 DEF LoopConnect, handlerVars
    <3>2. CASE SetLoop(l, "wait") /\ UNCHANGED <<sock, loopClient>>
      BY <3>1, <3>2, DialUntouched DEF SetLoop
    <3>3. CASE BeginDial(cur) /\ SetLoop(l, "dialing") /\ loopClient' = [loopClient EXCEPT ![l] = cur]
      <4>1. sock[cur] # "dialing" /\ sock' = [sock EXCEPT ![cur] = "dialing"]
        BY <3>3 DEF BeginDial, LockFree
      <4>2. DialersHoldLocks'
        BY <3>1, <3>3, <4>1 DEF DialInv, DialersHoldLocks, SetLoop
      <4>3. DialersApart'
        BY <3>1, <3>3, <4>1 DEF DialInv, DialersHoldLocks, DialersApart, SetLoop
      <4>4. QED BY <4>2, <4>3 DEF DialInv
    <3>4. QED BY <2>2, <3>2, <3>3 DEF LoopConnect
  <2>3. ASSUME NEW ok \in BOOLEAN, LoopDialed(l, ok) PROVE DialInv'
    <3>1. UNCHANGED <<hPC, hClient>>
      BY <2>3 DEF LoopDialed, handlerVars
    <3>2. \A m \in Loops : LoopDials(m)' => m # l /\ LoopDials(m) /\ loopClient'[m] = loopClient[m]
      BY <2>3 DEF LoopDialed, SetLoop
    <3>3. \A d \in Clients : d # loopClient[l] => sock'[d] = sock[d]
      BY <2>3 DEF LoopDialed, EndDial
    <3>4. LoopDials(l)
      BY <2>3 DEF LoopDialed
    <3>5. QED
      BY <3>1, <3>2, <3>3, <3>4, DialUntouched DEF DialInv, DialersApart
  <2>4. QED BY <1>7, <2>1, <2>2, <2>3 DEF LoopStep
<1>8. CASE Caller
  <2>1. CASE CallStopReconnect \/ CallDelete \/ CallReplaceClient \/ Receive
    BY <1>1, <2>1 DEF CallStopReconnect, StopReconnect, CallDelete, DeleteDevice, CallReplaceClient,
                      ReplaceClient, Receive, libVars, retryVars, handlerVars
  <2>2. CASE CallConnect
    BY <2>2, DialUntouched DEF CallConnect, BeginDial, handlerVars, retryVars
  <2>3. ASSUME NEW c \in Clients, CallDisconnect(c) PROVE DialInv'
    BY <2>3, DialUntouched DEF CallDisconnect, CloseSocket, LockFree, handlerVars, retryVars
  <2>4. ASSUME NEW c \in Clients, NEW ok \in BOOLEAN, CallConnectReturns(c, ok) PROVE DialInv'
    BY <2>4, DialUntouched
       DEF CallConnectReturns, CallerDials, EndDial, handlerVars, retryVars
  <2>5. QED BY <1>8, <2>1, <2>2, <2>3, <2>4 DEF Caller
<1>9. QED BY <1>3, <1>4, <1>5, <1>6, <1>7, <1>8 DEF Next, Handler

(* Dials of one client exclude each other, whoever begins them.              *)
THEOREM DialsCorrect == Spec => []DialsExclusive
<1>1. Init => TypeOK /\ HandlerShape /\ DialInv
  BY TypeInit, DialInit
<1>2. TypeOK /\ HandlerShape /\ DialInv /\ [Next]_waVars => TypeOK' /\ HandlerShape' /\ DialInv'
  BY TypeNext, ShapeNext, DialNext
<1>3. DialInv => DialsExclusive
  BY DialInvImplies
<1>4. QED BY <1>1, <1>2, <1>3, PTL DEF Spec

=============================================================================

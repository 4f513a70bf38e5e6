------------------------------ MODULE WAClient ------------------------------
(***************************************************************************)
(* protocol.WAClient: the wrapper that owns the current whatsmeow client,  *)
(* reacts to its events on the library's goroutines, retries lost          *)
(* connections in a loop of its own, and hands events to the D-Bus service *)
(* through a bounded channel.                                              *)
(*                                                                         *)
(* The retry loop is guarded by one slot, cancelRetry, under reconnectMu.  *)
(* Whoever calls StopReconnect cancels the loop in the slot and empties    *)
(* it; a loop calls it too, when it returns, whatever loop is in the slot  *)
(* by then.                                                                *)
(*                                                                         *)
(* Here the callers of the exported methods are arbitrary: any of them may *)
(* be called at any time. MessengerLogin puts the service's real callers   *)
(* in their place.                                                         *)
(***************************************************************************)
EXTENDS Whatsmeow, Sequences

CONSTANTS
    Loops,          \* bound on the retry goroutines alive at one time
    NoLoop,         \* the empty slot: cancelRetry = nil
    EventsCap       \* capacity of eventsCh (32 in the code)

ASSUME NoLoopAssumption == NoLoop \notin Loops
ASSUME EventsCapAssumption == EventsCap \in Nat \ {0}

VARIABLES
    cur,            \* w.client
    slot,           \* the loop whose cancel function is in w.cancelRetry
    loopPC,         \* loopPC[l]: where retry goroutine l stands
    cancelled,      \* cancelled[l]: its context is done
    loopClient,     \* loopClient[l]: the client it is dialling
    eventsCh        \* w.eventsCh

retryVars == <<slot, loopPC, cancelled, loopClient>>
waVars == <<libVars, cur, retryVars, eventsCh>>

(***************************************************************************)
(* "wait": in the select.  "ready": the timer fired first.  "connect":     *)
(* about to call Connect.  "exit": about to run the deferred StopReconnect.*)
(***************************************************************************)
LoopPCs == {"free", "wait", "ready", "connect", "dialing", "exit"}

(* "Other" stands for the events that only fill the channel: messages,     *)
(* receipts, presences, group and picture changes.                         *)
QueuedKinds == EventKinds \cup {"Other"}

TypeOK ==
    /\ LibTypeOK
    /\ cur \in Clients
    /\ slot \in Loops \cup {NoLoop}
    /\ loopPC \in [Loops -> LoopPCs]
    /\ cancelled \in [Loops -> BOOLEAN]
    /\ loopClient \in [Loops -> Clients \cup {NoClient}]
    /\ eventsCh \in Seq(QueuedKinds)
    /\ Len(eventsCh) <= EventsCap

Init ==
    /\ LibInit
    /\ cur = 1
    /\ slot = NoLoop
    /\ loopPC = [l \in Loops |-> "free"]
    /\ cancelled = [l \in Loops |-> FALSE]
    /\ loopClient = [l \in Loops |-> NoClient]
    /\ eventsCh = <<>>

-----------------------------------------------------------------------------
(* Methods.                                                                  *)

HasSession == HasID(cur)

(* The part of StopReconnect that its caller's other assignments leave room  *)
(* for: the loop in the slot is cancelled and the slot emptied.              *)
CancelSlotForgets ==        \* mutant: the slot is emptied, its loop runs on
    /\ slot' = NoLoop
    /\ UNCHANGED cancelled

CancelSlot ==
    /\ slot' = NoLoop
    /\ cancelled' = [l \in Loops |-> cancelled[l] \/ l = slot]

StopReconnect ==
    /\ CancelSlot
    /\ UNCHANGED <<loopPC, loopClient>>

StartReconnectLoopAlways == \* mutant: the slot is not looked at
    \E l \in Loops :
        /\ loopPC[l] = "free"
        /\ slot' = l
        /\ loopPC' = [loopPC EXCEPT ![l] = "wait"]
        /\ cancelled' = [cancelled EXCEPT ![l] = FALSE]
        /\ UNCHANGED loopClient

(* startReconnectLoop from the lock on: nothing if a loop holds the slot *)
StartReconnectLoop ==
    IF slot # NoLoop
    THEN UNCHANGED retryVars
    ELSE \E l \in Loops :
            /\ loopPC[l] = "free"
            /\ slot' = l
            /\ loopPC' = [loopPC EXCEPT ![l] = "wait"]
            /\ cancelled' = [cancelled EXCEPT ![l] = FALSE]
            /\ UNCHANGED loopClient

EnqueueOneTooMany(kind) ==  \* mutant: off by one at the capacity
    eventsCh' = IF Len(eventsCh) <= EventsCap THEN Append(eventsCh, kind) ELSE eventsCh

EnqueueBlocks(kind) ==      \* mutant: a send without a default branch
    /\ Len(eventsCh) < EventsCap
    /\ eventsCh' = Append(eventsCh, kind)

(* The select with a default branch: a full channel loses the event *)
Enqueue(kind) ==
    eventsCh' = IF Len(eventsCh) < EventsCap THEN Append(eventsCh, kind) ELSE eventsCh

-----------------------------------------------------------------------------
(* The handler replaceClient registers, on a goroutine of the library. It    *)
(* looks at w.client, which need not be the client the event comes from.     *)

(* Connected and LoggedOut first stop the retry loop; SendPresence, between  *)
(* the two steps, only takes time.                                           *)
HandlerStop(h) ==
    /\ hPC[h] = "begin" /\ hEvent[h] \in {"Connected", "LoggedOut"}
    /\ StopReconnect
    /\ hPC' = [hPC EXCEPT ![h] = "enqueue"]
    /\ UNCHANGED <<sock, device, expected, hEvent, hClient, cur, eventsCh>>

(* Disconnected: startReconnectLoop reads HasSession before it locks *)
HandlerHasSession(h) ==
    /\ hPC[h] = "begin" /\ hEvent[h] = "Disconnected"
    /\ hPC' = [hPC EXCEPT ![h] = IF HasSession THEN "start" ELSE "enqueue"]
    /\ UNCHANGED <<sock, device, expected, hEvent, hClient, cur, retryVars, eventsCh>>

HandlerStart(h) ==
    /\ hPC[h] = "start"
    /\ StartReconnectLoop
    /\ hPC' = [hPC EXCEPT ![h] = "enqueue"]
    /\ UNCHANGED <<sock, device, expected, hEvent, hClient, cur, eventsCh>>

HandlerEnqueue(h) ==
    /\ hPC[h] = "enqueue"
    /\ Enqueue(hEvent[h])
    /\ Finish(h)
    /\ UNCHANGED <<sock, device, expected, cur, retryVars>>

(* Any other event of an authenticated client: stored elsewhere, then queued *)
OtherEvent(c) ==
    /\ sock[c] = "ready"
    /\ Enqueue("Other")
    /\ UNCHANGED <<libVars, cur, retryVars>>

Handler ==
    \E h \in Handlers :
        HandlerStop(h) \/ HandlerHasSession(h) \/ HandlerStart(h) \/ HandlerEnqueue(h)

-----------------------------------------------------------------------------
(* The retry goroutine.                                                      *)

SetLoop(l, pc) == loopPC' = [loopPC EXCEPT ![l] = pc]

(* The timer fires while the goroutine sleeps. A loop that is cancelled      *)
(* before that is woken by its context.                                      *)
LoopTimer(l) ==
    /\ loopPC[l] = "wait" /\ ~cancelled[l]
    /\ SetLoop(l, "ready")
    /\ UNCHANGED <<libVars, cur, slot, cancelled, loopClient, eventsCh>>

(* Both branches may be ready: the choice is then arbitrary *)
LoopDone(l) ==
    /\ loopPC[l] \in {"wait", "ready"} /\ cancelled[l]
    /\ SetLoop(l, "exit")
    /\ UNCHANGED <<libVars, cur, slot, cancelled, loopClient, eventsCh>>

LoopCheck(l) ==
    /\ loopPC[l] = "ready"
    /\ LockFree(cur)
    /\ SetLoop(l, IF IsConnected(cur) THEN "exit" ELSE "connect")
    /\ UNCHANGED <<libVars, cur, slot, cancelled, loopClient, eventsCh>>

(* w.client.Connect(): the dial begins, or an error sends it back to sleep *)
LoopConnect(l) ==
    /\ loopPC[l] = "connect"
    /\ \/ /\ BeginDial(cur)
          /\ SetLoop(l, "dialing")
          /\ loopClient' = [loopClient EXCEPT ![l] = cur]
       \/ /\ LockFree(cur)
          /\ ConnectRefused(cur)
          /\ SetLoop(l, "wait")
          /\ UNCHANGED <<sock, device, expected, loopClient>>
    /\ UNCHANGED <<handlerVars, cur, slot, cancelled, eventsCh>>

LoopDialedRetries(l, ok) == \* mutant: a failed dial skips the select
    /\ loopPC[l] = "dialing"
    /\ EndDial(loopClient[l], ok)
    /\ SetLoop(l, IF ok THEN "exit" ELSE "connect")
    /\ loopClient' = [loopClient EXCEPT ![l] = NoClient]
    /\ UNCHANGED <<handlerVars, cur, slot, cancelled, eventsCh>>

LoopDialed(l, ok) ==
    /\ loopPC[l] = "dialing"
    /\ EndDial(loopClient[l], ok)
    /\ SetLoop(l, IF ok THEN "exit" ELSE "wait")
    /\ loopClient' = [loopClient EXCEPT ![l] = NoClient]
    /\ UNCHANGED <<handlerVars, cur, slot, cancelled, eventsCh>>

LoopExitKeepsSlot(l) ==     \* mutant: no deferred StopReconnect
    /\ loopPC[l] = "exit"
    /\ SetLoop(l, "free")
    /\ UNCHANGED <<libVars, cur, slot, cancelled, loopClient, eventsCh>>

(* defer w.StopReconnect(): cancels the loop in the slot, itself or another *)
LoopExit(l) ==
    /\ loopPC[l] = "exit"
    /\ CancelSlot
    /\ SetLoop(l, "free")
    /\ UNCHANGED <<libVars, cur, loopClient, eventsCh>>

LoopStep(l) ==
    \/ LoopTimer(l) \/ LoopDone(l) \/ LoopCheck(l) \/ LoopConnect(l)
    \/ \E ok \in BOOLEAN : LoopDialed(l, ok)
    \/ LoopExit(l)

-----------------------------------------------------------------------------
(* The exported methods, as steps of an arbitrary caller.                    *)

CallStopReconnect ==
    /\ StopReconnect
    /\ UNCHANGED <<libVars, cur, eventsCh>>

CallConnect ==
    /\ BeginDial(cur)
    /\ UNCHANGED <<handlerVars, cur, retryVars, eventsCh>>

(* A dial that neither a retry loop nor a 515 goroutine began *)
CallerDials(c) ==
    /\ sock[c] = "dialing"
    /\ \A l \in Loops : ~(loopPC[l] = "dialing" /\ loopClient[l] = c)
    /\ \A h \in Handlers : ~(hPC[h] = "dialing" /\ hClient[h] = c)

CallConnectReturns(c, ok) ==
    /\ CallerDials(c)
    /\ EndDial(c, ok)
    /\ UNCHANGED <<handlerVars, cur, retryVars, eventsCh>>

(* Disconnect after its StopReconnect, a step of Logout, or the QR channel   *)
(* giving up on its own client                                               *)
CallDisconnect(c) ==
    /\ CloseSocket(c)
    /\ UNCHANGED <<handlerVars, cur, retryVars, eventsCh>>

(* Logout on the server side done, or DeviceStore().Delete() *)
CallDelete ==
    /\ DeleteDevice(cur)
    /\ UNCHANGED <<handlerVars, cur, retryVars, eventsCh>>

(* ResetSession after its StopReconnect: GetFirstDevice loads the stored row *)
(* if there still is one, else makes an empty store.                         *)
ReplaceClient ==
    /\ cur < MaxClients
    /\ cur' = cur + 1
    /\ device' = [device EXCEPT ![cur + 1] = IF HasID(cur) THEN "paired" ELSE "none"]
    /\ UNCHANGED <<sock, expected>>

CallReplaceClient ==
    /\ ReplaceClient
    /\ UNCHANGED <<handlerVars, retryVars, eventsCh>>

(* The service takes the next event *)
Receive ==
    /\ eventsCh # <<>>
    /\ eventsCh' = Tail(eventsCh)
    /\ UNCHANGED <<libVars, cur, retryVars>>

Caller ==
    \/ CallStopReconnect \/ CallConnect
    \/ CallDelete \/ CallReplaceClient \/ Receive
    \/ \E c \in Clients : CallDisconnect(c)
    \/ \E c \in Clients, ok \in BOOLEAN : CallConnectReturns(c, ok)

-----------------------------------------------------------------------------

LibraryStep ==
    /\ Network \/ Library
    /\ UNCHANGED <<cur, retryVars, eventsCh>>

(* Pairing happens on the library's side of an unpaired client's connection *)
PairStep ==
    /\ \E c \in Clients : Pair(c)
    /\ UNCHANGED <<handlerVars, cur, retryVars, eventsCh>>

Next ==
    \/ LibraryStep
    \/ PairStep
    \/ Handler
    \/ \E c \in Clients : OtherEvent(c)
    \/ \E l \in Loops : LoopStep(l)
    \/ Caller

Spec == Init /\ [][Next]_waVars

(***************************************************************************)
(* Fairness. Go runs every goroutine that can run, and its timers fire: a  *)
(* weakly fair step per goroutine. The socket lock is a sync.RWMutex, which*)
(* starves nobody: strong fairness where a step waits for a dial to end.   *)
(* A dial ends, one way or the other (the HTTP client has time-outs).      *)
(***************************************************************************)
GoroutineFairness ==
    /\ \A h \in Handlers :
          /\ WF_waVars(HandlerStop(h) \/ HandlerHasSession(h) \/ HandlerStart(h)
                          \/ HandlerEnqueue(h))
          /\ WF_waVars(\E ok \in BOOLEAN : RestartDialed(h, ok) /\ UNCHANGED <<cur, retryVars, eventsCh>>)
          /\ SF_waVars((RestartDisconnect(h) \/ RestartConnect(h)) /\ UNCHANGED <<cur, retryVars, eventsCh>>)
    /\ \A l \in Loops :
          /\ WF_waVars(LoopTimer(l) \/ LoopDone(l) \/ LoopExit(l))
          /\ SF_waVars(LoopCheck(l) \/ LoopConnect(l))
          /\ WF_waVars(\E ok \in BOOLEAN : LoopDialed(l, ok))
    /\ \A c \in Clients : WF_waVars(\E ok \in BOOLEAN : CallConnectReturns(c, ok))

FairSpec == Spec /\ GoroutineFairness

-----------------------------------------------------------------------------
(* Properties.                                                               *)

(* reconnectMu and the slot: whatever the order of calls, events and loop    *)
(* exits, the loop in the slot is alive and not cancelled, and no other loop *)
(* is alive and not cancelled. A loop outside the slot could no longer be    *)
(* stopped by StopReconnect, and would redial behind Logout's back.          *)
SlotGuardsLoops ==
    \A l \in Loops : slot = l <=> loopPC[l] # "free" /\ ~cancelled[l]

(* The goroutines in the middle of a dial. The caller of Connect is the third*)
(* kind; it has no state here.                                               *)
Dialers(c) ==
    {l \in Loops : loopPC[l] = "dialing" /\ loopClient[l] = c}
    \cup {h \in Handlers : hPC[h] = "dialing" /\ hClient[h] = c}

(* The socket lock makes dials of one client exclusive: the retry loop, the  *)
(* library's 515 goroutine and a caller of Connect never dial one client at  *)
(* the same time, and a dial under way is never pulled away from its dialer  *)
(* by a Disconnect, a closing socket or another dial.                        *)
DialsExclusive ==
    \A c \in Clients :
        /\ Dialers(c) # {} => sock[c] = "dialing"
        /\ \A x, y \in Dialers(c) : x = y

(* The slot implements the policy: one loop in charge, relieved for good.    *)
RetryRole ==
    [l \in Loops |->
        IF loopPC[l] = "free" THEN "absent"
        ELSE IF cancelled[l] THEN "relieved" ELSE "inCharge"]

Policy == INSTANCE RetryPolicy WITH Loops <- Loops, role <- RetryRole

ImplementsRetryPolicy == Policy!Spec

(* A loop that StopReconnect cancelled returns, whatever it was doing: no    *)
(* retry goroutine lives on behind a Connected event or a Logout.            *)
CancelledLoopEnds ==
    \A l \in Loops : cancelled[l] ~> loopPC[l] = "free"

(* An event goroutine of the library never waits for the D-Bus service: a    *)
(* handler finishes even if nobody ever takes an event from the channel.     *)
HandlersFinish ==
    \A h \in Handlers : hPC[h] # "idle" ~> hPC[h] = "idle"

=============================================================================

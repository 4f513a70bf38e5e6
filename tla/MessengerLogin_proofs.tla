----------------------- MODULE MessengerLogin_proofs -----------------------
(***************************************************************************)
(* Theorems about MessengerLogin: the service's calls and goroutines, with *)
(* any number of them, any number of logouts and whatever the world allows,*)
(* use WAClient as WAClient expects. So everything that WAClient_proofs    *)
(* proves for arbitrary callers holds of the daemon.                       *)
(*                                                                         *)
(* The one step that is not WAClient's for the asking is the end of a dial:*)
(* CallConnectReturns wants a dial that nobody else began. A call that     *)
(* dials knows its client, so the invariant says that its client's dial is *)
(* its own.                                                                *)
(***************************************************************************)
EXTENDS MessengerLogin, WAClient_proofs

CallDials(k) == callPC[k] \in {"dialing", "qrdialing"}

CallDialInv ==
    /\ \A k \in Calls : CallDials(k) => callClient[k] \in Clients /\ CallerDials(callClient[k])
    /\ \A j, k \in Calls : CallDials(j) /\ CallDials(k) /\ callClient[j] = callClient[k] => j = k

(* A channel in use is some client's; codes go only into one that is open, so*)
(* the emitter that gives up on its client has a client to disconnect.       *)
EmitterInv ==
    \A q \in QRs :
        /\ qrItem[q] # "free" => qrClient[q] \in Clients
        /\ qrEmit[q] # "none" => qrItem[q] = "open"

(* WAClient's steps but for the end of a caller's dial *)
OtherStep ==
    \/ LibraryStep \/ PairStep \/ Handler
    \/ \E c \in Clients : OtherEvent(c)
    \/ \E l \in Loops : LoopStep(l)
    \/ CallStopReconnect \/ CallConnect \/ CallDelete \/ CallReplaceClient \/ Receive
    \/ \E c \in Clients : CallDisconnect(c)
    \/ UNCHANGED waVars

LEMMA OtherStepRefines == OtherStep => [Next]_waVars
BY DEF OtherStep, Next, Caller

-----------------------------------------------------------------------------
(* A dial of a caller stays its own until the caller ends it.                *)

(* Nobody else begins or ends a dial of client c. *)
LEMMA DialStays ==
    ASSUME NEW c \in Clients, CallerDials(c), sock'[c] = "dialing",
           \A l \in Loops : loopPC'[l] = "dialing" /\ loopClient'[l] = c
               => loopPC[l] = "dialing" /\ loopClient[l] = c,
           \A h \in Handlers : hPC'[h] = "dialing" /\ hClient'[h] = c
               => hPC[h] = "dialing" /\ hClient[h] = c
    PROVE  CallerDials(c)'
BY DEF CallerDials

LEMMA CallerDialsKept ==
    ASSUME TypeOK, OtherStep, NEW c \in Clients, CallerDials(c)
    PROVE  CallerDials(c)'
<1> USE DEF TypeOK, LibTypeOK
<1>d. sock[c] = "dialing"
  BY DEF CallerDials
<1>1. ASSUME UNCHANGED <<sock, loopPC, loopClient, hPC, hClient>> PROVE CallerDials(c)'
  BY <1>1, <1>d, DialStays
<1>2. CASE LibraryStep
  <2>1. UNCHANGED <<loopPC, loopClient>>
    BY <1>2 DEF LibraryStep, retryVars
  <2>2. ASSUME NEW d \in Clients, RemoteClose(d) \/ SilentRejection(d) PROVE CallerDials(c)'
    BY <1>d, <2>1, <2>2, DialStays DEF RemoteClose, SilentRejection, IsConnected
  <2>3. ASSUME NEW d \in Clients, NEW h \in Handlers,
               AuthSuccess(d, h) \/ RemoteLogout(d, h) \/ RestartRequired(d, h) \/ OnDisconnect(d, h)
        PROVE  CallerDials(c)'
    <3>1. sock'[c] = "dialing"
      BY <1>d, <2>3 DEF AuthSuccess, RemoteLogout, RestartRequired, OnDisconnect
    <3>2. \A g \in Handlers : hPC'[g] = "dialing" => hPC[g] = "dialing" /\ hClient'[g] = hClient[g]
      BY <2>3
      DEF AuthSuccess, RemoteLogout, RestartRequired, OnDisconnect, Spawn, handlerVars
    <3>3. QED BY <2>1, <3>1, <3>2, DialStays
  <2>4. ASSUME NEW h \in Handlers, RestartDisconnect(h) PROVE CallerDials(c)'
    BY <1>d, <2>1, <2>4, DialStays DEF RestartDisconnect, CloseSocket, LockFree
  <2>5. ASSUME NEW h \in Handlers, RestartConnect(h) PROVE CallerDials(c)'
    <3>1. CASE Finish(h) /\ UNCHANGED sock
      BY <1>d, <2>1, <3>1, DialStays DEF Finish
    <3>2. CASE BeginDial(hClient[h]) /\ hPC' = [hPC EXCEPT ![h] = "dialing"] /\ UNCHANGED hClient
      <4>1. hClient[h] # c
        BY <1>d, <3>2 DEF BeginDial, LockFree
      <4>2. QED BY <1>d, <2>1, <3>2, <4>1, DialStays DEF BeginDial
    <3>3. QED BY <2>5, <3>1, <3>2 DEF RestartConnect
  <2>6. ASSUME NEW h \in Handlers, NEW ok \in BOOLEAN, RestartDialed(h, ok) PROVE CallerDials(c)'
    <3>1. hClient[h] # c
      BY <2>6 DEF RestartDialed, CallerDials
    <3>2. QED BY <1>d, <2>1, <2>6, <3>1, DialStays DEF RestartDialed, EndDial, Finish
  <2>7. QED BY <1>2, <2>2, <2>3, <2>4, <2>5, <2>6 DEF LibraryStep, Network, Library
<1>3. CASE PairStep \/ (\E d \in Clients : OtherEvent(d)) \/ UNCHANGED waVars
  BY <1>1, <1>3 DEF PairStep, Pair, OtherEvent, waVars, libVars, retryVars, handlerVars
<1>4. CASE Handler
  <2>1. UNCHANGED <<sock, hClient>> \/ \E h \in Handlers : Finish(h) /\ UNCHANGED sock
    BY <1>4 DEF Handler, HandlerStop, HandlerHasSession, HandlerStart, HandlerEnqueue
  <2>2. \A g \in Handlers : hPC'[g] = "dialing" => hPC[g] = "dialing" /\ hClient'[g] = hClient[g]
    BY <1>4 DEF Handler, HandlerStop, HandlerHasSession, HandlerStart, HandlerEnqueue, Finish
  <2>3. \A l \in Loops : loopPC'[l] = "dialing" => loopPC[l] = "dialing"
    BY <1>4
    DEF Handler, HandlerStop, StopReconnect, HandlerHasSession, HandlerStart, StartReconnectLoop,
        HandlerEnqueue, retryVars
  <2>4. UNCHANGED loopClient
    BY <1>4
    DEF Handler, HandlerStop, StopReconnect, HandlerHasSession, HandlerStart, StartReconnectLoop,
        HandlerEnqueue, retryVars
  <2>5. QED BY <1>d, <2>1, <2>2, <2>3, <2>4, DialStays
<1>5. ASSUME NEW l \in Loops, LoopStep(l) PROVE CallerDials(c)'
  <2>1. UNCHANGED <<hPC, hClient>>
    BY <1>5
    DEF LoopStep, LoopTimer, LoopDone, LoopCheck, LoopConnect, LoopDialed, LoopExit, libVars,
        handlerVars
  <2>2. CASE LoopTimer(l) \/ LoopDone(l) \/ LoopCheck(l) \/ LoopExit(l)
    BY <1>d, <2>1, <2>2, DialStays
    DEF LoopTimer, LoopDone, LoopCheck, LoopExit, SetLoop, libVars
  <2>3. CASE LoopConnect(l)
    <3>1. CASE SetLoop(l, "wait") /\ UNCHANGED <<sock, loopClient>>
      BY <1>d, <2>1, <3>1, DialStays DEF SetLoop
    <3>2. CASE BeginDial(cur) /\ SetLoop(l, "dialing") /\ loopClient' = [loopClient EXCEPT ![l] = cur]
      <4>1. cur # c
        BY <1>d, <3>2 DEF BeginDial, LockFree
      <4>2. QED BY <1>d, <2>1, <3>2, <4>1, DialStays DEF BeginDial, SetLoop
    <3>3. QED BY <2>3, <3>1, <3>2 DEF LoopConnect
  <2>4. ASSUME NEW ok \in BOOLEAN, LoopDialed(l, ok) PROVE CallerDials(c)'
    <3>1. loopClient[l] # c
      BY <2>4 DEF LoopDialed, CallerDials
    <3>2. QED BY <1>d, <2>1, <2>4, <3>1, DialStays DEF LoopDialed, EndDial, SetLoop
  <2>5. QED BY <1>5, <2>2, <2>3, <2>4 DEF LoopStep
<1>6. CASE CallStopReconnect \/ CallDelete \/ CallReplaceClient \/ Receive
  BY <1>1, <1>6
  DEF CallStopReconnect, StopReconnect, CallDelete, DeleteDevice, CallReplaceClient, ReplaceClient,
      Receive, libVars, retryVars, handlerVars
<1>7. CASE CallConnect
  BY <1>d, <1>7, DialStays DEF CallConnect, BeginDial, handlerVars, retryVars
<1>8. ASSUME NEW d \in Clients, CallDisconnect(d) PROVE CallerDials(c)'
  BY <1>d, <1>8, DialStays DEF CallDisconnect, CloseSocket, LockFree, handlerVars, retryVars
<1>9. QED BY <1>2, <1>3, <1>4, <1>5, <1>6, <1>7, <1>8 DEF OtherStep

(* A step in which no call begins or ends a dial. *)
LEMMA CallDialKept ==
    ASSUME TypeOK, CallDialInv, OtherStep,
           \A k \in Calls : CallDials(k)' => CallDials(k) /\ callClient'[k] = callClient[k]
    PROVE  CallDialInv'
<1>1. ASSUME NEW k \in Calls, CallDials(k)'
      PROVE  callClient'[k] \in Clients /\ CallerDials(callClient[k])' /\ callClient'[k] = callClient[k]
  BY <1>1, CallerDialsKept DEF CallDialInv
<1>2. QED BY <1>1 DEF CallDialInv, CallerDials

(* The two steps of a dial, whichever call makes it. *)
LEMMA CallDialSteps ==
    ASSUME TypeOK, DialInv, CallDialInv, callPC \in [Calls -> CallPCs],
           callClient \in [Calls -> Clients \cup {NoClient}],
           NEW k \in Calls, NEW before, NEW during \in {"dialing", "qrdialing"}, NEW done,
           before \notin {"dialing", "qrdialing"}, done \notin {"dialing", "qrdialing"},
           DialSteps(k, before, during, done), UNCHANGED <<handlerVars, cur, retryVars, eventsCh>>
    PROVE  [Next]_waVars /\ CallDialInv'
<1> USE DEF TypeOK, LibTypeOK
<1>1. CASE /\ At(k, before) /\ BeginDial(cur) /\ Goto(k, during)
           /\ callClient' = [callClient EXCEPT ![k] = cur]
  <2>1. CallConnect
    BY <1>1 DEF CallConnect
  <2>2. sock[cur] # "dialing" /\ sock' = [sock EXCEPT ![cur] = "dialing"] /\ cur \in Clients
    BY <1>1 DEF BeginDial, LockFree
  <2>3. CallerDials(cur)'
    BY <2>2 DEF CallerDials, DialInv, DialersHoldLocks, LoopDials, HandlerDials, retryVars, handlerVars
  <2>4. \A j \in Calls \ {k} : CallDials(j)' => CallDials(j) /\ callClient'[j] = callClient[j]
    BY <1>1 DEF CallDials, Goto
  <2>5. \A j \in Calls : CallDials(j) => callClient[j] # cur
    BY <2>2 DEF CallDialInv, CallerDials
  <2>6. ASSUME NEW j \in Calls \ {k}, CallDials(j)'
        PROVE  /\ callClient'[j] = callClient[j] /\ callClient[j] \in Clients
               /\ CallerDials(callClient[j])'
    BY <2>1, <2>4, <2>6, CallerDialsKept DEF CallDialInv, OtherStep
  <2>7. callClient'[k] = cur
    BY <1>1
  <2>8. CallDialInv'
    BY <2>2, <2>3, <2>4, <2>5, <2>6, <2>7 DEF CallDialInv, CallerDials
  <2>9. QED BY <2>1, <2>8 DEF Next, Caller
<1>2. CASE At(k, before) /\ Goto(k, "down") /\ UNCHANGED <<clientSide, callClient>>
  <2>1. UNCHANGED waVars
    BY <1>2 DEF clientSide, waVars, libVars, handlerVars
  <2>2. \A j \in Calls : CallDials(j)' => CallDials(j) /\ callClient'[j] = callClient[j]
    BY <1>2 DEF CallDials, Goto
  <2>3. QED BY <2>1, <2>2, CallDialKept DEF OtherStep
<1>3. ASSUME NEW ok \in BOOLEAN, At(k, during), EndDial(callClient[k], ok),
             Goto(k, IF ok THEN done ELSE "down"),
             callClient' = [callClient EXCEPT ![k] = NoClient]
      PROVE  [Next]_waVars /\ CallDialInv'
  <2>1. CallDials(k)
    BY <1>3 DEF CallDials, At
  <2>2. callClient[k] \in Clients /\ CallerDials(callClient[k])
    BY <2>1 DEF CallDialInv
  <2>3. CallConnectReturns(callClient[k], ok)
    BY <1>3, <2>2 DEF CallConnectReturns
  <2>4. \A j \in Calls : CallDials(j)' =>
           j # k /\ CallDials(j) /\ callClient'[j] = callClient[j] /\ callClient[j] # callClient[k]
    BY <1>3, <2>1 DEF CallDials, Goto, CallDialInv
  <2>5. ASSUME NEW c \in Clients, c # callClient[k], CallerDials(c) PROVE CallerDials(c)'
    BY <1>3, <2>5, DialStays DEF CallerDials, EndDial, retryVars, handlerVars
  <2>6. ASSUME NEW j \in Calls, CallDials(j)'
        PROVE  /\ callClient'[j] = callClient[j] /\ callClient[j] \in Clients
               /\ CallerDials(callClient[j])'
    BY <2>4, <2>5, <2>6 DEF CallDialInv
  <2>7. CallDialInv'
    BY <2>4, <2>6 DEF CallDialInv, CallerDials
  <2>8. QED BY <2>2, <2>3, <2>7 DEF Next, Caller
<1>4. QED BY <1>1, <1>2, <1>3 DEF DialSteps

(* A step that leaves WAClient alone, or is one of its other steps, and in   *)
(* which no call dials.                                                      *)
LEMMA CallRefines ==
    ASSUME TypeOK, CallDialInv, OtherStep, callPC \in [Calls -> CallPCs],
           \/ UNCHANGED <<callPC, callClient>>
           \/ /\ UNCHANGED callClient
              /\ \E k \in Calls : \E pc : pc \notin {"dialing", "qrdialing"} /\ Goto(k, pc)
    PROVE  [Next]_waVars /\ CallDialInv'
<1>1. \A k \in Calls : CallDials(k)' => CallDials(k) /\ callClient'[k] = callClient[k]
  BY DEF CallDials, Goto
<1>2. QED BY <1>1, OtherStepRefines, CallDialKept

LEMMA LoginRefines ==
    ASSUME SvcTypeOK, DialInv, CallDialInv, NEW k \in Calls, Login(k)
    PROVE  [Next]_waVars /\ CallDialInv'
<1> USE DEF SvcTypeOK
<1>1. CASE LoginBegins(k)
  BY <1>1, CallRefines DEF LoginBegins, OtherStep
<1>2. CASE LoginGuard(k)
  BY <1>2, CallRefines DEF LoginGuard, OtherStep
<1>3. CASE LoginBranch(k)
  BY <1>3, CallRefines DEF LoginBranch, OtherStep
<1>4. CASE AutoConnectGuard(k)
  BY <1>4, CallRefines DEF AutoConnectGuard, OtherStep
<1>5. CASE AutoConnectDial(k)
  <2>1. /\ DialSteps(k, "dial", "dialing", "none")
        /\ UNCHANGED <<handlerVars, cur, retryVars, eventsCh>>
    BY <1>5 DEF AutoConnectDial
  <2>2. /\ "dialing" \in {"dialing", "qrdialing"}
        /\ "dial" \notin {"dialing", "qrdialing"} /\ "none" \notin {"dialing", "qrdialing"}
    OBVIOUS
  <2>3. QED BY <2>1, <2>2, CallDialSteps
<1>6. CASE LoginGetQR(k)
  BY <1>6, CallRefines DEF LoginGetQR, OtherStep
<1>7. CASE LoginQRDial(k)
  <2>1. /\ DialSteps(k, "qrdial", "qrdialing", "pending")
        /\ UNCHANGED <<handlerVars, cur, retryVars, eventsCh>>
    BY <1>7 DEF LoginQRDial
  <2>2. /\ "qrdialing" \in {"dialing", "qrdialing"}
        /\ "qrdial" \notin {"dialing", "qrdialing"} /\ "pending" \notin {"dialing", "qrdialing"}
    OBVIOUS
  <2>3. QED BY <2>1, <2>2, CallDialSteps
<1>8. CASE LoginPending(k)
  BY <1>8, CallRefines DEF LoginPending, OtherStep
<1>9. CASE CallFails(k)
  BY <1>9, CallRefines DEF CallFails, OtherStep
<1>10. QED BY <1>1, <1>2, <1>3, <1>4, <1>5, <1>6, <1>7, <1>8, <1>9 DEF Login

LEMMA LogoutRefines ==
    ASSUME SvcTypeOK, CallDialInv, NEW k \in Calls, Logout(k)
    PROVE  [Next]_waVars /\ CallDialInv'
<1> USE DEF SvcTypeOK
<1>1. CASE LogoutBegins(k)
  BY <1>1, CallRefines DEF LogoutBegins, OtherStep, CallStopReconnect
<1>2. CASE LogoutIsConnected(k)
  BY <1>2, CallRefines DEF LogoutIsConnected, OtherStep
<1>3. CASE LogoutUnlink(k)
  BY <1>3, CallRefines DEF LogoutUnlink, OtherStep
<1>4. CASE LogoutDisconnect(k)
  <2>1. CallDisconnect(cur) /\ cur \in Clients
    BY <1>4 DEF LogoutDisconnect, CallDisconnect, TypeOK
  <2>2. QED BY <1>4, <2>1, CallRefines DEF LogoutDisconnect, OtherStep
<1>5. CASE LogoutDelete(k)
  <2>1. CallDelete \/ UNCHANGED waVars
    BY <1>5 DEF LogoutDelete, CallDelete, clientSide, waVars, libVars, handlerVars
  <2>2. QED BY <1>5, <2>1, CallRefines DEF LogoutDelete, OtherStep
<1>6. CASE LogoutStops(k)
  BY <1>6, CallRefines DEF LogoutStops, OtherStep, CallStopReconnect
<1>7. CASE LogoutReplaces(k)
  <2>1. CallReplaceClient \/ UNCHANGED waVars
    BY <1>7 DEF LogoutReplaces, CallReplaceClient, clientSide, waVars, libVars, handlerVars
  <2>2. QED BY <1>7, <2>1, CallRefines DEF LogoutReplaces, OtherStep
<1>8. QED BY <1>1, <1>2, <1>3, <1>4, <1>5, <1>6, <1>7 DEF Logout

(* The library, the network and the goroutines, seen from WAClient. *)
LEMMA SurroundingsRefine ==
    ASSUME SvcTypeOK, CallDialInv, EmitterInv,
           \/ EventLoop \/ Pairing \/ Surroundings \/ Traffic
           \/ \E q \in QRs : QRGoroutine(q) \/ EmitterStops(q)
           \/ \E h \in Handlers : HandlerTurn(h) \/ LibraryTurn(h)
           \/ \E l \in Loops : LoopTurn(l)
           \/ (Rejected /\ UNCHANGED <<status, callVars>>)
    PROVE  [Next]_waVars /\ CallDialInv'
<1> USE DEF SvcTypeOK
<1> SUFFICES OtherStep /\ UNCHANGED <<callPC, callClient>>
  BY CallRefines
<1> USE DEF OtherStep, callVars, Quiet
<1>1. CASE EventLoop
  BY <1>1 DEF EventLoop
<1>2. ASSUME NEW q \in QRs, QRGoroutine(q) \/ EmitterStops(q)
      PROVE  OtherStep /\ UNCHANGED <<callPC, callClient>>
  BY <1>2 DEF QRGoroutine, EmitterStops
<1>3. ASSUME NEW h \in Handlers, HandlerTurn(h) PROVE OtherStep /\ UNCHANGED <<callPC, callClient>>
  BY <1>3 DEF HandlerTurn, Deliver, Handler
<1>4. ASSUME NEW h \in Handlers, LibraryTurn(h) PROVE OtherStep /\ UNCHANGED <<callPC, callClient>>
  BY <1>4 DEF LibraryTurn, LibraryStep, Library
<1>5. ASSUME NEW l \in Loops, LoopTurn(l) PROVE OtherStep /\ UNCHANGED <<callPC, callClient>>
  BY <1>5 DEF LoopTurn, LoopStep
<1>6. CASE Pairing
  <2>1. CASE Paired
    BY <1>6, <2>1 DEF Pairing, Paired, PairStep
  <2>2. ASSUME NEW q \in QRs, QRCodesRunOut(q) PROVE OtherStep /\ UNCHANGED <<callPC, callClient>>
    <3>1. qrClient[q] \in Clients
      BY <2>2 DEF QRCodesRunOut, EmitterInv
    <3>2. QED BY <1>6, <2>2, <3>1 DEF Pairing, QRCodesRunOut, CallDisconnect
  <2>3. CASE PairingFails
    BY <1>6, <2>3 DEF Pairing, PairingFails, CallDisconnect
  <2>4. ASSUME NEW c \in Clients, QRCodes(c) PROVE OtherStep /\ UNCHANGED <<callPC, callClient>>
    BY <1>6, <2>4 DEF Pairing, QRCodes, waVars, libVars, handlerVars
  <2>5. QED BY <1>6, <2>1, <2>2, <2>3, <2>4 DEF Pairing
<1>7. CASE Rejected /\ UNCHANGED <<status, callVars>>
  BY <1>7 DEF Rejected, LibraryStep, Network
<1>8. CASE Surroundings
  BY <1>8 DEF Surroundings, LibraryStep, Network
<1>9. CASE Traffic
  BY <1>9 DEF Traffic
<1>10. QED BY <1>1, <1>2, <1>3, <1>4, <1>5, <1>6, <1>7, <1>8, <1>9

LEMMA SvcRefines ==
    SvcTypeOK /\ DialInv /\ CallDialInv /\ EmitterInv /\ [SvcNext /\ UNCHANGED world]_<<svcVars, world>>
        => [Next]_waVars /\ CallDialInv'
<1> SUFFICES ASSUME SvcTypeOK, DialInv, CallDialInv, EmitterInv,
                    [SvcNext /\ UNCHANGED world]_<<svcVars, world>>
             PROVE  [Next]_waVars /\ CallDialInv'
  OBVIOUS
<1>1. CASE UNCHANGED <<svcVars, world>>
  BY <1>1, CallRefines DEF svcVars, callVars, OtherStep, SvcTypeOK
<1>2. CASE SvcNext
  BY <1>2, LoginRefines, LogoutRefines, SurroundingsRefine DEF SvcNext
<1>3. QED BY <1>1, <1>2

-----------------------------------------------------------------------------
(* Types: those of the client come with its steps, the service's own follow. *)

OwnTypeOK ==
    /\ status \in Statuses
    /\ callPC \in [Calls -> CallPCs]
    /\ callClient \in [Calls -> Clients \cup {NoClient}]
    /\ callQR \in [Calls -> QRs \cup {NoQR}]
    /\ qrItem \in [QRs -> QRItems]
    /\ qrClient \in [QRs -> Clients \cup {NoClient}]
    /\ qrRead \in [QRs -> BOOLEAN]
    /\ qrEmit \in [QRs -> Emitters]

LEMMA LoginTypes ==
    ASSUME TypeOK, OwnTypeOK, NEW k \in Calls, Login(k)
    PROVE  OwnTypeOK'
<1> USE DEF OwnTypeOK, Goto, SetStatus, CallPCs, Statuses
<1>c. cur \in Clients
  BY DEF TypeOK
<1>1. CASE LoginBegins(k) \/ LoginGuard(k) \/ LoginBranch(k) \/ AutoConnectGuard(k)
  BY <1>1 DEF LoginBegins, LoginGuard, LoginBranch, AutoConnectGuard, qrVars
<1>2. ASSUME NEW before, NEW during \in CallPCs, NEW done \in CallPCs,
             DialSteps(k, before, during, done), UNCHANGED <<status, callQR, qrVars>>
      PROVE  OwnTypeOK'
  BY <1>c, <1>2 DEF DialSteps, qrVars
<1>3. CASE AutoConnectDial(k)
  <2>1. DialSteps(k, "dial", "dialing", "none") /\ UNCHANGED <<status, callQR, qrVars>>
    BY <1>3 DEF AutoConnectDial
  <2>2. "dialing" \in CallPCs /\ "none" \in CallPCs
    OBVIOUS
  <2>3. QED BY <1>2, <2>1, <2>2
<1>4. CASE LoginQRDial(k)
  <2>1. DialSteps(k, "qrdial", "qrdialing", "pending") /\ UNCHANGED <<status, callQR, qrVars>>
    BY <1>4 DEF LoginQRDial
  <2>2. "qrdialing" \in CallPCs /\ "pending" \in CallPCs
    OBVIOUS
  <2>3. QED BY <1>2, <2>1, <2>2
<1>5. CASE LoginGetQR(k)
  BY <1>c, <1>5 DEF LoginGetQR, QRItems, qrVars
<1>6. CASE LoginPending(k)
  BY <1>6 DEF LoginPending
<1>7. CASE CallFails(k)
  BY <1>7 DEF CallFails, LeaveQR, QRItems
<1>8. QED BY <1>1, <1>3, <1>4, <1>5, <1>6, <1>7 DEF Login

LEMMA LogoutTypes ==
    ASSUME OwnTypeOK, NEW k \in Calls, Logout(k)
    PROVE  OwnTypeOK'
BY DEF OwnTypeOK, Goto, CallPCs, Logout, LogoutBegins, LogoutIsConnected, LogoutUnlink,
       LogoutDisconnect, EmittersTold, Emitters, LogoutDelete, LogoutStops, LogoutReplaces, qrVars

LEMMA LastItemTypes ==
    ASSUME OwnTypeOK, NEW c, NEW Q, NEW item \in QRItems, LastItem(c, Q, item)
    PROVE  /\ qrItem' \in [QRs -> QRItems]
           /\ qrClient' \in [QRs -> Clients \cup {NoClient}]
           /\ qrEmit' \in [QRs -> Emitters]
           /\ UNCHANGED qrRead
<1>1. "free" \in QRItems
  BY DEF QRItems
<1>2. QED BY <1>1 DEF OwnTypeOK, LastItem, EmittersTold, Emitters

LEMMA OwnTypes == TypeOK /\ OwnTypeOK /\ [SvcNext]_svcVars => OwnTypeOK'
<1> SUFFICES ASSUME TypeOK, OwnTypeOK, [SvcNext]_svcVars PROVE OwnTypeOK'
  OBVIOUS
<1> USE DEF OwnTypeOK, callVars
<1>1. ASSUME NEW k \in Calls, Login(k) \/ Logout(k) PROVE OwnTypeOK'
  BY <1>1, LoginTypes, LogoutTypes
<1>2. ASSUME NEW q \in QRs, QRGoroutine(q) \/ EmitterStops(q) PROVE OwnTypeOK'
  BY <1>2 DEF QRGoroutine, EmitterStops, SetStatus, Statuses, QRItems, Emitters
<1>3. CASE EventLoop
  BY <1>3 DEF EventLoop, SetStatus, Statuses, qrVars
<1>4. ASSUME NEW c, NEW Q, NEW item \in QRItems, LastItem(c, Q, item), UNCHANGED <<status, callVars>>
      PROVE  OwnTypeOK'
  BY <1>4, LastItemTypes
<1>5. "success" \in QRItems /\ "timeout" \in QRItems /\ "closed" \in QRItems
  BY DEF QRItems
<1>6. ASSUME NEW h \in Handlers, HandlerTurn(h) PROVE OwnTypeOK'
  BY <1>4, <1>5, <1>6 DEF HandlerTurn, Deliver, Quiet, qrVars
<1>7. CASE Pairing \/ (Rejected /\ UNCHANGED <<status, callVars>>)
  <2>1. ASSUME NEW c \in Clients, QRCodes(c), UNCHANGED <<status, callVars>> PROVE OwnTypeOK'
    BY <2>1 DEF QRCodes, Emitters
  <2>2. QED BY <1>4, <1>5, <1>7, <2>1 DEF Pairing, Paired, QRCodesRunOut, PairingFails, Rejected
<1>8. ASSUME Quiet PROVE OwnTypeOK'
  BY <1>8 DEF Quiet, qrVars
<1>9. CASE Surroundings \/ Traffic \/ (\E h \in Handlers : LibraryTurn(h))
           \/ (\E l \in Loops : LoopTurn(l))
  BY <1>8, <1>9 DEF Surroundings, Traffic, LibraryTurn, LoopTurn
<1>10. CASE UNCHANGED svcVars
  BY <1>10 DEF svcVars, qrVars
<1> HIDE DEF OwnTypeOK, callVars
<1>11. CASE SvcNext
  BY <1>1, <1>2, <1>3, <1>6, <1>7, <1>9, <1>11 DEF SvcNext
<1>12. QED BY <1>10, <1>11

-----------------------------------------------------------------------------

LEMMA EmittersNext ==
    ASSUME SvcTypeOK, EmitterInv, [SvcNext]_svcVars
    PROVE  EmitterInv'
<1> USE DEF EmitterInv, SvcTypeOK
<1>1. ASSUME UNCHANGED qrVars PROVE EmitterInv'
  BY <1>1 DEF qrVars
<1>2. ASSUME NEW c, NEW Q, NEW item \in {"success", "timeout", "closed"}, LastItem(c, Q, item),
             \A q \in Q : qrItem[q] = "open"
      PROVE  EmitterInv'
  BY <1>2 DEF LastItem, EmittersTold
<1>3. ASSUME NEW k \in Calls, Login(k) PROVE EmitterInv'
  <2>1. CASE LoginGetQR(k)
    BY <1>1, <2>1 DEF LoginGetQR, TypeOK
  <2>2. CASE LoginPending(k)
    BY <2>2 DEF LoginPending
  <2>3. CASE CallFails(k)
    BY <2>3 DEF CallFails, LeaveQR
  <2>4. QED BY <1>1, <1>3, <2>1, <2>2, <2>3
            DEF Login, LoginBegins, LoginGuard, LoginBranch, AutoConnectGuard, AutoConnectDial, LoginQRDial
<1>4. ASSUME NEW k \in Calls, Logout(k) PROVE EmitterInv'
  <2>1. CASE LogoutDisconnect(k)
    BY <2>1 DEF LogoutDisconnect, EmittersTold
  <2>2. QED BY <1>1, <1>4, <2>1
            DEF Logout, LogoutBegins, LogoutIsConnected, LogoutUnlink, LogoutDelete, LogoutStops, LogoutReplaces
<1>5. ASSUME NEW q \in QRs, QRGoroutine(q) \/ EmitterStops(q) PROVE EmitterInv'
  BY <1>5 DEF QRGoroutine, EmitterStops
<1>6. ASSUME NEW h \in Handlers, HandlerTurn(h) PROVE EmitterInv'
  BY <1>1, <1>2, <1>6 DEF HandlerTurn, Deliver, OpenQRs, Quiet
<1>7. CASE Pairing \/ Rejected
  <2>1. ASSUME NEW c \in Clients, QRCodes(c) PROVE EmitterInv'
    BY <2>1 DEF QRCodes, OpenQRs
  <2>2. ASSUME NEW q \in QRs, QRCodesRunOut(q) PROVE EmitterInv'
    BY <1>2, <2>2 DEF QRCodesRunOut
  <2>3. ASSUME NEW c \in Clients, NEW item \in {"success", "timeout", "closed"},
               LastItem(c, OpenQRs(c), item)
        PROVE  EmitterInv'
    BY <1>2, <2>3 DEF OpenQRs
  <2>4. QED BY <1>7, <2>1, <2>2, <2>3 DEF Pairing, Paired, PairingFails, Rejected
<1>8. CASE EventLoop \/ Surroundings \/ Traffic \/ (\E h \in Handlers : LibraryTurn(h))
           \/ (\E l \in Loops : LoopTurn(l)) \/ UNCHANGED svcVars
  BY <1>1, <1>8 DEF EventLoop, Surroundings, Traffic, LibraryTurn, LoopTurn, Quiet, svcVars
<1>9. QED BY <1>3, <1>4, <1>5, <1>6, <1>7, <1>8 DEF SvcNext

SvcInv == SvcTypeOK /\ HandlerShape /\ DialInv /\ CallDialInv /\ EmitterInv

LEMMA SvcInvInit == SvcInit => SvcInv
<1> SUFFICES ASSUME SvcInit PROVE SvcInv
  OBVIOUS
<1>1. TypeOK /\ HandlerShape /\ DialInv
  BY TypeInit, DialInit DEF SvcInit
<1>2. SvcTypeOK
  BY <1>1 DEF SvcInit, SvcTypeOK, Statuses, CallPCs, QRItems, Emitters
<1>3. CallDialInv
  BY DEF SvcInit, CallDialInv, CallDials
<1>4. EmitterInv
  BY DEF SvcInit, EmitterInv
<1>5. QED BY <1>1, <1>2, <1>3, <1>4 DEF SvcInv

LEMMA SvcInvNext == SvcInv /\ [SvcNext /\ UNCHANGED world]_<<svcVars, world>> => SvcInv' /\ [Next]_waVars
<1> SUFFICES ASSUME SvcInv, [SvcNext /\ UNCHANGED world]_<<svcVars, world>>
             PROVE  SvcInv' /\ [Next]_waVars
  OBVIOUS
<1>1. [Next]_waVars /\ CallDialInv'
  BY SvcRefines DEF SvcInv
<1>2. TypeOK' /\ HandlerShape' /\ DialInv'
  BY <1>1, TypeNext, ShapeNext, DialNext DEF SvcInv, SvcTypeOK
<1>3. OwnTypeOK'
  BY OwnTypes DEF SvcInv, SvcTypeOK, OwnTypeOK
<1>4. world' = world
  OBVIOUS
<1>5. SvcTypeOK'
  BY <1>2, <1>3, <1>4 DEF SvcInv, SvcTypeOK, OwnTypeOK
<1>6. EmitterInv'
  BY EmittersNext DEF SvcInv
<1>7. QED BY <1>1, <1>2, <1>5, <1>6 DEF SvcInv

(* The types of the service's and of the client's variables. *)
THEOREM SvcTypeCorrect == SvcSpec => []SvcTypeOK
<1>1. SvcInv => SvcTypeOK
  BY DEF SvcInv
<1>2. QED BY <1>1, SvcInvInit, SvcInvNext, PTL DEF SvcSpec

(* The service keeps to WAClient's methods: whatever calls, codes, pairings  *)
(* and logouts interleave, every step is one that WAClient allows an         *)
(* arbitrary caller.                                                         *)
THEOREM ServiceRefinement == SvcSpec => ImplementsWAClient
<1>1. SvcInit => Init
  BY DEF SvcInit
<1>2. SvcInv /\ [SvcNext /\ UNCHANGED world]_<<svcVars, world>> => [Next]_waVars
  BY SvcInvNext
<1>3. QED BY <1>1, <1>2, SvcInvInit, SvcInvNext, PTL DEF SvcSpec, ImplementsWAClient, Spec

(* What WAClient_proofs proves for arbitrary callers, of the daemon itself:  *)
(* no retry loop escapes StopReconnect, and dials of one client exclude each *)
(* other.                                                                    *)
THEOREM DaemonKeepsClientInvariants == SvcSpec => []SlotGuardsLoops /\ []DialsExclusive
BY ServiceRefinement, SlotCorrect, DialsCorrect, PTL DEF ImplementsWAClient

(* Two refinements joined: startReconnectLoop and StopReconnect, called as   *)
(* AutoConnect, RequestLogin, Logout and the event handlers call them, keep  *)
(* to the abstract policy: one retry goroutine in charge, relieved for good. *)
THEOREM DaemonKeepsRetryPolicy == SvcSpec => ImplementsRetryPolicy
BY ServiceRefinement, RetryRefinement, PTL DEF ImplementsWAClient

=============================================================================

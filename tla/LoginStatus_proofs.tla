------------------------- MODULE LoginStatus_proofs -------------------------
(***************************************************************************)
(* Theorems about the two passing states of MessengerLogin, with any number*)
(* of overlapping calls, of goroutines, of clients and of QR channels.     *)
(*                                                                         *)
(* "qr_pending": a login that waits for its QR channel is cut off in the   *)
(* named ways only, in every world. WireInv is what the clients and their  *)
(* goroutines owe to that, ChannelInv says who holds a channel and OpenInv *)
(* which client an open one can belong to.                                 *)
(*                                                                         *)
(* "connecting": somebody is there to end it, in the worlds where a        *)
(* connection that ends leaves a word behind (Undisturbed). LinkInv ties   *)
(* the socket, the pairing and the library's goroutines together; Connect- *)
(* Inv says what is left when nobody is busy connecting and no event is on *)
(* its way.                                                                *)
(***************************************************************************)
EXTENDS MessengerLogin_proofs

Step == [SvcNext /\ UNCHANGED world]_<<svcVars, world>>

Up == {"open", "ready", "closed"}       \* a connection, perhaps dead by now
Restarts(h) == hEvent[h] = "Restart"

-----------------------------------------------------------------------------
(* The clients, in every world and for arbitrary callers of WAClient.        *)

(* A dial has no mark; a client that is not there yet has nothing; and a     *)
(* goroutine that redials works for a client that was paired.                *)
WireInv ==
    /\ \A c \in Clients : sock[c] = "dialing" => ~expected[c]
    /\ \A c \in Clients : c > cur => sock[c] = "nil" /\ device[c] = "none"
    /\ \A h \in Handlers :
          /\ hPC[h] = "idle" => hEvent[h] = "none"
          /\ hPC[h] \in {"redial", "dialing"} => Restarts(h)
          /\ Restarts(h) => hClient[h] \in Clients /\ device[hClient[h]] # "none"

(* A dial of the current client begins, one of any client ends: the part of  *)
(* WireInv about clients. *)
LEMMA WireOfDials ==
    ASSUME TypeOK, WireInv, UNCHANGED <<handlerVars, cur>>, NEW c \in Clients,
           (c = cur /\ BeginDial(c)) \/ CloseSocket(c) \/ \E ok \in BOOLEAN : EndDial(c, ok)
    PROVE  WireInv'
<1> USE DEF TypeOK, LibTypeOK
<1>1. \A d \in Clients : d > cur => d # cur
  BY DEF Clients
<1>2. /\ UNCHANGED device
      /\ \A d \in Clients : d # c => sock'[d] = sock[d] /\ expected'[d] = expected[d]
      /\ sock'[c] = "dialing" => ~expected'[c]
      /\ c > cur => sock'[c] = "nil"
  BY <1>1 DEF WireInv, BeginDial, CloseSocket, EndDial
<1>3. QED BY <1>2 DEF WireInv, Restarts, handlerVars

LEMMA WireNext == TypeOK /\ HandlerShape /\ DialInv /\ WireInv /\ [Next]_waVars => WireInv'
<1> SUFFICES ASSUME TypeOK, HandlerShape, DialInv, WireInv, [Next]_waVars PROVE WireInv'
  OBVIOUS
<1> USE DEF TypeOK, LibTypeOK, Restarts
<1>1. ASSUME UNCHANGED <<sock, device, expected, hPC, hEvent, hClient, cur>> PROVE WireInv'
  BY <1>1 DEF WireInv
<1>2. CASE LibraryStep
  <2>1. ASSUME NEW c \in Clients, RemoteClose(c) \/ SilentRejection(c), UNCHANGED cur PROVE WireInv'
    BY <2>1 DEF WireInv, RemoteClose, SilentRejection, IsConnected
  <2>2. ASSUME NEW c \in Clients, NEW h \in Handlers, UNCHANGED cur,
               AuthSuccess(c, h) \/ RemoteLogout(c, h) \/ RestartRequired(c, h) \/ OnDisconnect(c, h)
        PROVE  WireInv'
    <3>1. CASE AuthSuccess(c, h)
      BY <2>2, <3>1 DEF WireInv, AuthSuccess, Spawn
    <3>2. CASE RemoteLogout(c, h)
      BY <2>2, <3>2 DEF WireInv, RemoteLogout, Spawn, HasID, IsConnected
    <3>3. CASE RestartRequired(c, h)
      BY <2>2, <3>3 DEF WireInv, RestartRequired, Spawn, HasID
    <3>4. CASE OnDisconnect(c, h)
      BY <2>2, <3>4 DEF WireInv, OnDisconnect, Spawn, handlerVars
    <3>5. QED BY <2>2, <3>1, <3>2, <3>3, <3>4
  <2>3. ASSUME NEW h \in Handlers, UNCHANGED cur, RestartDisconnect(h) PROVE WireInv'
    BY <2>3 DEF WireInv, RestartDisconnect, CloseSocket
  <2>4. ASSUME NEW h \in Handlers, UNCHANGED cur, RestartConnect(h) PROVE WireInv'
    <3>1. CASE BeginDial(hClient[h]) /\ hPC' = [hPC EXCEPT ![h] = "dialing"] /\ UNCHANGED <<hEvent, hClient>>
      BY <2>4, <3>1 DEF WireInv, RestartConnect, BeginDial
    <3>2. CASE Finish(h) /\ UNCHANGED <<sock, device, expected>>
      BY <2>4, <3>2 DEF WireInv, Finish
    <3>3. QED BY <2>4, <3>1, <3>2 DEF RestartConnect
  <2>5. ASSUME NEW h \in Handlers, NEW ok \in BOOLEAN, UNCHANGED cur, RestartDialed(h, ok) PROVE WireInv'
    BY <2>5 DEF WireInv, RestartDialed, EndDial, Finish
  <2>6. QED BY <1>2, <2>1, <2>2, <2>3, <2>4, <2>5 DEF LibraryStep, Network, Library
<1>3. CASE PairStep
  BY <1>3 DEF WireInv, PairStep, Pair, handlerVars
<1>4. CASE Handler
  BY <1>4 DEF WireInv, Handler, HandlerStop, HandlerHasSession, HandlerStart, HandlerEnqueue, Finish
<1>5. ASSUME NEW l \in Loops, LoopStep(l) PROVE WireInv'
  <2>1. CASE LoopTimer(l) \/ LoopDone(l) \/ LoopCheck(l) \/ LoopExit(l)
    BY <1>1, <2>1 DEF LoopTimer, LoopDone, LoopCheck, LoopExit, libVars
  <2>2. CASE LoopConnect(l)
    BY <1>1, <2>2, WireOfDials DEF LoopConnect, handlerVars
  <2>3. ASSUME NEW ok \in BOOLEAN, LoopDialed(l, ok) PROVE WireInv'
    <3>1. loopClient[l] \in Clients
      BY <2>3 DEF LoopDialed, DialInv, DialersHoldLocks, LoopDials
    <3>2. QED BY <2>3, <3>1, WireOfDials DEF LoopDialed
  <2>4. QED BY <1>5, <2>1, <2>2, <2>3 DEF LoopStep
<1>6. CASE Caller
  <2>1. CASE CallStopReconnect \/ Receive
    BY <1>1, <2>1 DEF CallStopReconnect, Receive, libVars
  <2>2. CASE CallConnect \/ (\E c \in Clients : CallDisconnect(c))
             \/ (\E c \in Clients, ok \in BOOLEAN : CallConnectReturns(c, ok))
    BY <2>2, WireOfDials DEF CallConnect, CallDisconnect, CallConnectReturns
  <2>3. CASE CallDelete
    BY <2>3 DEF WireInv, CallDelete, DeleteDevice, handlerVars
  <2>4. CASE CallReplaceClient
    BY <2>4 DEF WireInv, CallReplaceClient, ReplaceClient, handlerVars, Clients
  <2>5. QED BY <1>6, <2>1, <2>2, <2>3, <2>4 DEF Caller
<1>7. CASE (\E c \in Clients : OtherEvent(c)) \/ UNCHANGED waVars
  BY <1>1, <1>7 DEF OtherEvent, waVars, libVars
<1>8. QED BY <1>2, <1>3, <1>4, <1>5, <1>6, <1>7 DEF Next

-----------------------------------------------------------------------------
(* The QR channels, in every world.                                          *)

(* One call holds a channel until it returns, then its goroutine.            *)
ChannelInv ==
    /\ \A k \in Calls : callPC[k] \in {"qrdial", "qrdialing", "pending"} => callQR[k] \in QRs
    /\ \A k \in Calls : callQR[k] \in QRs => ~qrRead[callQR[k]] /\ qrItem[callQR[k]] # "free"
    /\ \A q \in QRs : qrRead[q] => qrItem[q] # "free"
    /\ \A j, k \in Calls : callQR[j] \in QRs /\ callQR[j] = callQR[k] => j = k

(* An open channel was made for a client that is not paired: the scan that   *)
(* pairs it ends its channels.                                               *)
OpenInv ==
    \A q \in QRs :
        /\ qrItem[q] # "free" => qrClient[q] <= cur
        /\ qrItem[q] = "open" => device[qrClient[q]] # "paired"

(* What a last item does: to a channel somebody holds, and to one left behind*)
LEMMA LastItemMoves ==
    ASSUME OwnTypeOK, NEW c, NEW Q, NEW item, LastItem(c, Q, item), NEW q \in QRs
    PROVE  /\ q \notin Q => qrItem'[q] = qrItem[q] /\ qrClient'[q] = qrClient[q]
           /\ q \in Q /\ Owned(q) => qrItem'[q] = item /\ qrClient'[q] = qrClient[q]
           /\ q \in Q /\ ~Owned(q) => qrItem'[q] = "free"
BY DEF OwnTypeOK, LastItem

(* The steps that may end channels leave their holders alone. *)
LEMMA ItemsMove ==
    ASSUME SvcInv, Pairing \/ (Rejected /\ UNCHANGED <<status, callVars>>)
                   \/ \E h \in Handlers : HandlerTurn(h)
    PROVE  /\ UNCHANGED <<callVars, qrRead>>
           /\ \A q \in QRs :
                 \/ qrItem'[q] = qrItem[q] /\ qrClient'[q] = qrClient[q]
                 \/ /\ qrItem[q] = "open"
                    /\ IF Owned(q) THEN /\ qrItem'[q] \in {"success", "timeout", "closed"}
                                        /\ qrClient'[q] = qrClient[q]
                       ELSE qrItem'[q] = "free"
<1>t. OwnTypeOK
  BY DEF SvcInv, SvcTypeOK, OwnTypeOK
<1>1. UNCHANGED <<callVars, qrRead>>
  BY DEF Pairing, Paired, QRCodes, QRCodesRunOut, PairingFails, Rejected, HandlerTurn, Deliver, Quiet,
         qrVars, LastItem
<1>2. CASE UNCHANGED <<qrItem, qrClient>>
  BY <1>1, <1>2
<1>3. ASSUME NEW c, NEW Q, NEW item \in {"success", "timeout", "closed"}, LastItem(c, Q, item),
             NEW q \in QRs, \A p \in Q : qrItem[p] = "open"
      PROVE  \/ qrItem'[q] = qrItem[q] /\ qrClient'[q] = qrClient[q]
             \/ /\ qrItem[q] = "open"
                /\ IF Owned(q) THEN /\ qrItem'[q] \in {"success", "timeout", "closed"}
                                    /\ qrClient'[q] = qrClient[q]
                   ELSE qrItem'[q] = "free"
  BY <1>3, <1>t, LastItemMoves
<1>4. \/ UNCHANGED <<qrItem, qrClient>>
      \/ \E c, Q, item : /\ item \in {"success", "timeout", "closed"}
                         /\ LastItem(c, Q, item) /\ \A p \in Q : qrItem[p] = "open"
  <2>1. ASSUME NEW c, NEW item \in {"success", "timeout", "closed"}, LastItem(c, OpenQRs(c), item)
        PROVE  \E C, Q, i : /\ i \in {"success", "timeout", "closed"}
                            /\ LastItem(C, Q, i) /\ \A p \in Q : qrItem[p] = "open"
    <3>1. \A p \in OpenQRs(c) : qrItem[p] = "open"
      BY DEF OpenQRs
    <3>2. QED BY <2>1, <3>1
  <2>2. ASSUME NEW p \in QRs, QRCodesRunOut(p)
        PROVE  \E C, Q, i : /\ i \in {"success", "timeout", "closed"}
                            /\ LastItem(C, Q, i) /\ \A r \in Q : qrItem[r] = "open"
    <3>1. \A r \in {p} : qrItem[r] = "open"
      BY <2>2 DEF QRCodesRunOut, SvcInv, EmitterInv
    <3>2. LastItem(qrClient[p], {p}, "timeout")
      BY <2>2 DEF QRCodesRunOut
    <3>3. QED BY <3>1, <3>2
  <2>3. ASSUME NEW h \in Handlers, HandlerTurn(h)
        PROVE  \/ UNCHANGED <<qrItem, qrClient>>
               \/ \E c, item : item \in {"success", "timeout", "closed"} /\ LastItem(c, OpenQRs(c), item)
    BY <2>3 DEF HandlerTurn, Deliver, Quiet, qrVars
  <2>4. CASE Pairing \/ (Rejected /\ UNCHANGED <<status, callVars>>)
    <3>1. \/ UNCHANGED <<qrItem, qrClient>>
          \/ \E c, item : item \in {"success", "timeout", "closed"} /\ LastItem(c, OpenQRs(c), item)
          \/ \E p \in QRs : QRCodesRunOut(p)
      BY <2>4 DEF Pairing, Paired, QRCodes, PairingFails, Rejected
    <3>2. QED BY <3>1, <2>1, <2>2
  <2>5. QED BY <2>1, <2>3, <2>4
<1>5. QED BY <1>1, <1>3, <1>4

LEMMA ChannelNext == SvcInv /\ ChannelInv /\ Step => ChannelInv'
<1> SUFFICES ASSUME SvcInv, ChannelInv, Step PROVE ChannelInv'
  OBVIOUS
<1> USE DEF ChannelInv
<1>t. OwnTypeOK /\ OwnTypeOK'
  <2>1. SvcInv'
    BY SvcInvNext DEF Step
  <2>2. QED BY <2>1 DEF SvcInv, SvcTypeOK, OwnTypeOK
<1>1. ASSUME UNCHANGED <<callQR, qrRead>>,
             \A q \in QRs : Owned(q) /\ qrItem[q] # "free" => qrItem'[q] # "free",
             \A k \in Calls : callPC'[k] \in {"qrdial", "qrdialing", "pending"}
                                => callPC[k] \in {"qrdial", "qrdialing", "pending"}
      PROVE  ChannelInv'
  BY <1>1 DEF Owned
<1>2. ASSUME UNCHANGED <<callVars, qrItem, qrRead>> PROVE ChannelInv'
  BY <1>1, <1>2 DEF callVars
<1>3. ASSUME NEW k \in Calls,
             LoginBegins(k) \/ LoginGuard(k) \/ LoginBranch(k) \/ AutoConnectGuard(k) \/ AutoConnectDial(k)
             \/ Logout(k)
      PROVE  ChannelInv'
  BY <1>1, <1>3, <1>t
  DEF OwnTypeOK, LoginBegins, LoginGuard, LoginBranch, AutoConnectGuard, AutoConnectDial, DialSteps, Goto, qrVars,
      Logout, LogoutBegins, LogoutIsConnected, LogoutUnlink, LogoutDisconnect, LogoutDelete, LogoutStops,
      LogoutReplaces
<1>4. ASSUME NEW k \in Calls, LoginQRDial(k) PROVE ChannelInv'
  BY <1>1, <1>4, <1>t DEF OwnTypeOK, LoginQRDial, DialSteps, Goto, At, qrVars
<1>5. ASSUME NEW k \in Calls, LoginGetQR(k) PROVE ChannelInv'
  BY <1>5, <1>t DEF OwnTypeOK, LoginGetQR, Goto, At, qrVars
<1>6. ASSUME NEW k \in Calls, LoginPending(k) PROVE ChannelInv'
  BY <1>6, <1>t, NoQRAssumption DEF OwnTypeOK, LoginPending, Goto, At
<1>7. ASSUME NEW k \in Calls, CallFails(k) PROVE ChannelInv'
  BY <1>7, <1>t, NoQRAssumption DEF OwnTypeOK, CallFails, LeaveQR, Goto, At
<1>8. ASSUME NEW q \in QRs, QRGoroutine(q) PROVE ChannelInv'
  BY <1>8, <1>t DEF OwnTypeOK, QRGoroutine, callVars
<1>9. CASE Pairing \/ (Rejected /\ UNCHANGED <<status, callVars>>)
           \/ \E h \in Handlers : HandlerTurn(h)
  <2>1. UNCHANGED <<callVars, qrRead>>
    BY <1>9, ItemsMove
  <2>2. \A q \in QRs : Owned(q) /\ qrItem[q] # "free" => qrItem'[q] # "free"
    BY <1>9, ItemsMove
  <2>3. QED BY <1>1, <2>1, <2>2 DEF callVars
<1>10. CASE EventLoop \/ Surroundings \/ Traffic \/ (\E h \in Handlers : LibraryTurn(h))
            \/ (\E l \in Loops : LoopTurn(l)) \/ UNCHANGED <<svcVars, world>>
            \/ (\E q \in QRs : EmitterStops(q))
  BY <1>2, <1>10
  DEF EventLoop, Surroundings, Traffic, LibraryTurn, LoopTurn, EmitterStops, Quiet, svcVars, qrVars
<1>11. QED BY <1>3, <1>4, <1>5, <1>6, <1>7, <1>8, <1>9, <1>10 DEF Step, SvcNext, Login

(* Every step but a scan. *)
NoScan ==
    \/ \E k \in Calls : Login(k) \/ Logout(k)
    \/ \E q \in QRs : QRGoroutine(q) \/ EmitterStops(q) \/ QRCodesRunOut(q)
    \/ \E h \in Handlers : HandlerTurn(h) \/ LibraryTurn(h)
    \/ \E l \in Loops : LoopTurn(l)
    \/ \E c \in Clients : QRCodes(c)
    \/ EventLoop \/ Surroundings \/ Traffic \/ PairingFails \/ Rejected

(* No client that is there is paired but by a scan. *)
NobodyPaired ==
    cur <= cur' /\ \A c \in Clients : c <= cur /\ device'[c] = "paired" => device[c] = "paired"

LEMMA DevicesMove ==
    ASSUME SvcInv, NoScan, UNCHANGED cur \/ \E k \in Calls : LogoutReplaces(k)
    PROVE  NobodyPaired
<1> USE DEF SvcInv, SvcTypeOK, TypeOK, LibTypeOK
<1>c. cur \in Nat /\ cur <= cur /\ \A c \in Clients : c <= cur => c # cur + 1
  BY DEF Clients
<1>1. ASSUME UNCHANGED <<device, cur>> PROVE NobodyPaired
  BY <1>1, <1>c DEF NobodyPaired
<1>d. ASSUME UNCHANGED cur, \E c \in Clients : \E d : d # "paired" /\ device' = [device EXCEPT ![c] = d]
      PROVE  NobodyPaired
  BY <1>c, <1>d DEF NobodyPaired
<1>2. ASSUME NEW k \in Calls, Login(k) PROVE NobodyPaired
  BY <1>1, <1>2
  DEF Login, LoginBegins, LoginGuard, LoginBranch, AutoConnectGuard, AutoConnectDial, LoginGetQR, LoginQRDial,
      LoginPending, CallFails, DialSteps, BeginDial, EndDial, clientSide, waVars, libVars
<1>3. ASSUME NEW k \in Calls, Logout(k) PROVE NobodyPaired
  <2>1. CASE LogoutDelete(k)
    <3>1. UNCHANGED cur /\ (DeleteDevice(cur) \/ UNCHANGED device)
      BY <2>1 DEF LogoutDelete, clientSide
    <3>2. CASE DeleteDevice(cur)
      <4>1. UNCHANGED device \/ device' = [device EXCEPT ![cur] = "deleted"]
        BY <3>2 DEF DeleteDevice
      <4>2. QED BY <1>1, <1>d, <3>1, <4>1
    <3>3. QED BY <1>1, <3>1, <3>2
  <2>2. CASE LogoutReplaces(k)
    <3>1. CASE ReplaceClient
      <4>1. cur' = cur + 1 /\ \A c \in Clients : c # cur + 1 => device'[c] = device[c]
        BY <3>1 DEF ReplaceClient
      <4>2. QED BY <1>c, <4>1 DEF NobodyPaired
    <3>2. QED BY <1>1, <2>2, <3>1 DEF LogoutReplaces, clientSide
  <2>3. QED BY <1>1, <1>3, <2>1, <2>2
            DEF Logout, LogoutBegins, LogoutIsConnected, LogoutUnlink, LogoutDisconnect, LogoutStops,
                CloseSocket, waVars, libVars
<1>4. CASE Surroundings
  <2>1. UNCHANGED cur /\ (UNCHANGED device \/ \E c \in Clients : device' = [device EXCEPT ![c] = "deleted"])
    BY <1>4 DEF Surroundings, RemoteClose, AuthSuccess, RestartRequired, RemoteLogout
  <2>2. QED BY <1>1, <1>d, <2>1
<1>5. ASSUME NEW h \in Handlers, HandlerTurn(h) \/ LibraryTurn(h) PROVE NobodyPaired
  BY <1>1, <1>5
  DEF HandlerTurn, HandlerStop, HandlerHasSession, HandlerStart, Deliver, HandlerEnqueue, LibraryTurn,
      OnDisconnect, RestartDisconnect, RestartConnect, RestartDialed, CloseSocket, BeginDial, EndDial
<1>6. ASSUME NEW l \in Loops, LoopTurn(l) PROVE NobodyPaired
  BY <1>1, <1>6
  DEF LoopTurn, LoopTimer, LoopDone, LoopCheck, LoopConnect, LoopDialed, LoopExit, BeginDial, EndDial, libVars
<1>7. ASSUME (\E c \in Clients : QRCodes(c)) \/ PairingFails \/ Rejected \/ EventLoop \/ Traffic
             \/ (\E q \in QRs : QRGoroutine(q) \/ EmitterStops(q) \/ QRCodesRunOut(q))
      PROVE  UNCHANGED device
  BY <1>7
  DEF PairingFails, QRCodes, QRCodesRunOut, CloseSocket, EventLoop, Receive, Traffic, OtherEvent, Rejected,
      SilentRejection, QRGoroutine, EmitterStops, waVars, libVars
<1>8. ASSUME UNCHANGED device, \E k \in Calls : LogoutReplaces(k) PROVE NobodyPaired
  BY <1>1, <1>3, <1>8 DEF Logout
<1>9. QED BY <1>1, <1>2, <1>3, <1>4, <1>5, <1>6, <1>7, <1>8 DEF NoScan

LEMMA OpenNext == SvcInv /\ WireInv /\ OpenInv /\ Step => OpenInv'
<1> SUFFICES ASSUME SvcInv, WireInv, OpenInv, Step PROVE OpenInv'
  OBVIOUS
<1>t. SvcInv'
  BY SvcInvNext DEF Step
<1>n. cur \in Nat /\ cur' \in Nat /\ \A q \in QRs : qrItem[q] # "free" => qrClient[q] \in Clients /\ qrClient[q] \in Nat
  BY <1>t DEF SvcInv, SvcTypeOK, TypeOK, EmitterInv, Clients
<1>1. CASE UNCHANGED <<svcVars, world>>
  BY <1>1 DEF OpenInv, svcVars, waVars, libVars, qrVars
<1>2. CASE Paired /\ Pairing
  <2>1. PICK c \in Clients : Pair(c) /\ LastItem(c, OpenQRs(c), "success")
    BY <1>2 DEF Paired
  <2>2. UNCHANGED cur /\ \A d \in Clients : d # c => device'[d] = device[d]
    BY <1>2, <2>1 DEF Pairing, Pair, SvcInv, SvcTypeOK, TypeOK, LibTypeOK
  <2>3. \A q \in QRs : qrItem'[q] # "free" => qrItem[q] # "free" /\ qrClient'[q] = qrClient[q]
    BY <1>2, ItemsMove
  <2>4. \A q \in QRs : qrItem'[q] = "open" => qrItem[q] = "open" /\ qrClient[q] # c
    BY <2>1 DEF LastItem, OpenQRs, SvcInv, SvcTypeOK
  <2>5. QED BY <1>n, <2>2, <2>3, <2>4 DEF OpenInv
<1>3. ASSUME NobodyPaired,
             \A q \in QRs : /\ qrItem'[q] # "free" => qrItem[q] # "free" /\ qrClient'[q] = qrClient[q]
                            /\ qrItem'[q] = "open" => qrItem[q] = "open"
      PROVE  OpenInv'
  <2>1. ASSUME NEW q \in QRs, qrItem'[q] # "free"
        PROVE  /\ qrClient'[q] <= cur'
               /\ qrItem'[q] = "open" => device'[qrClient'[q]] # "paired"
    <3>a. qrItem[q] # "free" /\ qrClient'[q] = qrClient[q] /\ (qrItem'[q] = "open" => qrItem[q] = "open")
      BY <1>3, <2>1
    <3>1. qrClient'[q] = qrClient[q] /\ qrClient[q] \in Clients /\ qrClient[q] \in Nat /\ qrClient[q] <= cur
      BY <1>n, <3>a DEF OpenInv
    <3>2. qrItem'[q] = "open" => device[qrClient[q]] # "paired"
      BY <3>a DEF OpenInv
    <3>m. cur <= cur' /\ \A c \in Clients : c <= cur /\ device'[c] = "paired" => device[c] = "paired"
      BY <1>3 DEF NobodyPaired
    <3>3. qrClient[q] <= cur'
      <4>1. \A i, j, k \in Nat : i <= j /\ j <= k => i <= k
        OBVIOUS
      <4>2. QED BY <1>n, <3>1, <3>m, <4>1
    <3>4. device'[qrClient[q]] = "paired" => device[qrClient[q]] = "paired"
      BY <3>1, <3>m
    <3>5. QED BY <3>1, <3>2, <3>3, <3>4
  <2>2. QED BY <2>1 DEF OpenInv
<1>d. ASSUME NoScan, UNCHANGED cur \/ \E k \in Calls : LogoutReplaces(k) PROVE NobodyPaired
  BY <1>d, DevicesMove
<1>4. ASSUME NobodyPaired, UNCHANGED <<qrItem, qrClient>> PROVE OpenInv'
  BY <1>3, <1>4
<1>5. ASSUME NEW k \in Calls, Login(k) PROVE OpenInv'
  <2>1. UNCHANGED cur
    BY <1>5
    DEF Login, LoginBegins, LoginGuard, LoginBranch, AutoConnectGuard, AutoConnectDial, LoginGetQR, LoginQRDial,
        LoginPending, CallFails, waVars
  <2>2. NobodyPaired
    BY <1>5, <1>d, <2>1 DEF NoScan
  <2>3. CASE LoginGetQR(k)
    BY <1>4, <1>n, <2>2, <2>3
    DEF LoginGetQR, OpenInv, HasSession, HasID, waVars, libVars, qrVars, SvcInv, SvcTypeOK
  <2>4. CASE CallFails(k)
    BY <1>3, <2>2, <2>4 DEF CallFails, LeaveQR
  <2>5. QED BY <1>4, <1>5, <2>2, <2>3, <2>4
            DEF Login, LoginBegins, LoginGuard, LoginBranch, AutoConnectGuard, AutoConnectDial, LoginQRDial,
                LoginPending, qrVars
<1>6. ASSUME NEW k \in Calls, Logout(k) PROVE OpenInv'
  <2>1. UNCHANGED cur \/ LogoutReplaces(k)
    BY <1>6
    DEF Logout, LogoutBegins, LogoutIsConnected, LogoutUnlink, LogoutDisconnect, LogoutDelete, LogoutStops, waVars
  <2>2. NobodyPaired
    BY <1>6, <1>d, <2>1 DEF NoScan
  <2>3. UNCHANGED <<qrItem, qrClient>>
    BY <1>6
    DEF Logout, LogoutBegins, LogoutIsConnected, LogoutUnlink, LogoutDisconnect, LogoutDelete, LogoutStops,
        LogoutReplaces, qrVars
  <2>4. QED BY <1>4, <2>2, <2>3
<1>7. ASSUME NEW q \in QRs, QRGoroutine(q) \/ EmitterStops(q) PROVE OpenInv'
  <2>1. NobodyPaired
    BY <1>7, <1>d DEF NoScan, QRGoroutine, EmitterStops, waVars
  <2>2. QED BY <1>3, <1>7, <2>1 DEF QRGoroutine, EmitterStops, SvcInv, SvcTypeOK
<1>8. ASSUME NobodyPaired,
             Pairing \/ (Rejected /\ UNCHANGED <<status, callVars>>) \/ \E h \in Handlers : HandlerTurn(h)
      PROVE  OpenInv'
  <2>1. \A q \in QRs : /\ qrItem'[q] # "free" => qrItem[q] # "free" /\ qrClient'[q] = qrClient[q]
                       /\ qrItem'[q] = "open" => qrItem[q] = "open"
    BY <1>8, ItemsMove
  <2>2. QED BY <1>3, <1>8, <2>1
<1>9. ASSUME NEW h \in Handlers, HandlerTurn(h) PROVE OpenInv'
  <2>1. UNCHANGED cur
    BY <1>9 DEF HandlerTurn, HandlerStop, HandlerHasSession, HandlerStart, Deliver, HandlerEnqueue
  <2>2. QED BY <1>8, <1>9, <1>d, <2>1 DEF NoScan
<1>10. CASE Pairing
  <2>1. UNCHANGED cur
    BY <1>10 DEF Pairing
  <2>2. QED BY <1>2, <1>8, <1>10, <1>d, <2>1 DEF NoScan, Pairing
<1>11. CASE Rejected /\ UNCHANGED <<status, callVars>>
  <2>1. UNCHANGED cur
    BY <1>11 DEF Rejected
  <2>2. QED BY <1>8, <1>11, <1>d, <2>1 DEF NoScan
<1>12. CASE EventLoop \/ Surroundings \/ Traffic \/ (\E h \in Handlers : LibraryTurn(h))
            \/ (\E l \in Loops : LoopTurn(l))
  <2>1. UNCHANGED cur
    BY <1>12
    DEF EventLoop, Receive, Surroundings, Traffic, OtherEvent, LibraryTurn, LoopTurn, LoopTimer, LoopDone,
        LoopCheck, LoopConnect, LoopDialed, LoopExit
  <2>2. NobodyPaired
    BY <1>12, <1>d, <2>1 DEF NoScan
  <2>3. QED BY <1>4, <1>12, <2>2 DEF EventLoop, Surroundings, Traffic, LibraryTurn, LoopTurn, Quiet, qrVars
<1>13. QED BY <1>1, <1>5, <1>6, <1>7, <1>9, <1>10, <1>11, <1>12 DEF Step, SvcNext

-----------------------------------------------------------------------------
(* How a login that waits is cut off.                                        *)

(* What a step does not touch goes on answering. *)
LEMMA LinkKept ==
    ASSUME NEW c \in Clients, LinkAnswers(c), device'[c] = device[c],
           sock[c] = "dialing" => sock'[c] = "dialing" \/ (sock'[c] = "open" /\ ~expected'[c]),
           sock[c] \in {"open", "closed"} /\ ~expected[c]
               => \/ sock'[c] = "dialing"
                  \/ sock'[c] \in {"open", "closed"} /\ ~expected'[c]
                  \/ \E h \in Handlers : hEvent'[h] = "Disconnected" /\ hClient'[h] = c,
           \A h \in Handlers : hEvent[h] = "Disconnected" /\ hClient[h] = c
               => hEvent'[h] = "Disconnected" /\ hClient'[h] = c
    PROVE  LinkAnswers(c)'
BY DEF LinkAnswers

(* A dial begins, of whatever client, or ends, but not badly for this one. *)
LEMMA LinkOfDials ==
    ASSUME SvcInv, WireInv, NEW c \in Clients, LinkAnswers(c), ~EndDial(c, FALSE), NEW d \in Clients,
           BeginDial(d) \/ \E ok \in BOOLEAN : EndDial(d, ok),
           \A h \in Handlers : hEvent[h] = "Disconnected" /\ hClient[h] = c
               => hEvent'[h] = "Disconnected" /\ hClient'[h] = c
    PROVE  LinkAnswers(c)'
<1> USE DEF SvcInv, SvcTypeOK, TypeOK, LibTypeOK
<1>1. CASE BeginDial(d)
  BY <1>1, LinkKept DEF BeginDial, LockFree
<1>2. ASSUME NEW ok \in BOOLEAN, EndDial(d, ok) PROVE LinkAnswers(c)'
  <2>1. UNCHANGED <<device, expected>> /\ (d # c => sock'[c] = sock[c])
    BY <1>2 DEF EndDial
  <2>2. d = c => ok /\ sock'[c] = "open"
    BY <1>2 DEF EndDial
  <2>3. sock[c] = "dialing" => ~expected'[c]
    BY <2>1 DEF WireInv
  <2>4. QED BY <1>2, <2>1, <2>2, <2>3, LinkKept DEF EndDial
<1>3. QED BY <1>1, <1>2

(* The network, the library's goroutines and the retry loops: a connection   *)
(* that is lost is reported, and no 515 goroutine works for a client without *)
(* a session.                                                                *)
LEMMA LinkOutlives ==
    ASSUME SvcInv, WireInv, NEW c \in Clients, LinkAnswers(c), ~EndDial(c, FALSE),
           Surroundings \/ (\E h \in Handlers : LibraryTurn(h)) \/ \E l \in Loops : LoopTurn(l)
    PROVE  LinkAnswers(c)'
<1> USE DEF SvcInv, SvcTypeOK, TypeOK, LibTypeOK
<1>n. device[c] = "none"
  BY DEF LinkAnswers
<1>1. ASSUME NEW d \in Clients, RemoteClose(d) PROVE LinkAnswers(c)'
  BY <1>1, LinkKept DEF RemoteClose, IsConnected
<1>2. ASSUME NEW d \in Clients, NEW h \in Handlers,
             AuthSuccess(d, h) \/ RestartRequired(d, h) \/ RemoteLogout(d, h)
      PROVE  LinkAnswers(c)'
  <2>1. d # c /\ hEvent[h] = "none"
    BY <1>2, <1>n DEF AuthSuccess, RestartRequired, RemoteLogout, HasID, Spawn, WireInv
  <2>2. \A g \in Handlers : g # h => hEvent'[g] = hEvent[g] /\ hClient'[g] = hClient[g]
    BY <1>2 DEF AuthSuccess, RestartRequired, RemoteLogout, Spawn
  <2>3. sock'[c] = sock[c] /\ expected'[c] = expected[c] /\ device'[c] = device[c]
    BY <1>2, <2>1 DEF AuthSuccess, RestartRequired, RemoteLogout
  <2>4. QED BY <2>1, <2>2, <2>3, LinkKept
<1>3. ASSUME NEW d \in Clients, NEW h \in Handlers, OnDisconnect(d, h) PROVE LinkAnswers(c)'
  <2>1. \A g \in Handlers : hEvent[g] = "Disconnected" => hEvent'[g] = hEvent[g] /\ hClient'[g] = hClient[g]
    BY <1>3 DEF OnDisconnect, Spawn, WireInv, handlerVars
  <2>2. d = c /\ ~expected[c] => hEvent'[h] = "Disconnected" /\ hClient'[h] = c
    BY <1>3 DEF OnDisconnect, Spawn
  <2>3. UNCHANGED <<device, expected>> /\ (d # c => sock'[c] = sock[c]) /\ sock[d] = "closed"
    BY <1>3 DEF OnDisconnect
  <2>4. QED BY <2>1, <2>2, <2>3, LinkKept
<1>4. ASSUME NEW h \in Handlers, RestartDisconnect(h) PROVE LinkAnswers(c)'
  <2>1. hClient[h] # c
    BY <1>4, <1>n DEF RestartDisconnect, WireInv, Restarts
  <2>2. QED BY <1>4, <2>1, LinkKept DEF RestartDisconnect, CloseSocket
<1>5. ASSUME NEW h \in Handlers, NEW ok \in BOOLEAN, RestartConnect(h) \/ RestartDialed(h, ok)
      PROVE  LinkAnswers(c)'
  <2>1. hEvent[h] = "Restart" /\ hClient[h] \in Clients
    BY <1>5 DEF RestartConnect, RestartDialed, WireInv, Restarts
  <2>2. \A g \in Handlers : hEvent[g] = "Disconnected" => hEvent'[g] = hEvent[g] /\ hClient'[g] = hClient[g]
    BY <1>5, <2>1 DEF RestartConnect, RestartDialed, Finish
  <2>3. CASE UNCHANGED <<sock, device, expected>>
    BY <2>2, <2>3, LinkKept
  <2>4. QED BY <1>5, <2>1, <2>2, <2>3, LinkOfDials DEF RestartConnect, RestartDialed
<1>6. ASSUME NEW l \in Loops, LoopTurn(l) PROVE LinkAnswers(c)'
  <2>1. UNCHANGED handlerVars
    BY <1>6 DEF LoopTurn, LoopTimer, LoopDone, LoopCheck, LoopConnect, LoopDialed, LoopExit, libVars, handlerVars
  <2>2. CASE UNCHANGED <<sock, device, expected>>
    BY <2>1, <2>2, LinkKept DEF handlerVars
  <2>3. CASE BeginDial(cur)
    BY <2>1, <2>3, LinkOfDials DEF handlerVars
  <2>4. ASSUME NEW ok \in BOOLEAN, LoopDialed(l, ok) PROVE LinkAnswers(c)'
    <3>1. loopClient[l] \in Clients
      BY <2>4 DEF LoopDialed, DialInv, DialersHoldLocks, LoopDials
    <3>2. QED BY <2>1, <2>4, <3>1, LinkOfDials DEF LoopDialed, handlerVars
  <2>5. QED BY <1>6, <2>2, <2>3, <2>4
            DEF LoopTurn, LoopTimer, LoopDone, LoopCheck, LoopConnect, LoopExit, libVars
<1>7. QED BY <1>1, <1>2, <1>3, <1>4, <1>5, <1>6 DEF Surroundings, LibraryTurn

Dials(k, q) == callQR[k] = q /\ callPC[k] = "qrdial"

(* A login whose channel, client and call stay as they are is answered as    *)
(* long as the connection answers.                                           *)
LEMMA AnsweredKept ==
    ASSUME SvcInv, NEW q \in QRs, LoginAnswered(q), UNCHANGED cur,
           qrItem'[q] = qrItem[q], qrClient'[q] = qrClient[q],
           qrItem[q] = "open" /\ LinkAnswers(qrClient[q]) => LinkAnswers(qrClient[q])',
           \A k \in Calls : qrItem[q] = "open" /\ qrClient[q] = cur /\ Dials(k, q)
               => Dials(k, q)' \/ LinkAnswers(qrClient[q])'
    PROVE  LoginAnswered(q)'
BY DEF LoginAnswered, Dials

(* The calls of RequestLogin and the daemon's start. *)
LEMMA AnsweredOfLogin ==
    ASSUME SvcInv, WireInv, ChannelInv, OpenInv, NEW q \in QRs, NEW k \in Calls, Login(k),
           LoginAnswered(q), LoginWaits(q), LoginWaits(q)', ~EndDial(qrClient[q], FALSE)
    PROVE  LoginAnswered(q)'
<1> USE DEF SvcInv, SvcTypeOK
<1>a. qrItem[q] = "open" => qrClient[q] \in Clients
  BY DEF EmitterInv
<1>f. qrItem[q] # "free"
  BY DEF LoginAnswered
<1>1. ASSUME UNCHANGED <<libVars, cur>>, qrItem'[q] = qrItem[q], qrClient'[q] = qrClient[q],
             \A j \in Calls : Dials(j, q) => Dials(j, q)'
      PROVE  LoginAnswered(q)'
  <2>1. LinkAnswers(qrClient[q]) => LinkAnswers(qrClient[q])'
    BY <1>1 DEF LinkAnswers, libVars
  <2>2. QED BY <1>1, <2>1, AnsweredKept
<1>2. ASSUME NEW pc, Goto(k, pc), UNCHANGED callQR, callPC[k] # "qrdial"
      PROVE  \A j \in Calls : Dials(j, q) => Dials(j, q)'
  BY <1>2 DEF Goto, Dials
<1>3. CASE LoginBegins(k) \/ LoginGuard(k) \/ LoginBranch(k) \/ AutoConnectGuard(k)
  <2>1. UNCHANGED <<libVars, cur, qrItem, qrClient, callQR>>
    BY <1>3 DEF LoginBegins, LoginGuard, LoginBranch, AutoConnectGuard, waVars, qrVars
  <2>2. callPC[k] # "qrdial" /\ \E pc : Goto(k, pc)
    BY <1>3 DEF LoginBegins, LoginGuard, LoginBranch, AutoConnectGuard, At
  <2>3. QED BY <1>1, <1>2, <2>1, <2>2
<1>4. CASE LoginGetQR(k)
  <2>1. UNCHANGED <<libVars, cur>>
    BY <1>4 DEF LoginGetQR, waVars
  <2>2. qrItem'[q] = qrItem[q] /\ qrClient'[q] = qrClient[q]
    BY <1>4, <1>f DEF LoginGetQR, qrVars
  <2>3. \A j \in Calls : Dials(j, q) => Dials(j, q)'
    BY <1>4 DEF LoginGetQR, At, Goto, Dials
  <2>4. QED BY <1>1, <2>1, <2>2, <2>3
<1>5. CASE LoginPending(k)
  <2>1. UNCHANGED <<libVars, cur, qrItem, qrClient>>
    BY <1>5 DEF LoginPending, waVars
  <2>2. \A j \in Calls : Dials(j, q) => Dials(j, q)'
    BY <1>5 DEF LoginPending, At, Goto, Dials
  <2>3. QED BY <1>1, <2>1, <2>2
<1>6. CASE CallFails(k)
  <2>1. callQR[k] # q
    <3>1. ASSUME callQR[k] = q PROVE FALSE
      <4>1. ~qrRead[q] /\ \A j \in Calls : callQR[j] = q => j = k
        BY <3>1 DEF ChannelInv
      <4>2. QED BY <1>6, <4>1 DEF CallFails, At, LoginWaits
    <3>2. QED BY <3>1
  <2>2. UNCHANGED <<libVars, cur>> /\ qrItem'[q] = qrItem[q] /\ qrClient'[q] = qrClient[q]
    BY <1>6, <2>1 DEF CallFails, LeaveQR, waVars
  <2>3. \A j \in Calls : Dials(j, q) => Dials(j, q)'
    BY <1>6 DEF CallFails, LeaveQR, At, Goto, Dials
  <2>4. QED BY <1>1, <2>2, <2>3
<1>7. ASSUME NEW before, NEW during, NEW done, DialSteps(k, before, during, done),
             <<before, during, done>> \in {<<"dial", "dialing", "none">>, <<"qrdial", "qrdialing", "pending">>},
             UNCHANGED <<handlerVars, cur, callQR, qrVars>>
      PROVE  LoginAnswered(q)'
  <2>t. cur \in Clients /\ UNCHANGED <<hEvent, hClient, qrItem, qrClient, qrRead>>
    BY <1>7 DEF TypeOK, handlerVars, qrVars
  <2>o. \A j \in Calls : j # k => callPC'[j] = callPC[j]
    BY <1>7 DEF DialSteps, Goto
  <2>1. CASE At(k, before) /\ BeginDial(cur)
    <3>1. qrItem[q] = "open" /\ LinkAnswers(qrClient[q]) => LinkAnswers(qrClient[q])'
      BY <1>a, <2>1, <2>t, LinkOfDials
    <3>2. qrItem[q] = "open" /\ qrClient[q] = cur => device[cur] = "none"
      BY <2>1, <2>t DEF OpenInv, BeginDial, ConnectRefused, TypeOK, LibTypeOK, DeviceStates
    <3>3. qrItem[q] = "open" /\ qrClient[q] = cur => LinkAnswers(qrClient[q])'
      BY <2>1, <2>t, <3>2 DEF BeginDial, LinkAnswers, TypeOK, LibTypeOK
    <3>4. QED BY <1>7, <2>t, <3>1, <3>3, AnsweredKept
  <2>2. CASE At(k, before) /\ Goto(k, "down") /\ UNCHANGED <<clientSide, callClient>>
    <3>1. callQR[k] # q \/ ~Dials(k, q)
      <4>1. ASSUME Dials(k, q) PROVE FALSE
        <5>1. ~qrRead[q] /\ \A j \in Calls : callQR[j] = q => j = k
          BY <4>1 DEF ChannelInv, Dials
        <5>2. QED BY <1>7, <2>2, <2>t, <5>1 DEF LoginWaits, Goto
      <4>2. QED BY <4>1
    <3>2. \A j \in Calls : Dials(j, q) => Dials(j, q)'
      BY <1>7, <2>o, <3>1 DEF Dials
    <3>3. QED BY <1>1, <1>7, <2>2, <2>t, <3>2 DEF clientSide, libVars, handlerVars
  <2>3. ASSUME NEW ok \in BOOLEAN, At(k, during), EndDial(callClient[k], ok) PROVE LoginAnswered(q)'
    <3>1. callClient[k] \in Clients
      BY <1>7, <2>3 DEF CallDialInv, CallDials, At
    <3>2. qrItem[q] = "open" /\ LinkAnswers(qrClient[q]) => LinkAnswers(qrClient[q])'
      BY <1>a, <2>3, <2>t, <3>1, LinkOfDials
    <3>3. \A j \in Calls : Dials(j, q) => Dials(j, q)'
      BY <1>7, <2>3, <2>o DEF Dials, At
    <3>4. QED BY <1>7, <2>t, <3>2, <3>3, AnsweredKept
  <2>4. QED BY <1>7, <2>1, <2>2, <2>3 DEF DialSteps
<1>8. CASE AutoConnectDial(k)
  BY <1>7, <1>8 DEF AutoConnectDial
<1>9. CASE LoginQRDial(k)
  BY <1>7, <1>9 DEF LoginQRDial
<1>10. QED BY <1>3, <1>4, <1>5, <1>6, <1>8, <1>9 DEF Login

(* The causes QRLoginCutOffOnlyIf names. *)
CutOff(q) ==
    \/ \E p \in QRs \ {q} : QRCodesRunOut(p)
    \/ PairingFails \/ Rejected
    \/ \E h \in Handlers : Deliver(h) /\ hEvent[h] # "Disconnected"
    \/ \E k \in Calls : LogoutDisconnect(k) \/ LogoutReplaces(k)
    \/ EndDial(qrClient[q], FALSE)

(* The steps that end channels: a login that waits gets its item, unless it  *)
(* is another channel's turn.                                                *)
LEMMA AnsweredOfItems ==
    ASSUME SvcInv, NEW q \in QRs, LoginAnswered(q), LoginWaits(q)', ~CutOff(q),
           Pairing \/ \E h \in Handlers : HandlerTurn(h)
    PROVE  LoginAnswered(q)'
<1> USE DEF SvcInv, SvcTypeOK
<1>a. qrItem[q] = "open" => qrClient[q] \in Clients
  BY DEF EmitterInv
<1>m. UNCHANGED <<callVars, qrRead>>
  BY ItemsMove
<1>o. Owned(q)
  BY <1>m DEF LoginWaits, Owned, callVars
<1>d. \A k \in Calls : Dials(k, q) => Dials(k, q)'
  BY <1>m DEF Dials, callVars
<1>t. OwnTypeOK
  BY DEF OwnTypeOK
<1>1. ASSUME NEW c, NEW Q, NEW item \in {"success", "timeout"}, LastItem(c, Q, item), q \in Q
      PROVE  LoginAnswered(q)'
  BY <1>1, <1>o, <1>t, LastItemMoves DEF LoginAnswered
<1>2. ASSUME UNCHANGED cur, qrItem'[q] = qrItem[q], qrClient'[q] = qrClient[q],
             qrItem[q] = "open" /\ LinkAnswers(qrClient[q]) => LinkAnswers(qrClient[q])'
      PROVE  LoginAnswered(q)'
  BY <1>2, <1>d, AnsweredKept
<1>3. ASSUME NEW c \in Clients, LastItem(c, OpenQRs(c), "success"), Pair(c), UNCHANGED <<handlerVars, cur>>
      PROVE  LoginAnswered(q)'
  <2>1. CASE q \in OpenQRs(c)
    BY <1>1, <1>3, <2>1
  <2>2. CASE q \notin OpenQRs(c)
    <3>1. qrItem'[q] = qrItem[q] /\ qrClient'[q] = qrClient[q]
      BY <1>3, <1>t, <2>2, LastItemMoves
    <3>2. qrItem[q] = "open" => qrClient[q] # c
      BY <2>2 DEF OpenQRs
    <3>3. qrItem[q] = "open" /\ LinkAnswers(qrClient[q]) => LinkAnswers(qrClient[q])'
      BY <1>3, <1>a, <3>1, <3>2 DEF Pair, LinkAnswers, handlerVars, TypeOK, LibTypeOK
    <3>4. QED BY <1>2, <1>3, <3>1, <3>3
  <2>3. QED BY <2>1, <2>2
<1>4. ASSUME NEW c \in Clients, QRCodes(c), UNCHANGED <<handlerVars, cur>> PROVE LoginAnswered(q)'
  BY <1>2, <1>4 DEF QRCodes, LinkAnswers, handlerVars
<1>5. ASSUME NEW p \in QRs, QRCodesRunOut(p) PROVE LoginAnswered(q)'
  <2>1. p = q /\ LastItem(qrClient[p], {p}, "timeout")
    BY <1>5 DEF QRCodesRunOut, CutOff
  <2>2. QED BY <1>1, <2>1
<1>6. CASE Pairing
  BY <1>3, <1>4, <1>5, <1>6 DEF Pairing, Paired, CutOff
<1>7. ASSUME NEW h \in Handlers, Deliver(h) PROVE LoginAnswered(q)'
  <2>1. hEvent[h] = "Disconnected" /\ LastItem(hClient[h], OpenQRs(hClient[h]), "timeout")
    BY <1>7 DEF CutOff, Deliver
  <2>2. CASE q \in OpenQRs(hClient[h])
    BY <1>1, <2>1, <2>2
  <2>3. CASE q \notin OpenQRs(hClient[h])
    <3>1. qrItem'[q] = qrItem[q] /\ qrClient'[q] = qrClient[q]
      BY <1>t, <2>1, <2>3, LastItemMoves
    <3>2. qrItem[q] = "open" => qrClient[q] # hClient[h]
      BY <2>3 DEF OpenQRs
    <3>3. \A g \in Handlers : g # h => hEvent'[g] = hEvent[g] /\ hClient'[g] = hClient[g]
      BY <1>7 DEF Deliver, HandlerEnqueue, Finish
    <3>4. UNCHANGED <<sock, device, expected, cur>>
      BY <1>7 DEF Deliver, HandlerEnqueue
    <3>5. qrItem[q] = "open" /\ LinkAnswers(qrClient[q]) => LinkAnswers(qrClient[q])'
      BY <3>1, <3>2, <3>3, <3>4 DEF LinkAnswers
    <3>6. QED BY <1>2, <3>1, <3>4, <3>5
  <2>4. QED BY <2>2, <2>3
<1>8. ASSUME NEW h \in Handlers, HandlerStop(h) \/ HandlerHasSession(h) \/ HandlerStart(h), Quiet
      PROVE  LoginAnswered(q)'
  BY <1>2, <1>8 DEF HandlerStop, HandlerHasSession, HandlerStart, LinkAnswers, Quiet, qrVars
<1>9. QED BY <1>6, <1>7, <1>8 DEF HandlerTurn

LEMMA CutOffNext ==
    ASSUME SvcInv, WireInv, ChannelInv, OpenInv, Step, NEW q \in QRs,
           LoginWaits(q), LoginAnswered(q), LoginWaits(q)', ~CutOff(q)
    PROVE  LoginAnswered(q)'
<1> USE DEF SvcInv, SvcTypeOK
<1>a. qrItem[q] = "open" => qrClient[q] \in Clients
  BY DEF EmitterInv
<1>1. ASSUME UNCHANGED <<libVars, cur, callVars>>, qrItem'[q] = qrItem[q], qrClient'[q] = qrClient[q]
      PROVE  LoginAnswered(q)'
  BY <1>1, AnsweredKept DEF Dials, LinkAnswers, callVars, libVars
<1>2. CASE UNCHANGED <<svcVars, world>> \/ EventLoop \/ Traffic
  BY <1>1, <1>2 DEF svcVars, waVars, EventLoop, Receive, Traffic, OtherEvent, Quiet, qrVars
<1>3. ASSUME NEW k \in Calls, Login(k) PROVE LoginAnswered(q)'
  BY <1>3, AnsweredOfLogin DEF CutOff
<1>4. ASSUME NEW k \in Calls, Logout(k) PROVE LoginAnswered(q)'
  <2>1. callPC[k] # "qrdial" /\ (\E pc : Goto(k, pc)) /\ UNCHANGED <<cur, callQR, qrItem, qrClient>>
        /\ UNCHANGED <<sock, expected, hEvent, hClient>>
        /\ (UNCHANGED device \/ DeleteDevice(cur))
    BY <1>4
    DEF Logout, LogoutBegins, LogoutIsConnected, LogoutUnlink, LogoutDelete, LogoutStops, CutOff, At, waVars,
        libVars, handlerVars, qrVars, clientSide, DeleteDevice
  <2>2. \A c \in Clients : device[c] = "none" => device'[c] = "none"
    BY <2>1 DEF DeleteDevice, TypeOK, LibTypeOK
  <2>3. qrItem[q] = "open" /\ LinkAnswers(qrClient[q]) => LinkAnswers(qrClient[q])'
    BY <1>a, <2>1, <2>2 DEF LinkAnswers
  <2>4. \A j \in Calls : Dials(j, q) => Dials(j, q)'
    BY <2>1 DEF Goto, Dials
  <2>5. QED BY <2>1, <2>3, <2>4, AnsweredKept
<1>5. ASSUME NEW p \in QRs, QRGoroutine(p) \/ EmitterStops(p) PROVE LoginAnswered(q)'
  <2>1. UNCHANGED <<libVars, cur, callVars>>
    BY <1>5 DEF QRGoroutine, EmitterStops, waVars
  <2>2. CASE QRGoroutine(p) /\ p = q
    <3>1. ~qrRead'[q] /\ qrRead[q]
      BY <2>2 DEF QRGoroutine
    <3>2. QED BY <2>1, <3>1 DEF ChannelInv, LoginWaits, callVars
  <2>3. CASE ~(QRGoroutine(p) /\ p = q)
    BY <1>1, <1>5, <2>1, <2>3 DEF QRGoroutine, EmitterStops
  <2>4. QED BY <2>2, <2>3
<1>6. CASE Surroundings \/ (\E h \in Handlers : LibraryTurn(h)) \/ \E l \in Loops : LoopTurn(l)
  <2>1. Quiet /\ UNCHANGED cur
    BY <1>6
    DEF Surroundings, LibraryTurn, LoopTurn, LoopTimer, LoopDone, LoopCheck, LoopConnect, LoopDialed, LoopExit
  <2>2. qrItem[q] = "open" /\ LinkAnswers(qrClient[q]) => LinkAnswers(qrClient[q])'
    BY <1>6, <1>a, <2>1, LinkOutlives DEF CutOff, Quiet, qrVars
  <2>3. QED BY <2>1, <2>2, AnsweredKept DEF Quiet, Dials, callVars, qrVars
<1>7. CASE Pairing \/ \E h \in Handlers : HandlerTurn(h)
  BY <1>7, AnsweredOfItems
<1>8. CASE Rejected
  BY <1>8 DEF CutOff
<1>9. QED BY <1>2, <1>3, <1>4, <1>5, <1>6, <1>7, <1>8 DEF Step, SvcNext

(* A login begins to wait with its dial to come.                            *)
LEMMA WaitBegins ==
    ASSUME SvcInv, ChannelInv, Step, NEW q \in QRs, ~LoginWaits(q), LoginWaits(q)'
    PROVE  LoginAnswered(q)'
<1> USE DEF SvcInv, SvcTypeOK
<1>1. ASSUME UNCHANGED <<callQR, qrRead>>,
             \A k \in Calls : callPC'[k] \in {"qrdial", "qrdialing", "pending"}
                                => callPC[k] \in {"qrdial", "qrdialing", "pending"}
      PROVE  FALSE
  BY <1>1 DEF LoginWaits
<1>2. ASSUME NEW k \in Calls, LoginGetQR(k) PROVE LoginAnswered(q)'
  <2>1. callPC'[k] = "qrdial" /\ callQR'[k] = q
    BY <1>2 DEF LoginGetQR, LoginWaits, Goto, At, qrVars
  <2>2. qrItem'[q] = "open" /\ qrClient'[q] = cur' /\ cur' = cur
    BY <1>2, <2>1 DEF LoginGetQR, Goto, At, qrVars, waVars
  <2>3. QED BY <2>1, <2>2 DEF LoginAnswered
<1>3. ASSUME NEW k \in Calls, LoginPending(k) PROVE FALSE
  BY <1>3 DEF LoginPending, LoginWaits, Goto, At, ChannelInv
<1>4. ASSUME NEW k \in Calls, CallFails(k) PROVE FALSE
  BY <1>4, NoQRAssumption DEF CallFails, LeaveQR, LoginWaits, Goto, At
<1>5. ASSUME NEW k \in Calls,
             LoginBegins(k) \/ LoginGuard(k) \/ LoginBranch(k) \/ AutoConnectGuard(k) \/ AutoConnectDial(k)
             \/ LoginQRDial(k) \/ Logout(k)
      PROVE  FALSE
  BY <1>1, <1>5
  DEF LoginBegins, LoginGuard, LoginBranch, AutoConnectGuard, AutoConnectDial, LoginQRDial, DialSteps, Goto, At,
      qrVars, Logout, LogoutBegins, LogoutIsConnected, LogoutUnlink, LogoutDisconnect, LogoutDelete, LogoutStops,
      LogoutReplaces
<1>6. ASSUME NEW p \in QRs, QRGoroutine(p) PROVE FALSE
  BY <1>6 DEF QRGoroutine, LoginWaits, callVars
<1>7. CASE Pairing \/ (Rejected /\ UNCHANGED <<status, callVars>>)
           \/ \E h \in Handlers : HandlerTurn(h)
  BY <1>1, <1>7, ItemsMove DEF callVars
<1>8. CASE EventLoop \/ Surroundings \/ Traffic \/ (\E h \in Handlers : LibraryTurn(h))
           \/ (\E l \in Loops : LoopTurn(l)) \/ UNCHANGED <<svcVars, world>>
           \/ (\E p \in QRs : EmitterStops(p))
  BY <1>1, <1>8
  DEF EventLoop, Surroundings, Traffic, LibraryTurn, LoopTurn, EmitterStops, Quiet, svcVars, qrVars, callVars
<1>9. QED BY <1>2, <1>3, <1>4, <1>5, <1>6, <1>7, <1>8 DEF Step, SvcNext, Login

ChannelsInv == SvcInv /\ WireInv /\ ChannelInv /\ OpenInv

LEMMA ChannelsInvariant == SvcSpec => []ChannelsInv
<1>1. SvcInit => ChannelsInv
  <2> SUFFICES ASSUME SvcInit PROVE ChannelsInv
    OBVIOUS
  <2>1. SvcInv
    BY SvcInvInit
  <2>2. WireInv
    BY <2>1 DEF SvcInit, Init, LibInit, WireInv, Restarts, SvcInv, SvcTypeOK, TypeOK, Clients
  <2>3. ChannelInv /\ OpenInv
    BY NoQRAssumption DEF SvcInit, ChannelInv, OpenInv
  <2>4. QED BY <2>1, <2>2, <2>3 DEF ChannelsInv
<1>2. ChannelsInv /\ [SvcNext /\ UNCHANGED world]_<<svcVars, world>> => ChannelsInv'
  <2> SUFFICES ASSUME ChannelsInv, Step PROVE ChannelsInv'
    BY DEF Step
  <2>1. SvcInv' /\ [Next]_waVars
    BY SvcInvNext DEF ChannelsInv, Step
  <2>2. WireInv'
    BY <2>1, WireNext DEF ChannelsInv, SvcInv, SvcTypeOK
  <2>3. QED BY <2>1, <2>2, ChannelNext, OpenNext DEF ChannelsInv
<1>3. QED BY <1>1, <1>2, PTL DEF SvcSpec

(* A QR login that waits for its channel is cut off in the named ways only:  *)
(* with any number of overlapping calls, of clients and of channels left     *)
(* behind, in every world.                                                   *)
THEOREM CutOffCorrect == SvcSpec => QRLoginCutOffOnlyIf
<1>1. ChannelsInv /\ [SvcNext /\ UNCHANGED world]_<<svcVars, world>>
      => [\A q \in QRs :
             /\ LoginWaits(q) => LoginAnswered(q)
             /\ LoginWaits(q)' /\ ~LoginAnswered(q)'
             => \/ \E p \in QRs \ {q} : QRCodesRunOut(p)
                \/ PairingFails \/ Rejected
                \/ \E h \in Handlers : Deliver(h) /\ hEvent[h] # "Disconnected"
                \/ \E k \in Calls : LogoutDisconnect(k) \/ LogoutReplaces(k)
                \/ EndDial(qrClient[q], FALSE)]_<<svcVars, world>>
  <2> SUFFICES ASSUME ChannelsInv, Step, NEW q \in QRs, LoginWaits(q) => LoginAnswered(q),
                      LoginWaits(q)', ~LoginAnswered(q)'
               PROVE  CutOff(q)
    BY DEF Step, CutOff
  <2>1. QED BY WaitBegins, CutOffNext DEF ChannelsInv
<1>2. QED BY <1>1, ChannelsInvariant, PTL DEF SvcSpec, QRLoginCutOffOnlyIf

-----------------------------------------------------------------------------
(* The connection, the pairing and the library's goroutines.                 *)

(* No client is replaced, so only the current one ever had a connection. *)
OneClient ==
    /\ LoggingOut = {}
    /\ \A c \in Clients : c # cur => sock[c] = "nil"

(* The goroutines work for it; the events of a session need a pairing. *)
HandlersOwned ==
    \A h \in Handlers :
        /\ hEvent[h] # "none" => hClient[h] = cur
        /\ hEvent[h] \in {"Connected", "LoggedOut", "Restart"} => device[cur] # "none"
        /\ hPC[h] \in {"redial", "dialing"} => Restarts(h)
        /\ hPC[h] = "idle" => hEvent[h] = "none"

(* The mark of an expected disconnect is gone while a dial lasts, and stays  *)
(* away until a connection without a session is paired or closed.            *)
MarkInv ==
    /\ sock[cur] = "dialing" => device[cur] # "deleted" /\ ~expected[cur]
    /\ device[cur] = "none" => sock[cur] # "ready" /\ (sock[cur] \in Up => ~expected[cur])
    /\ \A k \in Calls : callPC[k] \in {"dial", "dialing"} => device[cur] # "none"

(* One goroutine at a time redials after a pairing. Before it has closed the *)
(* connection the mark stands, afterwards it does not.                       *)
RestartInv ==
    /\ \A g, h \in Handlers : Restarts(g) /\ Restarts(h) => g = h
    /\ \A h \in Handlers :
          Restarts(h) /\ hPC[h] # "begin" /\ device[cur] = "paired" /\ sock[cur] \in Up
              => ~expected[cur]
    /\ "close" \notin world =>
          /\ sock[cur] # "closed"
          /\ \A h \in Handlers :
                Restarts(h) /\ hPC[h] = "begin" => sock[cur] = "open" /\ expected[cur]

(* Codes are shown for a client without a session. *)
CodesInv ==
    \A q \in QRs :
        /\ qrItem[q] # "free" => qrClient[q] = cur
        /\ qrEmit[q] # "none" => device[cur] = "none"

LinkInv == OneClient /\ HandlersOwned /\ MarkInv /\ RestartInv /\ CodesInv

(* A step of a call that leaves the library alone. *)
LEMMA LinkOfCalls ==
    ASSUME SvcInv, LinkInv, UNCHANGED <<libVars, cur, world>>, LoggingOut' = {},
           \A k \in Calls : callPC'[k] \in {"dial", "dialing"} /\ callPC[k] \notin {"dial", "dialing"}
               => device[cur] = "paired",
           CodesInv'
    PROVE  LinkInv'
BY DEF LinkInv, OneClient, HandlersOwned, MarkInv, RestartInv, Restarts, libVars

LEMMA LinkOfLogin ==
    ASSUME SvcInv, LinkInv, Undisturbed, NEW k \in Calls, Login(k), UNCHANGED world
    PROVE  LinkInv'
<1> USE DEF SvcInv, SvcTypeOK, TypeOK, LibTypeOK
<1>1. ASSUME NEW pc, Goto(k, pc), pc \notin {"connected?", "unlink", "disconnect1", "delete1", "stop",
                                            "disconnect2", "delete2", "reset", "replace"}
      PROVE  LoggingOut' = {}
  BY <1>1 DEF LinkInv, OneClient, LoggingOut, Goto
<1>2. ASSUME UNCHANGED <<device, cur, qrItem, qrClient, qrEmit>> PROVE CodesInv'
  BY <1>2 DEF LinkInv, CodesInv
<1>3. CASE LoginBegins(k) \/ LoginGuard(k) \/ LoginBranch(k) \/ AutoConnectGuard(k)
  <2>1. UNCHANGED <<libVars, cur, qrItem, qrClient, qrEmit>>
    BY <1>3 DEF LoginBegins, LoginGuard, LoginBranch, AutoConnectGuard, waVars, qrVars
  <2>2. LoggingOut' = {}
    BY <1>1, <1>3 DEF LoginBegins, LoginGuard, LoginBranch, AutoConnectGuard
  <2>3. \A j \in Calls : callPC'[j] \in {"dial", "dialing"} /\ callPC[j] \notin {"dial", "dialing"}
            => device[cur] = "paired"
    BY <1>3 DEF LoginBegins, LoginGuard, LoginBranch, AutoConnectGuard, Goto, HasSession, HasID
  <2>4. QED BY <1>2, <2>1, <2>2, <2>3, LinkOfCalls DEF libVars
<1>4. CASE LoginGetQR(k)
  <2>1. UNCHANGED <<libVars, cur>> /\ LoggingOut' = {}
    BY <1>1, <1>4 DEF LoginGetQR, waVars
  <2>2. \A j \in Calls : callPC'[j] \in {"dial", "dialing"} => callPC[j] \in {"dial", "dialing"}
    BY <1>4 DEF LoginGetQR, Goto
  <2>3. CodesInv'
    BY <1>4 DEF LinkInv, CodesInv, EmitterInv, LoginGetQR, waVars, libVars, qrVars
  <2>4. QED BY <2>1, <2>2, <2>3, LinkOfCalls
<1>5. CASE LoginPending(k) \/ CallFails(k)
  <2>1. UNCHANGED <<libVars, cur>> /\ LoggingOut' = {}
    BY <1>1, <1>5 DEF LoginPending, CallFails, waVars
  <2>2. \A j \in Calls : callPC'[j] \in {"dial", "dialing"} => callPC[j] \in {"dial", "dialing"}
    BY <1>5 DEF LoginPending, CallFails, Goto
  <2>3. CodesInv'
    BY <1>5 DEF LinkInv, CodesInv, LoginPending, CallFails, LeaveQR, waVars, libVars
  <2>4. QED BY <2>1, <2>2, <2>3, LinkOfCalls
<1>6. ASSUME NEW before, NEW during, NEW done, DialSteps(k, before, during, done),
             <<before, during, done>> \in {<<"dial", "dialing", "none">>, <<"qrdial", "qrdialing", "pending">>},
             UNCHANGED <<handlerVars, cur, retryVars, eventsCh, status, callQR, qrVars>>
      PROVE  LinkInv'
  <2>1. CASE At(k, before) /\ BeginDial(cur) /\ Goto(k, during)
    <3>1. LoggingOut' = {}
      BY <1>1, <1>6, <2>1
    <3>2. OneClient' /\ HandlersOwned' /\ MarkInv'
      BY <1>6, <2>1, <3>1
      DEF LinkInv, OneClient, HandlersOwned, MarkInv, BeginDial, ConnectRefused, Goto, At, Restarts,
          handlerVars, Up, DeviceStates
    <3>3. RestartInv'
      BY <1>6, <2>1 DEF LinkInv, RestartInv, BeginDial, ConnectRefused, IsConnected, Restarts, handlerVars, Up
    <3>4. CodesInv'
      BY <1>6, <2>1 DEF LinkInv, CodesInv, BeginDial, ConnectRefused, qrVars
    <3>5. QED BY <3>2, <3>3, <3>4 DEF LinkInv
  <2>2. CASE At(k, before) /\ Goto(k, "down") /\ UNCHANGED <<clientSide, callClient>>
    <3>1. UNCHANGED <<libVars, cur>> /\ LoggingOut' = {}
      BY <1>1, <1>6, <2>2 DEF libVars, clientSide, handlerVars
    <3>2. \A j \in Calls : callPC'[j] \in {"dial", "dialing"} => callPC[j] \in {"dial", "dialing"}
      BY <2>2 DEF Goto
    <3>3. QED BY <1>2, <1>6, <3>1, <3>2, LinkOfCalls DEF libVars, qrVars
  <2>3. ASSUME NEW ok \in BOOLEAN, ok \/ "dial" \in world, At(k, during), EndDial(callClient[k], ok),
               Goto(k, IF ok THEN done ELSE "down")
        PROVE  LinkInv'
    <3>1. callClient[k] = cur /\ sock[cur] = "dialing"
      BY <1>6, <2>3 DEF At, CallDialInv, CallDials, CallerDials, LinkInv, OneClient
    <3>2. LoggingOut' = {}
      BY <1>1, <1>6, <2>3
    <3>3. OneClient' /\ HandlersOwned' /\ MarkInv'
      BY <1>6, <2>3, <3>1, <3>2
      DEF LinkInv, OneClient, HandlersOwned, MarkInv, EndDial, Goto, At, Restarts, handlerVars, Up
    <3>4. RestartInv'
      BY <1>6, <2>3, <3>1 DEF LinkInv, RestartInv, MarkInv, EndDial, Restarts, handlerVars, Up
    <3>5. CodesInv'
      BY <1>6, <2>3, <3>1 DEF LinkInv, CodesInv, MarkInv, EndDial, qrVars
    <3>6. QED BY <3>3, <3>4, <3>5 DEF LinkInv
  <2>4. QED BY <1>6, <2>1, <2>2, <2>3 DEF DialSteps
<1>7. CASE AutoConnectDial(k)
  BY <1>6, <1>7 DEF AutoConnectDial
<1>8. CASE LoginQRDial(k)
  BY <1>6, <1>8 DEF LoginQRDial
<1>9. QED BY <1>3, <1>4, <1>5, <1>7, <1>8 DEF Login

(* The server and the network. *)
LEMMA LinkOfSurroundings ==
    ASSUME SvcInv, LinkInv, Undisturbed, Surroundings, UNCHANGED world
    PROVE  LinkInv'
<1> USE DEF SvcInv, SvcTypeOK, TypeOK, LibTypeOK, LinkInv, Up, Restarts, IsConnected, HasID,
            SockStates, DeviceStates
<1>0. UNCHANGED <<cur, callPC, qrVars>> /\ LoggingOut' = LoggingOut
  BY DEF Surroundings, Quiet, callVars, qrVars, LoggingOut
<1>1. ASSUME NEW c \in Clients, "close" \in world, RemoteClose(c) PROVE LinkInv'
  <2>1. c = cur
    BY <1>1 DEF OneClient, RemoteClose
  <2>2. OneClient' /\ HandlersOwned' /\ MarkInv'
    BY <1>0, <1>1, <2>1 DEF RemoteClose, OneClient, HandlersOwned, MarkInv
  <2>3. RestartInv'
    BY <1>0, <1>1, <2>1 DEF RemoteClose, RestartInv
  <2>4. CodesInv'
    BY <1>0, <1>1, <2>1 DEF RemoteClose, CodesInv, qrVars
  <2>5. QED BY <2>2, <2>3, <2>4
<1>2. ASSUME NEW c \in Clients, NEW h \in Handlers, AuthSuccess(c, h) PROVE LinkInv'
  <2>1. c = cur
    BY <1>2 DEF OneClient, AuthSuccess
  <2>2. OneClient' /\ HandlersOwned' /\ MarkInv'
    BY <1>0, <1>2, <2>1 DEF AuthSuccess, Spawn, OneClient, HandlersOwned, MarkInv
  <2>3. RestartInv'
    BY <1>0, <1>2, <2>1 DEF AuthSuccess, Spawn, RestartInv
  <2>4. CodesInv'
    BY <1>0, <1>2, <2>1 DEF AuthSuccess, CodesInv, qrVars
  <2>5. QED BY <2>2, <2>3, <2>4
<1>3. ASSUME NEW c \in Clients, NEW h \in Handlers, RestartRequired(c, h) PROVE LinkInv'
  <2>1. c = cur
    BY <1>3 DEF OneClient, RestartRequired
  <2>2. OneClient' /\ HandlersOwned' /\ MarkInv'
    BY <1>0, <1>3, <2>1 DEF RestartRequired, Spawn, OneClient, HandlersOwned, MarkInv
  <2>3. RestartInv'
    BY <1>0, <1>3, <2>1 DEF RestartRequired, Spawn, RestartInv, HandlersOwned
  <2>4. CodesInv'
    BY <1>0, <1>3, <2>1 DEF RestartRequired, CodesInv, qrVars
  <2>5. QED BY <2>2, <2>3, <2>4
<1>4. ASSUME NEW c \in Clients, NEW h \in Handlers, RemoteLogout(c, h) PROVE LinkInv'
  <2>1. c = cur
    BY <1>4 DEF OneClient, RemoteLogout
  <2>2. OneClient' /\ HandlersOwned' /\ MarkInv'
    BY <1>0, <1>4, <2>1 DEF RemoteLogout, Spawn, OneClient, HandlersOwned, MarkInv
  <2>3. RestartInv'
    BY <1>0, <1>4, <2>1 DEF RemoteLogout, Spawn, RestartInv
  <2>4. CodesInv'
    BY <1>0, <1>4, <2>1 DEF RemoteLogout, CodesInv, qrVars
  <2>5. QED BY <2>2, <2>3, <2>4
<1>5. QED BY <1>1, <1>2, <1>3, <1>4 DEF Surroundings

(* The library's own goroutines. *)
LEMMA LinkOfLibrary ==
    ASSUME SvcInv, LinkInv, Undisturbed, NEW h \in Handlers, LibraryTurn(h), UNCHANGED world
    PROVE  LinkInv'
<1> USE DEF SvcInv, SvcTypeOK, TypeOK, LibTypeOK, LinkInv, Up, Restarts, IsConnected,
            SockStates, DeviceStates
<1>0. UNCHANGED <<cur, callPC, qrVars>> /\ LoggingOut' = LoggingOut
  BY DEF LibraryTurn, Quiet, callVars, qrVars, LoggingOut
<1>1. ASSUME NEW c \in Clients, OnDisconnect(c, h) PROVE LinkInv'
  <2>1. c = cur
    BY <1>1 DEF OneClient, OnDisconnect
  <2>2. OneClient' /\ HandlersOwned' /\ MarkInv'
    BY <1>0, <1>1, <2>1 DEF OnDisconnect, Spawn, handlerVars, OneClient, HandlersOwned, MarkInv
  <2>3. RestartInv'
    BY <1>0, <1>1, <2>1 DEF OnDisconnect, Spawn, handlerVars, RestartInv
  <2>4. CodesInv'
    BY <1>0, <1>1, <2>1 DEF OnDisconnect, CodesInv, qrVars
  <2>5. QED BY <2>2, <2>3, <2>4
<1>2. CASE RestartDisconnect(h)
  <2>1. hClient[h] = cur
    BY <1>2 DEF RestartDisconnect, HandlersOwned
  <2>2. OneClient' /\ HandlersOwned' /\ MarkInv'
    BY <1>0, <1>2, <2>1 DEF RestartDisconnect, CloseSocket, LockFree, OneClient, HandlersOwned, MarkInv
  <2>3. RestartInv'
    BY <1>0, <1>2, <2>1 DEF RestartDisconnect, CloseSocket, RestartInv
  <2>4. CodesInv'
    BY <1>0, <1>2, <2>1 DEF RestartDisconnect, CloseSocket, CodesInv, qrVars
  <2>5. QED BY <2>2, <2>3, <2>4
<1>3. CASE RestartConnect(h)
  <2>1. hClient[h] = cur /\ Restarts(h)
    BY <1>3 DEF RestartConnect, HandlersOwned
  <2>2. OneClient' /\ HandlersOwned' /\ MarkInv'
    <3>1. CASE BeginDial(cur) /\ hPC' = [hPC EXCEPT ![h] = "dialing"] /\ UNCHANGED <<hEvent, hClient>>
      BY <1>0, <2>1, <3>1 DEF BeginDial, ConnectRefused, OneClient, HandlersOwned, MarkInv
    <3>2. CASE Finish(h) /\ UNCHANGED <<sock, device, expected>>
      BY <1>0, <3>2 DEF Finish, OneClient, HandlersOwned, MarkInv
    <3>3. QED BY <1>3, <2>1, <3>1, <3>2 DEF RestartConnect
  <2>3. RestartInv'
    <3>1. CASE BeginDial(cur) /\ hPC' = [hPC EXCEPT ![h] = "dialing"] /\ UNCHANGED <<hEvent, hClient>>
      BY <1>0, <1>3, <2>1, <3>1 DEF RestartConnect, BeginDial, Restarts, RestartInv
    <3>2. CASE Finish(h) /\ UNCHANGED <<sock, device, expected>>
      BY <1>0, <3>2 DEF Finish, Restarts, RestartInv
    <3>3. QED BY <1>3, <2>1, <3>1, <3>2 DEF RestartConnect
  <2>4. CodesInv'
    BY <1>0, <1>3, <2>1 DEF RestartConnect, BeginDial, ConnectRefused, CodesInv, qrVars
  <2>5. QED BY <2>2, <2>3, <2>4
<1>4. ASSUME NEW ok \in BOOLEAN, RestartDialed(h, ok) PROVE LinkInv'
  <2>1. hClient[h] = cur /\ Restarts(h)
    BY <1>4 DEF RestartDialed, HandlersOwned
  <2>2. OneClient' /\ HandlersOwned' /\ MarkInv'
    BY <1>0, <1>4, <2>1 DEF RestartDialed, EndDial, Finish, OneClient, HandlersOwned, MarkInv
  <2>3. RestartInv'
    BY <1>0, <1>4, <2>1 DEF RestartDialed, EndDial, Finish, RestartInv, MarkInv
  <2>4. CodesInv'
    BY <1>0, <1>4, <2>1 DEF RestartDialed, EndDial, CodesInv, qrVars
  <2>5. QED BY <2>2, <2>3, <2>4
<1>5. QED BY <1>1, <1>2, <1>3, <1>4 DEF LibraryTurn

(* The event handlers and the retry loops. *)
LEMMA LinkOfHandlers ==
    ASSUME SvcInv, LinkInv, Undisturbed, NEW h \in Handlers, HandlerTurn(h), UNCHANGED world
    PROVE  LinkInv'
<1> USE DEF SvcInv, SvcTypeOK, TypeOK, LibTypeOK, LinkInv, Restarts
<1>1. UNCHANGED <<sock, device, expected, cur, callPC>> /\ LoggingOut' = LoggingOut
  BY DEF HandlerTurn, Quiet, Deliver, callVars, qrVars, LoggingOut, HandlerStop, HandlerHasSession,
         HandlerStart, HandlerEnqueue
<1>2. \A q \in QRs : qrItem'[q] # "free" => qrItem[q] # "free" /\ qrClient'[q] = qrClient[q]
  BY ItemsMove
<1>e. \A q \in QRs : qrEmit'[q] # "none" => qrEmit[q] # "none"
  BY DEF HandlerTurn, Quiet, Deliver, qrVars, LastItem, EmittersTold
<1>3. \A g \in Handlers : \/ hEvent'[g] = "none" /\ hPC'[g] = "idle"
                          \/ /\ hEvent'[g] = hEvent[g] /\ hClient'[g] = hClient[g]
                             /\ \/ hPC'[g] = hPC[g]
                                \/ ~Restarts(g) /\ hPC'[g] \in {"start", "enqueue"}
  BY DEF HandlerTurn, Deliver, HandlerStop, HandlerHasSession, HandlerStart, HandlerEnqueue, Finish,
         HandlerShape
<1>4. OneClient' /\ HandlersOwned'
  BY <1>1, <1>3 DEF OneClient, HandlersOwned
<1>5. MarkInv' /\ RestartInv'
  BY <1>1, <1>3 DEF MarkInv, RestartInv
<1>6. CodesInv'
  BY <1>1, <1>2, <1>e DEF CodesInv
<1>7. QED BY <1>4, <1>5, <1>6

LEMMA LinkOfLoops ==
    ASSUME SvcInv, LinkInv, Undisturbed, NEW l \in Loops, LoopTurn(l), UNCHANGED world
    PROVE  LinkInv'
<1> USE DEF SvcInv, SvcTypeOK, TypeOK, LibTypeOK, LinkInv, Up, Restarts, IsConnected,
            SockStates, DeviceStates
<1>0. UNCHANGED <<handlerVars, cur, callPC, qrVars>> /\ LoggingOut' = LoggingOut
  BY DEF LoopTurn, LoopTimer, LoopDone, LoopCheck, LoopConnect, LoopDialed, LoopExit, libVars,
         handlerVars, Quiet, callVars, qrVars, LoggingOut
<1>1. CASE UNCHANGED <<sock, device, expected>>
  BY <1>0, <1>1 DEF OneClient, HandlersOwned, MarkInv, RestartInv, CodesInv, handlerVars, qrVars
<1>2. CASE BeginDial(cur)
  <2>1. OneClient' /\ HandlersOwned' /\ MarkInv'
    BY <1>0, <1>2 DEF BeginDial, ConnectRefused, OneClient, HandlersOwned, MarkInv, handlerVars
  <2>2. RestartInv'
    BY <1>0, <1>2 DEF BeginDial, ConnectRefused, RestartInv, handlerVars
  <2>3. CodesInv'
    BY <1>0, <1>2 DEF BeginDial, ConnectRefused, CodesInv, qrVars
  <2>4. QED BY <2>1, <2>2, <2>3
<1>3. ASSUME NEW ok \in BOOLEAN, LoopDialed(l, ok) PROVE LinkInv'
  <2>1. loopClient[l] = cur
    BY <1>3 DEF LoopDialed, EndDial, DialInv, DialersHoldLocks, LoopDials, OneClient
  <2>2. OneClient' /\ HandlersOwned' /\ MarkInv'
    BY <1>0, <1>3, <2>1 DEF LoopDialed, EndDial, OneClient, HandlersOwned, MarkInv, handlerVars
  <2>3. RestartInv'
    BY <1>0, <1>3, <2>1 DEF LoopDialed, EndDial, RestartInv, MarkInv, handlerVars
  <2>4. CodesInv'
    BY <1>0, <1>3, <2>1 DEF LoopDialed, EndDial, CodesInv, qrVars
  <2>5. QED BY <2>2, <2>3, <2>4
<1>4. QED BY <1>1, <1>2, <1>3
          DEF LoopTurn, LoopTimer, LoopDone, LoopCheck, LoopConnect, LoopExit, libVars

(* Scans, codes that come and run out, pairings that fail. *)
LEMMA LinkOfPairing ==
    ASSUME SvcInv, LinkInv, Undisturbed, Pairing, UNCHANGED world
    PROVE  LinkInv'
<1> USE DEF SvcInv, SvcTypeOK, TypeOK, LibTypeOK, LinkInv, Up, Restarts, SockStates, DeviceStates
<1>0. UNCHANGED <<handlerVars, cur, callPC>> /\ LoggingOut' = LoggingOut
  BY DEF Pairing, callVars, LoggingOut
<1>1. \A q \in QRs : qrItem'[q] # "free" => qrItem[q] # "free" /\ qrClient'[q] = qrClient[q]
  BY ItemsMove
<1>2. ASSUME NEW c \in Clients, Pair(c), LastItem(c, OpenQRs(c), "success") PROVE LinkInv'
  <2>1. c = cur
    BY <1>2 DEF OneClient, Pair
  <2>2. OneClient' /\ HandlersOwned' /\ MarkInv'
    BY <1>0, <1>2, <2>1 DEF Pair, OneClient, HandlersOwned, MarkInv, handlerVars
  <2>3. RestartInv'
    BY <1>0, <1>2, <2>1 DEF Pair, RestartInv, HandlersOwned, handlerVars
  <2>4. \A q \in QRs : qrEmit'[q] = "none"
    BY <1>2, <2>1 DEF LastItem, EmittersTold, OpenQRs, CodesInv, EmitterInv
  <2>5. CodesInv'
    BY <1>0, <1>1, <2>4 DEF CodesInv
  <2>6. QED BY <2>2, <2>3, <2>5
<1>3. ASSUME NEW c \in Clients, device[c] = "none", CloseSocket(c),
             \A q \in QRs : qrEmit'[q] # "none" => qrEmit[q] # "none"
      PROVE  LinkInv'
  <2>1. OneClient' /\ HandlersOwned' /\ MarkInv'
    BY <1>0, <1>3 DEF CloseSocket, OneClient, HandlersOwned, MarkInv, handlerVars
  <2>2. RestartInv'
    BY <1>0, <1>3 DEF CloseSocket, RestartInv, HandlersOwned, handlerVars
  <2>3. CodesInv'
    BY <1>0, <1>1, <1>3 DEF CloseSocket, CodesInv
  <2>4. QED BY <2>1, <2>2, <2>3
<1>4. ASSUME NEW c \in Clients, QRCodes(c) PROVE LinkInv'
  <2>1. c = cur /\ device[cur] = "none"
    BY <1>4 DEF QRCodes, OneClient
  <2>2. OneClient' /\ HandlersOwned' /\ MarkInv' /\ RestartInv'
    BY <1>0, <1>4 DEF QRCodes, OneClient, HandlersOwned, MarkInv, RestartInv, handlerVars
  <2>3. CodesInv'
    BY <1>0, <1>1, <1>4, <2>1 DEF QRCodes, CodesInv
  <2>4. QED BY <2>2, <2>3
<1>5. ASSUME NEW q \in QRs, QRCodesRunOut(q) PROVE LinkInv'
  <2>1. qrClient[q] = cur /\ device[cur] = "none"
    BY <1>5 DEF QRCodesRunOut, CodesInv, EmitterInv
  <2>2. QED BY <1>3, <1>5, <2>1 DEF QRCodesRunOut, LastItem, EmittersTold
<1>6. CASE Paired
  BY <1>2, <1>6 DEF Paired
<1>7. CASE PairingFails
  BY <1>3, <1>7 DEF PairingFails, LastItem, EmittersTold
<1>8. QED BY <1>4, <1>5, <1>6, <1>7 DEF Pairing

LEMMA LinkNext == SvcInv /\ Undisturbed /\ LinkInv /\ Step => LinkInv'
<1> SUFFICES ASSUME SvcInv, Undisturbed, LinkInv, Step PROVE LinkInv'
  OBVIOUS
<1>w. world' = world
  BY DEF Step
<1>1. ASSUME UNCHANGED <<libVars, cur, callPC>>,
             \A q \in QRs : \/ qrItem'[q] = "free"
                           \/ (qrItem'[q] = qrItem[q] /\ qrClient'[q] = qrClient[q]),
             \A q \in QRs : qrEmit'[q] # "none" => qrEmit[q] # "none"
      PROVE  LinkInv'
  BY <1>1, <1>w DEF LinkInv, OneClient, LoggingOut, HandlersOwned, MarkInv, RestartInv, CodesInv,
                    Restarts, libVars
<1>2. ASSUME NEW k \in Calls, Logout(k) PROVE FALSE
  BY <1>2 DEF Logout, LogoutBegins, LogoutIsConnected, LogoutUnlink, LogoutDisconnect, LogoutDelete,
              LogoutStops, LogoutReplaces, At, LinkInv, OneClient, LoggingOut, Undisturbed
<1>3. CASE UNCHANGED <<svcVars, world>>
  BY <1>1, <1>3 DEF svcVars, waVars, callVars, qrVars
<1>4. ASSUME NEW q \in QRs, QRGoroutine(q) \/ EmitterStops(q) PROVE LinkInv'
  BY <1>1, <1>4 DEF QRGoroutine, EmitterStops, waVars, callVars, SvcInv, SvcTypeOK
<1>5. CASE EventLoop \/ Traffic
  BY <1>1, <1>5 DEF EventLoop, Receive, Traffic, OtherEvent, Quiet, callVars, qrVars
<1>6. CASE Rejected
  BY <1>6 DEF Rejected, Undisturbed
<1>7. QED BY <1>2, <1>3, <1>4, <1>5, <1>6, <1>w, LinkOfLogin, LinkOfSurroundings, LinkOfLibrary,
             LinkOfHandlers, LinkOfLoops, LinkOfPairing DEF Step, SvcNext

-----------------------------------------------------------------------------
(* What is left when no call is connecting and no event is on its way.       *)

NobodyConnecting == \A k \in Calls : ~CallConnecting(k)
Pending == HasSession /\ sock[cur] # "ready" /\ (SessionAnswers \/ Redialling)

ConnectInv ==
    /\ eventsCh \in Seq(EventKinds)
    /\ status = "connecting" /\ NobodyConnecting /\ ~EventComing => Pending

LEMMA ConnectKept ==
    ASSUME ConnectInv, eventsCh' \in Seq(EventKinds),
           status' = "connecting" /\ NobodyConnecting' => status = "connecting" /\ NobodyConnecting,
           EventComing => EventComing', Pending => Pending' \/ EventComing'
    PROVE  ConnectInv'
BY DEF ConnectInv

(* A call that leaves the library alone. *)
LEMMA ConnectOfCalls ==
    ASSUME ConnectInv, UNCHANGED <<libVars, cur, eventsCh, world>>,
           status' = "connecting" /\ NobodyConnecting' => status = "connecting" /\ NobodyConnecting
    PROVE  ConnectInv'
<1>1. EventComing' = EventComing /\ Pending' = Pending
  BY DEF EventComing, Pending, HasSession, HasID, SessionAnswers, Redialling, libVars
<1>2. QED BY <1>1, ConnectKept DEF ConnectInv

LEMMA ConnectOfLogin ==
    ASSUME SvcInv, LinkInv, ConnectInv, Undisturbed, NEW k \in Calls, Login(k), UNCHANGED world
    PROVE  ConnectInv'
<1> USE DEF SvcInv, SvcTypeOK, TypeOK, LibTypeOK
<1>1. ASSUME NEW pc, Goto(k, pc), ~CallConnecting(k) PROVE NobodyConnecting' => NobodyConnecting
  BY <1>1 DEF Goto, NobodyConnecting, CallConnecting
<1>2. ASSUME NEW pc \in {"dial", "dialing", "getqr", "qrdial", "qrdialing", "pending", "down"}, Goto(k, pc)
      PROVE  ~NobodyConnecting'
  BY <1>2 DEF Goto, NobodyConnecting, CallConnecting
<1>3. CASE LoginBegins(k) \/ LoginGuard(k) \/ LoginBranch(k) \/ AutoConnectGuard(k)
  <2>1. ~CallConnecting(k)
    BY <1>3 DEF LoginBegins, LoginGuard, LoginBranch, AutoConnectGuard, At, CallConnecting
  <2>2. UNCHANGED <<libVars, cur, eventsCh>>
    BY <1>3 DEF LoginBegins, LoginGuard, LoginBranch, AutoConnectGuard, waVars
  <2>3. status' = status \/ ~NobodyConnecting'
    BY <1>2, <1>3 DEF LoginBegins, LoginGuard, LoginBranch, AutoConnectGuard
  <2>4. NobodyConnecting' => NobodyConnecting
    BY <1>1, <1>3, <2>1 DEF LoginBegins, LoginGuard, LoginBranch, AutoConnectGuard
  <2>5. QED BY <2>2, <2>3, <2>4, ConnectOfCalls
<1>4. CASE LoginGetQR(k) \/ LoginPending(k) \/ CallFails(k)
  <2>1. UNCHANGED <<libVars, cur, eventsCh>>
    BY <1>4 DEF LoginGetQR, LoginPending, CallFails, waVars
  <2>2. status' # "connecting" \/ ~NobodyConnecting'
    BY <1>2, <1>4 DEF LoginGetQR, LoginPending, CallFails, SetStatus
  <2>3. QED BY <2>1, <2>2, ConnectOfCalls
<1>5. CASE LoginQRDial(k)
  <2>1. ~NobodyConnecting' /\ UNCHANGED eventsCh
    BY <1>2, <1>5 DEF LoginQRDial, DialSteps
  <2>2. QED BY <2>1 DEF ConnectInv
<1>6. CASE AutoConnectDial(k)
  <2>1. ~NobodyConnecting' \/ (At(k, "dialing") /\ EndDial(callClient[k], TRUE))
    BY <1>2, <1>6 DEF AutoConnectDial, DialSteps
  <2>2. ASSUME At(k, "dialing"), EndDial(callClient[k], TRUE) PROVE Pending'
    <3>1. callClient[k] = cur /\ sock[cur] = "dialing"
      BY <2>2 DEF At, CallDialInv, CallDials, CallerDials, LinkInv, OneClient
    <3>2. device[cur] = "paired" /\ ~expected[cur]
      BY <2>2, <3>1 DEF LinkInv, MarkInv, At, DeviceStates
    <3>3. QED BY <1>6, <2>2, <3>1, <3>2 DEF AutoConnectDial, EndDial, Pending, HasSession, HasID, SessionAnswers
  <2>3. UNCHANGED eventsCh
    BY <1>6 DEF AutoConnectDial
  <2>4. QED BY <2>1, <2>2, <2>3 DEF ConnectInv
<1>7. QED BY <1>3, <1>4, <1>5, <1>6 DEF Login

(* The server and the network: an answer is an event. *)
LEMMA ConnectOfSurroundings ==
    ASSUME SvcInv, LinkInv, ConnectInv, Undisturbed, Surroundings, UNCHANGED world
    PROVE  ConnectInv'
<1> USE DEF SvcInv, SvcTypeOK, TypeOK, LibTypeOK
<1>q. Quiet /\ UNCHANGED <<cur, eventsCh>>
  BY DEF Surroundings
<1>k. (EventComing => EventComing') /\ (Pending => Pending' \/ EventComing') => ConnectInv'
  BY <1>q, ConnectKept DEF Quiet, callVars, NobodyConnecting, CallConnecting, ConnectInv
<1>1. ASSUME NEW c \in Clients, "close" \in world, RemoteClose(c) PROVE ConnectInv'
  <2>1. c = cur
    BY <1>1 DEF LinkInv, OneClient, RemoteClose, IsConnected
  <2>2. EventComing => EventComing'
    BY <1>1, <1>q DEF RemoteClose, EventComing
  <2>3. Pending => Pending'
    BY <1>1, <1>q, <2>1
    DEF RemoteClose, Pending, HasSession, HasID, SessionAnswers, Redialling, Undisturbed
  <2>4. QED BY <1>k, <2>2, <2>3
<1>2. ASSUME NEW c \in Clients, NEW h \in Handlers, AuthSuccess(c, h) \/ RemoteLogout(c, h) PROVE ConnectInv'
  <2>1. hEvent'[h] \in EventKinds
    BY <1>2 DEF AuthSuccess, RemoteLogout, Spawn, EventKinds
  <2>2. QED BY <1>k, <2>1 DEF EventComing
<1>3. ASSUME NEW c \in Clients, NEW h \in Handlers, RestartRequired(c, h) PROVE ConnectInv'
  <2>1. c = cur
    BY <1>3 DEF LinkInv, OneClient, RestartRequired
  <2>2. EventComing => EventComing'
    <3>1. ASSUME NEW g \in Handlers, hEvent[g] \in EventKinds PROVE \E f \in Handlers : hEvent'[f] \in EventKinds
      <4>1. CASE g # h
        BY <1>3, <3>1, <4>1 DEF RestartRequired, Spawn
      <4>2. CASE g = h
        BY <1>3, <3>1, <4>2 DEF RestartRequired, Spawn, LinkInv, HandlersOwned, EventKinds
      <4>3. QED BY <4>1, <4>2
    <3>2. QED BY <1>q, <3>1 DEF EventComing
  <2>3. Pending => Pending'
    BY <1>3, <1>q, <2>1 DEF RestartRequired, Spawn, Pending, HasSession, HasID, SessionAnswers, Redialling
  <2>4. QED BY <1>k, <2>2, <2>3
<1>4. QED BY <1>1, <1>2, <1>3 DEF Surroundings

(* The library's goroutines: a lost connection of the session is reported,   *)
(* and the one that restarts it dials or finds it dialled.                   *)
LEMMA ConnectOfLibrary ==
    ASSUME SvcInv, LinkInv, ConnectInv, Undisturbed, NEW h \in Handlers, LibraryTurn(h), UNCHANGED world
    PROVE  ConnectInv'
<1> USE DEF SvcInv, SvcTypeOK, TypeOK, LibTypeOK
<1>q. Quiet /\ UNCHANGED <<cur, eventsCh>>
  BY DEF LibraryTurn
<1>k. (EventComing => EventComing') /\ (Pending => Pending' \/ EventComing') => ConnectInv'
  BY <1>q, ConnectKept DEF Quiet, callVars, NobodyConnecting, CallConnecting, ConnectInv
<1>1. ASSUME \A g \in Handlers : hEvent'[g] # hEvent[g] => ~(hEvent[g] \in EventKinds)
      PROVE  EventComing => EventComing'
  BY <1>1, <1>q DEF EventComing
<1>2. ASSUME NEW c \in Clients, OnDisconnect(c, h) PROVE ConnectInv'
  <2>1. c = cur
    BY <1>2 DEF LinkInv, OneClient, OnDisconnect
  <2>2. EventComing => EventComing'
    BY <1>1, <1>2 DEF OnDisconnect, Spawn, handlerVars, LinkInv, HandlersOwned, EventKinds
  <2>3. CASE ~expected[cur]
    <3>1. hEvent'[h] \in EventKinds
      BY <1>2, <2>1, <2>3 DEF OnDisconnect, Spawn, EventKinds
    <3>2. QED BY <1>k, <2>2, <3>1 DEF EventComing
  <2>4. CASE expected[cur]
    <3>1. Pending => Pending'
      BY <1>2, <1>q, <2>1, <2>4
      DEF OnDisconnect, handlerVars, Pending, HasSession, HasID, SessionAnswers, Redialling
    <3>2. QED BY <1>k, <2>2, <3>1
  <2>5. QED BY <2>3, <2>4
<1>3. CASE RestartDisconnect(h)
  <2>1. hClient[h] = cur /\ Restarts(h)
    BY <1>3 DEF RestartDisconnect, LinkInv, HandlersOwned, Restarts
  <2>2. EventComing => EventComing'
    BY <1>1, <1>3 DEF RestartDisconnect
  <2>3. Pending => Pending'
    <3>1. CASE "dial" \notin world
      BY <1>3, <1>q, <2>1, <3>1
      DEF RestartDisconnect, CloseSocket, Pending, HasSession, HasID, Redialling, Restarts
    <3>2. CASE "dial" \in world
      <4>1. sock[cur] = "open" /\ expected[cur]
        BY <1>3, <2>1, <3>2 DEF RestartDisconnect, LinkInv, RestartInv, Undisturbed
      <4>2. ~Pending
        BY <3>2, <4>1 DEF Pending, SessionAnswers, Redialling
      <4>3. QED BY <4>2
    <3>3. QED BY <3>1, <3>2
  <2>4. QED BY <1>k, <2>2, <2>3
<1>4. CASE RestartConnect(h)
  <2>1. hClient[h] = cur /\ Restarts(h)
    BY <1>4 DEF RestartConnect, LinkInv, HandlersOwned, Restarts
  <2>2. CASE BeginDial(cur) /\ UNCHANGED <<hEvent, hClient>>
    <3>1. EventComing => EventComing'
      BY <1>1, <2>2
    <3>2. Pending => Pending'
      BY <1>q, <2>2
      DEF BeginDial, ConnectRefused, IsConnected, Pending, HasSession, HasID, SessionAnswers, Redialling
    <3>3. QED BY <1>k, <3>1, <3>2
  <2>3. CASE Finish(h) /\ ConnectRefused(cur) /\ hPC[h] = "redial" /\ UNCHANGED <<sock, device, expected>>
    <3>1. EventComing => EventComing'
      BY <1>1, <2>1, <2>3 DEF Finish, Restarts, EventKinds
    <3>2. Pending => Pending'
      <4>1. Pending => sock[cur] = "open" /\ HasSession
        BY <2>3 DEF Pending, ConnectRefused, IsConnected, HasSession, HasID
      <4>2. Pending => ~expected[cur]
        BY <2>1, <2>3, <4>1 DEF LinkInv, RestartInv, Up, HasSession, HasID
      <4>3. QED BY <1>q, <2>3, <4>1, <4>2 DEF Pending, SessionAnswers, HasSession, HasID
    <3>3. QED BY <1>k, <3>1, <3>2
  <2>4. QED BY <1>4, <2>1, <2>2, <2>3 DEF RestartConnect
<1>5. ASSUME NEW ok \in BOOLEAN, ok \/ "dial" \in world, RestartDialed(h, ok) PROVE ConnectInv'
  <2>1. hClient[h] = cur /\ Restarts(h) /\ sock[cur] = "dialing"
    BY <1>5 DEF RestartDialed, EndDial, LinkInv, HandlersOwned, Restarts
  <2>2. EventComing => EventComing'
    BY <1>1, <1>5, <2>1 DEF RestartDialed, Finish, Restarts, EventKinds
  <2>3. Pending => ok
    BY <1>5, <2>1 DEF Pending, SessionAnswers, Redialling
  <2>4. Pending => Pending'
    BY <1>5, <1>q, <2>1, <2>3
    DEF RestartDialed, EndDial, LinkInv, MarkInv, Pending, HasSession, HasID, SessionAnswers
  <2>5. QED BY <1>k, <2>2, <2>4
<1>6. QED BY <1>2, <1>3, <1>4, <1>5 DEF LibraryTurn

(* A handler that delivers leaves its event in the channel, or finds others  *)
(* there that will do.                                                       *)
LEMMA ConnectOfHandlers ==
    ASSUME SvcInv, LinkInv, ConnectInv, NEW h \in Handlers, HandlerTurn(h), UNCHANGED world
    PROVE  ConnectInv'
<1> USE DEF SvcInv, SvcTypeOK, TypeOK, LibTypeOK
<1>q. UNCHANGED <<callPC, status, sock, device, expected, cur>>
  BY DEF HandlerTurn, Deliver, Quiet, callVars, HandlerStop, HandlerHasSession, HandlerStart, HandlerEnqueue
<1>n. NobodyConnecting' = NobodyConnecting
  BY <1>q DEF NobodyConnecting, CallConnecting
<1>1. CASE HandlerStop(h) \/ HandlerHasSession(h) \/ HandlerStart(h)
  <2>1. UNCHANGED <<hEvent, hClient, eventsCh>>
    BY <1>1 DEF HandlerStop, HandlerHasSession, HandlerStart
  <2>2. EventComing' = EventComing /\ Pending' = Pending
    BY <1>q, <2>1 DEF EventComing, Pending, HasSession, HasID, SessionAnswers, Redialling
  <2>3. QED BY <1>n, <1>q, <2>1, <2>2, ConnectKept DEF ConnectInv
<1>2. CASE HandlerEnqueue(h)
  <2>1. hEvent[h] \in EventKinds
    BY <1>2 DEF HandlerEnqueue, HandlerShape
  <2>2. eventsCh' \in Seq(EventKinds) /\ eventsCh' # <<>>
    <3>1. CASE Len(eventsCh) < EventsCap
      <4>1. eventsCh' = Append(eventsCh, hEvent[h])
        BY <1>2, <3>1 DEF HandlerEnqueue, Enqueue
      <4>2. QED BY <2>1, <4>1 DEF ConnectInv
    <3>2. CASE ~(Len(eventsCh) < EventsCap)
      <4>1. eventsCh' = eventsCh
        BY <1>2, <3>2 DEF HandlerEnqueue, Enqueue
      <4>2. Len(eventsCh) # 0
        BY <3>2, EventsCapAssumption
      <4>3. QED BY <4>1, <4>2 DEF ConnectInv
    <3>3. QED BY <3>1, <3>2
  <2>3. EventComing'
    BY <2>2 DEF EventComing
  <2>4. QED BY <2>2, <2>3 DEF ConnectInv
<1>3. QED BY <1>1, <1>2 DEF HandlerTurn, Deliver

LEMMA ConnectOfLoops ==
    ASSUME SvcInv, LinkInv, ConnectInv, NEW l \in Loops, LoopTurn(l), UNCHANGED world
    PROVE  ConnectInv'
<1> USE DEF SvcInv, SvcTypeOK, TypeOK, LibTypeOK
<1>q. UNCHANGED <<callPC, status, handlerVars, device, cur, eventsCh>>
  BY DEF LoopTurn, Quiet, callVars, LoopTimer, LoopDone, LoopCheck, LoopConnect, LoopDialed, LoopExit, libVars,
         handlerVars, BeginDial, EndDial
<1>n. NobodyConnecting' = NobodyConnecting /\ EventComing' = EventComing /\ Redialling' = Redialling
  BY <1>q DEF NobodyConnecting, CallConnecting, EventComing, Redialling, handlerVars
<1>1. CASE UNCHANGED <<sock, expected>>
  <2>1. Pending' = Pending
    BY <1>1, <1>q, <1>n DEF Pending, HasSession, HasID, SessionAnswers
  <2>2. QED BY <1>q, <1>n, <2>1, ConnectKept DEF ConnectInv
<1>2. CASE BeginDial(cur)
  <2>1. Pending => Pending'
    BY <1>2, <1>q, <1>n DEF BeginDial, ConnectRefused, IsConnected, Pending, HasSession, HasID, SessionAnswers
  <2>2. QED BY <1>q, <1>n, <2>1, ConnectKept DEF ConnectInv
<1>3. ASSUME NEW ok \in BOOLEAN, ok \/ "dial" \in world, LoopDialed(l, ok) PROVE ConnectInv'
  <2>1. loopClient[l] = cur /\ sock[cur] = "dialing"
    BY <1>3 DEF LoopDialed, EndDial, DialInv, DialersHoldLocks, LoopDials, LinkInv, OneClient
  <2>2. Pending => ok
    BY <1>3, <2>1 DEF Pending, SessionAnswers, Redialling
  <2>3. Pending => Pending'
    BY <1>3, <1>q, <1>n, <2>1, <2>2
    DEF LoopDialed, EndDial, LinkInv, MarkInv, Pending, HasSession, HasID, SessionAnswers
  <2>4. QED BY <1>q, <1>n, <2>3, ConnectKept DEF ConnectInv
<1>4. QED BY <1>1, <1>2, <1>3
          DEF LoopTurn, LoopTimer, LoopDone, LoopCheck, LoopConnect, LoopExit, libVars

LEMMA ConnectNext ==
    SvcInv /\ Undisturbed /\ "traffic" \notin world /\ LinkInv /\ ConnectInv /\ Step => ConnectInv'
<1> SUFFICES ASSUME SvcInv, Undisturbed, "traffic" \notin world, LinkInv, ConnectInv, Step
             PROVE  ConnectInv'
  OBVIOUS
<1>w. world' = world
  BY DEF Step
<1>n. ASSUME UNCHANGED callPC PROVE NobodyConnecting' = NobodyConnecting
  BY <1>n DEF NobodyConnecting, CallConnecting
<1>1. ASSUME NEW k \in Calls, Logout(k) PROVE FALSE
  BY <1>1 DEF Logout, LogoutBegins, LogoutIsConnected, LogoutUnlink, LogoutDisconnect, LogoutDelete,
              LogoutStops, LogoutReplaces, At, LinkInv, OneClient, LoggingOut, Undisturbed
<1>2. CASE UNCHANGED <<svcVars, world>>
  BY <1>2, <1>n, ConnectOfCalls DEF svcVars, waVars, callVars
<1>3. ASSUME NEW q \in QRs, QRGoroutine(q) \/ EmitterStops(q) PROVE ConnectInv'
  <2>1. status' = "connecting" => status = "connecting"
    BY <1>3 DEF QRGoroutine, EmitterStops, SetStatus
  <2>2. QED BY <1>3, <1>n, <1>w, <2>1, ConnectOfCalls DEF QRGoroutine, EmitterStops, waVars, callVars
<1>4. CASE EventLoop
  <2>1. Head(eventsCh) \in EventKinds /\ eventsCh' \in Seq(EventKinds)
    BY <1>4 DEF EventLoop, Receive, ConnectInv
  <2>2. status' # "connecting"
    BY <1>4, <2>1 DEF EventLoop, SetStatus, EventKinds
  <2>3. QED BY <2>1, <2>2 DEF ConnectInv
<1>5. CASE Traffic \/ Rejected
  BY <1>5 DEF Traffic, Rejected, Undisturbed
<1>6. CASE Pairing
  <2>1. UNCHANGED <<handlerVars, cur, eventsCh, callPC, status>>
    BY <1>6 DEF Pairing, callVars
  <2>2. \/ \E c \in Clients : sock[c] = "open" /\ device[c] = "none"
        \/ \E q \in QRs : qrEmit[q] # "none"
    BY <1>6 DEF Pairing, Paired, Pair, PairingFails, QRCodes, QRCodesRunOut
  <2>3. ~Pending
    BY <2>2 DEF LinkInv, OneClient, CodesInv, Pending, HasSession, HasID
  <2>4. EventComing' = EventComing
    BY <2>1 DEF EventComing, handlerVars
  <2>5. QED BY <1>n, <2>1, <2>3, <2>4, ConnectKept DEF ConnectInv
<1>7. QED BY <1>1, <1>2, <1>3, <1>4, <1>5, <1>6, <1>w, ConnectOfLogin, ConnectOfSurroundings,
             ConnectOfLibrary, ConnectOfHandlers, ConnectOfLoops DEF Step, SvcNext

-----------------------------------------------------------------------------

(* LinkInv and ConnectInv hold in the worlds that leave a word behind, the   *)
(* second where no other event can fill the channel.                         *)
StatusInv ==
    /\ SvcInv
    /\ Undisturbed =>
          /\ LinkInv
          /\ "traffic" \notin world => ConnectInv

LEMMA StatusInit == SvcInit => StatusInv
<1> SUFFICES ASSUME SvcInit PROVE StatusInv
  OBVIOUS
<1>1. SvcInv
  BY SvcInvInit
<1>2. LinkInv
  <2>1. cur \in Clients /\ \A c \in Clients : sock[c] = "nil"
    BY <1>1 DEF SvcInit, Init, LibInit, SvcInv, SvcTypeOK, TypeOK
  <2>2. \A h \in Handlers : hPC[h] = "idle" /\ hEvent[h] = "none"
    BY DEF SvcInit, Init, LibInit
  <2>3. OneClient
    BY <2>1 DEF SvcInit, OneClient, LoggingOut
  <2>4. HandlersOwned /\ RestartInv
    BY <2>1, <2>2 DEF HandlersOwned, RestartInv, Restarts
  <2>5. MarkInv /\ CodesInv
    BY <2>1 DEF SvcInit, MarkInv, CodesInv, Up
  <2>6. QED BY <2>3, <2>4, <2>5 DEF LinkInv
<1>3. ConnectInv
  BY DEF SvcInit, Init, ConnectInv
<1>4. QED BY <1>1, <1>2, <1>3 DEF StatusInv

LEMMA StatusNext == StatusInv /\ Step => StatusInv'
<1> SUFFICES ASSUME StatusInv, Step PROVE StatusInv'
  OBVIOUS
<1>1. SvcInv'
  BY SvcInvNext DEF StatusInv, Step
<1>2. world' = world /\ Undisturbed' = Undisturbed
  BY DEF Step, Undisturbed
<1>3. ASSUME Undisturbed
      PROVE  LinkInv' /\ ("traffic" \notin world => ConnectInv')
  BY <1>3, LinkNext, ConnectNext DEF StatusInv
<1>4. QED BY <1>1, <1>2, <1>3 DEF StatusInv

LEMMA StatusInvariant == SvcSpec => []StatusInv
<1>1. StatusInv /\ [SvcNext /\ UNCHANGED world]_<<svcVars, world>> => StatusInv'
  BY StatusNext DEF Step
<1>2. QED BY <1>1, StatusInit, PTL DEF SvcSpec

(* A status of "connecting" is never left behind: a call, an event, the      *)
(* goroutine that redials after a pairing, or a live connection of the       *)
(* session is there to change it.                                            *)
THEOREM ConnectingCorrect == SvcSpec => []ConnectingServed
<1>1. StatusInv => ConnectingServed
  BY DEF StatusInv, ConnectingServed, ConnectInv, NobodyConnecting, Pending
<1>2. QED BY <1>1, StatusInvariant, PTL

=============================================================================

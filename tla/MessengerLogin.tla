--------------------------- MODULE MessengerLogin ---------------------------
(***************************************************************************)
(* The connection side of dbus.MessengerService on top of WAClient: the    *)
(* daemon's start, RequestLogin, Logout, the goroutine that reads the QR   *)
(* channel, and the event loop that turns client events into a status.     *)
(*                                                                         *)
(* Every D-Bus call runs on a goroutine of its own, so two calls           *)
(* interleave wherever one of them leaves a lock. A call is a sequence of  *)
(* steps (callPC); a step is what happens between two points where another *)
(* goroutine can get in.                                                   *)
(*                                                                         *)
(* The status changes here in one step with setStatus; the order in which  *)
(* its signals leave the daemon is not modelled.                           *)
(***************************************************************************)
EXTENDS WAClient, FiniteSets

CONSTANTS
    Calls,          \* bound on the service calls under way at one time
    Main,           \* the one that main() makes at start
    QRs,            \* bound on the QR channels alive at one time
    NoQR,
    Worlds          \* what may happen outside the daemon: the cases of a run

ASSUME MainAssumption == Main \in Calls
ASSUME NoQRAssumption == NoQR \notin QRs

(* "close": connections are lost.  "dial": dials fail.  "reject": the server *)
(* turns a connection down without a logout.  "unlink": the phone removes    *)
(* the device.  "disk": the session database fails.  "scan": the phone scans *)
(* a code.  "codes": the codes run out; without it they last, and who shows  *)
(* them does not matter.  "badpair": a pairing fails.  "traffic": messages   *)
(* and other events reach the channel.  "login", "logout": a D-Bus client    *)
(* calls RequestLogin, Logout.                                               *)
WorldKinds ==
    {"close", "dial", "reject", "unlink", "disk", "scan", "codes", "badpair", "traffic",
     "login", "logout"}

ASSUME WorldsAssumption == Worlds \subseteq SUBSET WorldKinds

VARIABLES
    status,         \* m.status
    callPC,         \* callPC[k]: where call k stands
    callClient,     \* callClient[k]: the client call k is dialling
    callQR,         \* callQR[k]: the QR channel call k got
    qrItem,         \* qrItem[q]: the last item of QR channel q, "open" before it
    qrClient,       \* qrClient[q]: the client it was made for
    qrRead,         \* qrRead[q]: RequestLogin's goroutine reads it
    qrEmit,         \* qrEmit[q]: the goroutine that puts codes into it
    world           \* the case this behaviour is of

callVars == <<callPC, callClient, callQR>>
qrVars == <<qrItem, qrClient, qrRead, qrEmit>>
svcVars == <<waVars, status, callVars, qrVars>>

Statuses == {"disconnected", "connecting", "qr_pending", "connected"}

CallPCs ==
    {"none",
     "guard", "branch",                                 \* RequestLogin
     "auto", "dial", "dialing",                         \* AutoConnect
     "getqr", "qrdial", "qrdialing", "pending",         \* QR login
     "down",                                            \* setStatus("disconnected") ahead
     "connected?", "unlink", "disconnect1", "delete1",  \* Logout
     "stop", "disconnect2", "delete2", "reset", "replace"}

(* "closed" is any item RequestLogin's goroutine ignores before the channel  *)
(* closes: "error" and the err-* items.                                      *)
QRItems == {"free", "open", "success", "timeout", "closed"}

(* An emitter is "on" while it waits for the next code's turn. A disconnect  *)
(* of its client tells it to stop: from then on it leaves without a last     *)
(* item, unless its time is up at that very moment and the select takes that.*)
Emitters == {"none", "on", "told"}

SvcTypeOK ==
    /\ TypeOK
    /\ status \in Statuses
    /\ callPC \in [Calls -> CallPCs]
    /\ callClient \in [Calls -> Clients \cup {NoClient}]
    /\ callQR \in [Calls -> QRs \cup {NoQR}]
    /\ qrItem \in [QRs -> QRItems]
    /\ qrClient \in [QRs -> Clients \cup {NoClient}]
    /\ qrRead \in [QRs -> BOOLEAN]
    /\ qrEmit \in [QRs -> Emitters]
    /\ world \in Worlds

(* main() calls AutoConnect if the store holds a session *)
SvcInit ==
    /\ Init
    /\ status = "disconnected"
    /\ callPC = [k \in Calls |-> IF k = Main /\ HasSession THEN "auto" ELSE "none"]
    /\ callClient = [k \in Calls |-> NoClient]
    /\ callQR = [k \in Calls |-> NoQR]
    /\ qrItem = [q \in QRs |-> "free"]
    /\ qrClient = [q \in QRs |-> NoClient]
    /\ qrRead = [q \in QRs |-> FALSE]
    /\ qrEmit = [q \in QRs |-> "none"]
    /\ world \in Worlds

-----------------------------------------------------------------------------

At(k, pc) == callPC[k] = pc
Goto(k, pc) == callPC' = [callPC EXCEPT ![k] = pc]
SetStatus(s) == status' = s

clientSide == <<sock, device, expected>>

(* The channels of client c that have not had their last item *)
OpenQRs(c) == {q \in QRs : qrItem[q] = "open" /\ qrClient[q] = c}

(* A channel somebody reads or will read; the others were left behind *)
Owned(q) == qrRead[q] \/ \E k \in Calls : callQR[k] = q

(* What a disconnect of c does to the emitters of its channels but Q *)
EmittersTold(c, Q) ==
    qrEmit' = [q \in QRs |->
                  IF q \in Q THEN "none"
                  ELSE IF qrClient[q] = c /\ qrEmit[q] = "on" THEN "told" ELSE qrEmit[q]]

(* Q, channels of c, get their last item. One left behind is then forgotten. *)
LastItem(c, Q, item) ==
    /\ qrItem' = [q \in QRs |-> IF q \notin Q THEN qrItem[q] ELSE IF Owned(q) THEN item ELSE "free"]
    /\ qrClient' = [q \in QRs |-> IF q \in Q /\ ~Owned(q) THEN NoClient ELSE qrClient[q]]
    /\ EmittersTold(c, Q)
    /\ UNCHANGED qrRead

(* Dial steps shared by AutoConnect and by the QR login *)
DialSteps(k, before, during, done) ==
    \/ /\ At(k, before)
       /\ BeginDial(cur)
       /\ Goto(k, during)
       /\ callClient' = [callClient EXCEPT ![k] = cur]
    \/ /\ At(k, before)
       /\ LockFree(cur) /\ ConnectRefused(cur)
       /\ Goto(k, "down")
       /\ UNCHANGED <<clientSide, callClient>>
    \/ /\ At(k, during)
       /\ \E ok \in BOOLEAN :
             /\ ok \/ "dial" \in world
             /\ EndDial(callClient[k], ok)
             /\ Goto(k, IF ok THEN done ELSE "down")
       /\ callClient' = [callClient EXCEPT ![k] = NoClient]

-----------------------------------------------------------------------------
(* RequestLogin and AutoConnect.                                             *)

(* A bound: every call that may still ask for a QR channel will find one *)
QRsLeft ==
    Cardinality({k \in Calls : callPC[k] \in {"guard", "branch", "getqr"}})
        < Cardinality({q \in QRs : qrItem[q] = "free"})

(* The status is read first; a login under way makes the call a no-op *)
LoginBegins(k) ==
    /\ "login" \in world
    /\ At(k, "none") /\ QRsLeft
    /\ status \notin {"connecting", "qr_pending"}
    /\ Goto(k, "guard")
    /\ UNCHANGED <<waVars, status, callClient, callQR, qrVars>>

LoginGuard(k) ==
    /\ At(k, "guard")
    /\ LockFree(cur)
    /\ Goto(k, IF IsConnected(cur) THEN "none" ELSE "branch")
    /\ UNCHANGED <<waVars, status, callClient, callQR, qrVars>>

LoginBranch(k) ==
    /\ At(k, "branch")
    /\ IF HasSession
       THEN Goto(k, "auto") /\ UNCHANGED status
       ELSE Goto(k, "getqr") /\ SetStatus("connecting")
    /\ UNCHANGED <<waVars, callClient, callQR, qrVars>>

AutoConnectGuard(k) ==
    /\ At(k, "auto")
    /\ LockFree(cur)
    /\ IF ~HasSession \/ IsConnected(cur)
       THEN Goto(k, "none") /\ UNCHANGED status
       ELSE Goto(k, "dial") /\ SetStatus("connecting")
    /\ UNCHANGED <<waVars, callClient, callQR, qrVars>>

AutoConnectDial(k) ==
    /\ DialSteps(k, "dial", "dialing", "none")
    /\ UNCHANGED <<handlerVars, cur, retryVars, eventsCh, status, callQR, qrVars>>

(* GetQRChannel registers the channel's handler with the current client *)
LoginGetQR(k) ==
    /\ At(k, "getqr")
    /\ LockFree(cur)
    /\ IF IsConnected(cur) \/ HasSession
       THEN Goto(k, "down") /\ UNCHANGED <<callQR, qrVars>>
       ELSE \E q \in QRs :
               /\ qrItem[q] = "free"
               /\ qrItem' = [qrItem EXCEPT ![q] = "open"]
               /\ qrClient' = [qrClient EXCEPT ![q] = cur]
               /\ callQR' = [callQR EXCEPT ![k] = q]
               /\ Goto(k, "qrdial")
               /\ UNCHANGED <<qrRead, qrEmit>>
    /\ UNCHANGED <<waVars, status, callClient>>

LoginQRDial(k) ==
    /\ DialSteps(k, "qrdial", "qrdialing", "pending")
    /\ UNCHANGED <<handlerVars, cur, retryVars, eventsCh, status, callQR, qrVars>>

(* The goroutine that reads the channel starts only after the status is set *)
LoginPending(k) ==
    /\ At(k, "pending")
    /\ SetStatus("qr_pending")
    /\ qrRead' = [qrRead EXCEPT ![callQR[k]] = TRUE]
    /\ callQR' = [callQR EXCEPT ![k] = NoQR]
    /\ Goto(k, "none")
    /\ UNCHANGED <<waVars, callClient, qrItem, qrClient, qrEmit>>

(* The channel of a call that returns an error. Nobody unregisters it: if it *)
(* is open it stays with the client, unread, and takes part in the next      *)
(* connection.                                                               *)
LeaveQR(k) ==
    /\ callQR' = [callQR EXCEPT ![k] = NoQR]
    /\ LET over(q) == q = callQR[k] /\ qrItem[q] # "open"
       IN  /\ qrItem' = [q \in QRs |-> IF over(q) THEN "free" ELSE qrItem[q]]
           /\ qrClient' = [q \in QRs |-> IF over(q) THEN NoClient ELSE qrClient[q]]
    /\ UNCHANGED <<qrRead, qrEmit>>

CallFailsSilently(k) ==     \* mutant: the error path leaves the status
    /\ At(k, "down")
    /\ Goto(k, "none")
    /\ LeaveQR(k)
    /\ UNCHANGED <<waVars, status, callClient>>

CallFailsOffline(k) ==      \* mutant: the error path disconnects as well
    /\ At(k, "down")
    /\ CloseSocket(cur)
    /\ SetStatus("disconnected")
    /\ Goto(k, "none")
    /\ LeaveQR(k)
    /\ UNCHANGED <<handlerVars, cur, retryVars, eventsCh, callClient>>

(* An error path *)
CallFails(k) ==
    /\ At(k, "down")
    /\ SetStatus("disconnected")
    /\ Goto(k, "none")
    /\ LeaveQR(k)
    /\ UNCHANGED <<waVars, callClient>>

QRGoroutineNoTimeout(q) ==  \* mutant: the "timeout" item is ignored as well
    /\ qrRead[q] /\ qrItem[q] \in {"success", "timeout", "closed"}
    /\ IF qrItem[q] = "success" THEN SetStatus("connected") ELSE UNCHANGED status
    /\ qrItem' = [qrItem EXCEPT ![q] = "free"]
    /\ qrClient' = [qrClient EXCEPT ![q] = NoClient]
    /\ qrRead' = [qrRead EXCEPT ![q] = FALSE]
    /\ UNCHANGED <<waVars, callVars, qrEmit>>

QRGoroutineRaw(q) ==        \* mutant: the item's name becomes the status
    /\ qrRead[q] /\ qrItem[q] \in {"success", "timeout", "closed"}
    /\ SetStatus(qrItem[q])
    /\ qrItem' = [qrItem EXCEPT ![q] = "free"]
    /\ qrClient' = [qrClient EXCEPT ![q] = NoClient]
    /\ qrRead' = [qrRead EXCEPT ![q] = FALSE]
    /\ UNCHANGED <<waVars, callVars, qrEmit>>

(* The QR goroutine: only "success" and "timeout" change the status *)
QRGoroutine(q) ==
    /\ qrRead[q] /\ qrItem[q] \in {"success", "timeout", "closed"}
    /\ CASE qrItem[q] = "success" -> SetStatus("connected")
         [] qrItem[q] = "timeout" -> SetStatus("disconnected")
         [] OTHER -> UNCHANGED status
    /\ qrItem' = [qrItem EXCEPT ![q] = "free"]
    /\ qrClient' = [qrClient EXCEPT ![q] = NoClient]
    /\ qrRead' = [qrRead EXCEPT ![q] = FALSE]
    /\ UNCHANGED <<waVars, callVars, qrEmit>>

Login(k) ==
    \/ LoginBegins(k) \/ LoginGuard(k) \/ LoginBranch(k)
    \/ AutoConnectGuard(k) \/ AutoConnectDial(k)
    \/ LoginGetQR(k) \/ LoginQRDial(k) \/ LoginPending(k) \/ CallFails(k)

-----------------------------------------------------------------------------
(* Logout: every step of it may fail; a failure is only logged.              *)

LoggingOut == {k \in Calls : callPC[k] \in {"connected?", "unlink", "disconnect1", "delete1",
                                            "stop", "disconnect2", "delete2", "reset", "replace"}}

(* Logouts may overlap. A bound: each finds a client left to replace w.client*)
LogoutBegins(k) ==
    /\ "logout" \in world
    /\ At(k, "none") /\ cur + Cardinality(LoggingOut) < MaxClients
    /\ StopReconnect
    /\ Goto(k, "connected?")
    /\ UNCHANGED <<libVars, cur, eventsCh, status, callClient, callQR, qrVars>>

LogoutIsConnected(k) ==
    /\ At(k, "connected?")
    /\ LockFree(cur)
    /\ Goto(k, IF IsConnected(cur) THEN "unlink" ELSE "stop")
    /\ UNCHANGED <<waVars, status, callClient, callQR, qrVars>>

(* client.Logout: the request fails without an ID or without an answer *)
LogoutUnlink(k) ==
    /\ At(k, "unlink")
    /\ \/ sock[cur] = "ready" /\ HasSession /\ Goto(k, "disconnect1")
       \/ Goto(k, "stop")
    /\ UNCHANGED <<waVars, status, callClient, callQR, qrVars>>

(* ... then it disconnects and deletes; Logout itself does both once more *)
LogoutDisconnect(k) ==
    /\ At(k, "disconnect1") \/ At(k, "disconnect2")
    /\ CloseSocket(cur)
    /\ EmittersTold(cur, {})
    /\ Goto(k, IF At(k, "disconnect1") THEN "delete1" ELSE "delete2")
    /\ UNCHANGED <<handlerVars, cur, retryVars, eventsCh, status, callClient, callQR, qrItem,
                   qrClient, qrRead>>

LogoutDelete(k) ==
    /\ At(k, "delete1") \/ At(k, "delete2")
    /\ DeleteDevice(cur) \/ ("disk" \in world /\ UNCHANGED clientSide)
    /\ Goto(k, IF At(k, "delete1") THEN "stop" ELSE "reset")
    /\ UNCHANGED <<handlerVars, cur, retryVars, eventsCh, status, callClient, callQR, qrVars>>

LogoutStopsBadly(k) ==      \* mutant: cancelRetry is cleared, not called
    /\ At(k, "stop") \/ At(k, "reset")
    /\ slot' = NoLoop
    /\ Goto(k, IF At(k, "stop") THEN "disconnect2" ELSE "replace")
    /\ UNCHANGED <<libVars, cur, loopPC, cancelled, loopClient, eventsCh, status, callClient,
                   callQR, qrVars>>

(* The StopReconnect of Disconnect, and the one of ResetSession *)
LogoutStops(k) ==
    /\ At(k, "stop") \/ At(k, "reset")
    /\ StopReconnect
    /\ Goto(k, IF At(k, "stop") THEN "disconnect2" ELSE "replace")
    /\ UNCHANGED <<libVars, cur, eventsCh, status, callClient, callQR, qrVars>>

LogoutReplaces(k) ==
    /\ At(k, "replace")
    /\ ReplaceClient \/ ("disk" \in world /\ UNCHANGED <<clientSide, cur>>)
    /\ Goto(k, "down")
    /\ UNCHANGED <<handlerVars, retryVars, eventsCh, status, callClient, callQR, qrVars>>

Logout(k) ==
    \/ LogoutBegins(k) \/ LogoutIsConnected(k) \/ LogoutUnlink(k) \/ LogoutDisconnect(k)
    \/ LogoutDelete(k) \/ LogoutStops(k) \/ LogoutReplaces(k)

-----------------------------------------------------------------------------
(* The event loop.                                                           *)

EventLoop ==
    /\ Receive
    /\ CASE Head(eventsCh) = "Connected" -> SetStatus("connected")
         [] Head(eventsCh) \in {"Disconnected", "LoggedOut"} -> SetStatus("disconnected")
         [] OTHER -> UNCHANGED status
    /\ UNCHANGED <<callVars, qrVars>>

-----------------------------------------------------------------------------
(* The library and its surroundings, seen by the QR channels as well.        *)

(* The QR channel's handler runs after WAClient's, on the same goroutine *)
Deliver(h) ==
    /\ HandlerEnqueue(h)
    /\ LastItem(hClient[h], OpenQRs(hClient[h]),
                IF hEvent[h] = "Disconnected" THEN "timeout" ELSE "closed")

(* The codes of a connection without a session reach every open channel of   *)
(* the client, those left behind too: each gets an emitter.                  *)
QRCodes(c) ==
    /\ "codes" \in world
    /\ sock[c] = "open" /\ device[c] = "none" /\ ~expected[c]
    /\ \E q \in OpenQRs(c) : qrEmit[q] # "on"
    /\ qrEmit' = [q \in QRs |-> IF q \in OpenQRs(c) THEN "on" ELSE qrEmit[q]]
    /\ UNCHANGED <<sock, device, expected, qrItem, qrClient, qrRead>>

Paired ==
    /\ "scan" \in world
    /\ \E c \in Clients : Pair(c) /\ LastItem(c, OpenQRs(c), "success")

(* The emitter whose codes run out first gives its own channel "timeout" and *)
(* disconnects the client, which tells the other emitters to stop. A channel *)
(* left behind whose buffer is full gives up in the same way.                *)
QRCodesRunOut(q) ==
    /\ "codes" \in world
    /\ qrEmit[q] # "none"
    /\ CloseSocket(qrClient[q])
    /\ LastItem(qrClient[q], {q}, "timeout")

(* An emitter that was told to stop: no last item, the channel stays open *)
EmitterStops(q) ==
    /\ qrEmit[q] = "told"
    /\ qrEmit' = [qrEmit EXCEPT ![q] = "none"]
    /\ UNCHANGED <<waVars, status, callVars, qrItem, qrClient, qrRead>>

(* handlePairSuccess on an error: disconnect, then PairError *)
PairingFails ==
    /\ "badpair" \in world
    /\ \E c \in Clients :
          /\ sock[c] = "open" /\ device[c] = "none"
          /\ CloseSocket(c)
          /\ LastItem(c, OpenQRs(c), "closed")

(* The connect failures among the silent rejections end a QR channel too *)
Rejected ==
    /\ "reject" \in world
    /\ \E c \in Clients : SilentRejection(c) /\ LastItem(c, OpenQRs(c), "closed")
    /\ UNCHANGED <<cur, retryVars, eventsCh>>

Quiet == UNCHANGED <<status, callVars, qrVars>>

Surroundings ==
    /\ \/ \E c \in Clients : "close" \in world /\ RemoteClose(c)
       \/ \E c \in Clients, h \in Handlers : AuthSuccess(c, h) \/ RestartRequired(c, h)
       \/ \E c \in Clients, h \in Handlers : "unlink" \in world /\ RemoteLogout(c, h)
    /\ Quiet /\ UNCHANGED <<cur, retryVars, eventsCh>>

LibraryTurn(h) ==
    /\ \/ \E c \in Clients : OnDisconnect(c, h)
       \/ RestartDisconnect(h) \/ RestartConnect(h)
       \/ \E ok \in BOOLEAN : (ok \/ "dial" \in world) /\ RestartDialed(h, ok)
    /\ Quiet /\ UNCHANGED <<cur, retryVars, eventsCh>>

HandlerTurn(h) ==
    \/ (HandlerStop(h) \/ HandlerHasSession(h) \/ HandlerStart(h)) /\ Quiet
    \/ Deliver(h) /\ UNCHANGED <<status, callVars>>

LoopTurn(l) ==
    /\ \/ LoopTimer(l) \/ LoopDone(l) \/ LoopCheck(l) \/ LoopConnect(l) \/ LoopExit(l)
       \/ \E ok \in BOOLEAN : (ok \/ "dial" \in world) /\ LoopDialed(l, ok)
    /\ Quiet

Traffic ==
    /\ "traffic" \in world
    /\ \E c \in Clients : OtherEvent(c)
    /\ Quiet

Pairing ==
    /\ \/ Paired \/ PairingFails
       \/ \E c \in Clients : QRCodes(c)
       \/ \E q \in QRs : QRCodesRunOut(q)
    /\ UNCHANGED <<handlerVars, cur, retryVars, eventsCh, status, callVars>>

SvcNext ==
    \/ \E k \in Calls : Login(k) \/ Logout(k)
    \/ \E q \in QRs : QRGoroutine(q) \/ EmitterStops(q)
    \/ EventLoop
    \/ \E h \in Handlers : HandlerTurn(h) \/ LibraryTurn(h)
    \/ \E l \in Loops : LoopTurn(l)
    \/ Pairing
    \/ Rejected /\ UNCHANGED <<status, callVars>>
    \/ Surroundings
    \/ Traffic

SvcSpec == SvcInit /\ [][SvcNext /\ UNCHANGED world]_<<svcVars, world>>

(***************************************************************************)
(* Fairness, as in WAClient: a goroutine that can run runs; where it waits *)
(* for the socket lock the lock is fair. The D-Bus clients owe nothing.    *)
(***************************************************************************)
CallRuns(k) == (Login(k) \/ Logout(k)) /\ callPC[k] # "none"

SvcFairness ==
    /\ \A k \in Calls : SF_svcVars(CallRuns(k))
    /\ \A q \in QRs : WF_svcVars(QRGoroutine(q))
    /\ WF_svcVars(EventLoop)
    /\ \A h \in Handlers : SF_svcVars(HandlerTurn(h)) /\ SF_svcVars(LibraryTurn(h))
    /\ \A l \in Loops : SF_svcVars(LoopTurn(l))

LibrarySide(A) == A /\ UNCHANGED <<handlerVars, cur, retryVars, eventsCh, status, callVars>>

(* The server answers an open connection: it accepts a session it knows, asks*)
(* for the restart after a pairing, and sends codes to a client without one. *)
ServerAnswers ==
    \A c \in Clients :
        /\ WF_svcVars(/\ \E h \in Handlers : AuthSuccess(c, h) \/ RestartRequired(c, h)
                      /\ Quiet /\ UNCHANGED <<cur, retryVars, eventsCh>>)
        /\ WF_svcVars(LibrarySide(QRCodes(c)))

(* The network comes back: of infinitely many dials of a loop, one succeeds. *)
NetworkReturns ==
    \A l \in Loops : SF_svcVars(LoopDialed(l, TRUE) /\ Quiet)

(* The user scans one of infinitely many codes shown *)
UserScans == WF_svcVars(LibrarySide(Paired))

(* The library's timer: an emitter nobody stops runs out of codes. It waits  *)
(* for the socket lock to disconnect.                                        *)
CodesExpire == \A q \in QRs : SF_svcVars(LibrarySide(QRCodesRunOut(q)))

FairSvcSpec == SvcSpec /\ SvcFairness /\ ServerAnswers /\ NetworkReturns /\ CodesExpire
LoginSpec == FairSvcSpec /\ UserScans

-----------------------------------------------------------------------------
(* Properties.                                                               *)

(* The service keeps to the methods of WAClient: with its real callers in    *)
(* place of the arbitrary ones, every step is one of WAClient's or leaves it *)
(* alone, so that whatever holds of WAClient holds of the daemon.            *)
ImplementsWAClient == Spec

(* A connection that ends leaves a word behind, so that the service hears of *)
(* it: not when the server rejects a client silently, not when Logout takes  *)
(* the client away, and not when a lost connection is followed at once by a  *)
(* failing dial (unlockedConnect drops the dead socket, whose onDisconnect   *)
(* then finds another one and says nothing).                                 *)
Undisturbed == {"reject", "logout"} \cap world = {} /\ ~({"close", "dial"} \subseteq world)

(* "connecting" is a passing state: AutoConnect and RequestLogin leave it on *)
(* every error path, and a connection that is lost or accepted changes it,   *)
(* unless the event finds the channel full of others.                        *)
ConnectingEnds ==
    Undisturbed /\ "traffic" \notin world
        => (status = "connecting" ~> status # "connecting")

(* The safety half of ConnectingEnds: at every moment of "connecting" there  *)
(* is somebody who will end it. A call that has set it and has not returned; *)
(* an event on its way; the goroutine that redials after a pairing; or a     *)
(* live connection of a session, which answers when it is accepted or lost.  *)
CallConnecting(k) ==
    callPC[k] \in {"dial", "dialing", "getqr", "qrdial", "qrdialing", "pending", "down"}
EventComing == eventsCh # <<>> \/ \E h \in Handlers : hEvent[h] \in EventKinds
Redialling == "dial" \notin world /\ \E h \in Handlers : hEvent[h] = "Restart"
SessionAnswers ==
    /\ HasSession /\ ~expected[cur]
    /\ sock[cur] = "open" \/ (sock[cur] \in {"dialing", "closed"} /\ "dial" \notin world)

ConnectingServed ==
    Undisturbed /\ "traffic" \notin world /\ status = "connecting"
        => (\E k \in Calls : CallConnecting(k)) \/ EventComing \/ Redialling \/ SessionAnswers

(* A login waits for the last item of its channel: the goroutine that reads  *)
(* it, or the call that will start that goroutine.                           *)
LoginWaits(q) ==
    \/ qrRead[q]
    \/ \E k \in Calls : callQR[k] = q /\ callPC[k] \in {"qrdial", "qrdialing", "pending"}

(* A connection without a session that will bring a last item: it is up, so  *)
(* that codes come and run out; it is being dialled; or it was lost, and the *)
(* Disconnected event is due.                                                *)
LinkAnswers(c) ==
    /\ device[c] = "none"
    /\ \/ sock[c] = "dialing"
       \/ sock[c] \in {"open", "closed"} /\ ~expected[c]
       \/ \E h \in Handlers : hEvent[h] = "Disconnected" /\ hClient[h] = c

LoginAnswered(q) ==
    \/ qrItem[q] \in {"success", "timeout"}
    \/ /\ qrItem[q] = "open"
       /\ \/ LinkAnswers(qrClient[q])
          \/ qrClient[q] = cur /\ \E k \in Calls : callQR[k] = q /\ callPC[k] = "qrdial"

(* A QR login that waits is cut off, so that nobody will ever end its        *)
(* "qr_pending", only if the codes of another channel of the client run out  *)
(* first (a channel left behind by a call that failed), if the server sends  *)
(* an error or an event of an earlier session, if Logout disconnects or      *)
(* replaces the client, or if somebody's dial over the dead connection fails.*)
(* Nothing else does it: no retry loop, no 515 goroutine, no other call of   *)
(* RequestLogin that fails or finds itself connected, no end of its own codes*)
(* and no lost connection, in whatever order they come.                      *)
QRLoginCutOffOnlyIf ==
    [][\A q \in QRs :
          /\ LoginWaits(q) => LoginAnswered(q)
          /\ LoginWaits(q)' /\ ~LoginAnswered(q)'
          => \/ \E p \in QRs \ {q} : QRCodesRunOut(p)
             \/ PairingFails \/ Rejected
             \/ \E h \in Handlers : Deliver(h) /\ hEvent[h] # "Disconnected"
             \/ \E k \in Calls : LogoutDisconnect(k) \/ LogoutReplaces(k)
             \/ EndDial(qrClient[q], FALSE)]_<<svcVars, world>>

(* "qr_pending" is a passing state too: the login succeeds, runs out of codes*)
(* or loses its connection, unless it is cut off (QRLoginCutOffOnlyIf names  *)
(* how), whatever channels failed calls have left behind. RequestLogin does  *)
(* nothing meanwhile, so a login that never ended would shut the user out.   *)
(* (A pairing error and a rejection do shut him out.)                        *)
QRPendingEnds ==
    {"badpair", "reject"} \cap world = {} /\ {"scan", "codes"} \cap world # {}
        => (status = "qr_pending"
               ~> status # "qr_pending" \/ \E q \in QRs : qrRead[q] /\ ~LoginAnswered(q))

(* A retry loop left to itself brings the connection back once dials can     *)
(* succeed, and then gives the slot back for the next loss.                  *)
RetryEnds == slot # NoLoop ~> slot = NoLoop

(* A QR login in a benign world goes all the way: from the code on the       *)
(* screen, over the scan and the restart the server asks for, to an accepted *)
(* connection and a status that says so, even if RequestLogin is called again*)
(* on the way.                                                               *)
LoginCompletes ==
    world \subseteq {"scan", "login"}
        => (status = "qr_pending" ~> status = "connected" /\ sock[cur] = "ready")

(* live-test-guide.md, "Network resilience": the daemon "reconnects          *)
(* automatically when the network returns".                                  *)
LossIsRepaired ==
    (sock[cur] = "closed" /\ ~expected[cur] /\ HasSession) ~> IsConnected(cur)

(* LoginPage.qml: "Waiting for QR...", shown for qr_pending. A code can still*)
(* come: RequestLogin's goroutine has a channel to read.                     *)
QRPendingIsLive ==
    status = "qr_pending" => \E q \in QRs : qrRead[q]

=============================================================================

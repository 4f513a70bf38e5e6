----------------------------- MODULE Whatsmeow -----------------------------
(***************************************************************************)
(* The connection state machine of the vendored whatsmeow client, as far   *)
(* as KhaApp's daemon depends on it: the web socket and the lock that is   *)
(* held for a whole dial, the device store that holds the pairing, the     *)
(* "expected disconnect" mark that silences Disconnected events, and the   *)
(* goroutines that deliver events to the registered handlers.              *)
(*                                                                         *)
(* A logout makes the daemon create a new client while the old one, with   *)
(* its handlers, lives on; clients are numbered in order of creation.      *)
(*                                                                         *)
(* This module declares the state and the library's own steps (the server, *)
(* the network and the library's goroutines). Who calls the library, and   *)
(* what the handlers do, is the business of WAClient and of MessengerLogin.*)
(***************************************************************************)
EXTENDS Naturals

CONSTANTS
    MaxClients,     \* bound on the clients ever created (one more per logout)
    Handlers        \* bound on the library's goroutines alive at one time

ASSUME MaxClientsAssumption == MaxClients \in Nat \ {0}

VARIABLES
    sock,           \* sock[c]: the web socket of client c
    device,         \* device[c]: the pairing kept in c's device store
    expected,       \* expected[c]: c.expectedDisconnect is set
    hPC,            \* hPC[h]: where event goroutine h stands
    hEvent,         \* hEvent[h]: the event it delivers
    hClient         \* hClient[h]: the client it belongs to

libVars == <<sock, device, expected, hPC, hEvent, hClient>>
handlerVars == <<hPC, hEvent, hClient>>

Clients == 1..MaxClients
NoClient == 0

(***************************************************************************)
(* "nil": no socket.  "dialing": unlockedConnect runs and holds the socket *)
(* lock.  "open": handshake done, not authenticated.  "ready": the server  *)
(* accepted the session.  "closed": the connection is gone but onDisconnect*)
(* has not taken the lock yet.                                             *)
(***************************************************************************)
SockStates == {"nil", "dialing", "open", "ready", "closed"}

(* "none": store without an ID (QR login needed).  "deleted": unlinked. *)
DeviceStates == {"none", "paired", "deleted"}

(* "Restart" is no event: it is the goroutine that serves a 515 stream error *)
EventKinds == {"Connected", "Disconnected", "LoggedOut"}
Deliveries == EventKinds \cup {"Restart", "none"}
HandlerPCs == {"idle", "begin", "start", "enqueue", "redial", "dialing"}

LibTypeOK ==
    /\ sock \in [Clients -> SockStates]
    /\ device \in [Clients -> DeviceStates]
    /\ expected \in [Clients -> BOOLEAN]
    /\ hPC \in [Handlers -> HandlerPCs]
    /\ hEvent \in [Handlers -> Deliveries]
    /\ hClient \in [Handlers -> Clients \cup {NoClient}]

(* One client exists at start; only the current one is ever dialled first. *)
LibInit ==
    /\ sock = [c \in Clients |-> "nil"]
    /\ \E d \in {"none", "paired"} : 
           device = [c \in Clients |-> IF c = 1 THEN d ELSE "none"]
    /\ expected = [c \in Clients |-> FALSE]
    /\ hPC = [h \in Handlers |-> "idle"]
    /\ hEvent = [h \in Handlers |-> "none"]
    /\ hClient = [h \in Handlers |-> NoClient]

-----------------------------------------------------------------------------
(* What the callers see. IsConnected and every operation that takes the      *)
(* socket lock wait for a dial to end.                                       *)

LockFree(c) == sock[c] # "dialing"
IsConnected(c) == sock[c] \in {"open", "ready"}
HasID(c) == device[c] = "paired"

(* unlockedConnect refuses a deleted store and a socket that is up; a dead   *)
(* socket is dropped, and its onDisconnect will find another socket.         *)
ConnectRefused(c) == device[c] = "deleted" \/ IsConnected(c)

BeginDialUnlocked(c) ==     \* mutant: the socket lock is not taken
    /\ ~ConnectRefused(c)
    /\ sock' = [sock EXCEPT ![c] = "dialing"]
    /\ expected' = [expected EXCEPT ![c] = FALSE]
    /\ UNCHANGED device

BeginDialKeepsMark(c) ==    \* mutant: the mark of the last disconnect is not reset
    /\ LockFree(c)
    /\ ~ConnectRefused(c)
    /\ sock' = [sock EXCEPT ![c] = "dialing"]
    /\ UNCHANGED <<expected, device>>

BeginDial(c) ==
    /\ LockFree(c)
    /\ ~ConnectRefused(c)
    /\ sock' = [sock EXCEPT ![c] = "dialing"]
    /\ expected' = [expected EXCEPT ![c] = FALSE]
    /\ UNCHANGED device

EndDial(c, ok) ==
    /\ sock[c] = "dialing"
    /\ sock' = [sock EXCEPT ![c] = IF ok THEN "open" ELSE "nil"]
    /\ UNCHANGED <<expected, device>>

(* Disconnect: no event follows, the mark stays until the next dial *)
CloseSocket(c) ==
    /\ LockFree(c)
    /\ sock' = [sock EXCEPT ![c] = "nil"]
    /\ expected' = [expected EXCEPT ![c] = TRUE]
    /\ UNCHANGED device

(* Device.Delete fails on a store without an ID and changes nothing then *)
DeleteDevice(c) ==
    /\ device' = [device EXCEPT ![c] = IF @ = "none" THEN @ ELSE "deleted"]
    /\ UNCHANGED <<sock, expected>>

(* go dispatchEvent(...): a free goroutine slot takes the event *)
Spawn(h, c, ev) ==
    /\ hPC[h] = "idle"
    /\ hPC' = [hPC EXCEPT ![h] = "begin"]
    /\ hEvent' = [hEvent EXCEPT ![h] = ev]
    /\ hClient' = [hClient EXCEPT ![h] = c]

(* The goroutine ends *)
Finish(h) ==
    /\ hPC' = [hPC EXCEPT ![h] = "idle"]
    /\ hEvent' = [hEvent EXCEPT ![h] = "none"]
    /\ hClient' = [hClient EXCEPT ![h] = NoClient]

-----------------------------------------------------------------------------
(* The server, the network and the library's goroutines.                     *)

(* handleConnectSuccess: Connected is delivered by a goroutine of its own,   *)
(* after several requests whose failure is only logged, and so possibly      *)
(* after the socket went down again.                                         *)
AuthSuccess(c, h) ==
    /\ sock[c] = "open" /\ HasID(c) /\ ~expected[c]
    /\ sock' = [sock EXCEPT ![c] = "ready"]
    /\ Spawn(h, c, "Connected")
    /\ UNCHANGED <<device, expected>>

(* The server or the network ends the connection (503 stream errors and      *)
(* connect failures 500/503 too): the frame socket closes.                   *)
RemoteClose(c) ==
    /\ IsConnected(c)
    /\ sock' = [sock EXCEPT ![c] = "closed"]
    /\ UNCHANGED <<device, expected, hPC, hEvent, hClient>>

(* onDisconnect, once it has the lock and finds its own socket *)
OnDisconnect(c, h) ==
    /\ sock[c] = "closed"
    /\ sock' = [sock EXCEPT ![c] = "nil"]
    /\ IF expected[c] THEN UNCHANGED handlerVars ELSE Spawn(h, c, "Disconnected")
    /\ UNCHANGED <<device, expected>>

(* A connect failure that is not a logout (temporary ban, client outdated,   *)
(* unknown reason) or a "replaced" stream error: the disconnect that follows *)
(* is expected, and the event dispatched is one KhaApp does not handle.      *)
SilentRejection(c) ==
    /\ IsConnected(c) /\ ~expected[c]
    /\ expected' = [expected EXCEPT ![c] = TRUE]
    /\ UNCHANGED <<sock, device, hPC, hEvent, hClient>>

(* Unlinked from the phone: connect failure 401/403/406, or the stream error *)
(* device_removed.                                                           *)
RemoteLogout(c, h) ==
    /\ IsConnected(c) /\ HasID(c)
    /\ expected' = [expected EXCEPT ![c] = TRUE]
    /\ device' = [device EXCEPT ![c] = "deleted"]
    /\ Spawn(h, c, "LoggedOut")
    /\ UNCHANGED sock

(* handlePair: the phone scanned a code of this connection; the disconnect   *)
(* that follows is expected.                                                 *)
Pair(c) ==
    /\ sock[c] = "open" /\ device[c] = "none"
    /\ device' = [device EXCEPT ![c] = "paired"]
    /\ expected' = [expected EXCEPT ![c] = TRUE]
    /\ UNCHANGED sock

(* Stream error 515, which the server sends once after a pairing: a          *)
(* goroutine disconnects and connects again.                                 *)
RestartRequired(c, h) ==
    /\ sock[c] = "open" /\ HasID(c) /\ expected[c]
    /\ \A g \in Handlers : ~(hEvent[g] = "Restart" /\ hClient[g] = c)
    /\ Spawn(h, c, "Restart")
    /\ UNCHANGED <<sock, device, expected>>

(* The 515 goroutine: Disconnect, connect; a failure is only logged. *)
RestartDisconnect(h) ==
    /\ hPC[h] = "begin" /\ hEvent[h] = "Restart"
    /\ CloseSocket(hClient[h])
    /\ hPC' = [hPC EXCEPT ![h] = "redial"]
    /\ UNCHANGED <<hEvent, hClient>>

RestartConnect(h) ==
    /\ hPC[h] = "redial"
    /\ \/ /\ BeginDial(hClient[h])
          /\ hPC' = [hPC EXCEPT ![h] = "dialing"]
          /\ UNCHANGED <<hEvent, hClient>>
       \/ /\ LockFree(hClient[h])
          /\ ConnectRefused(hClient[h])
          /\ Finish(h)
          /\ UNCHANGED <<sock, device, expected>>

RestartDialed(h, ok) ==
    /\ hPC[h] = "dialing"
    /\ EndDial(hClient[h], ok)
    /\ Finish(h)

Network ==
    \/ \E c \in Clients : RemoteClose(c) \/ SilentRejection(c)
    \/ \E c \in Clients, h \in Handlers :
          AuthSuccess(c, h) \/ RemoteLogout(c, h) \/ RestartRequired(c, h)

Library ==
    \/ \E c \in Clients, h \in Handlers : OnDisconnect(c, h)
    \/ \E h \in Handlers : RestartDisconnect(h) \/ RestartConnect(h)
    \/ \E h \in Handlers, ok \in BOOLEAN : RestartDialed(h, ok)

=============================================================================

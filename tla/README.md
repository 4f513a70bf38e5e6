# KhaApp in TLA+

KhaApp is a WhatsApp client for the desktop: a Go daemon (`src/daemon`) that owns the protocol
connection and the message database, and a Qt/QML frontend (`src/app`) that talks to the daemon over
the session bus. This directory models what is hard to test in it: goroutines that share one retry
slot, one socket and one status; a login that spans two connections; a message that passes through
a handler, a database, a bounded channel, a bus and a page that reloads; caches that are filled and
invalidated by different goroutines; daemon processes that share a database and a bus name. TLC checks
small instances, TLAPS proves the safety properties for every instance.

## 1. The system

| Part | State it keeps | Operations | Talks to |
|---|---|---|---|
| whatsmeow client (vendored; the part the daemon relies on) | socket and socket lock, device store, "expected disconnect" mark, event goroutines | connect, disconnect, logout, pair, 515 restart, dispatch of events | the server; calls registered handlers on its own goroutines |
| `protocol.WAClient` | current client, retry slot (`cancelRetry` under `reconnectMu`), event channel of 32 | event handler, `startReconnectLoop`, `StopReconnect`, `Connect`, `Disconnect`, `ResetSession`, `SendText` | the library; the service through the channel; the message store |
| `dbus.MessengerService`, connection side | `status` under a lock, QR goroutine | `AutoConnect`, `RequestLogin`, `Logout`, `RunEventLoop`, `setStatus` | WAClient; signals to the frontend |
| `storage.MessageStore` | the messages table | `Save`, `UpdateReceipt`, `MarkJIDAsRead`, `GetByJID`, `GetUnreadCount`, `GetRecentChats`, search | SQLite |
| `dbus.MessengerService`, message side | none of its own | `SendTextMessage`, `GetChats`, `GetMessages`, `MarkAsRead`, `RunEventLoop` | store, WAClient, frontend |
| service caches | group info (five minutes), avatar files (a day), `avatarDownloads`, downloaded media | `loadGroupInfo`, `GetProfilePicture`, `scheduleAvatarFetch`, invalidation, `DownloadMedia` | server, file system, the `local_path` column |
| daemon process (`main`) | its progress; shared with other daemons: `messages.db`, the name `org.khaapp.Daemon` | migration, `RequestName`, export, shutdown on SIGTERM | launchers start it without asking whether one runs |
| link preview | none | `FetchLinkPreview`, `LinkPreviewCard` | the web |
| frontend bridge `dbusbridge.cpp` | none; one thread, blocking calls | one method per D-Bus method, signal handlers, tray count, notifications | the daemon, the pages |
| chat page `ChatPage.qml` | open chat, rows shown, ticks, paging offset | reload, load more, send, react to signals | the bridge |
| other pages, app lock, KDE Connect, tray icon | view state only | | the bridge |

### How the parts interact, and where it is hard

* **Retry slot.** A lost connection starts a retry goroutine; `Connected`, `LoggedOut`, `Logout`,
  `ResetSession`, and the goroutine's own return all empty the same slot, on different goroutines.
  The deferred `StopReconnect` of a goroutine cancels whatever loop is in the slot by then.
* **Three kinds of dialers.** The retry loop, a D-Bus call and the library's goroutine for a 515
  stream error all dial the same client, and only the socket lock keeps them apart.
* **Late events.** `Connected` is dispatched by a goroutine of its own after several requests; a
  `Disconnected` can overtake it. Events of an old client reach the handlers after a logout.
* **QR channels left behind.** A `RequestLogin` that fails returns without unregistering its QR channel's
  handler. The channel stays with the client, is sent the codes of the next login as well, and whoever's
  codes run out first disconnects the client and tells the other emitters to leave without a last item.
* **Check, then act.** `RequestLogin` looks at the status and at the connection and then acts;
  calls run concurrently.
* **A bounded channel with a default branch.** Every kind of event is dropped when it is full.
* **Row after send.** `SendTextMessage` writes the row after the server's answer; receipts, crashes
  and time-outs come in between.
* **One frontend thread.** Signals that arrive during a blocking call wait, and are older than what
  the call brought.
* **Look, fetch, store.** The caches' lock is not held over a request: an answer can be stored after
  the event that made it outdated, and a file can be removed or truncated under its writer.
* **Several daemons.** The launchers and the user start daemons without looking for one. Each opens
  and migrates the database before it asks for the name, so the one that is turned away has run
  `ALTER TABLE` under another, or against one that migrates too.

### What makes each part correct

| Part | Properties |
|---|---|
| socket | dials of one client exclude each other; nobody pulls a socket away under a dial |
| retry slot | at most one retry loop that is not cancelled, and that one can be cancelled; a cancelled one returns; the slot is given back |
| event handler | never blocks on the service |
| login | `connecting` and `qr_pending` are passing states: at every moment of `connecting` somebody is there to end it, and a QR login is cut off from its end in the named ways only; a scanned code ends in an accepted connection; the service uses WAClient only through its methods |
| store | a message that was delivered or accepted lacks its row only by a named cause; rows stay, receipts do not fall, read marks stay, in whatever order things come; of a message that came over the handler the highest receipt is kept |
| store and page | together a plain log with a page that copies it; what the page lacks was lost by a named cause |
| receipts | no row and no tick shows more than the server reported for that message |
| caches | one download per picture; a path leads to a whole file; only named losses leave something outdated behind, and whatever is lost or fails, the current value is there again and again |
| daemons | at most one serves, over a complete table; two are connected at once only while one of them is past `conn.Close` and ends; a daemon that is started again gets to serve |
| link preview | the card shows the first text of each field |
| page | text in an open chat appears and is marked as read; a sent text appears; a read receipt is shown |

## 2. The modules

```
RetryPolicy                       what the retry slot promises
     ^ implemented by
Whatsmeow  <-  WAClient  <-  MessengerLogin              (connection side)
                  ^               ^
          WAClient_proofs  <-  MessengerLogin_proofs  <-  LoginStatus_proofs

MessageLog                        what the message path and its page promise
     ^ implemented by
MessageStore  <-  MessageHistory  <-  MessageHistory_proofs  <-  MessageLog_proofs
                                                               (message side)

ServiceCaches  <-  ServiceCaches_proofs                        (caches)

LinkPreview  <-  LinkPreview_proofs                            (cards)

SingleDaemon                      what the start promises
     ^ implemented by
DaemonLife  <-  DaemonLife_proofs                              (processes)
```

Each of WAClient, MessengerLogin, MessageHistory, ServiceCaches (with LinkPreview) and DaemonLife has
an `MC` module for TLC.

`PROJECT.json` ("map") gives, for each definition, the lines of source it models.

**Whatsmeow** declares the library's state, per client `c`: `sock[c]` (with the value `"dialing"`
while `unlockedConnect` holds the socket lock, so `LockFree` is the lock), `device[c]`, `expected[c]`;
and a pool of goroutines (`hPC`, `hEvent`, `hClient`) that carry an event, or the 515 restart.
Operators such as `BeginDial`, `EndDial`, `CloseSocket`, `DeleteDevice` are what others call; the
actions are the server's and the library's own steps. A new client is made by `ResetSession`; clients
are numbered. Below the socket nothing is modelled.

**WAClient** adds `cur` (`w.client`), `slot`, the retry goroutines (`loopPC`, `cancelled`,
`loopClient`) and `eventsCh`. A context is `cancelled[l]`; `slot = l` is "`cancelRetry` is the
cancel function of loop `l`". A handler takes the steps of the code between which others get in:
`HasSession` before the lock (`HandlerHasSession`), the slot (`HandlerStart`, `HandlerStop`), the
send to the channel (`HandlerEnqueue`). A loop has one step per line at which it can wait or be
overtaken; the choice of a select with two ready branches is free (`LoopDone`). Here any exported
method may be called at any time.

**RetryPolicy** says what that machinery is for, without lock, context or slot: each retry goroutine
is absent, in charge or relieved; it is put in charge only when nobody is; relieved is for good.
`WAClient!ImplementsRetryPolicy` is the refinement, under the mapping `role <- RetryRole`: a loop is in
charge while it is alive and not cancelled.

**MessengerLogin** replaces the arbitrary callers by the service: `callPC[k]` is the position of a
D-Bus call (or of `main`'s `AutoConnect`), `qrItem` the last item of a QR channel, `qrRead` that
`RequestLogin`'s goroutine reads it, `qrEmit` the library's goroutine that puts codes into it. `DialSteps` is
shared by `AutoConnect` and the QR login. QR items are produced where the library produces them: the codes
run out, a pairing succeeds or fails, a disconnect, a connect failure. A call that fails leaves its channel
with the client (`LeaveQR`); the next codes start an emitter for that one too (`QRCodes`). The codes of each
channel run out by themselves (`QRCodesRunOut`): the first emitter closes its channel with "timeout" and
disconnects, the others are told to stop and leave silently (`EmitterStops`) or, if their own time is up at
that moment, close theirs. Calls overlap freely, Logouts too; two bounds keep them finite: a login begins
only if a channel is free for it (`QRsLeft`), a Logout only if a client is left for it to make
(`LogoutBegins`). `ImplementsWAClient` is the refinement to `WAClient!Spec`: the
composition adds no step the wrapper does not allow, so what is proved of WAClient holds here.
`Undisturbed` names the worlds in which a connection that ends leaves a word behind; the properties of
`connecting` speak of those. `QRLoginCutOffOnlyIf` speaks of every world (section 3).
The constant `Worlds` is the set of surroundings a run looks at; a behaviour picks one of them at the
start (`world`) and keeps it, so that one run can look at several cases without their product.

**MessageStore** has one operator per SQL statement (SQLite runs one at a time): the set of ids with
a row, and the columns that change. **MessageHistory** puts around it the library's handler (one node
at a time), the channel, the event loop, `SendTextMessage` calls, the bus, and the frontend's thread:
`uiTodo` is the list of blocking calls it still makes before it takes the next signal, `uiSend` the
send it waits for. `heard` is an observer: the highest level the server reported.

**MessageLog** is the promise without handler, channel, bus or goroutines: messages are confirmed and
reported on by the server, recorded once, raised, marked as read, and copied to the one page that is open.
`MessageHistory!ImplementsMessageLog` is the refinement; `known` is what arrived at the handler or
was accepted by the server, `reported` is `heard`, the rest are the store's and the page's own variables.

What a message carries (`Content`) decides on its way: `buildStoredMessage` and `Storable` say what gets
a row, `extractDisplayText` what is announced. A caption is stored as text and not announced.

**ServiceCaches** counts versions: `groupInfo[c]` and `picture[c]` are what the server has, `entry[c]` and
`avatarFile[c]` what the daemon keeps. A call (`callPC`) and an avatar goroutine (`fetchPC`) take a step
wherever they leave the lock, wait for a request, or have opened a file and not yet written it.
`os.WriteFile` is two steps, truncation and content; who writes to a file that was removed goes on
without effect (`detached`). Time is `EntryExpires` and `FileAges`. The answer to `GetProfilePicture` does
not matter to the state, so a call that would only answer is left out.

**LinkPreview** takes the nodes of a page in the order of the recursion, one `walk` per step; the page may end
after any of them. A text is a number that says at which node it was. `Texts` and `IsFirstText` say what
the card ought to show without any walk.

**DaemonLife** follows `main()` in each of several processes: `CREATE TABLE IF NOT EXISTS`, the listing of
columns, one `ALTER TABLE` per missing column, `RequestName`, export, life, shutdown, exit. The
database at the start is any subset of the columns. The logins, the retry loop and the library's restart after
a 515 are one toggle here (`Connects`). `Shutdown` disconnects and ends none of them: `RequestLogin` is answered
until `conn.Close`, and a goroutine past its select dials once more, so a daemon can go online until its process ends. **SingleDaemon** is what is
promised: a set `serving` with at most one member, entered only when the table is complete; a table that
is complete stays so.

`MC*` modules choose constants; `MCServiceCaches` also puts the walk beside the caches, in the world `{}` in
which nothing else happens, since the two share no state. Operators marked `mutant` repeat a definition with a plausible
mistake; no specification uses them. `PROJECT.json` lists which property each one breaks.

### Abstractions

* Payloads, keys, media bytes, texts and names are left out; a message is an id with its chat, its
  time and what it carries (text, caption, media, other).
* The frontend has one chat page. In the code a chat opened from a notification is pushed on top of
  the page shown, which stays alive below it and goes on marking its chat as read.
* A receipt with several ids is several events. The limit of 50 rows of a page is not modelled.
* `setStatus` changes the status and signals it in one step.
* The pointer `w.client` is read and written without a lock; the model takes both as atomic, the
  outcome on the platforms the daemon is built for.
* A handler that finds no free goroutine or loop slot in the model waits; the pools are bounds of
  the model (below), not of the code.
* After a crash the daemon runs again at once: D-Bus calls meanwhile fail (`CallFails`).
* The last item of an emitter and its disconnect are one step. A channel left behind has a buffer of eight
  codes nobody reads; that its handler gives up, with a disconnect, when the buffer is full is one more
  `QRCodesRunOut`, and that it may wait a moment for room first is left out.
* When the phone unlinks the device, the mark, the deletion and the dispatch are one step (`RemoteLogout`), as
  are those of a pairing (`Pair`).
* The connection runs but `wa_safety` have one event goroutine, so there events do not overtake each other. The
  theorems hold for any number.
* What the page shows of a send that failed is left out; whether the message got its row is not.
* `SendPresence` on `Connected` only takes time.

## 3. The runs

Bounds: `MaxClients` (clients ever created), `Handlers`, `Loops`, `Calls`, `Fetches`, `QRs`, `Daemons` (goroutines, processes and
channels alive at once; they are reused when they end, so histories are not bounded), `EventsCap` and
`BusCap` (queue capacities; the code's channel has 32 places), `MaxVersion` (changes of one group or picture), `MaxNodes`, `MaxFaults`, and the sets of messages and chats.
Every state space below is finite and explored completely, up to the two
constraints named in the table (`EventsBound`, `SessionsBound`).

| Run | Question and bounds |
|---|---|
| `wa_safety` | Slot, lock, channel and policy under arbitrary callers. Two clients, two loops, two event goroutines, a channel of one: the full channel, a loop that outlives its client, a loop that overlaps its successor and a `Disconnected` that overtakes the `Connected` before it all occur. Once the client is replaced its events come one at a time (`EventsBound`). Loops are symmetric, and so are event goroutines. Deadlock is checked. |
| `wa_liveness` | A cancelled loop returns (`CancelledLoopEnds`) and handlers finish though nobody reads the channel (`HandlersFinish`), with dials that may always fail. One client: neither property relates two. |
| `service_refinement` | The service as a WAClient caller, who ends `connecting` (`ConnectingServed`), and what cuts a QR login off (`QRLoginCutOffOnlyIf`). Two calls, so that two `RequestLogin`s, a login and a Logout, or two Logouts overlap at any step; two QR channels (symmetric), so that one left behind meets the next login; three clients, one loop, one handler, an event channel of one. Where codes are scanned and accounts logged out, a behaviour is followed until the last client is made (`SessionsBound`). Seven worlds: logins beside logouts, with scans, with a failing session database and with codes that run out; connections that are lost, unlinked or cannot be dialled, beside logouts; two `Undisturbed` ones, failing dials or lost connections, each beside scans, codes and unlinking; and failing dials, lost connections and a pairing error together, for what cuts a login off. |
| `login_liveness` | Four worlds, `EventsCap` 2, two calls, two loops, two QR channels. Failing dials and codes that run out under two D-Bus calls: `connecting` is left, and `qr_pending` unless the login was cut off, which a channel left behind by the first call does here. Lost and unlinked connections: the status follows. Lost and rejected connections, failing dials and a channel filled by other events: the slot is given back. A scanned code with a second `RequestLogin` at any moment: status `connected` on an accepted connection. |
| `history_safety` | One message each way in every adverse world at once (redelivery, receipts out of order, failing statements, late answers, crashes), queues of one: row monotonicity and earned receipts, the refinement of the log, and that a message without a row (`UnstoredOnlyIfLost`), a text missing from the page (`OverlookedOnlyIfLost`) or a tick behind its row (`BehindOnlyIfLost`) has a named cause. Two messages of one chat suffice to confuse two rows, a queue of one to lose an event. |
| `history_liveness` | Nothing is lost or late: text, sent text and read receipts reach the page; a row of a message that came over the handler has the highest receipt reported (`OthersReceiptsKept`). Channel of four, enough for every event of two messages. |
| `service_caches` | One chat, one message: nothing in the code ties two together. Two calls and two avatar goroutines (one more than may run for a chat, so a second would show), two versions of group and picture and the removed picture, a channel of one. Four worlds: group or avatar with lost events, failures and a crash; media with concurrent calls, or with failures and a crash. Besides convergence: which steps leave an outdated entry or picture behind that no event will correct (`GroupOutdatedOnlyIfLost`, `AvatarOutdatedOnlyIfLost`). A fifth world has the link previews: all pages of up to four nodes, empty texts included, so that every field can be found, found empty before, and repeated. |
| `daemon_life` | Three daemons (one serves, two migrate beside it), three columns of which the first version had one, two faults. Every subset of columns is an initial database. A daemon may dial until its process ends, behind `Shutdown` and behind `conn.Close`. Deadlock is checked. |
| `v_*` | One disagreement each between the code and what its documents say; section 5. |

`CHECK_DEADLOCK FALSE` is set where the system may come to rest: nobody needs to call, and a message
that was handled leaves nothing to do. In `wa_safety` and `wa_liveness` any method may be called
again, so a state without successor would be an error.

### What the properties of the status leave out

Each exception was found necessary, by a counterexample of TLC while the inductive invariant was sought.
`ConnectingEnds` and its safety half `ConnectingServed` hold in worlds that are `Undisturbed` and without "traffic":

* "reject": the library closes the socket without an event the daemon handles; the status stays.
* "logout": `Logout` replaces the client between `GetQRChannel` and the dial of a `RequestLogin`; the channel
  then belongs to the old client, the dial to the new one, and the login waits for codes that cannot come.
* "close" with "dial": a dial over a dead socket makes `onDisconnect` find another socket, no event is sent,
  and when that dial fails the status stays `connecting`.
* "traffic": the event that would change the status finds the channel full.

`qr_pending` can stay for good in every world with two calls, since nothing unregisters the channel of a call that
failed. `QRPendingEnds` therefore allows a login that was cut off, one that waits for a last item nobody
will send, and `QRLoginCutOffOnlyIf` says, in all worlds, which steps cut one off:

* the codes of another channel of the client run out first: the disconnect tells the login's own emitter to
  leave without a last item;
* a pairing error or a rejection, whose item the goroutine ignores (`v_qr_pending`, section 5), and an event of an
  earlier session of the client that comes late;
* `Logout` disconnects, which sends no `Disconnected`, or replaces the client;
* somebody's dial over the dead connection of the login fails: the event of the loss is then not sent.

In `qr_pending` `RequestLogin` does nothing, so each of these shuts the user out until a `Logout` or a restart.

With a full channel `LoginCompletes` and `ReadIsShown` do not hold either, for the event they wait for may be the
one that is dropped.

### Fairness

* A goroutine that can run does run (weak fairness per goroutine): Go schedules preemptively and its
  timers fire.
* A goroutine that waits for the socket lock gets it (strong fairness): `sync.RWMutex` starves nobody.
* A dial ends, either way: the HTTP client and the handshake have time-outs.
* `ServerAnswers`: the server answers an open connection. `NetworkReturns`: of infinitely many dials
  of one loop one succeeds. `CodesExpire`: the library's timer. These are assumptions on the surroundings and
  used in `MessengerLogin` only; `wa_liveness` has none of them.
* `UserScans` is assumed for `login_liveness` only, where the world has it.
* Caches: goroutines run, entries expire and files age. `FrontendAsks`: the list of chats asks for what it
  shows again and again (`GetChats` on every change). `RequestsSucceed`: of infinitely many requests and
  writes one succeeds; without it nothing could ever be fetched.
* Daemons: a process runs. `SomebodyStarts`: where no daemon runs, a launcher or a user starts one. Faults
  are bounded by `MaxFaults`; nobody has to stop a daemon.
* Message side: goroutines and the frontend's event queue proceed. A user who keeps the thread busy
  still lets queued signals in, as Qt serves its queue in order (strong fairness for `UISignal`). The
  server and the user owe nothing.

## 4. The proofs

TLAPS checks every step. All theorems hold for any number of clients, goroutines, messages and chats,
any capacity, daemons and columns, and any surroundings; the only assumptions are the named ones on the constants (capacities
positive, sentinels outside their sets, functions with their domains).

| Theorem | Says | Argument |
|---|---|---|
| `WAClient_proofs!TypeCorrect` | `Spec => []TypeOK` | inductive |
| `WAClient_proofs!SlotCorrect` | `Spec => []SlotGuardsLoops` | inductive with the types: each action either leaves slot and loops alone, starts a loop into an empty slot, or cancels exactly the loop in the slot |
| `WAClient_proofs!RetryRefinement` | `Spec => ImplementsRetryPolicy` | every step is `Appoint`, `Relieve`, `Leave` or a stutter; needs `SlotGuardsLoops`, else `Appoint`'s "nobody in charge" could not be shown |
| `WAClient_proofs!DialsCorrect` | `Spec => []DialsExclusive` | not inductive: a goroutine at "dialing" with `hClient = NoClient` could not be told apart. Strengthened with `HandlerShape` (which event and client a goroutine has at each position) and split into `DialersHoldLocks` and `DialersApart` |
| `MessageHistory_proofs!HistoryTypeCorrect` | `HistorySpec => []HistoryTypeOK` | inductive |
| `MessageHistory_proofs!RowsGrow` | `HistorySpec => RowsOnlyGrow` | each statement of the store keeps or raises (`StoreGrows`), every other step leaves the store alone |
| `MessageHistory_proofs!ReceiptsCorrect` | `HistorySpec => []ReceiptsEarned` | not inductive: a level also travels in the handler, the channel and the bus. `EarnedInv` says of every event on its way that its level was reported (`EarnedEvents`) |
| `MessageHistory_proofs!UnstoredCorrect` | `HistorySpec => UnstoredOnlyIfLost` | action by action over the types: between the delivery or the acceptance of a message and its row there is a handler or a call that carries it, and only a failing statement, a crash or an answer that comes too late loses it |
| `MessageLog_proofs!LogRefinement` | `HistorySpec => ImplementsMessageLog` | each step records, raises, marks, copies or ticks as the log may, or stutters. `LogInv`: the handler and a call on their way to the store have a message the server confirmed, a message without a row has no receipt, the user's own rows are read; with `EarnedInv` no row or tick says more than the server did |
| `MessageLog_proofs!OthersKept` | `HistorySpec => []OthersReceiptsKept` | `KeptInv`: the handler saves a message before it takes the next node, so a receipt always finds the row; what was reported is in the row, but for the receipt in the handler's hand |
| `MessageLog_proofs!OverlookedCorrect` | `HistorySpec => OverlookedOnlyIfLost` | between row and page there is always an event, a signal or a call of the page that will bring the text. The one invariant needed is `SendWaitsAlone`: while the page waits for its own send, it has no other call to make |
| `MessageLog_proofs!BehindCorrect` | `HistorySpec => BehindOnlyIfLost` | the same for ticks: a reload or a signal at least as high as the row is due |
| `MessengerLogin_proofs!SvcTypeCorrect` | `SvcSpec => []SvcTypeOK` | with the next one |
| `MessengerLogin_proofs!ServiceRefinement` | `SvcSpec => ImplementsWAClient` | each action of the service maps to a method, a library step or a stutter, for any number of overlapping calls, Logouts included. Needs `CallDialInv`: the dial a call ends is its own, i.e. a call at a dialing position has a client whose socket is dialing; that in turn needs dials to exclude each other. And `EmitterInv`: an emitter has a client to disconnect. `SvcInv` joins them with the types |
| `MessengerLogin_proofs!DaemonKeepsClientInvariants` | `SvcSpec => []SlotGuardsLoops /\ []DialsExclusive` | the refinement carries what is proved of `WAClient!Spec` over to the service |
| `MessengerLogin_proofs!DaemonKeepsRetryPolicy` | `SvcSpec => ImplementsRetryPolicy` | the two refinements joined |
| `LoginStatus_proofs!ConnectingCorrect` | `SvcSpec => []ConnectingServed` | the status is not tied to the connection by any variable, so three invariants have to do it. `LinkInv`: whose goroutines and channels there are, when the mark of an expected disconnect stands, that one goroutine at a time restarts after a pairing. `ConnectInv`: when no call is connecting and no event on its way, the session has a connection that will answer, or a goroutine that redials |
| `LoginStatus_proofs!CutOffCorrect` | `SvcSpec => QRLoginCutOffOnlyIf` | `ChannelsInv`: a QR channel belongs to one call until it returns, then to its goroutine (`ChannelInv`), and an open one was made for a client that is not paired (`OpenInv`). `WireInv` says what a mark of an expected disconnect and a closed socket leave on the wire. A login that begins to wait is answered (`WaitBegins`); of one that is answered, each action is shown to leave it so or to be named (`CutOffNext`) |
| `ServiceCaches_proofs!CacheTypeCorrect` | `CacheSpec => []CacheTypeOK` | inductive with `KeysInv`: which kind of key a call or goroutine has at each position |
| `ServiceCaches_proofs!OneFetchCorrect` | `CacheSpec => []OneFetchPerChat` | inductive over the types |
| `ServiceCaches_proofs!MediaCorrect` | `CacheSpec => []MediaComplete` | `MediaInv`: there is a file wherever a path or a writer is (`MediaThere`); where nothing fails, the last opener of a half file is still at its write (`LastWriter`); without "slow" a message has one call, and none once it has a path (`OneCall`) |
| `ServiceCaches_proofs!GroupOutdatedCorrect` | `CacheSpec => GroupOutdatedOnlyIfLost` | action by action; what is announced in the channel stays so until the event loop acts on it (`EnqueueAnnounces`, `TailAnnounces`) |
| `ServiceCaches_proofs!AvatarOutdatedCorrect` | `CacheSpec => AvatarOutdatedOnlyIfLost` | with `DetachedInv`: a goroutine loses its file only between truncation and content, so who truncates one still has it |
| `LinkPreview_proofs!PreviewCorrect` | `PreviewSpec => []PreviewIsFirst` | `WalkInv`: what is kept of each field is its first text among the nodes so far; the early return is harmless because every field then has one |
| `DaemonLife_proofs!DaemonTypeCorrect` | `DaemonSpec => []DaemonTypeOK` | inductive |
| `DaemonLife_proofs!ConnectionCorrect` | `DaemonSpec => []OneConnection` | `LifeInv`: exactly the daemon between `RequestName` and `conn.Close` owns the name (`NameInv`), and who is online is at "run", "close", "release" or "exit" (`OnlineInv`): before "exit" he owns the name, so two of them are never before it |
| `DaemonLife_proofs!SingleRefinement` | `DaemonSpec => ImplementsSingleDaemon` | with `SchemaInv`: a daemon that migrates has every column that is missing in its list, so it cannot ask for the name before the table is complete |

The type of `tray` is not part of `HistoryTypeOK`: it is a sum over a set, whose value needs an induction
the prover cannot do.

Every invariant, every action property and every refinement of the passing runs is proved. Only model-checked: all
liveness (fairness and ENABLED are out of the prover's reach): `CancelledLoopEnds`, `HandlersFinish`, `ConnectingEnds`,
`QRPendingEnds`, `RetryEnds`, `LoginCompletes`, `TextAppears`, `ReadIsShown`, `SentAppears`, `GroupInfoConverges`,
`AvatarConverges`, `ServiceComesUp`. Of six of them the safety half is a theorem: there is always somebody who
will end the status (`ConnectingServed`; for `qr_pending` unless a named step has cut him off,
`QRLoginCutOffOnlyIf`), bring the text or the tick (`OverlookedOnlyIfLost`, `BehindOnlyIfLost`), or correct the
cache (`GroupOutdatedOnlyIfLost`, `AvatarOutdatedOnlyIfLost`), unless he was lost in a named way; that he gets
to do it is TLC's part.

## 5. Where code and documents disagree

Checked by runs that are expected to fail:

* `v_loss_repaired`: a connection that is lost while the goroutine that repaired the last loss has
  dialled successfully but not yet emptied its slot is never repaired. `live-test-guide.md` promises
  an automatic reconnection.
* `v_qr_pending`: after an `error` item the QR channel closes and the status stays `qr_pending`; the
  login page waits for a code that cannot come, and `RequestLogin` returns at once in that status. The same
  end comes by another way, of which no document speaks: a login is retried after a failed dial, the
  first call's channel runs out of codes first, disconnects, and the pending login's emitter leaves
  without an item (`QRLoginCutOffOnlyIf` names it).
* `v_highest_known`: a receipt handled before `SendTextMessage` has written its row is lost, against the
  comment on `UpdateReceipt`. `OthersKept` shows that this concerns only messages sent from here.
* `v_ticks`: a delivery signal that waited behind a reload lowers a tick from read to delivered.

The models also reproduce the following, without a run: the dial at start is made once, and if it fails
nothing tries again; after the phone unlinked the device, `RequestLogin` uses the client whose store is
deleted and is refused until a `Logout` or a restart; two messages of a chat in its newest second
give two rows for it in the chat list; media without text is stored but not announced; the tray counts
a message before the page marks it as read and not again after; a send that times out on the bus, or
whose daemon dies, is reported as failed although the server may have taken the message; a `Connected` event
of the old client that waits in the channel sets `connected` after a `Logout`.

In the caches: a second `DownloadMedia` call that is cut short by an error or a crash leaves a truncated
file behind the path the first call stored; a truncated picture is answered until it is a day old; a
picture that was removed stays for good if its event is lost, for the fetch finds none and leaves the
file; a path in a row is answered without a look at the file.

In the life of the daemon: two daemons that start together on an old database can both give up, each over a
column the other has added; a signal during the migration is looked at only when `main` waits for it; the
stores are closed while D-Bus calls are still answered; a retry loop past its select, a `RequestLogin` and the
library's restart after a 515 dial once more behind `Shutdown`, so the daemon that ends can be connected beside its
successor for a moment. The launchers wait only a few seconds for the name, which the model, without clocks,
does not show.

## 6. Not modelled

* Encryption, app state, media transfer, history sync and everything below the library's socket:
  third-party code that the daemon uses as a black box.
* App lock, KDE Connect, tray icon, settings, chat list and search pages: no shared
  state, or state changed by one thread.
* The order of status signals. `setStatus` releases its lock before it emits, so two goroutines may signal in
  the opposite order of their assignments; what the page then shows depends on godbus, which is not part
  of this repository's own code.
* Paging. `loadMoreMessages` asks from an offset while messages arrive: a message is then shown twice. That
  follows from the statement alone and leaves nothing to check.
* The session database (the library's), logging, paths: I/O.
* Lookups of contacts and groups by `GetChats`: they take time and may fail (`UICounts`), nothing else.

## 7. Plan

Done: every module above and its proofs. What would come next:

1. The bus as a component: signals of two emitters of one process, the order of `ConnectionStatusChanged`, and
   the frontend's view of the status after a restart of the daemon.
2. `DaemonLife` with calls in flight: which statements fail between the closing of the stores and the exit,
   and what `SendTextMessage` has then told the frontend.
3. The two chat pages a notification leads to, with the limit of a page.
4. An abstract specification of the status as the frontend sees it, which `MessengerLogin` implements in
   `Undisturbed` worlds; `ConnectingServed` and `QRLoginCutOffOnlyIf` are what it would need.

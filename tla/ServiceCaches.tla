--------------------------- MODULE ServiceCaches ---------------------------
(***************************************************************************)
(* What dbus.MessengerService keeps of the server's answers: group         *)
(* descriptions in memory for five minutes, profile pictures as files for  *)
(* a day, downloaded media as files for good.                              *)
(*                                                                         *)
(* D-Bus calls run on goroutines of their own (Calls), each profile picture*)
(* is fetched on another (Fetches), and the event loop invalidates what a  *)
(* GroupInfo or Picture event says has changed. cacheMu is held only for a *)
(* look at a map or a write to it, never over a request or a file.         *)
(***************************************************************************)
EXTENDS Naturals, Sequences

CONSTANTS
    Chats, Media,   \* the chats, and the messages with media
    Calls,          \* bound on the calls under way at one time
    Fetches,        \* bound on the avatar goroutines alive at one time
    MaxVersion,     \* bound on the changes of one group or picture
    EventsCap,      \* capacity of eventsCh (32 in the code)
    None,
    Worlds          \* what may happen around the daemon: the cases of a run

ASSUME NoneAssumption == None \notin Chats \cup Media \cup Calls
ASSUME KeysAssumption == Chats \cap Media = {}
ASSUME BoundsAssumption == MaxVersion \in Nat \ {0} /\ EventsCap \in Nat \ {0}

(* "group", "avatar", "media": the frontend asks for these, and they change. *)
(* "traffic": other events fill the channel.  "fail": requests and writes    *)
(* fail.  "slow": a call is repeated, or made by a second frontend, before it*)
(* has returned.  "crash": the daemon dies once and is started again.        *)
CacheWorldKinds == {"group", "avatar", "media", "traffic", "fail", "slow", "crash"}

ASSUME CacheWorldsAssumption == Worlds \subseteq SUBSET CacheWorldKinds

VARIABLES
    groupInfo,      \* groupInfo[c]: the version of group c on the server
    entry,          \* entry[c]: the version groupInfoCache holds, or NoEntry
    expired,        \* the chats whose entry is past its expiresAt
    picture,        \* picture[c]: the version of c's picture on the server
    avatarFile,     \* avatarFile[c]: what is in the file for c
    avatarOld,      \* the chats whose file is older than a day
    avatarDownloads,\* m.avatarDownloads
    fetchPC,        \* fetchPC[f]: where avatar goroutine f stands
    fetchChat,      \* fetchChat[f]: the chat it fetches for
    fetchPicture,   \* fetchPicture[f]: the version it has downloaded
    detached,       \* goroutines writing to a file that has been removed
    localPath,      \* the messages whose row has a local path
    mediaFile,      \* mediaFile[m]: what is in the file for m
    lastOpener,     \* lastOpener[m]: the call that truncated it last
    callPC,         \* callPC[k]: where call k stands
    callKey,        \* callKey[k]: the chat or message it is about
    callInfo,       \* callInfo[k]: the version the server has answered
    events,         \* the channel to the event loop
    loopChat,       \* the chat the event loop has yet to schedule a fetch for
    crashed,
    world           \* the case this behaviour is of

groupVars == <<groupInfo, entry, expired>>
avatarVars == <<picture, avatarFile, avatarOld, avatarDownloads>>
fetchVars == <<fetchPC, fetchChat, fetchPicture, detached>>
mediaVars == <<localPath, mediaFile, lastOpener>>
callVars == <<callPC, callKey, callInfo>>
loopVars == <<events, loopChat>>
cacheVars ==
    <<groupVars, avatarVars, fetchVars, mediaVars, callVars, loopVars, crashed>>

Versions == 1..MaxVersion
NoEntry == 0
NoPicture == 0
NoFile == 0
Partial == MaxVersion + 1       \* created or truncated, and not yet written

Events == [kind : {"GroupInfo", "Picture"}, chat : Chats] \cup [kind : {"Other"}, chat : {None}]

FetchPCs == {"idle", "info", "open", "write", "done"}

CallPCs ==
    {"idle",
     "ask", "store",                        \* loadGroupInfo
     "schedule",                            \* GetProfilePicture
     "fetch", "open", "write", "persist"}   \* DownloadMedia

CacheTypeOK ==
    /\ groupInfo \in [Chats -> Versions]
    /\ entry \in [Chats -> Versions \cup {NoEntry}]
    /\ expired \subseteq Chats
    /\ picture \in [Chats -> Versions \cup {NoPicture}]
    /\ avatarFile \in [Chats -> Versions \cup {NoFile, Partial}]
    /\ avatarOld \subseteq Chats
    /\ avatarDownloads \subseteq Chats
    /\ fetchPC \in [Fetches -> FetchPCs]
    /\ fetchChat \in [Fetches -> Chats \cup {None}]
    /\ fetchPicture \in [Fetches -> Versions \cup {NoPicture}]
    /\ detached \subseteq Fetches
    /\ localPath \subseteq Media
    /\ mediaFile \in [Media -> {"none", "partial", "complete"}]
    /\ lastOpener \in [Media -> Calls \cup {None}]
    /\ callPC \in [Calls -> CallPCs]
    /\ callKey \in [Calls -> Chats \cup Media \cup {None}]
    /\ callInfo \in [Calls -> Versions \cup {NoEntry}]
    /\ events \in Seq(Events) /\ Len(events) <= EventsCap
    /\ loopChat \in Chats \cup {None}
    /\ crashed \in BOOLEAN
    /\ world \in Worlds

CacheInit ==
    /\ groupInfo = [c \in Chats |-> 1] /\ entry = [c \in Chats |-> NoEntry] /\ expired = {}
    /\ picture = [c \in Chats |-> 1] /\ avatarFile = [c \in Chats |-> NoFile]
    /\ avatarOld = {} /\ avatarDownloads = {}
    /\ fetchPC = [f \in Fetches |-> "idle"] /\ fetchChat = [f \in Fetches |-> None]
    /\ fetchPicture = [f \in Fetches |-> NoPicture] /\ detached = {}
    /\ localPath = {} /\ mediaFile = [m \in Media |-> "none"]
    /\ lastOpener = [m \in Media |-> None]
    /\ callPC = [k \in Calls |-> "idle"] /\ callKey = [k \in Calls |-> None]
    /\ callInfo = [k \in Calls |-> NoEntry]
    /\ events = <<>> /\ loopChat = None
    /\ crashed = FALSE
    /\ world \in Worlds

-----------------------------------------------------------------------------

CallGoto(k, pc) ==
    /\ callPC' = [callPC EXCEPT ![k] = pc]
    /\ UNCHANGED <<callKey, callInfo>>

CallBegins(k, pc, key) ==
    /\ callPC[k] = "idle"
    /\ callPC' = [callPC EXCEPT ![k] = pc]
    /\ callKey' = [callKey EXCEPT ![k] = key]
    /\ UNCHANGED callInfo

CallReturns(k) ==
    /\ callPC' = [callPC EXCEPT ![k] = "idle"]
    /\ callKey' = [callKey EXCEPT ![k] = None]
    /\ callInfo' = [callInfo EXCEPT ![k] = NoEntry]

EnqueueOneTooMany(e) ==         \* mutant: the capacity is off by one
    events' = IF Len(events) <= EventsCap THEN Append(events, e) ELSE events

(* A full channel loses the event *)
Enqueue(e) == events' = IF Len(events) < EventsCap THEN Append(events, e) ELSE events

-----------------------------------------------------------------------------
(* Group descriptions: GetGroupInfo, and GetChats for every group.           *)

LoadGroupInfoForEver(k, c) ==   \* mutant: expiresAt is not looked at
    /\ "group" \in world
    /\ entry[c] = NoEntry
    /\ CallBegins(k, "ask", c)
    /\ UNCHANGED <<groupVars, avatarVars, fetchVars, mediaVars, loopVars, crashed>>

(* loadGroupInfo without a valid entry; with one it returns at once *)
LoadGroupInfo(k, c) ==
    /\ "group" \in world
    /\ entry[c] = NoEntry \/ c \in expired
    /\ CallBegins(k, "ask", c)
    /\ UNCHANGED <<groupVars, avatarVars, fetchVars, mediaVars, loopVars, crashed>>

(* The request, made without the lock *)
GroupInfoAnswered(k) ==
    /\ callPC[k] = "ask"
    /\ callInfo' = [callInfo EXCEPT ![k] = groupInfo[callKey[k]]]
    /\ callPC' = [callPC EXCEPT ![k] = "store"]
    /\ UNCHANGED callKey
    /\ UNCHANGED <<groupVars, avatarVars, fetchVars, mediaVars, loopVars, crashed>>

GroupInfoFails(k) ==
    /\ callPC[k] = "ask" /\ "fail" \in world
    /\ CallReturns(k)
    /\ UNCHANGED <<groupVars, avatarVars, fetchVars, mediaVars, loopVars, crashed>>

(* The answer is stored, whatever has been invalidated meanwhile *)
GroupInfoStored(k) ==
    /\ callPC[k] = "store"
    /\ entry' = [entry EXCEPT ![callKey[k]] = callInfo[k]]
    /\ expired' = expired \ {callKey[k]}
    /\ CallReturns(k)
    /\ UNCHANGED <<groupInfo, avatarVars, fetchVars, mediaVars, loopVars, crashed>>

EntryExpires(c) ==
    /\ entry[c] # NoEntry /\ c \notin expired
    /\ expired' = expired \cup {c}
    /\ UNCHANGED <<groupInfo, entry, avatarVars, fetchVars, mediaVars, callVars, loopVars, crashed>>

(* The group changes on the server, and the event comes *)
GroupChanges(c) ==
    /\ "group" \in world
    /\ groupInfo[c] < MaxVersion
    /\ groupInfo' = [groupInfo EXCEPT ![c] = @ + 1]
    /\ Enqueue([kind |-> "GroupInfo", chat |-> c])
    /\ UNCHANGED <<entry, expired, avatarVars, fetchVars, mediaVars, callVars, loopChat, crashed>>

-----------------------------------------------------------------------------
(* Profile pictures: GetProfilePicture, and GetChats for every chat.         *)

scheduleAvatarFetchAgain(c) ==  \* mutant: avatarDownloads is not looked at
    \E f \in Fetches :
        /\ fetchPC[f] = "idle"
        /\ avatarDownloads' = avatarDownloads \cup {c}
        /\ fetchPC' = [fetchPC EXCEPT ![f] = "info"]
        /\ fetchChat' = [fetchChat EXCEPT ![f] = c]
        /\ UNCHANGED <<fetchPicture, detached>>

(* Nothing if a goroutine already fetches for this chat *)
scheduleAvatarFetch(c) ==
    IF c \in avatarDownloads
    THEN UNCHANGED <<avatarDownloads, fetchVars>>
    ELSE \E f \in Fetches :
            /\ fetchPC[f] = "idle"
            /\ avatarDownloads' = avatarDownloads \cup {c}
            /\ fetchPC' = [fetchPC EXCEPT ![f] = "info"]
            /\ fetchChat' = [fetchChat EXCEPT ![f] = c]
            /\ UNCHANGED <<fetchPicture, detached>>

GetProfilePictureForEver(k, c) ==   \* mutant: the file's age is not looked at
    /\ "avatar" \in world
    /\ avatarFile[c] = NoFile
    /\ CallBegins(k, "schedule", c)
    /\ UNCHANGED <<groupVars, avatarVars, fetchVars, mediaVars, loopVars, crashed>>

(* The stat: a file that is there is answered, a missing or old one fetched *)
GetProfilePicture(k, c) ==
    /\ "avatar" \in world
    /\ avatarFile[c] = NoFile \/ c \in avatarOld
    /\ CallBegins(k, "schedule", c)
    /\ UNCHANGED <<groupVars, avatarVars, fetchVars, mediaVars, loopVars, crashed>>

ProfilePictureScheduled(k) ==
    /\ callPC[k] = "schedule"
    /\ scheduleAvatarFetch(callKey[k])
    /\ CallReturns(k)
    /\ UNCHANGED <<groupVars, picture, avatarFile, avatarOld, mediaVars, loopVars, crashed>>

FetchGoto(f, pc) ==
    /\ fetchPC' = [fetchPC EXCEPT ![f] = pc]
    /\ UNCHANGED fetchChat

(* The picture's address, and the download from it *)
FetchDownloads(f) ==
    /\ fetchPC[f] = "info"
    /\ picture[fetchChat[f]] # NoPicture
    /\ fetchPicture' = [fetchPicture EXCEPT ![f] = picture[fetchChat[f]]]
    /\ FetchGoto(f, "open")
    /\ UNCHANGED <<groupVars, avatarVars, detached, mediaVars, callVars, loopVars, crashed>>

(* WriteFile, first half: the file is created, or truncated where it is *)
FetchOpens(f) ==
    /\ fetchPC[f] = "open"
    /\ avatarFile' = [avatarFile EXCEPT ![fetchChat[f]] = Partial]
    /\ avatarOld' = avatarOld \ {fetchChat[f]}
    /\ FetchGoto(f, "write")
    /\ UNCHANGED <<groupVars, picture, avatarDownloads, fetchPicture, detached, mediaVars,
                   callVars, loopVars, crashed>>

FetchRenames(f) ==              \* mutant: a temporary file, moved to its place in the end
    /\ fetchPC[f] = "write"
    /\ avatarFile' = [avatarFile EXCEPT ![fetchChat[f]] = fetchPicture[f]]
    /\ FetchGoto(f, "done")
    /\ UNCHANGED <<groupVars, picture, avatarOld, avatarDownloads, fetchPicture, detached,
                   mediaVars, callVars, loopVars, crashed>>

(* WriteFile, second half, and AvatarUpdated *)
FetchWrites(f) ==
    /\ fetchPC[f] = "write"
    /\ avatarFile' = IF f \in detached THEN avatarFile
                     ELSE [avatarFile EXCEPT ![fetchChat[f]] = fetchPicture[f]]
    /\ FetchGoto(f, "done")
    /\ UNCHANGED <<groupVars, picture, avatarOld, avatarDownloads, fetchPicture, detached,
                   mediaVars, callVars, loopVars, crashed>>

FetchFailsForGood(f) ==         \* mutant: the flag is cleared only on success
    /\ \/ fetchPC[f] = "info" /\ picture[fetchChat[f]] = NoPicture
       \/ fetchPC[f] \in {"info", "open", "write"} /\ "fail" \in world
    /\ fetchPC' = [fetchPC EXCEPT ![f] = "idle"]
    /\ fetchChat' = [fetchChat EXCEPT ![f] = None]
    /\ fetchPicture' = [fetchPicture EXCEPT ![f] = NoPicture]
    /\ detached' = detached \ {f}
    /\ UNCHANGED <<groupVars, avatarVars, mediaVars, callVars, loopVars, crashed>>

(* An error, or no picture: on to the deferred function *)
FetchFails(f) ==
    /\ \/ fetchPC[f] = "info" /\ picture[fetchChat[f]] = NoPicture
       \/ fetchPC[f] \in {"info", "open", "write"} /\ "fail" \in world
    /\ FetchGoto(f, "done")
    /\ UNCHANGED <<groupVars, avatarVars, fetchPicture, detached, mediaVars, callVars, loopVars,
                   crashed>>

(* The deferred delete *)
FetchEnds(f) ==
    /\ fetchPC[f] = "done"
    /\ avatarDownloads' = avatarDownloads \ {fetchChat[f]}
    /\ fetchPC' = [fetchPC EXCEPT ![f] = "idle"]
    /\ fetchChat' = [fetchChat EXCEPT ![f] = None]
    /\ fetchPicture' = [fetchPicture EXCEPT ![f] = NoPicture]
    /\ detached' = detached \ {f}
    /\ UNCHANGED <<groupVars, picture, avatarFile, avatarOld, mediaVars, callVars, loopVars,
                   crashed>>

(* Twenty-four hours *)
FileAges(c) ==
    /\ avatarFile[c] # NoFile /\ c \notin avatarOld
    /\ avatarOld' = avatarOld \cup {c}
    /\ UNCHANGED <<groupVars, picture, avatarFile, avatarDownloads, fetchVars, mediaVars,
                   callVars, loopVars, crashed>>

(* The picture is replaced or removed on the server, and the event comes *)
PictureChanges(c) ==
    /\ "avatar" \in world
    /\ picture[c] # NoPicture
    /\ \E p \in {picture[c] + 1, NoPicture} :
          /\ p <= MaxVersion
          /\ picture' = [picture EXCEPT ![c] = p]
    /\ Enqueue([kind |-> "Picture", chat |-> c])
    /\ UNCHANGED <<groupVars, avatarFile, avatarOld, avatarDownloads, fetchVars, mediaVars,
                   callVars, loopChat, crashed>>

-----------------------------------------------------------------------------
(* Media: DownloadMedia.                                                     *)

MediaCalls(m) == {k \in Calls : callKey[k] = m}

(* The row has no path yet; one with a path answers with it *)
DownloadMedia(k, m) ==
    /\ "media" \in world
    /\ m \notin localPath
    /\ MediaCalls(m) = {} \/ "slow" \in world
    /\ CallBegins(k, "fetch", m)
    /\ UNCHANGED <<groupVars, avatarVars, fetchVars, mediaVars, loopVars, crashed>>

(* DownloadStoredMedia, which checks what it has got against its hash *)
MediaFetched(k) ==
    /\ callPC[k] = "fetch"
    /\ CallGoto(k, "open")
    /\ UNCHANGED <<groupVars, avatarVars, fetchVars, mediaVars, loopVars, crashed>>

MediaOpensPersisted(k) ==       \* mutant: UpdateLocalPath before WriteFile
    /\ callPC[k] = "open"
    /\ localPath' = localPath \cup {callKey[k]}
    /\ mediaFile' = [mediaFile EXCEPT ![callKey[k]] = "partial"]
    /\ lastOpener' = [lastOpener EXCEPT ![callKey[k]] = k]
    /\ CallGoto(k, "write")
    /\ UNCHANGED <<groupVars, avatarVars, fetchVars, loopVars, crashed>>

(* WriteFile, first half *)
MediaOpens(k) ==
    /\ callPC[k] = "open"
    /\ mediaFile' = [mediaFile EXCEPT ![callKey[k]] = "partial"]
    /\ lastOpener' = [lastOpener EXCEPT ![callKey[k]] = k]
    /\ CallGoto(k, "write")
    /\ UNCHANGED <<groupVars, avatarVars, fetchVars, localPath, loopVars, crashed>>

(* WriteFile, second half. Who truncated the file last leaves it complete;   *)
(* of what another one writes, any part may be lost to the truncation.       *)
MediaWrites(k) ==
    /\ callPC[k] = "write"
    /\ LET m == callKey[k] IN
       \E content \in {"complete"} \cup (IF lastOpener[m] = k THEN {} ELSE {mediaFile[m]}) :
          mediaFile' = [mediaFile EXCEPT ![m] = content]
    /\ CallGoto(k, "persist")
    /\ UNCHANGED <<groupVars, avatarVars, fetchVars, localPath, lastOpener, loopVars, crashed>>

(* UpdateLocalPath; a statement that fails is only logged *)
MediaPersists(k) ==
    /\ callPC[k] = "persist"
    /\ \/ localPath' = localPath \cup {callKey[k]}
       \/ "fail" \in world /\ UNCHANGED localPath
    /\ CallReturns(k)
    /\ UNCHANGED <<groupVars, avatarVars, fetchVars, mediaFile, lastOpener, loopVars, crashed>>

(* The download or the write fails: the call answers with no path *)
MediaFails(k) ==
    /\ "fail" \in world
    /\ callPC[k] \in {"fetch", "open", "write"}
    /\ CallReturns(k)
    /\ UNCHANGED <<groupVars, avatarVars, fetchVars, mediaVars, loopVars, crashed>>

-----------------------------------------------------------------------------
(* The event loop.                                                           *)

EventLoopIgnores ==             \* mutant: no case of the switch takes the event
    /\ loopChat = None /\ events # <<>>
    /\ events' = Tail(events)
    /\ UNCHANGED <<groupVars, avatarVars, fetchVars, mediaVars, callVars, loopChat, crashed>>

(* invalidateGroupInfoCache, or invalidateAvatarCache: whoever is writing to *)
(* the file goes on writing to one without a name.                           *)
EventLoop ==
    /\ loopChat = None /\ events # <<>>
    /\ events' = Tail(events)
    /\ LET e == Head(events) IN
       CASE e.kind = "GroupInfo" ->
              /\ entry' = [entry EXCEPT ![e.chat] = NoEntry]
              /\ expired' = expired \ {e.chat}
              /\ UNCHANGED <<avatarFile, avatarOld, detached, loopChat>>
         [] e.kind = "Picture" ->
              /\ avatarFile' = [avatarFile EXCEPT ![e.chat] = NoFile]
              /\ avatarOld' = avatarOld \ {e.chat}
              /\ detached' = detached \cup
                    {f \in Fetches : fetchChat[f] = e.chat /\ fetchPC[f] = "write"}
              /\ loopChat' = e.chat
              /\ UNCHANGED <<entry, expired>>
         [] OTHER -> UNCHANGED <<entry, expired, avatarFile, avatarOld, detached, loopChat>>
    /\ UNCHANGED <<groupInfo, picture, avatarDownloads, fetchPC, fetchChat, fetchPicture,
                   mediaVars, callVars, crashed>>

(* ... then scheduleAvatarFetch *)
EventLoopSchedules ==
    /\ loopChat # None
    /\ scheduleAvatarFetch(loopChat)
    /\ loopChat' = None
    /\ UNCHANGED <<groupVars, picture, avatarFile, avatarOld, mediaVars, callVars, events, crashed>>

Traffic ==
    /\ "traffic" \in world
    /\ Enqueue([kind |-> "Other", chat |-> None])
    /\ UNCHANGED <<groupVars, avatarVars, fetchVars, mediaVars, callVars, loopChat, crashed>>

(* What is in memory is gone, files and rows stay *)
Crash ==
    /\ "crash" \in world /\ ~crashed
    /\ crashed' = TRUE
    /\ entry' = [c \in Chats |-> NoEntry] /\ expired' = {}
    /\ avatarDownloads' = {}
    /\ fetchPC' = [f \in Fetches |-> "idle"] /\ fetchChat' = [f \in Fetches |-> None]
    /\ fetchPicture' = [f \in Fetches |-> NoPicture] /\ detached' = {}
    /\ callPC' = [k \in Calls |-> "idle"] /\ callKey' = [k \in Calls |-> None]
    /\ callInfo' = [k \in Calls |-> NoEntry]
    /\ events' = <<>> /\ loopChat' = None
    /\ UNCHANGED <<groupInfo, picture, avatarFile, avatarOld, mediaVars>>

-----------------------------------------------------------------------------

GroupCall(k) == GroupInfoAnswered(k) \/ GroupInfoFails(k) \/ GroupInfoStored(k)
MediaCall(k) ==
    MediaFetched(k) \/ MediaOpens(k) \/ MediaWrites(k) \/ MediaPersists(k) \/ MediaFails(k)
CallStep(k) == GroupCall(k) \/ ProfilePictureScheduled(k) \/ MediaCall(k)
FetchStep(f) ==
    FetchDownloads(f) \/ FetchOpens(f) \/ FetchWrites(f) \/ FetchFails(f) \/ FetchEnds(f)

CacheNext ==
    \/ \E k \in Calls, c \in Chats : LoadGroupInfo(k, c) \/ GetProfilePicture(k, c)
    \/ \E k \in Calls, m \in Media : DownloadMedia(k, m)
    \/ \E k \in Calls : CallStep(k)
    \/ \E f \in Fetches : FetchStep(f)
    \/ EventLoop \/ EventLoopSchedules
    \/ \E c \in Chats : GroupChanges(c) \/ PictureChanges(c)
    \/ \E c \in Chats : EntryExpires(c) \/ FileAges(c)
    \/ Traffic \/ Crash

CacheSpec == CacheInit /\ [][CacheNext /\ UNCHANGED world]_<<cacheVars, world>>

(***************************************************************************)
(* Fairness: goroutines run and time passes. A user who looks at the list  *)
(* of chats keeps asking for what it shows, and of infinitely many requests*)
(* and writes, one succeeds.                                               *)
(***************************************************************************)
CacheFairness ==
    /\ \A k \in Calls : WF_cacheVars(CallStep(k))
    /\ \A f \in Fetches : WF_cacheVars(FetchStep(f))
    /\ WF_cacheVars(EventLoop) /\ WF_cacheVars(EventLoopSchedules)
    /\ \A c \in Chats : WF_cacheVars(EntryExpires(c)) /\ WF_cacheVars(FileAges(c))

FrontendAsks ==
    \A c \in Chats :
        /\ SF_cacheVars(\E k \in Calls : LoadGroupInfo(k, c))
        /\ SF_cacheVars(\E k \in Calls : GetProfilePicture(k, c))

RequestsSucceed ==
    /\ \A k \in Calls : SF_cacheVars(GroupInfoAnswered(k))
    /\ \A f \in Fetches :
          /\ SF_cacheVars(FetchDownloads(f))
          /\ SF_cacheVars(FetchOpens(f)) /\ SF_cacheVars(FetchWrites(f))

FairCacheSpec == CacheSpec /\ CacheFairness /\ FrontendAsks /\ RequestsSucceed

-----------------------------------------------------------------------------
(* Properties.                                                               *)

(* avatarDownloads under cacheMu: whatever calls, picture changes, errors    *)
(* and removed files come together, a chat is marked exactly while one       *)
(* goroutine fetches for it. Two would write to the same file; a mark without*)
(* a goroutine would leave the chat without a picture for good.              *)
OneFetchPerChat ==
    /\ \A f, g \in Fetches :
          fetchPC[f] # "idle" /\ fetchPC[g] # "idle" /\ fetchChat[f] = fetchChat[g] => f = g
    /\ avatarDownloads = {fetchChat[f] : f \in {g \in Fetches : fetchPC[g] # "idle"}}

(* DownloadMedia: a row whose path is set has its whole file, or a second    *)
(* call is just writing it once more. (A second call that is cut short by an *)
(* error or a crash does leave a truncated file behind a path.)              *)
MediaComplete ==
    ~("slow" \in world /\ {"fail", "crash"} \cap world # {})
        => \A m \in localPath :
              mediaFile[m] = "complete" \/ \E k \in MediaCalls(m) : callPC[k] = "write"

(* The cache agrees with the server, or the event loop has yet to hear.      *)
Announced(kind, c) == \E i \in 1..Len(events) : events[i] = [kind |-> kind, chat |-> c]

GroupSettled(c) == entry[c] \in {NoEntry, groupInfo[c]} \/ Announced("GroupInfo", c)

(* loadGroupInfo and invalidateGroupInfoCache, each under the lock but not   *)
(* over the request: only an event the full channel drops, or an answer that *)
(* is stored after the change it does not know of, leaves an outdated group  *)
(* description that no event will correct.                                   *)
GroupOutdatedOnlyIfLost ==
    [][\A c \in Chats :
          GroupSettled(c) /\ ~GroupSettled(c)' =>
              \/ groupInfo'[c] # groupInfo[c] /\ Len(events) = EventsCap
              \/ \E k \in Calls :
                    callPC[k] = "store" /\ callKey[k] = c /\ callInfo[k] # groupInfo[c]]_cacheVars

Writes(f, c) == fetchPC[f] = "write" /\ fetchChat[f] = c

(* A truncated file is settled while its writer is there and still has it.   *)
AvatarSettled(c) ==
    \/ avatarFile[c] \in {NoFile, picture[c]} \/ Announced("Picture", c)
    \/ avatarFile[c] = Partial /\ \E f \in Fetches : Writes(f, c) /\ f \notin detached

(* scheduleAvatarFetch and invalidateAvatarCache: only an event the full     *)
(* channel drops or a crash forgets, a download that is older than the       *)
(* change, or a write that is cut short leaves a wrong picture that no event *)
(* and no goroutine will correct.                                            *)
AvatarOutdatedOnlyIfLost ==
    [][\A c \in Chats :
          AvatarSettled(c) /\ ~AvatarSettled(c)' =>
              \/ picture'[c] # picture[c] /\ Len(events) = EventsCap
              \/ crashed' # crashed
              \/ \E f \in Fetches :
                    /\ Writes(f, c) /\ f \notin detached
                    /\ fetchPicture[f] # picture[c] \/ "fail" \in world]_cacheVars

(* Five minutes bound what a lost event, or an answer that overtakes an      *)
(* invalidation, can do: once a group no longer changes, the cache ends up   *)
(* with no valid entry but the current one, again and again.                 *)
GroupInfoConverges ==
    \A c \in Chats : "group" \in world =>
        /\ <>[](entry[c] # NoEntry /\ c \notin expired => entry[c] = groupInfo[c])
        /\ []<>(entry[c] = groupInfo[c])

(* live-test-guide.md, "Chat list": "profile pictures load after a few       *)
(* seconds". Errors, lost events, a change during a download or a file       *)
(* removed under its writer only delay it: an outdated picture goes for good,*)
(* and the current one is there again and again. (A picture that was removed *)
(* stays if the event is lost.)                                              *)
AvatarConverges ==
    \A c \in Chats : "avatar" \in world =>
        /\ <>[](picture[c] # NoPicture => avatarFile[c] \in {NoFile, Partial, picture[c]})
        /\ []<>(picture[c] # NoPicture => avatarFile[c] = picture[c])

=============================================================================

------------------------ MODULE ServiceCaches_proofs ------------------------
(***************************************************************************)
(* Proofs about ServiceCaches for any number of chats, media messages,     *)
(* calls and goroutines, and any bounds.                                   *)
(***************************************************************************)
EXTENDS ServiceCaches, TLAPS

(* A call past its first step is about a chat or a message, a goroutine that *)
(* runs is about a chat.                                                     *)
KeysInv ==
    /\ \A k \in Calls :
          /\ callPC[k] = "idle" => callKey[k] = None
          /\ callPC[k] \in {"ask", "store", "schedule"} => callKey[k] \in Chats
          /\ callPC[k] \in {"fetch", "open", "write", "persist"} => callKey[k] \in Media
    /\ \A f \in Fetches :
          /\ fetchPC[f] # "idle" => fetchChat[f] \in Chats
          /\ fetchPC[f] \in {"open", "write"} => fetchPicture[f] \in Versions

CacheInv == CacheTypeOK /\ KeysInv

CacheStep == CacheNext /\ UNCHANGED world

LEMMA EnqueueType ==
    ASSUME events \in Seq(Events), Len(events) <= EventsCap, NEW e \in Events, Enqueue(e)
    PROVE  events' \in Seq(Events) /\ Len(events') <= EventsCap
<1>1. CASE Len(events) < EventsCap
  <2>1. events' = Append(events, e)
    BY <1>1 DEF Enqueue
  <2>2. QED BY <1>1, <2>1, BoundsAssumption
<1>2. CASE ~(Len(events) < EventsCap)
  BY <1>2 DEF Enqueue
<1>3. QED BY <1>1, <1>2

LEMMA ScheduleType ==
    ASSUME CacheInv, NEW c \in Chats, scheduleAvatarFetch(c)
    PROVE  /\ avatarDownloads' \subseteq Chats
           /\ fetchPC' \in [Fetches -> FetchPCs]
           /\ fetchChat' \in [Fetches -> Chats \cup {None}]
           /\ UNCHANGED <<fetchPicture, detached>>
           /\ \A f \in Fetches :
                 /\ fetchPC'[f] # "idle" => fetchChat'[f] \in Chats
                 /\ fetchPC'[f] \in {"open", "write"} => fetchPicture'[f] \in Versions
<1> USE DEF CacheInv, CacheTypeOK, KeysInv, FetchPCs
<1>1. CASE c \in avatarDownloads
  BY <1>1 DEF scheduleAvatarFetch, fetchVars
<1>2. CASE c \notin avatarDownloads
  BY <1>2 DEF scheduleAvatarFetch
<1>3. QED BY <1>1, <1>2

LEMMA CacheInvInit == CacheInit => CacheInv
<1>1. 1 \in Versions
  BY BoundsAssumption DEF Versions
<1>2. <<>> \in Seq(Events) /\ Len(<<>>) <= EventsCap
  BY BoundsAssumption
<1>3. CacheInit => CacheTypeOK
  <2> SUFFICES ASSUME CacheInit PROVE CacheTypeOK
    OBVIOUS
  <2> USE DEF CacheInit
  <2>1. /\ groupInfo \in [Chats -> Versions]
        /\ entry \in [Chats -> Versions \cup {NoEntry}] /\ expired \subseteq Chats
        /\ picture \in [Chats -> Versions \cup {NoPicture}]
        /\ avatarFile \in [Chats -> Versions \cup {NoFile, Partial}]
        /\ avatarOld \subseteq Chats /\ avatarDownloads \subseteq Chats
    BY <1>1
  <2>2. /\ fetchPC \in [Fetches -> FetchPCs]
        /\ fetchChat \in [Fetches -> Chats \cup {None}]
        /\ fetchPicture \in [Fetches -> Versions \cup {NoPicture}] /\ detached \subseteq Fetches
    BY DEF FetchPCs
  <2>3. /\ localPath \subseteq Media
        /\ mediaFile \in [Media -> {"none", "partial", "complete"}]
        /\ lastOpener \in [Media -> Calls \cup {None}]
        /\ callPC \in [Calls -> CallPCs]
        /\ callKey \in [Calls -> Chats \cup Media \cup {None}]
        /\ callInfo \in [Calls -> Versions \cup {NoEntry}]
    BY DEF CallPCs
  <2>4. /\ events \in Seq(Events) /\ Len(events) <= EventsCap
        /\ loopChat \in Chats \cup {None} /\ crashed \in BOOLEAN /\ world \in Worlds
    BY <1>2
  <2>5. QED BY <2>1, <2>2, <2>3, <2>4 DEF CacheTypeOK
<1>4. CacheInit => KeysInv
  BY DEF CacheInit, KeysInv
<1>5. QED BY <1>3, <1>4 DEF CacheInv

LEMMA CacheInvStep ==
    ASSUME CacheInv, [CacheStep]_<<cacheVars, world>>
    PROVE  CacheInv'
<1> USE DEF CacheInv, CacheTypeOK, KeysInv, FetchPCs, CallPCs, groupVars, avatarVars, fetchVars,
            mediaVars, callVars, loopVars, CallBegins, CallGoto, CallReturns, FetchGoto
<1>1. CASE UNCHANGED <<cacheVars, world>>
  BY <1>1 DEF cacheVars
<1>w. CASE CacheStep
  <2>w. UNCHANGED world
    BY <1>w DEF CacheStep
  <2>1. ASSUME NEW k \in Calls, NEW c \in Chats, LoadGroupInfo(k, c) PROVE CacheInv'
    BY <2>1, <2>w DEF LoadGroupInfo
  <2>2. ASSUME NEW k \in Calls, NEW c \in Chats, GetProfilePicture(k, c) PROVE CacheInv'
    BY <2>2, <2>w DEF GetProfilePicture
  <2>3. ASSUME NEW k \in Calls, NEW m \in Media, DownloadMedia(k, m) PROVE CacheInv'
    BY <2>3, <2>w DEF DownloadMedia
  <2>4. ASSUME NEW k \in Calls, GroupInfoAnswered(k) PROVE CacheInv'
    BY <2>4, <2>w DEF GroupInfoAnswered
  <2>5. ASSUME NEW k \in Calls, GroupInfoFails(k) PROVE CacheInv'
    BY <2>5, <2>w DEF GroupInfoFails
  <2>6. ASSUME NEW k \in Calls, GroupInfoStored(k) PROVE CacheInv'
    BY <2>6, <2>w DEF GroupInfoStored
  <2>7. ASSUME NEW k \in Calls, ProfilePictureScheduled(k) PROVE CacheInv'
    <3>1. callKey[k] \in Chats
      BY <2>7 DEF ProfilePictureScheduled
    <3>2. scheduleAvatarFetch(callKey[k])
      BY <2>7 DEF ProfilePictureScheduled
    <3>3. QED BY <2>7, <2>w, <3>1, <3>2, ScheduleType DEF ProfilePictureScheduled
  <2>8. ASSUME NEW k \in Calls, MediaFetched(k) PROVE CacheInv'
    BY <2>8, <2>w DEF MediaFetched
  <2>9. ASSUME NEW k \in Calls, MediaOpens(k) PROVE CacheInv'
    BY <2>9, <2>w DEF MediaOpens
  <2>10. ASSUME NEW k \in Calls, MediaWrites(k) PROVE CacheInv'
    <3>1. callKey[k] \in Media
      BY <2>10 DEF MediaWrites
    <3>2. mediaFile' \in [Media -> {"none", "partial", "complete"}]
      BY <2>10, <3>1 DEF MediaWrites
    <3>3. QED BY <2>10, <2>w, <3>2 DEF MediaWrites
  <2>11. ASSUME NEW k \in Calls, MediaPersists(k) PROVE CacheInv'
    BY <2>11, <2>w DEF MediaPersists
  <2>12. ASSUME NEW k \in Calls, MediaFails(k) PROVE CacheInv'
    BY <2>12, <2>w DEF MediaFails
  <2>13. ASSUME NEW f \in Fetches, FetchDownloads(f) PROVE CacheInv'
    BY <2>13, <2>w DEF FetchDownloads
  <2>14. ASSUME NEW f \in Fetches, FetchOpens(f) PROVE CacheInv'
    BY <2>14, <2>w DEF FetchOpens
  <2>15. ASSUME NEW f \in Fetches, FetchWrites(f) PROVE CacheInv'
    BY <2>15, <2>w DEF FetchWrites
  <2>16. ASSUME NEW f \in Fetches, FetchFails(f) PROVE CacheInv'
    BY <2>16, <2>w DEF FetchFails
  <2>17. ASSUME NEW f \in Fetches, FetchEnds(f) PROVE CacheInv'
    BY <2>17, <2>w DEF FetchEnds
  <2>18. CASE EventLoop
    <3> DEFINE e == Head(events)
    <3>1. events # <<>> /\ events' = Tail(events) /\ loopChat = None
      BY <2>18 DEF EventLoop
    <3>2. e \in Events /\ events' \in Seq(Events) /\ Len(events') <= EventsCap
      BY <3>1, BoundsAssumption
    <3>3. UNCHANGED <<groupInfo, picture, avatarDownloads, fetchPC, fetchChat, fetchPicture,
                      mediaVars, callVars, crashed>>
      BY <2>18 DEF EventLoop
    <3>4. CASE e.kind = "GroupInfo"
      <4>1. e.chat \in Chats
        BY <3>2, <3>4 DEF Events
      <4>2. /\ entry' = [entry EXCEPT ![e.chat] = NoEntry]
            /\ expired' = expired \ {e.chat}
            /\ UNCHANGED <<avatarFile, avatarOld, detached, loopChat>>
        BY <2>18, <3>4 DEF EventLoop
      <4>3. QED BY <2>w, <3>2, <3>3, <4>1, <4>2
    <3>5. CASE e.kind = "Picture"
      <4>1. e.chat \in Chats
        BY <3>2, <3>5 DEF Events
      <4>2. /\ avatarFile' = [avatarFile EXCEPT ![e.chat] = NoFile]
            /\ avatarOld' = avatarOld \ {e.chat}
            /\ detached' = detached \cup
                  {f \in Fetches : fetchChat[f] = e.chat /\ fetchPC[f] = "write"}
            /\ loopChat' = e.chat
            /\ UNCHANGED <<entry, expired>>
        BY <2>18, <3>5 DEF EventLoop
      <4>3. QED BY <2>w, <3>2, <3>3, <4>1, <4>2
    <3>6. CASE e.kind # "GroupInfo" /\ e.kind # "Picture"
      <4>1. UNCHANGED <<entry, expired, avatarFile, avatarOld, detached, loopChat>>
        BY <2>18, <3>6 DEF EventLoop
      <4>2. QED BY <2>w, <3>2, <3>3, <4>1
    <3>7. QED BY <3>4, <3>5, <3>6
  <2>19. CASE EventLoopSchedules
    <3>1. loopChat \in Chats /\ scheduleAvatarFetch(loopChat)
      BY <2>19 DEF EventLoopSchedules
    <3>2. QED BY <2>19, <2>w, <3>1, ScheduleType DEF EventLoopSchedules
  <2>20. ASSUME NEW c \in Chats, GroupChanges(c) PROVE CacheInv'
    <3>1. [kind |-> "GroupInfo", chat |-> c] \in Events
      BY DEF Events
    <3>2. events' \in Seq(Events) /\ Len(events') <= EventsCap
      BY <2>20, <3>1, EnqueueType DEF GroupChanges
    <3>3. groupInfo' \in [Chats -> Versions]
      BY <2>20, BoundsAssumption DEF GroupChanges, Versions
    <3>4. QED BY <2>20, <2>w, <3>2, <3>3 DEF GroupChanges
  <2>21. ASSUME NEW c \in Chats, PictureChanges(c) PROVE CacheInv'
    <3>1. [kind |-> "Picture", chat |-> c] \in Events
      BY DEF Events
    <3>2. events' \in Seq(Events) /\ Len(events') <= EventsCap
      BY <2>21, <3>1, EnqueueType DEF PictureChanges
    <3>3. picture' \in [Chats -> Versions \cup {NoPicture}]
      BY <2>21, BoundsAssumption DEF PictureChanges, Versions, NoPicture
    <3>4. QED BY <2>21, <2>w, <3>2, <3>3 DEF PictureChanges
  <2>22. ASSUME NEW c \in Chats, EntryExpires(c) \/ FileAges(c) PROVE CacheInv'
    BY <2>22, <2>w DEF EntryExpires, FileAges
  <2>23. CASE Traffic
    <3>1. [kind |-> "Other", chat |-> None] \in Events
      BY DEF Events
    <3>2. events' \in Seq(Events) /\ Len(events') <= EventsCap
      BY <2>23, <3>1, EnqueueType DEF Traffic
    <3>3. QED BY <2>23, <2>w, <3>2 DEF Traffic
  <2>24. CASE Crash
    BY <2>24, <2>w, BoundsAssumption DEF Crash
  <2>25. QED
    BY <1>w, <2>1, <2>2, <2>3, <2>4, <2>5, <2>6, <2>7, <2>8, <2>9, <2>10, <2>11, <2>12, <2>13,
       <2>14, <2>15, <2>16, <2>17, <2>18, <2>19, <2>20, <2>21, <2>22, <2>23, <2>24
    DEF CacheStep, CacheNext, CallStep, GroupCall, MediaCall, FetchStep
<1>2. QED BY <1>1, <1>w

LEMMA CacheInvCorrect == CacheSpec => []CacheInv
BY CacheInvInit, CacheInvStep, PTL DEF CacheSpec, CacheStep

(* The types, for any chats, messages, goroutines and bounds. *)
THEOREM CacheTypeCorrect == CacheSpec => []CacheTypeOK
BY CacheInvCorrect, PTL DEF CacheInv

-----------------------------------------------------------------------------
(* avatarDownloads.                                                          *)

LEMMA FetchScheduled ==
    ASSUME CacheInv, OneFetchPerChat, NEW c \in Chats, scheduleAvatarFetch(c)
    PROVE  OneFetchPerChat'
<1>1. CASE c \in avatarDownloads
  BY <1>1 DEF scheduleAvatarFetch, fetchVars, OneFetchPerChat
<1>2. CASE c \notin avatarDownloads
  <2>1. PICK f \in Fetches :
           /\ fetchPC[f] = "idle"
           /\ avatarDownloads' = avatarDownloads \cup {c}
           /\ fetchPC' = [fetchPC EXCEPT ![f] = "info"]
           /\ fetchChat' = [fetchChat EXCEPT ![f] = c]
    BY <1>2 DEF scheduleAvatarFetch
  <2>2. \A g \in Fetches : fetchPC[g] # "idle" => fetchChat[g] # c
    BY <1>2 DEF OneFetchPerChat
  <2>3. /\ fetchPC'[f] = "info" /\ fetchChat'[f] = c
        /\ \A g \in Fetches \ {f} : fetchPC'[g] = fetchPC[g] /\ fetchChat'[g] = fetchChat[g]
    BY <2>1 DEF CacheInv, CacheTypeOK
  <2>4. QED BY <2>1, <2>2, <2>3 DEF OneFetchPerChat
<1>3. QED BY <1>1, <1>2

(* A step of a goroutine that goes on running for its chat *)
LEMMA FetchContinues ==
    ASSUME OneFetchPerChat, UNCHANGED <<avatarDownloads, fetchChat>>,
           \A f \in Fetches : fetchPC'[f] = "idle" <=> fetchPC[f] = "idle"
    PROVE  OneFetchPerChat'
BY DEF OneFetchPerChat

LEMMA OneFetchStep ==
    ASSUME CacheInv, OneFetchPerChat, [CacheStep]_<<cacheVars, world>>
    PROVE  OneFetchPerChat'
<1> USE DEF avatarVars, fetchVars
<1>1. CASE UNCHANGED <<cacheVars, world>>
  BY <1>1 DEF cacheVars, OneFetchPerChat
<1>2. ASSUME UNCHANGED <<avatarDownloads, fetchPC, fetchChat>> PROVE OneFetchPerChat'
  BY <1>2 DEF OneFetchPerChat
<1>w. CASE CacheStep
  <2>1. ASSUME NEW k \in Calls, NEW c \in Chats, LoadGroupInfo(k, c) \/ GetProfilePicture(k, c)
        PROVE  OneFetchPerChat'
    BY <2>1, <1>2 DEF LoadGroupInfo, GetProfilePicture
  <2>2. ASSUME NEW k \in Calls, NEW m \in Media, DownloadMedia(k, m) PROVE OneFetchPerChat'
    BY <2>2, <1>2 DEF DownloadMedia
  <2>3. ASSUME NEW k \in Calls, GroupCall(k) \/ MediaCall(k) PROVE OneFetchPerChat'
    BY <2>3, <1>2
    DEF GroupCall, GroupInfoAnswered, GroupInfoFails, GroupInfoStored, MediaCall, MediaFetched,
        MediaOpens, MediaWrites, MediaPersists, MediaFails
  <2>4. ASSUME NEW k \in Calls, ProfilePictureScheduled(k) PROVE OneFetchPerChat'
    BY <2>4, FetchScheduled DEF ProfilePictureScheduled, CacheInv, KeysInv
  <2>5. ASSUME NEW f \in Fetches,
               FetchDownloads(f) \/ FetchOpens(f) \/ FetchWrites(f) \/ FetchFails(f)
        PROVE  OneFetchPerChat'
    <3>1. UNCHANGED <<avatarDownloads, fetchChat>>
      BY <2>5 DEF FetchDownloads, FetchOpens, FetchWrites, FetchFails, FetchGoto
    <3>2. \A g \in Fetches : fetchPC'[g] = "idle" <=> fetchPC[g] = "idle"
      BY <2>5
      DEF FetchDownloads, FetchOpens, FetchWrites, FetchFails, FetchGoto, CacheInv, CacheTypeOK
    <3>3. QED BY <3>1, <3>2, FetchContinues
  <2>6. ASSUME NEW f \in Fetches, FetchEnds(f) PROVE OneFetchPerChat'
    <3>1. /\ avatarDownloads' = avatarDownloads \ {fetchChat[f]}
          /\ fetchPC'[f] = "idle"
          /\ \A g \in Fetches \ {f} : fetchPC'[g] = fetchPC[g] /\ fetchChat'[g] = fetchChat[g]
      BY <2>6 DEF FetchEnds, CacheInv, CacheTypeOK
    <3>2. fetchPC[f] # "idle"
      BY <2>6 DEF FetchEnds
    <3>3. \A g \in Fetches \ {f} : fetchPC[g] # "idle" => fetchChat[g] # fetchChat[f]
      BY <3>2 DEF OneFetchPerChat
    <3>4. QED BY <3>1, <3>2, <3>3 DEF OneFetchPerChat
  <2>7. CASE EventLoop
    BY <2>7, <1>2 DEF EventLoop
  <2>8. CASE EventLoopSchedules
    BY <2>8, FetchScheduled DEF EventLoopSchedules, CacheInv, CacheTypeOK
  <2>9. ASSUME NEW c \in Chats,
               GroupChanges(c) \/ PictureChanges(c) \/ EntryExpires(c) \/ FileAges(c)
        PROVE  OneFetchPerChat'
    BY <2>9, <1>2 DEF GroupChanges, PictureChanges, EntryExpires, FileAges
  <2>10. CASE Traffic
    BY <2>10, <1>2 DEF Traffic
  <2>11. CASE Crash
    BY <2>11 DEF Crash, OneFetchPerChat
  <2>12. QED
    BY <1>w, <2>1, <2>2, <2>3, <2>4, <2>5, <2>6, <2>7, <2>8, <2>9, <2>10, <2>11
    DEF CacheStep, CacheNext, CallStep, FetchStep
<1>3. QED BY <1>1, <1>w

(* One goroutine per chat, and a mark exactly while it runs. *)
THEOREM OneFetchCorrect == CacheSpec => []OneFetchPerChat
<1>1. CacheInit => OneFetchPerChat
  BY DEF CacheInit, OneFetchPerChat
<1>2. QED BY <1>1, OneFetchStep, CacheInvCorrect, PTL DEF CacheSpec, CacheStep

-----------------------------------------------------------------------------
(* DownloadMedia.                                                            *)

(* Why MediaComplete is inductive. Where nothing fails, a file that is not   *)
(* complete is being written by the call that truncated it last, whoever     *)
(* finishes before. Where calls do not overlap, a message has one call, and  *)
(* none once its row has a path.                                             *)
Failing == {"fail", "crash"} \cap world # {}

Writing(k, m) == callKey[k] = m /\ callPC[k] = "write"
Persisting(k, m) == callKey[k] = m /\ callPC[k] = "persist"

MediaThere(m) ==
    m \in localPath \/ (\E k \in Calls : Writing(k, m) \/ Persisting(k, m))
        => mediaFile[m] # "none"

LastWriter(m) ==
    ~Failing /\ mediaFile[m] = "partial" => lastOpener[m] \in Calls /\ Writing(lastOpener[m], m)

OneCall(m) ==
    "slow" \notin world =>
        /\ \A k, l \in Calls : callKey[k] = m /\ callKey[l] = m => k = l
        /\ m \in localPath => mediaFile[m] = "complete" /\ \A k \in Calls : callKey[k] # m
        /\ \A k \in Calls : Persisting(k, m) => mediaFile[m] = "complete"
        /\ \A k \in Calls : Writing(k, m) => lastOpener[m] = k

MediaInv == \A m \in Media : MediaThere(m) /\ LastWriter(m) /\ OneCall(m)

(* A step that is not about media: no call becomes one about a message. *)
LEMMA MediaKept ==
    ASSUME CacheInv, MediaInv, UNCHANGED <<mediaVars, world>>,
           \A k \in Calls, m \in Media : callKey'[k] = m <=> callKey[k] = m,
           \A k \in Calls : callKey[k] \in Media => callPC'[k] = callPC[k]
    PROVE  MediaInv'
<1> SUFFICES ASSUME NEW m \in Media PROVE (MediaThere(m) /\ LastWriter(m) /\ OneCall(m))'
  BY DEF MediaInv
<1> USE DEF mediaVars, Writing, Persisting
<1>1. MediaThere(m)'
  BY DEF MediaInv, MediaThere
<1>2. LastWriter(m)'
  BY DEF MediaInv, LastWriter, Failing
<1>3. OneCall(m)'
  BY DEF MediaInv, OneCall
<1>4. QED BY <1>1, <1>2, <1>3

(* A call that is about no message begins, goes on or returns. *)
LEMMA OtherCall ==
    ASSUME CacheInv, MediaInv, UNCHANGED <<mediaVars, world>>, NEW k \in Calls,
           callKey[k] \notin Media, callKey'[k] \notin Media,
           \A l \in Calls \ {k} : callKey'[l] = callKey[l] /\ callPC'[l] = callPC[l]
    PROVE  MediaInv'
BY MediaKept

LEMMA MediaCallStep ==
    ASSUME CacheInv, MediaInv, UNCHANGED world, NEW k \in Calls, MediaCall(k)
    PROVE  MediaInv'
<1> USE DEF CacheInv, CacheTypeOK, KeysInv, Writing, Persisting
<1>1. callKey[k] \in Media
  BY DEF MediaCall, MediaFetched, MediaOpens, MediaWrites, MediaPersists, MediaFails
<1>2. \A l \in Calls \ {k} : callKey'[l] = callKey[l] /\ callPC'[l] = callPC[l]
  BY DEF MediaCall, MediaFetched, MediaOpens, MediaWrites, MediaPersists, MediaFails, CallGoto,
         CallReturns
<1> SUFFICES ASSUME NEW m \in Media PROVE (MediaThere(m) /\ LastWriter(m) /\ OneCall(m))'
  BY DEF MediaInv
<1>m. MediaThere(m) /\ LastWriter(m) /\ OneCall(m)
  BY DEF MediaInv
<1>3. CASE MediaFetched(k)
  <2>1. /\ callPC[k] = "fetch" /\ callPC'[k] = "open" /\ callKey' = callKey
        /\ UNCHANGED <<localPath, mediaFile, lastOpener>>
    BY <1>3 DEF MediaFetched, CallGoto, mediaVars
  <2>2. QED BY <1>2, <1>m, <2>1 DEF MediaThere, LastWriter, OneCall, Failing
<1>4. CASE MediaOpens(k)
  <2>1. /\ callPC[k] = "open" /\ callPC'[k] = "write" /\ callKey' = callKey
        /\ UNCHANGED localPath
        /\ mediaFile' = [mediaFile EXCEPT ![callKey[k]] = "partial"]
        /\ lastOpener' = [lastOpener EXCEPT ![callKey[k]] = k]
    BY <1>4 DEF MediaOpens, CallGoto
  <2>2. CASE callKey[k] = m
    <3>1. mediaFile'[m] = "partial" /\ lastOpener'[m] = k
      BY <2>1, <2>2
    <3>2. MediaThere(m)' /\ LastWriter(m)'
      BY <2>1, <2>2, <3>1 DEF MediaThere, LastWriter
    <3>3. OneCall(m)'
      BY <1>2, <1>m, <2>1, <2>2, <3>1 DEF OneCall
    <3>4. QED BY <3>2, <3>3
  <2>3. CASE callKey[k] # m
    <3>1. mediaFile'[m] = mediaFile[m] /\ lastOpener'[m] = lastOpener[m]
      BY <2>1, <2>3
    <3>2. QED BY <1>2, <1>m, <2>1, <2>3, <3>1 DEF MediaThere, LastWriter, OneCall, Failing
  <2>4. QED BY <2>2, <2>3
<1>5. CASE MediaWrites(k)
  <2>1. /\ callPC[k] = "write" /\ callPC'[k] = "persist" /\ callKey' = callKey
        /\ UNCHANGED <<localPath, lastOpener>>
    BY <1>5 DEF MediaWrites, CallGoto
  <2>2. CASE callKey[k] = m
    <3>1. \/ mediaFile'[m] = "complete"
          \/ lastOpener[m] # k /\ mediaFile'[m] = mediaFile[m]
      BY <1>5, <2>2 DEF MediaWrites
    <3>2. MediaThere(m)'
      BY <1>2, <1>m, <2>1, <2>2, <3>1 DEF MediaThere
    <3>3. LastWriter(m)'
      BY <1>2, <1>m, <2>1, <2>2, <3>1 DEF LastWriter, Failing
    <3>4. OneCall(m)'
      BY <1>2, <1>m, <2>1, <2>2, <3>1 DEF OneCall
    <3>5. QED BY <3>2, <3>3, <3>4
  <2>3. CASE callKey[k] # m
    <3>1. mediaFile'[m] = mediaFile[m]
      BY <1>5, <2>3 DEF MediaWrites
    <3>2. QED BY <1>2, <1>m, <2>1, <2>3, <3>1 DEF MediaThere, LastWriter, OneCall, Failing
  <2>4. QED BY <2>2, <2>3
<1>6. CASE MediaPersists(k)
  <2>1. /\ callPC[k] = "persist" /\ callPC'[k] = "idle" /\ callKey'[k] = None
        /\ UNCHANGED <<mediaFile, lastOpener>>
        /\ localPath' = localPath \cup {callKey[k]} \/ localPath' = localPath
    BY <1>6 DEF MediaPersists, CallReturns
  <2>2. None # m
    BY NoneAssumption
  <2>3. MediaThere(m)'
    BY <1>2, <1>m, <2>1, <2>2 DEF MediaThere
  <2>4. LastWriter(m)'
    BY <1>2, <1>m, <2>1, <2>2 DEF LastWriter, Failing
  <2>5. OneCall(m)'
    BY <1>2, <1>m, <2>1, <2>2 DEF OneCall
  <2>6. QED BY <2>3, <2>4, <2>5
<1>7. CASE MediaFails(k)
  <2>1. /\ "fail" \in world /\ callPC'[k] = "idle" /\ callKey'[k] = None
        /\ UNCHANGED <<localPath, mediaFile, lastOpener>>
    BY <1>7 DEF MediaFails, CallReturns, mediaVars
  <2>2. None # m
    BY NoneAssumption
  <2>3. QED BY <1>2, <1>m, <2>1, <2>2 DEF MediaThere, LastWriter, OneCall, Failing
<1>8. QED BY <1>3, <1>4, <1>5, <1>6, <1>7 DEF MediaCall

LEMMA MediaInvStep ==
    ASSUME CacheInv, MediaInv, [CacheStep]_<<cacheVars, world>>
    PROVE  MediaInv'
<1>1. ASSUME UNCHANGED <<mediaVars, callVars, world>> PROVE MediaInv'
  BY <1>1, MediaKept DEF callVars
<1>2. CASE UNCHANGED <<cacheVars, world>>
  BY <1>1, <1>2 DEF cacheVars
<1>w. CASE CacheStep
  <2>w. UNCHANGED world
    BY <1>w DEF CacheStep
  <2> USE DEF CacheInv, CacheTypeOK, KeysInv
  <2>1. ASSUME NEW k \in Calls, NEW c \in Chats, LoadGroupInfo(k, c) \/ GetProfilePicture(k, c)
        PROVE  MediaInv'
    <3>1. callKey[k] = None /\ callKey'[k] = c
      BY <2>1 DEF LoadGroupInfo, GetProfilePicture, CallBegins
    <3>2. callKey[k] \notin Media /\ callKey'[k] \notin Media
      BY <3>1, NoneAssumption, KeysAssumption
    <3>3. \A l \in Calls \ {k} : callKey'[l] = callKey[l] /\ callPC'[l] = callPC[l]
      BY <2>1 DEF LoadGroupInfo, GetProfilePicture, CallBegins
    <3>4. UNCHANGED mediaVars
      BY <2>1 DEF LoadGroupInfo, GetProfilePicture
    <3>5. QED BY <2>w, <3>2, <3>3, <3>4, OtherCall
  <2>2. ASSUME NEW k \in Calls, GroupCall(k) \/ ProfilePictureScheduled(k) PROVE MediaInv'
    <3>1. callKey[k] \in Chats /\ (callKey'[k] = callKey[k] \/ callKey'[k] = None)
      BY <2>2
      DEF GroupCall, GroupInfoAnswered, GroupInfoFails, GroupInfoStored, ProfilePictureScheduled,
          CallReturns
    <3>2. callKey[k] \notin Media /\ callKey'[k] \notin Media
      BY <3>1, NoneAssumption, KeysAssumption
    <3>3. \A l \in Calls \ {k} : callKey'[l] = callKey[l] /\ callPC'[l] = callPC[l]
      BY <2>2
      DEF GroupCall, GroupInfoAnswered, GroupInfoFails, GroupInfoStored, ProfilePictureScheduled,
          CallReturns
    <3>4. UNCHANGED mediaVars
      BY <2>2
      DEF GroupCall, GroupInfoAnswered, GroupInfoFails, GroupInfoStored, ProfilePictureScheduled
    <3>5. QED BY <2>w, <3>2, <3>3, <3>4, OtherCall
  <2>3. ASSUME NEW k \in Calls, NEW n \in Media, DownloadMedia(k, n) PROVE MediaInv'
    <3> SUFFICES ASSUME NEW m \in Media PROVE (MediaThere(m) /\ LastWriter(m) /\ OneCall(m))'
      BY DEF MediaInv
    <3>1. /\ callPC[k] = "idle" /\ callPC'[k] = "fetch" /\ callKey'[k] = n
          /\ UNCHANGED <<localPath, mediaFile, lastOpener>>
          /\ \A l \in Calls \ {k} : callKey'[l] = callKey[l] /\ callPC'[l] = callPC[l]
      BY <2>3 DEF DownloadMedia, CallBegins, mediaVars
    <3>2. /\ n \notin localPath
          /\ "slow" \notin world => \A l \in Calls : callKey[l] # n
      BY <2>3 DEF DownloadMedia, MediaCalls
    <3>3. MediaThere(m) /\ LastWriter(m) /\ OneCall(m)
      BY DEF MediaInv
    <3>4. MediaThere(m)'
      BY <3>1, <3>3 DEF MediaThere, Persisting, Writing
    <3>5. LastWriter(m)'
      BY <2>w, <3>1, <3>3 DEF LastWriter, Failing, Writing
    <3>6. OneCall(m)'
      BY <2>w, <3>1, <3>2, <3>3 DEF OneCall, Persisting, Writing
    <3>7. QED BY <3>4, <3>5, <3>6
  <2>4. ASSUME NEW k \in Calls, MediaCall(k) PROVE MediaInv'
    BY <2>4, <2>w, MediaCallStep
  <2>5. ASSUME NEW f \in Fetches, FetchStep(f) PROVE MediaInv'
    BY <2>5, <2>w, <1>1
    DEF FetchStep, FetchDownloads, FetchOpens, FetchWrites, FetchFails, FetchEnds
  <2>6. CASE EventLoop
    BY <2>6, <2>w, <1>1 DEF EventLoop
  <2>7. CASE EventLoopSchedules
    BY <2>7, <2>w, <1>1 DEF EventLoopSchedules
  <2>8. ASSUME NEW c \in Chats,
               GroupChanges(c) \/ PictureChanges(c) \/ EntryExpires(c) \/ FileAges(c)
        PROVE  MediaInv'
    BY <2>8, <2>w, <1>1 DEF GroupChanges, PictureChanges, EntryExpires, FileAges
  <2>9. CASE Traffic
    BY <2>9, <2>w, <1>1 DEF Traffic
  <2>10. CASE Crash
    <3> SUFFICES ASSUME NEW m \in Media PROVE (MediaThere(m) /\ LastWriter(m) /\ OneCall(m))'
      BY DEF MediaInv
    <3>1. /\ \A k \in Calls : callPC'[k] = "idle" /\ callKey'[k] = None
          /\ UNCHANGED <<localPath, mediaFile, lastOpener>>
          /\ "crash" \in world
      BY <2>10 DEF Crash, mediaVars
    <3>2. None # m
      BY NoneAssumption
    <3>3. MediaThere(m) /\ LastWriter(m) /\ OneCall(m)
      BY DEF MediaInv
    <3>4. QED
      BY <2>w, <3>1, <3>2, <3>3 DEF MediaThere, LastWriter, OneCall, Failing, Writing, Persisting
  <2>11. QED
    BY <1>w, <2>1, <2>2, <2>3, <2>4, <2>5, <2>6, <2>7, <2>8, <2>9, <2>10
    DEF CacheStep, CacheNext, CallStep
<1>3. QED BY <1>2, <1>w

(* A path in a row leads to a whole file, or to one just being written again.*)
THEOREM MediaCorrect == CacheSpec => []MediaComplete
<1>1. CacheInit => MediaInv
  <2> SUFFICES ASSUME CacheInit, NEW m \in Media
               PROVE  MediaThere(m) /\ LastWriter(m) /\ OneCall(m)
    BY DEF MediaInv
  <2>1. None # m
    BY NoneAssumption
  <2>2. QED
    BY <2>1 DEF CacheInit, MediaThere, LastWriter, OneCall, Writing, Persisting
<1>2. CacheSpec => []MediaInv
  BY <1>1, MediaInvStep, CacheInvCorrect, PTL DEF CacheSpec, CacheStep
<1>3. CacheInv /\ MediaInv => MediaComplete
  <2> SUFFICES ASSUME CacheInv, MediaInv, ~("slow" \in world /\ Failing), NEW m \in localPath
               PROVE  mediaFile[m] = "complete" \/ \E k \in MediaCalls(m) : callPC[k] = "write"
    BY DEF MediaComplete, Failing
  <2>1. m \in Media /\ mediaFile[m] \in {"none", "partial", "complete"}
    BY DEF CacheInv, CacheTypeOK
  <2>2. MediaThere(m) /\ LastWriter(m) /\ OneCall(m)
    BY <2>1 DEF MediaInv
  <2>3. QED BY <2>1, <2>2 DEF MediaThere, LastWriter, OneCall, Writing, MediaCalls
<1>4. QED BY <1>2, <1>3, CacheInvCorrect, PTL

-----------------------------------------------------------------------------
(* Outdated entries and pictures.                                            *)

(* What is announced stays announced while the event loop takes nothing. *)
LEMMA EnqueueAnnounces ==
    ASSUME events \in Seq(Events), NEW e \in Events, Enqueue(e),
           NEW kind \in {"GroupInfo", "Picture"}, NEW c \in Chats
    PROVE  /\ Announced(kind, c) => Announced(kind, c)'
           /\ Len(events) < EventsCap /\ e = [kind |-> kind, chat |-> c] => Announced(kind, c)'
<1>1. CASE Len(events) < EventsCap
  <2>1. events' = Append(events, e)
    BY <1>1 DEF Enqueue
  <2>2. /\ Len(events') = Len(events) + 1 /\ events'[Len(events) + 1] = e
        /\ \A i \in 1..Len(events) : events'[i] = events[i]
    BY <2>1
  <2>3. Announced(kind, c) => Announced(kind, c)'
    BY <2>2 DEF Announced
  <2>4. e = [kind |-> kind, chat |-> c] => Announced(kind, c)'
    BY <2>2 DEF Announced
  <2>5. QED BY <2>3, <2>4
<1>2. CASE ~(Len(events) < EventsCap)
  BY <1>2 DEF Enqueue, Announced
<1>3. QED BY <1>1, <1>2

(* The event loop takes at most the announcement it acts on. *)
LEMMA TailAnnounces ==
    ASSUME events \in Seq(Events), events # <<>>, events' = Tail(events),
           NEW kind \in {"GroupInfo", "Picture"}, NEW c \in Chats,
           Head(events) # [kind |-> kind, chat |-> c], Announced(kind, c)
    PROVE  Announced(kind, c)'
<1>1. PICK i \in 1..Len(events) : events[i] = [kind |-> kind, chat |-> c]
  BY DEF Announced
<1>2. i # 1
  BY <1>1
<1>3. i - 1 \in 1..Len(events') /\ events'[i - 1] = events[i]
  BY <1>2
<1>4. QED BY <1>1, <1>3 DEF Announced

(* Groups: what a step must leave alone, for a settled entry to stay so. *)
GroupKept(c) == groupInfo'[c] = groupInfo[c] /\ entry'[c] \in {entry[c], NoEntry}

GroupCause(c) ==
    \/ groupInfo'[c] # groupInfo[c] /\ Len(events) = EventsCap
    \/ \E k \in Calls : callPC[k] = "store" /\ callKey[k] = c /\ callInfo[k] # groupInfo[c]

LEMMA GroupStays ==
    ASSUME NEW c \in Chats, GroupSettled(c), GroupKept(c),
           Announced("GroupInfo", c) => Announced("GroupInfo", c)'
    PROVE  GroupSettled(c)'
BY DEF GroupSettled, GroupKept

LEMMA GroupOutdated ==
    ASSUME CacheInv, CacheStep, NEW c \in Chats, GroupSettled(c)
    PROVE  GroupSettled(c)' \/ GroupCause(c)
<1> USE DEF CacheInv, CacheTypeOK, KeysInv
<1>1. ASSUME UNCHANGED <<groupInfo, entry, events>> PROVE GroupSettled(c)'
  BY <1>1 DEF GroupSettled, Announced
<1>2. ASSUME NEW k \in Calls, GroupInfoStored(k) PROVE GroupSettled(c)' \/ GroupCause(c)
  <2>1. /\ callPC[k] = "store" /\ entry' = [entry EXCEPT ![callKey[k]] = callInfo[k]]
        /\ UNCHANGED <<groupInfo, events>>
    BY <1>2 DEF GroupInfoStored, loopVars
  <2>2. CASE callKey[k] = c /\ callInfo[k] # groupInfo[c]
    BY <2>1, <2>2 DEF GroupCause
  <2>3. CASE callKey[k] = c /\ callInfo[k] = groupInfo[c]
    BY <2>1, <2>3 DEF GroupSettled
  <2>4. CASE callKey[k] # c
    BY <2>1, <2>4 DEF GroupSettled, Announced
  <2>5. QED BY <2>2, <2>3, <2>4
<1>3. ASSUME NEW d \in Chats, GroupChanges(d) PROVE GroupSettled(c)' \/ GroupCause(c)
  <2>1. [kind |-> "GroupInfo", chat |-> d] \in Events
    BY DEF Events
  <2>2. /\ Enqueue([kind |-> "GroupInfo", chat |-> d])
        /\ groupInfo' = [groupInfo EXCEPT ![d] = @ + 1] /\ entry' = entry
    BY <1>3 DEF GroupChanges
  <2>3. CASE d # c
    BY <2>1, <2>2, <2>3, EnqueueAnnounces, GroupStays DEF GroupKept
  <2>4. CASE d = c /\ Len(events) < EventsCap
    BY <2>1, <2>2, <2>4, EnqueueAnnounces DEF GroupSettled
  <2>5. CASE d = c /\ ~(Len(events) < EventsCap)
    <3>1. groupInfo[c] \in Nat /\ groupInfo'[c] = groupInfo[c] + 1
      BY <2>2, <2>5, BoundsAssumption DEF Versions
    <3>2. Len(events) = EventsCap
      BY <2>5, BoundsAssumption
    <3>3. QED BY <3>1, <3>2 DEF GroupCause
  <2>6. QED BY <2>3, <2>4, <2>5
<1>4. ASSUME EventLoop PROVE GroupSettled(c)'
  <2> DEFINE e == Head(events)
  <2>1. events # <<>> /\ events' = Tail(events) /\ groupInfo' = groupInfo /\ e \in Events
    BY <1>4 DEF EventLoop
  <2>2. CASE e = [kind |-> "GroupInfo", chat |-> c]
    <3>1. entry' = [entry EXCEPT ![e.chat] = NoEntry]
      BY <1>4, <2>2 DEF EventLoop
    <3>2. QED BY <2>2, <3>1 DEF GroupSettled
  <2>3. CASE e # [kind |-> "GroupInfo", chat |-> c]
    <3>1. Announced("GroupInfo", c) => Announced("GroupInfo", c)'
      BY <2>1, <2>3, TailAnnounces
    <3>2. entry'[c] \in {entry[c], NoEntry}
      <4>1. CASE e.kind = "GroupInfo"
        <5>1. entry' = [entry EXCEPT ![e.chat] = NoEntry]
          BY <1>4, <4>1 DEF EventLoop
        <5>2. QED BY <5>1
      <4>2. CASE e.kind = "Picture"
        BY <1>4, <4>2 DEF EventLoop
      <4>3. CASE e.kind # "GroupInfo" /\ e.kind # "Picture"
        BY <1>4, <4>3 DEF EventLoop
      <4>4. QED BY <4>1, <4>2, <4>3
    <3>3. QED BY <2>1, <3>1, <3>2, GroupStays DEF GroupKept
  <2>4. QED BY <2>2, <2>3
<1>5. ASSUME NEW d \in Chats, PictureChanges(d) PROVE GroupSettled(c)'
  <2>1. [kind |-> "Picture", chat |-> d] \in Events
    BY DEF Events
  <2>2. Enqueue([kind |-> "Picture", chat |-> d]) /\ UNCHANGED <<groupInfo, entry>>
    BY <1>5 DEF PictureChanges, groupVars
  <2>3. QED BY <2>1, <2>2, EnqueueAnnounces, GroupStays DEF GroupKept
<1>6. ASSUME Traffic PROVE GroupSettled(c)'
  <2>1. [kind |-> "Other", chat |-> None] \in Events
    BY DEF Events
  <2>2. Enqueue([kind |-> "Other", chat |-> None]) /\ UNCHANGED <<groupInfo, entry>>
    BY <1>6 DEF Traffic, groupVars
  <2>3. QED BY <2>1, <2>2, EnqueueAnnounces, GroupStays DEF GroupKept
<1>7. ASSUME Crash PROVE GroupSettled(c)'
  BY <1>7 DEF Crash, GroupSettled
<1> USE DEF groupVars, loopVars
<1>8. ASSUME NEW k \in Calls, NEW d \in Chats, LoadGroupInfo(k, d) \/ GetProfilePicture(k, d)
      PROVE  GroupSettled(c)'
  BY <1>1, <1>8 DEF LoadGroupInfo, GetProfilePicture
<1>9. ASSUME NEW k \in Calls, NEW m \in Media, DownloadMedia(k, m) PROVE GroupSettled(c)'
  BY <1>1, <1>9 DEF DownloadMedia
<1>10. ASSUME NEW k \in Calls, CallStep(k) PROVE GroupSettled(c)' \/ GroupCause(c)
  BY <1>1, <1>2, <1>10
  DEF CallStep, GroupCall, GroupInfoAnswered, GroupInfoFails, ProfilePictureScheduled, MediaCall,
      MediaFetched, MediaOpens, MediaWrites, MediaPersists, MediaFails
<1>11. ASSUME NEW f \in Fetches, FetchStep(f) PROVE GroupSettled(c)'
  BY <1>1, <1>11 DEF FetchStep, FetchDownloads, FetchOpens, FetchWrites, FetchFails, FetchEnds
<1>12. ASSUME EventLoopSchedules PROVE GroupSettled(c)'
  BY <1>1, <1>12 DEF EventLoopSchedules
<1>13. ASSUME NEW d \in Chats, EntryExpires(d) \/ FileAges(d) PROVE GroupSettled(c)'
  BY <1>1, <1>13 DEF EntryExpires, FileAges
<1>14. QED
  BY <1>3, <1>4, <1>5, <1>6, <1>7, <1>8, <1>9, <1>10, <1>11, <1>12, <1>13 DEF CacheStep, CacheNext

(* An entry is outdated for want of an event that was dropped, or because an *)
(* answer was overtaken.                                                     *)
THEOREM GroupOutdatedCorrect == CacheSpec => GroupOutdatedOnlyIfLost
<1>1. ASSUME CacheInv, [CacheStep]_<<cacheVars, world>>
      PROVE  [\A c \in Chats : GroupSettled(c) /\ ~GroupSettled(c)' => GroupCause(c)]_cacheVars
  BY <1>1, GroupOutdated
<1>2. QED
  BY <1>1, CacheInvCorrect, PTL DEF CacheSpec, CacheStep, GroupOutdatedOnlyIfLost, GroupCause

(* Pictures: a goroutine that opens its file has not lost it yet. *)
DetachedInv == \A f \in detached : fetchPC[f] \in {"write", "done"}

LEMMA DetachedInvStep ==
    ASSUME CacheInv, DetachedInv, [CacheStep]_<<cacheVars, world>>
    PROVE  DetachedInv'
<1> USE DEF DetachedInv, fetchVars, CacheInv, CacheTypeOK
<1>1. ASSUME UNCHANGED <<fetchPC, detached>> PROVE DetachedInv'
  BY <1>1
<1>2. ASSUME NEW c \in Chats, scheduleAvatarFetch(c) PROVE DetachedInv'
  BY <1>2 DEF scheduleAvatarFetch
<1>3. CASE UNCHANGED <<cacheVars, world>>
  BY <1>1, <1>3 DEF cacheVars
<1>w. CASE CacheStep
  <2>1. ASSUME NEW k \in Calls, NEW c \in Chats, LoadGroupInfo(k, c) \/ GetProfilePicture(k, c)
        PROVE  DetachedInv'
    BY <1>1, <2>1 DEF LoadGroupInfo, GetProfilePicture
  <2>2. ASSUME NEW k \in Calls, NEW m \in Media, DownloadMedia(k, m) PROVE DetachedInv'
    BY <1>1, <2>2 DEF DownloadMedia
  <2>3. ASSUME NEW k \in Calls, GroupCall(k) \/ MediaCall(k) PROVE DetachedInv'
    BY <1>1, <2>3
    DEF GroupCall, GroupInfoAnswered, GroupInfoFails, GroupInfoStored, MediaCall, MediaFetched,
        MediaOpens, MediaWrites, MediaPersists, MediaFails
  <2>4. ASSUME NEW k \in Calls, ProfilePictureScheduled(k) PROVE DetachedInv'
    BY <1>2, <2>4 DEF ProfilePictureScheduled, KeysInv
  <2>5. ASSUME NEW f \in Fetches, FetchStep(f) PROVE DetachedInv'
    BY <2>5
    DEF FetchStep, FetchDownloads, FetchOpens, FetchWrites, FetchFails, FetchEnds, FetchGoto
  <2>6. CASE EventLoop
    <3>1. fetchPC' = fetchPC
      BY <2>6 DEF EventLoop
    <3>2. \/ detached' = detached
          \/ detached' = detached \cup
                {f \in Fetches : fetchChat[f] = Head(events).chat /\ fetchPC[f] = "write"}
      BY <2>6 DEF EventLoop
    <3>3. QED BY <3>1, <3>2
  <2>7. CASE EventLoopSchedules
    BY <1>2, <2>7 DEF EventLoopSchedules
  <2>8. ASSUME NEW c \in Chats,
               GroupChanges(c) \/ PictureChanges(c) \/ EntryExpires(c) \/ FileAges(c)
        PROVE  DetachedInv'
    BY <1>1, <2>8 DEF GroupChanges, PictureChanges, EntryExpires, FileAges
  <2>9. CASE Traffic
    BY <1>1, <2>9 DEF Traffic
  <2>10. CASE Crash
    BY <2>10 DEF Crash
  <2>11. QED
    BY <1>w, <2>1, <2>2, <2>3, <2>4, <2>5, <2>6, <2>7, <2>8, <2>9, <2>10
    DEF CacheStep, CacheNext, CallStep
<1>4. QED BY <1>3, <1>w

HasWriter(c) == \E f \in Fetches : Writes(f, c) /\ f \notin detached

AvatarCause(c) ==
    \/ picture'[c] # picture[c] /\ Len(events) = EventsCap
    \/ crashed' # crashed
    \/ \E f \in Fetches :
          /\ Writes(f, c) /\ f \notin detached
          /\ fetchPicture[f] # picture[c] \/ "fail" \in world

LEMMA AvatarStays ==
    ASSUME NEW c \in Chats, AvatarSettled(c),
           avatarFile'[c] = avatarFile[c], picture'[c] = picture[c],
           Announced("Picture", c) => Announced("Picture", c)',
           HasWriter(c) => HasWriter(c)'
    PROVE  AvatarSettled(c)'
BY DEF AvatarSettled, HasWriter, Partial

(* Goroutines that are not at their write leave those alone that are. *)
LEMMA WritersStay ==
    ASSUME NEW c \in Chats, NEW f \in Fetches, ~(Writes(f, c) /\ f \notin detached),
           \A g \in Fetches \ {f} : fetchPC'[g] = fetchPC[g] /\ fetchChat'[g] = fetchChat[g],
           detached' \subseteq detached
    PROVE  HasWriter(c) => HasWriter(c)'
BY DEF HasWriter, Writes

LEMMA ScheduleKeepsWriters ==
    ASSUME CacheInv, NEW c \in Chats, NEW d \in Chats, scheduleAvatarFetch(d)
    PROVE  HasWriter(c) => HasWriter(c)'
<1>1. CASE d \in avatarDownloads
  BY <1>1 DEF scheduleAvatarFetch, fetchVars, HasWriter, Writes
<1>2. CASE d \notin avatarDownloads
  <2>1. PICK f \in Fetches :
           /\ fetchPC[f] = "idle"
           /\ fetchPC' = [fetchPC EXCEPT ![f] = "info"]
           /\ fetchChat' = [fetchChat EXCEPT ![f] = d]
           /\ detached' = detached
    BY <1>2 DEF scheduleAvatarFetch
  <2>2. \A g \in Fetches \ {f} : fetchPC'[g] = fetchPC[g] /\ fetchChat'[g] = fetchChat[g]
    BY <2>1 DEF CacheInv, CacheTypeOK
  <2>3. QED BY <2>1, <2>2, WritersStay DEF Writes
<1>3. QED BY <1>1, <1>2

LEMMA AvatarFetched ==
    ASSUME CacheInv, DetachedInv, NEW c \in Chats, AvatarSettled(c), NEW f \in Fetches, FetchStep(f)
    PROVE  AvatarSettled(c)' \/ AvatarCause(c)
<1> USE DEF CacheInv, CacheTypeOK, KeysInv
<1>1. /\ \A g \in Fetches \ {f} : fetchPC'[g] = fetchPC[g] /\ fetchChat'[g] = fetchChat[g]
      /\ detached' \subseteq detached
      /\ picture' = picture /\ events' = events
  BY DEF FetchStep, FetchDownloads, FetchOpens, FetchWrites, FetchFails, FetchEnds, FetchGoto,
         avatarVars, loopVars
<1>2. Announced("Picture", c) => Announced("Picture", c)'
  BY <1>1 DEF Announced
<1>3. ASSUME avatarFile'[c] = avatarFile[c], ~(Writes(f, c) /\ f \notin detached)
      PROVE  AvatarSettled(c)'
  BY <1>1, <1>2, <1>3, WritersStay, AvatarStays
<1>4. CASE FetchDownloads(f) \/ FetchEnds(f)
  BY <1>3, <1>4 DEF FetchDownloads, FetchEnds, avatarVars, Writes
<1>5. CASE FetchOpens(f)
  <2>1. /\ fetchPC[f] = "open" /\ fetchPC'[f] = "write" /\ fetchChat' = fetchChat
        /\ avatarFile' = [avatarFile EXCEPT ![fetchChat[f]] = Partial]
        /\ detached' = detached
    BY <1>5 DEF FetchOpens, FetchGoto
  <2>2. CASE fetchChat[f] = c
    <3>1. f \notin detached
      BY <2>1 DEF DetachedInv
    <3>2. avatarFile'[c] = Partial /\ Partial' = Partial
      BY <2>1, <2>2 DEF Partial
    <3>3. Writes(f, c)' /\ f \notin detached'
      BY <2>1, <2>2, <3>1 DEF Writes
    <3>4. QED BY <3>2, <3>3 DEF AvatarSettled
  <2>3. CASE fetchChat[f] # c
    <3>1. avatarFile'[c] = avatarFile[c]
      BY <2>1, <2>3
    <3>2. QED BY <1>3, <2>1, <3>1 DEF Writes
  <2>4. QED BY <2>2, <2>3
<1>6. CASE FetchWrites(f)
  <2>1. fetchPC[f] = "write"
    BY <1>6 DEF FetchWrites
  <2>2. CASE f \in detached
    <3>1. avatarFile' = avatarFile
      BY <1>6, <2>2 DEF FetchWrites
    <3>2. QED BY <1>3, <2>2, <3>1
  <2>3. CASE f \notin detached
    <3>1. avatarFile' = [avatarFile EXCEPT ![fetchChat[f]] = fetchPicture[f]]
      BY <1>6, <2>3 DEF FetchWrites
    <3>2. CASE fetchChat[f] = c /\ fetchPicture[f] = picture[c]
      BY <1>1, <3>1, <3>2 DEF AvatarSettled
    <3>3. CASE fetchChat[f] = c /\ fetchPicture[f] # picture[c]
      BY <2>1, <2>3, <3>3 DEF AvatarCause, Writes
    <3>4. CASE fetchChat[f] # c
      <4>1. avatarFile'[c] = avatarFile[c]
        BY <3>1, <3>4
      <4>2. QED BY <1>3, <3>4, <4>1 DEF Writes
    <3>5. QED BY <3>2, <3>3, <3>4
  <2>4. QED BY <2>2, <2>3
<1>7. CASE FetchFails(f)
  <2>1. avatarFile' = avatarFile
    BY <1>7 DEF FetchFails, avatarVars
  <2>2. CASE Writes(f, c) /\ f \notin detached
    <3>1. "fail" \in world
      BY <1>7, <2>2 DEF FetchFails, Writes
    <3>2. QED BY <2>2, <3>1 DEF AvatarCause
  <2>3. CASE ~(Writes(f, c) /\ f \notin detached)
    BY <1>3, <2>1, <2>3
  <2>4. QED BY <2>2, <2>3
<1>8. QED BY <1>4, <1>5, <1>6, <1>7 DEF FetchStep

LEMMA AvatarOutdated ==
    ASSUME CacheInv, DetachedInv, CacheStep, NEW c \in Chats, AvatarSettled(c)
    PROVE  AvatarSettled(c)' \/ AvatarCause(c)
<1> USE DEF CacheInv, CacheTypeOK, KeysInv
<1>1. ASSUME UNCHANGED <<picture, avatarFile, fetchPC, fetchChat, detached>>,
             Announced("Picture", c) => Announced("Picture", c)'
      PROVE  AvatarSettled(c)'
  <2>1. HasWriter(c) => HasWriter(c)'
    BY <1>1 DEF HasWriter, Writes
  <2>2. QED BY <1>1, <2>1, AvatarStays
<1>2. ASSUME UNCHANGED <<picture, avatarFile, fetchPC, fetchChat, detached, events>>
      PROVE  AvatarSettled(c)'
  BY <1>1, <1>2 DEF Announced
<1>3. ASSUME NEW d \in Chats, scheduleAvatarFetch(d), UNCHANGED <<picture, avatarFile, events>>
      PROVE  AvatarSettled(c)'
  <2>1. HasWriter(c) => HasWriter(c)'
    BY <1>3, ScheduleKeepsWriters
  <2>2. QED BY <1>3, <2>1, AvatarStays DEF Announced
<1>4. ASSUME NEW d \in Chats, PictureChanges(d) PROVE AvatarSettled(c)' \/ AvatarCause(c)
  <2>1. [kind |-> "Picture", chat |-> d] \in Events
    BY DEF Events
  <2>2. /\ Enqueue([kind |-> "Picture", chat |-> d])
        /\ picture[d] # NoPicture
        /\ \E p \in {picture[d] + 1, NoPicture} : picture' = [picture EXCEPT ![d] = p]
        /\ UNCHANGED <<avatarFile, fetchPC, fetchChat, detached>>
    BY <1>4 DEF PictureChanges, fetchVars
  <2>3. CASE d # c
    <3>1. picture'[c] = picture[c]
      BY <2>2, <2>3
    <3>2. HasWriter(c) => HasWriter(c)'
      BY <2>2 DEF HasWriter, Writes
    <3>3. Announced("Picture", c) => Announced("Picture", c)'
      BY <2>1, <2>2, EnqueueAnnounces
    <3>4. QED BY <2>2, <3>1, <3>2, <3>3, AvatarStays
  <2>4. CASE d = c /\ Len(events) < EventsCap
    BY <2>1, <2>2, <2>4, EnqueueAnnounces DEF AvatarSettled
  <2>5. CASE d = c /\ ~(Len(events) < EventsCap)
    <3>1. picture'[c] # picture[c]
      BY <2>2, <2>5, BoundsAssumption DEF Versions, NoPicture
    <3>2. Len(events) = EventsCap
      BY <2>5, BoundsAssumption
    <3>3. QED BY <3>1, <3>2 DEF AvatarCause
  <2>6. QED BY <2>3, <2>4, <2>5
<1>5. ASSUME EventLoop PROVE AvatarSettled(c)'
  <2> DEFINE e == Head(events)
  <2>1. /\ events # <<>> /\ events' = Tail(events) /\ e \in Events
        /\ UNCHANGED <<picture, fetchPC, fetchChat>>
    BY <1>5 DEF EventLoop
  <2>2. CASE e = [kind |-> "Picture", chat |-> c]
    <3>1. avatarFile' = [avatarFile EXCEPT ![e.chat] = NoFile]
      BY <1>5, <2>2 DEF EventLoop
    <3>2. QED BY <2>2, <3>1 DEF AvatarSettled
  <2>3. CASE e # [kind |-> "Picture", chat |-> c]
    <3>1. Announced("Picture", c) => Announced("Picture", c)'
      BY <2>1, <2>3, TailAnnounces
    <3>2. CASE e.kind = "Picture"
      <4>1. /\ avatarFile' = [avatarFile EXCEPT ![e.chat] = NoFile]
            /\ detached' = detached \cup
                  {f \in Fetches : fetchChat[f] = e.chat /\ fetchPC[f] = "write"}
        BY <1>5, <3>2 DEF EventLoop
      <4>2. e.chat # c
        BY <2>1, <2>3, <3>2 DEF Events
      <4>3. avatarFile'[c] = avatarFile[c]
        BY <4>1, <4>2
      <4>4. HasWriter(c) => HasWriter(c)'
        BY <2>1, <4>1, <4>2 DEF HasWriter, Writes
      <4>5. QED BY <2>1, <3>1, <4>3, <4>4, AvatarStays
    <3>3. CASE e.kind # "Picture"
      <4>1. UNCHANGED <<avatarFile, detached>>
        BY <1>5, <3>3 DEF EventLoop
      <4>2. QED BY <1>1, <2>1, <3>1, <4>1
    <3>4. QED BY <3>2, <3>3
  <2>4. QED BY <2>2, <2>3
<1>6. ASSUME Crash PROVE AvatarCause(c)
  BY <1>6 DEF Crash, AvatarCause
<1>7. ASSUME NEW d \in Chats, GroupChanges(d) PROVE AvatarSettled(c)'
  <2>1. [kind |-> "GroupInfo", chat |-> d] \in Events
    BY DEF Events
  <2>2. /\ Enqueue([kind |-> "GroupInfo", chat |-> d])
        /\ UNCHANGED <<picture, avatarFile, fetchPC, fetchChat, detached>>
    BY <1>7 DEF GroupChanges, avatarVars, fetchVars
  <2>3. QED BY <1>1, <2>1, <2>2, EnqueueAnnounces
<1>8. ASSUME Traffic PROVE AvatarSettled(c)'
  <2>1. [kind |-> "Other", chat |-> None] \in Events
    BY DEF Events
  <2>2. /\ Enqueue([kind |-> "Other", chat |-> None])
        /\ UNCHANGED <<picture, avatarFile, fetchPC, fetchChat, detached>>
    BY <1>8 DEF Traffic, avatarVars, fetchVars
  <2>3. QED BY <1>1, <2>1, <2>2, EnqueueAnnounces
<1> USE DEF avatarVars, fetchVars, loopVars
<1>9. ASSUME NEW k \in Calls, NEW d \in Chats, LoadGroupInfo(k, d) \/ GetProfilePicture(k, d)
      PROVE  AvatarSettled(c)'
  BY <1>2, <1>9 DEF LoadGroupInfo, GetProfilePicture
<1>10. ASSUME NEW k \in Calls, NEW m \in Media, DownloadMedia(k, m) PROVE AvatarSettled(c)'
  BY <1>2, <1>10 DEF DownloadMedia
<1>11. ASSUME NEW k \in Calls, GroupCall(k) \/ MediaCall(k) PROVE AvatarSettled(c)'
  BY <1>2, <1>11
  DEF GroupCall, GroupInfoAnswered, GroupInfoFails, GroupInfoStored, MediaCall, MediaFetched,
      MediaOpens, MediaWrites, MediaPersists, MediaFails
<1>12. ASSUME NEW k \in Calls, ProfilePictureScheduled(k) PROVE AvatarSettled(c)'
  BY <1>3, <1>12 DEF ProfilePictureScheduled
<1>13. ASSUME EventLoopSchedules PROVE AvatarSettled(c)'
  BY <1>3, <1>13 DEF EventLoopSchedules
<1>14. ASSUME NEW d \in Chats, EntryExpires(d) \/ FileAges(d) PROVE AvatarSettled(c)'
  BY <1>2, <1>14 DEF EntryExpires, FileAges
<1>15. ASSUME NEW f \in Fetches, FetchStep(f) PROVE AvatarSettled(c)' \/ AvatarCause(c)
  BY <1>15, AvatarFetched
<1>16. QED
  BY <1>4, <1>5, <1>6, <1>7, <1>8, <1>9, <1>10, <1>11, <1>12, <1>13, <1>14, <1>15
  DEF CacheStep, CacheNext, CallStep

(* A picture is wrong for want of an event that was dropped or forgotten, or *)
(* because of a download that was overtaken or a write that was cut short.   *)
THEOREM AvatarOutdatedCorrect == CacheSpec => AvatarOutdatedOnlyIfLost
<1>1. CacheInit => DetachedInv
  BY DEF CacheInit, DetachedInv
<1>2. ASSUME CacheInv, DetachedInv, [CacheStep]_<<cacheVars, world>>
      PROVE  [\A c \in Chats : AvatarSettled(c) /\ ~AvatarSettled(c)' => AvatarCause(c)]_cacheVars
  BY <1>2, AvatarOutdated
<1>3. CacheSpec => []DetachedInv
  BY <1>1, DetachedInvStep, CacheInvCorrect, PTL DEF CacheSpec, CacheStep
<1>4. QED
  BY <1>2, <1>3, CacheInvCorrect, PTL
  DEF CacheSpec, CacheStep, AvatarOutdatedOnlyIfLost, AvatarCause

=============================================================================

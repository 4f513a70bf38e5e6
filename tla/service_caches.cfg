SPECIFICATION MCSpec
CONSTANTS
    Chats = {chat}
    Media = {msg}
    Calls = {k1, k2}
    Fetches = {f1, f2}
    MaxVersion = 2
    EventsCap = 1
    MaxNodes = 4
    None = None
    Worlds = {{"group", "traffic", "fail", "crash"}, {"avatar", "traffic", "fail", "crash"},
              {"media", "slow"}, {"media", "fail", "crash"}, {}}
INVARIANTS CacheTypeOK OneFetchPerChat MediaComplete PreviewIsFirst
PROPERTIES GroupOutdatedOnlyIfLost AvatarOutdatedOnlyIfLost GroupInfoConverges AvatarConverges
CHECK_DEADLOCK FALSE

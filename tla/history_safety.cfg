SPECIFICATION HistorySpec
CONSTANTS
    o = o  t = t
    chatA = chatA  chatB = chatB
    Msgs = {o, t}
    Own = {o}
    FromMe = {o}
    Chats = {chatA}
    ChatOf <- MCChatOf
    StampOf <- MCStampOf
    Content <- MCContent
    EventsCap = 1
    BusCap = 1
    NoMsg = NoMsg
    NoChat = NoChat
    World = {"redeliver", "receipts", "disorder", "disk", "slow", "crash", "send"}
INVARIANTS HistoryTypeOK ReceiptsEarned
PROPERTIES RowsOnlyGrow UnstoredOnlyIfLost ImplementsMessageLog OverlookedOnlyIfLost BehindOnlyIfLost
CHECK_DEADLOCK FALSE

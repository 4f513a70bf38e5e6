SPECIFICATION HistorySpec
CONSTANTS
    o = o  t = t
    chatA = chatA  chatB = chatB
    Msgs = {o}
    Own = {o}
    FromMe = {o}
    Chats = {chatA, chatB}
    ChatOf <- MCChatOf
    StampOf <- MCStampOf
    Content <- MCContent
    EventsCap = 1
    BusCap = 1
    NoMsg = NoMsg
    NoChat = NoChat
    World = {"receipts", "send"}
INVARIANT HighestKnownStored
CHECK_DEADLOCK FALSE

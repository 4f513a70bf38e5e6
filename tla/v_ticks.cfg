SPECIFICATION HistorySpec
CONSTANTS
    o = o  t = t
    chatA = chatA  chatB = chatB
    Msgs = {o}
    Own = {o}
    FromMe = {o}
    Chats = {chatA, chatB}
    ChatOf <- MCChatOf
    StampOf <- MCStampOf
    Content <- MCContent
    EventsCap = 2
    BusCap = 2
    NoMsg = NoMsg
    NoChat = NoChat
    World = {"receipts", "send"}
PROPERTY TicksNeverFall
CHECK_DEADLOCK FALSE

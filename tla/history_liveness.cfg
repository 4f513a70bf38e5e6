SPECIFICATION FairHistorySpec
CONSTANTS
    o = o  t = t
    chatA = chatA  chatB = chatB
    Msgs = {o, t}
    Own = {o}
    FromMe = {o}
    Chats = {chatA, chatB}
    ChatOf <- MCChatOf
    StampOf <- MCStampOf
    Content <- MCContent
    EventsCap = 4
    BusCap = 2
    NoMsg = NoMsg
    NoChat = NoChat
    World = {"receipts", "send"}
INVARIANTS OthersReceiptsKept
PROPERTIES TextAppears ReadIsShown SentAppears
CHECK_DEADLOCK FALSE

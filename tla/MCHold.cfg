SPECIFICATION FairSpec
CONSTANTS
    q1 = q1
    q2 = q2
    chat1 = chat1
    shell1 = shell1
    Asks = {q1, q2}
    Chats = {chat1}
    Shells = {shell1}
    About <- MCAbout
    Nothing = Nothing
    MaxHeld = 2
    MaxPosts = 1
INVARIANTS AnsweredOnce NothingOutlivesItsQuestion
PROPERTIES EveryRequestAnswered
CHECK_DEADLOCK FALSE

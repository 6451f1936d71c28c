SPECIFICATION CoSpec
CONSTANTS
    Subjects = {"sockets", "hooks", "poll", "event", "mutex", "tasks"}
    Programs <- MeetingPrograms
    Cos = {1, 2}
    Fds = {3, 4}
    N = 3
    Chunk = 2
    Threads = {1, 2, 3}
    Scheds = {1, 2}
    Home <- TwoHomes
    MaxItems = 3
    Second = 2
    Secs = {1, 2}
    Day = 3
    MaxTasks = 2
    MaxSpent = 3
    Ms = 7
    MaxFiles = 2
    Step = 2
    MaxWait = 5
INVARIANTS
    LocksAreRight
    Punctual
    SocketsAreRight
    
PROPERTIES
    
    AnswersAreTrue
CHECK_DEADLOCK FALSE

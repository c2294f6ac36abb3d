SPECIFICATION Spec
CONSTANTS
    Users = {1, 2, 3}
    Aggrs = {"a", "b"}
    user_lst <- MCUserLst
    aggr_lst <- MCAggrLst
    InitHolds <- MCInitHolds
    Hfs = {95, 105}
    InitHf <- MCInitHf
    Batch = 1
    MaxFailures = 2
    MaxSignals = 1
    MaxMessages = 1
    Num = 20
    Intervals = 10
    FirstMinute = 50
    MaxMinutes = 1
    MaxSize = 24
CHECK_DEADLOCK FALSE
INVARIANT HfFollowsLogs

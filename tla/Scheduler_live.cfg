SPECIFICATION LiveSpec
CONSTANTS
    Users = {1, 2, 3}
    Aggrs = {"a", "b"}
    user_lst <- MCUserLst
    aggr_lst <- MCAggrLst
    InitHolds <- MCInitHolds
    Hfs = {95, 105}
    InitHf <- MCInitHf
    Batch = 1
    MaxFailures = 2
    MaxSignals = 2
    MaxMessages = 1
    Num = 20
    Intervals = 10
    FirstMinute = 50
    MaxMinutes = 2
    MaxSize = 24
CHECK_DEADLOCK FALSE
INVARIANTS RemainingQueued NoUserTwice NearListed SampledIsReachable RefreshedIsClass
PROPERTY RemainingComputed

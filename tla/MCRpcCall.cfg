SPECIFICATION FairSpec
CHECK_DEADLOCK FALSE
PROPERTIES CallEnds WatcherEnds ActsAsRequest

\* Signals that cannot be sent, files read while they are written. Nothing moves
\* after the last save.
SPECIFICATION FairSpec
CONSTANTS
    MaxVersion = 3
    Nothing = Nothing
PROPERTY ScheduledIsDone
CHECK_DEADLOCK FALSE

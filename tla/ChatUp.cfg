\* Three messages, two lines; every channel holds one line, and the ring two mentions.
CONSTANTS
    MaxId = 3
    MaxLine = 2
    QueueCap = 1
    DisplayCap = 1
    RingCap = 2
SPECIFICATION FairSpec
\* Ids and lines run out, and an error ends the session.
CHECK_DEADLOCK FALSE
INVARIANTS  ContextTold WokenByPeople 
PROPERTIES LinesTaken

SPECIFICATION Spec
CONSTANTS
    tea = tea
    cake = cake
    noNote = noNote
    hot = hot
    None = None
    Dishes = {tea, cake}
    Notes = {noNote, hot}
    NoNote = noNote
    MaxUnits = 2
    MaxOrders = 2
    MaxTrouble = 1
PROPERTIES SentOnce
CHECK_DEADLOCK FALSE

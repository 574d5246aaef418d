SPECIFICATION Spec
CONSTANTS
    ann = ann
    ben = ben
    None = None
    Users = {ann, ben}
    Owner = ann
    Channels0 = {general, random}
    NewChannels = {}
    Opened = {general, random}
    Limit = 2
    MaxMsgs = 2
    MaxOut = 1
INVARIANT HistoryIsLoaded
CHECK_DEADLOCK FALSE

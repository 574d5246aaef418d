SPECIFICATION Spec
CONSTANTS
    ann = ann
    ben = ben
    None = None
    Users = {ann, ben}
    Owner = ann
    Channels0 = {general, random}
    NewChannels = {dev}
    Opened = {general}
    Limit = 1
    MaxMsgs = 2
    MaxOut = 1
INVARIANTS TypeOK ShownOnce OwnerStays PagesCover NoGapUnlessRaced
CHECK_DEADLOCK FALSE

SPECIFICATION LinkSpec
CONSTANTS
    Window = 1
    Watchers = {2}
    Loops = {3, 4}
    MaxFaults = 2
INVARIANT OneLoop
PROPERTY AlwaysBack
\* Nothing more need happen once the fault bound is used up and nobody is stale.
CHECK_DEADLOCK FALSE

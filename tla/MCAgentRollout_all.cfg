\* Two releases, any target or owed clear to begin with, a call for the agent that
\* leaves updates to the panel, two sockets, two updates under way and one failure.
CONSTANTS
    MaxVersion = 2
    Deployments <- Flags
    MaxRolls = 1
    MaxLinks = 2
    MaxInstalls = 1
    MaxSetbacks = 1
SPECIFICATION EachSpec
INVARIANT NoUninvitedVersion
PROPERTIES RolloutConverges UnpinnedTracks
CHECK_DEADLOCK FALSE

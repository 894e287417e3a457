CONSTANT Sources <- MCSources
SPECIFICATION FairSpec
INVARIANTS InBounds TypeOK LongestMatch NothingLost
PROPERTY LoopsEnd

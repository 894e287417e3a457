CONSTANT Sources <- MCSources
SPECIFICATION FairSpec
PROPERTY Returns

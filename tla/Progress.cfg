SPECIFICATION FairSpec
CONSTANT Null = Null
PROPERTY ScreensEnd CallsReturn ItemsRun LoopsEnd
CHECK_DEADLOCK FALSE

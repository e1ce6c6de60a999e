CONSTANT MaxRestarts = 2
SPECIFICATION FairSpec
INVARIANT TypeOK
INVARIANT SettingsWrittenQuietly
INVARIANT OutputOnlyConfigured
PROPERTY EventuallyPlaying
CHECK_DEADLOCK FALSE

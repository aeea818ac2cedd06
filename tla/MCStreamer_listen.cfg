SPECIFICATION Spec
CONSTANTS
  Ids = {1}
  Subs = {s1, s2}
  Freqs <- oneFreq
  NearHz = 2
  Modes = {"NFM", "WFM_STEREO"}
  StereoModes = {"WFM_STEREO"}
  DefaultMode = "NFM"
  AnyMode = AnyMode
  Frames <- strongOrWeak
  Policies <- onOff
  FeedCap = 1
  ChanCap = 1
  RecGrace = 0
  ListenGrace = 0
  DiskFails = TRUE
  NoSession = NoSession
  NotPending = NotPending
INVARIANT TypeOK
INVARIANT ChannelSafety
INVARIANT NothingRecordedWhenDisabled
INVARIANT NoLeakedListener
PROPERTY RecordingSurvivesListeners
PROPERTY OrphanedOnlyWhenFull
SYMMETRY listeners
CHECK_DEADLOCK FALSE

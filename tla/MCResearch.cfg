SPECIFICATION Spec
CONSTANTS
  ObservationLatency = 1
  Windows <- MCWindows
  Horizons <- MCWindows
  TopLevels = 2
  Prices = {1, 2, 3, 4}
  Snapshots <- MCSnapshots
  Changes <- MCChanges
  Trades <- MCTrades
  Times = {0, 1, 2, 3, 4}
  Delays = {1, 2}
  MaxEvents = 3
  DecisionTimes = {3}
  CoverageEnd = 4
  SplitDays <- MCSplit
  Symbols = {"BTC"}
  RowsPer = 2
  SequenceLength = 2
  SequenceStride = 1
  HorizonCount = 2
  GridKeys = {1, 2}
  HyperKeys = {1, 2}
  MaxEpochs = 3
  Patience = 1
  LossValues = {1, 2}
  BrierValues = {1, 2}
  DepletedBy <- MCDepletedBy
  Forecasts = {50, 100}
  EceBins = 2
  Thresholds = {30, 60}
  AggressiveCost = 3
  PassiveCost = 5
  Total = 4
  Decisions = 2
  Candidates = {50, 80}
  AcceptedFloor = 60
  AgreementFloor = 50
  Grid <- MCGrid
  Scores = {40, 90}
  Losses = {1, 2}
  ValidationRows = 2
  ParentLots = 4
  Steps = 3
  Markets <- TwoMarkets
  Seeds = 2
  Updates = 1
  RolloutEpisodes = 2
  TrainRegimes = {"normal"}
  OodRegimes = {"thin"}
  Cases <- MCCases
  Trained = {"ppo_seed_27"}
  EpisodeSeeds = {1}
  CostValues = {1, 2}
  PValues = {20, 30, 60}
  Alpha = 50
  MinBlock = 2
  MaxBlock = 3
  EpisodeCount = 5
  ParentTotal = 3
  ArrivalPrice = 10
  Deadline = 4
  QuoteScale <- MCScale
  AtomLimit = 20
  FillRecords <- MCFills
  MarkoutRecords <- MCMarkouts
  TimingRecords <- MCTimings
  Activities <- MCActivities
  MaxFills = 3
  MaxMarkouts = 2
  TailLosses = {1, 2, 4}
  Probabilities = {50, 75}
  TailSize = 3
INVARIANTS
  FeaturesSound
  LabelsSound
  FittedAsDeclared
  SelectionSound
  ReportSound
  EpisodesExact
  TrainingSound
  FallbackSound
  StressedSound
  InferenceSound
  MetricsExact
  TailSound
CHECK_DEADLOCK FALSE

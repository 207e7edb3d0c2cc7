CONSTANTS
  \* TcpReceiver: lines that are empty, fill the buffer, or exceed it more than once.
  Fds = {f1, f2}
  NoFd = NoFd
  Sizes = {0, 2, 5}
  MaxLines = 2
  MAX_BUFFER_SIZE = 2
  HandlerMayThrow = TRUE
  \* AlertManager: a cooldown of two (60 s), and a clock that goes back, too.
  ReceiverAlerts = {r1}
  COOLDOWN_PERIOD = 2
  Summaries = {{}, {"latency_warning", "rate"}, {"latency_critical", "rate", "gaps", "queue"}}
  MaxAlertTime = 4
  MaxAlertCalls = 3
  \* MetricsCollector: windows of two (1 s), two of them (60); a gauge set by two.
  window_size_ = 2
  MAX_WINDOWS = 2
  Recorders = {g1, g2}
  GaugeValues = {1, 2, 3}
  MaxClock = 5
  MaxRecords = 3
SPECIFICATION AllSpec
INVARIANTS DescriptorOwned LinesInOrder OneAlertPerCooldown MetricsAreKept
PROPERTIES StopReturns LineIsDelivered
\* A program that was terminated by an exception stops.
CHECK_DEADLOCK FALSE

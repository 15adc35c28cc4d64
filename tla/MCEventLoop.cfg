\* Three connections and short timeouts; idle and I/O timeouts are equal, as in the code.
SPECIFICATION Spec
CONSTANTS
  Slots = 3
  k_idle_timeout_ms = 3
  k_io_timeout_ms = 3
  tls_handshake_timeout_ms = 2
  repl_timeout_ms = 2
  repl_ping_period_ms = 2
  k_repl_ack_period_ms = 1
  k_repl_retry_min_ms = 1
  k_repl_retry_max_ms = 3
  SaveAfter = 3
  ChildPoll = 1
  k_max_works = 0
  Delays = {2}
  aof_enable = TRUE
  EverySec = TRUE
  FsyncPeriod = 3
  CheckPeriod = 3
  MaxTime = 5
  MaxTurns = 3
INVARIANTS TimersSound NoOversleep
PROPERTY SilenceEnds
CHECK_DEADLOCK FALSE

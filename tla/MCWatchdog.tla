----------------------------- MODULE MCWatchdog -----------------------------
\* A device of each kind, and configurations that differ in one or two settings.
EXTENDS Watchdog

HalfOfTtl == -1
MCConfig(mode, driver, ttl) == [mode |-> mode, driver |-> driver, ttl |-> ttl, loop_wait |-> 1]
MCConfigs == {MCConfig("required", "soft", 6), MCConfig("automatic", "soft", 4), MCConfig("off", "soft", 6),
              MCConfig("required", "hard", 6), MCConfig("automatic", "hard", 4)}

=============================================================================

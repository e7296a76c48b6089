CONSTANTS
  Providers = {"replicated", "daytona", "exedev", "docker", "lambda-microvms"}
  MaxAttempts = 2
  MaxVMs = 2
  MaxFaults <- Faults
  MaxJobs = 2
SPECIFICATION ClawFairSpec
CHECK_DEADLOCK FALSE
INVARIANTS OneBootstrap RunsFollowTheClaw
PROPERTIES StartupEnds TerminalSandboxGoes

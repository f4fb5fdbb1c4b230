\* Command lines of up to three words.
SPECIFICATION MainSpec
CONSTANTS
    Words = {"--small", "--hip-consts", "--hip-managed", "--hip-device",
             "--no-hip-shared-safe-static-init", "--seed", "3", "-2", "3x", "--bogus"}
    Strtoll <- MCStrtoll
    ClockSeeds = {1, 5}
    Width = 3
    MaxArgs = 3
    MaxNames = 2
INVARIANTS
    LineObeyed
    NamesFit
CHECK_DEADLOCK FALSE

\* A stream ends, and its generator with it.
CONSTANT MaxChunks = 4
SPECIFICATION LiveSpec
INVARIANTS TypeOK QuietEndIsComplete
PROPERTY DisconnectReleases
CHECK_DEADLOCK FALSE

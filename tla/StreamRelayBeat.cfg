\* A stream ends, and its generator with it.
CONSTANT MaxChunks = 3
SPECIFICATION Spec
INVARIANT EndIsComplete
CHECK_DEADLOCK FALSE

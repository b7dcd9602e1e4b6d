CONSTANTS
    Threads = {main, worker}
    Headers = {h1, h2}
    INITIAL = INITIAL
    MIXED = MIXED
SPECIFICATION Spec
INVARIANTS AloneRight Recovers

CONSTANTS
    Keys = {k1, k2}
    Values = {v1, v2}
    None = None
    Keep = Keep
    Readers = {r1, r2}
    MaxUpdates = 2

SPECIFICATION Spec

INVARIANTS
    OnlyStragglersDecohere

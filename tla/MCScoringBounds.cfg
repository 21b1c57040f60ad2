SPECIFICATION Spec
CONSTANTS
    None = None
    Payloads <- MCPayloads
    Sampled <- MCSampled
    Batches <- MCBatches
    MaxUpdates = 2
INVARIANTS
    WeightsWithinBounds

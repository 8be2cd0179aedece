SPECIFICATION Spec
CONSTANTS
    r1 = r1
    r2 = r2
    r3 = r3
    a = a
    b = b
    weather = weather
    capital = capital
    capital2 = capital2
    cheap = cheap
    premium = premium
    None = None
    Requests = {r1, r2, r3}
    Replicas = {a, b}
    Prompts = {weather, capital, capital2}
    Models = {cheap, premium}
    Workloads <- ThreeWorkloads
    Alike <- Capitals
    Bypassing = {r1}
    EmbeddingProviders <- TwoProviders
    DimensionOf <- TwoDimensions
    NoProvider = NoProvider
    Settings <- LocalSettings
    MaxRestarts = 1
INVARIANTS TypeOK Aligned HitIsRelevant SavedIsFindable

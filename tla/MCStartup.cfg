SPECIFICATION StartSpec
CONSTANTS
    EmbeddingProviders <- Embeddings
    DimensionOf <- Dimensions
    NoProvider = NoProvider
    CoreProviders <- Core
    Contributed = {"extra"}
    Template = {"openai", "anthropic", "gemini", "ollama"}
    OwnCatalogs = {{"openai"}}
    Answers <- MCAnswers
    FirstFiles <- MCFirstFiles
    Shells <- MCShells
    MaxSetups = 2
    None = None
INVARIANTS StartTypeOK SetupIsHonoured SetupServes

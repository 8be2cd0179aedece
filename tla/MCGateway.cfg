SPECIFICATION Spec
CONSTANTS
    r1 = r1
    r2 = r2
    r3 = r3
    team = team
    strict = strict
    third = third
    gpt4o = gpt4o
    gpt4omini = gpt4omini
    gemini15 = gemini15
    llama = llama
    absent = absent
    openai = openai
    gemini = gemini
    ollama = ollama
    coding = coding
    general = general
    None = None
    Providers = {openai, gemini, ollama}
    Models <- MCModels
    Capability = {coding, general}
    General = general
    QualityTasks = {coding}
    Catalog <- MCCatalog
    ProviderOf <- MCProviderOf
    CapsOf <- MCCapsOf
    Enabled <- MCModels
    Tier <- MCTier
    Price <- MCPrice
    Requests = {r1, r2, r3}
    Asks <- MCAsks
    FlagSets <- MCFlagSets
    Activations <- MCActivations
    Budgeted = {team, strict, third}
    RowSets <- MCRowSets
    Amount <- AmountFour
    SoftLimit <- SoftOne
    DowngradeTo <- Downgrades
    MaxCost = 3
    MaxSpent = 12
INVARIANTS TypeOK AnswerIsCapable ChargedAsAnswered BooksAgree ReusedOnce ListedIsServed DowngradeTakesEffect

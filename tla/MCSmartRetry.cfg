SPECIFICATION FairSpec
CONSTANTS
    openai = openai
    anthropic = anthropic
    gemini = gemini
    ollama = ollama
    vllm = vllm
    gpt4o = gpt4o
    gpt4omini = gpt4omini
    sonnet = sonnet
    flash = flash
    llama = llama
    mixtral = mixtral
    absent = absent
    coding = coding
    general = general
    Providers <- FiveProviders
    Models <- ExampleModels
    Capability = {coding, general}
    General = general
    Catalog <- ExampleCatalog
    ProviderOf <- ExampleProviderOf
    CapsOf <- ExampleCapsOf
    Enabled <- ExampleEnabled
    MaxRetries = 2
    MaxGlitches = 2
INVARIANTS RetryTypeOK OnlyTwoFallbacks FailoverSuits
PROPERTY CallEnds

SPECIFICATION Spec
CONSTANTS
    gpt = gpt
    tiny = tiny
    off = off
    down = down
    absent = absent
    NoEstimate = NoEstimate
    Conversations <- MCConversations
    Models = {gpt, tiny, off, down, absent}
    Catalog = {gpt, tiny, off, down}
    Served = {gpt, tiny, off}
    Callable = {gpt, tiny}
    Window <- MCWindow
    InputPrice <- MCInput
    OutputPrice <- MCOutput
    Apis = {"openai", "anthropic"}
    Downgrades = {off, absent}
    Counts = {30000}
INVARIANTS TypeOK ConversationKept SavingsReal EstimateCovers

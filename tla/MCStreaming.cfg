\* Two providers that are ready and one that is not, streams of up to three lines.
CONSTANTS
    Providers = {"mock", "groq", "openai"}
    Ready = {"mock", "groq"}
    Mock = "mock"
    Conversations = {"hi", "Hi"}
    Normalized <- MCNormalized
    Calls = {"r1", "r2"}
    MaxLines = 3
    MaxChunks = 2
SPECIFICATION Spec
INVARIANTS TypeOK CachedAnswersAreOwn StreamIsWhole BatchesAreBounded

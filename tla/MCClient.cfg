\* Thresholds are those of scoring_spec.yaml in hundredths.
CONSTANTS
    Processes = {"server", "tool"}
    Server = "server"
    Tool = "tool"
    Prompts = {"fix", "plan", "spec"}
    Jaccard <- MCJaccard
    Heuristic <- MCHeuristic
    Threshold = 55
    Feedback = {3}
    Asked = {"plan"}
    MaxFailures = 2
SPECIFICATION LiveSpec
INVARIANTS TypeOK OneRowPerPrompt EscalationHasCause AdviceHeedsReports FallbackHasCause
PROPERTY CallEnds

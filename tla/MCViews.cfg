SPECIFICATION Spec
CONSTANTS
    Names = {"t", "u", "v", "w", "c", "d"}
    Bases = {"t", "u"}
    Temps <- MCTemps
    Values = {1, 2}
    None = None
    Queries <- MCSelects
    Defs <- MCDefs
    Questions <- MCQuestions
    MaxNesting = 4
    Careful = TRUE
INVARIANTS AnswersFresh LeavesNoTrace

CONSTANTS
    AllOptions <- MCOptions
    AllLines <- MCLines
    MaxLines = 2
    Subjects <- MCSubjects
SPECIFICATION GenerationSpec
INVARIANTS
    GeneratesExactly
    BackendsAgree

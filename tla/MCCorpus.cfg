\* Three files, three bodies, one frontmatter id; two edits, three runs, two faults.
CONSTANTS
    Files <- MCFiles
    Bodies = {"x", "y", "z"}
    Ids <- MCIds
    Globs <- MCGlobs
    Alphabet <- MCAlphabet
    Patterns <- MCPatterns
    Texts <- MCTexts
    None = None
    MaxRetries = 1
    MaxRuns = 3
    MaxEdits = 2
    MaxFaults = 2
SPECIFICATION Spec
INVARIANTS MatcherExact TwiceMirrors
CHECK_DEADLOCK FALSE

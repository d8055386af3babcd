\* One run of vignettes() over every list of up to three channels.
CONSTANTS
    Inputs <- MCInputs
    Width = 2
    WidthP = 3
SPECIFICATION Spec
\* The script ends: after the pages are moved, or on IndexError.
CHECK_DEADLOCK FALSE
INVARIANT PagesTiled
INVARIANT EachChannelCellOrProblem

\* The same lists; is every thumbnail on the page made by this run?
CONSTANTS
    Inputs <- MCInputs
    Width = 2
    WidthP = 3
SPECIFICATION Spec
CHECK_DEADLOCK FALSE
INVARIANT FreshThumbnails

\* Kconfig files of up to three lines, with a description where ')' comes
\* before '('.
CONSTANTS
    UsbMakefile <- MCUsbMakefile
    TunerMakefile <- MCTunerMakefile
    FrontendMakefile <- MCFrontendMakefile
    Sources <- MCSources
    Kconfigs <- MCKconfigsParens
SPECIFICATION Spec
CHECK_DEADLOCK FALSE
PROPERTY GeneratorEnds

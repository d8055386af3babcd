\* Kconfig files of up to four lines.  The generator stops after the last
\* line (or an exception): those states have no successor.
CONSTANTS
    UsbMakefile <- MCUsbMakefile
    TunerMakefile <- MCTunerMakefile
    FrontendMakefile <- MCFrontendMakefile
    Sources <- MCSources
    Kconfigs <- MCKconfigs
SPECIFICATION Spec
CHECK_DEADLOCK FALSE
INVARIANT EachDeviceOfferedOnce
INVARIANT DealtConfigMatchesBlock

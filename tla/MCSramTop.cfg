SPECIFICATION HandshakeSpec
CONSTANTS
    RamWords = 16
    LoaderLast = 12
    Image <- MCImage
    SwitchValues = {0, 3}
    FloatingWords = {0, 32768}
    DontCareWords <- MCDontCareWords
INVARIANTS TypeOK ReadsSettled OneRamMaster ImageReady
PROPERTIES ImplementsISA InstructionsTakeEffect InstructionsEnd LoadingEnds PausesEnd OnePausePerPress

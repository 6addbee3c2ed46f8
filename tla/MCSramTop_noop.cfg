SPECIFICATION HandshakeSpec
CONSTANTS
    RamWords = 4
    LoaderLast = 3
    Image <- MCNoOpImage
    SwitchValues = {0}
    FloatingWords = {0, 1, 32768}
    DontCareWords = {0}
PROPERTY NoOpChangesNothing

SPECIFICATION Spec
CONSTANTS
    size = 32
    Contents <- MCContents
    SwitchValues = {0, 3}
    FloatingWords <- MCFloatingWords
    Unknown = {0, 65535}
INVARIANT KnownReads
PROPERTIES TestImplementsISA TestInstructionsTakeEffect

SPECIFICATION ProgramSpec
CONSTANTS
    RamWords = 256
    LoaderLast = 174
    Image <- MCImage
    SwitchValues = {0, 2, 3, 127, 128, 255, 513, 1023}
    FloatingWords <- MCFloatingWords
    Starts = {20, 49, 90}
INVARIANTS ProductShown XorShown SortSorts DisplayShows
PROPERTIES MultiplierReturns MenuReturns

SPECIFICATION BusSpec
CONSTANTS
    hpixels = 6
    vlines = 4
    hdisplay = 4
    vdisplay = 2
    hsync = 5
    hsyncEnd = 6
    vsync = 3
    COLUMNS = 4
    ROWS = 2
    glyphWidth = 1
    glyphHeight = 1
    PaletteBase = 16
    Registers = 2
    font <- MCfont
    DontCare <- MCDontCare
INVARIANT ReadsReturnContents

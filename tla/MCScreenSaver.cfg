SPECIFICATION ScreenSaver_Spec
CONSTANTS
    hpixels = 11
    vlines = 6
    hdisplay = 8
    vdisplay = 4
    hsync = 9
    hsyncEnd = 11
    vsync = 5
    COLUMNS = 4
    ROWS = 2
    glyphWidth = 2
    glyphHeight = 2
    PaletteBase = 16
    Registers = 2
    font <- MCfont
    DontCare <- MCDontCare
    colors <- MCcolors
    ColorString <- MCColorString
    Rolls <- MCRolls
INVARIANTS TypeOK BlankDuringSync PaletteLoaded TextDrawn
PROPERTIES FramesGoOn ImplementsRaster ImplementsTextScreen

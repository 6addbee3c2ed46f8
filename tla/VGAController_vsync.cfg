SPECIFICATION Spec
CONSTANTS
    hpixels = 11
    vlines = 6
    hdisplay = 8
    vdisplay = 4
    hsync = 9
    hsyncEnd = 11
    vsync = 5
INVARIANT VSyncOnItsLines

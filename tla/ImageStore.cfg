CONSTANTS
    m1 = m1
    m2 = m2
    up1 = up1
    up2 = up2
    up3 = up3
    down1 = down1
    stray1 = stray1
    NoImage = NoImage
    Menus <- MCMenus
    Uploads <- MCUploads
    Downloads <- MCDownloads
    Strays <- MCStrays
    MaxFailures = 2
SPECIFICATION ImageSpec
SYMMETRY MCSymmetry
INVARIANTS ImageTypeOK PathHasFile MissingMeansReplaced ReplacedFileGoes
\* When every request is answered nothing is left to do.
CHECK_DEADLOCK FALSE

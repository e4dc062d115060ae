SPECIFICATION FairSpec
CONSTANTS
    other = other
    target = target
    usb = usb
    part = part
    Board <- MCBoard
    Usb <- MCUsb
    Target = other
    MaxLives = 2
INVARIANTS
    DesktopOnlyProtected
    DenialRefusesBoot
    DenialIsTotal
PROPERTIES
    EventuallyGuarded
CHECK_DEADLOCK FALSE

CONSTANTS
    c1 = c1
    c2 = c2
    Conns = {c1, c2}
    None = None
    Sends <- RaceSends
    MaxReqs <- RaceReqs
    MaxQueue = 2
SPECIFICATION Spec
CHECK_DEADLOCK FALSE
INVARIANTS DoneDurable SlotAgrees ParkedAtHead NoSleep

CONSTANTS
    CPU = {c1, c2}
    NoCpu = NoCpu
    Pin = {ec, p}
    EC = ec
    BSP = c1
    BootGpe = {p}
    BootGpi = {ec, p}
    MaxRaised = 3
SPECIFICATION FairIchSpec
PROPERTIES EcQueried PowerButtonServed Pm1Kept NoReplay
CHECK_DEADLOCK FALSE

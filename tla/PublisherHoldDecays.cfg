\* A publisher, who was held once and then stays under the band.
SPECIFICATION Spec
CONSTANTS
    ShareBps = 5000  MinBidCpm = 1000  GspIncrement = 10  Skew = 1
    MaxPerSurface = 2  MaxPerPublisher = 3
    SoftPerSurface = 1  SoftPerPublisher = 2  SivtThreshold = 2
    Hour = 1  SivtWindow = 3
PROPERTIES
    HoldDecays

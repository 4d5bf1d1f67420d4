SPECIFICATION Spec
CONSTANTS
    btc = btc
    k1 = k1
    k2 = k2
 
PROPERTY BufferingResolves
PROPERTY ShutdownEnds
PROPERTY ClosedStreamEnds

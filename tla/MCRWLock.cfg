SPECIFICATION FairSpec
CONSTANT Caller = {c1, c2, c3, c4, c5}
PROPERTIES ImplementsFifo NoStarvation

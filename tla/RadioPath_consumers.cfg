SPECIFICATION PathSpec
PROPERTIES
    SingleConsumer
CONSTANTS
    Capacity = 3
    PipeSize = 2
    LowWater = 1
    PreBuffer = 2
    InaudibleTicks = 3

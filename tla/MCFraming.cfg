\* Every way to cut each stream into chunks.
CONSTANT Streams <- Mixed
SPECIFICATION FramingSpec
INVARIANTS HandledOnLastByte NoFalseAlarm
CHECK_DEADLOCK FALSE

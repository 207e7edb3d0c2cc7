SPECIFICATION ProcessorSpec
INVARIANT LatencyBufferHolds
\* A program that has crashed stops.
CHECK_DEADLOCK FALSE

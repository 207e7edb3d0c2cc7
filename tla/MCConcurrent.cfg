CONSTANTS
  \* Spinlock: four threads.
  Threads = {t1, t2, t3, t4}
  \* SpmcQueue: one producer, three consumers, four elements; one
  \* wakeup is spurious and one pop throws.
  Producers = {p1}
  Consumers = {c1, c2, c3}
  MaxElements = 4
  MaxSpurious = 1
  MaxThrows = 1
  Nobody = Nobody
  \* BlockingRing: two slots, three elements: one slot is used again.
  RingCapacity = 2
  MaxEnqueued = 3
  \* UdpReceiver: datagrams that fit or are too long for the buffer.
  Fds = {f1, f2}
  NoFd = NoFd
  Sizes = {1, 2}
  MAX_PACKET_SIZE = 1
  MaxPackets = 3
SPECIFICATION AllSpec
INVARIANTS MutualExclusion TakenInOrder NoConsumerSleepsOverWork SizeIsBounded DescriptorsAccountedFor EachDatagramOnce
PROPERTIES SomebodyEnters EveryElementTaken NobodySpinsForever RingImplementsFifo StopNeedsOnePacket
\* Consumers that wait for no one, and a blocked receive, may be all there is.
CHECK_DEADLOCK FALSE

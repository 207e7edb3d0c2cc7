------------------------ MODULE MarketDataProcessor ------------------------
(***************************************************************************)
(* market-data-system3.h: MarketDataProcessor, the message handler, with   *)
(* its monitor thread, as far as either gets: both use latency_buffer_ of  *)
(* their MetricsCollector first, by index, and what comes after that use   *)
(* is not modelled.  One receiver thread calls onMessage; the owner        *)
(* destroys the processor when the receiver is not inside.                 *)
(***************************************************************************)
EXTENDS Integers, Sequences

VARIABLES
  processor,  \* "none", "alive", "stopping" in its destructor, or "destroyed"
  running_,
  monitor,    \* where monitoring_thread_ is
  message,    \* where onMessage is
  crashed     \* an element that does not exist was used, and the program ended

processorVars == <<processor, running_, monitor, message, crashed>>

LATENCY_BUFFER_SIZE == 10000

(* Neither the constructor nor anything else gives the buffer elements, so *)
(* the position to be written stays the first one.                         *)
latency_buffer_ == <<>>
latency_buffer_pos_ == 0

(* Position i, counted from 0, is one of the buffer, or of a copy of it.   *)
Exists(i) == i + 1 \in DOMAIN latency_buffer_

ProcessorInit ==
  /\ processor = "none" /\ running_ = FALSE /\ monitor = "none"
  /\ message = "none" /\ crashed = FALSE

(* The constructor calls start().                                          *)
ConstructProcessor ==
  /\ processor = "none"
  /\ processor' = "alive" /\ running_' = TRUE /\ monitor' = "test"
  /\ UNCHANGED <<message, crashed>>

(* The loop of the monitor begins a round, or ends.                        *)
TestMonitor ==
  /\ ~crashed /\ monitor = "test"
  /\ monitor' = IF running_ THEN "summary" ELSE "ended"
  /\ UNCHANGED <<processor, running_, message, crashed>>

(* getMetricsSummary copies the buffer, sorts the copy, and reads the      *)
(* percentiles from it.                                                    *)
Percentiles == {(LATENCY_BUFFER_SIZE * p) \div 100 : p \in {50, 95, 99}}

GetMetricsSummary ==
  /\ ~crashed /\ monitor = "summary"
  /\ \E i \in Percentiles : ~Exists(i)
  /\ crashed' = TRUE
  /\ UNCHANGED <<processor, running_, monitor, message>>

(* parse() throws when no number follows "seq=": the exception goes to the *)
(* receiver, and nothing has changed.                                      *)
ParseMessage ==
  /\ ~crashed /\ processor = "alive" /\ message = "none"
  /\ message' \in {"none", "record"}
  /\ UNCHANGED <<processor, running_, monitor, crashed>>

RecordLatency ==
  /\ ~crashed /\ message = "record"
  /\ ~Exists(latency_buffer_pos_)
  /\ crashed' = TRUE
  /\ UNCHANGED <<processor, running_, monitor, message>>

(* The destructor calls stop(), which joins the monitor.                   *)
StopProcessor ==
  /\ ~crashed /\ processor = "alive" /\ message = "none"
  /\ processor' = "stopping" /\ running_' = FALSE
  /\ UNCHANGED <<monitor, message, crashed>>

JoinMonitor ==
  /\ ~crashed /\ processor = "stopping" /\ monitor = "ended"
  /\ processor' = "destroyed" /\ monitor' = "none"
  /\ UNCHANGED <<running_, message, crashed>>

ProcessorNext ==
  \/ ConstructProcessor \/ StopProcessor \/ JoinMonitor
  \/ TestMonitor \/ GetMetricsSummary
  \/ ParseMessage \/ RecordLatency

ProcessorSpec == ProcessorInit /\ [][ProcessorNext]_processorVars
-----------------------------------------------------------------------------
(* The buffer is one "for percentile calculations": the latency of a       *)
(* message finds its place in it, a round of the monitor the percentiles,  *)
(* and neither ends the program.                                           *)
LatencyBufferHolds == ~crashed
=============================================================================

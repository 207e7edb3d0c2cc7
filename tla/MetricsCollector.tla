-------------------------- MODULE MetricsCollector --------------------------
(***************************************************************************)
(* market-data-system3.h: the time windows of MetricsCollector, in which   *)
(* it counts messages, gaps and messages out of order, by one thread, and  *)
(* a gauge (of memory, of a queue), which any thread may set.              *)
(***************************************************************************)
EXTENDS Integers, Sequences, FiniteSets

CONSTANTS
  window_size_,
  MAX_WINDOWS,
  Recorders,    \* threads that set the gauge
  GaugeValues,  \* what they set it to
  MaxClock,     \* bound: the clock
  MaxRecords    \* bound: calls

ASSUME MetricsConstants ==
  /\ window_size_ \in Nat \ {0} /\ MAX_WINDOWS \in Nat \ {0}
  /\ MaxClock \in Nat /\ MaxRecords \in Nat
  /\ GaugeValues \subseteq Nat

Counted == {"message_count", "sequence_gaps", "out_of_order_messages"}

VARIABLES
  clock,          \* system_clock
  time_windows_,
  records,        \* what was recorded, and the latest time up to then
  peak,           \* peak_memory_used_, or peak_queue_size_
  setting,        \* the call each recorder is in, if any
  settled         \* the greatest value of the calls that overlapped no other

windowVars == <<clock, time_windows_, records>>
gaugeVars == <<peak, setting, settled>>
metricsVars == <<windowVars, gaugeVars>>

MetricsInit ==
  /\ clock = 0 /\ time_windows_ = <<>> /\ records = <<>>
  /\ peak = 0 /\ setting = <<>> /\ settled = 0

(* The wall clock goes on, or is set to another time.                      *)
ClockIsSet(t) == clock' = t /\ UNCHANGED <<time_windows_, records>>

LastWindow == time_windows_[Len(time_windows_)]
WindowIsOver ==
  time_windows_ = <<>> \/ clock - LastWindow.start_time >= window_size_

(* Before a new window comes, the oldest goes if there are too many.       *)
Kept ==
  IF Len(time_windows_) >= MAX_WINDOWS THEN Tail(time_windows_) ELSE time_windows_

(* The windows with the current one at the end.                            *)
GetCurrentWindow ==
  IF WindowIsOver
  THEN Append(Kept, [start_time |-> clock, counts |-> [c \in Counted |-> 0]])
  ELSE time_windows_

LatestTime ==
  LET earlier == {clock} \cup {records[i].latest : i \in 1 .. Len(records)} IN
    CHOOSE t \in earlier : \A u \in earlier : u <= t

(* recordMessage, recordSequenceGap, recordOutOfOrderMessage.              *)
Record(counter) ==
  /\ Len(records) < MaxRecords
  /\ time_windows_' =
       [GetCurrentWindow EXCEPT ![Len(GetCurrentWindow)].counts[counter] = @ + 1]
  /\ records' = Append(records, [of |-> counter, latest |-> LatestTime])
  /\ UNCHANGED clock

WindowsNext ==
  \/ \E t \in 0 .. MaxClock : ClockIsSet(t)
  \/ \E counter \in Counted : Record(counter)
-----------------------------------------------------------------------------
Greater(a, b) == IF a > b THEN a ELSE b

(* recordMemoryUsage, recordQueueSize: the peak is loaded, ...             *)
LoadPeak(r, value) ==
  /\ r \notin DOMAIN setting
  /\ setting' =
       [q \in DOMAIN setting \cup {r} |->
          IF q = r THEN [value |-> value, loaded |-> peak, alone |-> setting = <<>>]
          ELSE [setting[q] EXCEPT !.alone = FALSE]]
  /\ UNCHANGED <<peak, settled>>

(* Mutant: what was loaded is not looked at.                               *)
StoreLast(r) ==
  /\ r \in DOMAIN setting
  /\ peak' = setting[r].value
  /\ settled' = IF setting[r].alone THEN Greater(settled, setting[r].value)
                ELSE settled
  /\ setting' = [q \in DOMAIN setting \ {r} |-> setting[q]]

(* ... and the greater of it and the value stored: not in one step.        *)
StorePeak(r) ==
  /\ r \in DOMAIN setting
  /\ peak' = Greater(setting[r].loaded, setting[r].value)
  /\ settled' = IF setting[r].alone THEN Greater(settled, setting[r].value)
                ELSE settled
  /\ setting' = [q \in DOMAIN setting \ {r} |-> setting[q]]

GaugeNext ==
  \E r \in Recorders : StorePeak(r) \/ \E v \in GaugeValues : LoadPeak(r, v)

(* The windows and a gauge share nothing.                                  *)
MetricsNext ==
  \/ WindowsNext /\ UNCHANGED gaugeVars
  \/ GaugeNext /\ UNCHANGED windowVars

MetricsSpec == MetricsInit /\ [][MetricsNext]_metricsVars
-----------------------------------------------------------------------------
End(i) == IF i < Len(time_windows_) THEN time_windows_[i + 1].start_time
          ELSE MaxClock + 1

(* The windows do not overlap, each counts just what was recorded between  *)
(* its start and the next one's, wherever the clock was set meanwhile, and *)
(* all that was recorded since MAX_WINDOWS - 1 window lengths before the   *)
(* latest window is in one of them.                                        *)
EachRecordInItsWindow ==
  LET n == Len(time_windows_) IN
    /\ n <= MAX_WINDOWS
    /\ \A i \in 1 .. n - 1 :
         End(i) - time_windows_[i].start_time >= window_size_
    /\ \A i \in 1 .. n, c \in Counted :
         time_windows_[i].counts[c] =
           Cardinality({r \in 1 .. Len(records) :
             /\ records[r].of = c
             /\ records[r].latest \in time_windows_[i].start_time .. End(i) - 1})
    /\ \A r \in 1 .. Len(records) :
         records[r].latest > LastWindow.start_time - (MAX_WINDOWS - 1) * window_size_ =>
           records[r].latest >= time_windows_[1].start_time

(* The peak is never below a value that was set by a call no other call    *)
(* overlapped; of calls that overlap, it may forget the greatest.          *)
PeakCoversUsage ==
  /\ peak >= settled
  /\ \A r \in DOMAIN setting : setting[r].loaded >= settled

(* Records and gauges are kept as long as they should be.                  *)
MetricsAreKept == EachRecordInItsWindow /\ PeakCoversUsage
=============================================================================

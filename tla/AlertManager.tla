---------------------------- MODULE AlertManager ----------------------------
(***************************************************************************)
(* market-data-system3.h: AlertManager, called by one thread at a time.    *)
(* An alert is known by its cooldown key, source and message put together. *)
(***************************************************************************)
EXTENDS Integers, Sequences, FiniteSets, SequencesExt

CONSTANTS
  ReceiverAlerts,   \* keys of the alerts that receivers raise
  COOLDOWN_PERIOD,
  Summaries,        \* the findings of the summaries that checkMetrics is given
  MaxAlertTime,     \* bound: the clock
  MaxAlertCalls     \* bound: calls

Findings == {"latency_critical", "latency_warning", "rate", "gaps", "queue"}

ASSUME AlertConstants ==
  /\ COOLDOWN_PERIOD \in Nat /\ MaxAlertTime \in Nat /\ MaxAlertCalls \in Nat
  /\ \A s \in Summaries :
       s \subseteq Findings /\ ~{"latency_critical", "latency_warning"} \subseteq s

VARIABLES
  now,              \* system_clock
  alert_cooldowns_,
  alert_queue_,     \* the alerts that were raised, and when: nothing takes any
  refused,          \* those that raiseAlert dropped, and when
  alertCalls

alertVars == <<now, alert_cooldowns_, alert_queue_, refused, alertCalls>>

AlertInit ==
  /\ now = 0 /\ alertCalls = 0
  /\ alert_cooldowns_ = <<>> /\ alert_queue_ = <<>> /\ refused = {}

(* The wall clock goes on, or is set to another time.                      *)
SetClock(t) ==
  /\ now' = t
  /\ UNCHANGED <<alert_cooldowns_, alert_queue_, refused, alertCalls>>

InCooldown(key) ==
  key \in DOMAIN alert_cooldowns_ /\ now - alert_cooldowns_[key] < COOLDOWN_PERIOD

(* Mutant: the time of an alert that is dropped is noted, too.             *)
RaiseSliding(keys) ==
  /\ alertCalls < MaxAlertCalls /\ alertCalls' = alertCalls + 1
  /\ alert_cooldowns_' =
       [k \in DOMAIN alert_cooldowns_ \cup keys |->
          IF k \in keys THEN now ELSE alert_cooldowns_[k]]
  /\ alert_queue_' = alert_queue_ \o
       SetToSeq({[key |-> k, at |-> now] : k \in {k \in keys : ~InCooldown(k)}})
  /\ refused' = refused \cup
       {[key |-> k, at |-> now] : k \in {k \in keys : InCooldown(k)}}
  /\ UNCHANGED now

(* raiseAlert, of alerts with different keys one after the other; in which *)
(* order they come into the queue is left open.                            *)
Raise(keys) ==
  /\ alertCalls < MaxAlertCalls /\ alertCalls' = alertCalls + 1
  /\ alert_cooldowns_' =
       [k \in DOMAIN alert_cooldowns_ \cup keys |->
          IF k \in keys /\ ~InCooldown(k) THEN now ELSE alert_cooldowns_[k]]
  /\ alert_queue_' = alert_queue_ \o
       SetToSeq({[key |-> k, at |-> now] : k \in {k \in keys : ~InCooldown(k)}})
  /\ refused' = refused \cup
       {[key |-> k, at |-> now] : k \in {k \in keys : InCooldown(k)}}
  /\ UNCHANGED now

(* A receiver reports an error, or a dropped packet.                       *)
RaiseAlert(key) == Raise({key})

(* One alert for each threshold that the summary is beyond; of the two of  *)
(* latency, only the critical one.                                         *)
CheckMetrics(summary) == summary # {} /\ Raise(summary)

AlertNext ==
  \/ \E t \in 0 .. MaxAlertTime : SetClock(t)
  \/ \E key \in ReceiverAlerts : RaiseAlert(key)
  \/ \E s \in Summaries : CheckMetrics(s)

AlertSpec == AlertInit /\ [][AlertNext]_alertVars
-----------------------------------------------------------------------------
(* Alerts with one key are at least the cooldown apart, and one is dropped *)
(* only if another was raised since the clock read a cooldown earlier, or  *)
(* later: a clock that is set back keeps an alert quiet until it catches   *)
(* up.                                                                     *)
OneAlertPerCooldown ==
  /\ \A i, j \in 1 .. Len(alert_queue_) :
       i < j /\ alert_queue_[i].key = alert_queue_[j].key =>
         alert_queue_[j].at - alert_queue_[i].at >= COOLDOWN_PERIOD
  /\ \A r \in refused : \E i \in 1 .. Len(alert_queue_) :
       alert_queue_[i].key = r.key /\ r.at - alert_queue_[i].at < COOLDOWN_PERIOD
=============================================================================

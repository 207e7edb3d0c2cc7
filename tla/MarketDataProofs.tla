------------------------- MODULE MarketDataProofs -------------------------
(***************************************************************************)
(* Proofs about the components of the market data system, for every value  *)
(* of their constants.                                                     *)
(***************************************************************************)
EXTENDS TcpReceiver, AlertManager, MetricsCollector,
        FiniteSetTheorems, SequenceTheorems, TLAPS

(* The TCP receiver.  Only a failed start() leaves a descriptor to the     *)
(* next one, and when the receiver is stopped there is no thread.          *)
DescriptorInv ==
  /\ fd \in Fds \cup {NoFd} /\ lost \subseteq Fds
  /\ owner = "idle" /\ ~running => thread = "none" /\ (fd # NoFd => failed)
  /\ DescriptorOwned

(* A receiver has one descriptor open and knows which, apart from those    *)
(* that a start() wrote over which followed a failed one without stop().   *)
THEOREM EachSocketAccounted == Spec => []DescriptorOwned
<1>1. Init => DescriptorInv
  BY DEF Init, DescriptorInv, DescriptorOwned
<1>2. DescriptorInv /\ [Next]_vars => DescriptorInv'
  <2> SUFFICES ASSUME DescriptorInv, [Next]_vars PROVE DescriptorInv'
    OBVIOUS
  <2> USE ReceiverConstants DEF DescriptorInv, DescriptorOwned, socket, retries
  <2>0. ASSUME MayStart PROVE lost' = open
    <3>1. CASE failed
      BY <2>0, <3>1 DEF MayStart
    <3>2. CASE ~failed
      <4>1. fd = NoFd /\ open = lost
        BY <2>0, <3>2 DEF MayStart
      <4> QED BY <2>0, <3>2, <4>1 DEF MayStart
    <3> QED BY <3>1, <3>2
  <2>1. CASE StartFails
    <3>1. /\ lost' = open /\ failed' = TRUE
          /\ running' = running /\ owner' = owner /\ thread' = thread
          /\ connected' = connected
      BY <2>0, <2>1 DEF StartFails, ConnectFails
    <3>2. /\ fd' \in Fds \cup {NoFd} /\ fd' \notin open
          /\ open' = open \cup ({fd'} \ {NoFd})
      BY <2>1 DEF StartFails, ConnectFails
    <3>3. thread = "none" /\ owner = "idle" /\ ~running
      BY <2>1 DEF StartFails, MayStart
    <3> QED BY <3>1, <3>2, <3>3
  <2>2. CASE StartSucceeds
    <3>1. lost' = open /\ running' = TRUE /\ thread' = "test"
      BY <2>0, <2>2 DEF StartSucceeds
    <3>2. fd' \in Fds \ open /\ open' = open \cup {fd'}
      BY <2>2 DEF StartSucceeds, ConnectBegins
    <3>3. lost' \subseteq Fds /\ fd' \in Fds /\ fd' # NoFd
      BY <3>1, <3>2
    <3> QED BY <3>1, <3>2, <3>3
  <2>3. CASE StopBegins
    BY <2>3 DEF StopBegins
  <2>4. CASE StopJoins
    BY <2>4 DEF StopJoins
  <2>5. CASE ThreadStep
    <3> USE DEF Goto
    <3>1. CASE TestRunning \/ PollIdle \/ PollFails \/ PollReady
      BY <3>1 DEF TestRunning, PollIdle, PollFails, PollReady
    <3>2. CASE ReceiveBytes \/ ReceiveNothing \/ ReceiveFails
      BY <3>2 DEF ReceiveBytes, ReceiveNothing, ReceiveFails
    <3>3. CASE Deliver \/ HandlerThrows \/ KeepRest
      BY <3>3 DEF Deliver, HandlerThrows, KeepRest
    <3>4. CASE TestHangup \/ TestReconnect \/ WakeUp
      BY <3>4 DEF TestHangup, TestReconnect, WakeUp
    <3>5. CASE CloseSocket
      BY <3>5 DEF CloseSocket
    <3>6. CASE ReconnectFails
      BY <3>6 DEF ReconnectFails, ConnectFails
    <3>7. CASE ReconnectSucceeds
      BY <3>7 DEF ReconnectSucceeds, ConnectBegins
    <3> QED BY <2>5, <3>1, <3>2, <3>3, <3>4, <3>5, <3>6, <3>7 DEF ThreadStep
  <2>6. CASE LinkChanges
    BY <2>6 DEF LinkChanges
  <2>7. ASSUME NEW size \in Sizes, PeerSends(size) PROVE DescriptorInv'
    BY <2>7 DEF PeerSends
  <2>8. CASE UNCHANGED vars
    BY <2>8 DEF vars
  <2> QED BY <2>1, <2>2, <2>3, <2>4, <2>5, <2>6, <2>7, <2>8 DEF Next, OwnerStep
<1> QED BY <1>1, <1>2, PTL DEF Spec, DescriptorInv
-----------------------------------------------------------------------------
(* Alerts.  A key's cooldown is the time of one of its alerts, and none of *)
(* its alerts was raised at a later one.                                   *)
AlertKeys == ReceiverAlerts \cup Findings

AlertInv ==
  /\ now \in Int
  /\ alert_queue_ \in Seq([key : AlertKeys, at : Int])
  /\ \A k \in DOMAIN alert_cooldowns_ :
       /\ alert_cooldowns_[k] \in Int
       /\ \E i \in 1 .. Len(alert_queue_) :
            alert_queue_[i].key = k /\ alert_queue_[i].at = alert_cooldowns_[k]
  /\ \A i \in 1 .. Len(alert_queue_) :
       /\ alert_queue_[i].key \in DOMAIN alert_cooldowns_
       /\ alert_queue_[i].at <= alert_cooldowns_[alert_queue_[i].key]
  /\ OneAlertPerCooldown

(* SetToSeq puts every element of a finite set at one place.               *)
LEMMA Sequenced ==
  ASSUME NEW S, IsFiniteSet(S)
  PROVE  /\ SetToSeq(S) \in Seq(S)
         /\ \A x \in S : \E i \in 1 .. Len(SetToSeq(S)) : SetToSeq(S)[i] = x
         /\ \A i, j \in 1 .. Len(SetToSeq(S)) :
              SetToSeq(S)[i] = SetToSeq(S)[j] => i = j
<1> DEFINE n == Cardinality(S)
           f == SetToSeq(S)
<1>1. n \in Nat /\ ExistsBijection(1 .. n, S)
  BY FS_CardinalityType
<1>2. \E g \in [1 .. n -> S] : IsInjective(g)
  BY <1>1 DEF ExistsBijection, Bijection, Injection
<1>3. f \in [1 .. n -> S] /\ IsInjective(f)
  BY <1>2 DEF SetToSeq
<1>4. f \in Injection(1 .. n, S)
  BY <1>3 DEF Injection
<1>5. IsFiniteSet(1 .. n) /\ Cardinality(1 .. n) = n
  BY <1>1, FS_Interval
<1>6. f \in Surjection(1 .. n, S)
  BY <1>4, <1>5, FS_Injection
<1>7. f \in Seq(S) /\ Len(f) = n
  BY <1>1, <1>3, IsASeq, LenProperties
<1>8. \A x \in S : \E i \in 1 .. n : f[i] = x
  BY <1>6 DEF Surjection
<1>9. \A i, j \in 1 .. n : f[i] = f[j] => i = j
  BY <1>3 DEF IsInjective
<1> QED BY <1>7, <1>8, <1>9

(* So do the alerts of one call, which have different keys.                *)
Alerts(keys, at) == SetToSeq({[key |-> k, at |-> at] : k \in keys})

LEMMA AlertsSequenced ==
  ASSUME NEW keys \in SUBSET AlertKeys, IsFiniteSet(keys), NEW at \in Int
  PROVE  /\ Alerts(keys, at) \in Seq([key : AlertKeys, at : Int])
         /\ Len(Alerts(keys, at)) \in Nat
         /\ \A i \in 1 .. Len(Alerts(keys, at)) :
              Alerts(keys, at)[i].key \in keys /\ Alerts(keys, at)[i].at = at
         /\ \A i, j \in 1 .. Len(Alerts(keys, at)) :
              Alerts(keys, at)[i].key = Alerts(keys, at)[j].key => i = j
         /\ \A k \in keys : \E i \in 1 .. Len(Alerts(keys, at)) :
              Alerts(keys, at)[i].key = k
<1> DEFINE Of(k) == [key |-> k, at |-> at]
           S == {Of(k) : k \in keys}
           s == SetToSeq(S)
           A == [key : AlertKeys, at : Int]
<1>1. IsFiniteSet(S)
  <2> DEFINE g == [k \in keys |-> Of(k)]
  <2>1. g \in Surjection(keys, S)
    BY DEF Surjection
  <2> HIDE DEF g, S
  <2> QED BY <2>1, FS_Surjection
<1>2. /\ S \subseteq A
      /\ \A x \in S : x.key \in keys /\ x.at = at
      /\ \A x, y \in S : x.key = y.key => x = y
      /\ \A k \in keys : Of(k) \in S /\ Of(k).key = k
  OBVIOUS
<1>3. Alerts(keys, at) = s
  BY DEF Alerts
<1> HIDE DEF S, A, Of
<1>4. /\ s \in Seq(S)
      /\ \A x \in S : \E i \in 1 .. Len(s) : s[i] = x
      /\ \A i, j \in 1 .. Len(s) : s[i] = s[j] => i = j
  BY <1>1, Sequenced
<1> HIDE DEF s
<1>5. Len(s) \in Nat /\ \A i \in 1 .. Len(s) : s[i] \in S
  BY <1>4, ElementOfSeq, LenProperties
<1>6. s \in Seq(A)
  BY <1>2, <1>4, SeqMonotonic
<1>7. \A k \in keys : \E i \in 1 .. Len(s) : s[i].key = k
  BY <1>2, <1>4
<1>8. \A i, j \in 1 .. Len(s) : s[i].key = s[j].key => i = j
  BY <1>2, <1>4, <1>5
<1>9. \A i \in 1 .. Len(s) : s[i].key \in keys /\ s[i].at = at
  BY <1>2, <1>5
<1> QED BY <1>3, <1>5, <1>6, <1>7, <1>8, <1>9 DEF A

LEMMA RaiseKeepsCooldown ==
  ASSUME NEW keys \in SUBSET AlertKeys, IsFiniteSet(keys), AlertInv, Raise(keys)
  PROVE  AlertInv'
<1> DEFINE loud == {k \in keys : ~InCooldown(k)}
           new == Alerts(loud, now)
           q == alert_queue_
           n == Len(alert_queue_)
           c == alert_cooldowns_
           A == [key : AlertKeys, at : Int]
           q2 == q \o new
           n2 == Len(q \o new)
<1>a. COOLDOWN_PERIOD \in Nat /\ now \in Int /\ now' = now
  BY AlertConstants DEF AlertInv, Raise
<1>b. q \in Seq(A) /\ n \in Nat /\ \A i \in 1 .. n : q[i].at \in Int
  <2>1. q \in Seq(A)
    BY DEF AlertInv
  <2>2. n \in Nat /\ \A i \in 1 .. n : q[i] \in A
    BY <2>1, LenProperties, ElementOfSeq
  <2> QED BY <2>1, <2>2
<1>c. \A k \in DOMAIN c : c[k] \in Int /\ \E i \in 1 .. n : q[i].key = k /\ q[i].at = c[k]
  BY DEF AlertInv
<1>d. \A i \in 1 .. n : q[i].key \in DOMAIN c /\ q[i].at <= c[q[i].key]
  BY DEF AlertInv
<1>e. \A i, j \in 1 .. n : i < j /\ q[i].key = q[j].key =>
        q[j].at - q[i].at >= COOLDOWN_PERIOD
  BY DEF AlertInv, OneAlertPerCooldown
<1>f. \A r \in refused : \E i \in 1 .. n :
        q[i].key = r.key /\ r.at - q[i].at < COOLDOWN_PERIOD
  BY DEF AlertInv, OneAlertPerCooldown
<1>2. alert_queue_' = q2
  BY DEF Raise, Alerts
<1>g. /\ DOMAIN c' = DOMAIN c \cup keys
      /\ \A k \in DOMAIN c \cup keys : c'[k] = IF k \in loud THEN now ELSE c[k]
  BY DEF Raise
<1>h. \A k \in keys \ loud : k \in DOMAIN c /\ now - c[k] < COOLDOWN_PERIOD
  BY DEF InCooldown
<1>i. \A k \in loud : k \in DOMAIN c => ~(now - c[k] < COOLDOWN_PERIOD)
  BY DEF InCooldown
<1>j. refused' = refused \cup {[key |-> k, at |-> now] : k \in keys \ loud}
  <2>1. {k \in keys : InCooldown(k)} = keys \ loud
    OBVIOUS
  <2> QED BY <2>1 DEF Raise
<1>k. loud \in SUBSET AlertKeys /\ loud \subseteq keys /\ IsFiniteSet(loud)
  BY FS_Subset
<1> HIDE DEF loud
<1>3. new \in Seq(A) /\ Len(new) \in Nat
  BY <1>a, <1>k, AlertsSequenced
<1>4. /\ \A i \in 1 .. Len(new) : new[i].key \in loud /\ new[i].at = now
      /\ \A i, j \in 1 .. Len(new) : new[i].key = new[j].key => i = j
      /\ \A k \in loud : \E i \in 1 .. Len(new) : new[i].key = k
  BY <1>a, <1>k, AlertsSequenced
<1> HIDE DEF new, A
<1>5. q2 \in Seq(A) /\ n2 = n + Len(new)
  BY <1>b, <1>3, ConcatProperties
<1>l. \A i \in 1 .. n : q2[i] = q[i]
  BY <1>b, <1>3, ConcatProperties
<1>6. \A i \in 1 .. Len(new) : q2[n + i] = new[i]
  BY <1>b, <1>3, ConcatProperties
<1> HIDE DEF q2, n2
<1>m. /\ n2 \in Nat /\ \A i \in 1 .. n : i \in 1 .. n2
      /\ \A i \in 1 .. n2 : i \in 1 .. n \/ i \in n + 1 .. n2
      /\ \A i \in n + 1 .. n2 : i \in 1 .. n2
      /\ \A j \in 1 .. n, i \in 1 .. n2 : i < j => i \in 1 .. n
  BY <1>b, <1>3, <1>5
<1>7. /\ \A i \in 1 .. Len(new) : n + i \in 1 .. n2
      /\ \A i \in n + 1 .. n2 : i - n \in 1 .. Len(new) /\ n + (i - n) = i
  BY <1>b, <1>3, <1>5
<1>8. \A i \in n + 1 .. n2 : q2[i] = new[i - n] /\ i - n \in 1 .. Len(new)
  BY <1>6, <1>7
<1>o. \A i \in n + 1 .. n2 : q2[i].key \in loud /\ q2[i].at = now
  BY <1>4, <1>8
<1>p. \A i, j \in n + 1 .. n2 : i < j => q2[i].key # q2[j].key
  <2> SUFFICES ASSUME NEW i \in n + 1 .. n2, NEW j \in n + 1 .. n2, i < j,
                      q2[i].key = q2[j].key
               PROVE  FALSE
    OBVIOUS
  <2>1. i - n = j - n
    BY <1>4, <1>8
  <2> QED BY <2>1, <1>b, <1>m
<1>q. \A k \in loud : \E i \in 1 .. n2 : q2[i].key = k /\ q2[i].at = now
  <2> SUFFICES ASSUME NEW k \in loud
               PROVE  \E i \in 1 .. n2 : q2[i].key = k /\ q2[i].at = now
    OBVIOUS
  <2>1. PICK i \in 1 .. Len(new) : new[i].key = k
    BY <1>4
  <2>2. n + i \in 1 .. n2 /\ q2[n + i] = new[i] /\ new[i].at = now
    BY <1>4, <1>6, <1>7
  <2> QED BY <2>1, <2>2
<1>10. ASSUME NEW k \in DOMAIN c'
       PROVE  c'[k] \in Int /\ \E i \in 1 .. n2 : q2[i].key = k /\ q2[i].at = c'[k]
  <2>1. CASE k \in loud
    BY <2>1, <1>a, <1>g, <1>q
  <2>2. CASE k \notin loud
    <3>1. k \in DOMAIN c /\ c'[k] = c[k]
      BY <2>2, <1>g, <1>h
    <3>2. PICK i \in 1 .. n : q[i].key = k /\ q[i].at = c[k]
      BY <3>1, <1>c
    <3> QED BY <3>1, <3>2, <1>c, <1>l, <1>m
  <2> QED BY <2>1, <2>2
<1>11. ASSUME NEW i \in 1 .. n2
       PROVE  q2[i].key \in DOMAIN c' /\ q2[i].at <= c'[q2[i].key]
  <2>1. CASE i \in 1 .. n
    <3>1. /\ q[i].key \in DOMAIN c /\ q[i].at <= c[q[i].key]
          /\ q[i].at \in Int /\ c[q[i].key] \in Int /\ q2[i] = q[i]
      BY <2>1, <1>b, <1>c, <1>d, <1>l
    <3>2. q[i].key \in loud => ~(now - c[q[i].key] < COOLDOWN_PERIOD)
      BY <3>1, <1>i
    <3>3. q[i].key \in loud => q[i].at <= now
      BY <3>1, <3>2, <1>a
    <3> QED BY <3>1, <3>3, <1>g
  <2>2. CASE i \in n + 1 .. n2
    BY <2>2, <1>a, <1>g, <1>k, <1>o
  <2> QED BY <2>1, <2>2, <1>m
<1>12. ASSUME NEW i \in 1 .. n2, NEW j \in 1 .. n2, i < j, q2[i].key = q2[j].key
       PROVE  q2[j].at - q2[i].at >= COOLDOWN_PERIOD
  <2>1. CASE j \in 1 .. n
    BY <2>1, <1>e, <1>l, <1>m, <1>12
  <2>2. CASE j \in n + 1 .. n2
    <3>1. i \in 1 .. n
      BY <2>2, <1>m, <1>p, <1>12
    <3>2. /\ q[i].key \in DOMAIN c /\ q[i].at <= c[q[i].key]
          /\ q[i].at \in Int /\ c[q[i].key] \in Int /\ q2[i] = q[i]
      BY <3>1, <1>b, <1>c, <1>d, <1>l
    <3>3. q[i].key \in loud /\ q2[j].at = now
      BY <2>2, <3>2, <1>o, <1>12
    <3>4. ~(now - c[q[i].key] < COOLDOWN_PERIOD)
      BY <3>2, <3>3, <1>i
    <3> QED BY <3>2, <3>3, <3>4, <1>a
  <2> QED BY <2>1, <2>2, <1>m
<1>13. ASSUME NEW r \in refused'
       PROVE  \E i \in 1 .. n2 : q2[i].key = r.key /\ r.at - q2[i].at < COOLDOWN_PERIOD
  <2>1. CASE r \in refused
    BY <2>1, <1>f, <1>l, <1>m
  <2>2. ASSUME NEW k \in keys \ loud, r = [key |-> k, at |-> now]
        PROVE  \E i \in 1 .. n2 : q2[i].key = r.key /\ r.at - q2[i].at < COOLDOWN_PERIOD
    <3>1. r.key = k /\ r.at = now /\ k \in DOMAIN c /\ now - c[k] < COOLDOWN_PERIOD
      BY <2>2, <1>h
    <3>2. PICK i \in 1 .. n : q[i].key = k /\ q[i].at = c[k]
      BY <3>1, <1>c
    <3> QED BY <3>1, <3>2, <1>l, <1>m
  <2> QED BY <2>1, <2>2, <1>j
<1>14. OneAlertPerCooldown'
  BY <1>2, <1>a, <1>12, <1>13 DEF OneAlertPerCooldown, n2, q2
<1>15. alert_queue_' \in Seq([key : AlertKeys, at : Int])
  BY <1>2, <1>5 DEF A
<1>16. now' \in Int
  BY <1>a
<1>17. \A k \in DOMAIN c' :
         c'[k] \in Int /\ \E i \in 1 .. Len(alert_queue_') :
           alert_queue_'[i].key = k /\ alert_queue_'[i].at = c'[k]
  BY <1>10, <1>2 DEF n2, q2
<1>18. \A i \in 1 .. Len(alert_queue_') :
         alert_queue_'[i].key \in DOMAIN c' /\ alert_queue_'[i].at <= c'[alert_queue_'[i].key]
  BY <1>11, <1>2 DEF n2, q2
<1> QED BY <1>14, <1>15, <1>16, <1>17, <1>18 DEF AlertInv

(* The clock may be set to any time.                                       *)
THEOREM AlertsKeepTheirDistance == AlertSpec => []OneAlertPerCooldown
<1>1. AlertInit => AlertInv
  BY DEF AlertInit, AlertInv, OneAlertPerCooldown
<1>2. AlertInv /\ [AlertNext]_alertVars => AlertInv'
  <2> SUFFICES ASSUME AlertInv, [AlertNext]_alertVars PROVE AlertInv'
    OBVIOUS
  <2>1. ASSUME NEW t \in 0 .. MaxAlertTime, SetClock(t) PROVE AlertInv'
    BY <2>1, t \in Int DEF SetClock, AlertInv, OneAlertPerCooldown
  <2>2. ASSUME NEW key \in ReceiverAlerts, RaiseAlert(key) PROVE AlertInv'
    BY <2>2, RaiseKeepsCooldown, FS_Singleton DEF RaiseAlert, AlertKeys
  <2>3. ASSUME NEW s \in Summaries, CheckMetrics(s) PROVE AlertInv'
    <3>1. IsFiniteSet(Findings)
      <4>1. Findings = ((({"latency_critical"} \cup {"latency_warning"}) \cup {"rate"})
                          \cup {"gaps"}) \cup {"queue"}
        BY DEF Findings
      <4> QED BY <4>1, FS_Singleton, FS_Union
    <3>2. s \subseteq Findings
      BY AlertConstants
    <3>3. IsFiniteSet(s)
      BY <3>1, <3>2, FS_Subset
    <3> QED BY <2>3, <3>2, <3>3, RaiseKeepsCooldown DEF CheckMetrics, AlertKeys
  <2>4. CASE UNCHANGED alertVars
    BY <2>4 DEF alertVars, AlertInv, OneAlertPerCooldown
  <2> QED BY <2>1, <2>2, <2>3, <2>4 DEF AlertNext
<1> QED BY <1>1, <1>2, PTL DEF AlertSpec, AlertInv
-----------------------------------------------------------------------------
(* The gauge.  A call that overlaps no other is the only one under way.    *)
GaugeInv ==
  /\ peak \in Int /\ settled \in Int
  /\ setting \in [DOMAIN setting -> [value : Int, loaded : Int, alone : BOOLEAN]]
  /\ \A r \in DOMAIN setting : setting[r].alone = TRUE => DOMAIN setting = {r}
  /\ PeakCoversUsage

LEMMA GaugeStep == GaugeInv /\ [GaugeNext]_gaugeVars => GaugeInv'
<1> SUFFICES ASSUME GaugeInv, [GaugeNext]_gaugeVars PROVE GaugeInv'
  OBVIOUS
<1>a. /\ peak \in Int /\ settled \in Int /\ peak >= settled
      /\ setting \in [DOMAIN setting -> [value : Int, loaded : Int, alone : BOOLEAN]]
      /\ \A r \in DOMAIN setting : setting[r].alone = TRUE => DOMAIN setting = {r}
      /\ \A r \in DOMAIN setting : setting[r].loaded >= settled
  BY DEF GaugeInv, PeakCoversUsage
<1>b. ASSUME /\ peak' \in Int /\ settled' \in Int /\ peak' >= settled'
             /\ setting' \in [DOMAIN setting' -> [value : Int, loaded : Int, alone : BOOLEAN]]
             /\ \A r \in DOMAIN setting' : setting'[r].alone = TRUE => DOMAIN setting' = {r}
             /\ \A r \in DOMAIN setting' : setting'[r].loaded >= settled'
      PROVE  GaugeInv'
  BY <1>b DEF GaugeInv, PeakCoversUsage
<1>1. ASSUME NEW r \in Recorders, NEW v \in GaugeValues, LoadPeak(r, v) PROVE GaugeInv'
  <2>1. v \in Int
    BY MetricsConstants
  <2> DEFINE first == setting = <<>>
             e == [value |-> v, loaded |-> peak, alone |-> first]
  <2>2. first \in BOOLEAN /\ (first = TRUE => DOMAIN setting = {})
    OBVIOUS
  <2>3. /\ r \notin DOMAIN setting /\ UNCHANGED <<peak, settled>>
        /\ setting' = [q \in DOMAIN setting \cup {r} |->
             IF q = r THEN e ELSE [setting[q] EXCEPT !.alone = FALSE]]
    BY <1>1 DEF LoadPeak
  <2> HIDE DEF first
  <2>4. e \in [value : Int, loaded : Int, alone : BOOLEAN]
        /\ e.loaded = peak /\ e.alone = first
    BY <1>a, <2>1, <2>2
  <2> HIDE DEF e
  <2>5. \A q \in DOMAIN setting :
          /\ [setting[q] EXCEPT !.alone = FALSE]
               \in [value : Int, loaded : Int, alone : BOOLEAN]
          /\ [setting[q] EXCEPT !.alone = FALSE].loaded = setting[q].loaded
          /\ [setting[q] EXCEPT !.alone = FALSE].alone = FALSE
    BY <1>a
  <2>6. DOMAIN setting' = DOMAIN setting \cup {r} /\ setting'[r] = e
        /\ \A q \in DOMAIN setting : setting'[q] = [setting[q] EXCEPT !.alone = FALSE]
    BY <2>3
  <2>7. setting' \in [DOMAIN setting' -> [value : Int, loaded : Int, alone : BOOLEAN]]
    BY <2>3, <2>4, <2>5, <2>6
  <2>8. \A q \in DOMAIN setting' : setting'[q].alone = TRUE => DOMAIN setting' = {q}
    BY <2>2, <2>4, <2>5, <2>6
  <2>9. \A q \in DOMAIN setting' : setting'[q].loaded >= settled'
    BY <1>a, <2>3, <2>4, <2>5, <2>6
  <2> QED BY <1>a, <1>b, <2>3, <2>7, <2>8, <2>9
<1>2. ASSUME NEW r \in Recorders, StorePeak(r) PROVE GaugeInv'
  <2>1. /\ r \in DOMAIN setting /\ DOMAIN setting' = DOMAIN setting \ {r}
        /\ \A q \in DOMAIN setting' : setting'[q] = setting[q]
        /\ setting' \in [DOMAIN setting' -> [value : Int, loaded : Int, alone : BOOLEAN]]
    BY <1>2, <1>a DEF StorePeak
  <2>2. setting[r].loaded \in Int /\ setting[r].value \in Int /\ setting[r].loaded >= settled
    BY <2>1, <1>a
  <2>3. /\ peak' \in Int /\ peak' >= setting[r].loaded /\ peak' >= setting[r].value
    BY <1>2, <2>2 DEF StorePeak, Greater
  <2>4. \/ settled' = settled
        \/ setting[r].alone = TRUE /\ settled' = Greater(settled, setting[r].value)
    BY <1>2, <1>a, <2>1 DEF StorePeak
  <2>5. CASE settled' = settled
    <3>1. peak' >= settled' /\ settled' \in Int
      BY <2>2, <2>3, <2>5, <1>a
    <3>2. \A q \in DOMAIN setting' : setting'[q].loaded >= settled'
      BY <2>1, <2>5, <1>a
    <3>3. \A q \in DOMAIN setting' : setting'[q].alone = TRUE => DOMAIN setting' = {q}
      <4> SUFFICES ASSUME NEW q \in DOMAIN setting', setting'[q].alone = TRUE PROVE FALSE
        OBVIOUS
      <4>1. q \in DOMAIN setting /\ q # r /\ setting[q].alone = TRUE
        BY <2>1
      <4>2. DOMAIN setting = {q}
        BY <4>1, <1>a
      <4> QED BY <4>1, <4>2, <2>1
    <3> QED BY <3>1, <3>2, <3>3, <2>1, <2>3, <1>b
  <2>6. CASE setting[r].alone = TRUE /\ settled' = Greater(settled, setting[r].value)
    <3>1. DOMAIN setting' = {}
      BY <2>1, <2>6, <1>a
    <3>2. settled' \in Int /\ peak' >= settled'
      BY <2>2, <2>3, <2>6, <1>a DEF Greater
    <3> QED BY <3>1, <3>2, <2>1, <2>3, <1>b
  <2> QED BY <2>4, <2>5, <2>6
<1>3. CASE UNCHANGED gaugeVars
  BY <1>3, <1>a, <1>b DEF gaugeVars
<1> QED BY <1>1, <1>2, <1>3 DEF GaugeNext
-----------------------------------------------------------------------------
(* The windows, for sequences of windows and of records.                   *)
Windows == [start_time : 0 .. MaxClock, counts : [Counted -> Nat]]
Recorded == [of : Counted, latest : 0 .. MaxClock]

EndOf(w, i) == IF i < Len(w) THEN w[i + 1].start_time ELSE MaxClock + 1

In(w, rs, i, c) ==
  {r \in 1 .. Len(rs) :
     rs[r].of = c /\ rs[r].latest \in w[i].start_time .. EndOf(w, i) - 1}

(* Windows that fit what was recorded: they start a window length after    *)
(* each other or more, the latest of the records are in the last one, and  *)
(* no record is older than the first one unless there are MAX_WINDOWS.     *)
Apart(w) ==
  \A i, j \in 1 .. Len(w) : i < j => w[j].start_time - w[i].start_time >= window_size_
Spread(w) ==
  \A i \in 1 .. Len(w) :
    w[Len(w)].start_time - w[i].start_time >= (Len(w) - i) * window_size_
CountsFit(w, rs) ==
  \A i \in 1 .. Len(w), c \in Counted : w[i].counts[c] = Cardinality(In(w, rs, i, c))
LastIsOpen(w, rs) ==
  \A r \in 1 .. Len(rs) :
    Len(w) > 0 /\ rs[r].latest - w[Len(w)].start_time < window_size_
NoneIsOlder(w, rs) ==
  Len(w) < MAX_WINDOWS =>
    \A r \in 1 .. Len(rs) : Len(w) > 0 /\ rs[r].latest >= w[1].start_time

Fit(w, rs) ==
  /\ w \in Seq(Windows) /\ rs \in Seq(Recorded)
  /\ Len(w) <= MAX_WINDOWS
  /\ Apart(w) /\ Spread(w) /\ CountsFit(w, rs)
  /\ LastIsOpen(w, rs) /\ NoneIsOlder(w, rs)

(* v is w with one more of counter in the last window.                     *)
OneMore(v, w, counter) ==
  /\ v \in Seq(Windows) /\ Len(v) = Len(w)
  /\ \A i \in 1 .. Len(w) : v[i].start_time = w[i].start_time
  /\ \A i \in 1 .. Len(w), c \in Counted :
       v[i].counts[c] = IF i = Len(w) /\ c = counter
                        THEN w[i].counts[c] + 1 ELSE w[i].counts[c]

LEMMA Later ==
  ASSUME NEW a \in Int, NEW b \in Int, NEW k \in Nat, b - a >= k
  PROVE  a <= b
OBVIOUS

(* A record in the open window is one more there, and in no other.         *)
LEMMA RecordFits ==
  ASSUME NEW w, NEW v, NEW rs, Fit(w, rs), w # <<>>,
         NEW counter \in Counted, NEW t \in 0 .. MaxClock,
         t >= w[Len(w)].start_time, t - w[Len(w)].start_time < window_size_,
         OneMore(v, w, counter)
  PROVE  Fit(v, Append(rs, [of |-> counter, latest |-> t]))
<1> DEFINE n == Len(w)
           m == Len(rs)
           e == [of |-> counter, latest |-> t]
           rs2 == Append(rs, e)
<1>1. /\ w \in Seq(Windows) /\ n \in Nat \ {0}
      /\ \A i \in 1 .. n : w[i].start_time \in 0 .. MaxClock
  <2>1. w \in Seq(Windows)
    BY DEF Fit
  <2>2. n \in Nat \ {0} /\ \A i \in 1 .. n : w[i] \in Windows
    BY <2>1, LenProperties, ElementOfSeq, EmptySeq
  <2> QED BY <2>1, <2>2 DEF Windows
<1>2. /\ rs \in Seq(Recorded) /\ m \in Nat
      /\ \A r \in 1 .. m : rs[r] \in Recorded /\ rs[r].latest \in 0 .. MaxClock
  <2>1. rs \in Seq(Recorded)
    BY DEF Fit
  <2>2. m \in Nat /\ \A r \in 1 .. m : rs[r] \in Recorded
    BY <2>1, LenProperties, ElementOfSeq
  <2> QED BY <2>1, <2>2 DEF Recorded
<1>3. window_size_ \in Nat \ {0} /\ MAX_WINDOWS \in Nat \ {0} /\ MaxClock \in Nat
  BY MetricsConstants
<1>4. /\ rs2 \in Seq(Recorded) /\ Len(rs2) = m + 1 /\ rs2[m + 1] = e
      /\ \A r \in 1 .. m : rs2[r] = rs[r]
  BY <1>2, AppendProperties DEF Recorded
<1>5. 1 .. m + 1 = (1 .. m) \cup {m + 1} /\ m + 1 \notin 1 .. m
  BY <1>2
<1>v. /\ v \in Seq(Windows) /\ Len(v) = n
      /\ \A i \in 1 .. n : v[i].start_time = w[i].start_time
  BY DEF OneMore
<1>6. \A i \in 1 .. n : EndOf(v, i) = EndOf(w, i)
  BY <1>1, <1>v DEF EndOf
<1> HIDE DEF rs2
<1>7. CountsFit(v, rs2)
  <2> SUFFICES ASSUME NEW i \in 1 .. n, NEW c \in Counted
               PROVE  v[i].counts[c] = Cardinality(In(v, rs2, i, c))
    BY <1>v DEF CountsFit
  <2>1. /\ w[i].counts[c] = Cardinality(In(w, rs, i, c))
        /\ IsFiniteSet(In(w, rs, i, c)) /\ m + 1 \notin In(w, rs, i, c)
    <3>1. In(w, rs, i, c) \subseteq 1 .. m
      BY DEF In
    <3>2. IsFiniteSet(1 .. m)
      BY <1>2, FS_Interval
    <3> QED BY <3>1, <3>2, <1>5, FS_Subset DEF Fit, CountsFit
  <2>2. t \in w[i].start_time .. EndOf(w, i) - 1 <=> i = n
    <3>1. CASE i = n
      BY <3>1, <1>1, <1>3 DEF EndOf
    <3>2. CASE i < n
      <4>1. w[i + 1].start_time <= w[n].start_time /\ w[i + 1].start_time \in Int
        <5>1. CASE i + 1 < n
          <6>1. i + 1 \in 1 .. n
            BY <5>1, <1>1
          <6>2. w[n].start_time - w[i + 1].start_time >= window_size_
            BY <5>1, <6>1, <1>1 DEF Fit, Apart
          <6>3. w[i + 1].start_time \in Int /\ w[n].start_time \in Int
            BY <6>1, <1>1
          <6> QED BY <6>2, <6>3, <1>3, Later
        <5>2. CASE i + 1 = n
          BY <5>2, <1>1
        <5> QED BY <5>1, <5>2, <3>2, <1>1
      <4>2. EndOf(w, i) = w[i + 1].start_time
        BY <3>2 DEF EndOf
      <4>3. w[n].start_time \in Int
        BY <1>1
      <4> QED BY <4>1, <4>2, <4>3, <3>2, <1>1
    <3> QED BY <3>1, <3>2, <1>1
  <2>3. In(v, rs2, i, c) = IF i = n /\ c = counter THEN In(w, rs, i, c) \cup {m + 1}
                           ELSE In(w, rs, i, c)
    <3>1. In(v, rs2, i, c) = {r \in (1 .. m) \cup {m + 1} :
             rs2[r].of = c /\ rs2[r].latest \in w[i].start_time .. EndOf(w, i) - 1}
      BY <1>4, <1>5, <1>6, <1>v DEF In
    <3>2. rs2[m + 1].of = counter /\ rs2[m + 1].latest = t
      BY <1>4
    <3> QED BY <3>1, <3>2, <2>2, <1>4 DEF In
  <2>4. v[i].counts[c] = IF i = n /\ c = counter
                         THEN w[i].counts[c] + 1 ELSE w[i].counts[c]
    BY DEF OneMore
  <2>5. CASE i = n /\ c = counter
    <3>1. In(v, rs2, i, c) = In(w, rs, i, c) \cup {m + 1}
      BY <2>3, <2>5
    <3>2. Cardinality(In(w, rs, i, c) \cup {m + 1}) = Cardinality(In(w, rs, i, c)) + 1
      BY <2>1, FS_AddElement
    <3> QED BY <3>1, <3>2, <2>1, <2>4, <2>5
  <2>6. CASE ~(i = n /\ c = counter)
    <3>1. In(v, rs2, i, c) = In(w, rs, i, c)
      BY <2>3, <2>6
    <3> QED BY <3>1, <2>1, <2>4, <2>6
  <2> QED BY <2>5, <2>6
<1>8. Apart(v) /\ Spread(v)
  <2>1. Apart(w) /\ Spread(w)
    BY DEF Fit
  <2>2. n \in 1 .. n /\ v[n].start_time = w[n].start_time
    BY <1>1, <1>v
  <2>3. Apart(v)
    BY <2>1, <1>v DEF Apart
  <2>4. Spread(v)
    BY <2>1, <2>2, <1>v DEF Spread
  <2> QED BY <2>3, <2>4
<1>9. LastIsOpen(v, rs2)
  <2>1. Len(v) > 0 /\ v[Len(v)].start_time = w[n].start_time
    BY <1>1, <1>v
  <2>2. LastIsOpen(w, rs)
    BY DEF Fit
  <2>3. \A r \in 1 .. m : rs2[r].latest - w[n].start_time < window_size_
    BY <1>4, <2>2 DEF LastIsOpen
  <2>4. rs2[m + 1].latest - w[n].start_time < window_size_
    BY <1>4
  <2>5. ASSUME NEW r \in 1 .. Len(rs2)
        PROVE  Len(v) > 0 /\ rs2[r].latest - v[Len(v)].start_time < window_size_
    BY <1>4, <1>5, <2>1, <2>3, <2>4
  <2> QED BY <2>5 DEF LastIsOpen
<1>10. NoneIsOlder(v, rs2)
  <2>1. t >= w[1].start_time
    <3>1. CASE n = 1
      BY <3>1
    <3>2. CASE n > 1
      <4>1. w[n].start_time - w[1].start_time >= window_size_
        <5>1. 1 \in 1 .. n /\ n \in 1 .. n
          BY <1>1
        <5> QED BY <5>1, <3>2 DEF Fit, Apart
      <4>2. w[n].start_time \in Int /\ w[1].start_time \in Int
        BY <1>1
      <4> QED BY <4>1, <4>2, <1>3
    <3> QED BY <3>1, <3>2, <1>1
  <2>2. \A r \in 1 .. m + 1 : r \in 1 .. m \/ (r = m + 1 /\ rs2[r].latest = t)
    BY <1>4, <1>5
  <2>3. Len(v) = n /\ n > 0 /\ v[1].start_time = w[1].start_time
    BY <1>1, <1>v
  <2>4. Len(w) < MAX_WINDOWS =>
          \A r \in 1 .. m : rs2[r].latest >= w[1].start_time
    BY <1>4 DEF Fit, NoneIsOlder
  <2> QED BY <2>1, <2>2, <2>3, <2>4, <1>1, <1>4 DEF NoneIsOlder
<1> QED BY <1>4, <1>v, <1>7, <1>8, <1>9, <1>10 DEF Fit, rs2

(* The windows after a new one at time t, which none was recorded at or    *)
(* after.  The oldest is gone if there were MAX_WINDOWS.                   *)
Fresh(t) == [start_time |-> t, counts |-> [c \in Counted |-> 0]]

Opened(v, w, d, t) ==
  /\ d \in {0, 1}
  /\ d = 0 => Len(w) < MAX_WINDOWS
  /\ d = 1 => Len(w) = MAX_WINDOWS
  /\ Len(w) > 0 => t - w[Len(w)].start_time >= window_size_
  /\ v \in Seq(Windows) /\ Len(v) = (Len(w) - d) + 1
  /\ \A i \in 1 .. Len(w) - d : v[i] = w[i + d]
  /\ v[(Len(w) - d) + 1] = Fresh(t)

LEMMA Moved ==
  ASSUME NEW n \in Nat, NEW d \in {0, 1}, NEW max \in Nat \ {0}, n <= max,
         d = 0 => n < max, d = 1 => n = max
  PROVE  /\ (n - d) + 1 \in Nat \ {0} /\ (n - d) + 1 <= max
         /\ \A i \in 1 .. (n - d) + 1 :
              i = (n - d) + 1 \/ (i \in 1 .. n - d /\ i + d \in 1 .. n)
OBVIOUS

LEMMA Farther ==
  ASSUME NEW a \in Int, NEW b \in Int, NEW c \in Int, NEW x \in Int, NEW k \in Int,
         c - b >= k, b - a >= x
  PROVE  c - a >= x + k
OBVIOUS

LEMMA Earlier ==
  ASSUME NEW a \in Int, NEW b \in Int, NEW c \in Int, NEW k \in Int,
         c - b < k, a - b >= k
  PROVE  c < a
OBVIOUS

LEMMA OneMoreTimes ==
  ASSUME NEW a \in Int, NEW b \in Int PROVE (a + 1) * b = a * b + b /\ a * b \in Int
OBVIOUS

LEMMA WindowFits ==
  ASSUME NEW w, NEW v, NEW rs, Fit(w, rs), NEW d, NEW t \in 0 .. MaxClock,
         Opened(v, w, d, t)
  PROVE  Fit(v, rs)
<1> DEFINE n == Len(w)
           N == (Len(w) - d) + 1
           m == Len(rs)
           ws == window_size_
<1>1. /\ w \in Seq(Windows) /\ n \in Nat
      /\ \A i \in 1 .. n : w[i].start_time \in 0 .. MaxClock
  <2>1. w \in Seq(Windows)
    BY DEF Fit
  <2>2. n \in Nat /\ \A i \in 1 .. n : w[i] \in Windows
    BY <2>1, LenProperties, ElementOfSeq
  <2> QED BY <2>1, <2>2 DEF Windows
<1>2. m \in Nat /\ \A r \in 1 .. m : rs[r].latest \in 0 .. MaxClock
  <2>1. rs \in Seq(Recorded)
    BY DEF Fit
  <2>2. m \in Nat /\ \A r \in 1 .. m : rs[r] \in Recorded
    BY <2>1, LenProperties, ElementOfSeq
  <2> QED BY <2>1, <2>2 DEF Recorded
<1>3. ws \in Nat \ {0} /\ MAX_WINDOWS \in Nat \ {0} /\ MaxClock \in Nat
  BY MetricsConstants
<1>e. t \in Int /\ t <= MaxClock /\ ws \in Int /\ ws > 0
  BY <1>3
<1>a. /\ d \in {0, 1} /\ (d = 0 => n < MAX_WINDOWS) /\ (d = 1 => n = MAX_WINDOWS)
      /\ n <= MAX_WINDOWS /\ Len(v) = N
  BY DEF Opened, Fit
<1>4. /\ N \in Nat \ {0} /\ N <= MAX_WINDOWS
      /\ \A i \in 1 .. N : i = N \/ (i \in 1 .. n - d /\ i + d \in 1 .. n)
  BY <1>1, <1>3, <1>a, Moved
<1>b. \A i \in 1 .. N : i # N => i \in 1 .. N - 1 /\ i \in 1 .. n - d
  BY <1>1, <1>4, <1>a
<1>5. /\ v[N].start_time = t /\ \A c \in Counted : v[N].counts[c] = 0
      /\ \A i \in 1 .. n - d : v[i] = w[i + d]
  BY DEF Fresh, Opened
<1>c. n > 0 => t - w[n].start_time >= ws
  BY DEF Opened
<1>d. n > 0 => n \in 1 .. n
  BY <1>1
<1>6. \A r \in 1 .. m : rs[r].latest < t
  <2> SUFFICES ASSUME NEW r \in 1 .. m PROVE rs[r].latest < t
    OBVIOUS
  <2>1. n > 0 /\ rs[r].latest - w[n].start_time < ws
    BY DEF Fit, LastIsOpen
  <2>2. w[n].start_time \in Int /\ rs[r].latest \in Int
    BY <2>1, <1>1, <1>2, <1>d
  <2>3. t - w[n].start_time >= ws
    BY <2>1, <1>c
  <2> QED BY <2>1, <2>2, <2>3, <1>e, Earlier
<1>7. \A i \in 1 .. n : t - w[i].start_time >= ((n + 1) - i) * ws
  <2> SUFFICES ASSUME NEW i \in 1 .. n PROVE t - w[i].start_time >= ((n + 1) - i) * ws
    OBVIOUS
  <2>1. w[n].start_time - w[i].start_time >= (n - i) * ws
    BY DEF Fit, Spread
  <2>2. n > 0 /\ t - w[n].start_time >= ws
    BY <1>1, <1>c
  <2>3. ((n + 1) - i) * ws = (n - i) * ws + ws /\ (n - i) * ws \in Int
    <3>1. (n + 1) - i = (n - i) + 1 /\ n - i \in Int /\ ws \in Int
      BY <1>1, <1>3
    <3> QED BY <3>1, OneMoreTimes
  <2>4. w[n].start_time \in Int /\ w[i].start_time \in Int /\ ws \in Int
    BY <2>2, <1>1, <1>3, <1>d
  <2>5. t - w[i].start_time >= (n - i) * ws + ws
    BY <2>1, <2>2, <2>3, <2>4, <1>e, Farther
  <2> QED BY <2>3, <2>5
<1>8. \A i \in 1 .. n : t - w[i].start_time >= ws /\ w[i].start_time <= t
  <2> SUFFICES ASSUME NEW i \in 1 .. n
               PROVE  t - w[i].start_time >= ws /\ w[i].start_time <= t
    OBVIOUS
  <2>1. n > 0 /\ t - w[n].start_time >= ws
    BY <1>1, <1>c
  <2>2. i = n \/ w[n].start_time - w[i].start_time >= ws
    <3>1. i # n => i < n /\ n \in 1 .. n
      BY <1>1
    <3> QED BY <3>1 DEF Fit, Apart
  <2>3. w[n].start_time \in Int /\ w[i].start_time \in Int
    BY <2>1, <1>1, <1>d
  <2>4. CASE i = n
    BY <2>1, <2>3, <2>4, <1>3, <1>e, Later
  <2>5. CASE i # n
    <3>1. t - w[i].start_time >= ws + ws
      BY <2>1, <2>2, <2>3, <2>5, <1>e, Farther
    <3>2. t - w[i].start_time \in Int /\ ws + ws >= ws /\ ws + ws \in Int
      BY <2>3, <1>e
    <3>3. t - w[i].start_time >= ws
      BY <3>1, <3>2, <1>e
    <3> QED BY <3>3, <2>3, <1>3, <1>e, Later
  <2> QED BY <2>4, <2>5
<1>9. Apart(v)
  <2> SUFFICES ASSUME NEW i \in 1 .. N, NEW j \in 1 .. N, i < j
               PROVE  v[j].start_time - v[i].start_time >= ws
    BY <1>a DEF Apart
  <2>1. i # N
    BY <1>4
  <2>0. i + d \in 1 .. n /\ v[i] = w[i + d]
    BY <2>1, <1>4, <1>5
  <2>2. CASE j = N
    BY <2>0, <2>2, <1>5, <1>8
  <2>3. CASE j # N
    <3>1. j + d \in 1 .. n /\ v[j] = w[j + d] /\ i + d < j + d
      BY <2>3, <1>4, <1>5, <1>a
    <3> QED BY <2>0, <3>1 DEF Fit, Apart
  <2> QED BY <2>2, <2>3
<1>10. Spread(v)
  <2> SUFFICES ASSUME NEW i \in 1 .. N
               PROVE  t - v[i].start_time >= (N - i) * ws
    BY <1>a, <1>5 DEF Spread
  <2>1. CASE i = N
    BY <2>1, <1>3, <1>5
  <2>2. CASE i # N
    <3>1. i + d \in 1 .. n /\ v[i] = w[i + d] /\ (n + 1) - (i + d) = N - i
      BY <2>2, <1>1, <1>4, <1>5, <1>a
    <3>2. t - w[i + d].start_time >= ((n + 1) - (i + d)) * ws
      BY <3>1, <1>7
    <3> QED BY <3>1, <3>2
  <2> QED BY <2>1, <2>2
<1>11. CountsFit(v, rs)
  <2> SUFFICES ASSUME NEW i \in 1 .. N, NEW c \in Counted
               PROVE  v[i].counts[c] = Cardinality(In(v, rs, i, c))
    BY <1>a DEF CountsFit
  <2>1. CASE i = N
    <3>1. In(v, rs, N, c) = {}
      <4> SUFFICES ASSUME NEW r \in 1 .. m,
                          rs[r].latest \in t .. EndOf(v, N) - 1
                   PROVE  FALSE
        BY <1>5 DEF In
      <4>1. EndOf(v, N) = MaxClock + 1
        BY <1>a, <1>4 DEF EndOf
      <4> QED BY <4>1, <1>2, <1>3, <1>6
    <3> QED BY <2>1, <3>1, <1>5, FS_EmptySet
  <2>2. CASE i # N
    <3>1. i \in 1 .. N - 1 /\ i + d \in 1 .. n /\ v[i] = w[i + d]
      BY <2>2, <1>4, <1>5, <1>b
    <3>2. \A r \in 1 .. m :
            rs[r].latest <= EndOf(v, i) - 1 <=> rs[r].latest <= EndOf(w, i + d) - 1
      <4>1. CASE i = N - 1
        <5>1. EndOf(v, i) = t /\ EndOf(w, i + d) = MaxClock + 1
          BY <4>1, <1>1, <1>4, <1>5, <1>a DEF EndOf
        <5>2. \A x \in 0 .. MaxClock : x < t => x <= t - 1 /\ x <= (MaxClock + 1) - 1
          BY <1>3, <1>e
        <5> QED BY <5>1, <5>2, <1>2, <1>6
      <4>2. CASE i # N - 1
        <5>1. i + 1 \in 1 .. N - 1 /\ v[i + 1] = w[(i + 1) + d] /\ (i + 1) + d = (i + d) + 1
          BY <4>2, <3>1, <1>1, <1>4, <1>5, <1>a, <1>b
        <5>2. EndOf(v, i) = EndOf(w, i + d)
          BY <5>1, <3>1, <1>1, <1>4, <1>a DEF EndOf
        <5> QED BY <5>2
      <4> QED BY <4>1, <4>2
    <3>3. EndOf(v, i) \in Int /\ EndOf(w, i + d) \in Int /\ w[i + d].start_time \in Int
      <4>1. EndOf(w, i + d) \in Int
        <5>1. CASE i + d < n
          BY <5>1, <3>1, <1>1 DEF EndOf
        <5>2. CASE ~(i + d < n)
          BY <5>2, <1>3 DEF EndOf
        <5> QED BY <5>1, <5>2
      <4>2. EndOf(v, i) \in Int
        <5>1. i + 1 \in 1 .. N
          BY <3>1, <1>4
        <5>2. v[i + 1].start_time \in Int
          BY <5>1, <1>1, <1>4, <1>5
        <5> QED BY <5>2, <3>1, <1>4, <1>a DEF EndOf
      <4> QED BY <4>1, <4>2, <3>1, <1>1
    <3>4. In(v, rs, i, c) = In(w, rs, i + d, c)
      <4>1. ASSUME NEW r \in 1 .. m
            PROVE  rs[r].latest \in v[i].start_time .. EndOf(v, i) - 1
                     <=> rs[r].latest \in w[i + d].start_time .. EndOf(w, i + d) - 1
        <5>1. rs[r].latest \in Int /\ v[i].start_time = w[i + d].start_time
          BY <3>1, <1>2
        <5>2. rs[r].latest <= EndOf(v, i) - 1 <=> rs[r].latest <= EndOf(w, i + d) - 1
          BY <3>2
        <5> QED BY <5>1, <5>2, <3>3
      <4> QED BY <4>1 DEF In
    <3>5. w[i + d].counts[c] = Cardinality(In(w, rs, i + d, c))
      BY <3>1 DEF Fit, CountsFit
    <3> QED BY <3>1, <3>4, <3>5
  <2> QED BY <2>1, <2>2
<1>12. LastIsOpen(v, rs)
  <2> SUFFICES ASSUME NEW r \in 1 .. m PROVE rs[r].latest - t < ws
    BY <1>4, <1>5, <1>a DEF LastIsOpen
  <2>1. rs[r].latest < t /\ rs[r].latest \in Int
    BY <1>2, <1>6
  <2> QED BY <2>1, <1>3
<1>13. NoneIsOlder(v, rs)
  <2> SUFFICES ASSUME N < MAX_WINDOWS, NEW r \in 1 .. m
               PROVE  rs[r].latest >= v[1].start_time
    BY <1>4, <1>a DEF NoneIsOlder
  <2>1. d = 0 /\ n < MAX_WINDOWS
    BY <1>1, <1>a
  <2>2. n > 0 /\ rs[r].latest >= w[1].start_time
    BY <2>1 DEF Fit, NoneIsOlder
  <2>3. v[1] = w[1]
    BY <2>1, <2>2, <1>1, <1>5
  <2> QED BY <2>2, <2>3
<1>14. v \in Seq(Windows) /\ rs \in Seq(Recorded)
  BY DEF Fit, Opened
<1> QED BY <1>4, <1>9, <1>10, <1>11, <1>12, <1>13, <1>14, <1>a DEF Fit

WindowInv ==
  /\ clock \in 0 .. MaxClock
  /\ Fit(time_windows_, records)
  /\ \A i, j \in 1 .. Len(records) : i <= j => records[i].latest <= records[j].latest
  /\ Len(time_windows_) > 0 =>
       /\ Len(records) > 0
       /\ records[Len(records)].latest >= LastWindow.start_time

(* What Record counts is one more.                                         *)
LEMMA CountsOneMore ==
  ASSUME NEW w \in Seq(Windows), Len(w) > 0, NEW c \in Counted
  PROVE  OneMore([w EXCEPT ![Len(w)].counts[c] = @ + 1], w, c)
<1> DEFINE n == Len(w)
           e == [w[n] EXCEPT !.counts[c] = @ + 1]
           v == [w EXCEPT ![n] = e]
<1>1. n \in Nat /\ n \in 1 .. n /\ w \in [1 .. n -> Windows] /\ w[n] \in Windows
  BY LenProperties, ElementOfSeq
<1>2. /\ e \in Windows /\ e.start_time = w[n].start_time
      /\ \A d \in Counted : e.counts[d] = IF d = c THEN w[n].counts[d] + 1
                                          ELSE w[n].counts[d]
  <2> DEFINE f == [w[n].counts EXCEPT ![c] = @ + 1]
  <2>1. w[n].counts \in [Counted -> Nat] /\ w[n].start_time \in 0 .. MaxClock
    BY <1>1 DEF Windows
  <2>2. f \in [Counted -> Nat] /\ \A d \in Counted : f[d] = IF d = c THEN w[n].counts[d] + 1
                                                            ELSE w[n].counts[d]
    BY <2>1
  <2>3. e = [w[n] EXCEPT !.counts = f]
    BY <1>1 DEF Windows
  <2> HIDE DEF f, e
  <2>4. e \in Windows /\ e.start_time = w[n].start_time /\ e.counts = f
    BY <1>1, <2>2, <2>3 DEF Windows
  <2> QED BY <2>2, <2>4
<1> HIDE DEF e
<1>3. v \in Seq(Windows) /\ Len(v) = n
  BY <1>1, <1>2, ExceptSeq
<1>4. \A i \in 1 .. n : v[i] = IF i = n THEN e ELSE w[i]
  BY <1>1
<1>5. v = [w EXCEPT ![n].counts[c] = @ + 1]
  BY <1>1 DEF e
<1> HIDE DEF v
<1>6. OneMore(v, w, c)
  BY <1>2, <1>3, <1>4 DEF OneMore
<1> QED BY <1>5, <1>6

(* The latest time is that of the last record, or the clock's.             *)
LEMMA LatestOfAll ==
  ASSUME WindowInv
  PROVE  /\ LatestTime \in 0 .. MaxClock /\ LatestTime >= clock
         /\ \A i \in 1 .. Len(records) : records[i].latest <= LatestTime
         /\ \/ LatestTime = clock
            \/ \E i \in 1 .. Len(records) : LatestTime = records[i].latest
<1> DEFINE m == Len(records)
           times == {clock} \cup {records[i].latest : i \in 1 .. m}
<1>1. MaxClock \in Nat /\ clock \in 0 .. MaxClock
  BY MetricsConstants DEF WindowInv
<1>2. m \in Nat /\ \A i \in 1 .. m : records[i].latest \in 0 .. MaxClock
  <2>1. records \in Seq(Recorded)
    BY DEF WindowInv, Fit
  <2>2. m \in Nat /\ \A i \in 1 .. m : records[i] \in Recorded
    BY <2>1, LenProperties, ElementOfSeq
  <2> QED BY <2>2 DEF Recorded
<1>3. \E t \in times : \A u \in times : u <= t
  <2>1. CASE m = 0
    <3>1. times = {clock}
      BY <2>1
    <3>2. clock <= clock
      BY <1>1
    <3> HIDE DEF times
    <3>3. \A u \in times : u <= clock
      BY <3>1, <3>2
    <3> QED BY <3>1, <3>3
  <2>2. CASE m > 0
    <3>1. m \in 1 .. m /\ \A i \in 1 .. m : records[i].latest <= records[m].latest
      BY <2>2, <1>2 DEF WindowInv
    <3>2. CASE records[m].latest <= clock
      <4>1. \A u \in times : u <= clock
        BY <3>1, <3>2, <1>1, <1>2
      <4> QED BY <4>1
    <3>3. CASE clock <= records[m].latest
      <4>1. \A u \in times : u <= records[m].latest
        BY <3>1, <3>3, <1>1, <1>2
      <4> QED BY <4>1, <3>1
    <3> QED BY <3>1, <3>2, <3>3, <1>1, <1>2
  <2> QED BY <2>1, <2>2, <1>2
<1>4. LatestTime = CHOOSE t \in times : \A u \in times : u <= t
  BY DEF LatestTime
<1>5. LatestTime \in times /\ \A u \in times : u <= LatestTime
  BY <1>3, <1>4
<1>6. LatestTime = clock \/ \E i \in 1 .. m : LatestTime = records[i].latest
  BY <1>5
<1>7. clock \in times /\ \A i \in 1 .. m : records[i].latest \in times
  OBVIOUS
<1> HIDE DEF times
<1> QED BY <1>1, <1>2, <1>5, <1>6, <1>7

LEMMA RecordStep ==
  ASSUME WindowInv, NEW counter \in Counted, Record(counter)
  PROVE  WindowInv'
<1> DEFINE w == time_windows_
           n == Len(time_windows_)
           m == Len(records)
           g == GetCurrentWindow
           t == LatestTime
           e == [of |-> counter, latest |-> t]
<1>1. /\ Fit(w, records) /\ w \in Seq(Windows) /\ n \in Nat
      /\ \A i \in 1 .. n : w[i] \in Windows /\ w[i].start_time \in 0 .. MaxClock
  <2>1. Fit(w, records) /\ w \in Seq(Windows)
    BY DEF WindowInv, Fit
  <2>2. n \in Nat /\ \A i \in 1 .. n : w[i] \in Windows
    BY <2>1, LenProperties, ElementOfSeq
  <2> QED BY <2>1, <2>2 DEF Windows
<1>2. /\ records \in Seq(Recorded) /\ m \in Nat
      /\ \A i \in 1 .. m : records[i].latest \in 0 .. MaxClock
  <2>1. records \in Seq(Recorded)
    BY DEF WindowInv, Fit
  <2>2. m \in Nat /\ \A i \in 1 .. m : records[i] \in Recorded
    BY <2>1, LenProperties, ElementOfSeq
  <2> QED BY <2>1, <2>2 DEF Recorded
<1>3. /\ window_size_ \in Nat \ {0} /\ MAX_WINDOWS \in Nat \ {0} /\ MaxClock \in Nat
      /\ clock \in 0 .. MaxClock
  BY MetricsConstants DEF WindowInv
<1>4. /\ t \in 0 .. MaxClock /\ t >= clock
      /\ \A i \in 1 .. m : records[i].latest <= t
      /\ t = clock \/ \E i \in 1 .. m : t = records[i].latest
  BY LatestOfAll
<1>5. \A i \in 1 .. m : n > 0 /\ records[i].latest - w[n].start_time < window_size_
  BY <1>1 DEF Fit, LastIsOpen
<1> HIDE DEF t
<1>6. /\ Fit(g, records) /\ g \in Seq(Windows) /\ Len(g) > 0
      /\ t >= g[Len(g)].start_time /\ t - g[Len(g)].start_time < window_size_
  <2>1. CASE WindowIsOver
    <3> DEFINE d == IF n >= MAX_WINDOWS THEN 1 ELSE 0
               k == Kept
               f == Fresh(clock)
    <3>1. g = Append(k, f) /\ f \in Windows /\ f.start_time = clock
      BY <2>1, <1>3 DEF GetCurrentWindow, Fresh, Windows
    <3>2. n <= MAX_WINDOWS
      BY <1>1 DEF Fit
    <3>3. /\ d \in {0, 1} /\ (d = 0 => n < MAX_WINDOWS) /\ (d = 1 => n = MAX_WINDOWS)
      BY <3>2, <1>1, <1>3
    <3>4. /\ k \in Seq(Windows) /\ Len(k) = n - d /\ \A i \in 1 .. n - d : k[i] = w[i + d]
      <4>1. CASE n >= MAX_WINDOWS
        <5>1. w # <<>> /\ k = Tail(w) /\ d = 1
          BY <4>1, <1>1, <1>3, EmptySeq DEF Kept
        <5>2. /\ Tail(w) \in Seq(Windows) /\ Len(Tail(w)) = n - 1
              /\ \A i \in 1 .. Len(Tail(w)) : Tail(w)[i] = w[i + 1]
          BY <5>1, <1>1, HeadTailProperties
        <5> HIDE DEF d, k
        <5> QED BY <5>1, <5>2
      <4>2. CASE ~(n >= MAX_WINDOWS)
        <5>1. k = w /\ d = 0
          BY <4>2 DEF Kept
        <5> QED BY <5>1, <1>1
      <4> QED BY <4>1, <4>2
    <3> HIDE DEF d, k, f
    <3>5. /\ Append(k, f) \in Seq(Windows) /\ Len(Append(k, f)) = (n - d) + 1
          /\ \A i \in 1 .. n - d : Append(k, f)[i] = w[i + d]
          /\ Append(k, f)[(n - d) + 1] = f
      BY <3>1, <3>4, AppendProperties
    <3>6. n > 0 => clock - w[n].start_time >= window_size_
      <4>1. n > 0 => w # <<>>
        BY <1>1, EmptySeq
      <4> QED BY <2>1, <4>1 DEF WindowIsOver, LastWindow
    <3>7. Opened(g, w, d, clock)
      BY <3>1, <3>3, <3>5, <3>6 DEF Opened, f
    <3>8. Fit(g, records)
      BY <3>7, <1>1, <1>3, WindowFits
    <3>9. t = clock
      <4> SUFFICES ASSUME NEW i \in 1 .. m, t = records[i].latest PROVE t = clock
        BY <1>4
      <4>1. n > 0 /\ records[i].latest - w[n].start_time < window_size_
        BY <1>5
      <4>2. w[n].start_time \in Int
        BY <4>1, <1>1
      <4>3. records[i].latest < clock
        <5>1. /\ records[i].latest \in Int /\ clock \in Int /\ window_size_ \in Int
              /\ clock - w[n].start_time >= window_size_
          BY <4>1, <3>6, <1>2, <1>3
        <5> QED BY <4>1, <4>2, <5>1, Earlier
      <4> QED BY <4>3, <1>2, <1>3, <1>4
    <3>10. g[Len(g)].start_time = clock /\ Len(g) > 0
      BY <3>1, <3>3, <3>4, <3>5, <1>1, LenProperties
    <3> QED BY <3>1, <3>5, <3>8, <3>9, <3>10, <1>3
  <2>2. CASE ~WindowIsOver
    <3>1. g = w /\ n > 0 /\ clock - w[n].start_time < window_size_
      <4>1. g = w /\ w # <<>> /\ ~(clock - w[n].start_time >= window_size_)
        BY <2>2 DEF GetCurrentWindow, WindowIsOver, LastWindow
      <4>2. n > 0
        BY <4>1, <1>1, EmptySeq
      <4>3. w[n].start_time \in Int
        BY <4>2, <1>1
      <4> QED BY <4>1, <4>2, <4>3, <1>3
    <3>2. m > 0 /\ records[m].latest >= w[n].start_time
      BY <3>1 DEF WindowInv, LastWindow
    <3>3. w[n].start_time \in Int /\ records[m].latest \in Int /\ records[m].latest <= t
      BY <3>1, <3>2, <1>1, <1>2, <1>4
    <3>4. t >= w[n].start_time
      BY <3>2, <3>3, <1>4
    <3>5. t - w[n].start_time < window_size_
      BY <3>1, <1>4, <1>5
    <3> QED BY <3>1, <3>4, <3>5, <1>1
  <2> QED BY <2>1, <2>2
<1>7. time_windows_' = [g EXCEPT ![Len(g)].counts[counter] = @ + 1]
  BY DEF Record
<1>8. records' = Append(records, e) /\ clock' = clock
  BY DEF Record, t
<1> HIDE DEF g
<1>9. OneMore(time_windows_', g, counter)
  BY <1>6, <1>7, CountsOneMore
<1>10. Fit(time_windows_', records')
  <2>1. g # <<>>
    BY <1>6, EmptySeq
  <2> QED BY <2>1, <1>4, <1>6, <1>8, <1>9, RecordFits
<1>11. /\ Len(records') = m + 1 /\ records'[m + 1].latest = t
       /\ \A i \in 1 .. m : records'[i] = records[i]
  <2>1. e \in Recorded /\ e.latest = t
    BY <1>4 DEF Recorded
  <2> HIDE DEF e
  <2> QED BY <2>1, <1>2, <1>8, AppendProperties
<1>12. \A i, j \in 1 .. m + 1 : i <= j => records'[i].latest <= records'[j].latest
  <2> SUFFICES ASSUME NEW i \in 1 .. m + 1, NEW j \in 1 .. m + 1, i <= j
               PROVE  records'[i].latest <= records'[j].latest
    OBVIOUS
  <2>1. CASE j \in 1 .. m
    <3>1. i \in 1 .. m
      BY <2>1, <1>2
    <3> QED BY <2>1, <3>1, <1>11 DEF WindowInv
  <2>2. CASE j = m + 1 /\ i \in 1 .. m
    BY <2>2, <1>4, <1>11
  <2>3. CASE j = m + 1 /\ i = m + 1
    BY <2>3, <1>4, <1>11
  <2> QED BY <2>1, <2>2, <2>3, <1>2
<1>13. /\ Len(time_windows_') = Len(g)
       /\ LastWindow'.start_time = g[Len(g)].start_time
  <2>1. Len(g) \in Nat /\ Len(g) \in 1 .. Len(g)
    BY <1>6, LenProperties
  <2> QED BY <2>1, <1>9 DEF OneMore, LastWindow
<1>14. /\ Len(records') > 0 /\ records'[Len(records')].latest >= LastWindow'.start_time
  BY <1>2, <1>6, <1>11, <1>13
<1> QED BY <1>3, <1>8, <1>10, <1>11, <1>12, <1>14 DEF WindowInv

LEMMA NotOlder ==
  ASSUME NEW a \in Int, NEW b \in Int, NEW c \in Int, NEW x \in Int,
         b - a >= x, c > b - x
  PROVE  c >= a
OBVIOUS

LEMMA WindowsInOrder == WindowInv => EachRecordInItsWindow
<1> SUFFICES ASSUME WindowInv PROVE EachRecordInItsWindow
  OBVIOUS
<1> DEFINE w == time_windows_
           n == Len(time_windows_)
           m == Len(records)
<1>1. /\ Fit(w, records) /\ n \in Nat /\ \A i \in 1 .. n : w[i].start_time \in Int
  <2>1. Fit(w, records) /\ w \in Seq(Windows)
    BY DEF WindowInv, Fit
  <2>2. n \in Nat /\ \A i \in 1 .. n : w[i] \in Windows
    BY <2>1, LenProperties, ElementOfSeq
  <2> QED BY <2>1, <2>2 DEF Windows
<1>2. m \in Nat /\ \A i \in 1 .. m : records[i].latest \in Int
  <2>1. records \in Seq(Recorded)
    BY DEF WindowInv, Fit
  <2>2. m \in Nat /\ \A i \in 1 .. m : records[i] \in Recorded
    BY <2>1, LenProperties, ElementOfSeq
  <2> QED BY <2>2 DEF Recorded
<1>3. window_size_ \in Nat \ {0} /\ MAX_WINDOWS \in Nat \ {0}
  BY MetricsConstants
<1>4. \A i : End(i) = EndOf(w, i)
  BY DEF End, EndOf
<1>5. ASSUME NEW i \in 1 .. n - 1
      PROVE  End(i) - w[i].start_time >= window_size_
  <2>1. i \in 1 .. n /\ i + 1 \in 1 .. n /\ i < i + 1 /\ i < n
    BY <1>1
  <2>2. End(i) = w[i + 1].start_time
    BY <2>1, <1>4 DEF EndOf
  <2> QED BY <2>1, <2>2, <1>1 DEF Fit, Apart
<1>6. ASSUME NEW i \in 1 .. n, NEW c \in Counted
      PROVE  w[i].counts[c] = Cardinality({r \in 1 .. m :
               records[r].of = c /\ records[r].latest \in w[i].start_time .. End(i) - 1})
  BY <1>1, <1>4 DEF Fit, CountsFit, In
<1>7. ASSUME NEW r \in 1 .. m,
             records[r].latest > w[n].start_time - (MAX_WINDOWS - 1) * window_size_
      PROVE  records[r].latest >= w[1].start_time
  <2>1. CASE n < MAX_WINDOWS
    BY <2>1, <1>1 DEF Fit, NoneIsOlder
  <2>2. CASE n = MAX_WINDOWS
    <3>1. 1 \in 1 .. n /\ n \in 1 .. n
      BY <2>2, <1>3
    <3>2. w[n].start_time - w[1].start_time >= (MAX_WINDOWS - 1) * window_size_
      BY <2>2, <3>1, <1>1 DEF Fit, Spread
    <3>3. (MAX_WINDOWS - 1) * window_size_ \in Int
      BY <1>3
    <3> DEFINE x == (MAX_WINDOWS - 1) * window_size_
    <3> HIDE DEF x
    <3>4. /\ w[n].start_time - w[1].start_time >= x /\ x \in Int
          /\ records[r].latest > w[n].start_time - x
          /\ records[r].latest \in Int /\ w[n].start_time \in Int /\ w[1].start_time \in Int
      BY <3>1, <3>2, <3>3, <1>1, <1>2, <1>7 DEF x
    <3> QED BY <3>4, NotOlder
  <2> QED BY <2>1, <2>2, <1>1, <1>3 DEF Fit
<1>8. n <= MAX_WINDOWS
  BY <1>1 DEF Fit
<1> QED BY <1>5, <1>6, <1>7, <1>8 DEF EachRecordInItsWindow, LastWindow

(* Each window counts just what was recorded in it, wherever the clock is  *)
(* set, and the peak covers what was set alone.                            *)
THEOREM MetricsStay == MetricsSpec => []MetricsAreKept
<1>1. MetricsInit => WindowInv /\ GaugeInv
  <2> SUFFICES ASSUME MetricsInit PROVE WindowInv /\ GaugeInv
    OBVIOUS
  <2>1. WindowInv
    BY MetricsConstants
       DEF MetricsInit, WindowInv, Fit, Apart, Spread, CountsFit, LastIsOpen, NoneIsOlder
  <2>2. GaugeInv
    BY DEF MetricsInit, GaugeInv, PeakCoversUsage
  <2> QED BY <2>1, <2>2
<1>2. WindowInv /\ [MetricsNext]_metricsVars => WindowInv'
  <2> SUFFICES ASSUME WindowInv, [MetricsNext]_metricsVars PROVE WindowInv'
    OBVIOUS
  <2>1. ASSUME NEW t \in 0 .. MaxClock, ClockIsSet(t) PROVE WindowInv'
    BY <2>1 DEF ClockIsSet, WindowInv, LastWindow
  <2>2. ASSUME NEW c \in Counted, Record(c) PROVE WindowInv'
    BY <2>2, RecordStep
  <2>3. CASE UNCHANGED windowVars
    BY <2>3 DEF windowVars, WindowInv, LastWindow
  <2> QED BY <2>1, <2>2, <2>3 DEF MetricsNext, WindowsNext, metricsVars
<1>3. GaugeInv /\ [MetricsNext]_metricsVars => GaugeInv'
  BY GaugeStep DEF MetricsNext, metricsVars
<1>4. WindowInv /\ GaugeInv => MetricsAreKept
  BY WindowsInOrder DEF MetricsAreKept, GaugeInv
<1> QED BY <1>1, <1>2, <1>3, <1>4, PTL DEF MetricsSpec
-----------------------------------------------------------------------------
(* Lines.  A set of naturals has a least element; so a newline in the      *)
(* buffer is found at its first place.                                     *)
Bytes == Nat \X Nat
Newline(s) == SelectInSeq(s, LAMBDA b : b = NL)

LEMMA FirstNewline ==
  ASSUME NEW s \in Seq(Bytes), Contains(s, NL)
  PROVE  /\ Newline(s) \in 1 .. Len(s) /\ s[Newline(s)] = NL
         /\ \A p \in 1 .. Len(s) : p < Newline(s) => s[p] # NL
<1> DEFINE I == {i \in 1 .. Len(s) : s[i] = NL}
<1>1. Len(s) \in Nat /\ I \subseteq Nat /\ I # {}
  BY LenProperties DEF Contains
<1>2. \E x \in I : \A y \in I : x <= y
  <2> DEFINE R == OpToRel(<, Nat)
  <2>1. IsWellFoundedOn(R, Nat)
    BY NatLessThanWellFounded, Zenon
  <2>2. \A x, y \in Nat : x < y => <<x, y>> \in R
    BY DEF OpToRel
  <2> HIDE DEF R, I
  <2>3. PICK x \in I : \A y \in I : <<y, x>> \notin R
    BY <1>1, <2>1, WFMin
  <2>4. ASSUME NEW y \in I PROVE x <= y
    <3>1. x \in Nat /\ y \in Nat
      BY <1>1
    <3>2. ~(y < x)
      BY <2>2, <2>3, <3>1
    <3> QED BY <3>1, <3>2
  <2> QED BY <2>4
<1>3. Newline(s) = Min(I)
  BY <1>1 DEF Newline, SelectInSeq
<1>4. Newline(s) \in I /\ \A y \in I : Newline(s) <= y
  BY <1>2, <1>3 DEF Min
<1> QED BY <1>1, <1>4

LEMMA TextOfLine ==
  ASSUME NEW k \in Nat, NEW size \in Nat
  PROVE  /\ Text(k, size) \in Seq(Bytes) /\ Len(Text(k, size)) = size
         /\ \A j \in 1 .. size : Text(k, size)[j] = <<k, j>>
<1> DEFINE t == Text(k, size)
<1>1. t = [j \in 1 .. size |-> <<k, j>>]
  BY DEF Text
<1>2. t \in [1 .. size -> Bytes]
  BY <1>1 DEF Bytes
<1>3. t \in Seq(Bytes)
  BY <1>2, SeqDef
<1> QED BY <1>1, <1>2, <1>3, LenProperties

(* The end of a line is a suffix of it.                                    *)
LEMMA EndOfLine ==
  ASSUME NEW s \in Seq(Bytes), NEW k \in Nat, NEW size \in Nat, NEW skipped \in Nat,
         Len(s) + skipped = size,
         \A p \in 1 .. Len(s) : s[p] = <<k, skipped + p>>
  PROVE  IsSuffix(s, Text(k, size))
<1> DEFINE n == Len(s)
           t == Text(k, size)
           rs == Reverse(s)
           rt == Reverse(t)
<1>1. n \in Nat /\ n <= size /\ skipped = size - n
  BY LenProperties
<1>2. t \in Seq(Bytes) /\ Len(t) = size /\ \A j \in 1 .. size : t[j] = <<k, j>>
  BY TextOfLine
<1> HIDE DEF t
<1>3. /\ rs \in [1 .. n -> Bytes] /\ rs \in Seq(Bytes) /\ Len(rs) = n
      /\ \A i \in 1 .. n : rs[i] = <<k, (size - i) + 1>>
  <2>1. rs = [i \in 1 .. n |-> s[(n - i) + 1]]
    BY DEF Reverse
  <2>2. \A i \in 1 .. n : (n - i) + 1 \in 1 .. n /\ skipped + ((n - i) + 1) = (size - i) + 1
    BY <1>1
  <2>3. \A i \in 1 .. n : s[(n - i) + 1] = <<k, (size - i) + 1>>
    BY <2>2
  <2>4. \A i \in 1 .. n : s[(n - i) + 1] \in Bytes
    BY <2>2, ElementOfSeq
  <2>5. rs \in [1 .. n -> Bytes]
    BY <2>1, <2>4
  <2>6. rs \in Seq(Bytes)
    BY <2>5, <1>1, SeqDef
  <2> QED BY <2>1, <2>3, <2>5, <2>6, <1>1, LenProperties
<1>4. /\ rt \in Seq(Bytes) /\ Len(rt) = size
      /\ \A i \in 1 .. size : rt[i] = <<k, (size - i) + 1>>
  <2>1. rt = [i \in 1 .. size |-> t[(size - i) + 1]]
    BY <1>2 DEF Reverse
  <2>2. \A i \in 1 .. size : t[(size - i) + 1] = <<k, (size - i) + 1>>
    BY <1>2
  <2>3. \A i \in 1 .. size : <<k, (size - i) + 1>> \in Bytes
    BY DEF Bytes
  <2>6. \A i \in 1 .. size : t[(size - i) + 1] \in Bytes
    BY <2>2, <2>3
  <2>4. rt \in [1 .. size -> Bytes]
    BY <2>1, <2>6, Zenon
  <2>5. rt \in Seq(Bytes)
    BY <2>4, SeqDef
  <2> QED BY <2>1, <2>2, <2>4, <2>5, LenProperties
<1> HIDE DEF rs, rt
<1>5. SubSeq(rs, 1, n) = rs
  BY <1>3, SubSeqFull
<1>6. SubSeq(rt, 1, n) = rs
  <2>1. \A i \in 1 .. n : rt[i] \in Bytes
    BY <1>1, <1>4, ElementOfSeq
  <2>2. /\ SubSeq(rt, 1, n) \in Seq(Bytes) /\ Len(SubSeq(rt, 1, n)) = n
        /\ \A i \in 1 .. (n - 1) + 1 : SubSeq(rt, 1, n)[i] = rt[(1 + i) - 1]
    BY <2>1, <1>1, SubSeqProperties
  <2>4. \A i \in 1 .. n : i \in 1 .. (n - 1) + 1 /\ (1 + i) - 1 = i /\ i \in 1 .. size
    BY <1>1
  <2>5. \A i \in 1 .. n : SubSeq(rt, 1, n)[i] = rt[i]
    BY <2>2, <2>4
  <2>3. \A i \in 1 .. n : SubSeq(rt, 1, n)[i] = rs[i]
    BY <2>4, <2>5, <1>3, <1>4
  <2> QED BY <2>2, <2>3, <1>3, SeqEqual
<1>7. IsPrefix(rs, rt)
  BY <1>1, <1>3, <1>4, <1>5, <1>6 DEF IsPrefix
<1> QED BY <1>7 DEF IsSuffix, rs, rt, t

(* A stream of lines of sizes ls: line k ends, newline included, at E[k];  *)
(* the byte at place a of the stream; and a sequence read off from place   *)
(* o + 1 on.                                                               *)
Rising(E, n) ==
  /\ E[0] = 0
  /\ \A k \in 0 .. n : E[k] \in Nat
  /\ \A i, j \in 0 .. n : i < j => E[i] < E[j]
Ends(E, ls) ==
  /\ Rising(E, Len(ls))
  /\ \A k \in 1 .. Len(ls) : E[k] = E[k - 1] + ls[k] + 1
Byte(E, n, a, b) ==
  \E k \in 1 .. n : /\ E[k - 1] < a /\ a <= E[k]
                    /\ b = IF a = E[k] THEN NL ELSE <<k, a - E[k - 1]>>
Reads(E, n, o, x) ==
  /\ o + Len(x) <= E[n]
  /\ \A p \in 1 .. Len(x) : Byte(E, n, o + p, x[p])

(* Where the stream is cut: o bytes have left the buffer, which is inside  *)
(* the line after those delivered, and at its start if that line fits.     *)
Cut(E, ls, o, d) ==
  /\ d <= Len(ls)
  /\ E[d] <= o
  /\ d < Len(ls) => /\ o < E[d + 1]
                    /\ ls[d + 1] <= MAX_BUFFER_SIZE => o = E[d]

LEMMA RisingAt ==
  ASSUME NEW E, NEW n \in Nat, Rising(E, n), NEW i \in Nat, NEW j \in Nat, i <= j, j <= n
  PROVE  E[i] \in Nat /\ E[j] \in Nat /\ E[i] <= E[j]
<1>1. i \in 0 .. n /\ j \in 0 .. n
  OBVIOUS
<1>2. E[i] \in Nat /\ E[j] \in Nat
  BY <1>1 DEF Rising
<1>3. i < j \/ i = j
  OBVIOUS
<1>4. i < j => E[i] < E[j]
  BY <1>1 DEF Rising
<1> QED BY <1>2, <1>3, <1>4

LEMMA NotBetween ==
  ASSUME NEW u \in Nat, NEW v \in Nat, u <= v, NEW a \in Nat, v < a, a <= u
  PROVE  FALSE
OBVIOUS

(* Between the ends of two lines lie the bytes of the second and of no     *)
(* other line.                                                             *)
LEMMA LineOfByte ==
  ASSUME NEW E, NEW n \in Nat, Rising(E, n), NEW d \in Nat, d < n,
         NEW a \in Nat, E[d] < a, a <= E[d + 1], NEW b, Byte(E, n, a, b)
  PROVE  /\ a = E[d + 1] => b = NL
         /\ a # E[d + 1] => b = <<d + 1, a - E[d]>> /\ b # NL
<1>1. PICK k \in 1 .. n : /\ E[k - 1] < a /\ a <= E[k]
                          /\ b = IF a = E[k] THEN NL ELSE <<k, a - E[k - 1]>>
  BY DEF Byte
<1>2. k \in Nat /\ k - 1 \in Nat /\ k <= n /\ k - 1 <= n /\ k # 0 /\ d + 1 \in Nat /\ d + 1 <= n
  OBVIOUS
<1>3. ~(k <= d)
  <2> SUFFICES ASSUME k <= d PROVE FALSE
    OBVIOUS
  <2>0. d <= n
    OBVIOUS
  <2>1. E[k] \in Nat /\ E[d] \in Nat /\ E[k] <= E[d]
    BY <1>2, <2>0, RisingAt
  <2> QED BY <2>1, <1>1, NotBetween
<1>4. ~(d + 1 <= k - 1)
  <2> SUFFICES ASSUME d + 1 <= k - 1 PROVE FALSE
    OBVIOUS
  <2>1. E[d + 1] \in Nat /\ E[k - 1] \in Nat /\ E[d + 1] <= E[k - 1]
    BY <1>2, RisingAt
  <2> QED BY <2>1, <1>1, NotBetween
<1>5. k = d + 1 /\ k - 1 = d
  BY <1>2, <1>3, <1>4
<1>6. b = IF a = E[d + 1] THEN NL ELSE <<d + 1, a - E[d]>>
  BY <1>1, <1>5
<1>7. <<d + 1, a - E[d]>> # NL
  BY DEF NL
<1> QED BY <1>6, <1>7

LEMMA NextEnd ==
  ASSUME NEW E, NEW ls \in Seq(Nat), Ends(E, ls), NEW d \in Nat, d < Len(ls)
  PROVE  \E u, v, z \in Nat : /\ u = E[d] /\ v = E[d + 1] /\ z = ls[d + 1]
                             /\ v = u + z + 1
<1>1. Len(ls) \in Nat
  BY LenProperties
<1>2. /\ d <= d + 1 /\ d + 1 \in Nat /\ d + 1 <= Len(ls)
      /\ d + 1 \in 1 .. Len(ls) /\ (d + 1) - 1 = d
  BY <1>1
<1>3. E[d] \in Nat /\ E[d + 1] \in Nat
  BY <1>1, <1>2, RisingAt DEF Ends
<1>4. ls[d + 1] \in Nat
  BY <1>2, ElementOfSeq
<1>5. E[d + 1] = E[d] + ls[d + 1] + 1
  BY <1>2 DEF Ends
<1> QED BY <1>3, <1>4, <1>5

(* While bytes are left, a line is left.                                   *)
LEMMA LineIsLeft ==
  ASSUME NEW E, NEW ls \in Seq(Nat), Ends(E, ls), NEW o \in Nat, NEW d \in Nat, Cut(E, ls, o, d),
         NEW x \in Seq(Bytes), Len(x) > 0, Reads(E, Len(ls), o, x)
  PROVE  d < Len(ls)
<1>1. Len(ls) \in Nat
  BY LenProperties
<1>2. d <= Len(ls) /\ E[d] <= o
  BY <1>1 DEF Cut
<1>3. E[Len(ls)] \in Nat
  BY <1>1, RisingAt DEF Ends
<1>4. ASSUME d = Len(ls) PROVE FALSE
  <2>1. PICK u \in Nat : u = E[Len(ls)]
    BY <1>3
  <2>2. PICK m \in Nat : m = Len(x)
    BY LenProperties
  <2>3. u <= o /\ o + m <= u /\ m > 0
    BY <1>2, <1>4, <2>1, <2>2 DEF Reads
  <2> QED BY <2>3
<1> QED BY <1>1, <1>2, <1>4

(* Deliver.  The first newline of the buffer ends the line after those     *)
(* delivered, and what precedes it is an end of that line, or all of it if *)
(* it fits the buffer.                                                     *)
LEMMA FirstLine ==
  ASSUME NEW E, NEW ls \in Seq(Nat), Ends(E, ls),
         NEW x \in Seq(Bytes), Contains(x, NL),
         NEW o \in Nat, NEW d \in Nat, Cut(E, ls, o, d), Reads(E, Len(ls), o, x)
  PROVE  /\ d < Len(ls) /\ o + Newline(x) = E[d + 1]
         /\ IsSuffix(SubSeq(x, 1, Newline(x) - 1), Text(d + 1, ls[d + 1]))
         /\ ls[d + 1] <= MAX_BUFFER_SIZE =>
              Len(SubSeq(x, 1, Newline(x) - 1)) = ls[d + 1]
         /\ SubSeq(x, 1, Newline(x) - 1) \in Seq(Bytes)
<1> DEFINE n == Newline(x)
           m == Len(x)
           L == Len(ls)
           s == SubSeq(x, 1, n - 1)
<1>1. /\ n \in 1 .. m /\ x[n] = NL
      /\ \A p \in 1 .. m : p < n => x[p] # NL
  BY FirstNewline
<1>2. L \in Nat /\ m \in Nat /\ n \in Nat /\ 1 <= n /\ n <= m
  BY <1>1, LenProperties
<1>3. d < L
  BY <1>2, LineIsLeft
<1>4. E[d] <= o /\ o < E[d + 1]
      /\ (ls[d + 1] <= MAX_BUFFER_SIZE => o = E[d])
  BY <1>2, <1>3 DEF Cut
<1>5. PICK u, v, z \in Nat : /\ u = E[d] /\ v = E[d + 1] /\ z = ls[d + 1]
                           /\ v = u + z + 1
  BY <1>3, <1>4, NextEnd
<1>6. u <= o /\ o < v /\ (z <= MAX_BUFFER_SIZE => o = u) /\ v = u + z + 1
  BY <1>4, <1>5
<1>7. Rising(E, L)
  BY DEF Ends
<1>8. ASSUME NEW p \in 1 .. m, o + p <= v
      PROVE  /\ o + p = v => x[p] = NL
             /\ o + p # v => x[p] = <<d + 1, (o + p) - u>> /\ x[p] # NL
  <2>1. Byte(E, L, o + p, x[p])
    BY DEF Reads
  <2>0. o + p \in Nat /\ u < o + p /\ o + p <= v
    BY <1>2, <1>6, <1>8
  <2>2. o + p \in Nat /\ E[d] < o + p /\ o + p <= E[d + 1]
    BY <2>0, <1>5
  <2> HIDE DEF L, m
  <2>3. /\ o + p = E[d + 1] => x[p] = NL
        /\ o + p # E[d + 1] => x[p] = <<d + 1, (o + p) - E[d]>> /\ x[p] # NL
    BY <2>1, <2>2, <1>2, <1>3, <1>4, <1>7, LineOfByte
  <2> QED BY <2>3, <1>5
<1> HIDE DEF n, L, s, m
<1>9. ~(v < o + n)
  <2> SUFFICES ASSUME v < o + n PROVE FALSE
    OBVIOUS
  <2>1. PICK p \in Int : p = v - o
    OBVIOUS
  <2>2. p \in 1 .. m /\ p < n /\ o + p = v /\ o + p <= v
    BY <2>1, <1>2, <1>6
  <2>3. x[p] = NL
    BY <2>2, <1>8
  <2> QED BY <2>2, <2>3, <1>1
<1>10. ~(o + n < v)
  <2> SUFFICES ASSUME o + n < v PROVE FALSE
    OBVIOUS
  <2>1. o + n <= v /\ o + n # v
    BY <1>2
  <2>2. x[n] # NL
    BY <2>1, <1>1, <1>8
  <2> QED BY <2>2, <1>1
<1>11. o + n = v
  BY <1>2, <1>9, <1>10
<1>12. PICK skipped \in Nat : /\ skipped = o - u /\ (n - 1) + skipped = z
                             /\ n - 1 \in Nat /\ n - 1 <= m
  <2>1. /\ o - u \in Nat /\ (n - 1) + (o - u) = z
        /\ n - 1 \in Nat /\ n - 1 <= m
    BY <1>2, <1>6, <1>11
  <2> QED BY <2>1
<1>13. /\ s \in Seq(Bytes) /\ Len(s) = n - 1
       /\ \A p \in 1 .. n - 1 : s[p] = x[p]
  <2>1. \A p \in 1 .. n - 1 : /\ p \in 1 .. m /\ (1 + p) - 1 = p
                              /\ p \in 1 .. ((n - 1) - 1) + 1
    BY <1>2, <1>12
  <2>2. \A p \in 1 .. n - 1 : x[p] \in Bytes
    BY <2>1, ElementOfSeq DEF m
  <2>3. /\ s \in Seq(Bytes)
        /\ Len(s) = IF 1 <= n - 1 THEN ((n - 1) - 1) + 1 ELSE 0
        /\ \A p \in 1 .. ((n - 1) - 1) + 1 : s[p] = x[(1 + p) - 1]
    <3>1. 1 \in Int /\ n - 1 \in Int
      BY <1>12
    <3>2. \A p \in 1 .. n - 1 : x[p] \in Bytes
      BY <2>2
    <3> QED BY <3>1, <3>2, SubSeqProperties DEF s
  <2>4. Len(s) = n - 1
    BY <2>3, <1>12
  <2>5. \A p \in 1 .. n - 1 : s[p] = x[p]
    BY <2>1, <2>3
  <2> QED BY <2>3, <2>4, <2>5
<1>14. ASSUME NEW p \in 1 .. n - 1 PROVE s[p] = <<d + 1, skipped + p>>
  <2>1. /\ p \in 1 .. m /\ o + p <= v /\ o + p # v /\ (o + p) - u = skipped + p
    BY <1>2, <1>6, <1>11, <1>12
  <2>2. x[p] = <<d + 1, (o + p) - u>>
    BY <2>1, <1>8
  <2> QED BY <2>1, <2>2, <1>13
<1>15. IsSuffix(s, Text(d + 1, z))
  <2>1. Len(s) + skipped = z /\ \A p \in 1 .. Len(s) : s[p] = <<d + 1, skipped + p>>
    BY <1>12, <1>13, <1>14
  <2>2. d + 1 \in Nat
    OBVIOUS
  <2> QED BY <2>1, <2>2, <1>13, EndOfLine
<1>16. z <= MAX_BUFFER_SIZE => Len(s) = z
  <2>1. z <= MAX_BUFFER_SIZE => skipped = 0
    BY <1>6, <1>12
  <2> QED BY <2>1, <1>12, <1>13
<1>17. d < L /\ o + n = E[d + 1]
  BY <1>3, <1>5, <1>11
<1>18. /\ IsSuffix(s, Text(d + 1, ls[d + 1]))
       /\ ls[d + 1] <= MAX_BUFFER_SIZE => Len(s) = ls[d + 1]
       /\ s \in Seq(Bytes)
  BY <1>5, <1>13, <1>15, <1>16
<1> QED BY <1>17, <1>18 DEF n, s, L

(* KeepRest.  A buffer without a newline that has become too long is all   *)
(* inside one line, and that line does not fit.                            *)
LEMMA TooLong ==
  ASSUME NEW E, NEW ls \in Seq(Nat), Ends(E, ls),
         NEW x \in Seq(Bytes), ~Contains(x, NL), Len(x) > MAX_BUFFER_SIZE,
         NEW o \in Nat, NEW d \in Nat, Cut(E, ls, o, d), Reads(E, Len(ls), o, x)
  PROVE  Cut(E, ls, o + Len(x), d)
<1> DEFINE m == Len(x)
           L == Len(ls)
<1>1. L \in Nat /\ m \in Nat /\ MAX_BUFFER_SIZE \in Nat /\ m > 0 /\ m > MAX_BUFFER_SIZE
  BY ReceiverConstants, LenProperties
<1>2. \A p \in 1 .. m : x[p] # NL
  BY DEF Contains
<1>3. d < L
  BY <1>1, LineIsLeft
<1>4. d \in 0 .. L /\ E[d] <= o /\ o < E[d + 1]
      /\ (ls[d + 1] <= MAX_BUFFER_SIZE => o = E[d])
  BY <1>1, <1>3 DEF Cut
<1>5. PICK u, v, z \in Nat : /\ u = E[d] /\ v = E[d + 1] /\ z = ls[d + 1]
                           /\ v = u + z + 1
  BY <1>3, <1>4, NextEnd
<1>6. u <= o /\ o < v /\ (z <= MAX_BUFFER_SIZE => o = u) /\ v = u + z + 1
  BY <1>4, <1>5
<1>7. Rising(E, L)
  BY DEF Ends
<1>8. ~(v <= o + m)
  <2> SUFFICES ASSUME v <= o + m PROVE FALSE
    OBVIOUS
  <2>1. PICK p \in Int : p = v - o
    OBVIOUS
  <2>2. p \in 1 .. m /\ o + p = v
    BY <2>1, <1>1, <1>6
  <2>3. Byte(E, L, o + p, x[p])
    BY <2>2 DEF Reads
  <2>0. o + p \in Nat /\ u < o + p /\ o + p <= v
    BY <2>2, <1>6
  <2>4. o + p \in Nat /\ E[d] < o + p /\ o + p <= E[d + 1] /\ o + p = E[d + 1]
    BY <2>0, <2>2, <1>5
  <2> HIDE DEF L, m
  <2>5. x[p] = NL
    BY <2>3, <2>4, <1>1, <1>3, <1>4, <1>7, LineOfByte
  <2> QED BY <2>2, <2>5, <1>2
<1> HIDE DEF L, m
<1>9. ~(z <= MAX_BUFFER_SIZE)
  BY <1>1, <1>6, <1>8
<1>10. o + m \in Nat /\ u <= o + m /\ o + m < v
  BY <1>1, <1>6, <1>8
<1>11. E[d] <= o + m /\ o + m < E[d + 1] /\ ~(ls[d + 1] <= MAX_BUFFER_SIZE)
  BY <1>5, <1>9, <1>10
<1> QED BY <1>4, <1>10, <1>11 DEF Cut, m, L

(* Deliver, the place where the stream is cut: one line on.                *)
LEMMA NextLine ==
  ASSUME NEW E, NEW ls \in Seq(Nat), Ends(E, ls), NEW d \in Nat, d < Len(ls)
  PROVE  E[d + 1] \in Nat /\ Cut(E, ls, E[d + 1], d + 1)
<1>1. PICK n \in Nat : n = Len(ls)
  BY LenProperties
<1>2. Rising(E, n)
  BY <1>1 DEF Ends
<1>3. d + 1 \in 0 .. n /\ d + 1 <= Len(ls)
  BY <1>1
<1>4. E[d + 1] \in Nat
  BY <1>2, <1>3 DEF Rising
<1>5. ASSUME d + 1 < n PROVE E[d + 1] < E[(d + 1) + 1]
  <2>1. (d + 1) + 1 \in 0 .. n /\ d + 1 < (d + 1) + 1
    BY <1>3, <1>5
  <2> QED BY <2>1, <1>2, <1>3 DEF Rising
<1>6. E[d + 1] <= E[d + 1]
  BY <1>4
<1> QED BY <1>1, <1>3, <1>4, <1>5, <1>6 DEF Cut
(* Reading on.  What follows the first m bytes of a sequence.              *)
LEMMA ReadRest ==
  ASSUME NEW E, NEW n, E[n] \in Nat, NEW o \in Nat, NEW x \in Seq(Bytes),
         NEW m \in 0 .. Len(x),         Reads(E, n, o, x)
  PROVE  /\ SubSeq(x, m + 1, Len(x)) \in Seq(Bytes)
         /\ Len(SubSeq(x, m + 1, Len(x))) = Len(x) - m
         /\ Reads(E, n, o + m, SubSeq(x, m + 1, Len(x)))
<1>1. PICK l \in Nat : l = Len(x)
  BY LenProperties
<1>2. m \in Nat /\ m <= l
  BY <1>1
<1> DEFINE r == SubSeq(x, m + 1, Len(x))
<1>3. \A i \in m + 1 .. l : x[i] \in Bytes
  BY <1>1, <1>2, ElementOfSeq
<1>4. /\ r \in Seq(Bytes)
      /\ Len(r) = IF m + 1 <= l THEN (l - (m + 1)) + 1 ELSE 0
      /\ \A i \in 1 .. (l - (m + 1)) + 1 : r[i] = x[((m + 1) + i) - 1]
  <2>1. m + 1 \in Int /\ l \in Int
    BY <1>2
  <2> QED BY <1>1, <1>3, <2>1, SubSeqProperties
<1>5. Len(r) = l - m
  BY <1>2, <1>4
<1>6. ASSUME NEW p \in 1 .. Len(r) PROVE Byte(E, n, (o + m) + p, r[p])
  <2>1. /\ p \in 1 .. (l - (m + 1)) + 1 /\ ((m + 1) + p) - 1 = m + p
        /\ m + p \in 1 .. l /\ (o + m) + p = o + (m + p)
    BY <1>2, <1>5
  <2>2. r[p] = x[m + p]
    BY <1>4, <2>1
  <2>3. Byte(E, n, o + (m + p), x[m + p])
    BY <1>1, <2>1 DEF Reads
  <2> QED BY <2>1, <2>2, <2>3
<1>7. PICK e \in Nat : e = E[n]
  OBVIOUS
<1>8. o + l <= e
  BY <1>1, <1>7 DEF Reads
<1>9. (o + m) + Len(r) <= e
  <2>1. (o + m) + (l - m) <= e
    BY <1>2, <1>8
  <2> QED BY <2>1, <1>5
<1>10. Reads(E, n, o + m, r)
  BY <1>6, <1>7, <1>9 DEF Reads
<1> QED BY <1>1, <1>4, <1>5, <1>10

(* Two sequences, the second where the first ends.                         *)
LEMMA ReadBoth ==
  ASSUME NEW E, NEW n, E[n] \in Nat, NEW o \in Nat, NEW x \in Seq(Bytes),
         NEW y \in Seq(Bytes),
         Reads(E, n, o, x), Reads(E, n, o + Len(x), y)
  PROVE  /\ x \o y \in Seq(Bytes) /\ Len(x \o y) = Len(x) + Len(y)
         /\ Reads(E, n, o, x \o y)
<1>1. PICK l \in Nat : l = Len(x)
  BY LenProperties
<1>2. PICK m \in Nat : m = Len(y)
  BY LenProperties
<1> DEFINE z == x \o y
<1>3. /\ z \in Seq(Bytes) /\ Len(z) = l + m
      /\ \A i \in 1 .. l + m : z[i] = IF i <= l THEN x[i] ELSE y[i - l]
  BY <1>1, <1>2, ConcatProperties
<1>4. ASSUME NEW p \in 1 .. l + m PROVE Byte(E, n, o + p, z[p])
  <2>1. CASE p <= l
    <3>1. p \in 1 .. l
      BY <2>1
    <3> QED BY <1>1, <1>3, <2>1, <3>1 DEF Reads
  <2>2. CASE ~(p <= l)
    <3>1. p - l \in 1 .. m /\ (o + l) + (p - l) = o + p
      BY <2>2
    <3>2. Byte(E, n, (o + l) + (p - l), y[p - l])
      BY <1>1, <1>2, <3>1 DEF Reads
    <3> QED BY <1>3, <2>2, <3>1, <3>2
  <2> QED BY <2>1, <2>2
<1>0. PICK e \in Nat : e = E[n]
  OBVIOUS
<1>7. (o + l) + m <= e
  BY <1>0, <1>1, <1>2 DEF Reads
<1>5. o + (l + m) <= e
  BY <1>7
<1>6. Reads(E, n, o, z)
  BY <1>0, <1>3, <1>4, <1>5 DEF Reads
<1> QED BY <1>1, <1>2, <1>3, <1>6

(* ReceiveBytes: the first m bytes of the wire move to the buffer.         *)
Taken(x, y, m) == x \o SubSeq(y, 1, m)
Left(y, m) == SubSeq(y, m + 1, Len(y))

LEMMA ReadOn ==
  ASSUME NEW E, NEW n, E[n] \in Nat, NEW o \in Nat, NEW x \in Seq(Bytes),
         NEW y \in Seq(Bytes),
         NEW m \in 1 .. Len(y), Reads(E, n, o, x), Reads(E, n, o + Len(x), y)
  PROVE  /\ Taken(x, y, m) \in Seq(Bytes) /\ Left(y, m) \in Seq(Bytes)
         /\ Reads(E, n, o, Taken(x, y, m))
         /\ Reads(E, n, o + Len(Taken(x, y, m)), Left(y, m))
         /\ (o + Len(Taken(x, y, m))) + Len(Left(y, m)) = (o + Len(x)) + Len(y)
<1>1. PICK k \in Nat : k = Len(x)
  BY LenProperties
<1>2. PICK l \in Nat : l = Len(y)
  BY LenProperties
<1>3. PICK a \in Nat : a = o + k
  OBVIOUS
<1>4. m \in Nat /\ 1 <= m /\ m <= l
  BY <1>2
<1> DEFINE s == SubSeq(y, 1, m)
           r == SubSeq(y, m + 1, Len(y))
<1>5. Reads(E, n, a, y)
  BY <1>1, <1>3
<1>6. r \in Seq(Bytes) /\ Len(r) = l - m /\ Reads(E, n, a + m, r)
  <2>1. m \in 0 .. Len(y)
    BY <1>2, <1>4
  <2>2. /\ r \in Seq(Bytes) /\ Len(r) = Len(y) - m
        /\ Reads(E, n, a + m, r)
    BY <1>5, <2>1, ReadRest
  <2> QED BY <1>2, <2>2
<1>7. s \in Seq(Bytes) /\ Len(s) = m /\ \A i \in 1 .. m : s[i] = y[i]
  <2>1. \A i \in 1 .. m : y[i] \in Bytes
    BY <1>2, <1>4, ElementOfSeq
  <2>2. 1 \in Int /\ m \in Int
    BY <1>4
  <2>3. /\ s \in Seq(Bytes)
        /\ Len(s) = IF 1 <= m THEN (m - 1) + 1 ELSE 0
        /\ \A i \in 1 .. (m - 1) + 1 : s[i] = y[(1 + i) - 1]
    BY <2>1, <2>2, SubSeqProperties
  <2>4. /\ (m - 1) + 1 = m
        /\ \A i \in 1 .. m : (1 + i) - 1 = i
    BY <1>4
  <2> QED BY <2>3, <2>4, <1>4
<1> HIDE DEF s, r
<1>8. Reads(E, n, a, s)
  <2>1. PICK e \in Nat : e = E[n]
    OBVIOUS
  <2>2. a + l <= e
    BY <1>2, <1>5, <2>1 DEF Reads
  <2>3. a + m <= e
    BY <1>4, <2>2
  <2>4. ASSUME NEW p \in 1 .. m PROVE Byte(E, n, a + p, s[p])
    <3>1. p \in 1 .. l
      BY <1>4
    <3> QED BY <1>2, <1>5, <1>7, <3>1 DEF Reads
  <2> QED BY <1>7, <2>1, <2>3, <2>4 DEF Reads
<1> DEFINE z == x \o s
<1>9. z \in Seq(Bytes) /\ Len(z) = k + m /\ Reads(E, n, o, z)
  <2>1. Reads(E, n, o + Len(x), s) /\ s \in Seq(Bytes)
    BY <1>1, <1>3, <1>7, <1>8
  <2>2. z \in Seq(Bytes) /\ Len(z) = Len(x) + Len(s) /\ Reads(E, n, o, z)
    BY <2>1, ReadBoth
  <2> QED BY <2>2, <1>1, <1>7
<1>10. o + (k + m) = a + m /\ (a + m) + (l - m) = a + l
  BY <1>3, <1>4
<1>11. Reads(E, n, o + Len(z), r)
  BY <1>6, <1>9, <1>10
<1>12. (o + Len(z)) + Len(r) = (o + Len(x)) + Len(y)
  BY <1>1, <1>2, <1>3, <1>6, <1>9, <1>10
<1> HIDE DEF z
<1>13. Taken(x, y, m) = z /\ Left(y, m) = r
  BY DEF Taken, Left, z, s, r
<1> QED BY <1>6, <1>9, <1>11, <1>12, <1>13

(* PeerSends: one more line.                                               *)
Longer(E, n, size) ==
  [k \in 0 .. n + 1 |-> IF k <= n THEN E[k] ELSE E[n] + size + 1]

LEMMA LongerEnds ==
  ASSUME NEW E, NEW ls \in Seq(Nat), Ends(E, ls), NEW size \in Nat,
         NEW n \in Nat, n = Len(ls)
  PROVE  /\ Append(ls, size) \in Seq(Nat) /\ Len(Append(ls, size)) = n + 1
         /\ Ends(Longer(E, n, size), Append(ls, size))
         /\ \A k \in 0 .. n : Longer(E, n, size)[k] = E[k]
         /\ E[n] \in Nat /\ Longer(E, n, size)[n + 1] = (E[n] + size) + 1
<1> DEFINE F == Longer(E, n, size)
           l2 == Append(ls, size)
<1>1. /\ l2 \in Seq(Nat) /\ Len(l2) = n + 1 /\ l2[n + 1] = size
      /\ \A i \in 1 .. n : l2[i] = ls[i]
  BY AppendProperties
<1>2. Rising(E, n) /\ \A k \in 1 .. n : E[k] = E[k - 1] + ls[k] + 1
  BY DEF Ends
<1>3. PICK e \in Nat : e = E[n]
  BY <1>2, RisingAt
<1>4. /\ \A k \in 0 .. n : F[k] = E[k]
      /\ F[n + 1] = e + size + 1
  BY <1>3 DEF Longer
<1> HIDE DEF F, l2
<1>5. Rising(F, n + 1)
  <2>1. F[0] = 0
    BY <1>2, <1>4 DEF Rising
  <2>2. ASSUME NEW k \in 0 .. n + 1 PROVE F[k] \in Nat
    <3>1. CASE k \in 0 .. n
      BY <3>1, <1>2, <1>4 DEF Rising
    <3>2. CASE k = n + 1
      BY <3>2, <1>4
    <3> QED BY <3>1, <3>2
  <2>3. ASSUME NEW i \in 0 .. n + 1, NEW j \in 0 .. n + 1, i < j PROVE F[i] < F[j]
    <3>1. i \in 0 .. n /\ i \in Nat /\ i <= n
      BY <2>3
    <3>2. CASE j \in 0 .. n
      BY <3>1, <3>2, <2>3, <1>2, <1>4 DEF Rising
    <3>3. CASE j = n + 1
      <4>1. E[i] \in Nat /\ E[i] <= E[n]
        BY <3>1, <1>2, RisingAt
      <4>2. PICK u \in Nat : u = E[i]
        BY <4>1
      <4>3. u <= e
        BY <4>1, <4>2, <1>3
      <4>4. u < e + size + 1
        BY <4>3
      <4> QED BY <4>2, <4>4, <3>1, <3>3, <1>4
    <3> QED BY <3>2, <3>3
  <2> QED BY <2>1, <2>2, <2>3 DEF Rising
<1>6. ASSUME NEW k \in 1 .. n + 1 PROVE F[k] = F[k - 1] + l2[k] + 1
  <2>1. CASE k \in 1 .. n
    <3>1. k \in 0 .. n /\ k - 1 \in 0 .. n
      BY <2>1
    <3> QED BY <2>1, <3>1, <1>1, <1>2, <1>4
  <2>2. CASE k = n + 1
    <3>1. k - 1 = n /\ n \in 0 .. n
      BY <2>2
    <3> QED BY <2>2, <3>1, <1>1, <1>3, <1>4
  <2> QED BY <2>1, <2>2
<1>7. Ends(F, l2)
  BY <1>1, <1>5, <1>6 DEF Ends
<1> QED BY <1>1, <1>3, <1>4, <1>7 DEF F, l2

LEMMA LongerReads ==
  ASSUME NEW E, NEW n \in Nat, Rising(E, n), NEW F, Rising(F, n + 1),
         \A k \in 0 .. n : F[k] = E[k],
         NEW o \in Nat, NEW x \in Seq(Bytes), Reads(E, n, o, x)
  PROVE  Reads(F, n + 1, o, x)
<1>1. PICK l \in Nat : l = Len(x)
  BY LenProperties
<1>2. F[n] \in Nat /\ F[n + 1] \in Nat /\ F[n] <= F[n + 1] /\ F[n] = E[n]
  BY RisingAt
<1>3. PICK u, v \in Nat : u = F[n] /\ v = F[n + 1]
  BY <1>2
<1>4. o + l <= u /\ u <= v
  BY <1>1, <1>2, <1>3 DEF Reads
<1>5. o + l <= v
  BY <1>4
<1>6. ASSUME NEW p \in 1 .. l PROVE Byte(F, n + 1, o + p, x[p])
  <2>1. PICK k \in 1 .. n : /\ E[k - 1] < o + p /\ o + p <= E[k]
                            /\ x[p] = IF o + p = E[k] THEN NL ELSE <<k, (o + p) - E[k - 1]>>
    BY <1>1 DEF Reads, Byte
  <2>2. k \in 1 .. n + 1 /\ F[k] = E[k] /\ F[k - 1] = E[k - 1]
    OBVIOUS
  <2> QED BY <2>1, <2>2 DEF Byte
<1> QED BY <1>1, <1>3, <1>5, <1>6 DEF Reads
LEMMA NewLineReads ==
  ASSUME NEW F, NEW n \in Nat, NEW size \in Nat, NEW e \in Nat, F[n] = e,
         F[n + 1] = (e + size) + 1,
         NEW a \in Nat, NEW y \in Seq(Bytes), Reads(F, n + 1, a, y), a + Len(y) = e
  PROVE  LET y2 == Append(y \o Text(n + 1, size), NL)
         IN  /\ y2 \in Seq(Bytes) /\ Reads(F, n + 1, a, y2)
             /\ a + Len(y2) = F[n + 1]
<1> DEFINE t == Text(n + 1, size)
           last == <<NL>>
<1>1. F[n + 1] \in Nat /\ n + 1 \in Nat
  OBVIOUS
<1>2. t \in Seq(Bytes) /\ Len(t) = size /\ \A j \in 1 .. size : t[j] = <<n + 1, j>>
  BY <1>1, TextOfLine
<1> HIDE DEF t
<1>3. Reads(F, n + 1, e, t)
  <2>1. e + size <= (e + size) + 1
    OBVIOUS
  <2>2. ASSUME NEW p \in 1 .. size PROVE Byte(F, n + 1, e + p, t[p])
    <3>1. /\ n + 1 \in 1 .. n + 1 /\ (n + 1) - 1 = n
          /\ e < e + p /\ e + p <= (e + size) + 1 /\ e + p # (e + size) + 1
          /\ (e + p) - e = p
      OBVIOUS
    <3>2. /\ F[(n + 1) - 1] < e + p /\ e + p <= F[n + 1] /\ e + p # F[n + 1]
          /\ t[p] = <<n + 1, (e + p) - F[(n + 1) - 1]>>
      BY <3>1, <1>2
    <3> QED BY <3>1, <3>2 DEF Byte
  <2> QED BY <2>1, <2>2, <1>2 DEF Reads
<1>4. last \in Seq(Bytes) /\ Len(last) = 1 /\ last[1] = NL
  BY DEF Bytes, NL
<1> HIDE DEF last
<1>5. Reads(F, n + 1, e + size, last)
  <2>1. /\ n + 1 \in 1 .. n + 1 /\ (n + 1) - 1 = n
        /\ e < (e + size) + 1 /\ (e + size) + 1 <= (e + size) + 1
    OBVIOUS
  <2>2. Byte(F, n + 1, (e + size) + 1, NL)
    <3>1. /\ F[(n + 1) - 1] < (e + size) + 1 /\ (e + size) + 1 <= F[n + 1]
          /\ NL = IF (e + size) + 1 = F[n + 1] THEN NL
                  ELSE <<n + 1, ((e + size) + 1) - F[(n + 1) - 1]>>
      BY <2>1
    <3> QED BY <2>1, <3>1 DEF Byte
  <2> QED BY <2>1, <2>2, <1>4 DEF Reads
<1> DEFINE z == y \o t
<1>6. z \in Seq(Bytes) /\ Len(z) = Len(y) + size /\ Reads(F, n + 1, a, z)
  <2>1. Reads(F, n + 1, a + Len(y), t)
    BY <1>3
  <2>2. z \in Seq(Bytes) /\ Len(z) = Len(y) + Len(t) /\ Reads(F, n + 1, a, z)
    BY <2>1, <1>1, <1>2, ReadBoth
  <2> QED BY <2>2, <1>2
<1>7. PICK l \in Nat : l = Len(y)
  BY LenProperties
<1>8. a + Len(z) = e + size
  <2>1. a + (l + size) = (a + l) + size
    OBVIOUS
  <2>2. a + l = e /\ Len(z) = l + size
    BY <1>6, <1>7
  <2> QED BY <2>1, <2>2
<1> HIDE DEF z
<1> DEFINE w == z \o last
<1>9. w \in Seq(Bytes) /\ Len(w) = Len(z) + 1 /\ Reads(F, n + 1, a, w)
  <2>1. Reads(F, n + 1, a + Len(z), last)
    BY <1>5, <1>8
  <2>2. w \in Seq(Bytes) /\ Len(w) = Len(z) + Len(last) /\ Reads(F, n + 1, a, w)
    BY <2>1, <1>1, <1>4, <1>6, ReadBoth
  <2> QED BY <2>2, <1>4
<1>10. PICK m \in Nat : m = Len(z)
  BY <1>6, LenProperties
<1>11. a + Len(w) = (e + size) + 1
  <2>1. a + (m + 1) = (a + m) + 1
    OBVIOUS
  <2>2. a + m = e + size /\ Len(w) = m + 1
    BY <1>8, <1>9, <1>10
  <2> QED BY <2>1, <2>2
<1>12. w = Append(z, NL)
  BY <1>6, AppendIsConcat DEF last, Bytes, NL
<1> QED BY <1>9, <1>11, <1>12 DEF z, t

(* What holds of a receiver that has a stream, and what of any.            *)
Streaming(E, o) ==
  /\ Ends(E, lines) /\ Cut(E, lines, o, Len(delivered))
  /\ Reads(E, Len(lines), o, buffer)
  /\ Reads(E, Len(lines), o + Len(buffer), wire)
  /\ link \in {"connecting", "up"} => (o + Len(buffer)) + Len(wire) = E[Len(lines)]

StreamTyped ==
  /\ buffer \in Seq(Bytes) /\ wire \in Seq(Bytes)
  /\ lines \in Seq(Nat) /\ delivered \in Seq(Seq(Bytes))

Attached == thread \notin {"none", "ended"}

LinesInv ==
  /\ StreamTyped /\ LinesInOrder
  /\ Attached => \E E : \E o \in Nat : Streaming(E, o)

(* Steps that touch neither stream nor buffer.                             *)
Quiet ==
  /\ UNCHANGED <<buffer, wire, lines, delivered>>
  /\ link' \in {link, "none"}
  /\ Attached' => Attached
  /\ thread' \in {thread, "terminated"} \/ thread \notin {"deliver", "terminated"}

LEMMA QuietStep == LinesInv /\ Quiet => LinesInv'
<1> SUFFICES ASSUME LinesInv, Quiet PROVE LinesInv'
  OBVIOUS
<1>1. StreamTyped'
  BY DEF LinesInv, StreamTyped, Quiet
<1>2. LinesInOrder'
  <2>1. thread' \notin {"deliver", "terminated"} => thread \notin {"deliver", "terminated"}
    BY DEF Quiet
  <2> QED BY <2>1 DEF LinesInv, LinesInOrder, Quiet
<1>3. ASSUME NEW E, NEW o \in Nat, Streaming(E, o) PROVE Streaming(E, o)'
  BY <1>3 DEF Streaming, Quiet
<1>4. Attached' => \E E : \E o \in Nat : Streaming(E, o)'
  BY <1>3 DEF LinesInv, Quiet
<1> QED BY <1>1, <1>2, <1>4 DEF LinesInv

LEMMA QuietActions ==
  ASSUME \/ StartFails \/ StopBegins \/ StopJoins \/ TestRunning \/ PollIdle \/ PollFails
         \/ PollReady \/ ReceiveNothing \/ ReceiveFails \/ HandlerThrows \/ TestHangup
         \/ TestReconnect \/ CloseSocket \/ ReconnectFails \/ WakeUp
  PROVE  Quiet
<1> USE DEF Quiet, Attached, stream, socket, Goto
<1>1. CASE StartFails BY <1>1 DEF StartFails, ConnectFails
<1>2. CASE StopBegins BY <1>2 DEF StopBegins
<1>3. CASE StopJoins BY <1>3 DEF StopJoins
<1>4. CASE TestRunning BY <1>4 DEF TestRunning
<1>5. CASE PollIdle BY <1>5 DEF PollIdle
<1>6. CASE PollFails BY <1>6 DEF PollFails
<1>7. CASE PollReady BY <1>7 DEF PollReady
<1>8. CASE ReceiveNothing BY <1>8 DEF ReceiveNothing
<1>9. CASE ReceiveFails BY <1>9 DEF ReceiveFails
<1>10. CASE HandlerThrows BY <1>10 DEF HandlerThrows
<1>11. CASE TestHangup BY <1>11 DEF TestHangup
<1>12. CASE TestReconnect BY <1>12 DEF TestReconnect
<1>13. CASE CloseSocket BY <1>13 DEF CloseSocket
<1>14. CASE ReconnectFails BY <1>14 DEF ReconnectFails, ConnectFails
<1>15. CASE WakeUp BY <1>15 DEF WakeUp
<1> QED BY <1>1, <1>2, <1>3, <1>4, <1>5, <1>6, <1>7, <1>8, <1>9, <1>10, <1>11,
           <1>12, <1>13, <1>14, <1>15

LEMMA StartLines == LinesInv /\ StartSucceeds => LinesInv'
<1> SUFFICES ASSUME LinesInv, StartSucceeds PROVE LinesInv'
  OBVIOUS
<1>1. buffer' = <<>> /\ wire' = <<>> /\ lines' = <<>> /\ delivered' = <<>>
  BY DEF StartSucceeds, ConnectBegins
<1>2. StreamTyped'
  BY <1>1 DEF StreamTyped
<1>3. LinesInOrder'
  BY <1>1, ReceiverConstants DEF LinesInOrder
<1> DEFINE E == [k \in 0 .. 0 |-> 0]
<1>4. Ends(E, <<>>)
  BY DEF Ends, Rising
<1>5. Cut(E, <<>>, 0, 0) /\ Reads(E, 0, 0, <<>>) /\ Reads(E, 0, 0 + 0, <<>>) /\ E[0] = 0
  BY DEF Cut, Reads
<1> HIDE DEF E
<1>6. Streaming(E, 0)'
  BY <1>1, <1>4, <1>5 DEF Streaming
<1> QED BY <1>2, <1>3, <1>6 DEF LinesInv

LEMMA ReconnectLines == LinesInv /\ ReconnectSucceeds => LinesInv'
<1> SUFFICES ASSUME LinesInv, ReconnectSucceeds PROVE LinesInv'
  OBVIOUS
<1>1. /\ buffer' = buffer /\ wire' = <<>> /\ lines' = <<>> /\ delivered' = <<>>
      /\ thread = "connect" /\ thread' = "ended"
  BY DEF ReconnectSucceeds, ConnectBegins, Goto
<1>2. StreamTyped'
  BY <1>1 DEF LinesInv, StreamTyped
<1>3. LinesInOrder'
  BY <1>1 DEF LinesInv, LinesInOrder
<1> QED BY <1>1, <1>2, <1>3 DEF LinesInv, Attached

LEMMA ReceiveLines == LinesInv /\ ReceiveBytes => LinesInv'
<1> SUFFICES ASSUME LinesInv, ReceiveBytes PROVE LinesInv'
  OBVIOUS
<1>1. PICK m \in 1 .. Len(wire) : /\ buffer' = buffer \o SubSeq(wire, 1, m)
                                  /\ wire' = SubSeq(wire, m + 1, Len(wire))
  BY DEF ReceiveBytes
<1>2. /\ thread = "receive" /\ thread' = "deliver" /\ link' = link
      /\ lines' = lines /\ delivered' = delivered
  BY DEF ReceiveBytes, Goto, socket
<1>3. StreamTyped
  BY DEF LinesInv
<1>4. PICK E : \E o \in Nat : Streaming(E, o)
  BY <1>2 DEF LinesInv, Attached
<1>5. PICK o \in Nat : Streaming(E, o)
  BY <1>4
<1>6. Len(lines) \in Nat /\ E[Len(lines)] \in Nat
  <2>1. Len(lines) \in Nat
    BY <1>3, LenProperties DEF StreamTyped
  <2> QED BY <2>1, <1>5, RisingAt DEF Streaming, Ends
<1>7. /\ buffer' \in Seq(Bytes) /\ wire' \in Seq(Bytes)
      /\ Reads(E, Len(lines), o, buffer') /\ Reads(E, Len(lines), o + Len(buffer'), wire')
      /\ (o + Len(buffer')) + Len(wire') = (o + Len(buffer)) + Len(wire)
  <2>1. Reads(E, Len(lines), o, buffer) /\ Reads(E, Len(lines), o + Len(buffer), wire)
    BY <1>5 DEF Streaming
  <2>2. buffer \in Seq(Bytes) /\ wire \in Seq(Bytes)
    BY <1>3 DEF StreamTyped
  <2>3. buffer' = Taken(buffer, wire, m) /\ wire' = Left(wire, m)
    BY <1>1 DEF Taken, Left
  <2>4. /\ Taken(buffer, wire, m) \in Seq(Bytes) /\ Left(wire, m) \in Seq(Bytes)
        /\ Reads(E, Len(lines), o, Taken(buffer, wire, m))
        /\ Reads(E, Len(lines), o + Len(Taken(buffer, wire, m)), Left(wire, m))
        /\ (o + Len(Taken(buffer, wire, m))) + Len(Left(wire, m))
             = (o + Len(buffer)) + Len(wire)
    BY <2>1, <2>2, <1>6, ReadOn
  <2> QED BY <2>3, <2>4
<1>8. StreamTyped'
  BY <1>2, <1>3, <1>7 DEF StreamTyped
<1>9. LinesInOrder'
  BY <1>2 DEF LinesInv, LinesInOrder
<1>10. Streaming(E, o)'
  BY <1>2, <1>5, <1>7 DEF Streaming
<1> QED BY <1>8, <1>9, <1>10 DEF LinesInv

(* The places of lines, in a receiver that has a stream.                   *)
LEMMA StreamShape ==
  ASSUME StreamTyped, NEW E, NEW o \in Nat, Streaming(E, o)
  PROVE  /\ Len(lines) \in Nat /\ Rising(E, Len(lines)) /\ E[Len(lines)] \in Nat
         /\ Len(delivered) \in Nat /\ Len(delivered) <= Len(lines)
<1>1. Len(lines) \in Nat /\ Len(delivered) \in Nat
  BY LenProperties DEF StreamTyped
<1>2. Rising(E, Len(lines))
  BY DEF Streaming, Ends
<1>3. Len(delivered) <= Len(lines)
  BY DEF Streaming, Cut
<1> QED BY <1>1, <1>2, <1>3, RisingAt

LEMMA DeliverLines == LinesInv /\ Deliver => LinesInv'
<1> SUFFICES ASSUME LinesInv, Deliver PROVE LinesInv'
  OBVIOUS
<1> DEFINE pos == Newline(buffer)
           msg == SubSeq(buffer, 1, pos - 1)
           rest == SubSeq(buffer, pos + 1, Len(buffer))
           d == Len(delivered)
<1>1. /\ thread = "deliver" /\ thread' = thread /\ link' = link
      /\ lines' = lines /\ wire' = wire /\ Contains(buffer, NL)
      /\ delivered' = Append(delivered, msg) /\ buffer' = rest
  BY DEF Deliver, Newline, socket
<1>2. StreamTyped /\ LinesInOrder
  BY DEF LinesInv
<1>3. PICK E : \E o \in Nat : Streaming(E, o)
  BY <1>1 DEF LinesInv, Attached
<1>4. PICK o \in Nat : Streaming(E, o)
  BY <1>3
<1>5. /\ Len(lines) \in Nat /\ Rising(E, Len(lines)) /\ E[Len(lines)] \in Nat
      /\ d \in Nat /\ d <= Len(lines)
  BY <1>2, <1>4, StreamShape
<1>6. /\ buffer \in Seq(Bytes) /\ wire \in Seq(Bytes) /\ lines \in Seq(Nat)
      /\ delivered \in Seq(Seq(Bytes))
  BY <1>2 DEF StreamTyped
<1>7. /\ Ends(E, lines) /\ Cut(E, lines, o, d) /\ Reads(E, Len(lines), o, buffer)
      /\ Reads(E, Len(lines), o + Len(buffer), wire)
  BY <1>4 DEF Streaming
<1>8. /\ d < Len(lines) /\ o + pos = E[d + 1]
      /\ IsSuffix(msg, Text(d + 1, lines[d + 1]))
      /\ lines[d + 1] <= MAX_BUFFER_SIZE => Len(msg) = lines[d + 1]
      /\ msg \in Seq(Bytes)
  BY <1>1, <1>5, <1>6, <1>7, FirstLine
<1>9. pos \in 1 .. Len(buffer)
  BY <1>1, <1>6, FirstNewline
<1>10. pos \in Nat /\ pos \in 0 .. Len(buffer)
  BY <1>6, <1>9, LenProperties
<1>11. /\ rest \in Seq(Bytes) /\ Len(rest) = Len(buffer) - pos
       /\ Reads(E, Len(lines), o + pos, rest)
  BY <1>5, <1>6, <1>7, <1>10, ReadRest, SMTT(20)
<1> HIDE DEF pos, msg, rest, d
<1>12. (o + pos) + Len(rest) = o + Len(buffer)
  <2>1. PICK l \in Nat : l = Len(buffer)
    BY <1>6, LenProperties
  <2>2. Len(rest) = l - pos
    BY <1>11, <2>1
  <2>3. (o + pos) + (l - pos) = o + l
    BY <1>10
  <2> QED BY <2>1, <2>2, <2>3
<1>13. /\ Append(delivered, msg) \in Seq(Seq(Bytes))
       /\ Len(Append(delivered, msg)) = d + 1
       /\ \A k \in 1 .. d : Append(delivered, msg)[k] = delivered[k]
       /\ Append(delivered, msg)[d + 1] = msg
  BY <1>6, <1>8, AppendProperties DEF d
<1>14. StreamTyped'
  BY <1>1, <1>6, <1>11, <1>13 DEF StreamTyped
<1>15. LinesInOrder'
  <2>1. Len(delivered') <= Len(lines')
    BY <1>1, <1>5, <1>8, <1>13
  <2>2. ASSUME NEW k \in 1 .. d + 1
        PROVE  /\ IsSuffix(delivered'[k], Text(k, lines[k]))
               /\ lines[k] <= MAX_BUFFER_SIZE => Len(delivered'[k]) = lines[k]
    <3>1. CASE k = d + 1
      BY <3>1, <1>1, <1>8, <1>13
    <3>2. CASE k \in 1 .. d
      <4>1. delivered'[k] = delivered[k]
        BY <3>2, <1>1, <1>13
      <4> QED BY <4>1, <3>2, <1>2 DEF LinesInOrder, d
    <3> QED BY <3>1, <3>2, <1>5
  <2>3. Len(delivered') = d + 1
    BY <1>1, <1>13
  <2> QED BY <1>1, <2>1, <2>2, <2>3 DEF LinesInOrder
<1>16. Cut(E, lines, o + pos, d + 1)
  BY <1>5, <1>6, <1>7, <1>8, NextLine
<1>17. PICK q \in Nat : q = o + pos
  BY <1>10
<1>18. Streaming(E, q)'
  <2>1. Len(delivered') = d + 1
    BY <1>1, <1>13
  <2>2. Reads(E, Len(lines), q + Len(rest), wire)
    BY <1>7, <1>12, <1>17
  <2>3. link' \in {"connecting", "up"} => (q + Len(rest)) + Len(wire) = E[Len(lines)]
    BY <1>1, <1>4, <1>12, <1>17 DEF Streaming
  <2>4. Reads(E, Len(lines), q, rest) /\ Cut(E, lines, q, d + 1)
    BY <1>11, <1>16, <1>17
  <2> QED BY <1>1, <1>7, <2>1, <2>2, <2>3, <2>4 DEF Streaming
<1> QED BY <1>14, <1>15, <1>18 DEF LinesInv

LEMMA KeepLines == LinesInv /\ KeepRest => LinesInv'
<1> SUFFICES ASSUME LinesInv, KeepRest PROVE LinesInv'
  OBVIOUS
<1>1. /\ thread = "deliver" /\ thread' = "hangup" /\ link' = link
      /\ lines' = lines /\ wire' = wire /\ delivered' = delivered
      /\ ~Contains(buffer, NL)
      /\ buffer' = IF Len(buffer) > MAX_BUFFER_SIZE THEN <<>> ELSE buffer
  BY DEF KeepRest, Goto, socket, stream
<1>2. StreamTyped /\ LinesInOrder
  BY DEF LinesInv
<1>3. PICK E : \E o \in Nat : Streaming(E, o)
  BY <1>1 DEF LinesInv, Attached
<1>4. PICK o \in Nat : Streaming(E, o)
  BY <1>3
<1>5. PICK l \in Nat : l = Len(buffer)
  BY <1>2, LenProperties DEF StreamTyped
<1>6. StreamTyped'
  BY <1>1, <1>2 DEF StreamTyped
<1>7. Len(buffer') <= MAX_BUFFER_SIZE
  <2>1. MAX_BUFFER_SIZE \in Nat
    BY ReceiverConstants
  <2>2. CASE l > MAX_BUFFER_SIZE
    BY <2>1, <2>2, <1>1, <1>5
  <2>3. CASE ~(l > MAX_BUFFER_SIZE)
    BY <2>1, <2>3, <1>1, <1>5
  <2> QED BY <2>2, <2>3
<1>8. LinesInOrder'
  BY <1>1, <1>2, <1>7 DEF LinesInOrder
<1>9. CASE ~(Len(buffer) > MAX_BUFFER_SIZE)
  <2>1. buffer' = buffer
    BY <1>1, <1>9
  <2>2. Streaming(E, o)'
    BY <1>1, <1>4, <2>1 DEF Streaming
  <2> QED BY <1>6, <1>8, <2>2 DEF LinesInv
<1>10. CASE Len(buffer) > MAX_BUFFER_SIZE
  <2>1. buffer' = <<>>
    BY <1>1, <1>10
  <2>2. /\ Len(lines) \in Nat /\ Rising(E, Len(lines)) /\ E[Len(lines)] \in Nat
        /\ Len(delivered) \in Nat /\ Len(delivered) <= Len(lines)
    BY <1>2, <1>4, StreamShape
  <2>3. buffer \in Seq(Bytes) /\ wire \in Seq(Bytes) /\ lines \in Seq(Nat)
    BY <1>2 DEF StreamTyped
  <2>4. /\ Ends(E, lines) /\ Cut(E, lines, o, Len(delivered))
        /\ Reads(E, Len(lines), o, buffer)
        /\ Reads(E, Len(lines), o + Len(buffer), wire)
    BY <1>4 DEF Streaming
  <2>5. Cut(E, lines, o + Len(buffer), Len(delivered))
    BY <1>1, <1>10, <2>2, <2>3, <2>4, TooLong
  <2>6. PICK q \in Nat : q = o + Len(buffer)
    BY <1>5
  <2>7. Reads(E, Len(lines), q, <<>>)
    <3>1. PICK e \in Nat : e = E[Len(lines)]
      BY <2>2
    <3>2. o + l <= e
      BY <2>4, <3>1, <1>5 DEF Reads
    <3>3. q + 0 <= e
      BY <3>2, <2>6, <1>5
    <3> QED BY <3>1, <3>3 DEF Reads
  <2>8. q + Len(<<>>) = q
    BY <2>6
  <2>9. Streaming(E, q)'
    <3>1. /\ Cut(E, lines, q, Len(delivered))
          /\ Reads(E, Len(lines), q + Len(<<>>), wire)
      BY <2>4, <2>5, <2>6, <2>8
    <3>2. link' \in {"connecting", "up"} =>
            (q + Len(<<>>)) + Len(wire) = E[Len(lines)]
      BY <1>1, <1>4, <2>6, <2>8 DEF Streaming
    <3> QED BY <1>1, <2>1, <2>4, <2>7, <3>1, <3>2 DEF Streaming
  <2> QED BY <1>6, <1>8, <2>9 DEF LinesInv
<1> QED BY <1>9, <1>10

(* The kernel may lose what is on the wire of a connection that is reset.  *)
LEMMA LinkLines == LinesInv /\ LinkChanges => LinesInv'
<1> SUFFICES ASSUME LinesInv, LinkChanges PROVE LinesInv'
  OBVIOUS
<1>1. /\ thread' = thread /\ buffer' = buffer /\ lines' = lines
      /\ delivered' = delivered /\ wire' \in {wire, <<>>}
      /\ link' \in {"connecting", "up"} => link \in {"connecting", "up"} /\ wire' = wire
  BY DEF LinkChanges
<1>2. StreamTyped /\ LinesInOrder
  BY DEF LinesInv
<1>3. StreamTyped'
  <2>1. wire' = wire \/ wire' = <<>>
    BY <1>1
  <2>2. <<>> \in Seq(Bytes) /\ wire \in Seq(Bytes)
    BY <1>2 DEF StreamTyped
  <2>3. wire' \in Seq(Bytes)
    BY <2>1, <2>2, Zenon
  <2> QED BY <1>1, <1>2, <2>3 DEF StreamTyped
<1>4. LinesInOrder'
  BY <1>1, <1>2 DEF LinesInOrder
<1>5. ASSUME NEW E, NEW o \in Nat, Streaming(E, o) PROVE Streaming(E, o)'
  <2>1. Reads(E, Len(lines), o + Len(buffer), <<>>)
    <3>1. PICK l \in Nat : l = Len(buffer)
      BY <1>2, LenProperties DEF StreamTyped
    <3>2. PICK e \in Nat : e = E[Len(lines)]
      BY <1>2, <1>5, StreamShape
    <3>3. o + l <= e
      BY <1>5, <3>1, <3>2 DEF Streaming, Reads
    <3>4. (o + l) + 0 <= e
      BY <3>3
    <3> QED BY <3>1, <3>2, <3>4 DEF Reads
  <2>2. Reads(E, Len(lines), o + Len(buffer), wire')
    BY <1>1, <1>5, <2>1 DEF Streaming
  <2> QED BY <1>1, <1>5, <2>2 DEF Streaming
<1>6. Attached' => \E E : \E o \in Nat : Streaming(E, o)'
  BY <1>1, <1>5 DEF LinesInv, Attached
<1> QED BY <1>3, <1>4, <1>6 DEF LinesInv

LEMMA SendLines ==
  ASSUME NEW size \in Sizes
  PROVE  LinesInv /\ PeerSends(size) => LinesInv'
<1> SUFFICES ASSUME LinesInv, PeerSends(size) PROVE LinesInv'
  OBVIOUS
<1> DEFINE n == Len(lines)
           d == Len(delivered)
<1>1. StreamTyped /\ LinesInOrder
  BY DEF LinesInv
<1>2. n \in Nat /\ d \in Nat /\ d <= n /\ size \in Nat
  BY <1>1, ReceiverConstants, LenProperties DEF StreamTyped, LinesInOrder
<1>3. /\ buffer \in Seq(Bytes) /\ wire \in Seq(Bytes) /\ lines \in Seq(Nat)
      /\ delivered \in Seq(Seq(Bytes))
  BY <1>1 DEF StreamTyped
<1>4. /\ Append(lines, size) \in Seq(Nat) /\ Len(Append(lines, size)) = n + 1
      /\ \A k \in 1 .. n : Append(lines, size)[k] = lines[k]
  BY <1>2, <1>3, AppendProperties
<1>5. /\ thread' = thread /\ buffer' = buffer /\ delivered' = delivered
      /\ link' = link /\ link = "up" /\ lines' = Append(lines, size)
  BY DEF PeerSends, socket
<1>6. wire' = Append(wire \o Text(n + 1, size), NL)
  BY <1>4, <1>5 DEF PeerSends
<1>7. wire' \in Seq(Bytes)
  <2>1. Text(n + 1, size) \in Seq(Bytes)
    BY <1>2, TextOfLine
  <2>2. NL \in Bytes
    BY DEF NL, Bytes
  <2> QED BY <2>1, <2>2, <1>3, <1>6
<1>8. StreamTyped'
  BY <1>3, <1>4, <1>5, <1>7 DEF StreamTyped
<1>9. LinesInOrder'
  <2>1. Len(delivered') <= Len(lines')
    BY <1>2, <1>4, <1>5
  <2>2. ASSUME NEW k \in 1 .. d
        PROVE  /\ IsSuffix(delivered'[k], Text(k, lines'[k]))
               /\ lines'[k] <= MAX_BUFFER_SIZE => Len(delivered'[k]) = lines'[k]
    <3>1. k \in 1 .. n
      BY <1>2
    <3>2. lines'[k] = lines[k] /\ delivered'[k] = delivered[k]
      BY <3>1, <1>4, <1>5
    <3> QED BY <3>2, <1>1 DEF LinesInOrder
  <2> QED BY <1>1, <1>5, <2>1, <2>2 DEF LinesInOrder
<1>10. ASSUME NEW E, NEW o \in Nat, Streaming(E, o)
       PROVE  \E F : Streaming(F, o)'
  <2>0. PICK F : F = Longer(E, n, size)
    OBVIOUS
  <2>1. /\ Ends(E, lines) /\ Cut(E, lines, o, d) /\ Reads(E, n, o, buffer)
        /\ Reads(E, n, o + Len(buffer), wire)
        /\ (o + Len(buffer)) + Len(wire) = E[n]
    BY <1>5, <1>10 DEF Streaming
  <2>2. Rising(E, n)
    BY <2>1 DEF Ends
  <2>3. /\ Ends(F, Append(lines, size)) /\ \A k \in 0 .. n : F[k] = E[k]
        /\ E[n] \in Nat /\ F[n + 1] = (E[n] + size) + 1
    <3>1. /\ Ends(Longer(E, n, size), Append(lines, size))
          /\ \A k \in 0 .. n : Longer(E, n, size)[k] = E[k]
          /\ E[n] \in Nat /\ Longer(E, n, size)[n + 1] = (E[n] + size) + 1
      BY <1>2, <1>3, <2>1, LongerEnds
    <3> QED BY <3>1, <2>0
  <2>4. Rising(F, n + 1)
    BY <1>4, <2>3 DEF Ends
  <2>5. PICK q \in Nat : q = o + Len(buffer)
    BY <1>3, LenProperties
  <2>6. Reads(F, n + 1, o, buffer) /\ Reads(F, n + 1, q, wire)
    BY <1>2, <1>3, <2>1, <2>2, <2>3, <2>4, <2>5, LongerReads
  <2>7. PICK e \in Nat : e = E[n]
    BY <2>3
  <2>8. /\ Reads(F, n + 1, q, wire') /\ q + Len(wire') = F[n + 1]
    <3>1. F[n] = e /\ F[n + 1] = (e + size) + 1 /\ q + Len(wire) = e
      BY <1>2, <2>1, <2>3, <2>5, <2>7
    <3> HIDE DEF n
    <3> DEFINE y2 == Append(wire \o Text(n + 1, size), NL)
    <3>2. Reads(F, n + 1, q, y2) /\ q + Len(y2) = F[n + 1]
      BY <1>2, <1>3, <2>6, <3>1, NewLineReads
    <3> QED BY <3>2, <1>6
  <2>9. Cut(F, Append(lines, size), o, d)
    <3>1. d <= n + 1 /\ d \in 0 .. n /\ F[d] = E[d]
      BY <1>2, <2>3
    <3>2. E[d] <= o
      BY <2>1 DEF Cut
    <3>3. CASE d < n
      <4>1. d + 1 \in 0 .. n /\ d + 1 \in 1 .. n
        BY <1>2, <3>3
      <4>2. F[d + 1] = E[d + 1] /\ Append(lines, size)[d + 1] = lines[d + 1]
        BY <4>1, <1>4, <2>3
      <4>3. o < E[d + 1] /\ (lines[d + 1] <= MAX_BUFFER_SIZE => o = E[d])
        BY <2>1, <3>3 DEF Cut
      <4> QED BY <3>1, <3>2, <4>2, <4>3, <1>4 DEF Cut
    <3>4. CASE d = n
      <4>1. PICK l \in Nat : l = Len(buffer)
        BY <1>3, LenProperties
      <4>2. o + l <= e
        BY <2>1, <2>7, <4>1 DEF Reads
      <4>3. e <= o
        BY <3>2, <3>4, <2>7
      <4>4. o = e /\ o < (e + size) + 1
        BY <4>2, <4>3, <1>2
      <4>5. o = F[d] /\ o < F[d + 1]
        BY <4>4, <3>1, <3>4, <2>3, <2>7
      <4> QED BY <4>4, <4>5, <3>1, <3>2, <1>4 DEF Cut
    <3> QED BY <3>3, <3>4, <1>2
  <2>10. Streaming(F, o)'
    BY <1>4, <1>5, <2>3, <2>5, <2>6, <2>8, <2>9 DEF Streaming
  <2> QED BY <2>10
<1>11. Attached' => \E E : \E o \in Nat : Streaming(E, o)'
  BY <1>5, <1>10 DEF LinesInv, Attached
<1> QED BY <1>8, <1>9, <1>11 DEF LinesInv

(* However the stream is cut, the lines are delivered in order and, if     *)
(* they fit the buffer, whole: onMessage gets the n-th line n-th.          *)
THEOREM LinesDeliveredInOrder == Spec => []LinesInOrder
<1>1. Init => LinesInv
  <2> SUFFICES ASSUME Init PROVE LinesInv
    OBVIOUS
  <2>1. StreamTyped
    BY DEF Init, StreamTyped
  <2>2. LinesInOrder
    BY ReceiverConstants DEF Init, LinesInOrder
  <2> QED BY <2>1, <2>2 DEF Init, LinesInv, Attached
<1>2. LinesInv /\ [Next]_vars => LinesInv'
  <2> SUFFICES ASSUME LinesInv, [Next]_vars PROVE LinesInv'
    OBVIOUS
  <2>1. CASE OwnerStep
    BY <2>1, QuietActions, QuietStep, StartLines DEF OwnerStep
  <2>2. CASE ThreadStep
    BY <2>2, QuietActions, QuietStep, ReceiveLines, DeliverLines, KeepLines,
       ReconnectLines DEF ThreadStep
  <2>3. CASE LinkChanges
    BY <2>3, LinkLines
  <2>4. ASSUME NEW size \in Sizes, PeerSends(size) PROVE LinesInv'
    BY <2>4, SendLines
  <2>5. CASE UNCHANGED vars
    <3>1. Quiet
      BY <2>5 DEF vars, socket, stream, retries, Quiet, Attached
    <3> QED BY <3>1, QuietStep
  <2> QED BY <2>1, <2>2, <2>3, <2>4, <2>5 DEF Next
<1>3. LinesInv => LinesInOrder
  BY DEF LinesInv
<1> QED BY <1>1, <1>2, <1>3, PTL DEF Spec
=============================================================================

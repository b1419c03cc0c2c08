------------------------ MODULE AlertThrottleProofs ------------------------
(***************************************************************************)
(* Proofs about AlertThrottle, for every set of keys and tables and every  *)
(* setting of the limits.                                                  *)
(***************************************************************************)
EXTENDS AlertThrottle, TLAPS, WellFoundedInduction

\* Every table has an entry for every key (fewer than 257 containers on the node).
EnoughEntries ==
  \A s \in Sites : \A T \in SUBSET Keys : T # Keys => Cardinality(T) < Capacity[s]

\* The ConfigMap always gives throttleSec, and never as zero.
ThrottleSecGiven == ThrottleSecs \subseteq Nat \ {0} /\ Absent \notin ThrottleSecs

\* Limits that reach the configuration are numbers.
LEMMA LimitsAreNumbers ==
  /\ \A m \in MaxAlerts : m # Absent => m \in Nat
  /\ \A t \in ThrottleSecs : t # Absent => t \in Nat
BY ConstantsAssumption

\* Every action keeps the types.
LEMMA TypeStep == TypeOK /\ [Next]_vars => TypeOK'
<1> USE ConstantsAssumption
<1> SUFFICES ASSUME TypeOK, [Next]_vars PROVE TypeOK'
  OBVIOUS
<1>a. ASSUME NEW s \in Sites, NEW k \in Keys
      PROVE  /\ AlertMap[s][k] \in AlertThrottleState
             /\ clock[s] \in 0..MaxTime
             /\ Before(s, k) \in Nat
             /\ NewWindow(s) \in AlertThrottleState
  BY DEF TypeOK, Before, NewWindow, AlertThrottleState
<1>b. ASSUME NEW s \in Sites, NEW k \in Keys, LetThrough(s, k)
      PROVE  /\ inWindow' \in [Sites -> [Keys -> Nat]]
             /\ recent' \in [Sites -> [Keys -> [Ages -> Nat]]]
             /\ thresholdAt' \in [Sites -> [Keys -> {NoTime} \cup 0..MaxTime]]
  <2>1. 0 \in Ages /\ recent[s][k] \in [Ages -> Nat]
    BY DEF TypeOK, Ages
  <2>2. [recent[s][k] EXCEPT ![0] = @ + 1] \in [Ages -> Nat]
    BY <2>1
  <2>3. recent' = [recent EXCEPT ![s] = [@ EXCEPT ![k] = [recent[s][k] EXCEPT ![0] = @ + 1]]]
    BY <1>b DEF LetThrough, TypeOK
  <2> QED
    BY <1>a, <1>b, <2>2, <2>3 DEF LetThrough, TypeOK
<1>c. ASSUME NEW s \in Sites, NEW k \in Keys
      PROVE  /\ Counted(s, k) \in AlertThrottleState
             /\ [Counted(s, k) EXCEPT !.EventCount = 0, !.Throttle = 1] \in AlertThrottleState
  <2>1. [AlertMap[s][k] EXCEPT !.EventCount = @ + 1] \in AlertThrottleState
    BY <1>a DEF AlertThrottleState
  <2>2. Counted(s, k) \in AlertThrottleState
    BY <1>a, <2>1 DEF Counted
  <2> QED
    BY <2>2 DEF AlertThrottleState
<1>1. ASSUME NEW s \in Sites, NEW k \in Keys, FirstAlert(s, k) PROVE TypeOK'
  <2>1. CASE HasRoom(s)
    <3>1. tracked' = [tracked EXCEPT ![s] = @ \cup {k}]
      BY <1>1, <2>1 DEF FirstAlert
    <3>2. AlertMap' = [AlertMap EXCEPT ![s][k] = NewWindow(s)]
      BY <1>1, <2>1 DEF FirstAlert
    <3>3. tracked' \in [Sites -> SUBSET Keys]
      BY <3>1 DEF TypeOK
    <3>4. AlertMap' \in [Sites -> [Keys -> AlertThrottleState]]
      BY <1>a, <3>2 DEF TypeOK
    <3> QED
      BY <1>1, <1>b, <3>3, <3>4 DEF FirstAlert, TypeOK
  <2>2. CASE ~HasRoom(s)
    BY <1>1, <1>b, <2>2 DEF FirstAlert, table, TypeOK
  <2> QED
    BY <2>1, <2>2
<1>2. ASSUME NEW s \in Sites, NEW k \in Keys, DroppedAlert(s, k) PROVE TypeOK'
  BY <1>2 DEF DroppedAlert, vars, table, history, TypeOK
<1>4. ASSUME NEW s \in Sites, NEW k \in Keys, PassedAlert(s, k) PROVE TypeOK'
  BY <1>b, <1>c, <1>4 DEF PassedAlert, TypeOK
<1>5. ASSUME NEW s \in Sites, NEW k \in Keys, ThresholdAlert(s, k) PROVE TypeOK'
  <2>1. AlertMap' \in [Sites -> [Keys -> AlertThrottleState]]
    BY <1>c, <1>5 DEF ThresholdAlert, TypeOK
  <2>2. inWindow' \in [Sites -> [Keys -> Nat]]
    BY <1>a, <1>5 DEF ThresholdAlert, TypeOK
  <2>3. thresholdAt' \in [Sites -> [Keys -> {NoTime} \cup 0..MaxTime]]
    BY <1>a, <1>5 DEF ThresholdAlert, TypeOK
  <2> QED
    BY <1>5, <2>1, <2>2, <2>3 DEF ThresholdAlert, TypeOK
<1>6. ASSUME NEW s \in Sites, NEW k \in Keys, DeleteAlertMapKey(s, k) PROVE TypeOK'
  BY <1>6 DEF DeleteAlertMapKey, TypeOK, AlertThrottleState, ZeroState, NoTime
<1>7. ASSUME NEW enabled \in BOOLEAN, NEW max \in MaxAlerts, NEW sec \in ThrottleSecs,
             WatchConfigMapAdd(enabled, max, sec)
      PROVE TypeOK'
  BY <1>7, LimitsAreNumbers DEF WatchConfigMapAdd, table, history, TypeOK, Cfg
<1>8. ASSUME NEW enabled \in BOOLEAN, NEW max \in MaxAlerts, NEW sec \in ThrottleSecs,
             WatchConfigMapUpdate(enabled, max, sec)
      PROVE TypeOK'
  BY <1>8, LimitsAreNumbers DEF WatchConfigMapUpdate, table, history, TypeOK, Cfg
<1>9. CASE UpdateThrottlingConfig
  BY <1>9 DEF UpdateThrottlingConfig, table, history, TypeOK
<1>10. CASE Tick
  BY <1>10 DEF Tick, table, TypeOK, Ages
<1>11. ASSUME NEW s \in DaemonSites, NEW t \in 0..MaxTime, SetBack(s, t) PROVE TypeOK'
  BY <1>11 DEF SetBack, table, history, TypeOK
<1>12. CASE UNCHANGED vars
  BY <1>12 DEF vars, table, history, TypeOK
<1> QED
  BY <1>1, <1>2, <1>4, <1>5, <1>6, <1>7, <1>8, <1>9, <1>10, <1>11, <1>12 DEF Next

\* The counter automaton keeps its types, whatever the limits are set to.
THEOREM TypeCorrect == Spec => []TypeOK
<1> USE ConstantsAssumption
<1>1. Init => TypeOK
  <2> SUFFICES ASSUME Init PROVE TypeOK
    OBVIOUS
  <2>1. GlobalCfg \in Cfg /\ BpfConfig \in Cfg
    BY LimitsAreNumbers DEF Init, Cfg
  <2>2. ZeroState \in AlertThrottleState
    BY DEF ZeroState, AlertThrottleState
  <2>3. recent \in [Sites -> [Keys -> [Ages -> Nat]]]
    BY DEF Init
  <2> QED
    BY <2>1, <2>2, <2>3 DEF Init, TypeOK
<1> QED
  BY <1>1, TypeStep, PTL DEF Spec

-----------------------------------------------------------------------------
(* The quota of a window. *)

SecPositive == GlobalCfg.ThrottleSec >= 1 /\ BpfConfig.ThrottleSec >= 1


\* With an interval of at least a second, an alert of a throttled key that is not
\* dropped opens a new window.
LEMMA ThrottledUntilWindowOver ==
  ASSUME TypeOK, SecPositive, NEW s \in Sites, NEW k \in Keys,
         AlertMap[s][k].Throttle = 1, ~Throttled(s, k)
  PROVE  WindowOver(s, k)
<1> USE ConstantsAssumption
<1> DEFINE e == Elapsed(s, AlertMap[s][k].FirstEventTimestamp)
           sec == CfgOf(s).ThrottleSec
<1>1. e \in Nat
  BY DEF Elapsed, TypeOK, AlertThrottleState
<1>2. sec \in Nat /\ sec >= 1
  BY DEF CfgOf, TypeOK, SecPositive, Cfg
<1>3. sec * Sec >= Sec
  <2> HIDE DEF sec
  <2> QED BY <1>2
<1>4. ~(e < sec * Sec)
  BY DEF Throttled
<1> QED
  <2> HIDE DEF sec, e
  <2>1. e >= Sec
    BY <1>1, <1>2, <1>3, <1>4
  <2> QED
    BY <2>1 DEF WindowOver, e

\* The counter of a window is kept by every action.
LEMMA WindowCountsStep ==
  ASSUME EnoughEntries, TypeOK, WindowCounts, [Next]_vars
  PROVE  WindowCounts'
<1> USE ConstantsAssumption
<1> SUFFICES ASSUME NEW r \in Sites, NEW j \in Keys
             PROVE  /\ j \notin tracked'[r] => inWindow'[r][j] = 0
                    /\ j \in tracked'[r] /\ AlertMap'[r][j].Throttle = 0
                         => inWindow'[r][j] = AlertMap'[r][j].EventCount
  BY DEF WindowCounts
<1>0. CASE UNCHANGED <<table, inWindow>>
  BY <1>0 DEF WindowCounts, table
<1>1. ASSUME NEW s \in Sites, NEW k \in Keys, FirstAlert(s, k)
      PROVE  /\ j \notin tracked'[r] => inWindow'[r][j] = 0
             /\ j \in tracked'[r] /\ AlertMap'[r][j].Throttle = 0
                  => inWindow'[r][j] = AlertMap'[r][j].EventCount
  <2>1. HasRoom(s)
    <3>1. tracked[s] \in SUBSET Keys /\ tracked[s] # Keys
      BY <1>1 DEF FirstAlert, TypeOK
    <3> QED
      BY <3>1 DEF HasRoom, EnoughEntries
  <2>2. tracked' = [tracked EXCEPT ![s] = @ \cup {k}]
    BY <1>1, <2>1 DEF FirstAlert
  <2>3. AlertMap' = [AlertMap EXCEPT ![s][k] = NewWindow(s)]
    BY <1>1, <2>1 DEF FirstAlert
  <2>4. inWindow' = [inWindow EXCEPT ![s][k] = 1]
    <3>1. k \notin tracked[s] /\ inWindow[s][k] = 0
      BY <1>1 DEF FirstAlert, WindowCounts
    <3>2. Before(s, k) + 1 = 1
      BY <3>1 DEF Before
    <3> QED
      BY <1>1, <3>2 DEF FirstAlert, LetThrough
  <2>5. CASE r = s /\ j = k
    BY <2>2, <2>3, <2>4, <2>5 DEF TypeOK, NewWindow
  <2>6. CASE ~(r = s /\ j = k)
    BY <2>2, <2>3, <2>4, <2>6 DEF TypeOK, WindowCounts
  <2> QED
    BY <2>5, <2>6
<1>2. ASSUME NEW s \in Sites, NEW k \in Keys, PassedAlert(s, k)
      PROVE  /\ j \notin tracked'[r] => inWindow'[r][j] = 0
             /\ j \in tracked'[r] /\ AlertMap'[r][j].Throttle = 0
                  => inWindow'[r][j] = AlertMap'[r][j].EventCount
  <2>1. /\ tracked' = tracked
        /\ AlertMap' = [AlertMap EXCEPT ![s][k] = Counted(s, k)]
        /\ inWindow' = [inWindow EXCEPT ![s][k] = Before(s, k) + 1]
        /\ k \in tracked[s]
    BY <1>2 DEF PassedAlert, LetThrough
  <2>2. Counted(s, k).Throttle = 0 => Before(s, k) + 1 = Counted(s, k).EventCount
    <3>1. CASE WindowOver(s, k)
      BY <2>1, <3>1 DEF Counted, NewWindow, Before
    <3>2. CASE ~WindowOver(s, k)
      BY <2>1, <3>2 DEF Counted, Before, WindowCounts, TypeOK, AlertThrottleState
    <3> QED
      BY <3>1, <3>2
  <2>3. CASE r = s /\ j = k
    BY <2>1, <2>2, <2>3 DEF TypeOK
  <2>4. CASE ~(r = s /\ j = k)
    BY <2>1, <2>4 DEF TypeOK, WindowCounts
  <2> QED
    BY <2>3, <2>4
<1>3. ASSUME NEW s \in Sites, NEW k \in Keys, ThresholdAlert(s, k)
      PROVE  /\ j \notin tracked'[r] => inWindow'[r][j] = 0
             /\ j \in tracked'[r] /\ AlertMap'[r][j].Throttle = 0
                  => inWindow'[r][j] = AlertMap'[r][j].EventCount
  <2> DEFINE new == [Counted(s, k) EXCEPT !.EventCount = 0, !.Throttle = 1]
  <2>1. /\ tracked' = tracked
        /\ AlertMap' = [AlertMap EXCEPT ![s][k] = new]
        /\ inWindow' = [inWindow EXCEPT ![s][k] = Before(s, k)]
        /\ k \in tracked[s]
    BY <1>3 DEF ThresholdAlert
  <2>2. new.Throttle = 1
    BY DEF Counted, NewWindow, TypeOK, AlertThrottleState
  <2> HIDE DEF new
  <2>3. CASE r = s /\ j = k
    BY <2>1, <2>2, <2>3 DEF TypeOK
  <2>4. CASE ~(r = s /\ j = k)
    BY <2>1, <2>4 DEF TypeOK, WindowCounts
  <2> QED
    BY <2>3, <2>4
<1>4. ASSUME NEW s \in Sites, NEW k \in Keys, DeleteAlertMapKey(s, k)
      PROVE  /\ j \notin tracked'[r] => inWindow'[r][j] = 0
             /\ j \in tracked'[r] /\ AlertMap'[r][j].Throttle = 0
                  => inWindow'[r][j] = AlertMap'[r][j].EventCount
  BY <1>4 DEF DeleteAlertMapKey, TypeOK, WindowCounts
<1>5. ASSUME NEW s \in Sites, NEW k \in Keys, DroppedAlert(s, k)
      PROVE  UNCHANGED <<table, inWindow>>
  BY <1>5 DEF DroppedAlert, vars, history
<1> QED
  BY <1>0, <1>1, <1>2, <1>3, <1>4, <1>5
  DEF Next, WatchConfigMapAdd, WatchConfigMapUpdate, UpdateThrottlingConfig, Tick, SetBack,
      vars, history

\* The interval is never set to zero.
LEMMA SecPositiveStep ==
  ASSUME ThrottleSecGiven, TypeOK, SecPositive, [Next]_vars
  PROVE  SecPositive'
<1>1. ASSUME NEW sec \in ThrottleSecs
      PROVE  sec # Absent /\ sec >= 1 /\ (IF sec = Absent THEN GlobalCfg.ThrottleSec ELSE sec) >= 1
  BY DEF ThrottleSecGiven, SecPositive
<1>2. ASSUME NEW enabled \in BOOLEAN, NEW max \in MaxAlerts, NEW sec \in ThrottleSecs,
             WatchConfigMapAdd(enabled, max, sec)
      PROVE  SecPositive'
  BY <1>1, <1>2 DEF WatchConfigMapAdd, SecPositive
<1>3. ASSUME NEW enabled \in BOOLEAN, NEW max \in MaxAlerts, NEW sec \in ThrottleSecs,
             WatchConfigMapUpdate(enabled, max, sec)
      PROVE  SecPositive'
  BY <1>1, <1>3 DEF WatchConfigMapUpdate, SecPositive
<1>4. CASE UpdateThrottlingConfig
  BY <1>4 DEF UpdateThrottlingConfig, SecPositive
<1>5. CASE UNCHANGED <<GlobalCfg, BpfConfig>>
  BY <1>5 DEF SecPositive
<1> QED
  BY <1>2, <1>3, <1>4, <1>5
  DEF Next, FirstAlert, DroppedAlert, PassedAlert, ThresholdAlert, DeleteAlertMapKey, Tick,
      SetBack, vars

\* The entries of the tables start empty.
LEMMA QuotaInit == ThrottleSecGiven /\ Init => WindowCounts /\ SecPositive
<1> SUFFICES ASSUME ThrottleSecGiven, Init PROVE WindowCounts /\ SecPositive
  OBVIOUS
<1>1. WindowCounts
  BY DEF Init, WindowCounts
<1>2. GlobalCfg.ThrottleSec \in ThrottleSecs /\ BpfConfig = GlobalCfg
  BY DEF Init
<1>3. \A t \in ThrottleSecs : t >= 1
  BY DEF ThrottleSecGiven
<1> QED
  BY <1>1, <1>2, <1>3, Zenon DEF SecPositive

\* The counter of an alert that is not dropped is the number of those delivered in its window.
LEMMA DeliveredIsCounted ==
  ASSUME TypeOK, WindowCounts, SecPositive, NEW s \in Sites, NEW k \in Keys,
         k \in tracked[s], ~Throttled(s, k)
  PROVE  Before(s, k) + 1 = Counted(s, k).EventCount
<1>1. CASE WindowOver(s, k)
  BY <1>1 DEF Before, Counted, NewWindow
<1>2. CASE ~WindowOver(s, k)
  <2>1. AlertMap[s][k].Throttle = 0
    BY <1>2, ThrottledUntilWindowOver DEF TypeOK, AlertThrottleState
  <2> QED
    BY <1>2, <2>1 DEF Before, Counted, WindowCounts, TypeOK, AlertThrottleState
<1> QED
  BY <1>1, <1>2

\* No key gets more than maxAlertPerSec alerts delivered in one window, for every
\* number of containers the tables can hold, every history of limits (throttleSec
\* given and positive) and a clock that may be set back.
THEOREM QuotaHolds ==
  ASSUME EnoughEntries, ThrottleSecGiven
  PROVE  Spec => QuotaRespected
<1> USE ConstantsAssumption
<1>1. TypeOK /\ WindowCounts /\ SecPositive /\ [Next]_vars
        => (TypeOK /\ WindowCounts /\ SecPositive)'
  BY TypeStep, WindowCountsStep, SecPositiveStep
<1>2. TypeOK /\ WindowCounts /\ SecPositive /\ [Next]_vars
        => [\A s \in Sites, k \in Keys :
              k \in tracked[s] /\ inWindow'[s][k] > inWindow[s][k]
                => inWindow'[s][k] <= CfgOf(s).MaxAlertPerSec]_vars
  <2> SUFFICES ASSUME TypeOK, WindowCounts, SecPositive, Next,
                      NEW r \in Sites, NEW j \in Keys, j \in tracked[r],
                      inWindow'[r][j] > inWindow[r][j]
               PROVE  inWindow'[r][j] <= CfgOf(r).MaxAlertPerSec
    BY DEF vars
  <2>0. inWindow[r][j] \in Nat
    BY DEF TypeOK
  <2>1. ASSUME NEW s \in Sites, NEW k \in Keys, PassedAlert(s, k)
        PROVE  inWindow'[r][j] <= CfgOf(r).MaxAlertPerSec
    <3>1. /\ inWindow' = [inWindow EXCEPT ![s][k] = Before(s, k) + 1]
          /\ k \in tracked[s]
          /\ Counted(s, k).EventCount <= CfgOf(s).MaxAlertPerSec
          /\ ~Throttled(s, k)
      BY <2>1 DEF PassedAlert, LetThrough
    <3>2. r = s /\ j = k
      BY <2>0, <3>1 DEF TypeOK
    <3>3. Before(s, k) + 1 = Counted(s, k).EventCount
      BY <3>1, DeliveredIsCounted
    <3> QED
      BY <3>1, <3>2, <3>3 DEF TypeOK
  <2>2. ASSUME NEW s \in Sites, NEW k \in Keys, FirstAlert(s, k)
        PROVE  FALSE
    <3>1. inWindow' = [inWindow EXCEPT ![s][k] = Before(s, k) + 1] /\ k \notin tracked[s]
      BY <2>2 DEF FirstAlert, LetThrough
    <3> QED
      BY <2>0, <3>1 DEF TypeOK
  <2>3. ASSUME NEW s \in Sites, NEW k \in Keys, ThresholdAlert(s, k)
        PROVE  FALSE
    <3>1. inWindow' = [inWindow EXCEPT ![s][k] = Before(s, k)]
      BY <2>3 DEF ThresholdAlert
    <3>2. Before(s, k) \in Nat /\ Before(s, k) <= inWindow[s][k]
      BY DEF Before, TypeOK
    <3> QED
      BY <2>0, <3>1, <3>2 DEF TypeOK
  <2>5. ASSUME NEW s \in Sites, NEW k \in Keys, DeleteAlertMapKey(s, k)
        PROVE  FALSE
    BY <2>0, <2>5 DEF DeleteAlertMapKey, TypeOK
  <2>4. CASE UNCHANGED inWindow
    BY <2>0, <2>4
  <2> QED
    BY <2>1, <2>2, <2>3, <2>4, <2>5
    DEF Next, DroppedAlert, WatchConfigMapAdd, WatchConfigMapUpdate, UpdateThrottlingConfig,
        Tick, SetBack, vars, history
<1> QED
  BY <1>1, <1>2, QuotaInit, TypeCorrect, PTL DEF Spec, QuotaRespected

-----------------------------------------------------------------------------
(* The silence after a threshold alert. *)

LEMMA SteadyIsSite == SteadySites \subseteq Sites
  BY DEF SteadySites

\* On clocks that only advance a threshold falls within its window.
LEMMA ThresholdStep ==
  ASSUME TypeOK, ThresholdInWindow, [Next]_vars
  PROVE  ThresholdInWindow'
<1> USE ConstantsAssumption
<1> DEFINE Q(r, j) ==
      /\ AlertMap[r][j].FirstEventTimestamp <= clock[r]
      /\ thresholdAt[r][j] # NoTime
           => /\ j \in tracked[r] /\ AlertMap[r][j].Throttle = 1
              /\ AlertMap[r][j].FirstEventTimestamp <= thresholdAt[r][j]
              /\ thresholdAt[r][j] - AlertMap[r][j].FirstEventTimestamp < Sec
<1> SUFFICES ASSUME NEW r \in SteadySites, NEW j \in Keys PROVE Q(r, j)'
  BY DEF ThresholdInWindow
<1>s. r \in Sites
  BY SteadyIsSite
<1>q. Q(r, j)
  BY DEF ThresholdInWindow
<1>t. clock[r] \in 0..MaxTime
  BY <1>s DEF TypeOK
<1>0. CASE UNCHANGED <<clock, table, thresholdAt>>
  BY <1>0, <1>q DEF table
<1>1. ASSUME NEW s \in Sites, NEW k \in Keys, FirstAlert(s, k) PROVE Q(r, j)'
  <2>1. /\ thresholdAt' = [thresholdAt EXCEPT ![s][k] = NoTime]
        /\ clock' = clock
        /\ k \notin tracked[s]
    BY <1>1 DEF FirstAlert, LetThrough
  <2>2. CASE HasRoom(s)
    <3>1. tracked' = [tracked EXCEPT ![s] = @ \cup {k}]
      BY <1>1, <2>2 DEF FirstAlert
    <3>2. AlertMap' = [AlertMap EXCEPT ![s][k] = NewWindow(s)]
      BY <1>1, <2>2 DEF FirstAlert
    <3>3. CASE r = s /\ j = k
      BY <1>s, <2>1, <3>1, <3>2, <3>3, <1>t DEF TypeOK, NewWindow
    <3>4. CASE ~(r = s /\ j = k)
      BY <1>s, <1>q, <2>1, <3>1, <3>2, <3>4 DEF TypeOK
    <3> QED
      BY <3>3, <3>4
  <2>3. CASE ~HasRoom(s)
    <3>1. tracked' = tracked /\ AlertMap' = AlertMap
      BY <1>1, <2>3 DEF FirstAlert, table
    <3>2. CASE r = s /\ j = k
      BY <1>s, <1>q, <2>1, <3>1, <3>2 DEF TypeOK
    <3>3. CASE ~(r = s /\ j = k)
      BY <1>s, <1>q, <2>1, <3>1, <3>3 DEF TypeOK
    <3> QED
      BY <3>2, <3>3
  <2> QED
    BY <2>2, <2>3
<1>2. ASSUME NEW s \in SteadySites, NEW k \in Keys
      PROVE  /\ Counted(s, k).FirstEventTimestamp <= clock[s]
             /\ clock[s] - Counted(s, k).FirstEventTimestamp < Sec
             /\ [Counted(s, k) EXCEPT !.EventCount = 0, !.Throttle = 1].FirstEventTimestamp
                  = Counted(s, k).FirstEventTimestamp
             /\ [Counted(s, k) EXCEPT !.EventCount = 0, !.Throttle = 1].Throttle = 1
  <2>1. /\ AlertMap[s][k] \in AlertThrottleState /\ clock[s] \in 0..MaxTime
        /\ AlertMap[s][k].FirstEventTimestamp <= clock[s]
    BY SteadyIsSite DEF TypeOK, ThresholdInWindow
  <2>2. CASE WindowOver(s, k)
    BY <2>1, <2>2 DEF Counted, NewWindow
  <2>3. CASE ~WindowOver(s, k)
    BY <2>1, <2>3 DEF Counted, WindowOver, Elapsed, AlertThrottleState
  <2> QED
    BY <2>2, <2>3
<1>3. ASSUME NEW s \in Sites, NEW k \in Keys, PassedAlert(s, k) PROVE Q(r, j)'
  <2>1. /\ thresholdAt' = [thresholdAt EXCEPT ![s][k] = NoTime]
        /\ clock' = clock /\ tracked' = tracked
        /\ AlertMap' = [AlertMap EXCEPT ![s][k] = Counted(s, k)]
    BY <1>3 DEF PassedAlert, LetThrough
  <2>2. CASE r = s /\ j = k
    BY <1>s, <1>2, <2>1, <2>2 DEF TypeOK
  <2>3. CASE ~(r = s /\ j = k)
    BY <1>s, <1>q, <2>1, <2>3 DEF TypeOK
  <2> QED
    BY <2>2, <2>3
<1>4. ASSUME NEW s \in Sites, NEW k \in Keys, ThresholdAlert(s, k) PROVE Q(r, j)'
  <2> DEFINE new == [Counted(s, k) EXCEPT !.EventCount = 0, !.Throttle = 1]
  <2>1. /\ thresholdAt' = [thresholdAt EXCEPT ![s][k] = clock[s]]
        /\ clock' = clock /\ tracked' = tracked /\ k \in tracked[s]
        /\ AlertMap' = [AlertMap EXCEPT ![s][k] = new]
    BY <1>4 DEF ThresholdAlert
  <2>4. new.Throttle = 1 /\ new.FirstEventTimestamp = Counted(s, k).FirstEventTimestamp
    BY <1>2
  <2> HIDE DEF new
  <2>2. CASE r = s /\ j = k
    BY <1>s, <1>2, <2>1, <2>2, <2>4 DEF TypeOK
  <2>3. CASE ~(r = s /\ j = k)
    BY <1>s, <1>q, <2>1, <2>3 DEF TypeOK
  <2> QED
    BY <2>2, <2>3
<1>5. ASSUME NEW s \in Sites, NEW k \in Keys, DeleteAlertMapKey(s, k) PROVE Q(r, j)'
  <2>1. CASE r = s /\ j = k
    BY <1>s, <1>5, <1>t, <2>1 DEF DeleteAlertMapKey, TypeOK, ZeroState
  <2>2. CASE ~(r = s /\ j = k)
    BY <1>s, <1>5, <1>q, <2>2 DEF DeleteAlertMapKey, TypeOK
  <2> QED
    BY <2>1, <2>2
<1>6. CASE Tick
  <2>1. clock'[r] = clock[r] + 1 /\ UNCHANGED <<table, thresholdAt>>
    BY <1>s, <1>6 DEF Tick
  <2>2. AlertMap[r][j].FirstEventTimestamp \in 0..MaxTime
    BY <1>s DEF TypeOK, AlertThrottleState
  <2> QED
    BY <1>q, <1>t, <2>1, <2>2 DEF table
<1>7. ASSUME NEW s \in DaemonSites, NEW t \in 0..MaxTime, SetBack(s, t) PROVE Q(r, j)'
  <2>1. r # s
    BY <1>7 DEF SetBack, SteadySites
  <2>2. clock'[r] = clock[r] /\ UNCHANGED <<table, thresholdAt>>
    BY <1>7, <1>s, <2>1 DEF SetBack, TypeOK, history
  <2> QED
    BY <1>q, <2>2 DEF table
<1> QED
  BY <1>0, <1>1, <1>3, <1>4, <1>5, <1>6, <1>7
  DEF Next, DroppedAlert, WatchConfigMapAdd, WatchConfigMapUpdate, UpdateThrottlingConfig,
      vars, history

\* At a site whose clock only advances, a key stays silent for longer than throttleSec minus
\* one second after its threshold alert, whatever limits the ConfigMap gives.
THEOREM SilenceHolds == Spec => SilenceLasts
<1> USE ConstantsAssumption
<1>1. Init => ThresholdInWindow
  BY SteadyIsSite DEF Init, ThresholdInWindow, ZeroState
<1>2. TypeOK /\ ThresholdInWindow /\ [Next]_vars => (TypeOK /\ ThresholdInWindow)'
  BY TypeStep, ThresholdStep
<1>3. TypeOK /\ ThresholdInWindow /\ [Next]_vars
        => [\A s \in SteadySites, k \in Keys :
              thresholdAt[s][k] # NoTime /\ thresholdAt'[s][k] = NoTime /\ k \in tracked'[s]
                => clock[s] - thresholdAt[s][k] > CfgOf(s).ThrottleSec * Sec - Sec]_vars
  <2> SUFFICES ASSUME TypeOK, ThresholdInWindow, Next, NEW r \in SteadySites, NEW j \in Keys,
                      thresholdAt[r][j] # NoTime, thresholdAt'[r][j] = NoTime, j \in tracked'[r]
               PROVE  clock[r] - thresholdAt[r][j] > CfgOf(r).ThrottleSec * Sec - Sec
    BY DEF vars
  <2>s. r \in Sites
    BY SteadyIsSite
  <2>1. ASSUME NEW s \in Sites, NEW k \in Keys, PassedAlert(s, k)
        PROVE  clock[r] - thresholdAt[r][j] > CfgOf(r).ThrottleSec * Sec - Sec
    <3>1. thresholdAt' = [thresholdAt EXCEPT ![s][k] = NoTime] /\ ~Throttled(s, k)
      BY <2>1 DEF PassedAlert, LetThrough
    <3>2. r = s /\ j = k
      BY <2>s, <3>1 DEF TypeOK
    <3> DEFINE first == AlertMap[r][j].FirstEventTimestamp
               len == CfgOf(r).ThrottleSec * Sec
    <3>3. /\ first \in Nat /\ clock[r] \in Nat /\ thresholdAt[r][j] \in Int
          /\ first <= clock[r] /\ thresholdAt[r][j] - first < Sec
          /\ AlertMap[r][j].Throttle = 1
      BY <2>s DEF TypeOK, ThresholdInWindow, AlertThrottleState, NoTime
    <3>4. len \in Nat
      BY DEF CfgOf, TypeOK, Cfg
    <3>5. ~(clock[r] - first < len)
      BY <3>1, <3>2, <3>3 DEF Throttled, Elapsed
    <3> HIDE DEF first, len
    <3>6. clock[r] - thresholdAt[r][j] > len - Sec
      BY <3>3, <3>4, <3>5
    <3> QED
      BY <3>6 DEF len
  <2>2. ASSUME NEW s \in Sites, NEW k \in Keys, FirstAlert(s, k)
        PROVE  FALSE
    <3>1. thresholdAt' = [thresholdAt EXCEPT ![s][k] = NoTime] /\ k \notin tracked[s]
      BY <2>2 DEF FirstAlert, LetThrough
    <3> QED
      BY <2>s, <3>1 DEF TypeOK, ThresholdInWindow
  <2>3. ASSUME NEW s \in Sites, NEW k \in Keys, ThresholdAlert(s, k)
        PROVE  FALSE
    BY <2>s, <2>3 DEF ThresholdAlert, TypeOK, NoTime
  <2>4. ASSUME NEW s \in Sites, NEW k \in Keys, DeleteAlertMapKey(s, k)
        PROVE  FALSE
    BY <2>s, <2>4 DEF DeleteAlertMapKey, TypeOK
  <2>5. CASE UNCHANGED thresholdAt
    BY <2>5
  <2> QED
    BY <2>1, <2>2, <2>3, <2>4, <2>5
    DEF Next, DroppedAlert, WatchConfigMapAdd, WatchConfigMapUpdate, UpdateThrottlingConfig,
        Tick, SetBack, vars, history
<1> QED
  BY <1>1, <1>2, <1>3, TypeCorrect, PTL DEF Spec, SilenceLasts

\* The counter of a key is the number of its alerts delivered in the window, for every
\* history of limits and entries (what QuotaHolds rests on).
THEOREM WindowsAreCounted ==
  ASSUME EnoughEntries, ThrottleSecGiven
  PROVE  Spec => []WindowCounts
<1>1. Init => WindowCounts /\ SecPositive
  BY QuotaInit
<1>2. TypeOK /\ WindowCounts /\ SecPositive /\ [Next]_vars => (WindowCounts /\ SecPositive)'
  BY WindowCountsStep, SecPositiveStep
<1> QED
  BY <1>1, <1>2, TypeCorrect, PTL DEF Spec

\* At a site whose clock only advances, a threshold alert falls into the second its window
\* covers and the key stays throttled until the next delivery.
THEOREM ThresholdsInWindow == Spec => []ThresholdInWindow
<1> USE ConstantsAssumption
<1>1. Init => ThresholdInWindow
  BY SteadyIsSite DEF Init, ThresholdInWindow, ZeroState
<1>2. TypeOK /\ ThresholdInWindow /\ [Next]_vars => ThresholdInWindow'
  BY ThresholdStep
<1> QED
  BY <1>1, <1>2, TypeCorrect, PTL DEF Spec
-----------------------------------------------------------------------------
(* Two windows in one second. *)

\* The limits the ConfigMap gives have a greatest one, which is not zero.
LimitsBounded ==
  \E m \in MaxAlerts : /\ m # Absent /\ m >= 1
                       /\ \A n \in MaxAlerts : n = Absent \/ n <= m

LimitsKept == GlobalCfg.MaxAlertPerSec <= Limit /\ BpfConfig.MaxAlertPerSec <= Limit

\* The number of ages of a window that opened a ticks ago.
Since(a) == IF a + 1 < Sec THEN a + 1 ELSE Sec

\* How the alerts of the last second divide: w at most since the window opened a ticks ago, as
\* many as the limit at most before that, and none later than a second after it opened.
Split(f, a, w) ==
  /\ Below(f, Since(a)) <= w
  /\ Below(f, Sec) <= Below(f, Since(a)) + Limit
  /\ \A b \in Ages : b <= a - Sec => f[b] = 0

Divided ==
  \A s \in SteadySites, k \in Keys :
    /\ inWindow[s][k] <= Limit
    /\ k \notin tracked[s] => recent[s][k] = [a \in Ages |-> 0]
    /\ k \in tracked[s] => Split(recent[s][k], clock[s] - AlertMap[s][k].FirstEventTimestamp, inWindow[s][k])

\* Induction: a set of numbers that is not empty has a least one, since < is well-founded;
\* a set with 0 and with the successors of its members has all numbers.
LEMMA LeastNat ==
  ASSUME NEW T \in SUBSET Nat, T # {}
  PROVE  \E n \in T : \A m \in T : n <= m
<1> DEFINE R == {ss \in Nat \X Nat : ss[1] < ss[2]}
<1>1. OpToRel(<, Nat) = R
  BY Zenon DEF OpToRel
<1>2. IsWellFoundedOn(R, Nat)
  BY <1>1, NatLessThanWellFounded, Zenon
<1>3. PICK n \in T : \A m \in T : ~(<<m, n>> \in R)
  <2> HIDE DEF R
  <2> QED BY <1>2, WFMin, Zenon
<1>4. \A m \in T : ~(m < n)
  <2> SUFFICES ASSUME NEW m \in T, m < n PROVE FALSE
    OBVIOUS
  <2>1. <<m, n>> \in Nat \X Nat /\ <<m, n>>[1] = m /\ <<m, n>>[2] = n
    OBVIOUS
  <2>2. <<m, n>> \in R
    BY <2>1
  <2> QED BY <1>3, <2>2
<1> QED BY <1>4

LEMMA SetInduction ==
  ASSUME NEW S, 0 \in S, \A n \in Nat : n \in S => n + 1 \in S
  PROVE  Nat \subseteq S
<1> SUFFICES ASSUME ~(Nat \subseteq S) PROVE FALSE
  OBVIOUS
<1>1. PICK n \in Nat \ S : \A m \in Nat \ S : n <= m
  BY LeastNat, Zenon
<1>2. n # 0 /\ n - 1 \in Nat
  BY <1>1
<1>3. n - 1 \in S
  BY <1>1, <1>2
<1> QED BY <1>1, <1>2, <1>3

\* The stages of the sum.
Stages(F, f) == F = [i \in 0 .. Sec |-> IF i = 0 THEN 0 ELSE F[i - 1] + f[i - 1]]

\* Below adds one age at a time.
LEMMA BelowDef ==
  ASSUME NEW f
  PROVE  /\ Below(f, 0) = 0
         /\ \A n \in Ages : Below(f, n + 1) = Below(f, n) + f[n]
<1> USE ConstantsAssumption
<1> DEFINE Upto(F, n) == F = [i \in 0 .. n |-> IF i = 0 THEN 0 ELSE F[i - 1] + f[i - 1]]
           G == {n \in Nat : \E F : Upto(F, n)}
<1>1. 0 \in G
  <2>1. Upto([i \in 0 .. 0 |-> 0], 0)
    OBVIOUS
  <2> QED BY <2>1
<1>2. ASSUME NEW n \in Nat, n \in G PROVE n + 1 \in G
  <2>1. PICK F : Upto(F, n)
    BY <1>2
  <2> DEFINE x == F[n] + f[n]
             H == [i \in 0 .. n + 1 |-> IF i = n + 1 THEN x ELSE F[i]]
  <2>2. \A i \in 0 .. n + 1 : H[i] = IF i = n + 1 THEN x ELSE F[i]
    OBVIOUS
  <2>3. \A i \in 0 .. n : F[i] = IF i = 0 THEN 0 ELSE F[i - 1] + f[i - 1]
    BY <2>1
  <2>4. \A i \in 0 .. n + 1 : H[i] = IF i = 0 THEN 0 ELSE H[i - 1] + f[i - 1]
    <3> SUFFICES ASSUME NEW i \in 0 .. n + 1
                 PROVE  H[i] = IF i = 0 THEN 0 ELSE H[i - 1] + f[i - 1]
      OBVIOUS
    <3>1. i # 0 => i - 1 \in 0 .. n + 1 /\ i - 1 # n + 1
      OBVIOUS
    <3>2. i # 0 => H[i - 1] = F[i - 1]
      BY <2>2, <3>1
    <3> HIDE DEF H
    <3>3. CASE i = n + 1
      BY <2>2, <3>2, <3>3
    <3>4. CASE i # n + 1
      BY <2>2, <2>3, <3>2, <3>4
    <3> QED BY <3>3, <3>4
  <2>5. Upto(H, n + 1)
    <3> DEFINE B == [i \in 0 .. n + 1 |-> IF i = 0 THEN 0 ELSE H[i - 1] + f[i - 1]]
    <3> SUFFICES H = B
      OBVIOUS
    <3> QED BY <2>4
  <2>6. n + 1 \in Nat
    OBVIOUS
  <2> HIDE DEF H
  <2> QED BY <2>5, <2>6, Zenon
<1>3. Sec \in G
  <2> HIDE DEF G
  <2> QED BY <1>1, <1>2, SetInduction
<1>4. PICK F : Stages(F, f)
  BY <1>3 DEF Stages
<1> DEFINE Body(g) == [i \in 0 .. Sec |-> IF i = 0 THEN 0 ELSE g[i - 1] + f[i - 1]]
           sum == CHOOSE g : g = Body(g)
<1>5. \A n : Below(f, n) = sum[n]
  BY DEF Below
<1>6. sum = Body(sum)
  <2>1. F = Body(F)
    BY <1>4, Zenon DEF Stages
  <2> QED BY <2>1, Zenon
<1> HIDE DEF sum
<1>7. sum[0] = 0 /\ \A n \in Ages : sum[n + 1] = sum[n] + f[n]
  BY <1>6 DEF Ages
<1> QED BY <1>5, <1>7, Zenon

\* Sums of numbers are numbers, and grow with the ages.
LEMMA BelowNat ==
  ASSUME NEW f \in [Ages -> Nat]
  PROVE  \A n \in 0 .. Sec : Below(f, n) \in Nat /\ \A m \in 0 .. n : Below(f, m) <= Below(f, n)
<1> USE ConstantsAssumption
<1> DEFINE Good(n) == Below(f, n) \in Nat /\ \A m \in 0 .. n : Below(f, m) \in Nat /\ Below(f, m) <= Below(f, n)
           G == {n \in Nat : n <= Sec => Good(n)}
<1>1. 0 \in G
  BY BelowDef
<1>2. ASSUME NEW n \in Nat, n \in G PROVE n + 1 \in G
  <2> SUFFICES ASSUME n + 1 <= Sec PROVE Good(n + 1)
    OBVIOUS
  <2>1. Good(n)
    BY <1>2
  <2>2. n \in Ages /\ f[n] \in Nat
    BY DEF Ages
  <2>3. Below(f, n + 1) = Below(f, n) + f[n]
    BY <2>2, BelowDef
  <2>4. Below(f, n + 1) \in Nat /\ Below(f, n) <= Below(f, n + 1)
    BY <2>1, <2>2, <2>3
  <2>5. ASSUME NEW m \in 0 .. n + 1 PROVE Below(f, m) \in Nat /\ Below(f, m) <= Below(f, n + 1)
    <3>1. CASE m = n + 1
      BY <2>4, <3>1
    <3>2. CASE m # n + 1
      <4>1. m \in 0 .. n
        BY <3>2
      <4>2. Below(f, m) \in Nat /\ Below(f, m) <= Below(f, n)
        BY <2>1, <4>1
      <4> QED BY <2>1, <2>4, <4>2
    <3> QED BY <3>1, <3>2
  <2> QED BY <2>4, <2>5
<1>3. Nat \subseteq G
  <2> HIDE DEF G
  <2> QED BY <1>1, <1>2, SetInduction
<1> QED BY <1>3

\* A tick moves every count on by one age.
LEMMA BelowShift ==
  ASSUME NEW f \in [Ages -> Nat], NEW g, g = [a \in Ages |-> IF a = 0 THEN 0 ELSE f[a - 1]]
  PROVE  \A n \in 0 .. Sec - 1 : Below(g, n + 1) = Below(f, n)
<1> USE ConstantsAssumption
<1> DEFINE G == {n \in Nat : n <= Sec - 1 => Below(g, n + 1) = Below(f, n)}
<1>1. 0 \in G
  <2>1. 0 \in Ages /\ g[0] = 0
    BY DEF Ages
  <2>2. Below(g, 0) = 0 /\ Below(f, 0) = 0 /\ Below(g, 0 + 1) = Below(g, 0) + g[0]
    BY <2>1, BelowDef
  <2> QED BY <2>1, <2>2
<1>2. ASSUME NEW n \in Nat, n \in G PROVE n + 1 \in G
  <2> SUFFICES ASSUME n + 1 <= Sec - 1 PROVE Below(g, (n + 1) + 1) = Below(f, n + 1)
    OBVIOUS
  <2>1. n \in Ages /\ n + 1 \in Ages /\ g[n + 1] = f[n]
    BY DEF Ages
  <2>2. Below(g, n + 1) = Below(f, n)
    BY <1>2
  <2>3. Below(g, (n + 1) + 1) = Below(g, n + 1) + g[n + 1] /\ Below(f, n + 1) = Below(f, n) + f[n]
    BY <2>1, BelowDef
  <2> QED BY <2>1, <2>2, <2>3
<1>3. Nat \subseteq G
  <2> HIDE DEF G
  <2> QED BY <1>1, <1>2, SetInduction
<1> QED BY <1>3

\* An alert delivered now is in every sum but the empty one.
LEMMA BelowMore ==
  ASSUME NEW f \in [Ages -> Nat], NEW g, g = [f EXCEPT ![0] = @ + 1]
  PROVE  \A n \in 1 .. Sec : Below(g, n) = Below(f, n) + 1
<1> USE ConstantsAssumption
<1> DEFINE G == {n \in Nat : n <= Sec - 1 => Below(g, n + 1) = Below(f, n + 1) + 1}
<1>1. 0 \in G
  <2>1. 0 \in Ages /\ g[0] = f[0] + 1 /\ f[0] \in Nat
    BY DEF Ages
  <2>2. /\ Below(g, 0) = 0 /\ Below(f, 0) = 0
        /\ Below(g, 0 + 1) = Below(g, 0) + g[0] /\ Below(f, 0 + 1) = Below(f, 0) + f[0]
    BY <2>1, BelowDef
  <2> QED BY <2>1, <2>2
<1>2. ASSUME NEW n \in Nat, n \in G PROVE n + 1 \in G
  <2> SUFFICES ASSUME n + 1 <= Sec - 1 PROVE Below(g, (n + 1) + 1) = Below(f, (n + 1) + 1) + 1
    OBVIOUS
  <2>1. n + 1 \in Ages /\ g[n + 1] = f[n + 1] /\ f[n + 1] \in Nat
    BY DEF Ages
  <2>2. Below(g, n + 1) = Below(f, n + 1) + 1
    BY <1>2
  <2>3. /\ Below(g, (n + 1) + 1) = Below(g, n + 1) + g[n + 1]
        /\ Below(f, (n + 1) + 1) = Below(f, n + 1) + f[n + 1]
    BY <2>1, BelowDef
  <2>4. Below(f, n + 1) \in Nat
    BY BelowNat
  <2> QED BY <2>1, <2>2, <2>3, <2>4
<1>3. Nat \subseteq G
  <2> HIDE DEF G
  <2> QED BY <1>1, <1>2, SetInduction
<1>4. ASSUME NEW n \in 1 .. Sec PROVE Below(g, n) = Below(f, n) + 1
  <2> DEFINE m == n - 1
  <2>1. m \in Nat /\ m <= Sec - 1 /\ m + 1 = n
    OBVIOUS
  <2> HIDE DEF m
  <2>2. m \in G
    BY <2>1, <1>3, Zenon
  <2>3. Below(g, m + 1) = Below(f, m + 1) + 1
    BY <2>1, <2>2, Zenon
  <2> QED BY <2>1, <2>3, Zenon
<1> QED BY <1>4

\* Nothing delivered sums to nothing.
LEMMA BelowNone ==
  ASSUME NEW f, f = [a \in Ages |-> 0]
  PROVE  \A n \in 0 .. Sec : Below(f, n) = 0
<1> USE ConstantsAssumption
<1> DEFINE G == {n \in Nat : n <= Sec => Below(f, n) = 0}
<1>1. 0 \in G
  BY BelowDef
<1>2. ASSUME NEW n \in Nat, n \in G PROVE n + 1 \in G
  <2> SUFFICES ASSUME n + 1 <= Sec PROVE Below(f, n + 1) = 0
    OBVIOUS
  <2>1. n \in Ages /\ f[n] = 0
    BY DEF Ages
  <2>2. Below(f, n) = 0 /\ Below(f, n + 1) = Below(f, n) + f[n]
    BY <1>2, <2>1, BelowDef
  <2> QED BY <2>1, <2>2
<1>3. Nat \subseteq G
  <2> HIDE DEF G
  <2> QED BY <1>1, <1>2, SetInduction
<1> QED BY <1>3

LEMMA SinceFacts ==
  ASSUME NEW a \in Nat
  PROVE  /\ Since(a) \in 1 .. Sec
         /\ Since(a + 1) = (IF Since(a) < Sec THEN Since(a) + 1 ELSE Sec)
BY ConstantsAssumption DEF Since

LEMMA LimitFacts ==
  ASSUME LimitsBounded
  PROVE  Limit \in Nat /\ Limit >= 1 /\ \A n \in MaxAlerts : n = Absent \/ n <= Limit
<1> DEFINE Greatest(m) == m # Absent /\ \A n \in MaxAlerts : n = Absent \/ n <= m
<1>1. PICK m \in MaxAlerts : m >= 1 /\ Greatest(m)
  BY DEF LimitsBounded
<1>2. Limit = CHOOSE l \in MaxAlerts : Greatest(l)
  BY DEF Limit
<1>3. Limit \in MaxAlerts /\ Greatest(Limit)
  <2> HIDE DEF Greatest
  <2> QED BY <1>1, <1>2, Zenon
<1>4. Limit \in Nat /\ m \in Nat
  BY <1>1, <1>3, LimitsAreNumbers
<1>5. m <= Limit
  BY <1>1, <1>3
<1> QED BY <1>1, <1>3, <1>4, <1>5

\* Time passes.
LEMMA SplitTick ==
  ASSUME LimitsBounded, NEW f \in [Ages -> Nat], NEW a \in Nat, NEW w \in Nat, Split(f, a, w),
         NEW g, g = [b \in Ages |-> IF b = 0 THEN 0 ELSE f[b - 1]]
  PROVE  Split(g, a + 1, w)
<1> USE ConstantsAssumption
<1> DEFINE n == Since(a)
           m == Since(a + 1)
<1>1. n \in 1 .. Sec /\ m = (IF n < Sec THEN n + 1 ELSE Sec)
  BY SinceFacts
<1> HIDE DEF n, m
<1>2. Below(f, n) <= w /\ Below(f, Sec) <= Below(f, n) + Limit
  BY DEF Split, n
<1>3. /\ Below(f, n) \in Nat /\ Below(f, Sec) \in Nat /\ Below(f, Sec - 1) \in Nat /\ Limit \in Nat
      /\ Below(f, Sec - 1) <= Below(f, Sec)
  BY <1>1, BelowNat, LimitFacts
<1>4. Below(g, Sec) = Below(f, Sec - 1)
  <2>1. Sec - 1 \in 0 .. Sec - 1 /\ (Sec - 1) + 1 = Sec
    OBVIOUS
  <2> QED BY <2>1, BelowShift
<1>5. Below(g, m) <= w /\ Below(g, Sec) <= Below(g, m) + Limit
  <2>1. CASE n < Sec
    <3>1. n \in 0 .. Sec - 1 /\ m = n + 1
      BY <1>1, <2>1
    <3>2. Below(g, m) = Below(f, n)
      BY <3>1, BelowShift
    <3> QED BY <3>2, <1>2, <1>3, <1>4
  <2>2. CASE n = Sec
    <3>1. m = Sec
      BY <1>1, <2>2
    <3> QED BY <3>1, <2>2, <1>2, <1>3, <1>4
  <2> QED BY <1>1, <2>1, <2>2
<1>6. ASSUME NEW b \in Ages, b <= (a + 1) - Sec PROVE g[b] = 0
  <2>1. b # 0 => b - 1 \in Ages /\ b - 1 <= a - Sec
    BY <1>6 DEF Ages
  <2> QED BY <2>1 DEF Split
<1> QED BY <1>5, <1>6 DEF Split, m

\* An alert is delivered in the window.
LEMMA SplitMore ==
  ASSUME LimitsBounded, NEW f \in [Ages -> Nat], NEW a \in Nat, a < Sec, NEW w \in Nat, Split(f, a, w),
         NEW g, g = [f EXCEPT ![0] = @ + 1]
  PROVE  Split(g, a, w + 1)
<1> USE ConstantsAssumption
<1> DEFINE n == Since(a)
<1>1. n \in 1 .. Sec
  BY SinceFacts
<1> HIDE DEF n
<1>2. Below(f, n) <= w /\ Below(f, Sec) <= Below(f, n) + Limit
  BY DEF Split, n
<1>3. Below(f, n) \in Nat /\ Below(f, Sec) \in Nat /\ Limit \in Nat
  BY <1>1, BelowNat, LimitFacts
<1>4. Below(g, n) = Below(f, n) + 1
  BY <1>1, BelowMore
<1>5. Below(g, Sec) = Below(f, Sec) + 1
  <2>1. Sec \in 1 .. Sec
    OBVIOUS
  <2>2. \A i \in 1 .. Sec : Below(g, i) = Below(f, i) + 1
    BY BelowMore
  <2> QED BY <2>1, <2>2, Zenon
<1>6. Below(g, n) <= w + 1 /\ Below(g, Sec) <= Below(g, n) + Limit
  BY <1>2, <1>3, <1>4, <1>5
<1>7. \A b \in Ages : ~(b <= a - Sec)
  BY DEF Ages
<1> QED BY <1>6, <1>7 DEF Split, n

\* A window opens after the last one is over: nothing was delivered at this tick yet, and
\* what the last second has is of the last window.
LEMMA SplitOpen ==
  ASSUME LimitsBounded, NEW f \in [Ages -> Nat], NEW a \in Nat, a >= Sec, NEW w \in Nat, w <= Limit,
         Split(f, a, w)
  PROVE  Split(f, 0, 0)
<1> USE ConstantsAssumption
<1>1. Since(a) = Sec /\ Since(0) = 1
  BY DEF Since
<1>2. Below(f, Sec) <= w
  BY <1>1 DEF Split
<1>3. 0 \in Ages /\ f[0] = 0
  BY DEF Split, Ages
<1>4. Below(f, 1) = 0
  <2>1. Below(f, 0) = 0 /\ Below(f, 0 + 1) = Below(f, 0) + f[0]
    BY <1>3, BelowDef
  <2> QED BY <2>1, <1>3
<1>5. Below(f, Sec) \in Nat /\ Limit \in Nat
  BY BelowNat, LimitFacts
<1>6. Below(f, Sec) <= Below(f, 1) + Limit
  BY <1>2, <1>4, <1>5
<1>7. \A b \in Ages : ~(b <= 0 - Sec)
  BY DEF Ages
<1> QED BY <1>1, <1>4, <1>6, <1>7 DEF Split

\* A key's first window.
LEMMA SplitNone ==
  ASSUME LimitsBounded, NEW f, f = [a \in Ages |-> 0]
  PROVE  Split(f, 0, 0)
<1> USE ConstantsAssumption
<1>1. Since(0) \in 0 .. Sec
  BY DEF Since
<1>2. Below(f, Since(0)) = 0 /\ Below(f, Sec) = 0
  BY <1>1, BelowNone
<1> QED BY <1>2, LimitFacts DEF Split, Ages

\* The limits in force are among those given.
LEMMA LimitsStep ==
  ASSUME LimitsBounded, TypeOK, LimitsKept, [Next]_vars
  PROVE  LimitsKept'
<1>0. Limit \in Nat /\ \A max \in MaxAlerts : max = Absent \/ max <= Limit
  BY LimitFacts
<1>1. ASSUME NEW enabled \in BOOLEAN, NEW max \in MaxAlerts, NEW sec \in ThrottleSecs,
             WatchConfigMapAdd(enabled, max, sec) \/ WatchConfigMapUpdate(enabled, max, sec)
      PROVE  LimitsKept'
  <2>1. /\ (IF max = Absent THEN GlobalCfg.MaxAlertPerSec ELSE max) <= Limit
        /\ (IF max = Absent THEN 0 ELSE max) <= Limit
    BY <1>0 DEF LimitsKept
  <2>2. /\ \/ GlobalCfg'.MaxAlertPerSec = IF max = Absent THEN GlobalCfg.MaxAlertPerSec ELSE max
           \/ GlobalCfg'.MaxAlertPerSec = IF max = Absent THEN 0 ELSE max
        /\ BpfConfig' = BpfConfig
    BY <1>1 DEF WatchConfigMapAdd, WatchConfigMapUpdate
  <2>3. GlobalCfg'.MaxAlertPerSec <= Limit
    BY <2>1, <2>2
  <2> QED BY <2>2, <2>3 DEF LimitsKept
<1>2. CASE UpdateThrottlingConfig
  BY <1>2 DEF UpdateThrottlingConfig, LimitsKept
<1>3. CASE UNCHANGED <<GlobalCfg, BpfConfig>>
  BY <1>3 DEF LimitsKept
<1> QED
  BY <1>1, <1>2, <1>3
  DEF Next, FirstAlert, DroppedAlert, PassedAlert, ThresholdAlert, DeleteAlertMapKey, Tick,
      SetBack, vars

\* Every action keeps the division of the last second.
LEMMA DividedStep ==
  ASSUME EnoughEntries, LimitsBounded, TypeOK, WindowCounts, SecPositive, ThresholdInWindow, LimitsKept,
         Divided, [Next]_vars
  PROVE  Divided'
<1> USE ConstantsAssumption
<1> DEFINE Age(r, j) == clock[r] - AlertMap[r][j].FirstEventTimestamp
           Q(r, j) == /\ inWindow[r][j] <= Limit
                      /\ j \notin tracked[r] => recent[r][j] = [a \in Ages |-> 0]
                      /\ j \in tracked[r] => Split(recent[r][j], Age(r, j), inWindow[r][j])
<1> SUFFICES ASSUME NEW r \in SteadySites, NEW j \in Keys PROVE Q(r, j)'
  BY DEF Divided
<1>l. Limit \in Nat /\ Limit >= 1
  BY LimitFacts
<1>s. r \in Sites
  BY SteadyIsSite
<1>q. Q(r, j)
  BY DEF Divided
<1>t. /\ clock[r] \in Nat /\ AlertMap[r][j] \in AlertThrottleState /\ recent[r][j] \in [Ages -> Nat]
      /\ inWindow[r][j] \in Nat /\ Age(r, j) \in Nat
  <2>1. /\ clock[r] \in 0..MaxTime /\ AlertMap[r][j] \in AlertThrottleState
        /\ recent[r][j] \in [Ages -> Nat] /\ inWindow[r][j] \in Nat
    BY <1>s DEF TypeOK
  <2>2. AlertMap[r][j].FirstEventTimestamp <= clock[r]
    BY DEF ThresholdInWindow
  <2> QED BY <2>1, <2>2 DEF AlertThrottleState
<1>w. WindowOver(r, j) <=> Age(r, j) >= Sec
  BY <1>t DEF WindowOver, Elapsed, AlertThrottleState
<1>0. CASE UNCHANGED <<clock, table, inWindow, recent>>
  BY <1>0, <1>q DEF table
<1>f. ASSUME /\ j \in tracked'[r] <=> j \in tracked[r]
             /\ AlertMap'[r][j] = AlertMap[r][j] /\ inWindow'[r][j] = inWindow[r][j]
             /\ recent'[r][j] = recent[r][j] /\ clock'[r] = clock[r]
      PROVE  Q(r, j)'
  BY <1>f, <1>q
<1>1. ASSUME NEW s \in Sites, NEW k \in Keys, FirstAlert(s, k) PROVE Q(r, j)'
  <2>1. HasRoom(s)
    <3>1. tracked[s] \in SUBSET Keys /\ tracked[s] # Keys
      BY <1>1 DEF FirstAlert, TypeOK
    <3> QED BY <3>1 DEF HasRoom, EnoughEntries
  <2>2. /\ k \notin tracked[s] /\ tracked' = [tracked EXCEPT ![s] = @ \cup {k}]
        /\ AlertMap' = [AlertMap EXCEPT ![s][k] = NewWindow(s)]
        /\ inWindow' = [inWindow EXCEPT ![s][k] = Before(s, k) + 1]
        /\ recent' = [recent EXCEPT ![s][k][0] = @ + 1]
        /\ clock' = clock
    BY <1>1, <2>1 DEF FirstAlert, LetThrough
  <2>3. CASE ~(r = s /\ j = k)
    BY <1>s, <1>f, <2>2, <2>3 DEF TypeOK
  <2>4. CASE r = s /\ j = k
    <3> DEFINE g == [recent[r][j] EXCEPT ![0] = @ + 1]
    <3>1. Before(s, k) = 0
      BY <2>2, <2>4 DEF Before, WindowCounts
    <3>2. /\ j \in tracked'[r] /\ inWindow'[r][j] = 0 + 1 /\ recent'[r][j] = g
          /\ AlertMap'[r][j].FirstEventTimestamp = clock[r] /\ clock'[r] = clock[r]
      BY <1>s, <2>2, <2>4, <3>1 DEF TypeOK, NewWindow
    <3>3. recent[r][j] = [a \in Ages |-> 0]
      BY <1>q, <2>2, <2>4
    <3>4. Split(recent[r][j], 0, 0)
      BY <3>3, SplitNone
    <3>5. Split(g, 0, 0 + 1)
      <4>1. 0 \in Nat /\ 0 < Sec
        OBVIOUS
      <4> QED BY <1>t, <3>4, <4>1, SplitMore
    <3>6. clock'[r] - AlertMap'[r][j].FirstEventTimestamp = 0
      BY <1>t, <3>2
    <3> HIDE DEF g
    <3>7. inWindow'[r][j] <= Limit
      BY <1>l, <3>2
    <3>8. Split(recent'[r][j], clock'[r] - AlertMap'[r][j].FirstEventTimestamp, inWindow'[r][j])
      BY <3>2, <3>5, <3>6, Zenon
    <3> QED BY <3>2, <3>7, <3>8, Zenon
  <2> QED BY <2>3, <2>4
<1>2. ASSUME NEW s \in Sites, NEW k \in Keys, PassedAlert(s, k) PROVE Q(r, j)'
  <2>1. /\ k \in tracked[s] /\ ~Throttled(s, k) /\ tracked' = tracked /\ clock' = clock
        /\ Counted(s, k).EventCount <= CfgOf(s).MaxAlertPerSec
        /\ AlertMap' = [AlertMap EXCEPT ![s][k] = Counted(s, k)]
        /\ inWindow' = [inWindow EXCEPT ![s][k] = Before(s, k) + 1]
        /\ recent' = [recent EXCEPT ![s][k][0] = @ + 1]
    BY <1>2 DEF PassedAlert, LetThrough
  <2>2. CASE ~(r = s /\ j = k)
    BY <1>s, <1>f, <2>1, <2>2 DEF TypeOK
  <2>3. CASE r = s /\ j = k
    <3> DEFINE g == [recent[r][j] EXCEPT ![0] = @ + 1]
    <3>1. /\ j \in tracked'[r] /\ inWindow'[r][j] = Before(r, j) + 1 /\ recent'[r][j] = g
          /\ AlertMap'[r][j] = Counted(r, j) /\ clock'[r] = clock[r]
      BY <1>s, <2>1, <2>3 DEF TypeOK
    <3>2. Before(r, j) + 1 <= Limit
      <4>1. Before(r, j) + 1 = Counted(r, j).EventCount
        BY <1>s, <2>1, <2>3, DeliveredIsCounted
      <4>2. CfgOf(r).MaxAlertPerSec \in Nat /\ CfgOf(r).MaxAlertPerSec <= Limit
        BY DEF CfgOf, LimitsKept, TypeOK, Cfg
      <4>3. Before(r, j) \in Nat
        BY <1>t DEF Before
      <4> QED BY <1>l, <2>1, <2>3, <4>1, <4>2, <4>3
    <3>3. Split(g, clock[r] - Counted(r, j).FirstEventTimestamp, Before(r, j) + 1)
      <4>1. CASE WindowOver(r, j)
        <5>1. Before(r, j) = 0 /\ clock[r] - Counted(r, j).FirstEventTimestamp = 0
          BY <1>t, <2>1, <2>3, <4>1 DEF Before, Counted, NewWindow
        <5>2. Split(recent[r][j], 0, 0)
          BY <1>q, <1>t, <1>w, <2>1, <2>3, <4>1, SplitOpen
        <5>3. 0 \in Nat /\ 0 < Sec
          OBVIOUS
        <5>4. Split(g, 0, 0 + 1)
          BY <1>t, <5>2, <5>3, SplitMore
        <5> QED BY <5>1, <5>4
      <4>2. CASE ~WindowOver(r, j)
        <5>1. Before(r, j) = inWindow[r][j] /\ Counted(r, j).FirstEventTimestamp = AlertMap[r][j].FirstEventTimestamp
          BY <1>t, <4>2 DEF Before, Counted, AlertThrottleState
        <5>2. Age(r, j) < Sec
          BY <1>t, <1>w, <4>2
        <5>3. Split(g, Age(r, j), inWindow[r][j] + 1)
          BY <1>q, <1>t, <2>1, <2>3, <5>2, SplitMore
        <5> QED BY <5>1, <5>3
      <4> QED BY <4>1, <4>2
    <3> HIDE DEF g
    <3> QED BY <3>1, <3>2, <3>3, Zenon
  <2> QED BY <2>2, <2>3
<1>3. ASSUME NEW s \in Sites, NEW k \in Keys, ThresholdAlert(s, k) PROVE Q(r, j)'
  <2> DEFINE new == [Counted(s, k) EXCEPT !.EventCount = 0, !.Throttle = 1]
  <2>1. /\ k \in tracked[s] /\ tracked' = tracked /\ clock' = clock /\ recent' = recent
        /\ AlertMap' = [AlertMap EXCEPT ![s][k] = new]
        /\ inWindow' = [inWindow EXCEPT ![s][k] = Before(s, k)]
    BY <1>3 DEF ThresholdAlert
  <2>2. r = s /\ j = k => new.FirstEventTimestamp = Counted(r, j).FirstEventTimestamp
    BY <1>t DEF Counted, NewWindow, AlertThrottleState
  <2> HIDE DEF new
  <2>3. CASE ~(r = s /\ j = k)
    BY <1>s, <1>f, <2>1, <2>3 DEF TypeOK
  <2>4. CASE r = s /\ j = k
    <3>1. /\ j \in tracked[r] /\ inWindow'[r][j] = Before(r, j) /\ recent'[r][j] = recent[r][j]
          /\ AlertMap'[r][j] = new /\ clock'[r] = clock[r] /\ tracked' = tracked
      BY <1>s, <2>1, <2>4 DEF TypeOK
    <3>2. CASE WindowOver(r, j)
      <4>1. Before(r, j) = 0 /\ clock[r] - Counted(r, j).FirstEventTimestamp = 0
        BY <1>t, <3>1, <3>2 DEF Before, Counted, NewWindow
      <4>2. Split(recent[r][j], 0, 0)
        BY <1>q, <1>t, <1>w, <3>1, <3>2, SplitOpen
      <4>3. inWindow'[r][j] <= Limit
        BY <1>l, <3>1, <4>1
      <4>4. Split(recent'[r][j], clock'[r] - AlertMap'[r][j].FirstEventTimestamp, inWindow'[r][j])
        BY <2>2, <2>4, <3>1, <4>1, <4>2, Zenon
      <4> QED BY <3>1, <4>3, <4>4, Zenon
    <3>3. CASE ~WindowOver(r, j)
      <4>1. Before(r, j) = inWindow[r][j] /\ Counted(r, j).FirstEventTimestamp = AlertMap[r][j].FirstEventTimestamp
        BY <1>t, <3>3 DEF Before, Counted, AlertThrottleState
      <4> QED BY <1>q, <2>2, <2>4, <3>1, <4>1, Zenon
    <3> QED BY <3>2, <3>3
  <2> QED BY <2>3, <2>4
<1>4. ASSUME NEW s \in Sites, NEW k \in Keys, DeleteAlertMapKey(s, k) PROVE Q(r, j)'
  <2>1. CASE ~(r = s /\ j = k)
    BY <1>s, <1>f, <1>4, <2>1 DEF DeleteAlertMapKey, TypeOK
  <2>2. CASE r = s /\ j = k
    <3>1. j \notin tracked'[r] /\ inWindow'[r][j] = 0 /\ recent'[r][j] = [a \in Ages |-> 0]
      BY <1>s, <1>4, <2>2 DEF DeleteAlertMapKey, TypeOK
    <3> QED BY <1>l, <3>1
  <2> QED BY <2>1, <2>2
<1>5. CASE Tick
  <2> DEFINE g == [a \in Ages |-> IF a = 0 THEN 0 ELSE recent[r][j][a - 1]]
  <2>1. clock'[r] = clock[r] + 1 /\ recent'[r][j] = g /\ UNCHANGED <<table, inWindow>>
    BY <1>s, <1>5 DEF Tick
  <2>2. clock'[r] - AlertMap'[r][j].FirstEventTimestamp = Age(r, j) + 1
    BY <1>t, <2>1 DEF table, AlertThrottleState
  <2>3. CASE j \in tracked[r]
    <3>1. Split(g, Age(r, j) + 1, inWindow[r][j])
      BY <1>q, <1>t, <2>3, SplitTick
    <3> HIDE DEF g
    <3> QED BY <1>q, <2>1, <2>2, <2>3, <3>1 DEF table
  <2>4. CASE j \notin tracked[r]
    <3>1. recent[r][j] = [a \in Ages |-> 0]
      BY <1>q, <2>4
    <3>2. g = [a \in Ages |-> 0]
      BY <3>1 DEF Ages
    <3> HIDE DEF g
    <3> QED BY <1>q, <2>1, <2>4, <3>2 DEF table
  <2> QED BY <2>3, <2>4
<1>6. ASSUME NEW s \in DaemonSites, NEW t \in 0..MaxTime, SetBack(s, t) PROVE Q(r, j)'
  <2>1. r # s
    BY <1>6 DEF SetBack, SteadySites
  <2>2. clock'[r] = clock[r] /\ UNCHANGED <<table, inWindow, recent>>
    BY <1>6, <1>s, <2>1 DEF SetBack, TypeOK, history
  <2> QED BY <1>f, <2>2 DEF table
<1>7. ASSUME NEW s \in Sites, NEW k \in Keys, DroppedAlert(s, k)
      PROVE  UNCHANGED <<clock, table, inWindow, recent>>
  BY <1>7 DEF DroppedAlert, vars, history
<1> QED
  BY <1>0, <1>1, <1>2, <1>3, <1>4, <1>5, <1>6, <1>7
  DEF Next, WatchConfigMapAdd, WatchConfigMapUpdate, UpdateThrottlingConfig, vars, history

\* Within any one second a key gets at most twice the greatest limit delivered, at a site whose
\* clock only advances: what the last second has is of the open window and of the one before
\* it, and each keeps to the limit (ShouldDropAlertsPerContainer, should_drop_alerts_per_container).
THEOREM TwoWindowsPerSecond ==
  ASSUME EnoughEntries, ThrottleSecGiven, LimitsBounded
  PROVE  Spec => []TwiceTheLimitPerSecond
<1> USE ConstantsAssumption
<1>1. Init => LimitsKept /\ Divided /\ ThresholdInWindow
  <2> SUFFICES ASSUME Init PROVE LimitsKept /\ Divided /\ ThresholdInWindow
    OBVIOUS
  <2>1. GlobalCfg.MaxAlertPerSec <= Limit /\ BpfConfig = GlobalCfg
    BY LimitFacts DEF Init
  <2>2. \A s \in SteadySites, k \in Keys :
          inWindow[s][k] <= Limit /\ k \notin tracked[s] /\ recent[s][k] = [a \in Ages |-> 0]
    BY SteadyIsSite, LimitFacts DEF Init
  <2>3. ThresholdInWindow
    BY SteadyIsSite DEF Init, ThresholdInWindow, ZeroState
  <2> QED BY <2>1, <2>2, <2>3 DEF LimitsKept, Divided
<1>2. TypeOK /\ WindowCounts /\ SecPositive /\ ThresholdInWindow /\ LimitsKept /\ Divided /\ [Next]_vars
        => (WindowCounts /\ SecPositive /\ ThresholdInWindow /\ LimitsKept /\ Divided)'
  BY WindowCountsStep, SecPositiveStep, ThresholdStep, LimitsStep, DividedStep
<1>3. ASSUME TypeOK, ThresholdInWindow, Divided PROVE TwiceTheLimitPerSecond
  <2> SUFFICES ASSUME NEW s \in SteadySites, NEW k \in Keys PROVE Below(recent[s][k], Sec) <= 2 * Limit
    BY DEF TwiceTheLimitPerSecond
  <2> DEFINE a == clock[s] - AlertMap[s][k].FirstEventTimestamp
             n == Since(a)
             f == recent[s][k]
  <2>1. /\ s \in Sites /\ f \in [Ages -> Nat] /\ inWindow[s][k] \in Nat
        /\ clock[s] \in Nat /\ AlertMap[s][k] \in AlertThrottleState
    BY <1>3, SteadyIsSite DEF TypeOK
  <2>2. a \in Nat
    BY <1>3, <2>1 DEF ThresholdInWindow, AlertThrottleState
  <2>3. n \in 0 .. Sec
    BY <2>2, SinceFacts
  <2>4. Limit \in Nat /\ inWindow[s][k] <= Limit
    BY <1>3, LimitFacts DEF Divided
  <2>5. CASE k \in tracked[s]
    <3>1. Below(f, n) <= inWindow[s][k] /\ Below(f, Sec) <= Below(f, n) + Limit
      BY <1>3, <2>5 DEF Divided, Split
    <3>2. Below(f, n) \in Nat /\ Below(f, Sec) \in Nat
      BY <2>1, <2>3, BelowNat
    <3> HIDE DEF a, n, f
    <3>3. Below(f, Sec) <= 2 * Limit
      BY <2>1, <2>4, <3>1, <3>2
    <3> QED BY <3>3 DEF f
  <2>6. CASE k \notin tracked[s]
    <3>1. f = [b \in Ages |-> 0]
      BY <1>3, <2>6 DEF Divided
    <3>2. Below(f, Sec) = 0
      BY <3>1, BelowNone
    <3> QED BY <2>4, <3>2
  <2> QED BY <2>5, <2>6
<1> QED BY <1>1, <1>2, <1>3, QuotaInit, TypeCorrect, PTL DEF Spec
============================================================================

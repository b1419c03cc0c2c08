--------------------------- MODULE AlertThrottle ---------------------------
(***************************************************************************)
(* Per-container alert throttling.  The same counter automaton is coded    *)
(* three times: in the daemon (feeder.go, ShouldDropAlertsPerContainer)    *)
(* and in two kernel programs (shared.h and system_monitor.c,              *)
(* should_drop_alerts_per_container, which share one BPF hash map).  A     *)
(* "site" is one of the two tables: the daemon's AlertMap, or the map      *)
(* kubearmor_alert_throttle.  A "key" is the (pid, mnt) namespace pair of  *)
(* a container.                                                            *)
(*                                                                         *)
(* Time is counted in ticks, Sec of them to a second; the subtraction of   *)
(* two uint64 timestamps wraps at Wrap (2^64 in the code).  An alert is    *)
(* one atomic step: only one goroutine of the daemon throttles alerts; the *)
(* races between CPUs on a BPF map entry are left out.                     *)
(***************************************************************************)
EXTENDS Integers, FiniteSets

CONSTANTS
  Keys,          \* container namespace keys
  Sites,         \* throttle tables
  DaemonSites,   \* those kept by the daemon; the others are BPF maps
  Capacity,      \* [Sites -> Nat]: entries a table can hold (256 for the BPF map)
  ClockSteps,    \* whether the daemon's wall clock may be set back
  Sec,           \* ticks per second
  Wrap,          \* modulus of a timestamp subtraction
  MaxTime,       \* bound on the clocks
  MaxAlerts,     \* values maxAlertPerSec is given in the ConfigMap
  ThrottleSecs,  \* values throttleSec is given in the ConfigMap
  Absent         \* a key missing from the ConfigMap, or unparsable

ASSUME ConstantsAssumption ==
  /\ Capacity \in [Sites -> Nat]
  /\ DaemonSites \subseteq Sites
  /\ ClockSteps \in BOOLEAN
  /\ Sec \in Nat \ {0}
  /\ MaxTime \in Nat
  /\ Wrap \in Nat /\ Wrap > MaxTime + Sec
  /\ MaxAlerts \subseteq Nat \cup {Absent}
  /\ ThrottleSecs \subseteq Nat \cup {Absent}

VARIABLES
  clock,         \* [Sites -> time]: what the site's clock reads
  GlobalCfg,     \* the daemon's configuration
  BpfConfig,     \* the copy of it the kernel programs read
  tracked,       \* [Sites -> SUBSET Keys]: the keys that have an entry in the table
  AlertMap,      \* [Sites -> [Keys -> throttle state]]: the entries
  inWindow,      \* history: alerts let through since the key's window opened
  recent,        \* history: alerts let through, by age in ticks, in the last second
  thresholdAt    \* history: when the last threshold alert was raised, or NoTime

history == <<inWindow, recent, thresholdAt>>
table == <<tracked, AlertMap>>
vars == <<clock, GlobalCfg, BpfConfig, table, history>>

NoTime == -1
Ages == 0 .. Sec - 1

Cfg == [AlertThrottling : BOOLEAN, MaxAlertPerSec : Nat, ThrottleSec : Nat]

AlertThrottleState ==
  [EventCount : Nat, FirstEventTimestamp : 0..MaxTime, Throttle : {0, 1}]

ZeroState == [EventCount |-> 0, FirstEventTimestamp |-> 0, Throttle |-> 0]

\* The configuration a site obeys: the daemon reads GlobalCfg, the kernel its map.
CfgOf(s) == IF s \in DaemonSites THEN GlobalCfg ELSE BpfConfig

Elapsed(s, first) ==
  IF clock[s] >= first THEN clock[s] - first ELSE clock[s] - first + Wrap

\* The command-line defaults the daemon starts with are a configuration too.
Init ==
  /\ clock = [s \in Sites |-> 0]
  /\ GlobalCfg \in [AlertThrottling : BOOLEAN, MaxAlertPerSec : MaxAlerts \ {Absent},
                    ThrottleSec : ThrottleSecs \ {Absent}]
  /\ BpfConfig = GlobalCfg
  /\ AlertMap = [s \in Sites |-> [k \in Keys |-> ZeroState]]
  /\ tracked = [s \in Sites |-> {}]
  /\ inWindow = [s \in Sites |-> [k \in Keys |-> 0]]
  /\ recent = [s \in Sites |-> [k \in Keys |-> [a \in Ages |-> 0]]]
  /\ thresholdAt = [s \in Sites |-> [k \in Keys |-> NoTime]]

-----------------------------------------------------------------------------
(* The throttle. *)

HasRoom(s) == Cardinality(tracked[s]) < Capacity[s]

NewWindow(s) ==
  [EventCount |-> 1, FirstEventTimestamp |-> clock[s], Throttle |-> 0]

WindowOver(s, k) == Elapsed(s, AlertMap[s][k].FirstEventTimestamp) >= Sec

\* Mutated form: the interval is compared without converting it to the clock's unit.
ThrottledUnconverted(s, k) ==
  /\ AlertMap[s][k].Throttle = 1
  /\ Elapsed(s, AlertMap[s][k].FirstEventTimestamp) < CfgOf(s).ThrottleSec

Throttled(s, k) ==
  /\ AlertMap[s][k].Throttle = 1
  /\ Elapsed(s, AlertMap[s][k].FirstEventTimestamp) < CfgOf(s).ThrottleSec * Sec

\* Alerts let through so far in the window a new alert is counted in.
Before(s, k) == IF k \in tracked[s] /\ WindowOver(s, k) THEN 0 ELSE inWindow[s][k]

LetThrough(s, k) ==
  /\ inWindow' = [inWindow EXCEPT ![s][k] = Before(s, k) + 1]
  /\ recent' = [recent EXCEPT ![s][k][0] = @ + 1]
  /\ thresholdAt' = [thresholdAt EXCEPT ![s][k] = NoTime]

\* The first alert of a key opens its window and always passes.  The update of a
\* full BPF map fails; its result is not looked at.
FirstAlert(s, k) ==
  /\ CfgOf(s).AlertThrottling
  /\ k \notin tracked[s]
  /\ IF HasRoom(s)
     THEN /\ tracked' = [tracked EXCEPT ![s] = @ \cup {k}]
          /\ AlertMap' = [AlertMap EXCEPT ![s][k] = NewWindow(s)]
     ELSE UNCHANGED table
  /\ LetThrough(s, k)
  /\ UNCHANGED <<clock, GlobalCfg, BpfConfig>>

\* An alert inside the throttling interval is dropped silently: no state changes.
DroppedAlert(s, k) ==
  /\ CfgOf(s).AlertThrottling
  /\ k \in tracked[s]
  /\ Throttled(s, k)
  /\ UNCHANGED vars

\* Mutated form: a new window does not restart the clock.
CountedStaleWindow(s, k) ==
  IF WindowOver(s, k)
  THEN [AlertMap[s][k] EXCEPT !.EventCount = 1, !.Throttle = 0]
  ELSE [AlertMap[s][k] EXCEPT !.EventCount = @ + 1]

\* The counter after this alert: a second after the window opened a new one opens.
Counted(s, k) ==
  IF WindowOver(s, k)
  THEN NewWindow(s)
  ELSE [AlertMap[s][k] EXCEPT !.EventCount = @ + 1]

\* Mutated form: the limit is off by one.
PassedAlertOffByOne(s, k) ==
  /\ CfgOf(s).AlertThrottling
  /\ k \in tracked[s]
  /\ ~Throttled(s, k)
  /\ Counted(s, k).EventCount <= CfgOf(s).MaxAlertPerSec + 1
  /\ AlertMap' = [AlertMap EXCEPT ![s][k] = Counted(s, k)]
  /\ LetThrough(s, k)
  /\ UNCHANGED <<clock, GlobalCfg, BpfConfig, tracked>>

PassedAlert(s, k) ==
  /\ CfgOf(s).AlertThrottling
  /\ k \in tracked[s]
  /\ ~Throttled(s, k)
  /\ Counted(s, k).EventCount <= CfgOf(s).MaxAlertPerSec
  /\ AlertMap' = [AlertMap EXCEPT ![s][k] = Counted(s, k)]
  /\ LetThrough(s, k)
  /\ UNCHANGED <<clock, GlobalCfg, BpfConfig, tracked>>

\* The alert crosses the threshold: it is replaced by the AlertThreshold system
\* event, the count restarts and throttling begins.
ThresholdAlert(s, k) ==
  /\ CfgOf(s).AlertThrottling
  /\ k \in tracked[s]
  /\ ~Throttled(s, k)
  /\ Counted(s, k).EventCount > CfgOf(s).MaxAlertPerSec
  /\ AlertMap' = [AlertMap EXCEPT ![s][k] =
                    [Counted(s, k) EXCEPT !.EventCount = 0, !.Throttle = 1]]
  /\ inWindow' = [inWindow EXCEPT ![s][k] = Before(s, k)]
  /\ thresholdAt' = [thresholdAt EXCEPT ![s][k] = clock[s]]
  /\ UNCHANGED <<clock, GlobalCfg, BpfConfig, tracked, recent>>

\* The entry goes away with its container (DeleteAlertMapKey in the daemon,
\* DeleteContainerInnerMap and the exit hook of the namespace's init process for
\* the BPF map); a later container with the same key is a new one.
DeleteAlertMapKey(s, k) ==
  /\ tracked' = [tracked EXCEPT ![s] = @ \ {k}]
  /\ AlertMap' = [AlertMap EXCEPT ![s][k] = ZeroState]
  /\ inWindow' = [inWindow EXCEPT ![s][k] = 0]
  /\ recent' = [recent EXCEPT ![s][k] = [a \in Ages |-> 0]]
  /\ thresholdAt' = [thresholdAt EXCEPT ![s][k] = NoTime]
  /\ UNCHANGED <<clock, GlobalCfg, BpfConfig>>

-----------------------------------------------------------------------------
(* Configuration and time. *)

\* On the add event of the ConfigMap a missing key leaves its setting alone.
WatchConfigMapAdd(enabled, max, sec) ==
  /\ BpfConfig = GlobalCfg
  /\ GlobalCfg' = [AlertThrottling |-> enabled,
                   MaxAlertPerSec |-> IF max = Absent THEN GlobalCfg.MaxAlertPerSec ELSE max,
                   ThrottleSec |-> IF sec = Absent THEN GlobalCfg.ThrottleSec ELSE sec]
  /\ UNCHANGED <<clock, BpfConfig, table, history>>

\* On an update event it is parsed as "": the error is logged and the setting is 0.
WatchConfigMapUpdate(enabled, max, sec) ==
  /\ BpfConfig = GlobalCfg
  /\ GlobalCfg' = [AlertThrottling |-> enabled,
                   MaxAlertPerSec |-> IF max = Absent THEN 0 ELSE max,
                   ThrottleSec |-> IF sec = Absent THEN 0 ELSE sec]
  /\ UNCHANGED <<clock, BpfConfig, table, history>>

\* Both handlers end by copying the settings to the kernel's configuration map.
UpdateThrottlingConfig ==
  /\ BpfConfig # GlobalCfg
  /\ BpfConfig' = GlobalCfg
  /\ UNCHANGED <<clock, GlobalCfg, table, history>>

Tick ==
  /\ \A s \in Sites : clock[s] < MaxTime
  /\ clock' = [s \in Sites |-> clock[s] + 1]
  /\ recent' = [s \in Sites |-> [k \in Keys |->
                 [a \in Ages |-> IF a = 0 THEN 0 ELSE recent[s][k][a - 1]]]]
  /\ UNCHANGED <<GlobalCfg, BpfConfig, table, inWindow, thresholdAt>>

\* The daemon stamps alerts with time.Now, which the operator or NTP may set back.
SetBack(s, t) ==
  /\ ClockSteps
  /\ t < clock[s]
  /\ clock' = [clock EXCEPT ![s] = t]
  /\ UNCHANGED <<GlobalCfg, BpfConfig, table, history>>

Next ==
  \/ \E s \in Sites, k \in Keys :
       \/ FirstAlert(s, k)
       \/ DroppedAlert(s, k)
       \/ PassedAlert(s, k)
       \/ ThresholdAlert(s, k)
       \/ DeleteAlertMapKey(s, k)
  \/ \E enabled \in BOOLEAN, max \in MaxAlerts, sec \in ThrottleSecs :
       \/ WatchConfigMapAdd(enabled, max, sec)
       \/ WatchConfigMapUpdate(enabled, max, sec)
  \/ UpdateThrottlingConfig
  \/ Tick
  \/ \E s \in DaemonSites, t \in 0..MaxTime : SetBack(s, t)

Spec == Init /\ [][Next]_vars

-----------------------------------------------------------------------------
(* Properties. *)

TypeOK ==
  /\ clock \in [Sites -> 0..MaxTime]
  /\ GlobalCfg \in Cfg
  /\ BpfConfig \in Cfg
  /\ tracked \in [Sites -> SUBSET Keys]
  /\ AlertMap \in [Sites -> [Keys -> AlertThrottleState]]
  /\ inWindow \in [Sites -> [Keys -> Nat]]
  /\ recent \in [Sites -> [Keys -> [Ages -> Nat]]]
  /\ thresholdAt \in [Sites -> [Keys -> {NoTime} \cup 0..MaxTime]]

\* The sites whose clock only advances: the kernel's, and the daemon's unless it is set back.
SteadySites == IF ClockSteps THEN Sites \ DaemonSites ELSE Sites

\* The history agrees with the counter: EventCount is the number of alerts delivered
\* in the window for as long as no threshold was crossed, and the entry of a key
\* without a window holds nothing back (ShouldDropAlertsPerContainer's bookkeeping).
WindowCounts ==
  \A s \in Sites, k \in Keys :
    /\ k \notin tracked[s] => inWindow[s][k] = 0
    /\ k \in tracked[s] /\ AlertMap[s][k].Throttle = 0
         => inWindow[s][k] = AlertMap[s][k].EventCount

\* A threshold alert is raised in the second its key's window covers, and the entry
\* stays throttled until the next delivery (what SilenceLasts rests on).
ThresholdInWindow ==
  \A s \in SteadySites, k \in Keys :
    /\ AlertMap[s][k].FirstEventTimestamp <= clock[s]
    /\ thresholdAt[s][k] # NoTime
         => /\ k \in tracked[s] /\ AlertMap[s][k].Throttle = 1
            /\ AlertMap[s][k].FirstEventTimestamp <= thresholdAt[s][k]
            /\ thresholdAt[s][k] - AlertMap[s][k].FirstEventTimestamp < Sec

\* ShouldDropAlertsPerContainer: the alert that brings a key's deliveries within one
\* window above maxAlertPerSec is never delivered, across threshold events, changes
\* of the limits, deletions of entries and steps of the wall clock.  (The very first
\* alert of a key is delivered before the limit is looked at.)
QuotaRespected ==
  [][\A s \in Sites, k \in Keys :
       k \in tracked[s] /\ inWindow'[s][k] > inWindow[s][k]
         => inWindow'[s][k] <= CfgOf(s).MaxAlertPerSec]_vars

\* The sum of counts by age over the ages below n.
Below(counts, n) ==
  LET sum[i \in 0 .. Sec] == IF i = 0 THEN 0 ELSE sum[i - 1] + counts[i - 1]
  IN  sum[n]

Limit == CHOOSE m \in MaxAlerts : m # Absent /\ \A n \in MaxAlerts : n = Absent \/ n <= m

\* The windows are fixed, not sliding: within any one second a key gets at most twice
\* maxAlertPerSec alerts delivered, half of them at the end of a window and half of
\* them at the start of the next one (ShouldDropAlertsPerContainer).
TwiceTheLimitPerSecond ==
  \A s \in SteadySites, k \in Keys : Below(recent[s][k], Sec) <= 2 * Limit

\* What throttleSec guarantees: counted from the threshold alert, the silence lasts
\* longer than throttleSec minus one second, because the interval is measured from
\* the start of the window (FirstEventTimestamp) and not from the threshold.
SilenceLasts ==
  [][\A s \in SteadySites, k \in Keys :
       thresholdAt[s][k] # NoTime /\ thresholdAt'[s][k] = NoTime /\ k \in tracked'[s]
         => clock[s] - thresholdAt[s][k] > CfgOf(s).ThrottleSec * Sec - Sec]_vars
============================================================================

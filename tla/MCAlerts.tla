------------------------------ MODULE MCAlerts ------------------------------
(***************************************************************************)
(* What becomes of an alert: the policy it is attributed to (PolicyMatcher,*)
(* with the logs of MCPolicyMatcher), and whether the container has used   *)
(* up its quota (AlertThrottle).  Neither looks at the other's state, so a *)
(* behaviour is about one of them.                                         *)
(***************************************************************************)
EXTENDS MCAlertThrottle

CONSTANTS bash, sh, NoSource, Garbled, None

VARIABLES subject, securityPolicies, block, mode, host, feed, fdPosture, endPosture, global

matcherVars == <<securityPolicies, block, mode, host, feed, fdPosture, endPosture, global>>

Sample == INSTANCE MCPolicyMatcher
Matcher == INSTANCE PolicyMatcher WITH
  Policies <- Sample!MCPolicies, Events <- Sample!MCEvents, Longer <- Sample!MCLonger,
  Postures <- Sample!MCPostures, Tagged <- Sample!MCTagged, MonitorLogs <- Sample!MCMonitorLogs,
  EnforcerAlerts <- TRUE, DefaultPostureLogs <- TRUE, ScanDepth <- 8, MaxArgs <- 3, MaxPolicies <- 2

AnyCfg == [AlertThrottling |-> TRUE, MaxAlertPerSec |-> 1, ThrottleSec |-> 1]
AnyMatcher == mode = "BPFLSM" /\ ~host /\ global = Sample!Posture("audit", "audit", "audit")

AlertsInit ==
  /\ FollowedInit /\ Matcher!MatcherInit
  /\ \/ subject = "throttle" /\ AnyMatcher
     \/ subject = "matcher" /\ GlobalCfg = AnyCfg /\ followed = feeder

AlertsNext ==
  \/ subject = "throttle" /\ FollowedNext /\ UNCHANGED <<matcherVars, subject>>
  \/ subject = "matcher" /\ Matcher!MatcherNext /\ UNCHANGED <<vars, followed, subject>>

AlertsSpec == AlertsInit /\ [][AlertsNext]_<<vars, followed, matcherVars, subject>>

\* A denial by a BPF-LSM hook raises an alert that names a policy with a Block rule on the
\* operation, or DefaultPosture where there is none, and an operation that a hook reports
\* under the audit posture raises one too (PolicyMatcher!DenialsExplained, AuditsReported).
AlertsExplained == subject = "matcher" => Matcher!DenialsExplained /\ Matcher!AuditsReported

\* Whatever rules and posture the feeder has by then, a failed or denied operation is told
\* to someone, and with BPF-LSM the monitor's log of it is no second alert
\* (PolicyMatcher!NoDenialLost, OneAlertPerDenial).
DenialsToldOnce == subject = "matcher" => Matcher!NoDenialLost /\ Matcher!OneAlertPerDenial
=============================================================================

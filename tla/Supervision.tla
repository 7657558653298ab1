---------------------------- MODULE Supervision ----------------------------
(***************************************************************************)
(* How resilience.py answers failures: an injected failure is classified   *)
(* by RecoveryPlanner, and the class is handed up the SupervisionTree,     *)
(* TASK to FEDERATION, until a level has budget left for the subject. The  *)
(* campaign records an entry per failure.                                  *)
(***************************************************************************)
EXTENDS Naturals, Sequences, TLC

CONSTANTS
    Subjects,    \* what failures attach to
    Budget,      \* max_attempts of each level
    Overrides    \* what a caller adds to the default context of a scenario

Levels == 1..4   \* TASK, WORKER, DOMAIN, FEDERATION

ASSUME SupervisionAssumption == Budget \in [Levels -> Nat]

VARIABLES
    attempts,  \* per level and subject: decisions taken, counted up to one
               \* past the budget: further ones change no answer
    entry,     \* the last entry of the campaign
    granted    \* history: recoveries granted per level and subject

supervisionVars == <<attempts, entry, granted>>

Classical ==
    {"worker_crash", "process_crash", "domain_loss", "node_unavailable",
     "memory_exhaustion", "classical_link_timeout", "classical_packet_loss",
     "dropped_message", "duplicate_message", "corrupt_message"}
Regenerable == {"ebit_generation_failure", "ebit_expiration"}
AtRisk ==
    {"quantum_link_failure", "stale_calibration", "qpu_unavailable",
     "route_invalidation", "route_degradation", "coherence_deadline_exceeded"}
Stored == {"checkpoint_corruption", "shard_corruption"}
Stale == {"stale_topology", "stale_reservation"}
Scenarios == Classical \cup Regenerable \cup AtRisk \cup Stored \cup Stale

Undetectable == {"stale_calibration", "route_degradation", "stale_topology"}

Repreparable ==
    {"worker_crash", "process_crash", "qpu_unavailable", "stale_calibration",
     "coherence_deadline_exceeded", "quantum_link_failure"}
Reroutable ==
    {"route_invalidation", "route_degradation", "quantum_link_failure",
     "node_unavailable", "domain_loss"}
Rollbackable ==
    Stored \cup {"memory_exhaustion", "worker_crash", "process_crash"}
Retriable ==
    Stale \cup {"dropped_message", "duplicate_message", "corrupt_message",
                "classical_packet_loss", "classical_link_timeout"}

\* the context a caller leaves out: "ask" means the key is absent
NoContext ==
    [unknown |-> "ask", classicalOnly |-> "ask", known |-> FALSE,
     fromCheckpoint |-> FALSE, duplicates |-> FALSE, routes |-> FALSE,
     boundary |-> FALSE, idempotent |-> FALSE, specific |-> FALSE,
     detector |-> FALSE]

DefaultContext(s) ==
    [NoContext EXCEPT
        !.unknown = IF s \in {"quantum_link_failure", "qpu_unavailable",
                              "coherence_deadline_exceeded"} THEN "yes" ELSE "ask",
        !.classicalOnly = IF s \in Classical \cup Stored \cup Stale
                          THEN "yes" ELSE "ask",
        !.known = s = "stale_calibration",
        !.routes = s \in Reroutable,
        !.boundary = s \in {"worker_crash", "process_crash", "qpu_unavailable",
                            "coherence_deadline_exceeded"},
        !.idempotent = s \in Retriable]

Unknown(s, c) ==
    IF c.unknown = "ask" THEN s \in AtRisk ELSE c.unknown = "yes"

Detected(s, c) == s \notin Undetectable \/ c.detector

ClassicalOnly(s, c) ==
    IF c.classicalOnly = "ask" THEN ~ Unknown(s, c) ELSE c.classicalOnly = "yes"

(* The rules I1 to I4, which come before all others.                        *)
Impossible(s, c) ==
    /\ Unknown(s, c) /\ ~ c.known
    /\ \/ c.fromCheckpoint \/ c.duplicates
       \/ s = "coherence_deadline_exceeded" /\ ~ c.boundary
       \/ s = "quantum_link_failure" /\ ~ c.routes /\ ~ c.boundary

\* the first rule that holds decides; the impossible ones come first
Rules(s, c) ==
    << [if |-> Impossible(s, c), class |-> "RECOVERY_IMPOSSIBLE"],
       [if |-> s \in Regenerable, class |-> "REGENERATE_ENTANGLEMENT"],
       [if |-> c.known /\ s \in Repreparable, class |-> "REPREPARE_KNOWN_STATE"],
       [if |-> c.routes /\ s \in Reroutable, class |-> "REROUTE_SAFE"],
       [if |-> c.specific, class |-> "RECOVERY_TARGET_SPECIFIC"],
       [if |-> ClassicalOnly(s, c) /\ c.boundary,
        class |-> "RESTART_FROM_CLASSICAL_BOUNDARY"],
       [if |-> ClassicalOnly(s, c) /\ s \in Rollbackable,
        class |-> "ROLLBACK_CLASSICAL_ONLY"],
       [if |-> c.idempotent \/ s \in Retriable, class |-> "RETRY_SAFE"],
       [if |-> Unknown(s, c) /\ ~ c.boundary, class |-> "RECOVERY_IMPOSSIBLE"],
       [if |-> TRUE, class |-> "RESTART_FROM_CLASSICAL_BOUNDARY"] >>

Lowest(S) == CHOOSE l \in S : \A k \in S : l <= k

Classify(s, c) ==
    LET rules == Rules(s, c)
    IN  rules[Lowest({i \in 1..10 : rules[i].if})].class
-----------------------------------------------------------------------------
(* What a failure comes to before the tree sees it. rebuilds: the recovery   *)
(* it asks for would rebuild or duplicate unknown quantum state.            *)
Failure(s, c) ==
    [class |-> Classify(s, c),
     detected |-> Detected(s, c),
     rebuilds |-> /\ Unknown(s, c) /\ ~ c.known
                  /\ c.fromCheckpoint \/ c.duplicates]

Failures ==
    {Failure(s, more @@ DefaultContext(s)) : s \in Scenarios, more \in Overrides}
-----------------------------------------------------------------------------
Remedy(class) ==
    CASE class = "REROUTE_SAFE" -> "reroute"
      [] class \in {"RETRY_SAFE", "REGENERATE_ENTANGLEMENT"} -> "retry"
      [] class = "RECOVERY_TARGET_SPECIFIC" -> "escalate"
      [] OTHER -> "restart"

Exhausted(level, subject) == attempts[level][subject] >= Budget[level]

Answer(level, subject, class) ==
    CASE class = "RECOVERY_IMPOSSIBLE" -> "abort"
      [] class # "RECOVERY_IMPOSSIBLE" /\ Exhausted(level, subject) -> "escalate"
      [] OTHER -> Remedy(class)

\* fault: a level's parent is the level after the next
FaultAbsorbing(start, subject, class) ==
    {l \in {start} \cup (start + 2)..4 : Answer(l, subject, class) # "escalate"}

Absorbing(start, subject, class) ==
    {l \in start..4 : Answer(l, subject, class) # "escalate"}

Recoveries == {"retry", "restart", "reroute"}

(* handle() asks one level after the other and counts an attempt at each; a *)
(* failure nobody absorbs raises, which the campaign reports as an abort.   *)
Handle(subject, failure, start) ==
    LET absorbing == Absorbing(start, subject, failure.class)
        level == IF absorbing = {} THEN 4 ELSE Lowest(absorbing)
        action == IF absorbing = {} THEN "abort"
                  ELSE Answer(level, subject, failure.class)
    IN  /\ attempts' = [l \in Levels |-> [s \in Subjects |->
                          IF s = subject /\ l \in start..level
                             /\ attempts[l][s] <= Budget[l]
                          THEN attempts[l][s] + 1
                          ELSE attempts[l][s]]]
        /\ granted' = [l \in Levels |-> [s \in Subjects |->
                         IF s = subject /\ l = level /\ action \in Recoveries
                         THEN granted[l][s] + 1
                         ELSE granted[l][s]]]
        /\ entry' = [start |-> start,
                     detected |-> failure.detected,
                     rebuilds |-> failure.rebuilds,
                     recovered |-> failure.detected /\ action \in Recoveries]

SupervisionInit ==
    /\ attempts = [l \in Levels |-> [s \in Subjects |-> 0]]
    /\ granted = [l \in Levels |-> [s \in Subjects |-> 0]]
    /\ entry = [start |-> 1, detected |-> FALSE, rebuilds |-> FALSE,
                recovered |-> FALSE]

SupervisionNext ==
    \E subject \in Subjects, start \in Levels, failure \in Failures :
        Handle(subject, failure, start)

SupervisionSpec == SupervisionInit /\ [][SupervisionNext]_supervisionVars
-----------------------------------------------------------------------------
(* A level recovers a subject within its own budget for that subject, and   *)
(* only after every level below it, from where the failure entered, had     *)
(* used up its own, however the earlier failures were classified and        *)
(* wherever they entered the tree.                                          *)
EscalationIsEarned ==
    [][\A l \in Levels, s \in Subjects :
          granted'[l][s] # granted[l][s] =>
              /\ granted'[l][s] <= Budget[l]
              /\ \A k \in entry'.start..(l - 1) :
                    attempts[k][s] >= Budget[k]]_supervisionVars

(* The campaign never reports a failure as recovered that nothing detected, *)
(* or whose recovery would rebuild unknown quantum state from a classical   *)
(* checkpoint or duplicate it, whatever else its context says.              *)
HonestReport == entry.recovered => entry.detected /\ ~ entry.rebuilds

(* What recovery says and does is earned, in the campaign and in the tree.  *)
RecoveryIsEarned == []HonestReport /\ EscalationIsEarned
=============================================================================

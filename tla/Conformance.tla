---------------------------- MODULE Conformance ----------------------------
(***************************************************************************)
(* The conformance workflow of pk_core: a run opens the evidence ledger    *)
(* (evidence.py), takes every component through the stages W0 to W9        *)
(* (workflow.py), appends one record per stage, in memory and to the file, *)
(* and closes with the verdict of the gate (gate.py).  Runs are processes: *)
(* nothing keeps two from using one file, an assessment may raise, and a   *)
(* process may die, also with half a record written.                       *)
(*                                                                         *)
(* The findings of a stage are the set of what is amiss among them.  A     *)
(* digest is the name of its record: who appended it, and which it was.    *)
(* assess answers its band of requirements or raises, so a run that gets   *)
(* to W9 has answered them all.  Edits of the file by others, which verify *)
(* exists to detect, are not modelled.                                     *)
(***************************************************************************)
EXTENDS Naturals, Sequences, FiniteSets

CONSTANTS Runs,       \* processes
          Components, \* in the order they are run
          Stages      \* W0 .. W9, or those an instance looks at, in order: W9 is the last

ASSUME ConformanceAssumption ==
    /\ Components \in Seq(STRING) /\ Components # <<>>
    /\ Stages \in Seq(0..9) /\ Stages # <<>>
    /\ \A i \in 2..Len(Stages) : Stages[i - 1] < Stages[i]
    /\ Stages[Len(Stages)] = 9

VARIABLES onDisk,      \* the records of the evidence file
          cutShort,    \* whether the file has half a record in it
          phase,       \* of each run: new, running, ended, dead
          records,     \* the ledger a run has in memory
          results,     \* of the components it has run, and the one under way
          stage,       \* the index of the stage under way
          overlapped   \* history: a run was opened while another was running

conformanceVars == <<onDisk, cutShort, phase, records, results, stage, overlapped>>

NoResult == [findings |-> {}, failed |-> {}]

ConformanceInit ==
    /\ onDisk = <<>> /\ cutShort = FALSE
    /\ phase = [r \in Runs |-> "new"]
    /\ records = [r \in Runs |-> <<>>]
    /\ results = [r \in Runs |-> <<>>]
    /\ stage = [r \in Runs |-> 1]
    /\ overlapped = FALSE

Genesis == <<>>

head(chain) == IF chain = <<>> THEN Genesis ELSE chain[Len(chain)].digest

Record(r, s) ==
    [sequence |-> Len(records[r]),
     previous |-> head(records[r]),
     digest |-> <<r, Len(records[r])>>,
     element |-> Components[Len(results[r])], stage |-> s]

verify(chain) ==
    \A i \in DOMAIN chain :
        /\ chain[i].sequence = i - 1
        /\ chain[i].previous = IF i = 1 THEN Genesis ELSE chain[i - 1].digest

Loaded == onDisk

\* a file with half a record in it cannot be loaded
Open(r) ==
    /\ phase[r] = "new" /\ ~ cutShort
    /\ phase' = [phase EXCEPT ![r] = "running"]
    /\ records' = [records EXCEPT ![r] = Loaded]
    /\ results' = [results EXCEPT ![r] = <<NoResult>>]
    /\ overlapped' = (overlapped \/ \E q \in Runs : phase[q] = "running")
    /\ UNCHANGED <<onDisk, cutShort, stage>>

Current(r) == results[r][Len(results[r])]

\* what a stage can find and whether it passes; W4 assesses nothing
Outcome(r, s, found, ok) ==
    /\ s = 0 => ok \/ found = {}
    /\ s = 4 => found = {}
    /\ s = 7 => ok = ("blocked" \notin Current(r).findings \cup found)
    /\ s = 9 => ok = verify(records[r])
    /\ s \notin {0, 4, 7, 9} => ok

NotReached(s) == {Stages[i] : i \in {j \in DOMAIN Stages : Stages[j] > s}}

\* the result with that of the stage; a refusal in W0 and W7 halts the run
Recorded(result, s, found, ok) ==
    [findings |-> result.findings \cup found,
     failed |-> IF ok THEN result.failed
                ELSE result.failed \cup {s} \cup (IF s \in {0, 7} THEN NotReached(s) ELSE {})]

Halts(s, ok) == ~ ok /\ s \in {0, 7}

RunStage(r) ==
    \E found \in SUBSET {"partial", "blocked"}, ok \in BOOLEAN :
        LET s == Stages[stage[r]]
            last == stage[r] = Len(Stages) \/ Halts(s, ok)
            with == [results[r] EXCEPT ![Len(results[r])] = Recorded(@, s, found, ok)]
            more == Len(results[r]) < Len(Components)
        IN  /\ phase[r] = "running"
            /\ Outcome(r, s, found, ok)
            /\ records' = [records EXCEPT ![r] = Append(@, Record(r, s))]
            /\ onDisk' = IF cutShort THEN onDisk ELSE Append(onDisk, Record(r, s))
            /\ stage' = [stage EXCEPT ![r] = IF last THEN 1 ELSE @ + 1]
            /\ results' = [results EXCEPT ![r] =
                              IF last /\ more THEN Append(with, NoResult) ELSE with]
            /\ phase' = [phase EXCEPT ![r] = IF last /\ ~ more THEN "ended" ELSE @]
            /\ UNCHANGED <<cutShort, overlapped>>

\* an assessment raises or the process dies, perhaps while it writes a record
RunDies(r) ==
    /\ phase[r] = "running"
    /\ phase' = [phase EXCEPT ![r] = "dead"]
    /\ cutShort' \in {cutShort, TRUE}
    /\ UNCHANGED <<onDisk, records, results, stage, overlapped>>

ConformanceNext == \E r \in Runs : Open(r) \/ RunStage(r) \/ RunDies(r)

ConformanceSpec == ConformanceInit /\ [][ConformanceNext]_conformanceVars

certified(result) == result.failed = {}

FaultBlockers(r) ==  \* slip: it trusts W7 to have refused what is blocked
    {i \in DOMAIN results[r] : results[r][i].failed # {}}

Blockers(r) ==
    {i \in DOMAIN results[r] : results[r][i].failed # {} \/ "blocked" \in results[r][i].findings}

Conditions(r) == {i \in DOMAIN results[r] : "partial" \in results[r][i].findings}

verdict(r) ==
    IF Blockers(r) # {} THEN "NO_GO"
    ELSE IF Conditions(r) # {} THEN "CONDITIONAL_GO" ELSE "GO"

\* the records of all stages of all components, in order, at the end of a chain
ClosesWith(chain) ==
    LET n == Len(Stages)
        start == Len(chain) - Len(Components) * n
    IN  /\ start >= 0
        /\ \A k \in DOMAIN Components, j \in DOMAIN Stages :
              /\ chain[start + (k - 1) * n + j].element = Components[k]
              /\ chain[start + (k - 1) * n + j].stage = Stages[j]

(* The verdict of the gate that lets a release pass rests on everything it  *)
(* says: nothing is blocked, found before W7 or after it, every component   *)
(* was certified, and the run's ledger verifies and ends with the record of *)
(* each stage of each of them; and GO says that nothing is partial either.  *)
GateIsHonest ==
    \A r \in Runs : phase[r] = "ended" /\ verdict(r) # "NO_GO" =>
        /\ \A i \in DOMAIN results[r] :
              /\ certified(results[r][i])
              /\ "blocked" \notin results[r][i].findings
              /\ verdict(r) = "GO" => "partial" \notin results[r][i].findings
        /\ verify(records[r]) /\ ClosesWith(records[r])

(* As long as runs do not overlap and no record was torn, the evidence file *)
(* verifies, whatever raised and whoever died in between, and it is what    *)
(* the run under way has in memory: "verify the ledger chains onto the      *)
(* previous head" (pk/README.md).                                           *)
EvidenceChains ==
    ~ overlapped /\ ~ cutShort =>
        /\ verify(onDisk)
        /\ \A r \in Runs : phase[r] = "running" => records[r] = onDisk

(* A release rests on evidence that is sound, and is what it says.          *)
ReleaseIsBacked == GateIsHonest /\ EvidenceChains

(* pk/README.md: "W7 will not certify while any requirement is `blocked`".  *)
BlockedIsNotCertified ==
    \A r \in Runs : phase[r] = "ended" =>
        \A i \in DOMAIN results[r] :
            certified(results[r][i]) => "blocked" \notin results[r][i].findings
=============================================================================

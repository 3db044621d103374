------------------------------ MODULE MCRuntime ------------------------------
(* Instances of CoreRuntime for TLC. A behaviour belongs to one case, and   *)
(* the constants of a case are among those of the configuration.            *)
EXTENDS CoreRuntime

CONSTANTS m1, m2, w1, w2, Cases

VARIABLE case

caseVars == <<case, vars>>

(* A mutation, a composer command and two mailbox queries. Replies have     *)
(* room for every query and mutation that is out.                           *)
Answering == INSTANCE CoreRuntime WITH
    Mutations <- {m1}, Writes <- {w1}, Plain <- {}, MaxAsk <- 2, RequestCapacity <- 1,
    MaxBackfill <- 0, MaxFaults <- 0, InFlight <- 1

(* Mutations in flight together, a composer command and one of another     *)
(* task, while the search index is completed and may fail.                 *)
Writing == INSTANCE CoreRuntime WITH
    Plain <- {}, MaxAsk <- 0, MaxStatus <- 0

(* A queue of one place that a write of another task fills, so that a      *)
(* mutation is refused while the other waits behind it, and an event queue *)
(* of one place that a status fills, so that the refusal cannot be         *)
(* delivered.                                                              *)
Refusing == INSTANCE CoreRuntime WITH
    Composes <- {}, Writes <- {w2}, Plain <- {}, MaxAsk <- 0, RequestCapacity <- 1,
    MaxBackfill <- 0, MaxFaults <- 0

(* Two kinds of queries that follow each other.                            *)
Asking == INSTANCE CoreRuntime WITH
    Mutations <- {}, Writes <- {}, Composes <- {}, RequestCapacity <- 1,
    MaxBackfill <- 0, MaxFaults <- 0, InFlight <- 1, MaxStatus <- 0

CaseInit ==
    /\ case \in Cases
    /\ \/ case = "answering" /\ Answering!Init
       \/ case = "writing" /\ Writing!Init
       \/ case = "refusing" /\ Refusing!Init
       \/ case = "asking" /\ Asking!Init

CaseNext ==
    /\ case' = case
    /\ \/ case = "answering" /\ Answering!Next
       \/ case = "writing" /\ Writing!Next
       \/ case = "refusing" /\ Refusing!Next
       \/ case = "asking" /\ Asking!Next

Answered(A) == case = "answering" /\ A /\ case' = case

(* The fairness of CoreRuntime, where its liveness is asked.                *)
CaseSpec ==
    /\ CaseInit /\ [][CaseNext]_caseVars
    /\ WF_caseVars(Answered(Answering!WriterStep /\ UNCHANGED coreVars))
    /\ WF_caseVars(Answered(Answering!ReaderStep(Held) /\ UNCHANGED coreVars))
    /\ WF_caseVars(Answered(Answering!Core))
    /\ WF_caseVars(Answered(Answering!UiReceives /\ ~shutdown))

-----------------------------------------------------------------------------

(* The interface gets the answer to its last query, a composer command     *)
(* ends though the loop takes no replies meanwhile, and a shutdown ends.   *)
CoreAnswers ==
    /\ []<>(case = "answering" => \/ \A k \in DOMAIN asked : seen[k] >= asked[k]
                                  \/ shutdown \/ core.pc \in {"closing", "done"})
    /\ (case = "answering" /\ composes = <<w1>>)
           ~> (case = "answering" /\ answers[w1] # "none")
    /\ []<>(case = "answering" /\ shutdown => core.pc = "done")
=============================================================================

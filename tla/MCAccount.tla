------------------------------ MODULE MCAccount ------------------------------
(* Instances of AccountWorkflows for TLC. A behaviour belongs to one case;  *)
(* the constants of a configuration hold the values of all the cases.       *)
EXTENDS AccountWorkflows

CONSTANTS k1, k2, s1, s2, Cases

VARIABLE case

caseVars == <<case, accountVars>>

(* One id: its account fails, is removed, and the id is given again.       *)
Single == INSTANCE AccountWorkflows WITH Ids <- {1}

(* Two accounts share the slot, the queue and the recovery.                *)
Pair == INSTANCE AccountWorkflows WITH
    Ids <- {1, 2}, Secrets <- {s1}, MaxEpoch <- 0, MaxCache <- 0

CaseInit ==
    /\ case \in Cases
    /\ \/ case = "single" /\ Single!Init
       \/ case = "pair" /\ Pair!Init

CaseNext ==
    /\ case' = case
    /\ \/ case = "single" /\ Single!Next
       \/ case = "pair" /\ Pair!Next

Alone(A) == case = "single" /\ A /\ case' = case

(* The fairness of AccountWorkflows, where its liveness is asked.          *)
CaseSpec ==
    /\ CaseInit /\ [][CaseNext]_caseVars
    /\ WF_caseVars(Alone(Single!TaskStep)) /\ WF_caseVars(Alone(Single!RecoveryStep))
    /\ WF_caseVars(Alone(Single!Worker)) /\ WF_caseVars(Alone(Single!Restart))

-----------------------------------------------------------------------------

(* Recovery at startup ends, and one without a failure has finished every  *)
(* removal it found; the one slot of the workflows is given back.          *)
RecoveryIsComplete ==
    /\ [][RecoveryEnds => NothingPending]_caseVars
    /\ []<>(case = "single" => task = Idle)
    /\ []<>(case = "single" => recovery = "complete")
=============================================================================

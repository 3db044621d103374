------------------------------- MODULE MCContent ------------------------------
(* Instances of ContentFiles for TLC. A behaviour belongs to one case; the  *)
(* constants of a configuration are those of the case "base".               *)
EXTENDS ContentFiles

CONSTANTS m1, d1, k1, k2, k3, k4, Cases

VARIABLE case

caseVars == <<case, vars>>

(* A message and a draft, a crash and a restart, commits that leave doubt. *)
Restarted == INSTANCE ContentFiles WITH
    Keys <- {k1, k2, k3}, Stuck <- {k1}, MaxDoubts <- 1, MaxCrashes <- 1, MaxStops <- 1,
    MaxEdits <- 2, Doubtful <- {"import", "gc"}

(* A file that cannot be removed at the head of the queue.                 *)
Jammed == INSTANCE ContentFiles WITH
    Keys <- {k1, k2, k3}, Stuck <- {k1}, MaxDoubts <- 1, MaxCrashes <- 1,
    Doubtful <- {"import", "gc"}

CaseInit ==
    /\ case \in Cases
    /\ \/ case = "base" /\ Init
       \/ case = "restarted" /\ Restarted!Init
       \/ case = "jammed" /\ Jammed!Init

CaseNext ==
    /\ case' = case
    /\ \/ case = "base" /\ Next
       \/ case = "restarted" /\ Restarted!Next
       \/ case = "jammed" /\ Jammed!Next

(* An action in the cases whose liveness is asked.                         *)
Live(A, B) == /\ case' = case
              /\ \/ case = "base" /\ A
                 \/ case = "jammed" /\ B

(* The fairness of ContentFiles; a single message need not compete for the *)
(* fetch, so it is content with WF.                                        *)
CaseSpec ==
    /\ CaseInit /\ [][CaseNext]_caseVars
    /\ WF_caseVars(Live(ReserveContent, Jammed!ReserveContent))
    /\ WF_caseVars(Live(FinalizeContent, Jammed!FinalizeContent))
    /\ SF_caseVars(Live(RunGc, Jammed!RunGc))
    /\ WF_caseVars(Live(DelayEnds, Jammed!DelayEnds))
    /\ WF_caseVars(Live(Wakes, Jammed!Wakes))
    /\ WF_caseVars(Live(ImportEnds, Jammed!ImportEnds))
    /\ SF_caseVars(Live(SubmitImport, Jammed!SubmitImport))
    /\ SF_caseVars(Live(PublishContent, Jammed!PublishContent))
    /\ WF_caseVars(Live(StartFetch(m1), Jammed!StartFetch(m1)))
    /\ WF_caseVars(Live(\E b \in staged : Expire(b), \E b \in staged : Jammed!Expire(b)))

-----------------------------------------------------------------------------

(* A file that is queued is collected, past one that cannot be removed;    *)
(* content that is asked for again and again arrives, though reservations  *)
(* of failed commits fill the staging area.                                *)
FilesSettle ==
    /\ []<>(case = "jammed" => k2 \notin ToSet(gc))
    /\ []<>(case = "base" => row[m1].current \/ ~row[m1].alive)
===============================================================================

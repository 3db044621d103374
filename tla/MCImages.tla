------------------------------- MODULE MCImages -------------------------------
(* Instances of ImageHost for TLC. A behaviour belongs to one case; the     *)
(* constants of a configuration are those of the case "base".               *)
EXTENDS ImageHost

CONSTANTS p1, p2, c1, Cases

VARIABLE case

caseVars == <<case, vars>>

(* Requests overlap freely: two uploads of one row, a removal and a         *)
(* restore, the cleanup and an upload at the end of its day.                *)
Overlapping == INSTANCE ImageHost WITH
    Requests <- {p1, p2}, Contents <- {c1}, MaxId <- 1, MaxImages <- 1,
    Storage <- "telegram", Overlap <- TRUE, Faulty <- {}, MaxFaults <- 0, MaxAsks <- 2,
    Migrated <- {}, DeleteBackups <- TRUE

(* The script moves an image while its owner trashes and restores it.      *)
Scripted == INSTANCE ImageHost WITH
    Requests <- {p1, p2}, Contents <- {c1}, MaxId <- 1, MaxImages <- 1,
    Storage <- "telegram", Overlap <- FALSE, Faulty <- {}, MaxFaults <- 0, MaxAsks <- 3,
    Migrated <- {1}, DeleteBackups <- TRUE

CaseInit ==
    /\ case \in Cases
    /\ \/ case = "base" /\ Init
       \/ case = "overlapping" /\ Overlapping!Init
       \/ case = "scripted" /\ Scripted!Init

CaseNext ==
    /\ case' = case
    /\ \/ case = "base" /\ Next
       \/ case = "overlapping" /\ Overlapping!Next
       \/ case = "scripted" /\ Scripted!Next

Base(A) == case' = case /\ case = "base" /\ A

(* The fairness of ImageHost, in the case whose liveness is asked.         *)
CaseSpec ==
    /\ CaseInit /\ [][CaseNext]_caseVars
    /\ \A p \in {p1, p2} : WF_caseVars(Base(Step(p)))
    /\ \A i \in 1..2 :
          /\ WF_caseVars(Base(GrowOld(i)))
          /\ SF_caseVars(Base(\E p \in {p1, p2} : Cleanup(p, i)))

-----------------------------------------------------------------------------

(* Only an image in the trash is deleted for good (README.md of the image  *)
(* host), unless a removal met another request on it; an upload ends as an  *)
(* image or is cleaned up, whatever was cut off.                           *)
UploadsEnd ==
    /\ DeletedFromTrash
    /\ \A i \in 1..2 : []<>(case = "base" => ~Is(i, "uploading") /\ ~Is(i, "trashed"))
===============================================================================

----------------------------- MODULE MCAutoSync -----------------------------
(* Instances of AutoSync for TLC. A behaviour belongs to one case, and the *)
(* constants of a case are among those of the configuration.               *)
EXTENDS AutoSync, TLC

CONSTANTS a1, a2, a3, Cases

VARIABLE case

caseVars == <<case, vars>>

(* Three accounts and places for two.                                      *)
Crowd == INSTANCE AutoSync WITH MaxGen <- 1

(* Two accounts that change generation.                                    *)
Generations == INSTANCE AutoSync WITH Accounts <- {a1, a2}

CaseInit ==
    /\ case \in Cases
    /\ \/ case = "crowd" /\ Crowd!Init
       \/ case = "generations" /\ Generations!Init

CaseNext ==
    /\ case' = case
    /\ \/ case = "crowd" /\ Crowd!Next
       \/ case = "generations" /\ Generations!Next

Crowded(A) == case = "crowd" /\ A /\ case' = case

(* The fairness of AutoSync, where its liveness is asked.                  *)
CaseSpec ==
    /\ CaseInit /\ [][CaseNext]_caseVars
    /\ SF_caseVars(Crowded(Crowd!LoadTargets)) /\ SF_caseVars(Crowded(Crowd!LastPage))
    /\ WF_caseVars(Crowded(Crowd!Scheduling)) /\ WF_caseVars(Crowded(Crowd!TaskEnds))
    /\ WF_caseVars(Crowded(Crowd!Tick))
    /\ WF_caseVars(Crowded(\E w \in watches : w.cancelled /\ Crowd!WatchGone(w)))

-----------------------------------------------------------------------------

(* EveryTargetIsServed: while scheduling is not paused, every target gets  *)
(* its turn.                                                               *)
CrowdIsServed == case = "crowd" => Crowd!EveryTargetIsServed
=============================================================================

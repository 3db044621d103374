------------------------------- MODULE MCInbox -------------------------------
(* Instances of InboxSync for TLC. A behaviour belongs to one case; the    *)
(* constants of a configuration are those of the case "base".              *)
EXTENDS InboxSync

CONSTANT Cases

VARIABLE case

caseVars == <<case, vars>>

AllPoints == {"open", "selected", "uids", "staging", "staged", "committing", "previews"}

(* Not between the two transactions of a page                              *)
HarmlessPoints == {"open", "selected", "uids", "previews"}

(* Deletions, archives, a new account generation and a new UIDVALIDITY, and *)
(* a crash or preemption at any point.                                      *)
Disturbed == INSTANCE InboxSync WITH
    MaxUid <- 3, Page <- 2, MaxExpunge <- 1, MaxEdits <- 1, MaxGen <- 2,
    MaxValidity <- 2, MaxDrops <- 1, DropPoints <- AllPoints

CaseInit ==
    /\ case \in Cases
    /\ \/ case = "base" /\ Init
       \/ case = "disturbed" /\ Disturbed!Init

CaseNext ==
    /\ case' = case
    /\ \/ case = "base" /\ Next
       \/ case = "disturbed" /\ Disturbed!Next

Base(A) == case = "base" /\ A /\ case' = case

(* The fairness of InboxSync, where its liveness is asked.                 *)
CaseSpec ==
    /\ CaseInit /\ [][CaseNext]_caseVars
    /\ WF_caseVars(Base(Writer)) /\ WF_caseVars(Base(Fetch))
    /\ SF_caseVars(Base(Begin(TRUE))) /\ SF_caseVars(Base(BeginPreviews))

-----------------------------------------------------------------------------

(* What was fetched is kept, and when the server is quiet all it has gets  *)
(* here.                                                                   *)
InboxConverges == WorkIsKept /\ (case = "base" => Converges)
=============================================================================

----------------------------- MODULE MCRemoteWork -----------------------------
(* Instances of RemoteWork and of ImapSessions for TLC: a message of an    *)
(* IMAP account (the case "base", whose constants are those of the         *)
(* configuration), one of a JMAP account that another client changes as    *)
(* well, and the sessions of the fetches, during which the first rests.    *)
EXTENDS RemoteWork, TLC

CONSTANTS m1, a1, s1, s2, o1, o2, c1, c2, Cases

VARIABLES case, conns, cache, recency, futures, validity, budget, verdicts

sessionVars == <<conns, cache, recency, futures, validity, budget, verdicts>>

caseVars == <<case, vars, sessionVars>>

Owner == m1 :> a1

Jmap == INSTANCE RemoteWork WITH ImapAccounts <- {}, MaxId <- 1, MaxOutside <- 1

(* Messages opened, watches and syncs with the sessions they leave.        *)
Reuse == INSTANCE ImapSessions WITH
    Accounts <- {s1}, Slots <- {o1, o2}, Conns <- {c1, c2}, PerAccount <- 1, Capacity <- 2,
    MaxTag <- 6, Pools <- FALSE, Kinds <- {"body", "watch", "sync"}, MaxValidity <- 1,
    MaxOps <- 3, MaxFaults <- 0, MaxNews <- 1

(* The same with refusals, lost connections, timeouts and aborts.          *)
Faulty == INSTANCE ImapSessions WITH
    Accounts <- {s1}, Slots <- {o1, o2}, Conns <- {c1, c2}, PerAccount <- 1, Capacity <- 2,
    MaxTag <- 6, Pools <- FALSE, Kinds <- {"body", "watch"}, MaxValidity <- 1,
    MaxOps <- 3, MaxFaults <- 1, MaxNews <- 1

(* Long snapshots, which open a pool and fetch in lanes.                   *)
Pooled == INSTANCE ImapSessions WITH
    Accounts <- {s1}, Slots <- {o1, o2}, Conns <- {c1, c2}, PerAccount <- 2, Capacity <- 2,
    MaxTag <- 5, Pools <- TRUE, Kinds <- {"sync"}, MaxValidity <- 2,
    MaxOps <- 2, MaxFaults <- 1, MaxNews <- 0

(* Two accounts whose inboxes are made anew.                               *)
Inboxes == INSTANCE ImapSessions WITH
    Accounts <- {s1, s2}, Slots <- {o1, o2}, Conns <- {c1, c2}, PerAccount <- 1, Capacity <- 1,
    MaxTag <- 5, Pools <- FALSE, Kinds <- {"body"}, MaxValidity <- 2,
    MaxOps <- 2, MaxFaults <- 0, MaxNews <- 0

WorkCases == {"base", "jmap"}

SessionInit ==
    \/ case = "reuse" /\ Reuse!Init
    \/ case = "faulty" /\ Faulty!Init
    \/ case = "pooled" /\ Pooled!Init
    \/ case = "inboxes" /\ Inboxes!Init

CaseInit ==
    /\ case \in Cases
    /\ IF case = "jmap" THEN Jmap!Init ELSE Init
    /\ IF case \in WorkCases
       THEN /\ conns = 0 /\ cache = 0 /\ recency = 0 /\ futures = 0 /\ validity = 0
            /\ budget = 0 /\ verdicts = 0
       ELSE SessionInit /\ \A m \in Messages : mail[m].locs = {}

(* Once nothing more is asked, the sessions rest.                          *)
SessionNext ==
    \/ case = "reuse" /\ (Reuse!Next \/ Reuse!Rests)
    \/ case = "faulty" /\ (Faulty!Next \/ Faulty!Rests)
    \/ case = "pooled" /\ (Pooled!Next \/ Pooled!Rests)
    \/ case = "inboxes" /\ (Inboxes!Next \/ Inboxes!Rests)

CaseNext ==
    /\ case' = case
    /\ \/ /\ \/ case = "base" /\ Next
             \/ case = "jmap" /\ Jmap!Next
          /\ UNCHANGED <<conns, cache, recency, futures, validity, budget, verdicts>>
       \/ SessionNext /\ UNCHANGED vars

CaseSpec == CaseInit /\ [][CaseNext]_caseVars

-----------------------------------------------------------------------------

(* A session has one holder, goes back to the cache only when it owes      *)
(* nothing but the completion of one IDLE, is offered only to its account  *)
(* and its inbox; so what an operation takes for an answer is the answer   *)
(* to its own command, and a session that did nothing wrong is never given *)
(* up.                                                                     *)
SessionsAnswer ==
    /\ case = "reuse" => Reuse!TypeOK /\ Reuse!Sound
    /\ case = "faulty" => Faulty!TypeOK /\ Faulty!Sound
    /\ case = "pooled" => Pooled!TypeOK /\ Pooled!Sound
    /\ case = "inboxes" => Inboxes!TypeOK /\ Inboxes!Sound
=============================================================================

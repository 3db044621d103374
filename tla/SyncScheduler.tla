---------------------------- MODULE SyncScheduler ----------------------------
(***************************************************************************)
(* The queue of accounts to synchronise, mail/src/core/scheduler.rs, as    *)
(* operators on a sequence of targets.  A deadline is the time left until  *)
(* it, 0 once it has passed; a nonce of 0 is a target that waits.          *)
(***************************************************************************)
EXTENDS Integers, FiniteSets, SequencesExt

CONSTANTS
    Accounts,
    MaxTargets,     \* MAX_TARGETS, and the limit of load_sync_targets
    Success,        \* SUCCESS_INTERVAL
    InitialFailure, \* INITIAL_FAILURE_DELAY
    MaxFailure      \* MAX_FAILURE_DELAY

ASSUME SchedulerAssumption ==
    /\ IsFiniteSet(Accounts)
    /\ {MaxTargets, Success, InitialFailure, MaxFailure} \subseteq Nat \ {0}
    /\ InitialFailure <= MaxFailure

FailureDelay(failures) ==
    Min({InitialFailure * 2^Min({failures, 7}), MaxFailure})

(* From here on another failure changes nothing; the code counts to 255.   *)
MaxFailures == CHOOSE n \in 0..7 :
                   /\ FailureDelay(n) = FailureDelay(7)
                   /\ \A k \in 0..(n - 1) : FailureDelay(k) # FailureDelay(7)

Deadlines == 0..Max({Success, MaxFailure})

Nonces == 1..(MaxTargets + 1)

Identity(t) == <<t.acct, t.gen>>

NewTarget(id) ==
    [acct |-> id[1], gen |-> id[2], failures |-> 0, due |-> 0, nonce |-> 0]

Waiting(t) == t.nonce = 0

Due(t) == Waiting(t) /\ t.due = 0

Positions(deque, id) == {i \in DOMAIN deque : Identity(deque[i]) = id}

Has(deque, id) == Positions(deque, id) # {}

At(deque, id) == CHOOSE i \in Positions(deque, id) : TRUE

(* Any nonce that no target holds: the code counts up from 1 and never     *)
(* meets one twice.                                                        *)
FreshNonce(deque) ==
    CHOOSE n \in Nonces : \A i \in DOMAIN deque : deque[i].nonce # n

ToBack_InPlace(deque, i, t) == [deque EXCEPT ![i] = t]

(* Moving to the back of the queue is how a target's turn ends.            *)
ToBack(deque, i, t) == Append(RemoveAt(deque, i), t)

-----------------------------------------------------------------------------

(* Some places of a sequence, in its order.                                *)
InOrder(places) ==
    {f \in [1..Cardinality(places) -> places] :
        \A i, j \in DOMAIN f : i < j => f[i] < f[j]}

(* What is still wanted keeps its order and its state, the rest is new.    *)
ReplaceTargets(deque, wanted) ==
    LET kept    == {i \in DOMAIN deque : Identity(deque[i]) \in ToSet(wanted)}
        missing == {i \in DOMAIN wanted : ~Has(deque, wanted[i])}
    IN  {[i \in DOMAIN f |-> deque[f[i]]]
             \o [i \in DOMAIN g |-> NewTarget(wanted[g[i]])] :
             f \in InOrder(kept), g \in InOrder(missing)}

SomeDue(deque) == \E i \in DOMAIN deque : Due(deque[i])

FirstDue(deque) == Min({i \in DOMAIN deque : Due(deque[i])})

InFlight(t, n) == [t EXCEPT !.nonce = n]

TakeNext(deque) ==
    LET i == FirstDue(deque)
    IN  ToBack(deque, i, InFlight(deque[i], FreshNonce(deque)))

(* A manual turn comes at once, for the target of that generation, or in   *)
(* the place of the account's target of another one.                       *)
OfAccount(deque, a) == {i \in DOMAIN deque : deque[i].acct = a}

ManualBusy(deque, a, g) ==
    Has(deque, <<a, g>>) /\ ~Waiting(deque[At(deque, <<a, g>>)])

ManualTooMany(deque, a) ==
    OfAccount(deque, a) = {} /\ Len(deque) = MaxTargets

TakeManual_KeepsOther(deque, a, g) ==
    LET n == FreshNonce(deque)
    IN  IF Has(deque, <<a, g>>)
        THEN LET i == At(deque, <<a, g>>) IN ToBack(deque, i, InFlight(deque[i], n))
        ELSE Append(deque, InFlight(NewTarget(<<a, g>>), n))

TakeManual(deque, a, g) ==
    LET n == FreshNonce(deque)
    IN  IF Has(deque, <<a, g>>)
        THEN LET i == At(deque, <<a, g>>) IN ToBack(deque, i, InFlight(deque[i], n))
        ELSE LET others == OfAccount(deque, a)
                 rest   == IF others = {} THEN deque
                           ELSE RemoveAt(deque, Min(others))
             IN  Append(rest, InFlight(NewTarget(<<a, g>>), n))

Holds(deque, token) ==
    \E i \in DOMAIN deque : /\ Identity(deque[i]) = <<token.acct, token.gen>>
                            /\ deque[i].nonce = token.nonce

Complete(deque, token, ok) ==
    LET i == At(deque, <<token.acct, token.gen>>)
        t == deque[i]
        failures == IF ok THEN 0 ELSE Min({t.failures + 1, MaxFailures})
    IN  IF ~Holds(deque, token) THEN deque
        ELSE ToBack(deque, i, [t EXCEPT
                 !.nonce = 0, !.failures = failures,
                 !.due = IF ok THEN Success ELSE FailureDelay(t.failures)])

MayPromote(deque, id) == Has(deque, id) /\ Waiting(deque[At(deque, id)])

Promote(deque, id, delay) ==
    IF MayPromote(deque, id)
    THEN [deque EXCEPT ![At(deque, id)].due = delay]
    ELSE deque

WakeDeadlines(deque) == {deque[i].due : i \in {j \in DOMAIN deque : Waiting(deque[j])}}

Elapse(deque) == [i \in DOMAIN deque |->
                     [deque[i] EXCEPT !.due = IF @ = 0 THEN 0 ELSE @ - 1]]
=============================================================================

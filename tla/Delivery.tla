------------------------------ MODULE Delivery ------------------------------
(***************************************************************************)
(* What the outbox promises about one user's messages, without rows,       *)
(* leases, files or time: a message is sent at most once unless its        *)
(* outcome is unknown and the user takes it back.                          *)
(***************************************************************************)
EXTENDS Naturals

CONSTANT Messages

VARIABLES
    status,  \* what the client believes of each message
    copies   \* how many of it the server accepted since it was last a draft

Statuses == {"draft", "queued", "sending", "unknown", "failed", "sent"}

Init == /\ status = [m \in Messages |-> "draft"]
        /\ copies = [m \in Messages |-> 0]

Move(S, from, to) ==
    /\ \A m \in S : status[m] = from
    /\ status' = [m \in Messages |-> IF m \in S THEN to ELSE status[m]]

Unsent(m) == copies[m] = 0

(* The user queues a draft, tries a failed message again or takes it back. *)
Queue(m) == Move({m}, "draft", "queued") /\ UNCHANGED copies
Retry(m) == Move({m}, "failed", "queued") /\ UNCHANGED copies
Release(m) == Move({m}, "failed", "draft") /\ UNCHANGED copies

(* Queued messages are given up before anything of them was sent.          *)
GiveUp(S) == Move(S, "queued", "failed") /\ UNCHANGED copies

(* From Send on the server may accept the message, once.                   *)
Send(m) == Unsent(m) /\ Move({m}, "queued", "sending") /\ UNCHANGED copies

Accept(m) == /\ status[m] = "sending" /\ Unsent(m)
             /\ copies' = [copies EXCEPT ![m] = 1]
             /\ UNCHANGED status

(* The server said no: the message may be sent again, or is given up.      *)
Reject(m) == /\ Unsent(m)
             /\ Move({m}, "sending", "queued") \/ Move({m}, "sending", "failed")
             /\ UNCHANGED copies

Confirm(m) == ~Unsent(m) /\ Move({m}, "sending", "sent") /\ UNCHANGED copies

Doubt(m) == Move({m}, "sending", "unknown") /\ UNCHANGED copies

(* Only the user settles a doubt; taking the message back accepts that a   *)
(* copy of it may be out.                                                  *)
Vouch(m) == Move({m}, "unknown", "sent") /\ UNCHANGED copies

TakeBack(m) == /\ Move({m}, "unknown", "draft")
               /\ copies' = [copies EXCEPT ![m] = 0]

Next == \/ \E m \in Messages :
             \/ Queue(m) \/ Retry(m) \/ Release(m) \/ Send(m) \/ Accept(m)
             \/ Reject(m) \/ Confirm(m) \/ Doubt(m) \/ Vouch(m) \/ TakeBack(m)
        \/ \E S \in SUBSET Messages : GiveUp(S)

Spec == Init /\ [][Next]_<<status, copies>>
=============================================================================

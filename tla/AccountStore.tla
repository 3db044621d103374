---------------------------- MODULE AccountStore ----------------------------
(***************************************************************************)
(* The rows of accounts and account_connections and the transactions of    *)
(* mail/src/store/sqlite/account.rs that change them.  A row keeps what    *)
(* the workflows fence on: the configuration generation, the lifecycle,    *)
(* the locator of the secret, whether undelivered mail is left, and how    *)
(* much cache a purge has to remove.                                       *)
(*                                                                         *)
(* update_account and set_account_enabled have no caller outside tests, so *)
(* no row is ever disabled and they are left out.                          *)
(***************************************************************************)
EXTENDS Naturals, FiniteSetsExt

CONSTANTS
    Ids,       \* account ids, 1..n
    Locators,  \* names of keyring items
    NoKey,     \* a row without connection: an account that needs setup
    MaxGen,    \* bound on configuration generations
    MaxEpoch,  \* bound on diagnostic generations
    MaxCache   \* purge batches an account's cache can fill

ASSUME StoreAssumption ==
    /\ Ids \subseteq Nat \ {0}
    /\ IsFiniteSet(Ids)
    /\ NoKey \notin Locators
    /\ MaxGen \in Nat \ {0}
    /\ {MaxEpoch, MaxCache} \subseteq Nat

VARIABLE rows

Lifecycles == {"active", "removing_credentials", "removing_cache"}

Row == [gen : 1..MaxGen, state : Lifecycles, key : Locators \cup {NoKey},
        undelivered : BOOLEAN, epoch : 0..MaxEpoch, cache : 0..MaxCache]

Absent == [state |-> "absent"]

Exists(a) == rows[a].state # "absent"

Existing == {a \in DOMAIN rows : Exists(a)}

(* accounts.id is an INTEGER PRIMARY KEY without AUTOINCREMENT: the id of  *)
(* the newest account is given again once that account is removed.         *)
NewId == IF Existing = {} THEN 1 ELSE Max(Existing) + 1

Fenced(a, g) == Exists(a) /\ rows[a].gen = g

Configured(a) == rows[a].key # NoKey

NewRow(k) == [gen |-> 1, state |-> "active", key |-> k,
              undelivered |-> FALSE, epoch |-> 0, cache |-> 0]

(* Every change of the configuration takes the next generation.            *)
Advanced(a) == [rows[a] EXCEPT !.gen = @ + 1]

CanAdvance(a) == rows[a].gen < MaxGen

-----------------------------------------------------------------------------

CreateAccount(k) == rows' = [rows EXCEPT ![NewId] = NewRow(k)]

(* A cache from before accounts had a connection gets one.                 *)
MayConfigure(a, g) ==
    /\ Fenced(a, g) /\ CanAdvance(a)
    /\ ~Configured(a) /\ rows[a].state = "active"

ConfigureExisting(a, k) ==
    rows' = [rows EXCEPT ![a] = [Advanced(a) EXCEPT !.key = k]]

MayBeginDiagnostic(a, g) ==
    /\ Fenced(a, g) /\ Configured(a)
    /\ rows[a].state = "active"
    /\ rows[a].epoch < MaxEpoch

BeginDiagnostic(a) == rows' = [rows EXCEPT ![a].epoch = @ + 1]

MayRecordDiagnostic(a, g, e) ==
    /\ Fenced(a, g) /\ Configured(a)
    /\ rows[a].state = "active"
    /\ rows[a].epoch = e

MayBeginRemoval(a, g) ==
    /\ Fenced(a, g) /\ CanAdvance(a)
    /\ ~rows[a].undelivered
    /\ rows[a].state = "active"

(* Without a connection there is no secret to delete first.                *)
BeginRemoval(a) ==
    rows' = [rows EXCEPT ![a] =
        [Advanced(a) EXCEPT !.state = IF Configured(a)
                                      THEN "removing_credentials"
                                      ELSE "removing_cache"]]

MayConfirmRemoved(a, g) ==
    /\ Fenced(a, g) /\ CanAdvance(a)
    /\ rows[a].state = "removing_credentials"

ConfirmRemoved(a) ==
    rows' = [rows EXCEPT ![a] = [Advanced(a) EXCEPT !.state = "removing_cache"]]

MayPurge(a, g) ==
    /\ Fenced(a, g)
    /\ rows[a].state = "removing_cache"
    /\ ~rows[a].undelivered

PurgeBatch_KeepsCache(a) ==
    IF rows[a].cache = 0 THEN rows' = [rows EXCEPT ![a] = Absent]
    ELSE UNCHANGED rows

(* One bounded batch; the row goes once nothing refers to it.              *)
PurgeBatch(a) ==
    IF rows[a].cache = 0 THEN rows' = [rows EXCEPT ![a] = Absent]
    ELSE rows' = [rows EXCEPT ![a].cache = @ - 1]

(* The accounts a scan finds.                                              *)
Pending(state) == {a \in DOMAIN rows : rows[a].state = state}

(* The accounts the scheduler serves.                                      *)
SyncTargets == {<<a, rows[a].gen>> : a \in {b \in Pending("active") : Configured(b)}}

StoreTypeOK ==
    /\ DOMAIN rows \subseteq Ids
    /\ \A a \in DOMAIN rows : rows[a] \in Row \cup {Absent}
=============================================================================

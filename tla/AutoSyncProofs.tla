--------------------------- MODULE AutoSyncProofs ---------------------------
(***************************************************************************)
(* What AutoSync promises of turns and tokens, for any accounts, any limit *)
(* of targets and any intervals.                                           *)
(*                                                                         *)
(* The argument: the only target in flight is that of the task in the      *)
(* slot, and every way to give the slot to something else completes it     *)
(* first (FlightInv).  Who has had a turn goes to the back, and nothing    *)
(* else changes the order, so how often an account was passed over and its *)
(* place in the queue together never exceed the number of places (InTurn). *)
(***************************************************************************)
EXTENDS AutoSync, TLAPS, FiniteSetTheorems, SequenceTheorems,
        WellFoundedInduction

(* A queue of targets, with one place for an account.                      *)
Sound(d) ==
    /\ d \in Seq(Target) /\ Len(d) <= MaxTargets
    /\ \A i, j \in DOMAIN d : d[i].acct = d[j].acct => i = j

AllWait(d) == \A i \in DOMAIN d : Waiting(d[i])

(* Whoever is ahead of an account can pass it over, and then is behind it. *)
InTurn(d, p) == \A i \in DOMAIN d : p[d[i].acct] + i <= MaxTargets

-----------------------------------------------------------------------------
(* Numbers                                                                 *)

(* Min is what it says for a set of numbers.                               *)
LEMMA HasLeast ==
  ASSUME NEW S \in SUBSET Nat, S # {}
  PROVE  Min(S) \in S /\ \A v \in S : Min(S) <= v
<1> DEFINE upTo(u) == {v \in S : v <= u}
           family == {upTo(u) : u \in S}
<1>1. family \subseteq FiniteSubsetsOf(S) /\ family # {}
  <2>1. ASSUME NEW u \in S
        PROVE  IsFiniteSet(upTo(u))
    <3>1. ASSUME NEW v \in upTo(u)
          PROVE  v \in 0..u
      OBVIOUS
    <3>2. upTo(u) \in SUBSET (0..u)
      BY <3>1
    <3>3. u \in Int
      OBVIOUS
    <3>4. IsFiniteSet(0..u)
      BY <3>3, FS_Interval
    <3> HIDE DEF upTo
    <3> QED
      BY <3>2, <3>4, FS_Subset
  <2> QED
    BY <2>1 DEF FiniteSubsetsOf
<1>2. PICK X \in family : \A Y \in family : <<Y, X>> \notin StrictSubsetOrdering(S)
  <2>1. IsWellFoundedOn(StrictSubsetOrdering(S), FiniteSubsetsOf(S))
    BY FS_StrictSubsetOrderingWellFounded
  <2> HIDE DEF family
  <2> QED
    BY <1>1, <2>1, WFMin
<1>3. PICK u \in S : X = upTo(u)
  BY <1>2
<1>4. ASSUME NEW v \in S, v < u
      PROVE  FALSE
  <2>1. upTo(v) \in family
    OBVIOUS
  <2>2. upTo(v) \subseteq X /\ u \in X /\ u \notin upTo(v)
    <3>0. u \in Nat /\ v \in Nat /\ S \subseteq Nat
      OBVIOUS
    <3>1. ASSUME NEW w \in Nat, w <= v
          PROVE  w <= u
      BY <3>0, <1>4, <3>1
    <3>2. u <= u /\ ~(u <= v)
      BY <3>0, <1>4
    <3> QED
      BY <1>3, <3>0, <3>1, <3>2
  <2>3. <<upTo(v), X>> \in StrictSubsetOrdering(S)
    <3>1. upTo(v) \in SUBSET S /\ X \in SUBSET S
      BY <1>3
    <3> HIDE DEF upTo
    <3> QED
      BY <2>2, <3>1 DEF StrictSubsetOrdering
  <2> QED
    BY <1>2, <2>1, <2>3
<1>5. \A v \in S : u <= v
  BY <1>4
<1> QED
  BY <1>5 DEF Min


(* The same for two numbers.                                               *)
LEMMA LesserOfTwo ==
  ASSUME NEW u \in Nat, NEW v \in Nat
  PROVE  Min({u, v}) \in Nat /\ Min({u, v}) <= u /\ Min({u, v}) <= v
<1>1. {u, v} \in SUBSET Nat /\ {u, v} # {}
  OBVIOUS
<1>2. Min({u, v}) \in {u, v} /\ \A w \in {u, v} : Min({u, v}) <= w
  BY <1>1, HasLeast
<1> QED
  BY <1>2

LEMMA DeadlinesReach ==
  /\ 0..Success \subseteq Deadlines /\ 0..MaxFailure \subseteq Deadlines
  /\ Deadlines \subseteq Nat /\ 0 \in Deadlines
  /\ Max({Success, MaxFailure}) \in Nat
<1>1. Success \in Nat /\ MaxFailure \in Nat
  BY SchedulerAssumption
<1>2. \E u \in {Success, MaxFailure} : \A v \in {Success, MaxFailure} : u >= v
  <2>1. CASE Success >= MaxFailure
    BY <1>1, <2>1
  <2>2. CASE ~(Success >= MaxFailure)
    BY <1>1, <2>2
  <2> QED
    BY <2>1, <2>2
<1>3. PICK m : m = Max({Success, MaxFailure})
  OBVIOUS
<1>4. m \in {Success, MaxFailure} /\ m >= Success /\ m >= MaxFailure
  BY <1>2, <1>3 DEF Max
<1> QED
  BY <1>1, <1>3, <1>4 DEF Deadlines

(* failure_delay doubles seven times at most, up to its maximum.           *)
LEMMA DelayIsBounded ==
  ASSUME NEW k \in 0..7
  PROVE  FailureDelay(k) \in Nat /\ FailureDelay(k) <= MaxFailure
<1>1. Min({k, 7}) \in 0..7
  <2>1. k \in Nat /\ 7 \in Nat
    OBVIOUS
  <2>2. Min({k, 7}) \in Nat /\ Min({k, 7}) <= 7
    BY <2>1, LesserOfTwo
  <2> QED
    BY <2>2
<1>2. PICK e \in 0..7 : e = Min({k, 7})
  BY <1>1
<1>3. 2^e \in Nat
  <2>1. /\ 2^0 \in Nat /\ 2^1 \in Nat /\ 2^2 \in Nat /\ 2^3 \in Nat
        /\ 2^4 \in Nat /\ 2^5 \in Nat /\ 2^6 \in Nat /\ 2^7 \in Nat
    OBVIOUS
  <2>2. e \in {0, 1, 2, 3, 4, 5, 6, 7}
    OBVIOUS
  <2> QED
    BY <2>1, <2>2
<1>4. InitialFailure \in Nat /\ MaxFailure \in Nat
  BY SchedulerAssumption
<1>5. InitialFailure * 2^e \in Nat
  BY <1>3, <1>4
<1> QED
  BY <1>2, <1>4, <1>5, LesserOfTwo DEF FailureDelay

LEMMA FailuresAreBounded == MaxFailures \in 0..7
<1> DEFINE Same == {k \in 0..7 : FailureDelay(k) = FailureDelay(7)}
           m == Min(Same)
<1>1. Same \in SUBSET Nat /\ Same # {} /\ Same \subseteq 0..7
  OBVIOUS
<1>2. m \in Same /\ \A v \in Same : m <= v
  BY <1>1, HasLeast
<1>3. \E k \in 0..7 : /\ FailureDelay(k) = FailureDelay(7)
                      /\ \A j \in 0..(k - 1) : FailureDelay(j) # FailureDelay(7)
  <2>1. m \in 0..7 /\ FailureDelay(m) = FailureDelay(7)
    BY <1>2
  <2> HIDE DEF m
  <2>2. ASSUME NEW j \in 0..(m - 1)
        PROVE  FailureDelay(j) # FailureDelay(7)
    <3>1. j \in 0..7 /\ ~(m <= j)
      BY <2>1
    <3> QED
      BY <1>2, <3>1
  <2> QED
    BY <2>1, <2>2
<1> QED
  BY <1>3 DEF MaxFailures

-----------------------------------------------------------------------------
(* The queue                                                               *)

(* Where the target at q came from when the one at i of n went to the back. *)
Origin(i, n, q) == IF q = n THEN i ELSE IF q < i THEN q ELSE q + 1

(* The sequence after remove and push_back, place by place.                *)
LEMMA WentBack ==
  ASSUME NEW d \in Seq(Target), NEW i \in DOMAIN d, NEW t \in Target
  PROVE  /\ ToBack(d, i, t) \in Seq(Target)
         /\ Len(ToBack(d, i, t)) = Len(d)
         /\ \A q \in 1..Len(d) :
               /\ Origin(i, Len(d), q) \in 1..Len(d)
               /\ ToBack(d, i, t)[q] = IF q = Len(d) THEN t ELSE d[Origin(i, Len(d), q)]
<1> DEFINE n == Len(d)
           x == SubSeq(d, 1, i - 1)
           y == SubSeq(d, i + 1, n)
<1>1. n \in Nat /\ i \in 1..n /\ DOMAIN d = 1..n
  BY LenProperties
<1>2. x \in Seq(Target) /\ Len(x) = i - 1 /\ \A q \in 1..(i - 1) : x[q] = d[q]
  BY <1>1, SubSeqProperties
<1>3. y \in Seq(Target) /\ Len(y) = n - i /\ \A q \in 1..(n - i) : y[q] = d[q + i]
  BY <1>1, SubSeqProperties
<1> HIDE DEF x, y, n
<1>4. /\ x \o y \in Seq(Target) /\ Len(x \o y) = n - 1
      /\ \A q \in 1..(n - 1) : (x \o y)[q] = IF q <= i - 1 THEN x[q] ELSE y[q - (i - 1)]
  <2>1. Len(x) + Len(y) = n - 1
    BY <1>1, <1>2, <1>3
  <2>2. /\ Len(x \o y) = Len(x) + Len(y) /\ x \o y \in Seq(Target)
        /\ \A q \in 1..(Len(x) + Len(y)) :
              (x \o y)[q] = IF q <= Len(x) THEN x[q] ELSE y[q - Len(x)]
    BY <1>2, <1>3, ConcatProperties
  <2> QED
    BY <1>2, <2>1, <2>2
<1>5. ASSUME NEW q \in 1..(n - 1)
      PROVE  (x \o y)[q] = d[IF q < i THEN q ELSE q + 1]
  <2>1. CASE q < i
    BY <1>1, <1>2, <1>4, <2>1
  <2>2. CASE ~(q < i)
    <3>1. ~(q <= i - 1) /\ q - (i - 1) \in 1..(n - i) /\ q - (i - 1) + i = q + 1
      BY <1>1, <2>2
    <3> QED
      BY <1>1, <1>3, <1>4, <2>2, <3>1
  <2> QED
    BY <2>1, <2>2
<1>6. ToBack(d, i, t) = Append(x \o y, t)
  BY DEF ToBack, RemoveAt, x, y, n
<1>7. /\ Append(x \o y, t) \in Seq(Target) /\ Len(Append(x \o y, t)) = n
      /\ \A q \in 1..(n - 1) : Append(x \o y, t)[q] = (x \o y)[q]
      /\ Append(x \o y, t)[n] = t
  <2>1. (n - 1) + 1 = n
    BY <1>1
  <2> QED
    BY <1>4, <2>1, AppendProperties
<1>8. ASSUME NEW q \in 1..n
      PROVE  /\ Origin(i, n, q) \in 1..n
             /\ ToBack(d, i, t)[q] = IF q = n THEN t ELSE d[Origin(i, n, q)]
  <2>1. CASE q = n
    BY <1>1, <1>6, <1>7, <2>1 DEF Origin
  <2>2. CASE q # n
    <3>1. q \in 1..(n - 1) /\ q < n
      BY <1>1, <2>2
    <3> QED
      BY <1>1, <1>5, <1>6, <1>7, <2>2, <3>1 DEF Origin
  <2> QED
    BY <2>1, <2>2
<1> QED
  BY <1>6, <1>7, <1>8 DEF n

(* An account that has had its turn goes to the back of the queue.         *)
LEMMA BackIsSound ==
  ASSUME NEW d, Sound(d), NEW i \in DOMAIN d, NEW t \in Target, t.acct = d[i].acct
  PROVE  /\ Sound(ToBack(d, i, t)) /\ DOMAIN ToBack(d, i, t) = DOMAIN d
         /\ \A p \in [Accounts -> Nat] :
               InTurn(d, p) /\ p[t.acct] = 0 => InTurn(ToBack(d, i, t), p)
<1> DEFINE n == Len(d)
           e == ToBack(d, i, t)
           o(q) == Origin(i, n, q)
<1>1. /\ n \in Nat /\ i \in 1..n /\ DOMAIN d = 1..n /\ d \in Seq(Target)
      /\ n <= MaxTargets /\ \A q \in 1..n : d[q] \in Target
  BY LenProperties, ElementOfSeq DEF Sound
<1>2. /\ e \in Seq(Target) /\ Len(e) = n /\ DOMAIN e = 1..n
      /\ \A q \in 1..n : o(q) \in 1..n /\ e[q] = IF q = n THEN t ELSE d[o(q)]
  BY <1>1, WentBack, LenProperties
<1> HIDE DEF n
<1>3. ASSUME NEW q \in 1..n, q # n
      PROVE  q <= o(q)
  BY <1>1, <1>3 DEF Origin
<1>4. ASSUME NEW q \in 1..n, NEW r \in 1..n, o(q) = o(r)
      PROVE  q = r
  <2>1. \A u \in 1..n : u # n => o(u) # i /\ o(u) = IF u < i THEN u ELSE u + 1
    BY <1>1 DEF Origin
  <2>2. o(n) = i /\ n \in Nat /\ i \in Nat /\ q \in Nat /\ r \in Nat
    BY <1>1 DEF Origin
  <2> HIDE DEF o
  <2>3. CASE q = n \/ r = n
    BY <1>4, <2>1, <2>2, <2>3
  <2>4. CASE q # n /\ r # n
    BY <1>4, <2>1, <2>2, <2>4
  <2> QED
    BY <2>3, <2>4
<1>5. o(n) = i /\ \A q \in 1..n : e[q].acct = d[o(q)].acct
  BY <1>2 DEF Origin
<1> HIDE DEF e, o
<1> MaxTargets \in Nat
  BY SchedulerAssumption
<1>6. Sound(e)
  BY <1>1, <1>2, <1>4, <1>5 DEF Sound
<1>7. ASSUME NEW p \in [Accounts -> Nat], InTurn(d, p), p[t.acct] = 0
      PROVE  InTurn(e, p)
  <2>1. ASSUME NEW q \in 1..n
        PROVE  p[e[q].acct] + q <= MaxTargets
    <3>1. CASE q = n
      BY <1>1, <1>2, <1>7, <3>1
    <3>2. CASE q # n
      <4>1. e[q].acct \in Accounts /\ d[o(q)].acct = e[q].acct /\ p[e[q].acct] \in Nat
        BY <1>1, <1>2, <1>5 DEF Target
      <4>2. p[d[o(q)].acct] + o(q) <= MaxTargets
        BY <1>1, <1>2, <1>7 DEF InTurn
      <4> QED
        BY <1>1, <1>2, <1>3, <3>2, <4>1, <4>2
    <3> QED
      BY <3>1, <3>2
  <2> QED
    BY <1>2, <2>1 DEF InTurn
<1> QED
  BY <1>1, <1>2, <1>6, <1>7 DEF e

(* What only changes a deadline changes no place.                          *)
LEMMA SamePlaces ==
  ASSUME NEW d, Sound(d), NEW e \in Seq(Target), DOMAIN e = DOMAIN d,
         \A i \in DOMAIN d : e[i].acct = d[i].acct
  PROVE  Sound(e) /\ \A p : InTurn(d, p) => InTurn(e, p)
<1>1. Len(d) \in Nat /\ DOMAIN d = 1..Len(d) /\ Len(e) \in Nat /\ DOMAIN e = 1..Len(e)
  BY LenProperties DEF Sound
<1>2. Len(e) = Len(d)
  BY <1>1
<1> QED
  BY <1>2 DEF Sound, InTurn

LEMMA FoundAt ==
  ASSUME NEW d, NEW id, Has(d, id)
  PROVE  At(d, id) \in DOMAIN d /\ Identity(d[At(d, id)]) = id
BY DEF Has, At, Positions

LEMMA OnePlace ==
  ASSUME NEW d, Sound(d), NEW i \in DOMAIN d, NEW j \in DOMAIN d,
         Identity(d[i]) = Identity(d[j])
  PROVE  i = j
BY DEF Sound, Identity

(* A nonce is free while nothing is in flight.                             *)
LEMMA NonceIsFresh ==
  ASSUME NEW d, AllWait(d)
  PROVE  FreshNonce(d) \in Nonces /\ FreshNonce(d) # 0
<1>1. 1 \in Nonces /\ 0 \notin Nonces
  <2>1. MaxTargets \in Nat
    BY SchedulerAssumption
  <2> QED
    BY <2>1 DEF Nonces
<1>2. \A i \in DOMAIN d : d[i].nonce # 1
  BY DEF AllWait, Waiting
<1> QED
  BY <1>1, <1>2 DEF FreshNonce

LEMMA DelayIsADeadline ==
  ASSUME NEW k \in 0..MaxFailures
  PROVE  /\ FailureDelay(k) \in Deadlines
         /\ Min({k + 1, MaxFailures}) \in 0..MaxFailures
<1>1. MaxFailures \in 0..7
  BY FailuresAreBounded
<1>2. k \in 0..7 /\ k + 1 \in Nat /\ MaxFailures \in Nat
  BY <1>1
<1>3. FailureDelay(k) \in Nat /\ FailureDelay(k) <= MaxFailure
  BY <1>2, DelayIsBounded
<1>4. MaxFailure \in Nat
  BY SchedulerAssumption
<1>5. FailureDelay(k) \in Deadlines
  BY <1>3, <1>4, DeadlinesReach
<1>6. Min({k + 1, MaxFailures}) \in Nat /\ Min({k + 1, MaxFailures}) <= MaxFailures
  BY <1>2, LesserOfTwo
<1> QED
  BY <1>2, <1>5, <1>6

(* A target whose turn ends waits again, at the back of the queue.         *)
LEMMA TurnEnds ==
  ASSUME NEW d, Sound(d), NEW token, NEW ok \in BOOLEAN, Holds(d, token),
         \A i \in DOMAIN d : ~Waiting(d[i]) => Identity(d[i]) = Identity(token)
  PROVE  /\ Sound(Complete(d, token, ok)) /\ AllWait(Complete(d, token, ok))
         /\ \A p \in [Accounts -> Nat] :
               InTurn(d, p) /\ p[token.acct] = 0 => InTurn(Complete(d, token, ok), p)
<1> DEFINE i == At(d, <<token.acct, token.gen>>)
           n == Len(d)
           fail == IF ok THEN 0 ELSE Min({d[i].failures + 1, MaxFailures})
           due == IF ok THEN Success ELSE FailureDelay(d[i].failures)
           t == [d[i] EXCEPT !.nonce = 0, !.failures = fail, !.due = due]
           e == ToBack(d, i, t)
<1>1. i \in DOMAIN d /\ Identity(d[i]) = Identity(token)
  <2>1. Has(d, <<token.acct, token.gen>>)
    BY DEF Holds, Has, Positions
  <2> QED
    BY <2>1, FoundAt DEF Identity
<1>2. Complete(d, token, ok) = e
  BY DEF Complete
<1>3. d \in Seq(Target) /\ n \in Nat /\ DOMAIN d = 1..n /\ d[i] \in Target
  BY <1>1, LenProperties, ElementOfSeq DEF Sound
<1>4. t \in Target /\ t.acct = d[i].acct /\ t.nonce = 0
  <2>1. d[i].failures \in 0..MaxFailures
    BY <1>3 DEF Target
  <2>2. fail \in 0..MaxFailures /\ due \in Deadlines
    <3>1. Success \in Deadlines
      <4>1. Success \in Nat
        BY SchedulerAssumption
      <4> QED
        BY <4>1, DeadlinesReach
    <3>2. 0 \in 0..MaxFailures
      BY FailuresAreBounded
    <3>3. /\ FailureDelay(d[i].failures) \in Deadlines
          /\ Min({d[i].failures + 1, MaxFailures}) \in 0..MaxFailures
      BY <2>1, DelayIsADeadline
    <3> QED
      BY <3>1, <3>2, <3>3
  <2> HIDE DEF fail, due
  <2> QED
    BY <1>3, <2>2 DEF Target
<1>5. token.acct = d[i].acct
  BY <1>1 DEF Identity
<1> HIDE DEF t, i
<1>6. /\ Sound(e) /\ DOMAIN e = DOMAIN d
      /\ \A p \in [Accounts -> Nat] : InTurn(d, p) /\ p[t.acct] = 0 => InTurn(e, p)
  BY <1>1, <1>4, BackIsSound
<1>7. AllWait(e)
  <2>1. \A q \in 1..n : /\ Origin(i, n, q) \in 1..n
                        /\ e[q] = IF q = n THEN t ELSE d[Origin(i, n, q)]
    BY <1>1, <1>3, <1>4, WentBack
  <2> HIDE DEF n, e
  <2>2. ASSUME NEW q \in 1..n, q # n
        PROVE  Waiting(d[Origin(i, n, q)])
    <3>1. Origin(i, n, q) # i
      BY <1>1, <1>3, <2>2 DEF Origin
    <3>2. Origin(i, n, q) \in DOMAIN d
      BY <1>3, <2>1
    <3> QED
      BY <1>1, <3>1, <3>2, OnePlace
  <2>3. ASSUME NEW q \in 1..n
        PROVE  Waiting(e[q])
    BY <1>4, <2>1, <2>2 DEF Waiting
  <2> QED
    BY <1>3, <1>6, <2>3 DEF AllWait
<1> QED
  BY <1>2, <1>4, <1>5, <1>6, <1>7

(* One target is in flight.                                                *)
InFlightAlone(e, t) ==
    /\ \E i \in DOMAIN e : e[i] = t
    /\ \A i \in DOMAIN e : ~Waiting(e[i]) => e[i] = t

(* The one that goes to the back in flight is the only one in flight.      *)
LEMMA BackInFlight ==
  ASSUME NEW d, Sound(d), AllWait(d), NEW i \in DOMAIN d, NEW t \in Target
  PROVE  InFlightAlone(ToBack(d, i, t), t)
<1> DEFINE n == Len(d)
           e == ToBack(d, i, t)
<1>1. d \in Seq(Target) /\ n \in Nat /\ DOMAIN d = 1..n /\ n \in 1..n
  BY LenProperties DEF Sound
<1>2. /\ DOMAIN e = 1..n
      /\ \A q \in 1..n : /\ Origin(i, n, q) \in 1..n
                         /\ e[q] = IF q = n THEN t ELSE d[Origin(i, n, q)]
  BY <1>1, WentBack, LenProperties
<1> HIDE DEF n, e
<1>3. e[n] = t /\ \A q \in 1..n : q # n => Waiting(e[q])
  BY <1>1, <1>2 DEF AllWait, Waiting
<1> QED
  BY <1>1, <1>2, <1>3 DEF InFlightAlone, e

(* take_next passes over nobody who is due and ahead.                      *)
LEMMA TurnBegins ==
  ASSUME NEW d, Sound(d), AllWait(d), SomeDue(d),
         NEW p \in [Accounts -> Nat], InTurn(d, p), \A a \in Accounts : p[a] < MaxTargets,
         NEW t, t = d[FirstDue(d)],
         NEW p2, p2 = [a \in Accounts |->
            IF a = t.acct THEN 0
            ELSE p[a] + (IF \E i \in DOMAIN d : d[i].acct = a /\ Due(d[i])
                         THEN 1 ELSE 0)]
  PROVE  /\ t \in Target /\ FreshNonce(d) \in Nonces \ {0}
         /\ Sound(TakeNext(d))
         /\ InFlightAlone(TakeNext(d), InFlight(t, FreshNonce(d)))
         /\ p2 \in [Accounts -> Nat] /\ InTurn(TakeNext(d), p2) /\ p2[t.acct] = 0
         /\ \A a \in Accounts : p2[a] < MaxTargets
<1> DEFINE n == Len(d)
           f == FirstDue(d)
           u == InFlight(t, FreshNonce(d))
           e == ToBack(d, f, u)
<1>1. /\ d \in Seq(Target) /\ n \in Nat /\ DOMAIN d = 1..n /\ n <= MaxTargets
      /\ \A i \in 1..n : d[i] \in Target
  BY LenProperties, ElementOfSeq DEF Sound
<1>2. f \in 1..n /\ Due(d[f]) /\ \A i \in 1..n : Due(d[i]) => f <= i
  <2> DEFINE S == {i \in DOMAIN d : Due(d[i])}
  <2>1. S \in SUBSET Nat /\ S # {}
    BY <1>1 DEF SomeDue
  <2>2. Min(S) \in S /\ \A v \in S : Min(S) <= v
    BY <2>1, HasLeast
  <2> QED
    BY <1>1, <2>2 DEF FirstDue
<1>3. FreshNonce(d) \in Nonces /\ FreshNonce(d) # 0
  BY NonceIsFresh
<1>4. t \in Target /\ u \in Target /\ u.acct = t.acct
  BY <1>1, <1>2, <1>3 DEF InFlight, Target
<1>5. TakeNext(d) = e
  BY DEF TakeNext
<1>6. \A q \in 1..n : /\ Origin(f, n, q) \in 1..n
                      /\ e[q] = IF q = n THEN u ELSE d[Origin(f, n, q)]
  BY <1>1, <1>2, <1>4, WentBack
<1>7. Sound(e) /\ DOMAIN e = 1..n
  BY <1>1, <1>2, <1>4, BackIsSound
<1>8. InFlightAlone(e, u)
  BY <1>1, <1>2, <1>4, BackInFlight
<1>9. MaxTargets \in Nat /\ 0 < MaxTargets
  BY SchedulerAssumption
<1>10. p2 \in [Accounts -> Nat] /\ p2[t.acct] = 0
  BY <1>4 DEF Target
<1>11. \A a \in Accounts : p[a] \in Nat /\ p2[a] \in Nat
  BY <1>10
<1>12. ASSUME NEW i \in 1..n, i # f
       PROVE  p2[d[i].acct] = p[d[i].acct] + (IF Due(d[i]) THEN 1 ELSE 0)
  <2>1. d[i].acct # t.acct /\ d[i].acct \in Accounts
    BY <1>1, <1>2, <1>12 DEF Sound, Target
  <2>2. \A j \in DOMAIN d : d[j].acct = d[i].acct => j = i
    BY <1>1 DEF Sound
  <2>3. (\E j \in DOMAIN d : d[j].acct = d[i].acct /\ Due(d[j])) <=> Due(d[i])
    BY <1>1, <2>2
  <2> QED
    BY <2>1, <2>3
<1> HIDE DEF n, f, u, e
<1>13. ASSUME NEW a \in Accounts
       PROVE  p2[a] < MaxTargets
  <2>1. CASE \E i \in 1..n : d[i].acct = a /\ i # f /\ Due(d[i])
    <3>1. PICK i \in 1..n : d[i].acct = a /\ i # f /\ Due(d[i])
      BY <2>1
    <3>2. p2[a] = p[a] + 1
      BY <1>12, <3>1
    <3>3. p[a] + i <= MaxTargets
      BY <1>1, <3>1 DEF InTurn
    <3>4. f < i /\ f \in Nat /\ i \in Nat /\ f >= 1
      BY <1>1, <1>2, <3>1
    <3> QED
      BY <1>9, <1>11, <3>2, <3>3, <3>4
  <2>2. CASE ~\E i \in 1..n : d[i].acct = a /\ i # f /\ Due(d[i])
    <3>1. p2[a] = 0 \/ p2[a] = p[a]
      BY <1>1, <1>11, <2>2 DEF f
    <3> QED
      BY <1>9, <3>1
  <2> QED
    BY <2>1, <2>2
<1>14. ASSUME NEW q \in 1..n
       PROVE  p2[e[q].acct] + q <= MaxTargets
  <2>1. CASE q = n
    BY <1>1, <1>4, <1>6, <1>9, <1>10, <2>1
  <2>2. CASE q # n
    <3> DEFINE o == Origin(f, n, q)
    <3>1. o \in 1..n /\ o # f /\ (q < f => o = q) /\ (q >= f => o = q + 1)
      BY <1>1, <1>2, <2>2 DEF Origin
    <3>2. e[q] = d[o]
      BY <1>6, <2>2
    <3> HIDE DEF o
    <3>3. /\ p2[d[o].acct] = p[d[o].acct] + (IF Due(d[o]) THEN 1 ELSE 0)
          /\ p[d[o].acct] + o <= MaxTargets /\ d[o].acct \in Accounts
      BY <1>1, <1>12, <3>1 DEF InTurn, Target
    <3>4. p[d[o].acct] \in Nat
      BY <1>11, <3>3
    <3>5. q < f => ~Due(d[o])
      BY <1>1, <1>2, <3>1
    <3>6. q \in Nat /\ o \in Nat /\ f \in Nat
      BY <1>1, <1>2, <3>1
    <3> QED
      BY <1>9, <3>1, <3>2, <3>3, <3>4, <3>5, <3>6
  <2> QED
    BY <2>1, <2>2
<1> QED
  BY <1>3, <1>4, <1>5, <1>7, <1>8, <1>10, <1>13, <1>14 DEF InTurn, u

(* take_manual puts the account behind everybody else, once.               *)
LEMMA ManualTurnBegins ==
  ASSUME NEW d, Sound(d), AllWait(d), NEW a \in Accounts, NEW g \in 1..MaxGen,
         ~ManualTooMany(d, a),
         NEW p \in [Accounts -> Nat], InTurn(d, p), p[a] = 0
  PROVE  /\ FreshNonce(d) \in Nonces \ {0} /\ Sound(TakeManual(d, a, g))
         /\ InTurn(TakeManual(d, a, g), p)
         /\ \E t \in Target : /\ Identity(t) = <<a, g>> /\ t.nonce = FreshNonce(d)
                              /\ InFlightAlone(TakeManual(d, a, g), t)
<1> DEFINE n == FreshNonce(d)
           e == TakeManual(d, a, g)
<1>1. /\ d \in Seq(Target) /\ Len(d) \in Nat /\ DOMAIN d = 1..Len(d)
      /\ \A i \in DOMAIN d : d[i] \in Target
  BY LenProperties, ElementOfSeq DEF Sound
<1>2. n \in Nonces /\ n # 0
  BY NonceIsFresh
<1>3. InFlight(NewTarget(<<a, g>>), n) \in Target
  <2>1. 0 \in 0..MaxFailures /\ 0 \in Deadlines
    BY FailuresAreBounded, DeadlinesReach
  <2> QED
    BY <1>2, <2>1 DEF InFlight, NewTarget, Target
<1>4. Identity(InFlight(NewTarget(<<a, g>>), n)) = <<a, g>>
  BY DEF Identity, InFlight, NewTarget
<1> SUFFICES /\ Sound(e) /\ InTurn(e, p)
             /\ \E t \in Target : /\ Identity(t) = <<a, g>> /\ t.nonce = n
                                  /\ InFlightAlone(e, t)
  BY <1>2
<1>5. CASE Has(d, <<a, g>>)
  <2>1. PICK i \in DOMAIN d : i = At(d, <<a, g>>) /\ Identity(d[i]) = <<a, g>>
    BY <1>5, FoundAt
  <2>2. PICK t : t = InFlight(d[i], n)
    OBVIOUS
  <2>3. e = ToBack(d, i, t)
    BY <1>5, <2>1, <2>2 DEF TakeManual
  <2>4. t \in Target /\ t.acct = d[i].acct /\ Identity(t) = <<a, g>> /\ t.nonce = n
    BY <1>1, <1>2, <2>1, <2>2 DEF InFlight, Target, Identity
  <2>5. t.acct = a
    BY <2>4 DEF Identity
  <2> QED
    BY <2>3, <2>4, <2>5, BackIsSound, BackInFlight
<1>6. CASE ~Has(d, <<a, g>>) /\ OfAccount(d, a) # {}
  <2>1. PICK i : i = Min(OfAccount(d, a))
    OBVIOUS
  <2>2. i \in DOMAIN d /\ d[i].acct = a
    <3>1. OfAccount(d, a) \in SUBSET Nat
      BY <1>1 DEF OfAccount
    <3>2. i \in OfAccount(d, a)
      BY <1>6, <2>1, <3>1, HasLeast
    <3> QED
      BY <3>2 DEF OfAccount
  <2>3. PICK t : t = InFlight(NewTarget(<<a, g>>), n)
    OBVIOUS
  <2>4. e = ToBack(d, i, t)
    BY <1>6, <2>1, <2>3 DEF TakeManual, ToBack
  <2>5. t \in Target /\ t.acct = a /\ t.nonce = n /\ Identity(t) = <<a, g>>
    BY <1>3, <1>4, <2>3 DEF InFlight, NewTarget
  <2> QED
    BY <2>2, <2>4, <2>5, BackIsSound, BackInFlight
<1>7. CASE ~Has(d, <<a, g>>) /\ OfAccount(d, a) = {}
  <2>1. PICK t : t = InFlight(NewTarget(<<a, g>>), n)
    OBVIOUS
  <2>2. t \in Target /\ t.acct = a /\ t.nonce = n /\ Identity(t) = <<a, g>>
    BY <1>3, <1>4, <2>1 DEF InFlight, NewTarget
  <2>3. e = Append(d, t)
    BY <1>7, <2>1 DEF TakeManual
  <2>4. /\ e \in Seq(Target) /\ Len(e) = Len(d) + 1 /\ DOMAIN e = 1..(Len(d) + 1)
        /\ \A i \in 1..Len(d) : e[i] = d[i] /\ e[i].acct # a
        /\ e[Len(d) + 1] = t
    <3>1. /\ e \in Seq(Target) /\ Len(e) = Len(d) + 1 /\ e[Len(d) + 1] = t
          /\ \A i \in 1..Len(d) : e[i] = d[i]
      BY <1>1, <2>2, <2>3, AppendProperties
    <3>2. DOMAIN e = 1..Len(e)
      BY <3>1, LenProperties
    <3> HIDE DEF e
    <3> QED
      BY <1>1, <1>7, <3>1, <3>2 DEF OfAccount
  <2>5. Len(d) + 1 <= MaxTargets /\ MaxTargets \in Nat
    <3>1. MaxTargets \in Nat
      BY SchedulerAssumption
    <3>2. Len(d) <= MaxTargets
      BY DEF Sound
    <3>3. Len(d) # MaxTargets
      BY <1>7 DEF ManualTooMany
    <3>4. \A u, v \in Nat : u <= v /\ u # v => u + 1 <= v
      OBVIOUS
    <3> QED
      BY <1>1, <3>1, <3>2, <3>3, <3>4
  <2>6. PICK m \in Nat : m = Len(d)
    BY <1>1
  <2> HIDE DEF e
  <2>7. \A i \in 1..(m + 1) : i = m + 1 \/ i \in 1..m
    OBVIOUS
  <2>8. Sound(e)
    BY <1>1, <2>2, <2>4, <2>5, <2>6, <2>7 DEF Sound
  <2>9. InTurn(e, p)
    BY <1>1, <2>2, <2>4, <2>5, <2>6, <2>7 DEF InTurn
  <2>10. InFlightAlone(e, t)
    BY <1>1, <2>4, <2>6, <2>7 DEF InFlightAlone, AllWait
  <2> QED
    BY <2>2, <2>8, <2>9, <2>10
<1> QED
  BY <1>5, <1>6, <1>7

-----------------------------------------------------------------------------
(* A new list of candidates                                                *)

LEMMA IntervalSize ==
  ASSUME NEW n \in Nat
  PROVE  Cardinality(1..n) = n /\ IsFiniteSet(1..n)
BY FS_Interval

(* Whoever keeps its order in a part of the queue is not further behind.   *)
LEMMA PlacesInOrder ==
  ASSUME NEW n \in Nat, NEW places \in SUBSET (1..n), NEW f \in InOrder(places)
  PROVE  /\ Cardinality(places) \in Nat /\ DOMAIN f = 1..Cardinality(places)
         /\ \A i \in DOMAIN f : f[i] \in places /\ i <= f[i]
         /\ \A i, j \in DOMAIN f : f[i] = f[j] => i = j
<1> DEFINE c == Cardinality(places)
<1>1. c \in Nat
  BY IntervalSize, FS_Subset, FS_CardinalityType
<1>2. /\ f \in [1..c -> places]
      /\ \A i, j \in 1..c : i < j => f[i] < f[j]
  BY DEF InOrder
<1> HIDE DEF c
<1>3. \A i \in 1..c : f[i] \in 1..n
  BY <1>2
<1>4. \A i, j \in 1..c : f[i] = f[j] => i = j
  BY <1>1, <1>2, <1>3
<1>5. ASSUME NEW i \in 1..c
      PROVE  i <= f[i]
  <2>1. i \in Nat /\ f[i] \in Nat
    BY <1>1, <1>3
  <2> DEFINE h == [j \in 1..i |-> f[j]]
  <2>2. ASSUME NEW j \in 1..i
        PROVE  f[j] \in 1..f[i]
    <3>1. j \in 1..c /\ (j = i \/ j < i)
      BY <1>1, <2>1
    <3> QED
      BY <1>2, <1>3, <3>1
  <2>3. h \in Injection(1..i, 1..f[i])
    <3>1. \A j, k \in 1..i : j \in 1..c /\ k \in 1..c
      BY <1>1
    <3> QED
      BY <1>4, <2>2, <3>1 DEF Injection, IsInjective
  <2>4. Cardinality(1..i) <= Cardinality(1..f[i])
    BY <2>1, <2>3, IntervalSize, FS_Injection
  <2> QED
    BY <2>1, <2>4, IntervalSize
<1> QED
  BY <1>1, <1>2, <1>4, <1>5 DEF c

(* A list of candidates names an account once.                             *)
Distinct(w) == \A i, j \in DOMAIN w : w[i][1] = w[j][1] => i = j

(* replace_targets keeps the turn of every account that stays.             *)
LEMMA TargetsAreReplaced ==
  ASSUME NEW d, Sound(d), AllWait(d),
         NEW w \in Seq(Ids), Len(w) <= MaxTargets, Distinct(w),
         NEW p \in [Accounts -> Nat], InTurn(d, p), \A a \in Accounts : p[a] < MaxTargets,
         NEW p2, p2 = [a \in Accounts |->
            IF \E i \in DOMAIN d : d[i].acct = a /\ Identity(d[i]) \in ToSet(w)
            THEN p[a] ELSE 0],
         NEW e \in ReplaceTargets(d, w)
  PROVE  /\ Sound(e) /\ AllWait(e)
         /\ p2 \in [Accounts -> Nat] /\ InTurn(e, p2)
         /\ \A a \in Accounts : p2[a] < MaxTargets
<1> DEFINE kept == {i \in DOMAIN d : Identity(d[i]) \in ToSet(w)}
           missing == {i \in DOMAIN w : ~Has(d, w[i])}
           c == Cardinality(kept)
           m == Cardinality(missing)
<1>1. PICK f \in InOrder(kept), g \in InOrder(missing) :
         e = [i \in DOMAIN f |-> d[f[i]]] \o [i \in DOMAIN g |-> NewTarget(w[g[i]])]
  <2> DEFINE New(f, g) == [i \in DOMAIN f |-> d[f[i]]]
                             \o [i \in DOMAIN g |-> NewTarget(w[g[i]])]
  <2>1. ReplaceTargets(d, w) = {New(f, g) : f \in InOrder(kept), g \in InOrder(missing)}
    BY DEF ReplaceTargets
  <2> HIDE DEF kept, missing, New
  <2>2. PICK f \in InOrder(kept), g \in InOrder(missing) : e = New(f, g)
    BY <2>1
  <2> QED
    BY <2>2 DEF New
<1>2. /\ d \in Seq(Target) /\ Len(d) \in Nat /\ DOMAIN d = 1..Len(d)
      /\ \A i \in DOMAIN d : d[i] \in Target
  BY LenProperties, ElementOfSeq DEF Sound
<1>3. /\ Len(w) \in Nat /\ DOMAIN w = 1..Len(w)
      /\ \A i \in DOMAIN w : w[i] \in Ids
  BY LenProperties, ElementOfSeq
<1>4. /\ c \in Nat /\ DOMAIN f = 1..c
      /\ \A i \in 1..c : f[i] \in kept /\ i <= f[i]
      /\ \A i, j \in 1..c : f[i] = f[j] => i = j
  <2>1. kept \in SUBSET (1..Len(d))
    BY <1>2
  <2>2. PICK K \in SUBSET (1..Len(d)) : K = kept /\ f \in InOrder(K)
    BY <2>1
  <2> HIDE DEF kept
  <2>3. /\ Cardinality(K) \in Nat /\ DOMAIN f = 1..Cardinality(K)
        /\ \A i \in DOMAIN f : f[i] \in K /\ i <= f[i]
        /\ \A i, j \in DOMAIN f : f[i] = f[j] => i = j
    BY <1>2, <2>2, PlacesInOrder
  <2> QED
    BY <2>2, <2>3
<1>5. /\ m \in Nat /\ DOMAIN g = 1..m
      /\ \A i \in 1..m : g[i] \in missing
      /\ \A i, j \in 1..m : g[i] = g[j] => i = j
  <2>1. missing \in SUBSET (1..Len(w))
    BY <1>3
  <2>2. PICK M \in SUBSET (1..Len(w)) : M = missing /\ g \in InOrder(M)
    BY <2>1
  <2> HIDE DEF missing
  <2>3. /\ Cardinality(M) \in Nat /\ DOMAIN g = 1..Cardinality(M)
        /\ \A i \in DOMAIN g : g[i] \in M /\ i <= g[i]
        /\ \A i, j \in DOMAIN g : g[i] = g[j] => i = j
    BY <1>3, <2>2, PlacesInOrder
  <2> QED
    BY <2>2, <2>3
<1>6. MaxTargets \in Nat /\ MaxTargets > 0
  BY SchedulerAssumption
<1>7. ASSUME NEW id \in Ids
      PROVE  /\ NewTarget(id) \in Target /\ Identity(NewTarget(id)) = id /\ Waiting(NewTarget(id))
             /\ NewTarget(id).acct = id[1]
  <2>1. 0 \in 0..MaxFailures /\ 0 \in Deadlines
    BY FailuresAreBounded, DeadlinesReach
  <2> QED
    BY <2>1 DEF NewTarget, Target, Identity, Waiting, Ids
<1> DEFINE x == [i \in 1..c |-> d[f[i]]]
           y == [i \in 1..m |-> NewTarget(w[g[i]])]
<1>8. e = x \o y
  BY <1>1, <1>4, <1>5
<1>9. \A i \in 1..m : g[i] \in DOMAIN w /\ w[g[i]] \in Ids /\ ~Has(d, w[g[i]])
  BY <1>3, <1>5
<1>10. \A i \in 1..c : f[i] \in DOMAIN d /\ Identity(d[f[i]]) \in ToSet(w)
  BY <1>4
<1>11. x \in Seq(Target) /\ Len(x) = c
  BY <1>2, <1>4, <1>10
<1>12. y \in Seq(Target) /\ Len(y) = m
  BY <1>5, <1>7, <1>9
<1> HIDE DEF kept, missing, c, m
<1>13. \A i \in 1..c : x[i] = d[f[i]]
  OBVIOUS
<1>14. \A i \in 1..m : y[i] = NewTarget(w[g[i]])
  OBVIOUS
<1> HIDE DEF x, y
<1>15. /\ e \in Seq(Target) /\ Len(e) = c + m /\ DOMAIN e = 1..(c + m)
       /\ \A q \in 1..(c + m) : e[q] = IF q <= c THEN x[q] ELSE y[q - c]
  <2>1. /\ x \o y \in Seq(Target) /\ Len(x \o y) = Len(x) + Len(y)
        /\ \A q \in 1..(Len(x) + Len(y)) :
              (x \o y)[q] = IF q <= Len(x) THEN x[q] ELSE y[q - Len(x)]
    BY <1>11, <1>12, ConcatProperties
  <2> QED
    BY <1>8, <1>11, <1>12, <2>1, LenProperties
<1> DEFINE kind(q) == q \in 1..c /\ e[q] = d[f[q]]
           fresh(q) == q - c \in 1..m /\ e[q] = NewTarget(w[g[q - c]])
<1>16. ASSUME NEW q \in 1..(c + m)
       PROVE  kind(q) \/ fresh(q)
  <2>1. CASE q <= c
    <3>1. q \in 1..c
      BY <1>4, <2>1
    <3> QED
      BY <1>13, <1>15, <2>1, <3>1
  <2>2. CASE ~(q <= c)
    <3>1. q - c \in 1..m
      BY <1>4, <1>5, <2>2
    <3> QED
      BY <1>14, <1>15, <2>2, <3>1
  <2> QED
    BY <2>1, <2>2
<1> HIDE DEF kind, fresh
<1>17. ASSUME NEW q \in 1..(c + m), kind(q)
       PROVE  /\ e[q] = d[f[q]] /\ f[q] \in DOMAIN d /\ d[f[q]] \in Target /\ q <= f[q]
              /\ f[q] \in 1..Len(d)
              /\ \E k \in DOMAIN w : Identity(e[q]) = w[k] /\ w[k][1] = e[q].acct
  <2>1. q \in 1..c /\ e[q] = d[f[q]]
    BY <1>17 DEF kind
  <2>2. \E k \in DOMAIN w : Identity(e[q]) = w[k]
    BY <1>10, <2>1 DEF ToSet
  <2>3. Identity(e[q])[1] = e[q].acct
    BY DEF Identity
  <2> QED
    BY <1>2, <1>4, <1>10, <2>1, <2>2, <2>3
<1>18. ASSUME NEW q \in 1..(c + m), fresh(q)
       PROVE  \E k \in DOMAIN w : /\ k = g[q - c] /\ w[k] \in Ids /\ ~Has(d, w[k])
                                  /\ Waiting(e[q]) /\ Identity(e[q]) = w[k]
                                  /\ e[q].acct = w[k][1] /\ e[q].acct \in Accounts
  <2>1. q - c \in 1..m /\ e[q] = NewTarget(w[g[q - c]])
    BY <1>18 DEF fresh
  <2>2. PICK k : k = g[q - c]
    OBVIOUS
  <2>3. k \in DOMAIN w /\ w[k] \in Ids /\ ~Has(d, w[k])
    BY <1>9, <2>1, <2>2
  <2>4. w[k][1] \in Accounts
    BY <2>3 DEF Ids
  <2> QED
    BY <1>7, <2>1, <2>2, <2>3, <2>4
(* A target that stays and a new one are not of one account.               *)
<1>19. ASSUME NEW i \in DOMAIN d, Identity(d[i]) \in ToSet(w),
              NEW k \in DOMAIN w, d[i].acct = w[k][1]
       PROVE  Has(d, w[k])
  <2>1. PICK j \in DOMAIN w : Identity(d[i]) = w[j]
    BY <1>19 DEF ToSet
  <2>2. w[j][1] = d[i].acct
    <3>1. Identity(d[i])[1] = d[i].acct
      BY DEF Identity
    <3> QED
      BY <2>1, <3>1
  <2>3. j = k
    BY <1>19, <2>2 DEF Distinct
  <2> QED
    BY <2>1, <2>3 DEF Has, Positions
<1>20. ASSUME NEW q \in 1..(c + m), NEW r \in 1..(c + m), e[q].acct = e[r].acct
       PROVE  q = r
  <2>1. CASE kind(q) /\ kind(r)
    <3>1. f[q] = f[r]
      BY <1>17, <1>20, <2>1 DEF Sound
    <3> QED
      BY <1>4, <2>1, <3>1 DEF kind
  <2>2. CASE fresh(q) /\ fresh(r)
    <3>1. g[q - c] = g[r - c]
      BY <1>18, <1>20, <2>2 DEF Distinct
    <3>2. q - c = r - c
      BY <1>5, <2>2, <3>1 DEF fresh
    <3> QED
      BY <1>4, <3>2
  <2>3. ASSUME NEW u \in 1..(c + m), NEW v \in 1..(c + m), kind(u), fresh(v),
               e[u].acct = e[v].acct
        PROVE  FALSE
    <3>1. f[u] \in DOMAIN d /\ e[u] = d[f[u]] /\ Identity(d[f[u]]) \in ToSet(w)
      BY <1>10, <1>17, <2>3 DEF kind
    <3>2. PICK k \in DOMAIN w : ~Has(d, w[k]) /\ e[v].acct = w[k][1]
      BY <1>18, <2>3
    <3> QED
      BY <1>19, <2>3, <3>1, <3>2
  <2> QED
    BY <1>16, <1>20, <2>1, <2>2, <2>3
<1>21. c + m <= Len(w)
  <2> DEFINE h == [q \in 1..(c + m) |-> CHOOSE k \in DOMAIN w : w[k] = Identity(e[q])]
  <2>1. ASSUME NEW q \in 1..(c + m)
        PROVE  h[q] \in 1..Len(w) /\ w[h[q]] = Identity(e[q])
    <3>1. \E k \in DOMAIN w : w[k] = Identity(e[q])
      BY <1>16, <1>17, <1>18
    <3> QED
      BY <1>3, <3>1
  <2>2. ASSUME NEW q \in 1..(c + m), NEW r \in 1..(c + m), h[q] = h[r]
        PROVE  q = r
    <3>1. Identity(e[q]) = Identity(e[r])
      BY <2>1, <2>2
    <3> QED
      BY <1>20, <3>1 DEF Identity
  <2>3. h \in [1..(c + m) -> 1..Len(w)]
    <3>1. \A q \in 1..(c + m) : h[q] \in 1..Len(w)
      BY <2>1
    <3> QED
      BY <3>1
  <2> HIDE DEF h
  <2>4. h \in Injection(1..(c + m), 1..Len(w))
    BY <2>2, <2>3 DEF Injection, IsInjective
  <2>5. c + m \in Nat
    BY <1>4, <1>5
  <2>6. Cardinality(1..(c + m)) <= Cardinality(1..Len(w))
    BY <1>3, <2>4, IntervalSize, FS_Injection
  <2>7. Cardinality(1..(c + m)) = c + m
    BY <2>5, IntervalSize
  <2> QED
    BY <1>3, <2>6, <2>7, IntervalSize
<1>22. Sound(e)
  <2>1. c + m <= MaxTargets
    BY <1>3, <1>4, <1>5, <1>6, <1>21
  <2> QED
    BY <1>15, <1>20, <2>1 DEF Sound
<1>23. AllWait(e)
  <2>1. ASSUME NEW q \in 1..(c + m)
        PROVE  Waiting(e[q])
    BY <1>16, <1>17, <1>18 DEF AllWait
  <2> QED
    BY <1>15, <2>1 DEF AllWait
<1>24. p2 \in [Accounts -> Nat] /\ \A a \in Accounts : p2[a] < MaxTargets
  BY <1>6
<1>25. ASSUME NEW q \in 1..(c + m)
       PROVE  p2[e[q].acct] + q <= MaxTargets
  <2>1. CASE kind(q)
    <3>1. /\ e[q] = d[f[q]] /\ f[q] \in DOMAIN d /\ d[f[q]] \in Target
          /\ q <= f[q] /\ f[q] \in 1..Len(d)
      BY <1>17, <2>1
    <3>2. e[q].acct \in Accounts
      BY <3>1 DEF Target
    <3>3. p[e[q].acct] + f[q] <= MaxTargets /\ p[e[q].acct] \in Nat
      BY <3>1, <3>2 DEF InTurn
    <3>4. p2[e[q].acct] <= p[e[q].acct] /\ p2[e[q].acct] \in Nat
      BY <3>2, <3>3
    <3>5. q \in Nat /\ f[q] \in Nat
      BY <1>4, <1>5, <3>1
    <3> QED
      BY <1>6, <3>1, <3>3, <3>4, <3>5
  <2>2. CASE fresh(q)
    <3>1. PICK k \in DOMAIN w : /\ ~Has(d, w[k])
                                /\ e[q].acct = w[k][1] /\ e[q].acct \in Accounts
      BY <1>18, <2>2
    <3>2. ~\E i \in DOMAIN d : d[i].acct = e[q].acct /\ Identity(d[i]) \in ToSet(w)
      BY <1>19, <3>1
    <3>3. p2[e[q].acct] = 0
      BY <3>1, <3>2
    <3>4. q <= MaxTargets /\ q \in Nat
      BY <1>3, <1>4, <1>5, <1>6, <1>21
    <3> QED
      BY <3>3, <3>4
  <2> QED
    BY <1>16, <2>1, <2>2
<1> QED
  BY <1>15, <1>22, <1>23, <1>24, <1>25 DEF InTurn

-----------------------------------------------------------------------------
(* The invariant                                                           *)

QueueInv ==
    /\ Sound(deque) /\ passed \in [Accounts -> Nat] /\ InTurn(deque, passed)
    /\ \A a \in Accounts : passed[a] < MaxTargets

(* What is in flight is the turn of the task, and it has just begun.       *)
FlightInv ==
    /\ task.kind = "sync" => Holds(deque, task) /\ passed[task.acct] = 0
    /\ \A i \in DOMAIN deque : ~Waiting(deque[i]) =>
          /\ task.kind = "sync" /\ deque[i].nonce = task.nonce
          /\ Identity(deque[i]) = Identity(task)

TaskTyped ==
    task = NoTask \/ /\ task.kind \in Kinds /\ <<task.acct, task.gen>> \in Ids
                     /\ (task.kind = "sync") = (task.nonce # 0)

LoopTyped ==
    /\ current \in [Accounts -> 0..MaxGen]
    /\ auto \in [state : AutoStates, timer : Deadlines, loaded : Seq(Ids)]
    /\ Distinct(auto.loaded)

FetchTyped == SmallQueue(previews) /\ SmallQueue(histories)

SmallWatches(ws) ==
    /\ ws \subseteq [acct : Accounts, gen : 1..MaxGen, cancelled : BOOLEAN]
    /\ IsFiniteSet(ws) /\ Cardinality(ws) <= MaxQueue

SyncInv ==
    /\ QueueInv /\ FlightInv /\ TaskTyped /\ LoopTyped /\ FetchTyped
    /\ SmallWatches(watches)

LEMMA InvImplies ==
  ASSUME SyncInv
  PROVE  TurnsAreAccounted /\ ServiceIsFair
<1>1. TypeOK
  BY DEF SyncInv, QueueInv, Sound, TaskTyped, LoopTyped, FetchTyped, SmallWatches, TypeOK
<1>2. FlightIsTheTask /\ OneTargetPerAccount
  BY DEF SyncInv, QueueInv, Sound, FlightInv, FlightIsTheTask, OneTargetPerAccount
<1>3. ServiceIsFair
  BY DEF SyncInv, QueueInv, ServiceIsFair
<1> QED
  BY <1>1, <1>2, <1>3 DEF TurnsAreAccounted

-----------------------------------------------------------------------------
(* What a step does with the turn in flight                                *)

LEMMA NothingInFlight ==
  ASSUME SyncInv, task.kind # "sync"
  PROVE  AllWait(deque)
BY DEF SyncInv, FlightInv, AllWait

LEMMA NoTaskIsNoSync == NoTask.kind # "sync" /\ NoTask.kind \notin Kinds
BY DEF NoTask, Kinds

LEMMA TurnStays ==
  ASSUME SyncInv, deque' \in Seq(Target), DOMAIN deque' = DOMAIN deque,
         \A i \in DOMAIN deque : /\ Identity(deque'[i]) = Identity(deque[i])
                                 /\ deque'[i].nonce = deque[i].nonce,
         task' = task, passed' = passed
  PROVE  QueueInv' /\ FlightInv' /\ TaskTyped'
<1>1. QueueInv'
  <2>1. \A i \in DOMAIN deque : deque'[i].acct = deque[i].acct
    BY DEF Identity
  <2>2. Sound(deque') /\ InTurn(deque', passed)
    BY <2>1, SamePlaces DEF SyncInv, QueueInv
  <2> QED
    BY <2>2 DEF SyncInv, QueueInv
<1>2. FlightInv'
  BY DEF SyncInv, FlightInv, Holds, Waiting, Identity
<1> QED
  BY <1>1, <1>2 DEF SyncInv, TaskTyped

LEMMA TurnIsOver ==
  ASSUME AllWait(deque'), task'.kind # "sync"
  PROVE  FlightInv'
BY DEF FlightInv, AllWait, Waiting

LEMMA TurnHasBegun ==
  ASSUME NEW t \in Target, t.nonce # 0, InFlightAlone(deque', t),
         NEW u, task' = Task("sync", u, Identity(t), t.nonce), passed'[t.acct] = 0
  PROVE  FlightInv' /\ TaskTyped'
<1>1. /\ task'.kind = "sync" /\ task'.acct = t.acct /\ task'.gen = t.gen
      /\ task'.nonce = t.nonce
  BY DEF Task, Identity
<1>2. <<t.acct, t.gen>> \in Ids
  BY DEF Target, Ids
<1>3. TaskTyped'
  BY <1>1, <1>2 DEF TaskTyped, Kinds
<1>4. FlightInv'
  BY <1>1 DEF FlightInv, InFlightAlone, Holds, Identity
<1> QED
  BY <1>3, <1>4

LEMMA OtherTask ==
  ASSUME NEW kind \in Kinds \ {"sync"}, NEW u, NEW id \in Ids, task' = Task(kind, u, id, 0)
  PROVE  TaskTyped' /\ task'.kind # "sync"
<1>1. task'.kind = kind /\ task'.acct = id[1] /\ task'.gen = id[2] /\ task'.nonce = 0
  BY DEF Task
<1>2. <<id[1], id[2]>> \in Ids
  BY DEF Ids
<1> QED
  BY <1>1, <1>2 DEF TaskTyped

(* What complete leaves, whether a turn was in flight or not.              *)
LEMMA CompletedSafe ==
  ASSUME SyncInv, NEW ok \in BOOLEAN,
         NEW e, e = IF task.kind = "sync" THEN Complete(deque, task, ok) ELSE deque
  PROVE  Sound(e) /\ AllWait(e) /\ InTurn(e, passed)
<1>1. CASE task.kind = "sync"
  <2>1. /\ Sound(deque) /\ Holds(deque, task) /\ passed[task.acct] = 0
        /\ passed \in [Accounts -> Nat] /\ InTurn(deque, passed)
        /\ \A i \in DOMAIN deque :
              ~Waiting(deque[i]) => Identity(deque[i]) = Identity(task)
    BY <1>1 DEF SyncInv, QueueInv, FlightInv
  <2> QED
    BY <1>1, <2>1, TurnEnds
<1>2. CASE task.kind # "sync"
  BY <1>2, NothingInFlight DEF SyncInv, QueueInv
<1> QED
  BY <1>1, <1>2

LEMMA ReleasedSafe ==
  ASSUME SyncInv
  PROVE  Sound(Released) /\ AllWait(Released) /\ InTurn(Released, passed)
BY CompletedSafe DEF Released

-----------------------------------------------------------------------------
(* The queues of fetches and the watches                                   *)

LEMMA EnqueuedSmall ==
  ASSUME NEW q, SmallQueue(q), NEW id \in Ids
  PROVE  SmallQueue(Enqueued(q, id))
<1>1. /\ q \in Seq(Ids) /\ Len(q) \in Nat /\ DOMAIN q = 1..Len(q) /\ Len(q) <= MaxQueue
      /\ \A i, j \in 1..Len(q) : q[i] = q[j] => i = j
  BY LenProperties DEF SmallQueue, IsInjective
<1>2. MaxQueue \in Nat /\ MaxQueue >= 1
  BY AutoSyncAssumption
<1>3. CASE Contains(q, id)
  BY <1>3 DEF Enqueued
<1>4. CASE ~Contains(q, id)
  <2> DEFINE r == IF Len(q) = MaxQueue THEN Front(q) ELSE q
  <2>1. /\ r \in Seq(Ids) /\ Len(r) \in Nat /\ Len(r) + 1 <= MaxQueue /\ Len(r) <= Len(q)
        /\ \A i \in 1..Len(r) : i \in 1..Len(q) /\ r[i] = q[i]
    <3>1. CASE Len(q) = MaxQueue
      <4>1. /\ Front(q) \in Seq(Ids) /\ Len(Front(q)) = Len(q) - 1
            /\ \A i \in 1..(Len(q) - 1) : Front(q)[i] = q[i]
        <5>1. \A i \in 1..(Len(q) - 1) : q[i] \in Ids
          BY <1>1
        <5> QED
          BY <1>1, <1>2, <3>1, <5>1, SubSeqProperties DEF Front
      <4> QED
        BY <1>1, <1>2, <3>1, <4>1
    <3>2. CASE Len(q) # MaxQueue
      <4>1. r = q
        BY <3>2
      <4>2. Len(q) + 1 <= MaxQueue
        <5>1. \A u, v \in Nat : u <= v /\ u # v => u + 1 <= v
          OBVIOUS
        <5> QED
          BY <1>1, <1>2, <3>2, <5>1
      <4> HIDE DEF r
      <4> QED
        BY <1>1, <4>1, <4>2
    <3> QED
      BY <3>1, <3>2
  <2> HIDE DEF r
  <2>2. PICK s : s = Append(r, id)
    OBVIOUS
  <2>3. /\ s \in Seq(Ids) /\ Len(s) = Len(r) + 1 /\ s[Len(r) + 1] = id
        /\ \A i \in 1..Len(r) : s[i] = r[i]
    BY <2>1, <2>2, AppendProperties
  <2>4. \A i \in 1..Len(r) : s[i] = q[i] /\ s[i] # id /\ i \in 1..Len(q)
    BY <1>4, <2>1, <2>3 DEF Contains
  <2>5. PICK n \in Nat : n = Len(r)
    BY <2>1
  <2>6. \A i \in 1..(n + 1) : i = n + 1 \/ i \in 1..n
    OBVIOUS
  <2>7. DOMAIN s = 1..(n + 1)
    BY <2>3, <2>5, LenProperties
  <2>8. IsInjective(s)
    BY <1>1, <2>3, <2>4, <2>5, <2>6, <2>7 DEF IsInjective
  <2>9. Enqueued(q, id) = s
    BY <1>4, <2>2 DEF Enqueued, r
  <2> QED
    BY <2>1, <2>3, <2>8, <2>9 DEF SmallQueue
<1> QED
  BY <1>3, <1>4

LEMMA TailSmall ==
  ASSUME NEW q, SmallQueue(q), q # <<>>
  PROVE  Head(q) \in Ids /\ SmallQueue(Tail(q))
<1>1. /\ q \in Seq(Ids) /\ Len(q) \in Nat /\ DOMAIN q = 1..Len(q) /\ Len(q) <= MaxQueue
      /\ \A i, j \in 1..Len(q) : q[i] = q[j] => i = j
  BY LenProperties DEF SmallQueue, IsInjective
<1>2. PICK s : s = Tail(q)
  OBVIOUS
<1>3. /\ Head(q) \in Ids /\ s \in Seq(Ids) /\ Len(s) = Len(q) - 1
      /\ \A i \in 1..Len(s) : s[i] = q[i + 1]
  BY <1>1, <1>2, HeadTailProperties
<1>4. DOMAIN s = 1..Len(s) /\ Len(s) \in Nat
  BY <1>3, LenProperties
<1>5. IsInjective(s)
  <2>1. \A i \in 1..Len(s) : i + 1 \in 1..Len(q)
    BY <1>1, <1>3
  <2>2. \A i, j \in 1..Len(s) : i + 1 = j + 1 => i = j
    BY <1>4
  <2> QED
    BY <1>1, <1>3, <1>4, <2>1, <2>2 DEF IsInjective
<1>6. Len(s) <= MaxQueue
  <2>1. MaxQueue \in Nat
    BY AutoSyncAssumption
  <2> QED
    BY <1>1, <1>3, <2>1
<1> QED
  BY <1>2, <1>3, <1>5, <1>6 DEF SmallQueue

LEMMA FewerWatches ==
  ASSUME NEW ws, SmallWatches(ws), NEW less \in SUBSET ws
  PROVE  SmallWatches(less)
<1>1. IsFiniteSet(less) /\ Cardinality(less) <= Cardinality(ws)
  BY FS_Subset DEF SmallWatches
<1>2. Cardinality(less) \in Nat /\ Cardinality(ws) \in Nat /\ MaxQueue \in Nat
  BY <1>1, FS_CardinalityType, AutoSyncAssumption DEF SmallWatches
<1> QED
  BY <1>1, <1>2 DEF SmallWatches

LEMMA CancelledStays ==
  ASSUME SmallWatches(watches), NEW id, CancelWatch(id)
  PROVE  SmallWatches(watches')
<1> DEFINE Off(w) == [w EXCEPT !.cancelled = TRUE]
           h == [w \in watches |-> IF w \in WatchesOf(id) THEN Off(w) ELSE w]
<1>1. watches' = (watches \ WatchesOf(id)) \cup {Off(w) : w \in WatchesOf(id)}
  BY DEF CancelWatch
<1>2. WatchesOf(id) \subseteq watches
  BY DEF WatchesOf
<1>3. h \in Surjection(watches, watches')
  BY <1>1, <1>2 DEF Surjection
<1>4. IsFiniteSet(watches') /\ Cardinality(watches') <= Cardinality(watches)
  BY <1>3, FS_Surjection DEF SmallWatches
<1>5. ASSUME NEW w \in watches'
      PROVE  w \in [acct : Accounts, gen : 1..MaxGen, cancelled : BOOLEAN]
  <2>1. PICK v \in watches : w = v \/ w = Off(v)
    BY <1>1, <1>2
  <2>2. v \in [acct : Accounts, gen : 1..MaxGen, cancelled : BOOLEAN]
    BY DEF SmallWatches
  <2> QED
    BY <2>1, <2>2
<1>6. /\ Cardinality(watches') \in Nat /\ Cardinality(watches) \in Nat
      /\ MaxQueue \in Nat
  BY <1>4, FS_CardinalityType, AutoSyncAssumption DEF SmallWatches
<1> QED
  BY <1>4, <1>5, <1>6 DEF SmallWatches

LEMMA RegisteredSmall ==
  ASSUME SmallWatches(watches), NEW id \in Ids
  PROVE  SmallWatches(Registered(id))
<1>1. PICK others : others = watches \ WatchesOf(id)
  OBVIOUS
<1>2. SmallWatches(others)
  BY <1>1, FewerWatches
<1>3. CASE Cardinality(others) = MaxQueue
  BY <1>1, <1>2, <1>3 DEF Registered
<1>4. CASE Cardinality(others) # MaxQueue
  <2>1. Registered(id) = others \cup {Watch(id)}
    BY <1>1, <1>4 DEF Registered
  <2>2. Watch(id) \in [acct : Accounts, gen : 1..MaxGen, cancelled : BOOLEAN]
    BY DEF Watch, Ids
  <2>3. /\ IsFiniteSet(Registered(id))
        /\ Cardinality(Registered(id)) =
              IF Watch(id) \in others THEN Cardinality(others) ELSE Cardinality(others) + 1
    BY <1>2, <2>1, FS_AddElement DEF SmallWatches
  <2>4. Cardinality(others) \in Nat /\ MaxQueue \in Nat /\ Cardinality(others) <= MaxQueue
    BY <1>2, FS_CardinalityType, AutoSyncAssumption DEF SmallWatches
  <2>5. Cardinality(Registered(id)) <= MaxQueue
    BY <1>4, <2>3, <2>4
  <2> QED
    BY <1>2, <2>1, <2>2, <2>3, <2>5 DEF SmallWatches
<1> QED
  BY <1>3, <1>4

-----------------------------------------------------------------------------
(* The loop                                                                *)

LEMMA AutoTyped ==
  ASSUME NEW state \in AutoStates
  PROVE  /\ AutoState(state) \in [state : AutoStates, timer : Deadlines, loaded : Seq(Ids)]
         /\ Distinct(AutoState(state).loaded)
<1>1. 0 \in Deadlines
  BY DeadlinesReach
<1> QED
  BY <1>1 DEF AutoState, Distinct

(* load_sync_targets names an account once, by its current generation.     *)
LEMMA CandidatesAreDistinct ==
  ASSUME LoopTyped
  PROVE  SyncTargets \in Seq(Ids) /\ Distinct(SyncTargets)
<1> DEFINE active == {a \in Accounts : current[a] > 0}
           order == SetToSeq(active)
           n == Cardinality(active)
<1>1. IsFiniteSet(active)
  BY FS_Subset, SchedulerAssumption
<1>2. n \in Nat
  BY <1>1, FS_CardinalityType
<1>3. order \in [1..n -> active] /\ IsInjective(order)
  <2>1. PICK f : f \in Bijection(1..n, active)
    BY <1>1, FS_CardinalityType DEF ExistsBijection
  <2>2. f \in [1..n -> active] /\ IsInjective(f)
    BY <2>1 DEF Bijection, Injection, IsInjective
  <2> HIDE DEF active
  <2> QED
    BY <2>2 DEF SetToSeq
<1>4. SyncTargets = [i \in DOMAIN order |-> <<order[i], current[order[i]]>>]
  BY DEF SyncTargets
<1> HIDE DEF order, n
<1>5. DOMAIN order = 1..n /\ \A i \in 1..n : order[i] \in active
  BY <1>3
<1>6. ASSUME NEW i \in 1..n
      PROVE  <<order[i], current[order[i]]>> \in Ids
  <2>1. PICK a \in Accounts : a = order[i] /\ current[a] > 0
    BY <1>5
  <2>2. current[a] \in 0..MaxGen /\ MaxGen \in Nat
    BY AutoSyncAssumption DEF LoopTyped
  <2> QED
    BY <2>1, <2>2 DEF Ids
<1> HIDE DEF active
<1>7. SyncTargets = [i \in 1..n |-> <<order[i], current[order[i]]>>]
  BY <1>4, <1>5
<1>8. SyncTargets \in Seq(Ids)
  <2>1. SyncTargets \in [1..n -> Ids]
    BY <1>6, <1>7
  <2> QED
    BY <1>2, <2>1
<1>9. Distinct(SyncTargets)
  BY <1>3, <1>5, <1>7 DEF Distinct, IsInjective
<1> QED
  BY <1>8, <1>9

LEMMA TimesAreNumbers ==
  ASSUME Sound(deque), WakeDeadlines(deque) # {}
  PROVE  Min(WakeDeadlines(deque)) \in Deadlines
<1>1. ASSUME NEW d \in WakeDeadlines(deque)
      PROVE  d \in Deadlines
  <2>1. PICK i \in DOMAIN deque : d = deque[i].due
    BY DEF WakeDeadlines
  <2>2. deque[i] \in Target
    BY <2>1, LenProperties, ElementOfSeq DEF Sound
  <2> QED
    BY <2>1, <2>2 DEF Target
<1>2. WakeDeadlines(deque) \in SUBSET Nat
  BY <1>1, DeadlinesReach
<1>3. Min(WakeDeadlines(deque)) \in WakeDeadlines(deque)
  BY <1>2, HasLeast
<1> QED
  BY <1>1, <1>3

LEMMA QuietSafe ==
  ASSUME SyncInv, UNCHANGED <<deque, task, passed>>
  PROVE  QueueInv' /\ FlightInv' /\ TaskTyped'
<1>1. deque \in Seq(Target)
  BY DEF SyncInv, QueueInv, Sound
<1> QED
  BY <1>1, TurnStays

LEMMA SubmitTargetsSafe ==
  ASSUME SyncInv, SubmitTargets
  PROVE  SyncInv'
<1>1. /\ auto' = [AutoState("loading") EXCEPT !.loaded = SyncTargets]
      /\ UNCHANGED <<current, deque, task, previews, histories, watches, ops, passed>>
  BY DEF SubmitTargets
<1>2. LoopTyped'
  <2>1. SyncTargets \in Seq(Ids) /\ Distinct(SyncTargets)
    BY CandidatesAreDistinct DEF SyncInv
  <2>2. AutoState("loading") \in [state : AutoStates, timer : Deadlines, loaded : Seq(Ids)]
    BY AutoTyped DEF AutoStates
  <2>3. /\ auto' \in [state : AutoStates, timer : Deadlines, loaded : Seq(Ids)]
        /\ auto'.loaded = SyncTargets
    BY <1>1, <2>1, <2>2
  <2> QED
    BY <1>1, <2>1, <2>3 DEF SyncInv, LoopTyped
<1> QED
  BY <1>1, <1>2, QuietSafe DEF SyncInv, FetchTyped

LEMMA LoadTargetsSafe ==
  ASSUME SyncInv, LoadTargets
  PROVE  SyncInv'
<1>1. task = NoTask /\ UNCHANGED <<current, task, previews, histories, ops>>
  BY DEF LoadTargets, SlotFree
<1>2. FetchTyped' /\ TaskTyped'
  BY <1>1 DEF SyncInv, FetchTyped, TaskTyped
<1>3. \A state \in AutoStates : auto' = AutoState(state) => LoopTyped'
  BY <1>1, AutoTyped DEF SyncInv, LoopTyped
<1>4. CASE Len(auto.loaded) > MaxTargets
  <2>1. auto' = AutoState("paused") /\ UNCHANGED <<deque, watches, passed>>
    BY <1>4 DEF LoadTargets
  <2> QED
    BY <1>1, <1>2, <1>3, <2>1, QuietSafe DEF SyncInv, AutoStates
<1>5. CASE ~(Len(auto.loaded) > MaxTargets)
  <2>1. PICK w : w = auto.loaded
    OBVIOUS
  <2>2. /\ auto' = AutoState("ready") /\ deque' \in ReplaceTargets(deque, w)
        /\ watches' = {v \in watches : <<v.acct, v.gen>> \in ToSet(w)}
        /\ passed' = [a \in Accounts |->
             IF \E i \in DOMAIN deque : deque[i].acct = a /\ Identity(deque[i]) \in ToSet(w)
             THEN passed[a] ELSE 0]
    BY <1>5, <2>1 DEF LoadTargets
  <2>3. w \in Seq(Ids) /\ Len(w) <= MaxTargets /\ Distinct(w)
    <3>1. w \in Seq(Ids) /\ Distinct(w) /\ Len(w) \in Nat
      BY <2>1, LenProperties DEF SyncInv, LoopTyped
    <3>2. MaxTargets \in Nat
      BY SchedulerAssumption
    <3> QED
      BY <1>5, <2>1, <3>1, <3>2
  <2>4. AllWait(deque)
    BY <1>1, NothingInFlight, NoTaskIsNoSync
  <2>5. /\ Sound(deque') /\ AllWait(deque') /\ passed' \in [Accounts -> Nat]
        /\ InTurn(deque', passed') /\ \A a \in Accounts : passed'[a] < MaxTargets
    <3>1. /\ Sound(deque) /\ passed \in [Accounts -> Nat] /\ InTurn(deque, passed)
          /\ \A a \in Accounts : passed[a] < MaxTargets
      BY DEF SyncInv, QueueInv
    <3>2. PICK d, e, p, p2 : d = deque /\ e = deque' /\ p = passed /\ p2 = passed'
      OBVIOUS
    <3>3. Sound(e) /\ AllWait(e) /\ p2 \in [Accounts -> Nat] /\ InTurn(e, p2)
          /\ \A a \in Accounts : p2[a] < MaxTargets
      BY <2>2, <2>3, <2>4, <3>1, <3>2, TargetsAreReplaced
    <3> QED
      BY <3>2, <3>3
  <2>6. FlightInv'
    BY <1>1, <2>5, TurnIsOver, NoTaskIsNoSync
  <2>7. SmallWatches(watches')
    BY <2>2, FewerWatches DEF SyncInv
  <2>8. QueueInv'
    BY <2>5 DEF QueueInv
  <2>9. LoopTyped'
    BY <1>3, <2>2 DEF AutoStates
  <2> QED
    BY <1>2, <2>6, <2>7, <2>8, <2>9 DEF SyncInv
<1> QED
  BY <1>4, <1>5

LEMMA TakeTurnSafe ==
  ASSUME SyncInv, TakeTurn
  PROVE  SyncInv'
<1>1. /\ task = NoTask /\ SomeDue(deque) /\ deque' = TakeNext(deque)
      /\ UNCHANGED <<current, auto, previews, histories, watches, ops>>
  BY DEF TakeTurn, SlotFree
<1>2. PICK t : t = deque[FirstDue(deque)]
  OBVIOUS
<1>3. PICK n : n = FreshNonce(deque)
  OBVIOUS
<1>4. /\ task' = Task("sync", FALSE, Identity(t), n)
      /\ passed' = [a \in Accounts |->
            IF a = t.acct THEN 0
            ELSE passed[a] + (IF \E i \in DOMAIN deque :
                                   deque[i].acct = a /\ Due(deque[i])
                              THEN 1 ELSE 0)]
  BY <1>2, <1>3 DEF TakeTurn
<1>5. AllWait(deque)
  BY <1>1, NothingInFlight, NoTaskIsNoSync
<1>6. /\ t \in Target /\ n \in Nonces /\ n # 0
      /\ Sound(deque') /\ InFlightAlone(deque', InFlight(t, n))
      /\ passed' \in [Accounts -> Nat] /\ InTurn(deque', passed') /\ passed'[t.acct] = 0
      /\ \A a \in Accounts : passed'[a] < MaxTargets
  <2>1. /\ Sound(deque) /\ passed \in [Accounts -> Nat] /\ InTurn(deque, passed)
        /\ \A a \in Accounts : passed[a] < MaxTargets
    BY DEF SyncInv, QueueInv
  <2>2. PICK d, p, p2 : d = deque /\ p = passed /\ p2 = passed'
    OBVIOUS
  <2>3. /\ t \in Target /\ FreshNonce(d) \in Nonces \ {0}
        /\ Sound(TakeNext(d))
        /\ InFlightAlone(TakeNext(d), InFlight(t, FreshNonce(d)))
        /\ p2 \in [Accounts -> Nat] /\ InTurn(TakeNext(d), p2) /\ p2[t.acct] = 0
        /\ \A a \in Accounts : p2[a] < MaxTargets
    BY <1>1, <1>2, <1>4, <1>5, <2>1, <2>2, TurnBegins
  <2> QED
    BY <1>1, <1>3, <2>2, <2>3
<1>7. PICK u : u = InFlight(t, n)
  OBVIOUS
<1>8. u \in Target /\ u.nonce = n /\ Identity(u) = Identity(t) /\ u.acct = t.acct
  BY <1>6, <1>7 DEF InFlight, Target, Identity
<1>9. FlightInv' /\ TaskTyped'
  BY <1>4, <1>6, <1>7, <1>8, TurnHasBegun
<1>10. QueueInv'
  BY <1>6 DEF QueueInv
<1> QED
  BY <1>1, <1>9, <1>10 DEF SyncInv, LoopTyped, FetchTyped

LEMMA AwaitDeadlineSafe ==
  ASSUME SyncInv, AwaitDeadline
  PROVE  SyncInv'
<1>1. /\ WakeDeadlines(deque) # {}
      /\ auto' = [AutoState("deadline") EXCEPT !.timer = Min(WakeDeadlines(deque))]
      /\ UNCHANGED <<current, deque, task, previews, histories, watches, ops, passed>>
  BY DEF AwaitDeadline
<1>2. LoopTyped'
  <2>1. /\ AutoState("deadline") \in [state : AutoStates, timer : Deadlines, loaded : Seq(Ids)]
        /\ Distinct(AutoState("deadline").loaded)
    BY AutoTyped DEF AutoStates
  <2>2. Min(WakeDeadlines(deque)) \in Deadlines
    BY <1>1, TimesAreNumbers DEF SyncInv, QueueInv
  <2> QED
    BY <1>1, <2>1, <2>2 DEF SyncInv, LoopTyped
<1> QED
  BY <1>1, <1>2, QuietSafe DEF SyncInv, FetchTyped

LEMMA TimerFiresSafe ==
  ASSUME SyncInv, TimerFires
  PROVE  SyncInv'
<1>1. /\ auto' = AutoState("ready")
      /\ UNCHANGED <<current, deque, task, previews, histories, watches, ops, passed>>
  BY DEF TimerFires
<1>2. LoopTyped'
  BY <1>1, AutoTyped DEF SyncInv, LoopTyped, AutoStates
<1> QED
  BY <1>1, <1>2, QuietSafe DEF SyncInv, FetchTyped

LEMMA StartFetchSafe ==
  ASSUME SyncInv, NEW kind \in Kinds \ {"sync"}, NEW queue, SmallQueue(queue),
         StartFetch(kind, queue), UNCHANGED <<deque, passed>>
  PROVE  QueueInv' /\ FlightInv' /\ TaskTyped' /\ SmallQueue(Tail(queue))
<1>1. task = NoTask /\ queue # <<>> /\ task' = Task(kind, FALSE, Head(queue), 0)
  BY DEF StartFetch, SlotFree
<1>2. Head(queue) \in Ids /\ SmallQueue(Tail(queue))
  BY <1>1, TailSmall
<1>3. TaskTyped' /\ task'.kind # "sync"
  BY <1>1, <1>2, OtherTask
<1>4. AllWait(deque')
  BY <1>1, NothingInFlight, NoTaskIsNoSync
<1>5. FlightInv'
  BY <1>3, <1>4, TurnIsOver
<1>6. QueueInv'
  BY DEF SyncInv, QueueInv
<1> QED
  BY <1>2, <1>3, <1>5, <1>6

LEMMA StartPreviewSafe ==
  ASSUME SyncInv, StartPreview
  PROVE  SyncInv'
<1>1. /\ StartFetch("preview", previews) /\ previews' = Tail(previews)
      /\ UNCHANGED <<current, deque, auto, histories, watches, ops, passed>>
  BY DEF StartPreview
<1>2. QueueInv' /\ FlightInv' /\ TaskTyped' /\ SmallQueue(Tail(previews))
  BY <1>1, StartFetchSafe DEF SyncInv, FetchTyped, Kinds
<1> QED
  BY <1>1, <1>2 DEF SyncInv, FetchTyped, LoopTyped

LEMMA StartHistorySafe ==
  ASSUME SyncInv, StartHistory
  PROVE  SyncInv'
<1>1. /\ StartFetch("history", histories) /\ histories' = Tail(histories)
      /\ UNCHANGED <<current, deque, auto, previews, watches, ops, passed>>
  BY DEF StartHistory
<1>2. QueueInv' /\ FlightInv' /\ TaskTyped' /\ SmallQueue(Tail(histories))
  BY <1>1, StartFetchSafe DEF SyncInv, FetchTyped, Kinds
<1> QED
  BY <1>1, <1>2 DEF SyncInv, FetchTyped, LoopTyped

-----------------------------------------------------------------------------
(* The user                                                                *)

LEMMA StartUserSafe ==
  ASSUME SyncInv, StartUser
  PROVE  FetchTyped' /\ LoopTyped'
<1>1. UNCHANGED <<current, auto>> /\ Interrupted
  BY DEF StartUser
<1>2. task.kind \in {"preview", "history"} => Identity(task) \in Ids
  BY NoTaskIsNoSync DEF SyncInv, TaskTyped, NoTask, Identity
<1>3. FetchTyped'
  BY <1>1, <1>2, EnqueuedSmall DEF SyncInv, FetchTyped, Interrupted
<1> QED
  BY <1>1, <1>3 DEF SyncInv, LoopTyped

LEMMA SyncInboxSafe ==
  ASSUME SyncInv, NEW id \in Ids, SyncInbox(id)
  PROVE  SyncInv'
<1>1. StartUser /\ CancelWatch(id)
  BY DEF SyncInbox
<1>2. FetchTyped' /\ LoopTyped' /\ SmallWatches(watches')
  BY <1>1, StartUserSafe, CancelledStays DEF SyncInv
<1>3. PICK d : d = Released
  OBVIOUS
<1>4. Sound(d) /\ AllWait(d) /\ InTurn(d, passed)
  BY <1>3, ReleasedSafe
<1>5. PICK a \in Accounts, g \in 1..MaxGen : id = <<a, g>>
  BY DEF Ids
<1>6. passed \in [Accounts -> Nat] /\ \A b \in Accounts : passed[b] < MaxTargets
  BY DEF SyncInv, QueueInv
<1>7. CASE ManualBusy(d, a, g) \/ ManualTooMany(d, a)
  <2>1. task' = NoTask /\ deque' = d /\ passed' = passed
    BY <1>3, <1>5, <1>7 DEF SyncInbox
  <2>2. FlightInv' /\ TaskTyped'
    BY <1>4, <2>1, TurnIsOver, NoTaskIsNoSync DEF TaskTyped
  <2>3. QueueInv'
    BY <1>4, <1>6, <2>1 DEF QueueInv
  <2> QED
    BY <1>2, <2>2, <2>3 DEF SyncInv
<1>8. CASE ~(ManualBusy(d, a, g) \/ ManualTooMany(d, a))
  <2>1. /\ task' = Task("sync", TRUE, <<a, g>>, FreshNonce(d))
        /\ deque' = TakeManual(d, a, g)
        /\ passed' = [passed EXCEPT ![a] = 0]
    BY <1>3, <1>5, <1>8 DEF SyncInbox
  <2>2. PICK p : p = passed'
    OBVIOUS
  <2>3. /\ p \in [Accounts -> Nat] /\ p[a] = 0
        /\ \A b \in Accounts : p[b] <= passed[b] /\ p[b] < MaxTargets
    <3>1. MaxTargets \in Nat /\ 0 < MaxTargets
      BY SchedulerAssumption
    <3>2. \A b \in Accounts : passed[b] \in Nat /\ p[b] = IF b = a THEN 0 ELSE passed[b]
      BY <1>6, <2>1, <2>2
    <3>3. p \in [Accounts -> Nat]
      BY <1>6, <2>1, <2>2
    <3> QED
      BY <1>6, <3>1, <3>2, <3>3
  <2>4. InTurn(d, p)
    <3>1. ASSUME NEW i \in DOMAIN d
          PROVE  p[d[i].acct] + i <= MaxTargets
      <4>1. d[i].acct \in Accounts /\ i \in Nat
        <5>1. d[i] \in Target /\ i \in 1..Len(d)
          BY <1>4, LenProperties, ElementOfSeq DEF Sound
        <5> QED
          BY <5>1 DEF Target
      <4>2. passed[d[i].acct] + i <= MaxTargets
        BY <1>4 DEF InTurn
      <4>3. /\ passed[d[i].acct] \in Nat /\ p[d[i].acct] \in Nat /\ MaxTargets \in Nat
            /\ p[d[i].acct] <= passed[d[i].acct]
        BY <1>6, <2>3, <4>1, SchedulerAssumption
      <4> QED
        BY <4>1, <4>2, <4>3
    <3> QED
      BY <3>1 DEF InTurn
  <2>5. /\ FreshNonce(d) \in Nonces \ {0} /\ Sound(deque') /\ InTurn(deque', p)
        /\ \E t \in Target : /\ Identity(t) = <<a, g>> /\ t.nonce = FreshNonce(d)
                             /\ InFlightAlone(deque', t)
    BY <1>4, <1>8, <2>1, <2>3, <2>4, ManualTurnBegins
  <2>6. PICK t \in Target : /\ Identity(t) = <<a, g>> /\ t.nonce = FreshNonce(d)
                            /\ InFlightAlone(deque', t)
    BY <2>5
  <2>7. t.acct = a
    BY <2>6 DEF Identity
  <2>8. FlightInv' /\ TaskTyped'
    BY <2>1, <2>2, <2>3, <2>5, <2>6, <2>7, TurnHasBegun
  <2>9. QueueInv'
    BY <2>2, <2>3, <2>5 DEF QueueInv
  <2> QED
    BY <1>2, <2>8, <2>9 DEF SyncInv
<1> QED
  BY <1>7, <1>8

LEMMA OtherOperationSafe ==
  ASSUME SyncInv, NEW kind \in {"content", "account"}, NEW id \in Ids,
         StartUser, task' = Task(kind, TRUE, id, 0), deque' = Released,
         passed' = passed, SmallWatches(watches')
  PROVE  SyncInv'
<1>1. FetchTyped' /\ LoopTyped'
  BY StartUserSafe
<1>2. Sound(deque') /\ AllWait(deque') /\ InTurn(deque', passed)
  BY ReleasedSafe
<1>3. TaskTyped' /\ task'.kind # "sync"
  BY OtherTask DEF Kinds
<1>4. FlightInv'
  BY <1>2, <1>3, TurnIsOver
<1>5. QueueInv'
  BY <1>2 DEF SyncInv, QueueInv
<1> QED
  BY <1>1, <1>3, <1>4, <1>5 DEF SyncInv

LEMMA FetchContentSafe ==
  ASSUME SyncInv, NEW id \in Ids, FetchContent(id)
  PROVE  SyncInv'
<1>1. SmallWatches(watches')
  BY CancelledStays DEF SyncInv, FetchContent
<1> QED
  BY <1>1, OtherOperationSafe DEF FetchContent

LEMMA StartAccountOperationSafe ==
  ASSUME SyncInv, NEW id \in Ids, StartAccountOperation(id)
  PROVE  SyncInv'
<1>1. SmallWatches(watches')
  BY DEF SyncInv, StartAccountOperation
<1> QED
  BY <1>1, OtherOperationSafe DEF StartAccountOperation

LEMMA AccountOperationEndsSafe ==
  ASSUME SyncInv, AccountOperationEnds
  PROVE  SyncInv'
<1>1. /\ task.kind = "account" /\ task' = NoTask
      /\ UNCHANGED <<deque, previews, histories, watches, ops, passed>>
      /\ \/ /\ \E g \in 0..MaxGen : current' = [current EXCEPT ![task.acct] = g]
            /\ auto' = AutoState("submit")
         \/ UNCHANGED <<current, auto>>
  BY DEF AccountOperationEnds
<1>2. LoopTyped'
  BY <1>1, AutoTyped DEF SyncInv, LoopTyped, AutoStates
<1>3. AllWait(deque') /\ task'.kind # "sync"
  BY <1>1, NothingInFlight, NoTaskIsNoSync
<1>4. FlightInv' /\ TaskTyped'
  BY <1>1, <1>3, TurnIsOver DEF TaskTyped
<1> QED
  BY <1>1, <1>2, <1>4 DEF SyncInv, QueueInv, FetchTyped

-----------------------------------------------------------------------------
(* The end of a fetch                                                      *)

LEMMA TaskIdentity ==
  ASSUME SyncInv, task.kind \in Kinds
  PROVE  Identity(task) \in Ids
BY NoTaskIsNoSync DEF SyncInv, TaskTyped, Identity

LEMMA TurnEnded ==
  ASSUME SyncInv, NEW ok \in BOOLEAN, task' = NoTask, passed' = passed,
         deque' = IF task.kind = "sync" THEN Complete(deque, task, ok) ELSE deque
  PROVE  QueueInv' /\ FlightInv' /\ TaskTyped'
<1>1. Sound(deque') /\ AllWait(deque') /\ InTurn(deque', passed)
  BY CompletedSafe
<1>2. FlightInv' /\ TaskTyped'
  BY <1>1, TurnIsOver, NoTaskIsNoSync DEF TaskTyped
<1>3. QueueInv'
  BY <1>1 DEF SyncInv, QueueInv
<1> QED
  BY <1>2, <1>3

LEMMA SyncSucceedsSafe ==
  ASSUME SyncInv, NEW more \in BOOLEAN, NEW historical \in BOOLEAN,
         SyncSucceeds(more, historical)
  PROVE  SyncInv'
<1>1. /\ task.kind \in {"sync", "history"} /\ task' = NoTask
      /\ deque' = IF task.kind = "sync" THEN Complete(deque, task, TRUE) ELSE deque
      /\ previews' = Enqueued(previews, Identity(task))
      /\ histories' = IF more THEN Enqueued(histories, Identity(task)) ELSE histories
      /\ watches' = IF historical /\ more THEN watches ELSE Registered(Identity(task))
      /\ UNCHANGED <<current, auto, ops, passed>>
  BY DEF SyncSucceeds
<1>2. Identity(task) \in Ids
  BY <1>1, TaskIdentity DEF Kinds
<1>3. QueueInv' /\ FlightInv' /\ TaskTyped'
  BY <1>1, TurnEnded
<1>4. FetchTyped'
  BY <1>1, <1>2, EnqueuedSmall DEF SyncInv, FetchTyped
<1>5. SmallWatches(watches')
  BY <1>1, <1>2, RegisteredSmall DEF SyncInv
<1> QED
  BY <1>1, <1>3, <1>4, <1>5 DEF SyncInv, LoopTyped

LEMMA OtherEndSafe ==
  ASSUME SyncInv, task.kind # "sync", task' = NoTask,
         UNCHANGED <<deque, passed>>
  PROVE  QueueInv' /\ FlightInv' /\ TaskTyped'
BY TurnEnded

LEMMA PreviewsFetchedSafe ==
  ASSUME SyncInv, NEW more \in BOOLEAN, PreviewsFetched(more)
  PROVE  SyncInv'
<1>1. /\ task.kind = "preview" /\ task' = NoTask
      /\ previews' = IF more THEN Enqueued(previews, Identity(task)) ELSE previews
      /\ UNCHANGED <<current, deque, auto, histories, watches, ops, passed>>
  BY DEF PreviewsFetched
<1>2. Identity(task) \in Ids
  BY <1>1, TaskIdentity DEF Kinds
<1>3. FetchTyped'
  BY <1>1, <1>2, EnqueuedSmall DEF SyncInv, FetchTyped
<1> QED
  BY <1>1, <1>3, OtherEndSafe DEF SyncInv, LoopTyped

LEMMA FetchFailsSafe ==
  ASSUME SyncInv, FetchFails
  PROVE  SyncInv'
<1>1. /\ task' = NoTask /\ deque' = Released
      /\ UNCHANGED <<current, auto, previews, histories, watches, ops, passed>>
  BY DEF FetchFails
<1>2. QueueInv' /\ FlightInv' /\ TaskTyped'
  BY <1>1, TurnEnded DEF Released
<1> QED
  BY <1>1, <1>2 DEF SyncInv, LoopTyped, FetchTyped

LEMMA ContentFetchedSafe ==
  ASSUME SyncInv, ContentFetched
  PROVE  SyncInv'
<1>1. /\ task.kind = "content" /\ task' = NoTask
      /\ UNCHANGED <<current, deque, auto, previews, histories, watches, ops, passed>>
  BY DEF ContentFetched
<1> QED
  BY <1>1, OtherEndSafe DEF SyncInv, LoopTyped, FetchTyped

-----------------------------------------------------------------------------
(* Watches and time                                                        *)

LEMMA WatchGoneSafe ==
  ASSUME SyncInv, NEW w \in watches, WatchGone(w)
  PROVE  SyncInv'
<1>1. /\ watches' = watches \ {w}
      /\ UNCHANGED <<current, deque, auto, task, previews, histories, ops, passed>>
  BY DEF WatchGone, WatchEnds
<1>2. SmallWatches(watches')
  BY <1>1, FewerWatches DEF SyncInv
<1> QED
  BY <1>1, <1>2, QuietSafe DEF SyncInv, LoopTyped, FetchTyped

LEMMA WatchPromotesSafe ==
  ASSUME SyncInv, NEW w \in watches, NEW delay \in Deadlines, WatchPromotes(w, delay)
  PROVE  SyncInv'
<1>1. PICK id : id = <<w.acct, w.gen>>
  OBVIOUS
<1>2. /\ watches' = watches \ {w} /\ deque' = Promote(deque, id, delay)
      /\ \/ auto' = auto \/ auto' = AutoState("ready") \/ auto' = [auto EXCEPT !.timer = delay]
      /\ UNCHANGED <<current, task, previews, histories, ops, passed>>
  BY <1>1 DEF WatchPromotes, WatchEnds
<1>3. SmallWatches(watches')
  BY <1>2, FewerWatches DEF SyncInv
<1>4. LoopTyped'
  BY <1>2, AutoTyped DEF SyncInv, LoopTyped, AutoStates
<1>5. deque \in Seq(Target) /\ DOMAIN deque = 1..Len(deque)
  BY LenProperties DEF SyncInv, QueueInv, Sound
<1>6. QueueInv' /\ FlightInv' /\ TaskTyped'
  <2>1. CASE MayPromote(deque, id)
    <3>1. PICK i \in DOMAIN deque : i = At(deque, id)
      BY <2>1, FoundAt DEF MayPromote
    <3>2. PICK t : t = [deque[i] EXCEPT !.due = delay]
      OBVIOUS
    <3>3. deque[i] \in Target
      BY <1>5, ElementOfSeq
    <3>4. /\ t \in Target /\ Identity(t) = Identity(deque[i])
          /\ t.nonce = deque[i].nonce
      BY <3>2, <3>3 DEF Target, Identity
    <3>5. deque' = [deque EXCEPT ![i] = t]
      BY <1>2, <2>1, <3>1, <3>2 DEF Promote
    <3>6. /\ deque' \in Seq(Target) /\ DOMAIN deque' = DOMAIN deque
          /\ \A j \in DOMAIN deque : deque'[j] = IF j = i THEN t ELSE deque[j]
      BY <1>5, <3>4, <3>5, ExceptSeq
    <3> QED
      BY <1>2, <3>4, <3>6, TurnStays
  <2>2. CASE ~MayPromote(deque, id)
    BY <1>2, <2>2, QuietSafe DEF Promote
  <2> QED
    BY <2>1, <2>2
<1> QED
  BY <1>2, <1>3, <1>4, <1>6 DEF SyncInv, FetchTyped

LEMMA TickSafe ==
  ASSUME SyncInv, Tick
  PROVE  SyncInv'
<1> DEFINE less(n) == IF n = 0 THEN 0 ELSE n - 1
<1>1. /\ deque' = Elapse(deque)
      /\ auto' = [auto EXCEPT !.timer = less(auto.timer)]
      /\ UNCHANGED <<current, task, previews, histories, watches, ops, passed>>
  BY DEF Tick
<1>2. \A n \in Deadlines : less(n) \in Deadlines
  <2>1. PICK m : m = Max({Success, MaxFailure})
    OBVIOUS
  <2>2. m \in Nat
    BY <2>1, DeadlinesReach
  <2> QED
    BY <2>1, <2>2 DEF Deadlines
<1> HIDE DEF less
<1>3. LoopTyped'
  BY <1>1, <1>2 DEF SyncInv, LoopTyped
<1>4. deque \in Seq(Target) /\ Len(deque) \in Nat /\ DOMAIN deque = 1..Len(deque)
  BY LenProperties DEF SyncInv, QueueInv, Sound
<1>5. ASSUME NEW i \in DOMAIN deque
      PROVE  /\ deque'[i] \in Target /\ Identity(deque'[i]) = Identity(deque[i])
             /\ deque'[i].nonce = deque[i].nonce
  <2>1. deque[i] \in Target
    BY <1>4, ElementOfSeq
  <2>2. deque'[i] = [deque[i] EXCEPT !.due = less(deque[i].due)]
    BY <1>1 DEF Elapse, less
  <2> QED
    BY <1>2, <2>1, <2>2 DEF Target, Identity
<1>6. DOMAIN deque' = DOMAIN deque /\ deque' \in Seq(Target)
  <2>1. deque' = [i \in DOMAIN deque |-> deque'[i]]
    BY <1>1 DEF Elapse
  <2>2. deque' \in [1..Len(deque) -> Target]
    BY <1>4, <1>5, <2>1
  <2> QED
    BY <1>4, <2>2
<1>7. QueueInv' /\ FlightInv' /\ TaskTyped'
  BY <1>1, <1>5, <1>6, TurnStays
<1> QED
  BY <1>1, <1>3, <1>7 DEF SyncInv, FetchTyped

-----------------------------------------------------------------------------

LEMMA InitSafe ==
  ASSUME Init
  PROVE  SyncInv
<1>1. 1 <= MaxGen /\ MaxGen \in Nat /\ MaxQueue \in Nat
  BY AutoSyncAssumption
<1>2. MaxTargets \in Nat /\ 0 < MaxTargets
  BY SchedulerAssumption
<1>3. deque = <<>> /\ Len(deque) = 0 /\ DOMAIN deque = {} /\ deque \in Seq(Target)
  BY DEF Init
<1>4. QueueInv
  BY <1>2, <1>3 DEF Init, QueueInv, Sound, InTurn
<1>5. FlightInv /\ TaskTyped
  BY <1>3, NoTaskIsNoSync DEF Init, FlightInv, TaskTyped
<1>6. LoopTyped
  <2>1. \A n \in 0..1 : n \in 0..MaxGen
    BY <1>1
  <2>2. current \in [Accounts -> 0..MaxGen]
    BY <2>1 DEF Init
  <2> QED
    BY <2>2, AutoTyped DEF Init, LoopTyped, AutoStates
<1>7. FetchTyped
  <2>1. SmallQueue(<<>>)
    BY <1>1 DEF SmallQueue, IsInjective
  <2> QED
    BY <2>1 DEF Init, FetchTyped
<1>8. SmallWatches(watches)
  BY <1>1, FS_EmptySet DEF Init, SmallWatches
<1> QED
  BY <1>4, <1>5, <1>6, <1>7, <1>8 DEF SyncInv

LEMMA NextSafe ==
  ASSUME SyncInv, Next
  PROVE  SyncInv'
<1>1. CASE Scheduling
  BY <1>1, SubmitTargetsSafe, LoadTargetsSafe, TakeTurnSafe, AwaitDeadlineSafe,
     TimerFiresSafe DEF Scheduling
<1>2. CASE StartPreview \/ StartHistory
  BY <1>2, StartPreviewSafe, StartHistorySafe
<1>3. CASE TaskEnds
  BY <1>3, SyncSucceedsSafe, PreviewsFetchedSafe, FetchFailsSafe, ContentFetchedSafe,
     AccountOperationEndsSafe DEF TaskEnds
<1>4. CASE Tick
  BY <1>4, TickSafe
<1>5. CASE \E id \in Ids : SyncInbox(id) \/ FetchContent(id) \/ StartAccountOperation(id)
  BY <1>5, SyncInboxSafe, FetchContentSafe, StartAccountOperationSafe
<1>6. CASE \E w \in watches : WatchGone(w) \/ WatchChanged(w) \/ WatchDisconnected(w)
  <2>1. 0 \in Deadlines /\ Reconnect \in Deadlines
    BY DeadlinesReach, AutoSyncAssumption
  <2> QED
    BY <1>6, <2>1, WatchGoneSafe, WatchPromotesSafe DEF WatchChanged, WatchDisconnected
<1> QED
  BY <1>1, <1>2, <1>3, <1>4, <1>5, <1>6 DEF Next

LEMMA StutteringSafe ==
  ASSUME SyncInv, UNCHANGED vars
  PROVE  SyncInv'
<1>1. UNCHANGED <<current, deque, auto, task, previews, histories, watches, passed>>
  BY DEF vars
<1> QED
  BY <1>1, QuietSafe DEF SyncInv, LoopTyped, FetchTyped

(* A turn that comes back is always the one that was given out: complete   *)
(* never meets a token that is not current, whatever was preempted,        *)
(* reloaded or asked for by hand, and an account has one place.            *)
THEOREM TurnsAlwaysAccounted == Spec => []TurnsAreAccounted
<1>1. Init => SyncInv
  BY InitSafe
<1>2. SyncInv /\ [Next]_vars => SyncInv'
  BY NextSafe, StutteringSafe
<1>3. SyncInv => TurnsAreAccounted
  BY InvImplies
<1> QED
  BY <1>1, <1>2, <1>3, PTL DEF Spec

(* take_next passes over an account that is due less often than the queue  *)
(* has places: the front-to-back order that take_next, take_manual and     *)
(* complete keep is fair.                                                  *)
THEOREM ServiceAlwaysFair == Spec => []ServiceIsFair
<1>1. Init => SyncInv
  BY InitSafe
<1>2. SyncInv /\ [Next]_vars => SyncInv'
  BY NextSafe, StutteringSafe
<1>3. SyncInv => ServiceIsFair
  BY InvImplies
<1> QED
  BY <1>1, <1>2, <1>3, PTL DEF Spec
=============================================================================

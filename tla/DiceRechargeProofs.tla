-------------------------- MODULE DiceRechargeProofs --------------------------
(***************************************************************************)
(* Proofs about DiceRecharge for every capacity, interval and amount: when *)
(* the clock runs, and that paying late cannot be told from paying at once.*)
(***************************************************************************)
EXTENDS DiceRecharge, TLAPS

-----------------------------------------------------------------------------
(* Division *)

LEMMA Division ==
  ASSUME NEW a \in Nat, NEW b \in Nat \ {0}
  PROVE  /\ a \div b \in Nat
         /\ (a \div b) * b <= a
         /\ a < (a \div b) * b + b
<1>1. a \div b \in Nat
  BY SMT
<1>2. (a \div b) * b <= a /\ a < (a \div b) * b + b
  BY SMT
<1>3. QED  BY <1>1, <1>2

\* The quotient grows by one at the multiples of the divisor, and only there.
LEMMA NextQuotient ==
  ASSUME NEW a \in Nat, NEW b \in Nat \ {0}
  PROVE  \/ (a + 1) \div b = a \div b /\ a + 1 < (a \div b) * b + b
         \/ (a + 1) \div b = (a \div b) + 1 /\ a + 1 = (a \div b) * b + b
<1>1. CASE a + 1 < (a \div b) * b + b
  BY <1>1, Division
<1>2. CASE a + 1 = (a \div b) * b + b
  BY <1>2, Division
<1>3. QED  BY <1>1, <1>2, Division

-----------------------------------------------------------------------------
(***************************************************************************)
(* ClockRunsWhenOwed is not inductive: a clock that was paused with no     *)
(* time left would be overdue the moment it is resumed.  It is only ever   *)
(* paused by a transaction that has paid out first, so that some time was  *)
(* left.                                                                   *)
(***************************************************************************)

\* Within the limits of the settings: what an update can start from.
Fit(k) ==
  /\ k \in Clocks
  /\ k.rolls <= capacity
  /\ k.left # None => k.left <= interval
  /\ k.paused # None => k.left = None /\ k.paused \in 1..interval

\* A clock of a board that is completed or not (done), between transactions.
Owed(k, done) ==
  /\ Fit(k)
  /\ k.left # None <=> k.rolls < capacity /\ ~done
  /\ k.paused # None => done /\ k.rolls < capacity

\* What an update leaves behind: nothing is overdue.
Settled(k, done) == Owed(k, done) /\ (k.left # None => k.left > 0)

IInv == TypeOK /\ (changes = 0 => Owed(clock, completed))

Settings == capacity \in Nat \ {0} /\ interval \in Nat \ {0}

-----------------------------------------------------------------------------
(* What the operators on clocks do *)

\* The values in a clock.
LEMMA Values ==
  ASSUME NEW k \in Clocks
  PROVE  /\ k.rolls \in Nat
         /\ k.left = None \/ k.left \in Int
         /\ k.paused = None \/ k.paused \in Nat
         /\ k = [rolls |-> k.rolls, left |-> k.left, paused |-> k.paused]
BY DEF Clocks

\* Clocks with other values.
WithRolls(k, n)    == [k EXCEPT !.rolls = n]
WithLeft(k, l)     == [k EXCEPT !.left = l]
WithTimes(k, l, p) == [k EXCEPT !.left = l, !.paused = p]
WithPay(k, n, l)   == [k EXCEPT !.rolls = n, !.left = l]
Full(k)            == [k EXCEPT !.left = None, !.paused = None]

LEMMA RollsFields ==
  ASSUME NEW k \in Clocks, NEW n \in Nat
  PROVE  /\ WithRolls(k, n) \in Clocks
         /\ WithRolls(k, n).rolls = n
         /\ WithRolls(k, n).left = k.left
         /\ WithRolls(k, n).paused = k.paused
BY DEF Clocks, WithRolls

LEMMA TimeFields ==
  ASSUME NEW k \in Clocks, NEW l \in Int \cup {None}, NEW p \in Nat \cup {None}
  PROVE  /\ WithTimes(k, l, p) \in Clocks
         /\ WithTimes(k, l, p).rolls = k.rolls
         /\ WithTimes(k, l, p).left = l
         /\ WithTimes(k, l, p).paused = p
BY DEF Clocks, WithTimes

LEMMA FullFields ==
  ASSUME NEW k \in Clocks
  PROVE  /\ Full(k) \in Clocks
         /\ Full(k).rolls = k.rolls /\ Full(k).left = None /\ Full(k).paused = None
BY DEF Clocks, Full

LEMMA PaidFields ==
  ASSUME NEW k \in Clocks, NEW n \in Nat, NEW l \in Int \cup {None}
  PROVE  /\ WithPay(k, n, l) \in Clocks
         /\ WithPay(k, n, l).rolls = n
         /\ WithPay(k, n, l).left = l
         /\ WithPay(k, n, l).paused = k.paused
BY DEF Clocks, WithPay

LEMMA LeftFields ==
  ASSUME NEW k \in Clocks, NEW l \in Int \cup {None}
  PROVE  /\ WithLeft(k, l) \in Clocks
         /\ WithLeft(k, l).rolls = k.rolls
         /\ WithLeft(k, l).left = l
         /\ WithLeft(k, l).paused = k.paused
BY DEF Clocks, WithLeft

\* A clock that is paused, one that is resumed, and one that is overdue.
LEMMA PauseFields ==
  ASSUME NEW k \in Clocks
  PROVE  /\ Pause(k) \in Clocks
         /\ Pause(k).rolls = k.rolls /\ Pause(k).left = None
         /\ k.left = None => Pause(k).paused = k.paused
         /\ k.left # None => Pause(k).paused = Larger(0, k.left)
<1> DEFINE p == IF k.left = None THEN k.paused ELSE Larger(0, k.left)
<1>1. Pause(k) = WithTimes(k, None, p)
  BY DEF Pause, WithTimes
<1>2. p \in Nat \cup {None}
  BY Values DEF Larger
<1>3. p = IF k.left = None THEN k.paused ELSE Larger(0, k.left)
  OBVIOUS
<1> HIDE DEF p
<1>4. None \in Int \cup {None}
  OBVIOUS
<1>5. /\ WithTimes(k, None, p) \in Clocks
      /\ WithTimes(k, None, p).rolls = k.rolls
      /\ WithTimes(k, None, p).left = None
      /\ WithTimes(k, None, p).paused = p
  BY <1>2, <1>4, TimeFields
<1>6. QED  BY <1>1, <1>3, <1>5

LEMMA ResumeFields ==
  ASSUME NEW k \in Clocks, Settings
  PROVE  /\ Resume(k) \in Clocks
         /\ Resume(k).rolls = k.rolls /\ Resume(k).paused = None
         /\ Resume(k).left = IF k.paused = None THEN interval ELSE k.paused
<1> DEFINE l == IF k.paused = None THEN interval ELSE k.paused
<1>1. Resume(k) = WithTimes(k, l, None)
  BY DEF Resume, WithTimes
<1>2. l \in Int \cup {None}
  BY Values DEF Settings
<1>3. l = IF k.paused = None THEN interval ELSE k.paused
  OBVIOUS
<1> HIDE DEF l
<1>4. None \in Nat \cup {None}
  OBVIOUS
<1>5. /\ WithTimes(k, l, None) \in Clocks
      /\ WithTimes(k, l, None).rolls = k.rolls
      /\ WithTimes(k, l, None).left = l
      /\ WithTimes(k, l, None).paused = None
  BY <1>2, <1>4, TimeFields
<1>6. QED  BY <1>1, <1>3, <1>5

Elapsed(k) == ((-k.left) \div interval) + 1

LEMMA PayOutFields ==
  ASSUME NEW k \in Clocks, Settings, k.left # None, k.left <= 0
  PROVE  /\ Elapsed(k) \in Nat \ {0}
         /\ PayOut(k) \in Clocks
         /\ PayOut(k).rolls = Smaller(capacity, k.rolls + Elapsed(k))
         /\ PayOut(k).paused = k.paused
         /\ PayOut(k).left = IF PayOut(k).rolls < capacity
                             THEN k.left + Elapsed(k) * interval ELSE None
         /\ k.left + Elapsed(k) * interval \in 1..interval
<1> DEFINE q == (-k.left) \div interval
<1>1. k.left \in Int /\ -k.left \in Nat /\ k.rolls \in Nat /\ interval \in Nat \ {0}
  BY Values DEF Settings
<1>2. q \in Nat /\ q * interval <= -k.left /\ -k.left < q * interval + interval
  BY <1>1, Division
<1>3. Elapsed(k) = q + 1
  BY DEF Elapsed
<1> HIDE DEF q
<1>4. Elapsed(k) \in Nat \ {0} /\ Elapsed(k) * interval = q * interval + interval /\ q * interval \in Int
  BY <1>1, <1>2, <1>3
<1>5. k.left + Elapsed(k) * interval \in 1..interval
  BY <1>1, <1>2, <1>4
<1> DEFINE n == Smaller(capacity, k.rolls + Elapsed(k))
           l == IF n < capacity THEN k.left + Elapsed(k) * interval ELSE None
<1>6. n \in Nat
  BY <1>1, <1>4 DEF Smaller, Settings
<1>7. l \in Int \cup {None}
  BY <1>5
<1>8. PayOut(k) = WithPay(k, n, l)
  BY DEF PayOut, Elapsed, WithPay
<1>9. n = Smaller(capacity, k.rolls + Elapsed(k)) /\ l = IF n < capacity THEN k.left + Elapsed(k) * interval ELSE None
  OBVIOUS
<1> HIDE DEF n, l
<1>10. /\ WithPay(k, n, l) \in Clocks
       /\ WithPay(k, n, l).rolls = n
       /\ WithPay(k, n, l).left = l
       /\ WithPay(k, n, l).paused = k.paused
  BY <1>6, <1>7, PaidFields
<1>11. QED  BY <1>4, <1>5, <1>8, <1>9, <1>10

\* Clocks with the same values are the same.
LEMMA SameClock ==
  ASSUME NEW j \in Clocks, NEW k \in Clocks,
         j.rolls = k.rolls, j.left = k.left, j.paused = k.paused
  PROVE  j = k
BY DEF Clocks

\* None is no number.
LEMMA NoneIsNoNumber == None \notin Int /\ None \notin Nat
BY RechargeAssumption

-----------------------------------------------------------------------------
(* The update *)

\* An update of any clock leaves a clock.
LEMMA UpdateType ==
  ASSUME NEW k \in Clocks, NEW done \in BOOLEAN, Settings
  PROVE  Update(k, done) \in Clocks
<1>1. CASE k.rolls >= capacity
  <2>1. Update(k, done) = Full(k)
    BY <1>1 DEF Update, Full
  <2>2. QED  BY <2>1, FullFields
<1>2. CASE ~(k.rolls >= capacity) /\ done
  BY <1>2, PauseFields DEF Update
<1>3. CASE ~(k.rolls >= capacity) /\ ~done /\ k.left = None
  BY <1>3, ResumeFields DEF Update
<1>4. CASE ~(k.rolls >= capacity) /\ ~done /\ k.left # None /\ k.left > 0
  BY <1>4 DEF Update
<1>5. CASE ~(k.rolls >= capacity) /\ ~done /\ k.left # None /\ ~(k.left > 0)
  <2>1. k.left <= 0
    BY <1>5, Values
  <2>2. QED  BY <1>5, <2>1, PayOutFields DEF Update
<1>6. QED  BY <1>1, <1>2, <1>3, <1>4, <1>5

\* Whatever its balance and whether or not it was running: once updated, a
\* clock within the limits is settled.  It must not be paused overdue.
LEMMA UpdateSettles ==
  ASSUME NEW k, NEW done \in BOOLEAN, Settings, Fit(k),
         done /\ k.left # None => k.left > 0
  PROVE  Settled(Update(k, done), done)
<1> USE NoneIsNoNumber, Values DEF Settled, Owed, Fit, Settings
<1>1. CASE k.rolls >= capacity
  <2>1. Update(k, done) = Full(k)
    BY <1>1 DEF Update, Full
  <2>2. /\ Update(k, done) \in Clocks /\ Update(k, done).rolls = k.rolls
        /\ Update(k, done).left = None /\ Update(k, done).paused = None
    BY <2>1, FullFields
  <2>3. QED  BY <1>1, <2>2
<1>2. CASE ~(k.rolls >= capacity) /\ done
  <2>1. Update(k, done) = Pause(k)
    BY <1>2 DEF Update
  <2>2. /\ Update(k, done) \in Clocks /\ Update(k, done).rolls = k.rolls
        /\ Update(k, done).left = None
        /\ k.left = None => Update(k, done).paused = k.paused
        /\ k.left # None => Update(k, done).paused = Larger(0, k.left)
    BY <2>1, PauseFields
  <2>3. k.rolls < capacity /\ k.rolls <= capacity
    BY <1>2
  <2>4. Update(k, done).paused # None => Update(k, done).paused \in 1..interval
    <3>1. CASE k.left = None
      BY <2>2, <3>1
    <3>2. CASE k.left # None
      <4>1. k.left \in 1..interval
        BY <1>2, <3>2
      <4>2. Larger(0, k.left) = k.left
        BY <4>1 DEF Larger
      <4>3. QED  BY <2>2, <3>2, <4>1, <4>2
    <3>3. QED  BY <3>1, <3>2
  <2> DEFINE j == Update(k, done)
  <2>5. /\ j \in Clocks /\ j.rolls < capacity /\ j.rolls <= capacity /\ j.left = None /\ done
        /\ j.paused # None => j.paused \in 1..interval
    BY <1>2, <2>2, <2>3, <2>4
  <2> HIDE DEF j
  <2>6. Settled(j, done)
    BY <2>5
  <2>7. QED  BY <2>6 DEF j
<1>3. CASE ~(k.rolls >= capacity) /\ ~done /\ k.left = None
  <2>1. Update(k, done) = Resume(k)
    BY <1>3 DEF Update
  <2>2. QED  BY <1>3, <2>1, ResumeFields
<1>4. CASE ~(k.rolls >= capacity) /\ ~done /\ k.left # None /\ k.left > 0
  <2>1. Update(k, done) = k
    BY <1>4 DEF Update
  <2>2. QED  BY <1>4, <2>1
<1>5. CASE ~(k.rolls >= capacity) /\ ~done /\ k.left # None /\ ~(k.left > 0)
  <2>1. k.left <= 0
    BY <1>5
  <2>2. Update(k, done) = PayOut(k)
    BY <1>5 DEF Update
  <2>3. k.paused = None
    BY <1>5
  <2>4. QED  BY <1>5, <2>1, <2>2, <2>3, PayOutFields DEF Smaller
<1>6. QED  BY <1>1, <1>2, <1>3, <1>4, <1>5

\* A settled clock needs no update.
LEMMA Idempotent ==
  ASSUME NEW done \in BOOLEAN, NEW k, Settings, Settled(k, done)
  PROVE  Update(k, done) = k
<1>1. k \in Clocks /\ k.rolls \in Nat
  BY Values DEF Settled, Owed, Fit
<1>2. CASE k.rolls >= capacity
  <2>1. k.left = None /\ k.paused = None
    BY <1>1, <1>2 DEF Settled, Owed, Settings
  <2>2. Update(k, done) = Full(k)
    BY <1>2 DEF Update, Full
  <2>3. QED  BY <1>1, <2>1, <2>2, FullFields, SameClock
<1>3. CASE ~(k.rolls >= capacity) /\ done
  <2>1. k.left = None
    BY <1>3 DEF Settled, Owed
  <2>2. Update(k, done) = Pause(k)
    BY <1>3 DEF Update
  <2>3. QED  BY <1>1, <2>1, <2>2, PauseFields, SameClock
<1>4. CASE ~(k.rolls >= capacity) /\ ~done
  <2>1. k.left # None /\ k.left > 0
    BY <1>1, <1>4 DEF Settled, Owed, Settings
  <2>2. QED  BY <1>4, <2>1 DEF Update
<1>5. QED  BY <1>2, <1>3, <1>4

\* Another balance within the capacity, and the clock follows.
LEMMA Changed ==
  ASSUME NEW done \in BOOLEAN, NEW k, NEW n \in Nat, Settings, Settled(k, done), n <= capacity
  PROVE  LET j == Update(WithRolls(k, n), done) IN
           /\ Settled(j, done) /\ j.rolls = n
           /\ n = capacity => j.left = None /\ j.paused = None
           /\ n < capacity /\ done => j.left = None /\ j.paused = k.paused
           /\ n < capacity /\ ~done =>
                j.left = (IF k.left = None THEN interval ELSE k.left) /\ j.paused = k.paused
<1> DEFINE w == WithRolls(k, n)
           j == Update(w, done)
<1>1. k \in Clocks /\ w \in Clocks /\ w.rolls = n /\ w.left = k.left /\ w.paused = k.paused
  BY RollsFields DEF Settled, Owed, Fit
<1>2. Fit(w)
  BY <1>1 DEF Settled, Owed, Fit
<1>3. done => k.left = None
  BY DEF Settled, Owed
<1>4. ~done => k.paused = None /\ (k.left # None => k.left > 0)
  BY DEF Settled, Owed
<1> HIDE DEF w
<1>5. Settled(j, done)
  BY <1>1, <1>2, <1>3, UpdateSettles
<1>6. n = capacity => j.rolls = n /\ j.left = None /\ j.paused = None
  <2> SUFFICES ASSUME n = capacity PROVE j.rolls = n /\ j.left = None /\ j.paused = None
    OBVIOUS
  <2>1. j = Full(w)
    BY <1>1 DEF Update, Full, Settings
  <2>2. QED  BY <1>1, <2>1, FullFields
<1>7. n < capacity => ~(w.rolls >= capacity)
  BY <1>1 DEF Settings
<1>8. n < capacity /\ done => j.rolls = n /\ j.left = None /\ j.paused = k.paused
  <2> SUFFICES ASSUME n < capacity, done PROVE j.rolls = n /\ j.left = None /\ j.paused = k.paused
    OBVIOUS
  <2>1. j = Pause(w)
    BY <1>7 DEF Update
  <2>2. QED  BY <1>1, <1>3, <2>1, PauseFields
<1>9. n < capacity /\ ~done =>
        j.rolls = n /\ j.left = (IF k.left = None THEN interval ELSE k.left) /\ j.paused = k.paused
  <2> SUFFICES ASSUME n < capacity, ~done
               PROVE  j.rolls = n /\ j.left = (IF k.left = None THEN interval ELSE k.left) /\ j.paused = k.paused
    OBVIOUS
  <2>1. CASE k.left = None
    <3>1. j = Resume(w)
      BY <1>1, <1>7, <2>1 DEF Update
    <3>2. QED  BY <1>1, <1>4, <2>1, <3>1, ResumeFields
  <2>2. CASE k.left # None
    <3>1. j = w
      BY <1>1, <1>4, <1>7, <2>2 DEF Update
    <3>2. QED  BY <1>1, <2>2, <3>1
  <2>3. QED  BY <2>1, <2>2
<1>10. QED  BY <1>5, <1>6, <1>8, <1>9 DEF w, Settings

\* The board is completed: the clock is paused.
LEMMA Paused ==
  ASSUME NEW k, Settings, Settled(k, FALSE)
  PROVE  /\ Settled(Pause(k), TRUE)
         /\ Pause(k).rolls = k.rolls /\ Pause(k).left = None /\ Pause(k).paused = k.left
         /\ Update(k, TRUE) = Pause(k)
<1>1. k \in Clocks /\ k.paused = None
  BY DEF Settled, Owed, Fit
<1>2. k.left # None => k.left \in 1..interval /\ k.rolls < capacity
  BY <1>1, Values DEF Settled, Owed, Fit, Settings
<1>3. k.left # None => Larger(0, k.left) = k.left
  BY <1>2 DEF Larger
<1>4. Pause(k) \in Clocks /\ Pause(k).rolls = k.rolls /\ Pause(k).left = None /\ Pause(k).paused = k.left
  BY <1>1, <1>3, PauseFields
<1>5. Settled(Pause(k), TRUE)
  BY <1>2, <1>4 DEF Settled, Owed, Fit
<1>6. Update(k, TRUE) = Pause(k)
  <2>1. CASE k.rolls >= capacity
    <3>1. k.left = None
      BY <1>1, <2>1, Values DEF Settled, Owed, Fit, Settings
    <3>2. Update(k, TRUE) = Full(k)
      BY <2>1 DEF Update, Full
    <3>3. Full(k) \in Clocks /\ Full(k).rolls = k.rolls /\ Full(k).left = None /\ Full(k).paused = None
      BY <1>1, FullFields
    <3>4. Pause(k).paused = None
      BY <1>4, <3>1
    <3>5. Full(k) = Pause(k)
      BY <1>4, <3>3, <3>4, SameClock
    <3>6. QED  BY <3>2, <3>5
  <2>2. CASE ~(k.rolls >= capacity)
    BY <2>2 DEF Update
  <2>3. QED  BY <2>1, <2>2
<1>7. QED  BY <1>4, <1>5, <1>6

\* The board is open again: the clock goes on.
LEMMA Reopened ==
  ASSUME NEW k, Settings, Settled(k, TRUE)
  PROVE  LET j == Update(k, FALSE) IN
           /\ Settled(j, FALSE) /\ j.rolls = k.rolls /\ j.paused = None
           /\ j.left = IF k.rolls = capacity THEN None
                       ELSE IF k.paused = None THEN interval ELSE k.paused
<1> DEFINE j == Update(k, FALSE)
<1>1. k \in Clocks /\ k.left = None /\ k.rolls \in Nat /\ k.rolls <= capacity
  BY Values DEF Settled, Owed, Fit
<1>2. Settled(j, FALSE)
  BY UpdateSettles DEF Settled, Owed
<1>3. CASE k.rolls = capacity
  <2>1. j = Full(k)
    BY <1>1, <1>3 DEF Update, Full, Settings
  <2>2. QED  BY <1>1, <1>2, <1>3, <2>1, FullFields
<1>4. CASE k.rolls # capacity
  <2>1. j = Resume(k)
    BY <1>1, <1>4 DEF Update, Settings
  <2>2. QED  BY <1>1, <1>2, <1>4, <2>1, ResumeFields
<1>5. QED  BY <1>3, <1>4

-----------------------------------------------------------------------------
(* Types *)

LEMMA SettingsFacts == TypeOK => Settings
BY RechargeAssumption DEF TypeOK, Settings

LEMMA InitInv == Init => IInv
<1> SUFFICES ASSUME Init PROVE IInv
  OBVIOUS
<1>1. Settings
  BY RechargeAssumption DEF Init, Settings
<1>2. clock = [rolls |-> capacity, left |-> None, paused |-> None]
  BY DEF Init
<1>3. clock \in Clocks
  BY <1>1, <1>2 DEF Clocks, Settings
<1>4. TypeOK
  <2>1. 0 \in 0..MaxChanges
    BY RechargeAssumption
  <2>2. QED  BY <1>3, <2>1 DEF Init, TypeOK
<1>5. Owed(clock, completed)
  BY <1>1, <1>2, <1>3, NoneIsNoNumber DEF Init, Owed, Fit, Settings
<1>6. QED  BY <1>4, <1>5 DEF IInv

LEMMA FreshType == TypeOK => Fresh \in Clocks
BY UpdateType, SettingsFacts DEF TypeOK, Fresh

\* A grant beyond the capacity is none.
LEMMA GrantedRolls ==
  ASSUME NEW r \in Nat, NEW n \in Int, Settings
  PROVE  r + Larger(0, Smaller(n, capacity - r)) \in Nat
BY DEF Larger, Smaller, Settings

LEMMA GrantedType ==
  ASSUME NEW k \in Clocks, NEW n \in Int, NEW done \in BOOLEAN, Settings
  PROVE  Granted(k, n, done) \in Clocks
<1>1. CASE done
  BY <1>1, PauseFields DEF Granted
<1>2. CASE ~done
  <2> DEFINE up == Update(k, done)
             m  == up.rolls + Larger(0, Smaller(n, capacity - up.rolls))
  <2>1. up \in Clocks
    BY UpdateType
  <2>2. Granted(k, n, done) = Update(WithRolls(up, m), done)
    BY <1>2 DEF Granted, WithRolls
  <2>3. m \in Nat
    BY <2>1, Values, GrantedRolls
  <2> HIDE DEF m, up
  <2>4. WithRolls(up, m) \in Clocks
    BY <2>1, <2>3, RollsFields
  <2>5. QED  BY <2>2, <2>4, UpdateType
<1>3. QED  BY <1>1, <1>2

LEMMA TypeStep ==
  ASSUME TypeOK, [Next]_vars
  PROVE  TypeOK'
<1>1. Settings /\ Fresh \in Clocks /\ clock \in Clocks /\ completed \in BOOLEAN
  BY SettingsFacts, FreshType DEF TypeOK
<1>2. CASE Tick
  <2>1. clock' = IF clock.left = None THEN clock ELSE WithLeft(clock, clock.left - 1)
    BY <1>2 DEF Tick, WithLeft
  <2>2. clock.left # None => clock.left - 1 \in Int \cup {None}
    BY <1>1, Values
  <2>3. clock.left # None => WithLeft(clock, clock.left - 1) \in Clocks
    BY <1>1, <2>2, LeftFields
  <2>4. clock' \in Clocks
    BY <1>1, <2>1, <2>3
  <2>5. QED  BY <1>2, <2>4 DEF Tick, TypeOK
<1>3. CASE Read
  BY <1>1, <1>3 DEF Read, TypeOK
<1>4. ASSUME NEW completes \in BOOLEAN, Consume(completes)
      PROVE  TypeOK'
  <2> DEFINE n == Fresh.rolls - 1
             thrown == Update(WithRolls(Fresh, n), FALSE)
  <2>1. clock' = IF completes THEN Pause(thrown) ELSE thrown
    BY <1>4 DEF Consume, WithRolls
  <2>2. n \in Nat
    BY <1>1, <1>4, Values DEF Consume
  <2>3. WithRolls(Fresh, n) \in Clocks
    BY <1>1, <2>2, RollsFields
  <2>4. thrown \in Clocks
    BY <1>1, <2>3, UpdateType
  <2>5. clock' \in Clocks
    BY <2>1, <2>4, PauseFields
  <2>6. QED  BY <1>4, <2>5 DEF Consume, TypeOK
<1>5. CASE CompleteForFree
  BY <1>1, <1>5, PauseFields DEF CompleteForFree, TypeOK
<1>6. CASE Reward
  BY <1>1, <1>6, GrantedType DEF Reward, TypeOK
<1>7. ASSUME NEW amount \in Adjustments, Adjust(amount)
      PROVE  TypeOK'
  <2> DEFINE applied == IF amount > 0 THEN Larger(0, Smaller(amount, capacity - Fresh.rolls)) ELSE amount
             n == Fresh.rolls + applied
  <2>1. clock' = Update(WithRolls(Fresh, n), completed)
    BY <1>7 DEF Adjust, WithRolls
  <2>2. amount \in Int /\ Fresh.rolls \in Nat
    BY <1>1, Values, RechargeAssumption
  <2>3. n \in Nat
    BY <1>1, <1>7, <2>2, GrantedRolls DEF Adjust
  <2> HIDE DEF n
  <2>4. WithRolls(Fresh, n) \in Clocks
    BY <1>1, <2>3, RollsFields
  <2>5. clock' \in Clocks
    BY <1>1, <2>1, <2>4, UpdateType
  <2>6. QED  BY <1>7, <2>5 DEF Adjust, TypeOK
<1>8. ASSUME NEW done \in BOOLEAN, SetCompleted(done)
      PROVE  TypeOK'
  BY <1>1, <1>8, UpdateType DEF SetCompleted, TypeOK
<1>9. ASSUME NEW c \in CapacityOptions, NEW i \in IntervalOptions, ChangeSettings(c, i)
      PROVE  TypeOK'
  BY <1>9, RechargeAssumption DEF ChangeSettings, TypeOK
<1>10. CASE UNCHANGED vars
  BY <1>10 DEF vars, TypeOK
<1>11. QED
  BY <1>2, <1>3, <1>4, <1>5, <1>6, <1>7, <1>8, <1>9, <1>10 DEF Next

-----------------------------------------------------------------------------
(***************************************************************************)
(* The steps.  With the settings fixed every transaction leaves the clock  *)
(* settled, and a player who looks before and after it sees a step of the  *)
(* eager clock.                                                            *)
(***************************************************************************)
Fixed == UNCHANGED <<capacity, interval>>

\* What a player sees of a clock that needs no update.
Shown == /\ Settled(clock', completed')
         /\ Fresh' = clock'

LEMMA FreshSettled ==
  ASSUME TypeOK, Owed(clock, completed)
  PROVE  Settled(Fresh, completed)
<1>1. Settings /\ completed \in BOOLEAN
  BY SettingsFacts DEF TypeOK
<1>2. completed => clock.left = None
  BY DEF Owed
<1>3. QED  BY <1>1, <1>2, UpdateSettles DEF Owed, Fresh

LEMMA FreshAfter ==
  ASSUME TypeOK, completed' \in BOOLEAN, Fixed, Settled(clock', completed')
  PROVE  Shown
<1>1. Settings
  BY SettingsFacts
<1>2. Update(clock', completed') = clock'
  BY <1>1, Idempotent
<1>3. Fresh' = Update(clock', completed')
  BY DEF Fixed, Fresh, Update, Pause, Resume, PayOut, Smaller, Larger
<1>4. QED  BY <1>2, <1>3 DEF Shown

\* Nobody sees a difference.
Unseen == UNCHANGED (EagerClock!vars)

LEMMA ReadStep ==
  ASSUME TypeOK, Owed(clock, completed), Read
  PROVE  Shown /\ Unseen
<1>1. Settled(Fresh, completed) /\ completed \in BOOLEAN
  BY FreshSettled DEF TypeOK
<1>2. /\ clock' = Fresh /\ completed' = completed /\ Fixed /\ beat' = beat
  BY DEF Read, Fixed
<1>3. Shown
  BY <1>1, <1>2, FreshAfter
<1>4. QED  BY <1>2, <1>3 DEF Shown, Unseen, EagerClock!vars, Fixed

LEMMA ConsumeStep ==
  ASSUME TypeOK, Owed(clock, completed), NEW completes \in BOOLEAN, Consume(completes)
  PROVE  Shown /\ EagerClock!Throw(completes)
<1> DEFINE n == Fresh.rolls - 1
           thrown == Update(WithRolls(Fresh, n), FALSE)
<1>1. Settings /\ completed = FALSE /\ Settled(Fresh, FALSE)
  BY SettingsFacts, FreshSettled DEF TypeOK, Consume
<1>2. Fresh \in Clocks /\ Fresh.rolls <= capacity
  BY <1>1 DEF Settled, Owed, Fit
<1>3. n \in Nat /\ n < capacity /\ n <= capacity
  BY <1>1, <1>2, Values DEF Consume, Settings
<1>4. clock' = IF completes THEN Pause(thrown) ELSE thrown
  BY DEF Consume, WithRolls
<1> HIDE DEF n
<1>5. /\ Settled(thrown, FALSE) /\ thrown.rolls = n
      /\ thrown.left = IF Fresh.left = None THEN interval ELSE Fresh.left
      /\ thrown.paused = Fresh.paused
  BY <1>1, <1>3, Changed
<1>6. Fixed /\ completed' = completes /\ beat' = beat /\ ~completed /\ Fresh.rolls > 0
  BY DEF Consume, Fixed
<1> HIDE DEF thrown
<1>7. CASE completes
  <2>1. /\ Settled(Pause(thrown), TRUE) /\ Pause(thrown).rolls = n
        /\ Pause(thrown).left = None /\ Pause(thrown).paused = thrown.left
    BY <1>1, <1>5, Paused
  <2>2. clock' = Pause(thrown) /\ completed' = TRUE
    BY <1>4, <1>6, <1>7
  <2>3. Shown
    BY <1>6, <2>1, <2>2, FreshAfter
  <2>4. Fresh'.rolls = n /\ Fresh'.left = None /\ Fresh'.paused = thrown.left
    BY <2>1, <2>2, <2>3 DEF Shown
  <2>5. QED
    BY <1>5, <1>6, <1>7, <2>3, <2>4
       DEF n, Fixed, EagerClock!Throw, EagerClock!Remaining, EagerClock!Fixed
<1>8. CASE ~completes
  <2>1. clock' = thrown /\ completed' = FALSE
    BY <1>4, <1>6, <1>8
  <2>2. Shown
    BY <1>5, <1>6, <2>1, FreshAfter
  <2>3. Fresh'.rolls = n /\ Fresh'.left = thrown.left /\ Fresh'.paused = Fresh.paused
    BY <1>5, <2>1, <2>2 DEF Shown
  <2>4. QED
    BY <1>5, <1>6, <1>8, <2>2, <2>3
       DEF n, Fixed, EagerClock!Throw, EagerClock!Remaining, EagerClock!Fixed
<1>9. QED  BY <1>7, <1>8

LEMMA CompleteStep ==
  ASSUME TypeOK, Owed(clock, completed), ~completed, completed' = TRUE, Fixed, beat' = beat,
         clock' = Pause(Fresh)
  PROVE  Shown /\ EagerClock!Complete
<1>1. Settings /\ Settled(Fresh, FALSE)
  BY SettingsFacts, FreshSettled DEF TypeOK
<1>2. /\ Settled(Pause(Fresh), TRUE) /\ Pause(Fresh).rolls = Fresh.rolls
      /\ Pause(Fresh).left = None /\ Pause(Fresh).paused = Fresh.left
  BY <1>1, Paused
<1>3. Shown
  BY <1>2, FreshAfter
<1>4. Fresh'.rolls = Fresh.rolls /\ Fresh'.left = None /\ Fresh'.paused = Fresh.left
  BY <1>2, <1>3 DEF Shown
<1>5. QED  BY <1>3, <1>4 DEF Fixed, EagerClock!Complete, EagerClock!Fixed

LEMMA GainStep ==
  ASSUME TypeOK, Owed(clock, completed), NEW m \in Nat, NEW n \in Nat,
         n = IF Fresh.rolls + m < capacity THEN Fresh.rolls + m ELSE capacity,
         clock' = Update(WithRolls(Fresh, n), completed),
         Fixed, UNCHANGED <<completed, beat>>
  PROVE  Shown /\ EagerClock!Gain(m)
<1> DEFINE j == Update(WithRolls(Fresh, n), completed)
<1>1. Settings /\ completed \in BOOLEAN /\ Settled(Fresh, completed)
  BY SettingsFacts, FreshSettled DEF TypeOK
<1>2. n <= capacity /\ Fresh.rolls \in Nat /\ (n < capacity => Fresh.rolls < capacity)
  BY <1>1, Values DEF Settings, Settled, Owed, Fit
<1>3. /\ Settled(j, completed) /\ j.rolls = n
      /\ n = capacity => j.left = None /\ j.paused = None
      /\ n < capacity /\ completed => j.left = None /\ j.paused = Fresh.paused
      /\ n < capacity /\ ~completed =>
           j.left = (IF Fresh.left = None THEN interval ELSE Fresh.left) /\ j.paused = Fresh.paused
  BY <1>1, <1>2, Changed
<1>4. n < capacity => (Fresh.left = None <=> completed)
  BY <1>1, <1>2 DEF Settled, Owed
<1>5. clock' = j
  OBVIOUS
<1> HIDE DEF j
<1>6. Shown
  BY <1>1, <1>3, <1>5, FreshAfter
<1>7. /\ Fresh'.rolls = n
      /\ n = capacity => Fresh'.left = None /\ Fresh'.paused = None
      /\ n < capacity => Fresh'.left = Fresh.left /\ Fresh'.paused = Fresh.paused
  BY <1>1, <1>3, <1>4, <1>5, <1>6 DEF Shown
<1>8. n = capacity \/ n < capacity
  BY <1>1, <1>2 DEF Settings
<1>9. CASE n = capacity
  BY <1>6, <1>7, <1>9 DEF Fixed, EagerClock!Gain, EagerClock!Fixed
<1>10. CASE n < capacity
  BY <1>1, <1>6, <1>7, <1>10 DEF Fixed, EagerClock!Gain, EagerClock!Fixed, Settings
<1>11. QED  BY <1>8, <1>9, <1>10

LEMMA LoseStep ==
  ASSUME TypeOK, Owed(clock, completed), NEW m \in Nat \ {0}, m <= Fresh.rolls,
         clock' = Update(WithRolls(Fresh, Fresh.rolls - m), completed),
         Fixed, UNCHANGED <<completed, beat>>
  PROVE  Shown /\ EagerClock!Lose(m)
<1> DEFINE n == Fresh.rolls - m
           j == Update(WithRolls(Fresh, n), completed)
<1>1. Settings /\ completed \in BOOLEAN /\ Settled(Fresh, completed)
  BY SettingsFacts, FreshSettled DEF TypeOK
<1>2. n \in Nat /\ n < capacity /\ n <= capacity
  BY <1>1, Values DEF Settings, Settled, Owed, Fit
<1>3. clock' = j
  OBVIOUS
<1> HIDE DEF n
<1>4. /\ Settled(j, completed) /\ j.rolls = n /\ j.paused = Fresh.paused
      /\ completed => j.left = None
      /\ ~completed => j.left = IF Fresh.left = None THEN interval ELSE Fresh.left
  BY <1>1, <1>2, Changed
<1> HIDE DEF j
<1>5. Shown
  BY <1>1, <1>3, <1>4, FreshAfter
<1>6. /\ Fresh'.rolls = n /\ Fresh'.paused = Fresh.paused
      /\ completed => Fresh'.left = None
      /\ ~completed => Fresh'.left = IF Fresh.left = None THEN interval ELSE Fresh.left
  BY <1>3, <1>4, <1>5 DEF Shown
<1>7. QED
  BY <1>1, <1>5, <1>6 DEF n, Fixed, EagerClock!Lose, EagerClock!Remaining, EagerClock!Fixed

LEMMA RewardStep ==
  ASSUME TypeOK, Owed(clock, completed), Reward
  PROVE  Shown /\ (Unseen \/ EagerClock!Gain(1))
<1>1. Settings /\ completed \in BOOLEAN /\ Settled(Fresh, completed)
  BY SettingsFacts, FreshSettled DEF TypeOK
<1>2. Fresh \in Clocks /\ Fresh.rolls \in Nat /\ Fresh.rolls <= capacity
  BY <1>1, Values DEF Settled, Owed, Fit
<1>3. clock' = Granted(Fresh, 1, completed) /\ Fixed /\ UNCHANGED <<completed, beat>>
  BY DEF Reward, Fixed
<1>4. CASE completed
  <2>1. Fresh.left = None
    BY <1>1, <1>4 DEF Settled, Owed
  <2>2. Pause(Fresh) = Fresh
    BY <1>2, <2>1, PauseFields, SameClock
  <2>3. clock' = Fresh
    BY <1>3, <1>4, <2>2 DEF Granted
  <2>4. Shown
    BY <1>1, <1>3, <2>3, FreshAfter
  <2>5. QED  BY <1>3, <2>3, <2>4 DEF Shown, Unseen, EagerClock!vars, Fixed
<1>5. CASE ~completed
  <2> DEFINE n == Fresh.rolls + Larger(0, Smaller(1, capacity - Fresh.rolls))
  <2>1. completed = FALSE /\ Update(Fresh, FALSE) = Fresh
    BY <1>1, <1>5, Idempotent
  <2>2. clock' = Update(WithRolls(Fresh, n), completed)
    BY <1>3, <2>1 DEF Granted, WithRolls
  <2>3. n \in Nat /\ n = IF Fresh.rolls + 1 < capacity THEN Fresh.rolls + 1 ELSE capacity
    BY <1>1, <1>2 DEF Larger, Smaller, Settings
  <2> HIDE DEF n
  <2>4. QED  BY <1>3, <2>2, <2>3, GainStep
<1>6. QED  BY <1>4, <1>5

LEMMA AdjustStep ==
  ASSUME TypeOK, Owed(clock, completed), NEW amount \in Adjustments, Adjust(amount)
  PROVE  Shown /\ \E m \in 1..capacity : EagerClock!Gain(m) \/ EagerClock!Lose(m)
<1>1. Settings /\ Settled(Fresh, completed) /\ amount \in Int /\ amount # 0
  BY SettingsFacts, FreshSettled, RechargeAssumption
<1>2. Fresh.rolls \in Nat /\ Fresh.rolls <= capacity /\ Fresh.rolls + amount >= 0
  BY <1>1, Values DEF Settled, Owed, Fit, Adjust
<1>3. Fixed /\ UNCHANGED <<completed, beat>>
  BY DEF Adjust, Fixed
<1>4. CASE amount > 0
  <2> DEFINE n == Fresh.rolls + Larger(0, Smaller(amount, capacity - Fresh.rolls))
  <2>1. clock' = Update(WithRolls(Fresh, n), completed)
    BY <1>4 DEF Adjust, WithRolls
  <2>2. PICK m \in 1..capacity :
          n \in Nat /\ n = IF Fresh.rolls + m < capacity THEN Fresh.rolls + m ELSE capacity
    <3>1. CASE amount < capacity
      <4>1. amount \in 1..capacity
        BY <1>1, <1>4, <3>1 DEF Settings
      <4>2. n \in Nat /\ n = IF Fresh.rolls + amount < capacity THEN Fresh.rolls + amount ELSE capacity
        BY <1>1, <1>2, <1>4, <3>1 DEF Larger, Smaller, Settings
      <4>3. QED  BY <4>1, <4>2
    <3>2. CASE ~(amount < capacity)
      <4>1. capacity \in 1..capacity
        BY <1>1 DEF Settings
      <4>2. n \in Nat /\ n = IF Fresh.rolls + capacity < capacity THEN Fresh.rolls + capacity ELSE capacity
        BY <1>1, <1>2, <1>4, <3>2 DEF Larger, Smaller, Settings
      <4>3. QED  BY <4>1, <4>2
    <3>3. QED  BY <3>1, <3>2
  <2>3. m \in Nat
    OBVIOUS
  <2> HIDE DEF n
  <2>4. Shown /\ EagerClock!Gain(m)
    BY <1>3, <2>1, <2>2, <2>3, GainStep
  <2>5. QED  BY <2>4
<1>5. CASE ~(amount > 0)
  <2>1. -amount \in Nat \ {0} /\ -amount \in 1..capacity /\ -amount <= Fresh.rolls
    BY <1>1, <1>2, <1>5 DEF Settings
  <2>2. PICK m \in 1..capacity : m \in Nat \ {0} /\ m <= Fresh.rolls /\ Fresh.rolls + amount = Fresh.rolls - m
    BY <1>1, <1>2, <2>1
  <2>3. clock' = Update(WithRolls(Fresh, Fresh.rolls + amount), completed)
    BY <1>5 DEF Adjust, WithRolls
  <2>4. clock' = Update(WithRolls(Fresh, Fresh.rolls - m), completed)
    BY <2>2, <2>3
  <2>5. Shown /\ EagerClock!Lose(m)
    BY <1>3, <2>2, <2>4, LoseStep
  <2>6. QED  BY <2>5
<1>6. QED  BY <1>4, <1>5

LEMMA SetCompletedStep ==
  ASSUME TypeOK, Owed(clock, completed), NEW done \in BOOLEAN, SetCompleted(done)
  PROVE  Shown /\ (Unseen \/ EagerClock!Complete \/ EagerClock!Reopen)
<1>1. Settings /\ completed \in BOOLEAN /\ Settled(Fresh, completed)
  BY SettingsFacts, FreshSettled DEF TypeOK
<1>2. clock' = Update(Fresh, done) /\ completed' = done /\ Fixed /\ beat' = beat
  BY DEF SetCompleted, Fixed
<1>3. CASE done = completed
  <2>1. clock' = Fresh /\ completed' = completed
    BY <1>1, <1>2, <1>3, Idempotent
  <2>2. Shown
    BY <1>1, <1>2, <2>1, FreshAfter
  <2>3. QED  BY <1>2, <2>1, <2>2 DEF Shown, Unseen, EagerClock!vars, Fixed
<1>4. CASE done = TRUE /\ completed = FALSE
  <2>1. clock' = Pause(Fresh) /\ completed' = TRUE /\ ~completed
    BY <1>1, <1>2, <1>4, Paused
  <2>2. QED  BY <1>2, <2>1, CompleteStep
<1>5. CASE done = FALSE /\ completed = TRUE
  <2>1. /\ Settled(clock', FALSE) /\ clock'.rolls = Fresh.rolls /\ clock'.paused = None
        /\ clock'.left = IF Fresh.rolls = capacity THEN None
                         ELSE IF Fresh.paused = None THEN interval ELSE Fresh.paused
    BY <1>1, <1>2, <1>5, Reopened
  <2>2. Shown /\ completed /\ completed' = FALSE
    BY <1>2, <1>5, <2>1, FreshAfter
  <2>3. QED  BY <1>2, <2>1, <2>2 DEF Shown, Fixed, EagerClock!Reopen, EagerClock!Fixed
<1>6. QED  BY <1>1, <1>3, <1>4, <1>5

-----------------------------------------------------------------------------
(* Time *)

\* What an overdue clock of an open board shows, q intervals after its deadline.
LEMMA Overdue ==
  ASSUME NEW k, Settings, Owed(k, FALSE), k.left # None, k.left <= 0,
         NEW q, q = (-k.left) \div interval
  PROVE  /\ q \in Nat /\ q * interval \in Int
         /\ Update(k, FALSE).rolls = Smaller(capacity, k.rolls + q + 1)
         /\ Update(k, FALSE).paused = None
         /\ Update(k, FALSE).left = IF Update(k, FALSE).rolls < capacity
                                    THEN k.left + q * interval + interval ELSE None
<1>1. /\ k \in Clocks /\ k.rolls \in Nat /\ k.left \in Int /\ -k.left \in Nat
      /\ k.rolls < capacity /\ k.paused = None /\ interval \in Nat \ {0} /\ capacity \in Nat
  BY Values DEF Owed, Fit, Settings
<1>2. q \in Nat /\ q * interval \in Int /\ (q + 1) * interval = q * interval + interval
  BY <1>1, Division
<1>3. Update(k, FALSE) = PayOut(k)
  BY <1>1 DEF Update
<1>4. Elapsed(k) = q + 1
  BY DEF Elapsed
<1>5. /\ PayOut(k).rolls = Smaller(capacity, k.rolls + (q + 1))
      /\ PayOut(k).paused = None
      /\ PayOut(k).left = IF PayOut(k).rolls < capacity THEN k.left + (q + 1) * interval ELSE None
  BY <1>1, <1>4, PayOutFields
<1>6. k.rolls + (q + 1) = k.rolls + q + 1 /\ k.left + (q + 1) * interval = k.left + q * interval + interval
  BY <1>1, <1>2
<1>7. QED  BY <1>2, <1>3, <1>5, <1>6

LEMMA TickStep ==
  ASSUME TypeOK, Owed(clock, completed), Tick
  PROVE  /\ Owed(clock', completed')
         /\ EagerClock!Idle \/ EagerClock!Wait \/ EagerClock!DieArrives
<1>1. Settings /\ completed \in BOOLEAN /\ clock \in Clocks /\ Settled(Fresh, completed)
  BY SettingsFacts, FreshSettled DEF TypeOK
<1>2. Fixed /\ completed' = completed /\ beat' = 1 - beat
  BY DEF Tick, Fixed
<1>3. Fresh' = Update(clock', completed')
  BY <1>2 DEF Fixed, Fresh, Update, Pause, Resume, PayOut, Smaller, Larger
<1>4. CASE clock.left = None
  <2>1. clock' = clock /\ Fresh' = Fresh
    BY <1>2, <1>3, <1>4 DEF Tick, Fresh
  <2>2. Fresh.left = None
    <3>1. clock.rolls = capacity \/ completed
      BY <1>1, <1>4, Values DEF Owed, Fit, Settings
    <3>2. CASE completed
      BY <1>1, <3>2 DEF Settled, Owed
    <3>3. CASE clock.rolls = capacity
      <4>1. Fresh = Full(clock)
        BY <1>1, <3>3 DEF Fresh, Update, Full, Settings
      <4>2. QED  BY <1>1, <4>1, FullFields
    <3>4. QED  BY <3>1, <3>2, <3>3
  <2>3. QED  BY <1>2, <2>1, <2>2 DEF Fixed, EagerClock!Idle, EagerClock!Beat
<1>5. CASE clock.left # None
  <2> DEFINE l == clock.left
  <2>1. /\ completed = FALSE /\ completed' = FALSE /\ l \in Int /\ clock.rolls \in Nat
        /\ clock.rolls < capacity /\ clock.paused = None /\ l <= interval
        /\ interval \in Nat \ {0} /\ capacity \in Nat
    BY <1>1, <1>2, <1>5, Values DEF Owed, Fit, Settings
  <2>2. clock' = WithLeft(clock, l - 1)
    BY <1>5 DEF Tick, WithLeft
  <2>3. l - 1 \in Int /\ l - 1 \in Int \cup {None} /\ l - 1 # None /\ l - 1 <= interval
    BY <2>1, NoneIsNoNumber
  <2>4. /\ clock' \in Clocks /\ clock'.rolls = clock.rolls /\ clock'.left = l - 1
        /\ clock'.paused = None
    BY <1>1, <2>1, <2>2, <2>3, LeftFields
  <2>5. Owed(clock', completed') /\ Owed(clock', FALSE) /\ Owed(clock, FALSE)
    BY <1>1, <2>1, <2>3, <2>4 DEF Owed, Fit
  <2>6. CASE l > 1
    <3>1. Settled(clock, FALSE) /\ Settled(clock', FALSE)
      BY <2>1, <2>3, <2>4, <2>5, <2>6 DEF Settled, Owed, Fit
    <3>2. Fresh = clock /\ Fresh' = clock'
      BY <1>1, <1>3, <2>1, <3>1, Idempotent DEF Fresh
    <3>3. QED
      BY <1>2, <1>5, <2>4, <2>5, <2>6, <2>1, <3>2 DEF Fixed, EagerClock!Wait, EagerClock!Beat
  <2>7. CASE l = 1
    <3>1. Settled(clock, FALSE)
      BY <2>5, <2>7 DEF Settled, Owed, Fit
    <3>2. Fresh = clock
      BY <1>1, <2>1, <3>1, Idempotent DEF Fresh
    <3> DEFINE q == (-clock'.left) \div interval
    <3>3. clock'.left # None /\ clock'.left <= 0 /\ clock'.left = 0
      BY <2>3, <2>4, <2>7
    <3>4. q = 0 /\ q * interval = 0
      BY <2>1, <3>3, Division
    <3>5. q = (-clock'.left) \div interval
      OBVIOUS
    <3> HIDE DEF q
    <3>6. /\ Fresh'.rolls = Smaller(capacity, clock'.rolls + q + 1)
          /\ Fresh'.paused = None
          /\ Fresh'.left = IF Fresh'.rolls < capacity THEN clock'.left + q * interval + interval ELSE None
      BY <1>1, <1>3, <2>1, <2>5, <3>3, <3>5, Overdue
    <3>7. /\ Fresh'.rolls = clock.rolls + 1
          /\ Fresh'.left = IF Fresh'.rolls < capacity THEN interval ELSE None
      BY <2>1, <2>4, <3>3, <3>4, <3>6 DEF Smaller
    <3>8. QED
      BY <1>2, <2>1, <2>5, <2>7, <3>2, <3>6, <3>7 DEF Fixed, EagerClock!DieArrives, EagerClock!Beat
  <2>8. CASE l <= 0
    <3> DEFINE a == -l
               q == a \div interval
               p == (-clock'.left) \div interval
    <3>1. a \in Nat /\ -clock'.left = a + 1 /\ clock'.left <= 0 /\ clock'.left # None
      BY <2>1, <2>3, <2>4, <2>8
    <3>2. q \in Nat /\ q * interval \in Int /\ a < q * interval + interval
      <4> HIDE DEF a
      <4>1. q \in Nat /\ a < q * interval + interval
        BY <2>1, <3>1, Division
      <4>2. QED  BY <2>1, <4>1
    <3>3. \/ p = q /\ a + 1 < q * interval + interval
          \/ p = q + 1 /\ a + 1 = q * interval + interval
      <4> HIDE DEF a
      <4>1. a \in Nat /\ interval \in Nat \ {0} /\ p = (a + 1) \div interval
        BY <2>1, <3>1
      <4>2. QED  BY <4>1, NextQuotient
    <3>4. q = (-clock.left) \div interval /\ p = (-clock'.left) \div interval
      OBVIOUS
    <3> HIDE DEF q, p
    <3>5. /\ Fresh.rolls = Smaller(capacity, clock.rolls + q + 1)
          /\ Fresh.paused = None
          /\ Fresh.left = IF Fresh.rolls < capacity THEN clock.left + q * interval + interval ELSE None
      BY <1>1, <1>5, <2>1, <2>5, <2>8, <3>4, Overdue DEF Fresh
    <3>6. /\ Fresh'.rolls = Smaller(capacity, clock.rolls + p + 1)
          /\ Fresh'.paused = None
          /\ Fresh'.left = IF Fresh'.rolls < capacity THEN clock.left - 1 + p * interval + interval ELSE None
      BY <1>1, <1>3, <2>1, <2>4, <2>5, <3>1, <3>4, Overdue
    <3>7. CASE ~(Fresh.rolls < capacity)
      <4>1. Fresh.rolls = capacity /\ Fresh'.rolls = capacity /\ Fresh.left = None /\ Fresh'.left = None
        BY <2>1, <3>2, <3>3, <3>5, <3>6, <3>7 DEF Smaller
      <4>2. QED  BY <1>2, <2>5, <3>5, <3>6, <4>1 DEF Fixed, EagerClock!Idle, EagerClock!Beat
    <3>8. CASE Fresh.rolls < capacity /\ p = q /\ a + 1 < q * interval + interval
      <4>1. /\ Fresh'.rolls = Fresh.rolls
            /\ Fresh.left = clock.left + q * interval + interval
            /\ Fresh'.left = clock.left - 1 + q * interval + interval
        BY <3>5, <3>6, <3>8
      <4>2. Fresh.left \in Int /\ Fresh.left > 1 /\ Fresh'.left = Fresh.left - 1
        BY <2>1, <3>2, <3>8, <4>1
      <4>3. Fresh.left # None
        BY <4>2, NoneIsNoNumber
      <4>4. QED
        BY <1>2, <2>5, <3>5, <3>6, <4>1, <4>2, <4>3 DEF Fixed, EagerClock!Wait, EagerClock!Beat
    <3>9. CASE Fresh.rolls < capacity /\ p = q + 1 /\ a + 1 = q * interval + interval
      <4>1. Fresh.rolls = clock.rolls + q + 1 /\ Fresh'.rolls = Fresh.rolls + 1
        BY <2>1, <3>2, <3>5, <3>6, <3>9 DEF Smaller
      <4>2. Fresh.left = 1
        BY <2>1, <3>2, <3>5, <3>9
      <4>3. p * interval = q * interval + interval
        BY <2>1, <3>2, <3>9
      <4>4. Fresh'.left = IF Fresh'.rolls < capacity THEN interval ELSE None
        BY <2>1, <3>2, <3>6, <3>9, <4>3
      <4>5. QED
        BY <1>2, <2>5, <3>5, <3>6, <4>1, <4>2, <4>4 DEF Fixed, EagerClock!DieArrives, EagerClock!Beat
    <3>10. QED  BY <3>3, <3>7, <3>8, <3>9
  <2>9. QED  BY <2>1, <2>6, <2>7, <2>8
<1>6. QED  BY <1>4, <1>5

-----------------------------------------------------------------------------
(* Theorems *)

\* The steps of the system with the settings fixed.
LEMMA Step ==
  ASSUME TypeOK, Owed(clock, completed), [Next]_vars, changes' = 0
  PROVE  Fixed /\ Owed(clock', completed') /\ [EagerClock!Next]_(EagerClock!vars)
<1> USE DEF Shown, Settled, EagerClock!Next
<1>1. CASE Tick
  BY <1>1, TickStep DEF Tick, Fixed
<1>2. CASE Read
  BY <1>2, ReadStep DEF Read, Fixed, Unseen
<1>3. ASSUME NEW completes \in BOOLEAN, Consume(completes)
      PROVE  Fixed /\ Owed(clock', completed') /\ [EagerClock!Next]_(EagerClock!vars)
  BY <1>3, ConsumeStep DEF Consume, Fixed
<1>4. CASE CompleteForFree
  BY <1>4, CompleteStep DEF CompleteForFree, Fixed
<1>5. CASE Reward
  <2>1. 1 \in 1..capacity
    BY SettingsFacts DEF Settings
  <2>2. QED  BY <1>5, <2>1, RewardStep DEF Reward, Fixed, Unseen
<1>6. ASSUME NEW amount \in Adjustments, Adjust(amount)
      PROVE  Fixed /\ Owed(clock', completed') /\ [EagerClock!Next]_(EagerClock!vars)
  BY <1>6, AdjustStep DEF Adjust, Fixed
<1>7. ASSUME NEW done \in BOOLEAN, SetCompleted(done)
      PROVE  Fixed /\ Owed(clock', completed') /\ [EagerClock!Next]_(EagerClock!vars)
  BY <1>7, SetCompletedStep DEF SetCompleted, Fixed, Unseen
<1>8. ASSUME NEW c \in CapacityOptions, NEW i \in IntervalOptions, ChangeSettings(c, i)
      PROVE  FALSE
  BY <1>8 DEF ChangeSettings, TypeOK
<1>9. CASE UNCHANGED vars
  BY <1>9 DEF vars, Fresh, Fixed, EagerClock!vars, Update, Pause, Resume, PayOut, Smaller, Larger
<1>10. QED
  BY <1>1, <1>2, <1>3, <1>4, <1>5, <1>6, <1>7, <1>8, <1>9 DEF Next

\* The settings do not change back.
LEMMA ChangesGrow ==
  ASSUME TypeOK, [Next]_vars, changes' = 0
  PROVE  changes = 0
<1>1. changes \in Nat
  BY RechargeAssumption DEF TypeOK
<1>2. changes' = changes \/ changes' = changes + 1
  BY DEF Next, Tick, Read, Consume, CompleteForFree, Reward, Adjust, SetCompleted, ChangeSettings, vars
<1>3. QED  BY <1>1, <1>2

LEMMA InvStep == IInv /\ [Next]_vars => IInv'
<1> SUFFICES ASSUME IInv, [Next]_vars PROVE IInv'
  OBVIOUS
<1>1. TypeOK'
  BY TypeStep DEF IInv
<1>2. ASSUME changes' = 0
      PROVE  Owed(clock, completed)'
  <2>1. Fixed /\ Owed(clock', completed')
    BY <1>2, Step, ChangesGrow DEF IInv
  <2>2. QED  BY <2>1 DEF Fixed, Owed, Fit
<1>3. QED  BY <1>1, <1>2 DEF IInv

LEMMA Invariance == Spec => []IInv
BY InitInv, InvStep, PTL DEF Spec

\* Type correctness, whatever the settings become.
THEOREM TypeCorrect == Spec => []TypeOK
<1>1. IInv => TypeOK
  BY DEF IInv
<1>2. QED  BY <1>1, Invariance, PTL

\* The clock runs exactly while a recharge is owed.
THEOREM RunsWhenOwed == Spec => []ClockRunsWhenOwed
<1>1. IInv => ClockRunsWhenOwed
  BY SettingsFacts DEF IInv, ClockRunsWhenOwed, Owed, Fit, Settings
<1>2. QED  BY <1>1, Invariance, PTL

\* The lazy clock implements the eager one.
THEOREM ImplementsEagerClock == Spec => PaysOnTime
<1>1. Init => EagerClock!Init
  <2> SUFFICES ASSUME Init PROVE EagerClock!Init
    OBVIOUS
  <2>1. TypeOK /\ Owed(clock, completed) /\ Settings
    BY InitInv, SettingsFacts DEF IInv, Init
  <2>2. clock.rolls = capacity /\ clock.left = None /\ clock.paused = None
    BY DEF Init
  <2>3. Fresh = Full(clock)
    BY <2>1, <2>2 DEF Fresh, Update, Full, Settings
  <2>4. Fresh.rolls = capacity /\ Fresh.left = None /\ Fresh.paused = None
    BY <2>1, <2>2, <2>3, FullFields DEF TypeOK
  <2>5. QED  BY <2>4 DEF Init, EagerClock!Init
<1>2. IInv /\ [Next]_vars => [changes' = 0 => [EagerClock!Next]_(EagerClock!vars)]_vars
  BY Step, ChangesGrow DEF IInv
<1>3. QED  BY <1>1, <1>2, Invariance, PTL DEF Spec, PaysOnTime
=============================================================================

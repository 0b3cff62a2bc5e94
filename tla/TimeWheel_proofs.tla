-------------------------- MODULE TimeWheel_proofs --------------------------
(***************************************************************************)
(* The correctness of the time wheels for any number of wheels, slots and  *)
(* coroutines, any delays and any lag.                                     *)
(*                                                                         *)
(* The heart of it is Due: the ticks a sleeper has waited, the ticks until *)
(* its slot is over and what is left of its delay after that.  A tick that *)
(* leaves the sleeper where it is does not change Due, and a cascade from  *)
(* wheel k + 1 adds one turn of wheel k.  So a sleeper fires in time       *)
(* (Placed), and of two sleepers taken over before the same tick the one   *)
(* with the shorter delay never falls behind (InOrder).                    *)
(*                                                                         *)
(* The wheels are recursive functions of the wheel.  Facts about them are  *)
(* proved by induction on a set of wheels (UpTo), which rests on the least *)
(* element of a set of numbers (LeastNumber).                              *)
(***************************************************************************)
EXTENDS TimeWheel, FiniteSetTheorems, WellFoundedInduction, TLAPS

-----------------------------------------------------------------------------
(* Numbers, one after the other *)

\* Every nonempty set of natural numbers has a least element.
LEMMA LeastNumber ==
    ASSUME NEW S \in SUBSET Nat, S # {}
    PROVE  \E x \in S : \A y \in S : x <= y
<1> DEFINE Segments == {0 .. k : k \in S}
<1>1. Segments \subseteq FiniteSubsetsOf(Nat) /\ Segments # {}
  <2>1. \A k \in S : IsFiniteSet(0 .. k) /\ 0 .. k \subseteq Nat
    BY FS_Interval
  <2> QED BY <2>1 DEF FiniteSubsetsOf
<1>2. PICK A \in Segments : \A B \in Segments : <<B, A>> \notin StrictSubsetOrdering(Nat)
  <2> HIDE DEF Segments
  <2> QED BY <1>1, FS_StrictSubsetOrderingWellFounded, WFMin
<1>3. PICK x \in S : A = 0 .. x
  OBVIOUS
<1>4. ASSUME NEW y \in S, y < x
      PROVE  FALSE
  <2>1. x \in 0 .. x /\ x \notin 0 .. y
    BY <1>4
  <2>2. <<0 .. y, 0 .. x>> \in StrictSubsetOrdering(Nat)
    BY <1>4, <2>1 DEF StrictSubsetOrdering
  <2> QED BY <2>2, <1>2, <1>3
<1> QED BY <1>4

\* A set that contains 0 and with each number the next one contains them all.
LEMMA UpTo ==
    ASSUME NEW N \in Nat, NEW S, 0 \in S, \A n \in 0 .. N - 1 : n \in S => n + 1 \in S
    PROVE  \A n \in 0 .. N : n \in S
<1> SUFFICES ASSUME (0 .. N) \ S # {}
             PROVE  FALSE
  OBVIOUS
<1>1. PICK x \in (0 .. N) \ S : \A y \in (0 .. N) \ S : x <= y
  <2>1. (0 .. N) \ S \in SUBSET Nat
    OBVIOUS
  <2> QED BY <2>1, LeastNumber
<1>2. x # 0 /\ x \in Nat /\ x <= N
  BY <1>1
<1>3. x - 1 \in 0 .. N - 1 /\ x - 1 < x /\ (x - 1) + 1 = x
  BY <1>2
<1>4. x - 1 \in S
  BY <1>1, <1>3
<1> QED BY <1>1, <1>3, <1>4

\* The function f goes from a by the step h.
Follows(f, N, a, h) == f[0] = a /\ \A k \in 1 .. N : f[k] = h[<<k, f[k - 1]>>]

\* Such a function exists: a recursive definition over 0 .. N is one.
LEMMA Recursion ==
    ASSUME NEW N \in Nat, NEW V, NEW a \in V, NEW h \in [(1 .. N) \X V -> V]
    PROVE  \E f \in [0 .. N -> V] : Follows(f, N, a, h)
<1> DEFINE Good(f, n) == f[0] = a /\ \A k \in 1 .. n : f[k] = h[<<k, f[k - 1]>>]
           S == {n \in 0 .. N : \E f \in [0 .. N -> V] : Good(f, n)}
<1>1. 0 \in S
  <2>1. PICK f : f = [k \in 0 .. N |-> a]
    OBVIOUS
  <2>2. f \in [0 .. N -> V] /\ f[0] = a /\ 1 .. 0 = {}
    BY <2>1
  <2> QED BY <2>2
<1>2. ASSUME NEW n \in 0 .. N - 1, n \in S
      PROVE  n + 1 \in S
  <2>1. PICK f \in [0 .. N -> V] : Good(f, n)
    BY <1>2
  <2>2. n \in 0 .. N /\ n + 1 \in 1 .. N /\ n + 1 \in 0 .. N
    OBVIOUS
  <2>3. f[n] \in V /\ h[<<n + 1, f[n]>>] \in V
    BY <2>2
  <2>4. PICK g : g = [f EXCEPT ![n + 1] = h[<<n + 1, f[n]>>]]
    OBVIOUS
  <2>5. g \in [0 .. N -> V] /\ g[n + 1] = h[<<n + 1, f[n]>>] /\ \A k \in 0 .. n : g[k] = f[k]
    BY <2>2, <2>3, <2>4
  <2>6. \A k \in 1 .. n + 1 : g[k] = h[<<k, g[k - 1]>>]
    <3>1. ASSUME NEW k \in 1 .. n + 1, k # n + 1
          PROVE  k \in 1 .. n /\ k \in 0 .. n /\ k - 1 \in 0 .. n
      BY <3>1
    <3>2. (n + 1) - 1 = n /\ n \in 0 .. n
      OBVIOUS
    <3> QED BY <2>1, <2>5, <3>1, <3>2
  <2>7. Good(g, n + 1)
    BY <2>1, <2>5, <2>6
  <2> QED BY <2>2, <2>5, <2>7
<1> HIDE DEF S
<1>3. \A n \in 0 .. N - 1 : n \in S => n + 1 \in S
  BY <1>2
<1>4. N \in S
  <2>1. \A n \in 0 .. N : n \in S
    BY <1>1, <1>3, UpTo
  <2> QED BY <2>1
<1> QED BY <1>4 DEF S, Follows

-----------------------------------------------------------------------------
(* The wheels *)

\* What the assumptions say of the number of wheels and slots.
LEMMA Constants ==
    /\ SLOTS \in Nat /\ SLOTS >= 2
    /\ WHEELS \in Nat /\ WHEELS >= 1
    /\ 0 \in Wheels /\ 0 \in Slots
    /\ \A k \in Wheels : k \in Nat /\ k \in 0 .. WHEELS /\ k + 1 \in 0 .. WHEELS
    /\ \A i \in Slots : i \in Nat /\ i < SLOTS
BY WheelsAssumption DEF Wheels, Slots

\* init() gives each wheel SLOTS times the interval of the one below.
LEMMA Intervals ==
    /\ \A k \in 0 .. WHEELS : intervalMS[k] \in Nat \ {0}
    /\ intervalMS[0] = 1
    /\ \A k \in Wheels : intervalMS[k + 1] = intervalMS[k] * SLOTS
<1>1. WHEELS \in Nat /\ SLOTS \in Nat \ {0}
  BY Constants
<1>2. PICK V : V = Nat \ {0}
  OBVIOUS
<1>3. \E f : f = [k \in 0 .. WHEELS |-> IF k = 0 THEN 1 ELSE f[k - 1] * SLOTS]
  <2>1. PICK h : h = [p \in (1 .. WHEELS) \X V |-> p[2] * SLOTS]
    OBVIOUS
  <2>2. \A v \in V : v * SLOTS \in V
    BY <1>1, <1>2
  <2>3. h \in [(1 .. WHEELS) \X V -> V] /\ 1 \in V
    BY <1>2, <2>1, <2>2
  <2>4. PICK f \in [0 .. WHEELS -> V] : Follows(f, WHEELS, 1, h)
    BY <1>1, <2>3, Recursion
  <2>5. \A k \in 0 .. WHEELS : k # 0 => k \in 1 .. WHEELS /\ k - 1 \in 0 .. WHEELS
    BY <1>1
  <2>6. \A k \in 1 .. WHEELS : f[k] = f[k - 1] * SLOTS
    <3>1. ASSUME NEW k \in 1 .. WHEELS
          PROVE  f[k] = f[k - 1] * SLOTS
      <4>1. k - 1 \in 0 .. WHEELS
        BY <1>1
      <4>2. <<k, f[k - 1]>> \in (1 .. WHEELS) \X V
        BY <4>1
      <4> QED BY <2>1, <2>4, <4>2 DEF Follows
    <3> QED BY <3>1
  <2> QED BY <2>4, <2>5, <2>6 DEF Follows
<1>4. intervalMS = [k \in 0 .. WHEELS |-> IF k = 0 THEN 1 ELSE intervalMS[k - 1] * SLOTS]
  BY <1>3 DEF intervalMS
<1>5. intervalMS[0] = 1 /\ \A k \in 0 .. WHEELS : k # 0 => intervalMS[k] = intervalMS[k - 1] * SLOTS
  BY <1>1, <1>4
<1>6. PICK S : S = {k \in 0 .. WHEELS : intervalMS[k] \in V}
  OBVIOUS
<1>7. 0 \in S
  BY <1>1, <1>2, <1>5, <1>6
<1>8. \A n \in 0 .. WHEELS - 1 : n \in S => n + 1 \in S
  <2>1. ASSUME NEW n \in 0 .. WHEELS - 1, n \in S
        PROVE  n + 1 \in S
    <3>1. n + 1 \in 0 .. WHEELS /\ n + 1 # 0 /\ (n + 1) - 1 = n
      BY <1>1
    <3>2. intervalMS[n + 1] = intervalMS[n] * SLOTS
      BY <1>5, <3>1
    <3>3. intervalMS[n] \in Nat \ {0}
      BY <1>2, <1>6, <2>1
    <3>4. intervalMS[n] * SLOTS \in Nat \ {0}
      BY <1>1, <3>3
    <3> QED BY <1>2, <1>6, <3>1, <3>2, <3>4
  <2> QED BY <2>1
<1>9. \A k \in 0 .. WHEELS : k \in S
  BY <1>1, <1>7, <1>8, UpTo
<1>10. \A k \in Wheels : intervalMS[k + 1] = intervalMS[k] * SLOTS
  <2>1. \A k \in Wheels : k + 1 \in 0 .. WHEELS /\ k + 1 # 0 /\ (k + 1) - 1 = k
    BY <1>1 DEF Wheels
  <2> QED BY <1>5, <2>1
<1> QED BY <1>2, <1>5, <1>6, <1>9, <1>10

\* How far the wheels have turned, wheel by wheel.
LEMMA TurnedRecursion ==
    ASSUME NEW cur \in [Wheels -> Slots]
    PROVE  /\ Turned(cur)[0] = 0
           /\ \A k \in Wheels : Turned(cur)[k + 1] = Turned(cur)[k] + cur[k] * intervalMS[k]
<1>1. WHEELS \in Nat /\ \A k \in 0 .. WHEELS : intervalMS[k] \in Nat
  BY Constants, Intervals
<1>2. \A k \in Wheels : cur[k] \in Nat
  BY Constants
<1>3. \E f : f = [k \in 0 .. WHEELS |->
                    IF k = 0 THEN 0 ELSE f[k - 1] + cur[k - 1] * intervalMS[k - 1]]
  <2>1. PICK h : h = [p \in (1 .. WHEELS) \X Int |-> p[2] + cur[p[1] - 1] * intervalMS[p[1] - 1]]
    OBVIOUS
  <2>2. \A k \in 1 .. WHEELS : k - 1 \in Wheels /\ k - 1 \in 0 .. WHEELS
    BY <1>1 DEF Wheels
  <2>3. \A k \in 1 .. WHEELS : cur[k - 1] \in Nat /\ intervalMS[k - 1] \in Nat
    BY <1>1, <1>2, <2>2
  <2>4. ASSUME NEW k \in 1 .. WHEELS, NEW v \in Int
        PROVE  v + cur[k - 1] * intervalMS[k - 1] \in Int
    <3>1. PICK x \in Nat, y \in Nat : x = cur[k - 1] /\ y = intervalMS[k - 1]
      BY <2>3
    <3>2. v + x * y \in Int
      OBVIOUS
    <3> QED BY <3>1, <3>2
  <2>5. h \in [(1 .. WHEELS) \X Int -> Int]
    BY <2>1, <2>4
  <2>6. PICK f \in [0 .. WHEELS -> Int] : Follows(f, WHEELS, 0, h)
    <3>1. 0 \in Int
      OBVIOUS
    <3> QED BY <1>1, <2>5, <3>1, Recursion
  <2>7. \A k \in 1 .. WHEELS : f[k] = f[k - 1] + cur[k - 1] * intervalMS[k - 1]
    <3>1. ASSUME NEW k \in 1 .. WHEELS
          PROVE  f[k] = f[k - 1] + cur[k - 1] * intervalMS[k - 1]
      <4>1. f[k - 1] \in Int
        BY <2>2
      <4>2. <<k, f[k - 1]>> \in (1 .. WHEELS) \X Int
        BY <4>1
      <4> QED BY <2>1, <2>6, <4>2 DEF Follows
    <3> QED BY <3>1
  <2>8. \A k \in 0 .. WHEELS : k # 0 => k \in 1 .. WHEELS
    BY <1>1
  <2> QED BY <2>6, <2>7, <2>8 DEF Follows
<1>4. PICK f : f = Turned(cur)
  OBVIOUS
<1>5. f = [k \in 0 .. WHEELS |->
             IF k = 0 THEN 0 ELSE f[k - 1] + cur[k - 1] * intervalMS[k - 1]]
  BY <1>3, <1>4 DEF Turned
<1>6. \A k \in Wheels : k + 1 \in 0 .. WHEELS /\ k + 1 # 0 /\ (k + 1) - 1 = k
  BY <1>1 DEF Wheels
<1>7. \A k \in Wheels : f[k + 1] = f[k] + cur[k] * intervalMS[k]
  BY <1>5, <1>6
<1>8. f[0] = 0
  BY <1>1, <1>5
<1> QED BY <1>4, <1>7, <1>8

\* All the wheels below k are at their last slot.
Full(cur, k) == \A j \in 0 .. k - 1 : cur[j] = SLOTS - 1

\* Full at one wheel more.
LEMMA FullNext ==
    ASSUME NEW cur, NEW k \in Nat
    PROVE  Full(cur, 0) /\ (Full(cur, k + 1) <=> Full(cur, k) /\ cur[k] = SLOTS - 1)
<1>1. \A j : j \in 0 .. (k + 1) - 1 <=> j \in 0 .. k - 1 \/ j = k
  OBVIOUS
<1>2. \A j : j \notin 0 .. 0 - 1
  OBVIOUS
<1> QED BY <1>1, <1>2 DEF Full

\* The lower wheels together have turned less than the wheel above them goes
\* in one slot, and one tick less exactly when they are all at their last slot.
LEMMA TurnedBelow ==
    ASSUME NEW cur \in [Wheels -> Slots]
    PROVE  \A k \in 0 .. WHEELS : /\ Turned(cur)[k] \in 0 .. intervalMS[k] - 1
                                  /\ Turned(cur)[k] = intervalMS[k] - 1 <=> Full(cur, k)
<1> DEFINE P(k) == /\ Turned(cur)[k] \in 0 .. intervalMS[k] - 1
                   /\ Turned(cur)[k] = intervalMS[k] - 1 <=> Full(cur, k)
<1>1. PICK S : S = {k \in 0 .. WHEELS : P(k)}
  OBVIOUS
<1>2. 0 \in S
  <2>1. Turned(cur)[0] = 0 /\ intervalMS[0] = 1 /\ Full(cur, 0)
    BY TurnedRecursion, Intervals, FullNext
  <2>2. 0 \in 0 .. WHEELS
    BY Constants
  <2> QED BY <1>1, <2>1, <2>2
<1>3. ASSUME NEW n \in 0 .. WHEELS - 1, n \in S
      PROVE  n + 1 \in S
  <2>1. n \in Wheels /\ n + 1 \in 0 .. WHEELS /\ n \in 0 .. WHEELS /\ n \in Nat
    BY Constants DEF Wheels
  <2>2. PICK t, i, c, t2, i2 : /\ t = Turned(cur)[n] /\ i = intervalMS[n] /\ c = cur[n]
                               /\ t2 = Turned(cur)[n + 1] /\ i2 = intervalMS[n + 1]
    OBVIOUS
  <2>3. /\ i \in Nat \ {0} /\ c \in 0 .. SLOTS - 1 /\ SLOTS \in Nat /\ SLOTS >= 2
        /\ t \in 0 .. i - 1 /\ (t = i - 1 <=> Full(cur, n))
    BY <1>1, <1>3, <2>1, <2>2, Intervals, Constants DEF Slots
  <2>4. t2 = t + c * i /\ i2 = i * SLOTS
    BY <2>1, <2>2, TurnedRecursion, Intervals
  <2>5. Full(cur, n + 1) <=> t = i - 1 /\ c = SLOTS - 1
    BY <2>1, <2>2, <2>3, FullNext
  <2>6. (c + 1) * i <= SLOTS * i /\ (c + 1) * i = c * i + i /\ c * i \in Nat
    BY <2>3
  <2>7. t2 \in 0 .. i2 - 1
    BY <2>3, <2>4, <2>6
  <2>8. CASE c = SLOTS - 1
    <3>1. c * i = SLOTS * i - i
      BY <2>3, <2>8
    <3>2. t2 = i2 - 1 <=> t = i - 1
      BY <2>3, <2>4, <3>1
    <3> QED BY <1>1, <2>1, <2>2, <2>5, <2>7, <2>8, <3>2
  <2>9. CASE c # SLOTS - 1
    <3>1. (c + 2) * i <= SLOTS * i /\ (c + 2) * i = c * i + 2 * i
      BY <2>3, <2>9
    <3>2. t2 # i2 - 1
      BY <2>3, <2>4, <2>6, <3>1
    <3> QED BY <1>1, <2>1, <2>2, <2>5, <2>7, <2>9, <3>2
  <2> QED BY <2>8, <2>9
<1>4. \A n \in 0 .. WHEELS - 1 : n \in S => n + 1 \in S
  BY <1>3
<1>5. \A k \in 0 .. WHEELS : k \in S
  BY <1>2, <1>4, UpTo, Constants
<1> QED BY <1>1, <1>5

\* One tick: a wheel goes on when all below it were at their last slot.
Advanced(cur, cur2) ==
    \A k \in Wheels : cur2[k] = IF Full(cur, k) THEN (cur[k] + 1) % SLOTS ELSE cur[k]

\* A tick counts one on, and back to 0 where all the wheels wrap.
LEMMA TurnedAdvances ==
    ASSUME NEW cur \in [Wheels -> Slots], NEW cur2 \in [Wheels -> Slots], Advanced(cur, cur2)
    PROVE  \A k \in 0 .. WHEELS :
              Turned(cur2)[k] = IF Full(cur, k) THEN 0 ELSE Turned(cur)[k] + 1
<1> DEFINE P(k) == Turned(cur2)[k] = IF Full(cur, k) THEN 0 ELSE Turned(cur)[k] + 1
<1>1. PICK S : S = {k \in 0 .. WHEELS : P(k)}
  OBVIOUS
<1>2. 0 \in S
  <2>1. Turned(cur2)[0] = 0 /\ Full(cur, 0)
    BY TurnedRecursion, FullNext
  <2>2. 0 \in 0 .. WHEELS
    BY Constants
  <2> QED BY <1>1, <2>1, <2>2
<1>3. ASSUME NEW n \in 0 .. WHEELS - 1, n \in S
      PROVE  n + 1 \in S
  <2>1. n \in Wheels /\ n + 1 \in 0 .. WHEELS /\ n \in 0 .. WHEELS /\ n \in Nat
    BY Constants DEF Wheels
  <2>2. PICK t, u, i, c, d, t2, u2 :
           /\ t = Turned(cur)[n] /\ u = Turned(cur2)[n] /\ i = intervalMS[n]
           /\ c = cur[n] /\ d = cur2[n]
           /\ t2 = Turned(cur)[n + 1] /\ u2 = Turned(cur2)[n + 1]
    OBVIOUS
  <2>3. /\ i \in Nat \ {0} /\ c \in 0 .. SLOTS - 1 /\ SLOTS \in Nat /\ SLOTS >= 2
        /\ t \in 0 .. i - 1 /\ (t = i - 1 <=> Full(cur, n))
    BY <2>1, <2>2, Intervals, Constants, TurnedBelow DEF Slots
  <2>4. t2 = t + c * i /\ u2 = u + d * i
    BY <2>1, <2>2, TurnedRecursion
  <2>5. u = IF Full(cur, n) THEN 0 ELSE t + 1
    BY <1>1, <1>3, <2>2
  <2>6. d = IF Full(cur, n) THEN (c + 1) % SLOTS ELSE c
    BY <2>1, <2>2 DEF Advanced
  <2>7. Full(cur, n + 1) <=> Full(cur, n) /\ c = SLOTS - 1
    BY <2>1, <2>2, FullNext
  <2>8. u2 = IF Full(cur, n + 1) THEN 0 ELSE t2 + 1
    <3>1. CASE ~Full(cur, n)
      BY <2>3, <2>4, <2>5, <2>6, <2>7, <3>1
    <3>2. CASE Full(cur, n) /\ c = SLOTS - 1
      <4>1. (c + 1) % SLOTS = 0
        BY <2>3, <3>2
      <4> QED BY <2>3, <2>4, <2>5, <2>6, <2>7, <3>2, <4>1
    <3>3. CASE Full(cur, n) /\ c # SLOTS - 1
      <4>1. (c + 1) % SLOTS = c + 1
        BY <2>3, <3>3
      <4>2. (c + 1) * i = c * i + i
        BY <2>3
      <4> QED BY <2>3, <2>4, <2>5, <2>6, <2>7, <3>3, <4>1, <4>2
    <3> QED BY <3>1, <3>2, <3>3
  <2> QED BY <1>1, <2>1, <2>2, <2>8
<1>4. \A n \in 0 .. WHEELS - 1 : n \in S => n + 1 \in S
  BY <1>3
<1>5. \A k \in 0 .. WHEELS : k \in S
  BY <1>2, <1>4, UpTo, Constants
<1> QED BY <1>1, <1>5

\* A higher wheel is never faster.
LEMMA IntervalsGrow ==
    \A k \in 0 .. WHEELS : \A j \in 0 .. k : intervalMS[j] <= intervalMS[k]
<1>1. PICK S : S = {k \in 0 .. WHEELS : \A j \in 0 .. k : intervalMS[j] <= intervalMS[k]}
  OBVIOUS
<1>2. 0 \in S
  <2>1. intervalMS[0] <= intervalMS[0] /\ 0 \in 0 .. WHEELS /\ \A j \in 0 .. 0 : j = 0
    BY Intervals, Constants
  <2> QED BY <1>1, <2>1
<1>3. ASSUME NEW n \in 0 .. WHEELS - 1, n \in S
      PROVE  n + 1 \in S
  <2>1. n \in Wheels /\ n + 1 \in 0 .. WHEELS /\ n \in 0 .. WHEELS /\ n \in Nat
    BY Constants DEF Wheels
  <2>2. PICK x, y : x = intervalMS[n] /\ y = intervalMS[n + 1]
    OBVIOUS
  <2>3. x \in Nat \ {0} /\ y \in Nat /\ y = x * SLOTS /\ SLOTS \in Nat /\ SLOTS >= 2
    BY <2>1, <2>2, Intervals, Constants
  <2>4. x <= y
    BY <2>3
  <2>5. ASSUME NEW j \in 0 .. n + 1
        PROVE  intervalMS[j] <= intervalMS[n + 1]
    <3>1. CASE j = n + 1
      <4>1. intervalMS[j] = y /\ intervalMS[n + 1] = y /\ y \in Nat
        BY <2>2, <2>3, <3>1
      <4> QED BY <4>1
    <3>2. CASE j # n + 1
      <4>1. j \in 0 .. n /\ j \in 0 .. WHEELS
        BY <2>1, <3>2, Constants
      <4>2. intervalMS[j] <= x /\ intervalMS[j] \in Nat
        BY <1>1, <1>3, <2>2, <4>1, Intervals
      <4> QED BY <2>2, <2>3, <2>4, <4>2
    <3> QED BY <3>1, <3>2
  <2> QED BY <1>1, <2>1, <2>5
<1>4. \A n \in 0 .. WHEELS - 1 : n \in S => n + 1 \in S
  BY <1>3
<1>5. \A k \in 0 .. WHEELS : k \in S
  BY <1>2, <1>4, UpTo, Constants
<1> QED BY <1>1, <1>5

\* internal_add_event() finds the wheel for every delay that is not too long.
LEMMA WheelForDelay ==
    ASSUME NEW d \in Nat, ~TooLong(d)
    PROVE  /\ WheelFor(d) \in Wheels
           /\ d < intervalMS[WheelFor(d) + 1]
           /\ WheelFor(d) = 0 \/ intervalMS[WheelFor(d)] <= d
<1>1. PICK S : S = {k \in 0 .. WHEELS : d < intervalMS[k]}
  OBVIOUS
<1>2. WHEELS \in S
  <2>1. WHEELS \in 0 .. WHEELS /\ intervalMS[WHEELS] \in Nat
    BY Constants, Intervals
  <2> QED BY <1>1, <2>1 DEF TooLong
<1>3. PICK x \in S : \A y \in S : x <= y
  <2>1. S \in SUBSET Nat
    BY <1>1, Constants
  <2> QED BY <1>2, <2>1, LeastNumber
<1>4. PICK j : j = IF x = 0 THEN 0 ELSE x - 1
  OBVIOUS
<1>5. j \in Wheels /\ d < intervalMS[j + 1] /\ (j = 0 \/ intervalMS[j] <= d)
  <2>1. x \in 0 .. WHEELS /\ d < intervalMS[x] /\ WHEELS \in Nat /\ WHEELS >= 1
    BY <1>1, Constants
  <2>2. CASE x = 0
    <3>1. 0 \in Wheels /\ 0 \in 0 .. WHEELS /\ 1 \in 0 .. WHEELS /\ 0 + 1 = 1 /\ 0 \in 0 .. 1
      BY Constants
    <3>2. intervalMS[0] <= intervalMS[1] /\ intervalMS[0] \in Nat /\ intervalMS[1] \in Nat
      BY <3>1, IntervalsGrow, Intervals
    <3> QED BY <1>4, <2>1, <2>2, <3>1, <3>2
  <2>3. CASE x # 0
    <3>1. j = x - 1 /\ j + 1 = x /\ j \in Wheels /\ j \in 0 .. WHEELS /\ j < x
      BY <1>4, <2>1, <2>3 DEF Wheels
    <3>2. j \notin S /\ intervalMS[j] \in Nat
      BY <1>3, <2>1, <3>1, Intervals
    <3> QED BY <1>1, <2>1, <3>1, <3>2
  <2> QED BY <2>2, <2>3
<1> QED BY <1>5 DEF WheelFor

\* The ticks to a slot, from where the wheels are.
TicksFrom(cur, k, i) ==
    LET turns == (i - cur[k] + SLOTS) % SLOTS
    IN  (turns + 1) * intervalMS[k] - Turned(cur)[k] - 1

\* The remainder of what is less than twice the divisor.
LEMMA Modulo ==
    ASSUME NEW a \in Nat, NEW s \in Nat, a < 2 * s
    PROVE  a % s = IF a < s THEN a ELSE a - s
<1>1. CASE a < s
  BY <1>1
<1>2. CASE ~(a < s)
  <2>1. a - s \in 0 .. s - 1 /\ a = s * 1 + (a - s) /\ s \in Nat \ {0}
    BY <1>2
  <2> QED BY <1>2, <2>1
<1> QED BY <1>1, <1>2

\* The slots from one to another, forwards.
LEMMA TurnsTo ==
    ASSUME NEW c \in Slots, NEW i \in Slots
    PROVE  (i - c + SLOTS) % SLOTS = IF c <= i THEN i - c ELSE (i - c) + SLOTS
<1>1. c \in 0 .. SLOTS - 1 /\ i \in 0 .. SLOTS - 1 /\ SLOTS \in Nat
  BY Constants DEF Slots
<1>2. i - c + SLOTS = (i - c) + SLOTS
  BY <1>1
<1>3. PICK a : a = (i - c) + SLOTS
  OBVIOUS
<1>4. a \in Nat /\ a < 2 * SLOTS
  BY <1>1, <1>3
<1>5. a % SLOTS = IF a < SLOTS THEN a ELSE a - SLOTS
  BY <1>1, <1>4, Modulo
<1> QED BY <1>1, <1>2, <1>3, <1>5

\* The slot whose turn is now, and no other, is reached without a tick.
LEMMA TicksAreLeft ==
    ASSUME NEW cur \in [Wheels -> Slots], NEW k \in Wheels, NEW i \in Slots
    PROVE  /\ TicksFrom(cur, k, i) \in Nat
           /\ TicksFrom(cur, k, i) = 0 <=> i = cur[k] /\ Full(cur, k)
<1>1. PICK t, m, c, n : t = Turned(cur)[k] /\ m = intervalMS[k] /\ c = cur[k]
                        /\ n = (i - c + SLOTS) % SLOTS
  OBVIOUS
<1>2. /\ m \in Nat \ {0} /\ t \in 0 .. m - 1 /\ (t = m - 1 <=> Full(cur, k))
  BY <1>1, Constants, Intervals, TurnedBelow
<1>3. n = IF c <= i THEN i - c ELSE (i - c) + SLOTS
  BY <1>1, TurnsTo
<1>4. c \in 0 .. SLOTS - 1 /\ i \in 0 .. SLOTS - 1 /\ SLOTS \in Nat
  BY <1>1, Constants DEF Slots
<1>5. n \in Nat /\ (n = 0 <=> i = c)
  BY <1>3, <1>4
<1>6. TicksFrom(cur, k, i) = ((n + 1) * m - t) - 1
  BY <1>1, <1>2, <1>5 DEF TicksFrom
<1>7. (n + 1) * m = n * m + m /\ n * m \in Nat /\ (n # 0 => n * m >= m) /\ (n = 0 => n * m = 0)
  BY <1>2, <1>5
<1>8. TicksFrom(cur, k, i) = (n * m + (m - t)) - 1 /\ m - t >= 1 /\ t \in Nat
  BY <1>2, <1>6, <1>7
<1>9. TicksFrom(cur, k, i) \in Nat
  BY <1>2, <1>7, <1>8
<1>10. TicksFrom(cur, k, i) = 0 <=> n = 0 /\ t = m - 1
  <2>1. CASE n = 0
    BY <1>2, <1>7, <1>8, <2>1
  <2>2. CASE n # 0
    BY <1>2, <1>7, <1>8, <2>2
  <2> QED BY <2>1, <2>2
<1> QED BY <1>1, <1>2, <1>5, <1>9, <1>10

\* A tick brings every other slot one tick closer.
LEMMA TickBringsCloser ==
    ASSUME NEW cur \in [Wheels -> Slots], NEW cur2 \in [Wheels -> Slots], Advanced(cur, cur2),
           NEW k \in Wheels, NEW i \in Slots, ~(i = cur[k] /\ Full(cur, k))
    PROVE  TicksFrom(cur2, k, i) = TicksFrom(cur, k, i) - 1
<1>1. PICK t, m, c, n, t2, c2, n2 :
         /\ t = Turned(cur)[k] /\ m = intervalMS[k] /\ c = cur[k]
         /\ n = (i - c + SLOTS) % SLOTS
         /\ t2 = Turned(cur2)[k] /\ c2 = cur2[k] /\ n2 = (i - c2 + SLOTS) % SLOTS
  OBVIOUS
<1>2. /\ m \in Nat \ {0} /\ t \in 0 .. m - 1 /\ (t = m - 1 <=> Full(cur, k))
  BY <1>1, Constants, Intervals, TurnedBelow
<1>3. n = (IF c <= i THEN i - c ELSE (i - c) + SLOTS)
      /\ n2 = (IF c2 <= i THEN i - c2 ELSE (i - c2) + SLOTS)
  BY <1>1, TurnsTo
<1>4. /\ c \in 0 .. SLOTS - 1 /\ c2 \in 0 .. SLOTS - 1 /\ i \in 0 .. SLOTS - 1
      /\ SLOTS \in Nat /\ SLOTS >= 2
  BY <1>1, Constants DEF Slots
<1>5. n \in Nat /\ n2 \in Nat
  BY <1>3, <1>4
<1>6. /\ TicksFrom(cur, k, i) = ((n + 1) * m - t) - 1
      /\ TicksFrom(cur2, k, i) = ((n2 + 1) * m - t2) - 1
  <2>1. t2 \in Int
    BY <1>1, <1>2, TurnedBelow, Constants
  <2> QED BY <1>1, <1>2, <1>5, <2>1 DEF TicksFrom
<1>7. t2 = (IF Full(cur, k) THEN 0 ELSE t + 1) /\ c2 = IF Full(cur, k) THEN (c + 1) % SLOTS ELSE c
  BY <1>1, Constants, TurnedAdvances DEF Advanced
<1>8. CASE ~Full(cur, k)
  BY <1>2, <1>3, <1>5, <1>6, <1>7, <1>8
<1>9. CASE Full(cur, k)
  <2>1. i # c
    BY <1>1, <1>9
  <2>2. c2 = IF c = SLOTS - 1 THEN 0 ELSE c + 1
    BY <1>4, <1>7, <1>9
  <2>3. n2 = n - 1
    BY <1>3, <1>4, <2>1, <2>2
  <2>4. (n + 1) * m = n * m + m /\ (n2 + 1) * m = n * m /\ n * m \in Nat
    BY <1>2, <1>5, <2>3
  <2> QED BY <1>2, <1>6, <1>7, <1>9, <2>4
<1> QED BY <1>8, <1>9

\* Quotient and remainder.
LEMMA Division ==
    ASSUME NEW d \in Nat, NEW m \in Nat \ {0}
    PROVE  /\ d \div m \in Nat /\ d % m \in Nat /\ d % m < m
           /\ d = m * (d \div m) + (d % m)
           /\ \A s \in Nat : d < m * s => d \div m < s
OBVIOUS

\* The slot that add_event() chooses for a delay.
LEMMA TicksOfNew ==
    ASSUME NEW cur \in [Wheels -> Slots], NEW k \in Wheels, NEW d \in Nat, d < intervalMS[k + 1]
    PROVE  /\ SlotFor(k, cur[k], d) \in Slots
           /\ d \div intervalMS[k] \in Nat /\ d \div intervalMS[k] < SLOTS
           /\ TicksFrom(cur, k, SlotFor(k, cur[k], d))
                = ((d \div intervalMS[k] + 1) * intervalMS[k] - Turned(cur)[k]) - 1
           /\ TicksFrom(cur, k, SlotFor(k, cur[k], d)) + (d % intervalMS[k])
                = ((d + intervalMS[k]) - Turned(cur)[k]) - 1
<1>1. PICK m, m2, c, q, t : m = intervalMS[k] /\ m2 = intervalMS[k + 1] /\ c = cur[k]
                            /\ q = d \div m /\ t = Turned(cur)[k]
  OBVIOUS
<1>2. m \in Nat \ {0} /\ m2 = m * SLOTS /\ SLOTS \in Nat /\ SLOTS >= 2 /\ c \in 0 .. SLOTS - 1
  BY <1>1, Constants, Intervals DEF Slots
<1>3. t \in Nat
  BY <1>1, <1>2, Constants, TurnedBelow
<1>4. q \in Nat /\ q < SLOTS /\ d % m \in Nat /\ d = m * q + (d % m)
  <2>1. d < m * SLOTS
    BY <1>1, <1>2
  <2> QED BY <1>1, <1>2, <2>1, Division
<1>5. PICK i : i = (c + q) % SLOTS
  OBVIOUS
<1>6. i = IF c + q < SLOTS THEN c + q ELSE (c + q) - SLOTS
  <2>1. c + q \in Nat /\ c + q < 2 * SLOTS
    BY <1>2, <1>4
  <2> QED BY <1>2, <1>5, <2>1, Modulo
<1>7. i = SlotFor(k, cur[k], d)
  BY <1>1, <1>5 DEF SlotFor
<1>8. i \in Slots /\ c \in Slots
  BY <1>2, <1>4, <1>6 DEF Slots
<1>9. (i - c + SLOTS) % SLOTS = q
  <2>1. (i - c + SLOTS) % SLOTS = IF c <= i THEN i - c ELSE (i - c) + SLOTS
    BY <1>8, TurnsTo
  <2> QED BY <1>2, <1>4, <1>6, <2>1
<1>10. TicksFrom(cur, k, i) = ((q + 1) * m - t) - 1
  BY <1>1, <1>2, <1>3, <1>4, <1>9 DEF TicksFrom
<1>11. (q + 1) * m = m * q + m
  BY <1>2, <1>4
<1>12. TicksFrom(cur, k, i) + (d % m) = ((d + m) - t) - 1
  <2>1. m * q \in Nat
    BY <1>2, <1>4
  <2> QED BY <1>2, <1>3, <1>4, <1>10, <1>11, <2>1
<1> QED BY <1>1, <1>4, <1>7, <1>8, <1>10, <1>12
-----------------------------------------------------------------------------
(* The greatest delay *)

\* A finite nonempty set of numbers has a greatest one, and Max finds it.
LEMMA Greatest ==
    ASSUME NEW D \in SUBSET Nat, IsFiniteSet(D), D # {}
    PROVE  Max(D) \in D /\ \A y \in D : Max(D) >= y
<1> DEFINE Good(A) == \E x \in A : \A y \in A : x >= y
           Bad == {A \in SUBSET D : A # {} /\ ~Good(A)}
<1>1. Bad = {}
  <2> SUFFICES ASSUME Bad # {}
               PROVE  FALSE
    OBVIOUS
  <2>1. Bad \subseteq FiniteSubsetsOf(Nat)
    <3>1. \A A \in SUBSET D : IsFiniteSet(A)
      BY FS_Subset
    <3> QED BY <3>1 DEF FiniteSubsetsOf
  <2>2. PICK A \in Bad : \A B \in Bad : <<B, A>> \notin StrictSubsetOrdering(Nat)
    <3> HIDE DEF Bad
    <3> QED BY <2>1, FS_StrictSubsetOrderingWellFounded, WFMin
  <2>3. PICK a \in A : TRUE
    OBVIOUS
  <2>4. PICK B : B = A \ {a}
    OBVIOUS
  <2>5. A \subseteq Nat /\ B \subseteq D /\ B \subseteq A /\ B # A /\ A = B \cup {a} /\ ~Good(A)
    BY <2>3, <2>4
  <2>6. CASE B = {}
    <3>1. a \in A /\ \A y \in A : y = a /\ a \in Nat
      BY <2>3, <2>5, <2>6
    <3>2. a >= a
      BY <3>1
    <3> QED BY <2>5, <3>1, <3>2
  <2>7. CASE B # {}
    <3>1. B \notin Bad
      <4>1. <<B, A>> \in StrictSubsetOrdering(Nat)
        BY <2>5 DEF StrictSubsetOrdering
      <4> QED BY <2>2, <4>1
    <3>2. Good(B)
      BY <2>5, <2>7, <3>1
    <3>3. PICK x \in B : \A y \in B : x >= y
      BY <3>2
    <3>4. x \in Nat /\ a \in Nat /\ B \subseteq Nat /\ x \in A
      BY <2>3, <2>5
    <3>5. CASE x >= a
      BY <2>5, <3>3, <3>4, <3>5
    <3>6. CASE ~(x >= a)
      <4>1. \A y \in A : a >= y
        BY <2>5, <3>3, <3>4, <3>6
      <4> QED BY <2>3, <2>5, <4>1
    <3> QED BY <3>5, <3>6
  <2> QED BY <2>6, <2>7
<1>2. \E x \in D : \A y \in D : x >= y
  BY <1>1
<1> QED BY <1>2 DEF Max

\* The bound of the ghosts is a number.
LEMMA HorizonIsNat == Horizon \in Nat
<1>1. Max(Delays) \in Nat
  BY DelaysAssumption, Greatest
<1>2. WHEELS \in 0 .. WHEELS
  BY Constants
<1>3. intervalMS[WHEELS] \in Nat
  BY <1>2, Intervals
<1> QED BY <1>1, <1>3 DEF Horizon

-----------------------------------------------------------------------------
(* Lists *)

\* Nothing is listed twice.
Distinct(s) == \A m, n \in DOMAIN s : s[m] = s[n] => m = n

\* Only(s, C) keeps what is in C and lists nothing twice that s does not.
LEMMA OnlySome ==
    ASSUME NEW V, NEW s \in Seq(V), NEW C
    PROVE  /\ Only(s, C) \in Seq(V)
           /\ ToSet(Only(s, C)) = ToSet(s) \cap C
           /\ Distinct(s) => Distinct(Only(s, C))
<1>1. Len(s) \in Nat /\ DOMAIN s = 1 .. Len(s) /\ \A n \in 1 .. Len(s) : s[n] \in V
  OBVIOUS
<1>2. \E f : f = [n \in 0 .. Len(s) |->
                    IF n = 0 THEN <<>>
                    ELSE IF s[n] \in C THEN Append(f[n - 1], s[n]) ELSE f[n - 1]]
  <2>1. PICK h : h = [p \in (1 .. Len(s)) \X Seq(V) |->
                         IF s[p[1]] \in C THEN Append(p[2], s[p[1]]) ELSE p[2]]
    OBVIOUS
  <2>2. \A n \in 1 .. Len(s), q \in Seq(V) : Append(q, s[n]) \in Seq(V)
    BY <1>1
  <2>3. h \in [(1 .. Len(s)) \X Seq(V) -> Seq(V)] /\ <<>> \in Seq(V)
    BY <2>1, <2>2
  <2>4. PICK f \in [0 .. Len(s) -> Seq(V)] : Follows(f, Len(s), <<>>, h)
    BY <1>1, <2>3, Recursion
  <2>5. \A n \in 1 .. Len(s) : n - 1 \in 0 .. Len(s)
    BY <1>1
  <2>6. \A n \in 1 .. Len(s) : f[n] = IF s[n] \in C THEN Append(f[n - 1], s[n]) ELSE f[n - 1]
    <3>1. ASSUME NEW n \in 1 .. Len(s)
          PROVE  f[n] = IF s[n] \in C THEN Append(f[n - 1], s[n]) ELSE f[n - 1]
      <4>1. PICK p, q : p = <<n, q>> /\ q = f[n - 1]
        OBVIOUS
      <4>2. q \in Seq(V) /\ p \in (1 .. Len(s)) \X Seq(V) /\ p[1] = n /\ p[2] = q
        BY <2>5, <4>1
      <4>3. f[n] = h[p]
        BY <2>4, <4>1 DEF Follows
      <4> QED BY <2>1, <4>1, <4>2, <4>3
    <3> QED BY <3>1
  <2>7. \A n \in 0 .. Len(s) : n # 0 => n \in 1 .. Len(s)
    BY <1>1
  <2> QED BY <2>4, <2>6, <2>7 DEF Follows
<1>3. PICK f : /\ f = [n \in 0 .. Len(s) |->
                         IF n = 0 THEN <<>>
                         ELSE IF s[n] \in C THEN Append(f[n - 1], s[n]) ELSE f[n - 1]]
               /\ Only(s, C) = f[Len(s)]
  BY <1>2 DEF Only
<1>4. f[0] = <<>>
      /\ \A n \in 1 .. Len(s) : f[n] = IF s[n] \in C THEN Append(f[n - 1], s[n]) ELSE f[n - 1]
  <2>1. 0 \in 0 .. Len(s) /\ \A n \in 1 .. Len(s) : n \in 0 .. Len(s) /\ n # 0
    BY <1>1
  <2>2. f[0] = <<>>
    BY <1>3, <2>1
  <2>3. ASSUME NEW n \in 1 .. Len(s)
        PROVE  f[n] = IF s[n] \in C THEN Append(f[n - 1], s[n]) ELSE f[n - 1]
    <3>1. n \in 0 .. Len(s) /\ n # 0
      BY <2>1
    <3> QED BY <1>3, <3>1
  <2> QED BY <2>2, <2>3
<1> DEFINE Elements(n) == {s[m] : m \in 1 .. n} \cap C
           P(n) == /\ f[n] \in Seq(V)
                   /\ ToSet(f[n]) = Elements(n)
                   /\ Distinct(s) => Distinct(f[n])
<1>5. PICK S : S = {n \in 0 .. Len(s) : P(n)}
  OBVIOUS
<1>6. 0 \in S
  <2>1. f[0] \in Seq(V) /\ DOMAIN f[0] = {}
    BY <1>4
  <2>2. ToSet(f[0]) = {} /\ Elements(0) = {} /\ Distinct(f[0])
    BY <2>1 DEF ToSet, Distinct
  <2> QED BY <1>1, <1>5, <2>1, <2>2
<1>7. ASSUME NEW n \in 0 .. Len(s) - 1, n \in S
      PROVE  n + 1 \in S
  <2>1. n + 1 \in 1 .. Len(s) /\ n + 1 \in 0 .. Len(s) /\ (n + 1) - 1 = n /\ n \in Nat
    BY <1>1
  <2>2. PICK a, b, e : a = f[n] /\ b = f[n + 1] /\ e = s[n + 1]
    OBVIOUS
  <2>3. b = IF e \in C THEN Append(a, e) ELSE a
    BY <1>4, <2>1, <2>2
  <2>4. /\ a \in Seq(V) /\ e \in V
        /\ ToSet(a) = Elements(n)
        /\ Distinct(s) => Distinct(a)
    BY <1>1, <1>5, <1>7, <2>1, <2>2
  <2>5. Elements(n + 1) = Elements(n) \cup ({e} \cap C)
    <3>1. \A m : m \in 1 .. n + 1 <=> m \in 1 .. n \/ m = n + 1
      BY <2>1
    <3> QED BY <2>2, <3>1
  <2>6. CASE e \notin C
    BY <1>5, <2>1, <2>2, <2>3, <2>4, <2>5, <2>6
  <2>7. CASE e \in C
    <3>1. /\ b \in Seq(V) /\ Len(b) = Len(a) + 1 /\ Len(a) \in Nat
          /\ b[Len(b)] = e /\ \A i \in 1 .. Len(a) : b[i] = a[i]
      BY <2>3, <2>4, <2>7
    <3>2. DOMAIN a = 1 .. Len(a) /\ DOMAIN b = 1 .. Len(b)
      BY <2>4, <3>1
    <3>3. \A i : i \in 1 .. Len(b) <=> i \in 1 .. Len(a) \/ i = Len(b)
      BY <3>1
    <3>4. ToSet(b) = ToSet(a) \cup {e}
      <4>1. \A x : x \in ToSet(b) <=> \E i \in 1 .. Len(b) : b[i] = x
        BY <3>2 DEF ToSet
      <4>2. \A x : x \in ToSet(a) <=> \E i \in 1 .. Len(a) : a[i] = x
        BY <3>2 DEF ToSet
      <4> QED BY <3>1, <3>3, <4>1, <4>2
    <3>5. ToSet(b) = Elements(n + 1)
      BY <2>4, <2>5, <2>7, <3>4
    <3>6. ASSUME Distinct(s)
          PROVE  Distinct(b)
      <4>1. e \notin ToSet(a)
        <5>1. \A m \in 1 .. n : m \in DOMAIN s /\ n + 1 \in DOMAIN s /\ m # n + 1
          BY <1>1, <2>1
        <5>2. \A m \in 1 .. n : s[m] # e
          BY <2>2, <3>6, <5>1 DEF Distinct
        <5> QED BY <2>4, <5>2
      <4>2. \A i \in 1 .. Len(a) : a[i] # e
        BY <3>2, <4>1 DEF ToSet
      <4>3. Distinct(a)
        BY <2>4, <3>6
      <4> QED BY <3>1, <3>2, <3>3, <4>2, <4>3 DEF Distinct
    <3> QED BY <1>5, <2>1, <2>2, <3>1, <3>5, <3>6
  <2> QED BY <2>6, <2>7
<1>8. \A n \in 0 .. Len(s) : n \in S
  <2>1. \A n \in 0 .. Len(s) - 1 : n \in S => n + 1 \in S
    BY <1>7
  <2> QED BY <1>1, <1>6, <2>1, UpTo
<1>9. P(Len(s))
  <2>1. Len(s) \in 0 .. Len(s)
    BY <1>1
  <2>2. Len(s) \in S
    BY <1>8, <2>1
  <2> HIDE DEF P
  <2> QED BY <1>5, <2>2
<1>10. ToSet(s) = {s[m] : m \in 1 .. Len(s)}
  BY <1>1 DEF ToSet
<1> QED BY <1>3, <1>9, <1>10

\* Two lists with nothing in common, one after the other.
LEMMA ConcatBoth ==
    ASSUME NEW V, NEW s \in Seq(V), NEW u \in Seq(V)
    PROVE  /\ s \o u \in Seq(V)
           /\ ToSet(s \o u) = ToSet(s) \cup ToSet(u)
           /\ Distinct(s) /\ Distinct(u) /\ ToSet(s) \cap ToSet(u) = {} => Distinct(s \o u)
<1>1. PICK r : r = s \o u
  OBVIOUS
<1>2. /\ r \in Seq(V) /\ Len(r) = Len(s) + Len(u) /\ Len(s) \in Nat /\ Len(u) \in Nat
      /\ DOMAIN s = 1 .. Len(s) /\ DOMAIN u = 1 .. Len(u) /\ DOMAIN r = 1 .. Len(r)
      /\ \A i \in 1 .. Len(r) : r[i] = IF i <= Len(s) THEN s[i] ELSE u[i - Len(s)]
  BY <1>1
<1>3. \A i \in 1 .. Len(r) : IF i <= Len(s) THEN i \in 1 .. Len(s) ELSE i - Len(s) \in 1 .. Len(u)
  BY <1>2
<1>4. \A i \in 1 .. Len(s) : i \in 1 .. Len(r) /\ i <= Len(s)
  BY <1>2
<1>5. \A i \in 1 .. Len(u) : i + Len(s) \in 1 .. Len(r) /\ ~(i + Len(s) <= Len(s))
                             /\ (i + Len(s)) - Len(s) = i
  BY <1>2
<1>6. \A x : x \in ToSet(r) <=> x \in ToSet(s) \cup ToSet(u)
  <2>1. \A x : /\ x \in ToSet(r) <=> \E i \in 1 .. Len(r) : r[i] = x
               /\ x \in ToSet(s) <=> \E i \in 1 .. Len(s) : s[i] = x
               /\ x \in ToSet(u) <=> \E i \in 1 .. Len(u) : u[i] = x
    BY <1>2 DEF ToSet
  <2>2. ASSUME NEW x, x \in ToSet(r)
        PROVE  x \in ToSet(s) \cup ToSet(u)
    <3>1. PICK i \in 1 .. Len(r) : r[i] = x
      BY <2>1, <2>2
    <3> QED BY <1>2, <1>3, <2>1, <3>1
  <2>3. ASSUME NEW x, x \in ToSet(s)
        PROVE  x \in ToSet(r)
    <3>1. PICK i \in 1 .. Len(s) : s[i] = x
      BY <2>1, <2>3
    <3> QED BY <1>2, <1>4, <2>1, <3>1
  <2>4. ASSUME NEW x, x \in ToSet(u)
        PROVE  x \in ToSet(r)
    <3>1. PICK i \in 1 .. Len(u) : u[i] = x
      BY <2>1, <2>4
    <3>2. r[i + Len(s)] = x
      BY <1>2, <1>5, <3>1
    <3> QED BY <1>5, <2>1, <3>1, <3>2
  <2> QED BY <2>2, <2>3, <2>4
<1>7. ASSUME Distinct(s), Distinct(u), ToSet(s) \cap ToSet(u) = {}
      PROVE  Distinct(r)
  <2>1. ASSUME NEW i \in 1 .. Len(r), NEW j \in 1 .. Len(r), r[i] = r[j]
        PROVE  i = j
    <3>1. CASE i <= Len(s) /\ j <= Len(s)
      BY <1>2, <1>3, <1>7, <2>1, <3>1 DEF Distinct
    <3>2. CASE ~(i <= Len(s)) /\ ~(j <= Len(s))
      <4>1. i - Len(s) = j - Len(s)
        BY <1>2, <1>3, <1>7, <2>1, <3>2 DEF Distinct
      <4> QED BY <1>2, <4>1
    <3>3. CASE i <= Len(s) /\ ~(j <= Len(s))
      <4>1. r[i] \in ToSet(s) /\ r[j] \in ToSet(u)
        BY <1>2, <1>3, <3>3 DEF ToSet
      <4> QED BY <1>7, <2>1, <4>1
    <3>4. CASE ~(i <= Len(s)) /\ j <= Len(s)
      <4>1. r[j] \in ToSet(s) /\ r[i] \in ToSet(u)
        BY <1>2, <1>3, <3>4 DEF ToSet
      <4> QED BY <1>7, <2>1, <4>1
    <3> QED BY <3>1, <3>2, <3>3, <3>4
  <2> QED BY <1>2, <2>1 DEF Distinct
<1> QED BY <1>1, <1>2, <1>6, <1>7
-----------------------------------------------------------------------------
(* How late *)

\* Lateness(d) with every wheel it adds up.
LateTo(d) ==
    LET f[k \in Wheels] ==
          IF k = 0 THEN 0
          ELSE f[k - 1] + (IF intervalMS[k] <= d THEN intervalMS[k] ELSE 0)
    IN  f

\* Each wheel that the delay reaches adds a turn of its own.
LEMMA LatenessAddsUp ==
    ASSUME NEW d \in Nat
    PROVE  /\ Lateness(d) = LateTo(d)[WHEELS - 1]
           /\ LateTo(d)[0] = 0
           /\ \A k \in Wheels \ {0} :
                 LateTo(d)[k] = LateTo(d)[k - 1] + IF intervalMS[k] <= d THEN intervalMS[k] ELSE 0
<1>1. WHEELS \in Nat /\ WHEELS >= 1 /\ \A k \in 0 .. WHEELS : intervalMS[k] \in Nat
  BY Constants, Intervals
<1>2. \E f : f = [k \in Wheels |->
                    IF k = 0 THEN 0
                    ELSE f[k - 1] + (IF intervalMS[k] <= d THEN intervalMS[k] ELSE 0)]
  <2>1. PICK N \in Nat : N = WHEELS - 1
    BY <1>1
  <2>2. Wheels = 0 .. N /\ \A k \in 1 .. N : k \in 0 .. WHEELS /\ k \in Wheels
    BY <1>1, <2>1 DEF Wheels
  <2>3. PICK h : h = [p \in (1 .. N) \X Int |->
                         p[2] + (IF intervalMS[p[1]] <= d THEN intervalMS[p[1]] ELSE 0)]
    OBVIOUS
  <2>4. \A k \in 1 .. N, v \in Int :
           v + (IF intervalMS[k] <= d THEN intervalMS[k] ELSE 0) \in Int
    BY <1>1, <2>2
  <2>5. h \in [(1 .. N) \X Int -> Int]
    BY <2>3, <2>4
  <2>6. PICK f \in [0 .. N -> Int] : Follows(f, N, 0, h)
    <3>1. 0 \in Int
      OBVIOUS
    <3> QED BY <2>1, <2>5, <3>1, Recursion
  <2>7. \A k \in 1 .. N :
           f[k] = f[k - 1] + (IF intervalMS[k] <= d THEN intervalMS[k] ELSE 0)
    <3>1. ASSUME NEW k \in 1 .. N
          PROVE  f[k] = f[k - 1] + (IF intervalMS[k] <= d THEN intervalMS[k] ELSE 0)
      <4>1. k - 1 \in 0 .. N
        BY <2>1
      <4>2. <<k, f[k - 1]>> \in (1 .. N) \X Int
        BY <4>1
      <4> QED BY <2>3, <2>6, <4>2 DEF Follows
    <3> QED BY <3>1
  <2>8. \A k \in 0 .. N : k # 0 => k \in 1 .. N
    BY <2>1
  <2> QED BY <2>2, <2>6, <2>7, <2>8 DEF Follows
<1>3. PICK f : /\ f = [k \in Wheels |->
                         IF k = 0 THEN 0
                         ELSE f[k - 1] + (IF intervalMS[k] <= d THEN intervalMS[k] ELSE 0)]
               /\ LateTo(d) = f /\ Lateness(d) = f[WHEELS - 1]
  BY <1>2 DEF LateTo, Lateness
<1>4. f[0] = 0
  BY <1>3, Constants
<1>5. \A k \in Wheels \ {0} :
         f[k] = f[k - 1] + IF intervalMS[k] <= d THEN intervalMS[k] ELSE 0
  BY <1>3
<1> QED BY <1>3, <1>4, <1>5

\* Lateness grows with the wheels and stays below a turn of the next one.
LEMMA LatenessBounded ==
    ASSUME NEW d \in Nat
    PROVE  /\ \A k \in Wheels : LateTo(d)[k] \in Nat /\ LateTo(d)[k] < intervalMS[k + 1]
           /\ \A k \in Wheels : \A j \in 0 .. k : LateTo(d)[j] <= LateTo(d)[k]
           /\ Lateness(d) \in Nat
           /\ \A j \in Wheels : LateTo(d)[j] <= Lateness(d)
<1> DEFINE P(k) == /\ LateTo(d)[k] \in Nat
                   /\ LateTo(d)[k] < intervalMS[k + 1]
                   /\ \A j \in 0 .. k : LateTo(d)[j] \in Nat /\ LateTo(d)[j] <= LateTo(d)[k]
<1>1. PICK N \in Nat : N = WHEELS - 1
  BY Constants
<1>2. PICK S : S = {k \in 0 .. N : P(k)}
  OBVIOUS
<1>3. Wheels = 0 .. N /\ WHEELS = N + 1
  BY <1>1, Constants DEF Wheels
<1>4. 0 \in S
  <2>1. LateTo(d)[0] = 0 /\ 0 \in 0 .. N /\ \A j \in 0 .. 0 : j = 0
    BY <1>1, LatenessAddsUp
  <2>2. intervalMS[0 + 1] \in Nat \ {0}
    BY Constants, Intervals
  <2> QED BY <1>2, <2>1, <2>2
<1>5. ASSUME NEW n \in 0 .. N - 1, n \in S
      PROVE  n + 1 \in S
  <2>1. /\ n \in Nat /\ n + 1 \in 0 .. N /\ n + 1 \in Wheels /\ n + 1 # 0 /\ (n + 1) - 1 = n
        /\ (n + 1) + 1 \in 0 .. WHEELS /\ n + 1 \in 0 .. WHEELS
    BY <1>1, <1>3
  <2>2. PICK x, y, a, b : /\ x = LateTo(d)[n] /\ y = LateTo(d)[n + 1]
                          /\ a = intervalMS[n + 1] /\ b = intervalMS[(n + 1) + 1]
    OBVIOUS
  <2>3. y = x + IF a <= d THEN a ELSE 0
    BY <2>1, <2>2, LatenessAddsUp
  <2>4. x \in Nat /\ x < a /\ \A j \in 0 .. n : LateTo(d)[j] \in Nat /\ LateTo(d)[j] <= x
    BY <1>2, <1>5, <2>2
  <2>5. a \in Nat \ {0} /\ b \in Nat /\ b = a * SLOTS /\ SLOTS \in Nat /\ SLOTS >= 2
    BY <2>1, <2>2, Intervals, Constants
  <2>6. b >= 2 * a
    BY <2>5
  <2>7. y \in Nat /\ y < b /\ x <= y
    BY <2>3, <2>4, <2>5, <2>6
  <2>8. ASSUME NEW j \in 0 .. n + 1
        PROVE  LateTo(d)[j] \in Nat /\ LateTo(d)[j] <= y
    <3>1. CASE j = n + 1
      <4>1. LateTo(d)[j] = y
        BY <2>2, <3>1
      <4> QED BY <2>7, <4>1
    <3>2. CASE j # n + 1
      <4>1. j \in 0 .. n
        BY <2>1, <3>2
      <4> QED BY <2>4, <2>7, <4>1
    <3> QED BY <3>1, <3>2
  <2> QED BY <1>2, <2>1, <2>2, <2>7, <2>8
<1>6. \A k \in 0 .. N : k \in S
  <2>1. \A n \in 0 .. N - 1 : n \in S => n + 1 \in S
    BY <1>5
  <2> QED BY <1>1, <1>4, <2>1, UpTo
<1>7. \A k \in 0 .. N : P(k)
  BY <1>2, <1>6
<1>8. N \in 0 .. N /\ Lateness(d) = LateTo(d)[N]
  BY <1>1, LatenessAddsUp
<1> QED BY <1>3, <1>7, <1>8

\* What the wheels below k have turned, beyond what those below j have, is in
\* whole turns of wheel j - 1.
LEMMA TurnedInSteps ==
    ASSUME NEW cur \in [Wheels -> Slots], NEW j \in 0 .. WHEELS, NEW k \in 0 .. WHEELS, j <= k
    PROVE  Turned(cur)[k] <= (intervalMS[k] - intervalMS[j]) + Turned(cur)[j]
<1> DEFINE P(n) == j <= n => Turned(cur)[n] <= (intervalMS[n] - intervalMS[j]) + Turned(cur)[j]
<1>1. PICK S : S = {n \in 0 .. WHEELS : P(n)}
  OBVIOUS
<1>2. PICK J, T : J = intervalMS[j] /\ T = Turned(cur)[j]
  OBVIOUS
<1>3. J \in Nat /\ T \in Nat
  BY <1>2, Intervals, TurnedBelow
<1>4. P(j)
  BY <1>2, <1>3
<1>5. 0 \in S
  <2>1. 0 \in 0 .. WHEELS /\ (j <= 0 => j = 0)
    BY Constants
  <2> QED BY <1>1, <1>4, <2>1
<1>6. ASSUME NEW n \in 0 .. WHEELS - 1, n \in S
      PROVE  n + 1 \in S
  <2>1. n \in Wheels /\ n + 1 \in 0 .. WHEELS /\ n \in 0 .. WHEELS /\ n \in Nat
    BY Constants DEF Wheels
  <2>2. CASE j = n + 1
    BY <1>1, <1>4, <2>1, <2>2
  <2>3. CASE j # n + 1
    <3>1. PICK t, m, c, t2, m2 : /\ t = Turned(cur)[n] /\ m = intervalMS[n] /\ c = cur[n]
                                 /\ t2 = Turned(cur)[n + 1] /\ m2 = intervalMS[n + 1]
      OBVIOUS
    <3>2. m \in Nat /\ t \in Nat /\ c \in 0 .. SLOTS - 1 /\ SLOTS \in Nat
      BY <2>1, <3>1, Intervals, TurnedBelow, Constants DEF Slots
    <3>3. t2 = t + c * m /\ m2 = m * SLOTS
      BY <2>1, <3>1, TurnedRecursion, Intervals
    <3>4. (c + 1) * m <= SLOTS * m /\ (c + 1) * m = c * m + m /\ c * m \in Nat
      BY <3>2
    <3>5. j <= n + 1 => t <= (m - J) + T
      BY <1>1, <1>2, <1>6, <2>1, <2>3, <3>1
    <3>6. j <= n + 1 => t2 <= (m2 - J) + T
      BY <1>3, <3>2, <3>3, <3>4, <3>5
    <3> QED BY <1>1, <1>2, <2>1, <3>1, <3>6
  <2> QED BY <2>2, <2>3
<1>7. \A n \in 0 .. WHEELS - 1 : n \in S => n + 1 \in S
  BY <1>6
<1>8. k \in S
  BY <1>5, <1>7, UpTo, Constants
<1> QED BY <1>1, <1>8
-----------------------------------------------------------------------------
(* A sleeper on a wheel *)

\* If it waited g ticks, the ticks after which a sleeper is woken if no
\* cascade on its way down costs it a turn.
Due(cur, k, i, d, g) == (g + TicksFrom(cur, k, i)) + (d % intervalMS[k])

\* The lateness that the way down from wheel k can still add.
LatenessBelow(k, a) == IF k = 0 THEN 0 ELSE LateTo(a)[k - 1] + 1

\* With d of the delay a left, and g ticks since it was put on the wheels, a
\* sleeper is in a slot that it may be in.
Placed(cur, k, i, d, a, g) ==
    /\ d < intervalMS[k + 1]
    /\ k = 0 \/ intervalMS[k] <= a
    /\ Due(cur, k, i, d, g) >= a
    /\ Due(cur, k, i, d, g) + LatenessBelow(k, a) <= a + Lateness(a)
    /\ g = 0 => d = a /\ ~TooLong(a) /\ k = WheelFor(a) /\ i = SlotFor(k, cur[k], a)

\* What the way down can add is a number.
LEMMA LatenessBelowIsNat ==
    ASSUME NEW k \in Wheels, NEW a \in Nat
    PROVE  LatenessBelow(k, a) \in Nat
<1>1. k # 0 => k - 1 \in Wheels
  BY Constants DEF Wheels
<1> QED BY <1>1, LatenessBounded DEF LatenessBelow

\* What internal_add_event() puts on the wheels is placed well.
LEMMA NewIsPlaced ==
    ASSUME NEW cur \in [Wheels -> Slots], NEW a \in Nat, ~TooLong(a)
    PROVE  Placed(cur, WheelFor(a), SlotFor(WheelFor(a), cur[WheelFor(a)], a), a, a, 0)
<1>1. PICK k, i : k = WheelFor(a) /\ i = SlotFor(k, cur[k], a)
  OBVIOUS
<1>2. k \in Wheels /\ a < intervalMS[k + 1] /\ (k = 0 \/ intervalMS[k] <= a)
  BY <1>1, WheelForDelay
<1>3. PICK m, t, T, r : m = intervalMS[k] /\ t = Turned(cur)[k] /\ T = TicksFrom(cur, k, i)
                        /\ r = a % m
  OBVIOUS
<1>4. T + r = ((a + m) - t) - 1 /\ i \in Slots
  BY <1>1, <1>2, <1>3, TicksOfNew
<1>5. m \in Nat \ {0} /\ t \in 0 .. m - 1 /\ T \in Nat /\ r \in Nat /\ (k = 0 => m = 1)
  <2>1. k \in 0 .. WHEELS
    BY <1>2, Constants
  <2>2. m \in Nat \ {0} /\ t \in 0 .. m - 1 /\ (k = 0 => m = 1)
    BY <1>3, <2>1, Intervals, TurnedBelow
  <2>3. T \in Nat
    BY <1>2, <1>3, <1>4, TicksAreLeft
  <2> QED BY <1>3, <2>2, <2>3
<1>6. Due(cur, k, i, a, 0) = ((a + m) - t) - 1
  BY <1>3, <1>4, <1>5 DEF Due
<1>7. Due(cur, k, i, a, 0) + LatenessBelow(k, a) <= a + Lateness(a)
  <2>1. Lateness(a) \in Nat
    BY LatenessBounded
  <2>2. CASE k = 0
    BY <1>5, <1>6, <2>1, <2>2 DEF LatenessBelow
  <2>3. CASE k # 0
    <3>1. k \in Wheels \ {0} /\ k - 1 \in Wheels
      BY <1>2, <2>3, Constants DEF Wheels
    <3>2. PICK x, y, z : x = LateTo(a)[k - 1] /\ y = LateTo(a)[k] /\ z = Lateness(a)
      OBVIOUS
    <3>3. x \in Nat /\ y \in Nat /\ y <= z /\ z \in Nat
      BY <1>2, <3>1, <3>2, LatenessBounded
    <3>4. y = x + m
      BY <1>2, <1>3, <2>3, <3>1, <3>2, LatenessAddsUp
    <3>5. LatenessBelow(k, a) = x + 1
      BY <2>3, <3>2 DEF LatenessBelow
    <3> QED BY <1>5, <1>6, <3>2, <3>3, <3>4, <3>5
  <2> QED BY <2>2, <2>3
<1>8. Due(cur, k, i, a, 0) >= a
  BY <1>5, <1>6
<1> QED BY <1>1, <1>2, <1>7, <1>8 DEF Placed

\* A tick that leaves a sleeper where it is leaves it placed well.
LEMMA StaysPlaced ==
    ASSUME NEW cur \in [Wheels -> Slots], NEW cur2 \in [Wheels -> Slots], Advanced(cur, cur2),
           NEW k \in Wheels, NEW i \in Slots, ~(i = cur[k] /\ Full(cur, k)),
           NEW d \in Nat, NEW a \in Nat, NEW g \in Nat, Placed(cur, k, i, d, a, g)
    PROVE  Placed(cur2, k, i, d, a, g + 1)
<1>1. PICK T, T2, r : T = TicksFrom(cur, k, i) /\ T2 = TicksFrom(cur2, k, i)
                      /\ r = d % intervalMS[k]
  OBVIOUS
<1>2. T2 = T - 1
  BY <1>1, TickBringsCloser
<1>3. T \in Nat /\ r \in Nat
  BY <1>1, TicksAreLeft, Constants, Intervals
<1>4. Due(cur2, k, i, d, g + 1) = Due(cur, k, i, d, g)
  <2>1. ((g + 1) + T2) + r = (g + T) + r
    BY <1>2, <1>3
  <2> QED BY <1>1, <2>1 DEF Due
<1>5. g + 1 # 0
  OBVIOUS
<1> QED BY <1>4, <1>5 DEF Placed

\* A cascade places what it moves down well.
LEMMA CascadeIsPlaced ==
    ASSUME NEW cur \in [Wheels -> Slots], NEW cur2 \in [Wheels -> Slots], Advanced(cur, cur2),
           NEW k \in Wheels, k + 1 \in Wheels, Full(cur, k + 1),
           NEW d \in Nat, NEW a \in Nat, NEW g \in Nat,
           Placed(cur, k + 1, cur[k + 1], d, a, g)
    PROVE  /\ SlotFor(k, cur2[k], Remaining(k + 1, d)) \in Slots
           /\ Placed(cur2, k, SlotFor(k, cur2[k], Remaining(k + 1, d)), Remaining(k + 1, d), a, g + 1)
<1>1. PICK e, m, m1, i, T : /\ e = d % intervalMS[k + 1] /\ m = intervalMS[k]
                            /\ m1 = intervalMS[k + 1]
                            /\ i = SlotFor(k, cur2[k], e)
                            /\ T = TicksFrom(cur2, k, i)
  OBVIOUS
<1>2. k \in Nat /\ k \in 0 .. WHEELS /\ k + 1 \in 0 .. WHEELS /\ m \in Nat \ {0} /\ m1 \in Nat \ {0}
  BY <1>1, Constants, Intervals
<1>3. e \in Nat /\ e < m1
  BY <1>1, <1>2, Division
<1>4. Turned(cur2)[k] = 0
  <2>1. Full(cur, k)
    BY <1>2, FullNext
  <2> QED BY <1>2, <2>1, TurnedAdvances
<1>5. /\ i \in Slots
      /\ T + (e % m) = ((e + m) - 0) - 1
  BY <1>1, <1>3, <1>4, TicksOfNew
<1>6. T \in Nat /\ e % m \in Nat
  BY <1>1, <1>2, <1>3, <1>5, TicksAreLeft, Division
<1>7. Due(cur2, k, i, e, g + 1) = (g + e) + m
  <2>1. ((g + 1) + T) + (e % m) = (g + e) + m
    BY <1>2, <1>3, <1>5, <1>6
  <2> QED BY <1>1, <2>1 DEF Due
<1>8. Due(cur, k + 1, cur[k + 1], d, g) = g + e
  <2>1. cur[k + 1] \in Slots
    OBVIOUS
  <2>2. TicksFrom(cur, k + 1, cur[k + 1]) = 0
    BY <2>1, TicksAreLeft
  <2>3. (g + 0) + e = g + e
    BY <1>3
  <2> QED BY <1>1, <2>2, <2>3 DEF Due
<1>9. m <= a /\ m1 <= a
  <2>1. m <= m1
    <3>1. k \in 0 .. k + 1
      BY <1>2
    <3> QED BY <1>1, <1>2, <3>1, IntervalsGrow
  <2>2. k + 1 # 0
    BY <1>2
  <2>3. m1 <= a
    BY <1>1, <2>2 DEF Placed
  <2> QED BY <1>2, <2>1, <2>3
<1>10. LatenessBelow(k, a) + m <= LatenessBelow(k + 1, a)
  <2>1. k + 1 # 0 /\ (k + 1) - 1 = k
    BY <1>2
  <2>2. PICK y : y = LateTo(a)[k]
    OBVIOUS
  <2>3. LatenessBelow(k + 1, a) = y + 1 /\ y \in Nat
    BY <2>1, <2>2, LatenessBounded DEF LatenessBelow
  <2>4. CASE k = 0
    BY <1>1, <2>3, <2>4, Intervals DEF LatenessBelow
  <2>5. CASE k # 0
    <3>1. k \in Wheels \ {0} /\ k - 1 \in Wheels
      BY <1>2, <2>5, Constants DEF Wheels
    <3>2. PICK x : x = LateTo(a)[k - 1]
      OBVIOUS
    <3>3. y = x + m /\ x \in Nat
      BY <1>1, <1>9, <2>2, <3>1, <3>2, LatenessAddsUp, LatenessBounded
    <3>4. LatenessBelow(k, a) = x + 1
      BY <2>5, <3>2 DEF LatenessBelow
    <3> QED BY <1>2, <2>3, <3>3, <3>4
  <2> QED BY <2>4, <2>5
<1>11. PICK L, L1, z : L = LatenessBelow(k, a) /\ L1 = LatenessBelow(k + 1, a) /\ z = Lateness(a)
  OBVIOUS
<1>12. L \in Nat /\ L1 \in Nat /\ z \in Nat /\ L + m <= L1
  BY <1>10, <1>11, LatenessBelowIsNat, LatenessBounded
<1>13. g + e >= a /\ (g + e) + L1 <= a + z
  BY <1>8, <1>11 DEF Placed
<1>14. (g + e) + m >= a /\ ((g + e) + m) + L <= a + z
  BY <1>2, <1>3, <1>12, <1>13
<1>15. g + 1 # 0
  OBVIOUS
<1>16. Placed(cur2, k, i, e, a, g + 1)
  BY <1>1, <1>3, <1>7, <1>9, <1>11, <1>14, <1>15 DEF Placed
<1> QED BY <1>1, <1>5, <1>16 DEF Remaining

\* No sleeper is on the wheels for so long that its ticks are not counted.
LEMMA PlacedBelowHorizon ==
    ASSUME NEW cur \in [Wheels -> Slots], NEW k \in Wheels, NEW i \in Slots,
           NEW d \in Nat, NEW a \in Delays, NEW g \in Nat, Placed(cur, k, i, d, a, g)
    PROVE  g <= a + Lateness(a) /\ g <= Horizon /\ a <= Horizon
<1>1. PICK T, r, L, z : /\ T = TicksFrom(cur, k, i) /\ r = d % intervalMS[k]
                        /\ L = LatenessBelow(k, a) /\ z = Lateness(a)
  OBVIOUS
<1>2. a \in Nat
  BY DelaysAssumption
<1>3. T \in Nat /\ r \in Nat /\ L \in Nat /\ z \in Nat
  BY <1>1, <1>2, TicksAreLeft, Constants, Intervals, Division, LatenessBelowIsNat, LatenessBounded
<1>4. ((g + T) + r) + L <= a + z
  BY <1>1 DEF Placed, Due
<1>5. PICK I, M : I = intervalMS[WHEELS] /\ M = Max(Delays)
  OBVIOUS
<1>6. I \in Nat /\ z < I
  <2>1. WHEELS - 1 \in Wheels /\ (WHEELS - 1) + 1 = WHEELS /\ WHEELS \in 0 .. WHEELS
    BY Constants DEF Wheels
  <2>2. LateTo(a)[WHEELS - 1] < intervalMS[(WHEELS - 1) + 1]
    BY <1>2, <2>1, LatenessBounded
  <2> QED BY <1>1, <1>2, <1>5, <2>1, <2>2, LatenessAddsUp, Intervals
<1>7. M \in Nat /\ M >= a
  BY <1>2, <1>5, DelaysAssumption, Greatest
<1>8. Horizon = M + 2 * I
  BY <1>5 DEF Horizon
<1>9. g <= a + z /\ g <= M + 2 * I /\ a <= M + 2 * I
  BY <1>2, <1>3, <1>4, <1>6, <1>7
<1> QED BY <1>1, <1>8, <1>9
-----------------------------------------------------------------------------
(* Two sleepers *)

\* The first of two sleepers that were put on the wheels before the same tick,
\* at k, i with d left, comes no later than the second, at k2, i2 with d2.
InOrder(cur, k, i, d, k2, i2, d2) ==
    /\ k <= k2
    /\ TicksFrom(cur, k, i) <= TicksFrom(cur, k2, i2)
    /\ k = k2 /\ TicksFrom(cur, k, i) = TicksFrom(cur, k2, i2) =>
           d % intervalMS[k] <= d2 % intervalMS[k]

\* On one wheel, the slot and the rest of the smaller delay come first.
LEMMA SameWheelInOrder ==
    ASSUME NEW cur \in [Wheels -> Slots], NEW k \in Wheels,
           NEW d \in Nat, NEW d2 \in Nat, d <= d2, d2 < intervalMS[k + 1]
    PROVE  InOrder(cur, k, SlotFor(k, cur[k], d), d, k, SlotFor(k, cur[k], d2), d2)
<1>1. PICK m, t, q, q2, r, r2, T, T2 :
         /\ m = intervalMS[k] /\ t = Turned(cur)[k]
         /\ q = d \div m /\ q2 = d2 \div m /\ r = d % m /\ r2 = d2 % m
         /\ T = TicksFrom(cur, k, SlotFor(k, cur[k], d))
         /\ T2 = TicksFrom(cur, k, SlotFor(k, cur[k], d2))
  OBVIOUS
<1>2. k \in 0 .. WHEELS /\ k \in Nat /\ k + 1 \in 0 .. WHEELS
  BY Constants
<1>3. m \in Nat \ {0} /\ t \in Nat
  BY <1>1, <1>2, Intervals, TurnedBelow
<1>4. d < intervalMS[k + 1]
  <2>1. intervalMS[k + 1] \in Nat
    BY <1>2, Intervals
  <2> QED BY <2>1
<1>5. T = ((q + 1) * m - t) - 1 /\ T2 = ((q2 + 1) * m - t) - 1
  BY <1>1, <1>4, TicksOfNew
<1>6. /\ q \in Nat /\ q2 \in Nat /\ r \in Nat /\ r2 \in Nat /\ r < m /\ r2 < m
      /\ d = m * q + r /\ d2 = m * q2 + r2
  BY <1>1, <1>3, Division
<1>7. q <= q2
  <2>1. SUFFICES ASSUME q2 + 1 <= q
                 PROVE  FALSE
    BY <1>6
  <2>2. m * (q2 + 1) <= m * q /\ m * (q2 + 1) = m * q2 + m
    BY <1>3, <1>6, <2>1
  <2>3. m * q \in Nat /\ m * q2 \in Nat
    BY <1>3, <1>6
  <2> QED BY <1>3, <1>6, <2>2, <2>3
<1>8. (q + 1) * m <= (q2 + 1) * m /\ (q + 1) * m \in Nat /\ (q2 + 1) * m \in Nat
  BY <1>3, <1>6, <1>7
<1>9. T <= T2
  BY <1>3, <1>5, <1>8
<1>10. ASSUME T = T2
       PROVE  r <= r2
  <2>1. (q + 1) * m = (q2 + 1) * m
    BY <1>3, <1>5, <1>8, <1>10
  <2>2. q = q2
    <3>1. SUFFICES ASSUME q + 1 <= q2
                   PROVE  FALSE
      BY <1>6, <1>7
    <3>2. (q + 2) * m <= (q2 + 1) * m /\ (q + 2) * m = (q + 1) * m + m
      BY <1>3, <1>6, <3>1
    <3> QED BY <1>3, <1>8, <2>1, <3>2
  <2>3. m * q \in Nat
    BY <1>3, <1>6
  <2> QED BY <1>6, <2>2, <2>3
<1> QED BY <1>1, <1>2, <1>9, <1>10 DEF InOrder
\* A slot that add_event() chooses is reached before the wheel above goes on.
LEMMA ChosenIsBelowTurn ==
    ASSUME NEW cur \in [Wheels -> Slots], NEW k \in Wheels, NEW d \in Nat, d < intervalMS[k + 1]
    PROVE  TicksFrom(cur, k, SlotFor(k, cur[k], d)) < intervalMS[k + 1]
<1>1. PICK m, m1, t, q, T : /\ m = intervalMS[k] /\ m1 = intervalMS[k + 1]
                            /\ t = Turned(cur)[k] /\ q = d \div m
                            /\ T = TicksFrom(cur, k, SlotFor(k, cur[k], d))
  OBVIOUS
<1>2. m \in Nat \ {0} /\ t \in Nat /\ m1 = m * SLOTS /\ SLOTS \in Nat
  BY <1>1, Constants, Intervals, TurnedBelow
<1>3. T = ((q + 1) * m - t) - 1 /\ q \in Nat /\ q < SLOTS
  BY <1>1, TicksOfNew
<1>4. q + 1 <= SLOTS
  BY <1>2, <1>3
<1>5. (q + 1) * m <= SLOTS * m /\ SLOTS * m = m1 /\ (q + 1) * m \in Nat
  BY <1>2, <1>3, <1>4
<1> QED BY <1>1, <1>2, <1>3, <1>5

\* When the wheels below j are at their first slots, no slot of wheel j or a
\* higher one is reached before a turn of them.
LEMMA HigherIsLater ==
    ASSUME NEW cur \in [Wheels -> Slots], NEW k \in Wheels, NEW i \in Slots,
           NEW j \in 0 .. k, Turned(cur)[j] = 0
    PROVE  TicksFrom(cur, k, i) >= intervalMS[j] - 1
<1>1. PICK m, mj, t, n : /\ m = intervalMS[k] /\ mj = intervalMS[j] /\ t = Turned(cur)[k]
                         /\ n = (i - cur[k] + SLOTS) % SLOTS
  OBVIOUS
<1>2. k \in 0 .. WHEELS /\ j \in 0 .. WHEELS /\ j <= k
  BY Constants
<1>3. m \in Nat \ {0} /\ mj \in Nat /\ t \in Nat
  BY <1>1, <1>2, Intervals, TurnedBelow
<1>4. t <= (m - mj) + 0
  BY <1>1, <1>2, TurnedInSteps
<1>5. n \in Nat
  <2>1. cur[k] \in Slots
    OBVIOUS
  <2>2. n = IF cur[k] <= i THEN i - cur[k] ELSE (i - cur[k]) + SLOTS
    BY <1>1, <2>1, TurnsTo
  <2>3. cur[k] \in 0 .. SLOTS - 1 /\ i \in 0 .. SLOTS - 1 /\ SLOTS \in Nat
    BY <2>1, Constants DEF Slots
  <2> QED BY <2>2, <2>3
<1>6. TicksFrom(cur, k, i) = ((n + 1) * m - t) - 1
  BY <1>1, <1>3, <1>5 DEF TicksFrom
<1>7. (n + 1) * m = n * m + m /\ n * m \in Nat
  BY <1>3, <1>5
<1> QED BY <1>1, <1>3, <1>4, <1>6, <1>7

\* Two delays that are added before the same tick are in order.
LEMMA NewInOrder ==
    ASSUME NEW cur \in [Wheels -> Slots], NEW a \in Nat, NEW a2 \in Nat, a < a2,
           ~TooLong(a), ~TooLong(a2)
    PROVE  InOrder(cur, WheelFor(a), SlotFor(WheelFor(a), cur[WheelFor(a)], a), a,
                   WheelFor(a2), SlotFor(WheelFor(a2), cur[WheelFor(a2)], a2), a2)
<1>1. PICK k, k2, i, i2 : /\ k = WheelFor(a) /\ k2 = WheelFor(a2)
                          /\ i = SlotFor(k, cur[k], a) /\ i2 = SlotFor(k2, cur[k2], a2)
  OBVIOUS
<1>2. /\ k \in Wheels /\ a < intervalMS[k + 1] /\ (k = 0 \/ intervalMS[k] <= a)
      /\ k2 \in Wheels /\ a2 < intervalMS[k2 + 1] /\ (k2 = 0 \/ intervalMS[k2] <= a2)
  BY <1>1, WheelForDelay
<1>3. /\ k \in Nat /\ k2 \in Nat
      /\ k \in 0 .. WHEELS /\ k2 \in 0 .. WHEELS /\ k + 1 \in 0 .. WHEELS /\ k2 + 1 \in 0 .. WHEELS
  BY <1>2, Constants
<1>4. CASE k = k2
  <2>1. a <= a2
    OBVIOUS
  <2> QED BY <1>1, <1>2, <1>4, <2>1, SameWheelInOrder
<1>5. CASE k < k2
  <2>1. PICK m1, n, t, q, T, T2 :
           /\ m1 = intervalMS[k + 1] /\ n = intervalMS[k2] /\ t = Turned(cur)[k2]
           /\ q = a2 \div n /\ T = TicksFrom(cur, k, i) /\ T2 = TicksFrom(cur, k2, i2)
    OBVIOUS
  <2>2. m1 \in Nat /\ n \in Nat \ {0} /\ t \in 0 .. n - 1 /\ n <= a2
    BY <1>2, <1>3, <1>5, <2>1, Intervals, TurnedBelow
  <2>3. m1 <= n
    <3>1. k + 1 \in 0 .. k2
      BY <1>3, <1>5
    <3> QED BY <1>3, <2>1, <3>1, IntervalsGrow
  <2>4. T < m1
    BY <1>1, <1>2, <2>1, ChosenIsBelowTurn
  <2>5. i \in Slots
    BY <1>1, <1>2, TicksOfNew
  <2>6. T \in Nat
    BY <1>2, <2>1, <2>5, TicksAreLeft
  <2>7. T2 = ((q + 1) * n - t) - 1
    BY <1>1, <1>2, <2>1, TicksOfNew
  <2>8. q \in Nat /\ a2 = n * q + (a2 % n) /\ a2 % n < n /\ a2 % n \in Nat
    BY <2>1, <2>2, Division
  <2>9. q # 0
    <3>1. SUFFICES ASSUME q = 0
                   PROVE  FALSE
      OBVIOUS
    <3>2. n * q = 0
      BY <2>2, <3>1
    <3> QED BY <2>2, <2>8, <3>2
  <2>10. (q + 1) * n >= 2 * n /\ (q + 1) * n \in Nat
    BY <2>2, <2>8, <2>9
  <2>11. T < T2
    BY <2>2, <2>3, <2>4, <2>6, <2>7, <2>10
  <2> QED BY <1>1, <1>3, <1>5, <2>1, <2>6, <2>11 DEF InOrder
<1>6. CASE k2 < k
  <2>1. PICK m, n1 : m = intervalMS[k] /\ n1 = intervalMS[k2 + 1]
    OBVIOUS
  <2>2. m \in Nat /\ n1 \in Nat /\ m <= a /\ a2 < n1
    BY <1>2, <1>3, <1>6, <2>1, Intervals
  <2>3. n1 <= m
    <3>1. k2 + 1 \in 0 .. k
      BY <1>3, <1>6
    <3> QED BY <1>3, <2>1, <3>1, IntervalsGrow
  <2> QED BY <2>2, <2>3
<1> QED BY <1>3, <1>4, <1>5, <1>6

\* A tick that leaves both where they are leaves them in order.
LEMMA BothStayInOrder ==
    ASSUME NEW cur \in [Wheels -> Slots], NEW cur2 \in [Wheels -> Slots], Advanced(cur, cur2),
           NEW k \in Wheels, NEW i \in Slots, ~(i = cur[k] /\ Full(cur, k)),
           NEW k2 \in Wheels, NEW i2 \in Slots, ~(i2 = cur[k2] /\ Full(cur, k2)),
           NEW d, NEW d2, InOrder(cur, k, i, d, k2, i2, d2)
    PROVE  InOrder(cur2, k, i, d, k2, i2, d2)
<1>1. PICK T, T2, U, U2 : /\ T = TicksFrom(cur, k, i) /\ T2 = TicksFrom(cur2, k, i)
                          /\ U = TicksFrom(cur, k2, i2) /\ U2 = TicksFrom(cur2, k2, i2)
  OBVIOUS
<1>2. T2 = T - 1 /\ U2 = U - 1
  BY <1>1, TickBringsCloser
<1>3. T \in Nat /\ U \in Nat
  BY <1>1, TicksAreLeft
<1>4. (T <= U => T2 <= U2) /\ (T2 = U2 => T = U)
  BY <1>2, <1>3
<1> QED BY <1>1, <1>4 DEF InOrder

\* What a cascade moves down comes before what it leaves on its wheel and the
\* wheels above.
LEMMA MovedBeforeStaying ==
    ASSUME NEW cur \in [Wheels -> Slots], NEW cur2 \in [Wheels -> Slots], Advanced(cur, cur2),
           NEW k \in Wheels, k + 1 \in Wheels, Full(cur, k + 1), NEW d \in Nat,
           NEW k2 \in Wheels, NEW i2 \in Slots, NEW d2, k + 1 <= k2
    PROVE  InOrder(cur2, k, SlotFor(k, cur2[k], Remaining(k + 1, d)), Remaining(k + 1, d),
                   k2, i2, d2)
<1>1. PICK e, m1 : e = Remaining(k + 1, d) /\ m1 = intervalMS[k + 1]
  OBVIOUS
<1>2. k \in Nat /\ k2 \in Nat /\ k + 1 \in 0 .. WHEELS
  BY Constants
<1>3. m1 \in Nat \ {0}
  BY <1>1, <1>2, Intervals
<1>4. e \in Nat /\ e < m1
  BY <1>1, <1>3, Division DEF Remaining
<1>5. PICK T, T2 : T = TicksFrom(cur2, k, SlotFor(k, cur2[k], e)) /\ T2 = TicksFrom(cur2, k2, i2)
  OBVIOUS
<1>6. T < m1
  BY <1>1, <1>4, <1>5, ChosenIsBelowTurn
<1>7. T \in Nat
  BY <1>1, <1>4, <1>5, TicksOfNew, TicksAreLeft
<1>8. T2 >= m1 - 1
  <2>1. k + 1 \in 0 .. k2
    BY <1>2
  <2>2. Turned(cur2)[k + 1] = 0
    BY <1>2, TurnedAdvances
  <2> QED BY <1>1, <1>5, <2>1, <2>2, HigherIsLater
<1>9. T2 \in Nat
  BY <1>5, TicksAreLeft
<1>10. T <= T2
  BY <1>3, <1>6, <1>7, <1>8, <1>9
<1>11. k <= k2 /\ k # k2
  BY <1>2
<1> QED BY <1>1, <1>5, <1>10, <1>11 DEF InOrder

\* Two that a cascade moves down, from the same or from two wheels, are still
\* in order.
LEMMA BothMovedInOrder ==
    ASSUME NEW cur \in [Wheels -> Slots], NEW cur2 \in [Wheels -> Slots], Advanced(cur, cur2),
           NEW k \in Wheels, k + 1 \in Wheels, Full(cur, k + 1), NEW d \in Nat,
           NEW k2 \in Wheels, k2 + 1 \in Wheels, Full(cur, k2 + 1), NEW d2 \in Nat,
           InOrder(cur, k + 1, cur[k + 1], d, k2 + 1, cur[k2 + 1], d2)
    PROVE  InOrder(cur2, k, SlotFor(k, cur2[k], Remaining(k + 1, d)), Remaining(k + 1, d),
                   k2, SlotFor(k2, cur2[k2], Remaining(k2 + 1, d2)), Remaining(k2 + 1, d2))
<1>1. k \in Nat /\ k2 \in Nat /\ k <= k2 /\ k2 + 1 \in 0 .. WHEELS
  BY Constants DEF InOrder
<1>2. CASE k = k2
  <2>1. cur[k + 1] \in Slots
    OBVIOUS
  <2>2. TicksFrom(cur, k + 1, cur[k + 1]) = 0
    BY <2>1, TicksAreLeft
  <2>3. Remaining(k + 1, d) <= Remaining(k + 1, d2)
    BY <1>2 DEF InOrder, Remaining
  <2>4. intervalMS[k + 1] \in Nat \ {0}
    BY <1>1, <1>2, Intervals
  <2>5. /\ Remaining(k + 1, d) \in Nat /\ Remaining(k + 1, d2) \in Nat
        /\ Remaining(k + 1, d2) < intervalMS[k + 1]
    BY <2>4, Division DEF Remaining
  <2> QED BY <1>2, <2>3, <2>5, SameWheelInOrder
<1>3. CASE k # k2
  <2>1. intervalMS[k2 + 1] \in Nat \ {0}
    BY <1>1, Intervals
  <2>2. Remaining(k2 + 1, d2) \in Nat /\ Remaining(k2 + 1, d2) < intervalMS[k2 + 1]
    BY <2>1, Division DEF Remaining
  <2>3. SlotFor(k2, cur2[k2], Remaining(k2 + 1, d2)) \in Slots
    BY <2>2, TicksOfNew
  <2>4. k + 1 <= k2
    BY <1>1, <1>3
  <2> QED BY <2>3, <2>4, MovedBeforeStaying
<1> QED BY <1>2, <1>3
-----------------------------------------------------------------------------
(* A list with one more and with one less *)

\* Append adds one element, and nothing twice if it was not listed.
LEMMA AppendOne ==
    ASSUME NEW V, NEW s \in Seq(V), NEW e \in V
    PROVE  /\ Append(s, e) \in Seq(V)
           /\ ToSet(Append(s, e)) = ToSet(s) \cup {e}
           /\ Distinct(s) /\ e \notin ToSet(s) => Distinct(Append(s, e))
<1>1. PICK r : r = Append(s, e)
  OBVIOUS
<1>2. /\ r \in Seq(V) /\ Len(r) = Len(s) + 1 /\ Len(s) \in Nat
      /\ DOMAIN s = 1 .. Len(s) /\ DOMAIN r = 1 .. Len(r)
      /\ r[Len(r)] = e /\ \A n \in 1 .. Len(s) : r[n] = s[n]
  BY <1>1
<1>3. \A n : n \in 1 .. Len(r) <=> n \in 1 .. Len(s) \/ n = Len(r)
  BY <1>2
<1>4. \A x : x \in ToSet(r) <=> x \in ToSet(s) \cup {e}
  <2>1. \A x : /\ x \in ToSet(r) <=> \E n \in 1 .. Len(r) : r[n] = x
               /\ x \in ToSet(s) <=> \E n \in 1 .. Len(s) : s[n] = x
    BY <1>2 DEF ToSet
  <2> QED BY <1>2, <1>3, <2>1
<1>5. ASSUME Distinct(s), e \notin ToSet(s)
      PROVE  Distinct(r)
  <2>1. \A n \in 1 .. Len(s) : s[n] # e
    BY <1>2, <1>5 DEF ToSet
  <2> QED BY <1>2, <1>3, <1>5, <2>1 DEF Distinct
<1> QED BY <1>1, <1>2, <1>4, <1>5

\* Tail takes the first element off.
LEMMA WithoutFirst ==
    ASSUME NEW V, NEW s \in Seq(V), s # <<>>
    PROVE  /\ Head(s) \in V /\ Tail(s) \in Seq(V)
           /\ ToSet(s) = ToSet(Tail(s)) \cup {Head(s)}
           /\ Distinct(s) => Distinct(Tail(s)) /\ Head(s) \notin ToSet(Tail(s))
<1>1. PICK r, e : r = Tail(s) /\ e = Head(s)
  OBVIOUS
<1>2. /\ r \in Seq(V) /\ e \in V /\ Len(r) = Len(s) - 1 /\ Len(s) \in Nat /\ Len(s) >= 1
      /\ DOMAIN s = 1 .. Len(s) /\ DOMAIN r = 1 .. Len(r)
      /\ s[1] = e /\ \A n \in 1 .. Len(r) : r[n] = s[n + 1]
  BY <1>1
<1>3. \A n \in 1 .. Len(r) : n + 1 \in 1 .. Len(s) /\ n + 1 # 1 /\ n \in Nat
  BY <1>2
<1>4. \A n \in 1 .. Len(s) : n = 1 \/ (n - 1 \in 1 .. Len(r) /\ (n - 1) + 1 = n)
  BY <1>2
<1>5. \A x : x \in ToSet(s) <=> x \in ToSet(r) \cup {e}
  <2>1. \A x : /\ x \in ToSet(r) <=> \E n \in 1 .. Len(r) : r[n] = x
               /\ x \in ToSet(s) <=> \E n \in 1 .. Len(s) : s[n] = x
    BY <1>2 DEF ToSet
  <2>2. 1 \in 1 .. Len(s)
    BY <1>2
  <2>3. ASSUME NEW n \in 1 .. Len(s)
        PROVE  s[n] = e \/ \E m \in 1 .. Len(r) : r[m] = s[n]
    BY <1>2, <1>4
  <2>4. \A n \in 1 .. Len(r) : \E m \in 1 .. Len(s) : s[m] = r[n]
    BY <1>2, <1>3
  <2>5. \E m \in 1 .. Len(s) : s[m] = e
    BY <1>2, <2>2
  <2> QED BY <2>1, <2>3, <2>4, <2>5
<1>6. ASSUME Distinct(s)
      PROVE  Distinct(r) /\ e \notin ToSet(r)
  <2>1. \A m, n \in 1 .. Len(s) : s[m] = s[n] => m = n
    BY <1>2, <1>6 DEF Distinct
  <2>2. 1 \in 1 .. Len(s)
    BY <1>2
  <2>3. \A n \in 1 .. Len(r) : r[n] # e
    BY <1>2, <1>3, <2>1, <2>2
  <2>4. \A m, n \in 1 .. Len(r) : r[m] = r[n] => m + 1 = n + 1
    BY <1>2, <1>3, <2>1
  <2>5. \A m, n \in 1 .. Len(r) : m + 1 = n + 1 => m = n
    BY <1>2
  <2> QED BY <1>2, <2>3, <2>4, <2>5 DEF Distinct, ToSet
<1> QED BY <1>1, <1>2, <1>5, <1>6

\* The empty list.
LEMMA NoneOfNothing ==
    ToSet(<<>>) = {} /\ Distinct(<<>>) /\ \A V : <<>> \in Seq(V)
BY DEF ToSet, Distinct

-----------------------------------------------------------------------------
(* The inductive invariant *)

\* c is in slot i of wheel k; c waits to be put on a wheel.
At(c, k, i) == c \in ToSet(slots[k][i])
Pending(c) == c \in ToSet(pending_events)

\* No list holds a coroutine twice, and no two lists hold the same one.
Lists ==
    /\ Distinct(pending_events)
    /\ \A k \in Wheels, i \in Slots : Distinct(slots[k][i])
    /\ \A c \in Coroutines, k, k2 \in Wheels, i, i2 \in Slots :
          At(c, k, i) /\ At(c, k2, i2) => k = k2 /\ i = i2
    /\ \A c \in Coroutines, k \in Wheels, i \in Slots : ~(Pending(c) /\ At(c, k, i))

\* The sleepers are those in the lists; one that is pending has not waited on
\* a wheel yet, and of one that is awake nothing is remembered.
Sleepers ==
    /\ \A c \in Coroutines :
          Pending(c) => Asleep(c) /\ delayMS[c] = asked[c] /\ age[c] = 0
    /\ \A c \in Coroutines, k \in Wheels, i \in Slots : At(c, k, i) => Asleep(c)
    /\ pc # "terminated" =>
          \A c \in Coroutines :
             Asleep(c) => Pending(c) \/ \E k \in Wheels, i \in Slots : At(c, k, i)
    /\ \A c \in Coroutines : ~Asleep(c) => age[c] = 0 /\ elapsed[c] = 0 /\ lagAtAdd[c] = 0

\* Every sleeper on a wheel is in a slot that it may be in.
WellPlaced ==
    \A c \in Coroutines, k \in Wheels, i \in Slots :
       At(c, k, i) => Placed(cur_slot_idx, k, i, delayMS[c], asked[c], age[c])

\* Of two sleepers put on the wheels before the same tick, the one with the
\* shorter delay comes first.
Ordered ==
    \A b, c \in Coroutines, k, k2 \in Wheels, i, i2 \in Slots :
       (/\ At(c, k, i) /\ At(b, k2, i2)
        /\ age[c] = age[b] /\ asked[c] < asked[b])
           => InOrder(cur_slot_idx, k, i, delayMS[c], k2, i2, delayMS[b])

\* The timer thread does not drain before the tick is due, and a sleeper has
\* been asleep for its ticks but for how far the thread was behind and is now.
Timely ==
    /\ pc \in {"top", "drain"} => lag >= 0
    /\ \A c \in Coroutines, k \in Wheels, i \in Slots :
          At(c, k, i) => elapsed[c] = Horizon \/ elapsed[c] + lagAtAdd[c] >= age[c] + lag

\* The whole invariant.
WheelInv ==
    TypeOK /\ Lists /\ Sleepers /\ WellPlaced /\ Ordered /\ Timely /\ ThrowsOnlyIfTooLong

\* What the lists say of a coroutine that is in one.
LEMMA OnWheelIsAt ==
    ASSUME TypeOK, NEW c \in Coroutines
    PROVE  /\ \A k \in Wheels, i \in Slots : Contains(slots[k][i], c) <=> At(c, k, i)
           /\ OnWheel(c) <=> \E k \in Wheels, i \in Slots : At(c, k, i)
<1>1. ASSUME NEW k \in Wheels, NEW i \in Slots
      PROVE  Contains(slots[k][i], c) <=> At(c, k, i)
  <2>1. PICK s : s = slots[k][i]
    OBVIOUS
  <2>2. s \in Seq(Coroutines)
    BY <2>1 DEF TypeOK
  <2>3. DOMAIN s = 1 .. Len(s)
    BY <2>2
  <2> QED BY <2>1, <2>3 DEF Contains, At, ToSet
<1> QED BY <1>1 DEF OnWheel

\* Nothing is listed in the initial state.
LEMMA InitHolds == Init => WheelInv
<1> SUFFICES ASSUME Init
             PROVE  WheelInv
  OBVIOUS
<1>1. /\ slots = [k \in Wheels |-> [i \in Slots |-> <<>>]]
      /\ pending_events = <<>> /\ pc = "top" /\ lag = 0
      /\ asked = [c \in Coroutines |-> -1]
      /\ age = [c \in Coroutines |-> 0]
      /\ elapsed = [c \in Coroutines |-> 0]
      /\ lagAtAdd = [c \in Coroutines |-> 0]
  BY DEF Init
<1>2. \A c : ~Pending(c) /\ \A k \in Wheels, i \in Slots : ~At(c, k, i)
  BY <1>1, NoneOfNothing DEF Pending, At
<1>3. TypeOK
  <2>1. 0 \in Nat /\ Horizon \in Nat /\ MaxLag \in Nat
    BY HorizonIsNat, MaxLagAssumption
  <2>2. 0 \in 0 .. Horizon /\ 0 \in 0 .. MaxLag /\ 0 \in -1 .. MaxLag
    BY <2>1
  <2> QED BY <1>1, <2>1, <2>2, NoneOfNothing, Constants DEF Init, TypeOK
<1>4. Lists
  BY <1>1, <1>2, NoneOfNothing DEF Lists
<1>5. Sleepers
  <2>1. \A c \in Coroutines : ~Asleep(c)
    BY <1>1 DEF Asleep
  <2> QED BY <1>1, <1>2, <2>1 DEF Sleepers
<1>6. WellPlaced /\ Ordered
  BY <1>2 DEF WellPlaced, Ordered
<1>7. Timely /\ ThrowsOnlyIfTooLong
  BY <1>1, <1>2 DEF Timely, ThrowsOnlyIfTooLong
<1> QED BY <1>3, <1>4, <1>5, <1>6, <1>7 DEF WheelInv
\* A step that moves no coroutine keeps the invariant if it keeps time.
LEMMA ListsUntouched ==
    ASSUME WheelInv,
           UNCHANGED <<wheels, delayMS, pending_events, asked, age, lagAtAdd>>,
           pc = "terminated" <=> pc' = "terminated",
           TypeOK', Timely', \A c \in Coroutines : ~Asleep(c) => elapsed'[c] = 0
    PROVE  WheelInv'
<1>1. /\ slots' = slots /\ cur_slot_idx' = cur_slot_idx /\ delayMS' = delayMS
      /\ pending_events' = pending_events /\ asked' = asked /\ age' = age /\ lagAtAdd' = lagAtAdd
  BY DEF wheels
<1>2. /\ \A c : Pending(c)' <=> Pending(c)
      /\ \A c, k, i : At(c, k, i)' <=> At(c, k, i)
      /\ \A c : Asleep(c)' <=> Asleep(c)
  BY <1>1 DEF Pending, At, Asleep
<1>3. Lists'
  BY <1>1, <1>2 DEF WheelInv, Lists
<1>4. Sleepers'
  BY <1>1, <1>2 DEF WheelInv, Sleepers
<1>5. WellPlaced' /\ Ordered'
  BY <1>1, <1>2 DEF WheelInv, WellPlaced, Ordered
<1>6. ThrowsOnlyIfTooLong'
  BY <1>1, <1>2 DEF WheelInv, ThrowsOnlyIfTooLong
<1> QED BY <1>3, <1>4, <1>5, <1>6 DEF WheelInv

\* A step that takes no time either.
LEMMA NothingTouched ==
    ASSUME WheelInv,
           UNCHANGED <<wheels, delayMS, pending_events, lag, ghosts>>,
           pc = "terminated" <=> pc' = "terminated",
           pc' \in {"top", "drain", "sleep", "returned", "terminated"}, running' \in BOOLEAN,
           pc' \in {"top", "drain"} => lag >= 0
    PROVE  WheelInv'
<1>1. UNCHANGED <<slots, cur_slot_idx, delayMS, pending_events, lag, asked, age, elapsed, lagAtAdd>>
  BY DEF wheels, ghosts
<1>2. TypeOK'
  BY <1>1 DEF WheelInv, TypeOK
<1>3. Timely'
  <2>1. \A c, k, i : At(c, k, i)' <=> At(c, k, i)
    BY <1>1 DEF At
  <2> QED BY <1>1, <2>1 DEF WheelInv, Timely
<1>4. \A c \in Coroutines : ~Asleep(c) => elapsed'[c] = 0
  BY <1>1 DEF WheelInv, Sleepers
<1> QED BY <1>1, <1>2, <1>3, <1>4, ListsUntouched DEF wheels

\* Time that passes passes for every sleeper.
LEMMA TimePassesWell ==
    ASSUME WheelInv, TimePasses, lag < MaxLag,
           UNCHANGED <<wheels, delayMS, pending_events, running, asked, age, lagAtAdd>>,
           pc = "terminated" <=> pc' = "terminated",
           pc' \in {"top", "drain", "sleep", "returned", "terminated"},
           pc' \in {"top", "drain"} => lag >= -1
    PROVE  WheelInv'
<1>1. UNCHANGED <<slots, cur_slot_idx, delayMS, pending_events, asked, age, lagAtAdd, running>>
  BY DEF wheels
<1>2. /\ lag' = lag + 1
      /\ elapsed' = [c \in Coroutines |-> IF Asleep(c) THEN Capped(elapsed[c] + 1) ELSE 0]
  BY DEF TimePasses
<1>3. MaxLag \in Nat /\ lag \in -1 .. MaxLag /\ lag' \in -1 .. MaxLag
  BY <1>2, MaxLagAssumption DEF WheelInv, TypeOK
<1>4. /\ elapsed \in [Coroutines -> 0 .. Horizon] /\ age \in [Coroutines -> 0 .. Horizon]
      /\ lagAtAdd \in [Coroutines -> 0 .. MaxLag]
  BY DEF WheelInv, TypeOK
<1>5. Horizon \in Nat
  BY HorizonIsNat
<1>6. \A e \in 0 .. Horizon : Capped(e + 1) = (IF e + 1 > Horizon THEN Horizon ELSE e + 1)
                              /\ Capped(e + 1) \in 0 .. Horizon
  BY <1>5 DEF Capped
<1>7. TypeOK'
  <2>1. elapsed' \in [Coroutines -> 0 .. Horizon]
    BY <1>2, <1>4, <1>5, <1>6
  <2> QED BY <1>1, <1>3, <2>1 DEF WheelInv, TypeOK
<1>8. Timely'
  <2>1. pc' \in {"top", "drain"} => lag' >= 0
    BY <1>2, <1>3
  <2>2. ASSUME NEW c \in Coroutines, NEW k \in Wheels, NEW i \in Slots, At(c, k, i)'
        PROVE  elapsed'[c] = Horizon \/ elapsed'[c] + lagAtAdd'[c] >= age'[c] + lag'
    <3>1. At(c, k, i)
      BY <1>1, <2>2 DEF At
    <3>2. Asleep(c) /\ (elapsed[c] = Horizon \/ elapsed[c] + lagAtAdd[c] >= age[c] + lag)
      BY <3>1 DEF WheelInv, Sleepers, Timely
    <3>3. PICK e, e2, g, l : e = elapsed[c] /\ e2 = elapsed'[c] /\ g = age[c] /\ l = lagAtAdd[c]
      OBVIOUS
    <3>4. e \in 0 .. Horizon /\ g \in Nat /\ l \in Nat
      BY <1>3, <1>4, <1>5, <3>3
    <3>5. e2 = IF e + 1 > Horizon THEN Horizon ELSE e + 1
      BY <1>2, <1>6, <3>2, <3>3, <3>4
    <3>6. e2 = Horizon \/ e2 + l >= g + (lag + 1)
      BY <1>3, <1>5, <3>2, <3>3, <3>4, <3>5
    <3> QED BY <1>1, <1>2, <3>3, <3>6
  <2> QED BY <2>1, <2>2 DEF Timely
<1>9. \A c \in Coroutines : ~Asleep(c) => elapsed'[c] = 0
  BY <1>2
<1> QED BY <1>1, <1>7, <1>8, <1>9, ListsUntouched DEF wheels

\* Another thread hands a coroutine to the timer.
LEMMA AddEventHolds ==
    ASSUME WheelInv, NEW c \in Coroutines, NEW d \in Delays, AddEvent(c, d)
    PROVE  WheelInv'
<1>1. /\ ~Asleep(c)
      /\ delayMS' = [delayMS EXCEPT ![c] = d]
      /\ pending_events' = Append(pending_events, c)
      /\ asked' = [asked EXCEPT ![c] = d]
      /\ UNCHANGED <<slots, cur_slot_idx, running, pc, lag, age, elapsed, lagAtAdd>>
  BY DEF AddEvent, wheels
<1>2. TypeOK /\ d \in Nat /\ d # -1
  BY DelaysAssumption DEF WheelInv
<1>3. ~Pending(c) /\ \A k \in Wheels, i \in Slots : ~At(c, k, i)
  BY <1>1 DEF WheelInv, Sleepers
<1>4. /\ pending_events' \in Seq(Coroutines)
      /\ \A b : Pending(b)' <=> Pending(b) \/ b = c
      /\ Distinct(pending_events')
  <2>1. Distinct(pending_events) /\ pending_events \in Seq(Coroutines)
        /\ c \notin ToSet(pending_events)
    BY <1>2, <1>3 DEF WheelInv, Lists, TypeOK, Pending
  <2> QED BY <1>1, <2>1, AppendOne DEF Pending
<1>5. \A b, k, i : At(b, k, i)' <=> At(b, k, i)
  BY <1>1 DEF At
<1>6. /\ asked'[c] = d /\ delayMS'[c] = d /\ Asleep(c)'
      /\ \A b \in Coroutines : b # c => /\ asked'[b] = asked[b] /\ delayMS'[b] = delayMS[b]
                                        /\ Asleep(b)' <=> Asleep(b)
  BY <1>1, <1>2 DEF Asleep, TypeOK
<1>7. TypeOK'
  BY <1>1, <1>2, <1>4 DEF TypeOK
<1>8. Lists'
  BY <1>1, <1>3, <1>4, <1>5 DEF WheelInv, Lists
<1>9. Sleepers'
  BY <1>1, <1>3, <1>4, <1>5, <1>6 DEF WheelInv, Sleepers
<1>10. \A b \in Coroutines, k \in Wheels, i \in Slots : At(b, k, i)' => At(b, k, i) /\ b # c
  BY <1>3, <1>5
<1>11. WellPlaced'
  BY <1>1, <1>6, <1>10 DEF WheelInv, WellPlaced
<1>12. Ordered'
  BY <1>1, <1>6, <1>10 DEF WheelInv, Ordered
<1>13. Timely'
  BY <1>1, <1>5 DEF WheelInv, Timely
<1>14. ThrowsOnlyIfTooLong'
  BY <1>1, <1>6 DEF WheelInv, ThrowsOnlyIfTooLong
<1> QED BY <1>7, <1>8, <1>9, <1>11, <1>12, <1>13, <1>14 DEF WheelInv

\* The throw takes a coroutine off the pending list whose delay is too long.
LEMMA DrainThrowsHolds ==
    ASSUME WheelInv, DrainThrows
    PROVE  WheelInv'
<1>1. /\ pending_events # <<>> /\ TooLong(delayMS[Head(pending_events)])
      /\ pc' = "terminated" /\ pending_events' = Tail(pending_events)
      /\ UNCHANGED <<slots, cur_slot_idx, delayMS, running, lag, asked, age, elapsed, lagAtAdd>>
  BY DEF DrainThrows, wheels, ghosts
<1>2. PICK c : c = Head(pending_events)
  OBVIOUS
<1>3. /\ c \in Coroutines /\ Pending(c) /\ pending_events' \in Seq(Coroutines)
      /\ \A b : Pending(b)' => Pending(b)
      /\ Distinct(pending_events')
  <2>1. pending_events \in Seq(Coroutines) /\ Distinct(pending_events)
    BY DEF WheelInv, TypeOK, Lists
  <2> QED BY <1>1, <1>2, <2>1, WithoutFirst DEF Pending
<1>4. /\ \A b, k, i : At(b, k, i)' <=> At(b, k, i)
      /\ \A b : Asleep(b)' <=> Asleep(b)
  BY <1>1 DEF At, Asleep
<1>5. TypeOK'
  BY <1>1, <1>3 DEF WheelInv, TypeOK
<1>6. Lists'
  BY <1>1, <1>3, <1>4 DEF WheelInv, Lists
<1>7. Sleepers'
  BY <1>1, <1>3, <1>4 DEF WheelInv, Sleepers
<1>8. WellPlaced' /\ Ordered'
  BY <1>1, <1>4 DEF WheelInv, WellPlaced, Ordered
<1>9. Timely'
  BY <1>1, <1>4 DEF WheelInv, Timely
<1>10. ThrowsOnlyIfTooLong'
  <2>1. Asleep(c) /\ TooLong(asked[c])
    BY <1>1, <1>2, <1>3 DEF WheelInv, Sleepers
  <2> QED BY <1>1, <1>3, <1>4, <2>1 DEF ThrowsOnlyIfTooLong
<1> QED BY <1>5, <1>6, <1>7, <1>8, <1>9, <1>10 DEF WheelInv
\* The drain puts the first pending coroutine on its wheel.
LEMMA DrainHolds ==
    ASSUME WheelInv, Drain
    PROVE  WheelInv'
<1>1. PICK c, a, k, i : /\ c = Head(pending_events) /\ a = delayMS[c] /\ k = WheelFor(a)
                        /\ i = SlotFor(k, cur_slot_idx[k], a)
  OBVIOUS
<1>2. /\ pc = "drain" /\ pending_events # <<>> /\ ~TooLong(a)
      /\ slots' = [slots EXCEPT ![k][i] = Append(@, c)]
      /\ lagAtAdd' = [lagAtAdd EXCEPT ![c] = lag]
      /\ pending_events' = Tail(pending_events)
      /\ UNCHANGED <<cur_slot_idx, delayMS, running, pc, lag, asked, age, elapsed>>
  BY <1>1 DEF Drain
<1>3. TypeOK
  BY DEF WheelInv
<1>4. /\ c \in Coroutines /\ pending_events' \in Seq(Coroutines)
      /\ \A b : Pending(b) <=> Pending(b)' \/ b = c
      /\ Distinct(pending_events') /\ ~Pending(c)'
  <2>1. pending_events \in Seq(Coroutines) /\ Distinct(pending_events)
    BY <1>3 DEF WheelInv, TypeOK, Lists
  <2> QED BY <1>1, <1>2, <2>1, WithoutFirst DEF Pending
<1>5. /\ Asleep(c) /\ a = asked[c] /\ age[c] = 0 /\ a \in Nat
      /\ \A k2 \in Wheels, i2 \in Slots : ~At(c, k2, i2)
  <2>1. Pending(c)
    BY <1>4
  <2>2. Asleep(c) /\ a = asked[c] /\ age[c] = 0
    BY <1>1, <1>4, <2>1 DEF WheelInv, Sleepers
  <2>3. asked[c] \in {-1} \cup Delays
    BY <1>3, <1>4 DEF TypeOK
  <2>4. a \in Nat
    BY <2>2, <2>3, DelaysAssumption DEF Asleep
  <2> QED BY <1>4, <2>1, <2>2, <2>4 DEF WheelInv, Lists
<1>6. k \in Wheels /\ a < intervalMS[k + 1] /\ i \in Slots
  <2>1. k \in Wheels /\ a < intervalMS[k + 1]
    BY <1>1, <1>2, <1>5, WheelForDelay
  <2>2. cur_slot_idx \in [Wheels -> Slots]
    BY <1>3 DEF TypeOK
  <2> QED BY <1>1, <1>5, <2>1, <2>2, TicksOfNew
<1>7. /\ slots' \in [Wheels -> [Slots -> Seq(Coroutines)]]
      /\ slots'[k][i] = Append(slots[k][i], c)
      /\ \A k2 \in Wheels, i2 \in Slots : k2 # k \/ i2 # i => slots'[k2][i2] = slots[k2][i2]
  <2>1. slots \in [Wheels -> [Slots -> Seq(Coroutines)]]
    BY <1>3 DEF TypeOK
  <2>2. Append(slots[k][i], c) \in Seq(Coroutines)
    BY <1>4, <1>6, <2>1, AppendOne
  <2> QED BY <1>2, <1>6, <2>1, <2>2
<1>8. /\ \A b : \A k2 \in Wheels, i2 \in Slots :
            At(b, k2, i2)' <=> At(b, k2, i2) \/ (b = c /\ k2 = k /\ i2 = i)
      /\ \A k2 \in Wheels, i2 \in Slots : Distinct(slots'[k2][i2])
  <2>1. PICK s : s = slots[k][i]
    OBVIOUS
  <2>2. s \in Seq(Coroutines) /\ Distinct(s) /\ c \notin ToSet(s)
    BY <1>3, <1>5, <1>6, <2>1 DEF WheelInv, TypeOK, Lists, At
  <2>3. ToSet(slots'[k][i]) = ToSet(s) \cup {c} /\ Distinct(slots'[k][i])
    BY <1>4, <1>7, <2>1, <2>2, AppendOne
  <2>4. ASSUME NEW k2 \in Wheels, NEW i2 \in Slots, NEW b
        PROVE  /\ At(b, k2, i2)' <=> At(b, k2, i2) \/ (b = c /\ k2 = k /\ i2 = i)
               /\ Distinct(slots'[k2][i2])
    <3>1. CASE k2 = k /\ i2 = i
      BY <2>1, <2>3, <3>1 DEF At
    <3>2. CASE k2 # k \/ i2 # i
      BY <1>7, <3>2 DEF At, WheelInv, Lists
    <3> QED BY <3>1, <3>2
  <2> QED BY <2>4
<1>9. \A b : Asleep(b)' <=> Asleep(b)
  BY <1>2 DEF Asleep
<1>10. /\ lag \in Nat /\ lag \in 0 .. MaxLag
       /\ lagAtAdd' \in [Coroutines -> 0 .. MaxLag] /\ lagAtAdd'[c] = lag
       /\ \A b \in Coroutines : b # c => lagAtAdd'[b] = lagAtAdd[b]
  <2>1. lag >= 0 /\ lag \in -1 .. MaxLag /\ MaxLag \in Nat
        /\ lagAtAdd \in [Coroutines -> 0 .. MaxLag]
    BY <1>2, <1>3, MaxLagAssumption DEF WheelInv, Timely, TypeOK
  <2> QED BY <1>2, <1>4, <2>1
<1>11. TypeOK'
  BY <1>2, <1>3, <1>4, <1>7, <1>10 DEF TypeOK
<1>12. Lists'
  <2>1. \A b \in Coroutines, k2, k3 \in Wheels, i2, i3 \in Slots :
           At(b, k2, i2)' /\ At(b, k3, i3)' => k2 = k3 /\ i2 = i3
    BY <1>5, <1>8 DEF WheelInv, Lists
  <2>2. \A b \in Coroutines, k2 \in Wheels, i2 \in Slots : ~(Pending(b)' /\ At(b, k2, i2)')
    BY <1>4, <1>8 DEF WheelInv, Lists
  <2> QED BY <1>4, <1>8, <2>1, <2>2 DEF Lists
<1>13. Sleepers'
  <2>1. /\ \A b \in Coroutines :
              Pending(b)' => Asleep(b)' /\ delayMS'[b] = asked'[b] /\ age'[b] = 0
        /\ \A b \in Coroutines, k2 \in Wheels, i2 \in Slots : At(b, k2, i2)' => Asleep(b)'
    BY <1>2, <1>4, <1>5, <1>8, <1>9 DEF WheelInv, Sleepers
  <2>2. ASSUME NEW b \in Coroutines, Asleep(b)'
        PROVE  Pending(b)' \/ \E k2 \in Wheels, i2 \in Slots : At(b, k2, i2)'
    <3>1. Pending(b) \/ \E k2 \in Wheels, i2 \in Slots : At(b, k2, i2)
      BY <1>2, <1>9, <2>2 DEF WheelInv, Sleepers
    <3> QED BY <1>4, <1>6, <1>8, <3>1
  <2>3. \A b \in Coroutines :
           ~Asleep(b)' => age'[b] = 0 /\ elapsed'[b] = 0 /\ lagAtAdd'[b] = 0
    BY <1>2, <1>5, <1>9, <1>10 DEF WheelInv, Sleepers
  <2> QED BY <2>1, <2>2, <2>3 DEF Sleepers
<1>14. cur_slot_idx \in [Wheels -> Slots]
  BY <1>3 DEF TypeOK
<1>15. Placed(cur_slot_idx, k, i, a, a, 0)
  BY <1>1, <1>2, <1>5, <1>14, NewIsPlaced
<1>16. WellPlaced'
  <2>1. ASSUME NEW b \in Coroutines, NEW k2 \in Wheels, NEW i2 \in Slots, At(b, k2, i2)'
        PROVE  Placed(cur_slot_idx, k2, i2, delayMS[b], asked[b], age[b])
    <3>1. CASE At(b, k2, i2)
      BY <3>1 DEF WheelInv, WellPlaced
    <3>2. CASE b = c /\ k2 = k /\ i2 = i
      BY <1>1, <1>5, <1>15, <3>2
    <3> QED BY <1>8, <2>1, <3>1, <3>2
  <2> QED BY <1>2, <2>1 DEF WellPlaced
<1>17. Ordered'
  <2>1. ASSUME NEW b1 \in Coroutines, NEW b2 \in Coroutines,
               NEW k1 \in Wheels, NEW k2 \in Wheels, NEW i1 \in Slots, NEW i2 \in Slots,
               At(b1, k1, i1)', At(b2, k2, i2)', age[b1] = age[b2], asked[b1] < asked[b2]
        PROVE  InOrder(cur_slot_idx, k1, i1, delayMS[b1], k2, i2, delayMS[b2])
    <3>1. CASE At(b1, k1, i1) /\ At(b2, k2, i2)
      BY <2>1, <3>1 DEF WheelInv, Ordered
    <3>2. CASE b1 = c \/ b2 = c
      <4>1. b1 # b2
        <5>1. asked[b1] \in {-1} \cup Delays
          BY <1>3 DEF TypeOK
        <5>2. asked[b1] \in Int
          <6>1. -1 \in Int /\ Delays \subseteq Int
            BY DelaysAssumption
          <6> QED BY <5>1, <6>1
        <5> QED BY <2>1, <5>2
      <4>2. age[b1] = 0 /\ age[b2] = 0
        BY <1>5, <2>1, <3>2
      <4>3. ASSUME NEW b \in {b1, b2}, NEW kb \in Wheels, NEW ib \in Slots, At(b, kb, ib)'
            PROVE  /\ delayMS[b] = asked[b] /\ asked[b] \in Nat /\ ~TooLong(asked[b])
                   /\ kb = WheelFor(asked[b])
                   /\ ib = SlotFor(WheelFor(asked[b]), cur_slot_idx[WheelFor(asked[b])], asked[b])
        <5>1. CASE At(b, kb, ib)
          <6>1. Placed(cur_slot_idx, kb, ib, delayMS[b], asked[b], 0) /\ Asleep(b)
            BY <4>2, <5>1 DEF WheelInv, WellPlaced, Sleepers
          <6>2. asked[b] \in Nat
            BY <1>3, <6>1, DelaysAssumption DEF TypeOK, Asleep
          <6> QED BY <6>1, <6>2 DEF Placed
        <5>2. CASE b = c /\ kb = k /\ ib = i
          BY <1>1, <1>2, <1>5, <5>2
        <5> QED BY <1>8, <4>3, <5>1, <5>2
      <4>4. /\ delayMS[b1] = asked[b1] /\ asked[b1] \in Nat /\ ~TooLong(asked[b1])
            /\ k1 = WheelFor(asked[b1])
            /\ i1 = SlotFor(WheelFor(asked[b1]), cur_slot_idx[WheelFor(asked[b1])], asked[b1])
        BY <2>1, <4>3
      <4>5. /\ delayMS[b2] = asked[b2] /\ asked[b2] \in Nat /\ ~TooLong(asked[b2])
            /\ k2 = WheelFor(asked[b2])
            /\ i2 = SlotFor(WheelFor(asked[b2]), cur_slot_idx[WheelFor(asked[b2])], asked[b2])
        BY <2>1, <4>3
      <4> QED BY <1>14, <2>1, <4>4, <4>5, NewInOrder
    <3> QED BY <1>8, <2>1, <3>1, <3>2
  <2> QED BY <1>2, <2>1 DEF Ordered
<1>18. Timely'
  <2>1. ASSUME NEW b \in Coroutines, NEW k2 \in Wheels, NEW i2 \in Slots, At(b, k2, i2)'
        PROVE  elapsed[b] = Horizon \/ elapsed[b] + lagAtAdd'[b] >= age[b] + lag
    <3>1. CASE b = c
      <4>1. elapsed[c] \in 0 .. Horizon
        BY <1>3, <1>4 DEF TypeOK
      <4> QED BY <1>5, <1>10, <3>1, <4>1
    <3>2. CASE b # c
      <4>1. At(b, k2, i2)
        BY <1>8, <2>1, <3>2
      <4> QED BY <1>10, <3>2, <4>1 DEF WheelInv, Timely
    <3> QED BY <3>1, <3>2
  <2> QED BY <1>2, <1>10, <2>1 DEF Timely
<1>19. ThrowsOnlyIfTooLong'
  BY <1>2 DEF ThrowsOnlyIfTooLong
<1> QED BY <1>11, <1>12, <1>13, <1>16, <1>17, <1>18, <1>19 DEF WheelInv
-----------------------------------------------------------------------------
(* A tick *)

\* What a tick does with a sleeper: it stays, comes down a wheel, or fires.
Over(k, i) == i = cur_slot_idx[k] /\ Full(cur_slot_idx, k)
Stays(c, k, i) == At(c, k, i) /\ ~Over(k, i)
LeavesFor(c, k) ==
    k + 1 \in Wheels /\ Full(cur_slot_idx, k + 1) /\ At(c, k + 1, cur_slot_idx[k + 1])
Comes(cur2, c, k, i) ==
    LeavesFor(c, k) /\ i = SlotFor(k, cur2[k], Remaining(k + 1, delayMS[c]))
Fires(c) == At(c, 0, cur_slot_idx[0])

\* The wheels go on as Advanced says, and what a wheel hands down is its
\* current slot.
LEMMA WheelsTick ==
    ASSUME WheelInv, Tick
    PROVE  /\ cur_slot_idx \in [Wheels -> Slots] /\ cur_slot_idx' \in [Wheels -> Slots]
           /\ Advanced(cur_slot_idx, cur_slot_idx')
           /\ \A k \in Wheels : cur_slot_idx'[k] = IdxAfterTick(k)
           /\ \A k : Ticks(k) <=> Full(cur_slot_idx, k)
<1>1. cur_slot_idx \in [Wheels -> Slots]
  BY DEF WheelInv, TypeOK
<1>2. \A k : Ticks(k) <=> Full(cur_slot_idx, k)
  BY DEF Ticks, Full
<1>3. cur_slot_idx' = [k \in Wheels |-> IdxAfterTick(k)]
  BY DEF Tick
<1>4. \A k \in Wheels :
         IdxAfterTick(k) = IF Full(cur_slot_idx, k) THEN (cur_slot_idx[k] + 1) % SLOTS
                           ELSE cur_slot_idx[k]
  BY <1>2 DEF IdxAfterTick
<1>5. ASSUME NEW k \in Wheels
      PROVE  IdxAfterTick(k) \in Slots
  <2>1. PICK x : x = cur_slot_idx[k]
    OBVIOUS
  <2>2. x \in Slots /\ x \in Nat /\ SLOTS \in Nat \ {0}
    BY <1>1, <2>1, Constants
  <2>3. (x + 1) % SLOTS \in 0 .. SLOTS - 1
    BY <2>2
  <2> QED BY <1>4, <2>1, <2>2, <2>3 DEF Slots
<1> QED BY <1>1, <1>2, <1>3, <1>4, <1>5 DEF Advanced

\* What a wheel hands down, as a list and as a set.
LEMMA MovedIsCurrent ==
    ASSUME WheelInv, Tick
    PROVE  \A k \in Nat : /\ Moved(k) \in Seq(Coroutines) /\ Distinct(Moved(k))
                          /\ \A c : /\ c \in ToSet(Moved(k)) <=>
                                          /\ k \in Wheels \ {0} /\ Full(cur_slot_idx, k)
                                          /\ At(c, k, cur_slot_idx[k])
                                    /\ Contains(Moved(k), c) <=> c \in ToSet(Moved(k))
<1> SUFFICES ASSUME NEW k \in Nat
             PROVE  /\ Moved(k) \in Seq(Coroutines) /\ Distinct(Moved(k))
                    /\ \A c : /\ c \in ToSet(Moved(k)) <=>
                                    /\ k \in Wheels \ {0} /\ Full(cur_slot_idx, k)
                                    /\ At(c, k, cur_slot_idx[k])
                              /\ Contains(Moved(k), c) <=> c \in ToSet(Moved(k))
  OBVIOUS
<1>1. PICK s : s = Moved(k)
  OBVIOUS
<1>2. s = IF k \in Wheels \ {0} /\ Full(cur_slot_idx, k) THEN slots[k][cur_slot_idx[k]] ELSE <<>>
  BY <1>1, WheelsTick DEF Moved, Current
<1>3. s \in Seq(Coroutines) /\ Distinct(s)
  <2>1. CASE k \in Wheels \ {0} /\ Full(cur_slot_idx, k)
    <3>1. cur_slot_idx[k] \in Slots
      BY <2>1, WheelsTick
    <3> QED BY <1>2, <2>1, <3>1 DEF WheelInv, TypeOK, Lists
  <2>2. CASE ~(k \in Wheels \ {0} /\ Full(cur_slot_idx, k))
    BY <1>2, <2>2, NoneOfNothing
  <2> QED BY <2>1, <2>2
<1>4. \A c : c \in ToSet(s) <=> /\ k \in Wheels \ {0} /\ Full(cur_slot_idx, k)
                                /\ At(c, k, cur_slot_idx[k])
  BY <1>2, NoneOfNothing DEF At
<1>5. \A c : Contains(s, c) <=> c \in ToSet(s)
  <2>1. DOMAIN s = 1 .. Len(s)
    BY <1>3
  <2> QED BY <2>1 DEF Contains, ToSet
<1> QED BY <1>1, <1>3, <1>4, <1>5

\* Where every coroutine is after the tick.
LEMMA TickMoves ==
    ASSUME WheelInv, Tick
    PROVE  /\ slots' \in [Wheels -> [Slots -> Seq(Coroutines)]]
           /\ \A k \in Wheels, i \in Slots : Distinct(slots'[k][i])
           /\ \A c \in Coroutines, k \in Wheels, i \in Slots :
                 At(c, k, i)' <=> Stays(c, k, i) \/ Comes(cur_slot_idx', c, k, i)
<1>1. slots' = [k \in Wheels |-> [i \in Slots |-> CascadedSlot(k, i)]]
  BY DEF Tick
<1>2. ASSUME NEW k \in Wheels, NEW i \in Slots
      PROVE  /\ CascadedSlot(k, i) \in Seq(Coroutines)
             /\ Distinct(CascadedSlot(k, i))
             /\ \A c \in Coroutines : c \in ToSet(CascadedSlot(k, i)) <=>
                                      Stays(c, k, i) \/ Comes(cur_slot_idx', c, k, i)
  <2>1. PICK s, u, m, C : /\ s = LeftInSlot(k, i) /\ C = GoesTo(k, i)
                          /\ m = Moved(k + 1) /\ u = Only(m, C)
    OBVIOUS
  <2>2. k + 1 \in Nat /\ k + 1 # 0 /\ k \in Nat
    BY Constants
  <2>3. s = IF Over(k, i) THEN <<>> ELSE slots[k][i]
    BY <2>1, WheelsTick DEF LeftInSlot, Over
  <2>4. s \in Seq(Coroutines) /\ Distinct(s)
    BY <2>3, NoneOfNothing DEF WheelInv, TypeOK, Lists
  <2>5. \A c : c \in ToSet(s) <=> Stays(c, k, i)
    BY <2>3, NoneOfNothing DEF Stays, At
  <2>6. /\ m \in Seq(Coroutines) /\ Distinct(m)
        /\ \A c : c \in ToSet(m) <=> LeavesFor(c, k)
    BY <2>1, <2>2, MovedIsCurrent DEF LeavesFor
  <2>7. u \in Seq(Coroutines) /\ ToSet(u) = ToSet(m) \cap C /\ Distinct(u)
    BY <2>1, <2>6, OnlySome
  <2>8. \A c \in Coroutines : c \in ToSet(u) <=> Comes(cur_slot_idx', c, k, i)
    <3>1. \A c \in Coroutines :
             c \in C <=> i = SlotFor(k, cur_slot_idx'[k], Remaining(k + 1, delayMS[c]))
      BY <2>1, WheelsTick DEF GoesTo
    <3> QED BY <2>6, <2>7, <3>1 DEF Comes
  <2>9. ToSet(s) \cap ToSet(u) = {}
    <3>1. SUFFICES ASSUME NEW c, c \in ToSet(s), c \in ToSet(u)
                   PROVE  FALSE
      OBVIOUS
    <3>2. At(c, k, i) /\ LeavesFor(c, k)
      BY <2>5, <2>6, <2>7, <3>1 DEF Stays
    <3>3. c \in Coroutines
      <4>1. DOMAIN s = 1 .. Len(s) /\ \A n \in 1 .. Len(s) : s[n] \in Coroutines
        BY <2>4
      <4> QED BY <3>1, <4>1 DEF ToSet
    <3>4. k + 1 \in Wheels /\ At(c, k + 1, cur_slot_idx[k + 1]) /\ cur_slot_idx[k + 1] \in Slots
      BY <3>2, WheelsTick DEF LeavesFor
    <3>5. k = k + 1
      BY <3>2, <3>3, <3>4 DEF WheelInv, Lists
    <3> QED BY <2>2, <3>5
  <2>10. PICK r : r = s \o u
    OBVIOUS
  <2>11. r \in Seq(Coroutines) /\ ToSet(r) = ToSet(s) \cup ToSet(u) /\ Distinct(r)
    BY <2>4, <2>7, <2>9, <2>10, ConcatBoth
  <2>12. CascadedSlot(k, i) = r
    BY <2>1, <2>10 DEF CascadedSlot
  <2> QED BY <2>5, <2>8, <2>11, <2>12
<1>3. \A k \in Wheels, i \in Slots : slots'[k][i] = CascadedSlot(k, i)
  BY <1>1
<1>4. slots' \in [Wheels -> [Slots -> Seq(Coroutines)]]
  BY <1>1, <1>2
<1>5. \A k \in Wheels, i \in Slots : Distinct(slots'[k][i])
  BY <1>2, <1>3
<1>6. \A c \in Coroutines, k \in Wheels, i \in Slots :
         At(c, k, i)' <=> Stays(c, k, i) \/ Comes(cur_slot_idx', c, k, i)
  BY <1>2, <1>3 DEF At
<1> QED BY <1>4, <1>5, <1>6

\* What is left of every delay after the tick.
LEMMA TickRemains ==
    ASSUME WheelInv, Tick
    PROVE  /\ delayMS' \in [Coroutines -> Nat]
           /\ \A c \in Coroutines, k \in Wheels : 
                 LeavesFor(c, k) => delayMS'[c] = Remaining(k + 1, delayMS[c])
           /\ \A c \in Coroutines :
                 (\A k \in Wheels : ~LeavesFor(c, k)) => delayMS'[c] = delayMS[c]
           /\ CascadeFits
<1>1. delayMS \in [Coroutines -> Nat]
  BY DEF WheelInv, TypeOK
<1>2. \A k \in Wheels : intervalMS[k] \in Nat \ {0}
  BY Constants, Intervals
<1>3. \A k \in Wheels, c \in Coroutines : /\ Remaining(k, delayMS[c]) \in Nat
                                          /\ Remaining(k, delayMS[c]) < intervalMS[k]
  BY <1>1, <1>2, Division DEF Remaining
<1>4. delayMS' = [c \in Coroutines |->
                    IF \E k \in Wheels : Contains(Moved(k), c)
                    THEN Remaining(CHOOSE k \in Wheels : Contains(Moved(k), c), delayMS[c])
                    ELSE delayMS[c]]
  BY DEF Tick
<1>5. \A k \in Wheels : \A c : Contains(Moved(k), c) <=>
                              /\ k # 0 /\ Full(cur_slot_idx, k) /\ At(c, k, cur_slot_idx[k])
  BY MovedIsCurrent, Constants
<1>6. \A k \in Wheels : k # 0 => k - 1 \in Wheels /\ (k - 1) + 1 = k
  BY Constants DEF Wheels
<1>7. \A k \in Wheels : k + 1 # 0
  BY Constants
<1>8. \A k \in Wheels : \A c : Contains(Moved(k), c) => k # 0 /\ LeavesFor(c, k - 1)
  BY <1>5, <1>6 DEF LeavesFor
<1>9. \A k \in Wheels : \A c : LeavesFor(c, k) => k + 1 \in Wheels /\ Contains(Moved(k + 1), c)
  BY <1>5, <1>7 DEF LeavesFor
<1>10. \A c \in Coroutines, k, k2 \in Wheels :
          Contains(Moved(k), c) /\ Contains(Moved(k2), c) => k = k2
  <2>1. \A k \in Wheels : cur_slot_idx[k] \in Slots
    BY WheelsTick
  <2> QED BY <1>5, <2>1 DEF WheelInv, Lists
<1>11. ASSUME NEW c \in Coroutines
       PROVE  delayMS'[c] \in Nat
  <2>1. CASE \E k \in Wheels : Contains(Moved(k), c)
    <3>1. PICK k : k = CHOOSE j \in Wheels : Contains(Moved(j), c)
      OBVIOUS
    <3>2. k \in Wheels
      BY <2>1, <3>1
    <3>3. delayMS'[c] = Remaining(k, delayMS[c])
      BY <1>4, <2>1, <3>1
    <3> QED BY <1>3, <3>2, <3>3
  <2>2. CASE ~\E k \in Wheels : Contains(Moved(k), c)
    BY <1>1, <1>4, <2>2
  <2> QED BY <2>1, <2>2
<1>12. ASSUME NEW c \in Coroutines, NEW k \in Wheels, LeavesFor(c, k)
       PROVE  delayMS'[c] = Remaining(k + 1, delayMS[c])
  <2>1. k + 1 \in Wheels /\ Contains(Moved(k + 1), c)
    BY <1>9, <1>12
  <2>2. (CHOOSE j \in Wheels : Contains(Moved(j), c)) = k + 1
    BY <1>10, <2>1
  <2> QED BY <1>4, <2>1, <2>2
<1>13. ASSUME NEW c \in Coroutines, \A k \in Wheels : ~LeavesFor(c, k)
       PROVE  delayMS'[c] = delayMS[c]
  <2>1. ~\E k \in Wheels : Contains(Moved(k), c)
    BY <1>6, <1>8, <1>13
  <2> QED BY <1>4, <2>1
<1>14. CascadeFits
  <2>1. ASSUME NEW k \in Wheels, NEW c \in ToSet(Moved(k))
        PROVE  Remaining(k, delayMS[c]) < intervalMS[k]
    <3>1. PICK s : s = Moved(k)
      OBVIOUS
    <3>2. s \in Seq(Coroutines)
      BY <3>1, MovedIsCurrent, Constants
    <3>3. DOMAIN s = 1 .. Len(s) /\ \A n \in 1 .. Len(s) : s[n] \in Coroutines
      BY <3>2
    <3>4. c \in Coroutines
      BY <2>1, <3>1, <3>3 DEF ToSet
    <3> QED BY <1>3, <3>4
  <2> QED BY <2>1 DEF CascadeFits
<1>15. delayMS' \in [Coroutines -> Nat]
  BY <1>4, <1>11
<1> QED BY <1>12, <1>13, <1>14, <1>15
\* What the tick does to the ghosts.
LEMMA TickCounts ==
    ASSUME WheelInv, Tick
    PROVE  \A c \in Coroutines :
              /\ Fires(c) => asked'[c] = -1 /\ age'[c] = 0 /\ elapsed'[c] = 0 /\ lagAtAdd'[c] = 0
              /\ ~Fires(c) => /\ asked'[c] = asked[c] /\ elapsed'[c] = elapsed[c]
                              /\ lagAtAdd'[c] = lagAtAdd[c]
                              /\ age'[c] = IF OnWheel(c) THEN Capped(age[c] + 1) ELSE age[c]
<1>1. \A c : c \in ToSet(Fired) <=> Fires(c)
  BY DEF Fired, Current, Fires, At
<1>2. Wake(ToSet(Fired))
  BY DEF Tick
<1> QED BY <1>1, <1>2 DEF Wake

\* A sleeper that does not fire is where it may be, one tick later.
LEMMA TickPlaces ==
    ASSUME WheelInv, Tick, NEW c \in Coroutines, NEW k \in Wheels, NEW i \in Slots,
           Stays(c, k, i) \/ Comes(cur_slot_idx', c, k, i)
    PROVE  /\ ~Fires(c) /\ Asleep(c) /\ asked[c] \in Delays
           /\ Stays(c, k, i) => delayMS'[c] = delayMS[c] /\ \A j \in Wheels : ~LeavesFor(c, j)
           /\ Comes(cur_slot_idx', c, k, i) => delayMS'[c] = Remaining(k + 1, delayMS[c])
           /\ age'[c] = age[c] + 1 /\ age[c] \in Nat /\ delayMS[c] \in Nat
           /\ Placed(cur_slot_idx', k, i, delayMS'[c], asked[c], age[c] + 1)
<1>1. /\ cur_slot_idx \in [Wheels -> Slots] /\ cur_slot_idx' \in [Wheels -> Slots]
      /\ Advanced(cur_slot_idx, cur_slot_idx')
  BY WheelsTick
<1>2. /\ delayMS[c] \in Nat /\ age[c] \in Nat /\ asked[c] \in {-1} \cup Delays
      /\ delayMS'[c] \in Nat /\ 0 \in Wheels /\ k \in Nat
  <2>1. delayMS[c] \in Nat /\ age[c] \in 0 .. Horizon /\ asked[c] \in {-1} \cup Delays
    BY DEF WheelInv, TypeOK
  <2>2. age[c] \in Nat
    BY <2>1, HorizonIsNat
  <2>3. delayMS'[c] \in Nat
    BY TickRemains
  <2> QED BY <2>1, <2>2, <2>3, Constants
<1>3. /\ ~Fires(c) /\ Asleep(c) /\ OnWheel(c)
      /\ Stays(c, k, i) => delayMS'[c] = delayMS[c] /\ \A j \in Wheels : ~LeavesFor(c, j)
      /\ Comes(cur_slot_idx', c, k, i) => delayMS'[c] = Remaining(k + 1, delayMS[c])
      /\ asked[c] \in Nat => Placed(cur_slot_idx', k, i, delayMS'[c], asked[c], age[c] + 1)
  <2>1. \A j \in Wheels : cur_slot_idx[j] \in Slots
    BY <1>1
  <2>2. CASE Stays(c, k, i)
    <3>1. At(c, k, i) /\ ~(i = cur_slot_idx[k] /\ Full(cur_slot_idx, k))
      BY <2>2 DEF Stays, Over
    <3>2. Full(cur_slot_idx, 0)
      BY <1>2, FullNext
    <3>3. ~Fires(c)
      BY <1>2, <2>1, <3>1, <3>2 DEF WheelInv, Lists, Fires
    <3>4. \A j \in Wheels : ~LeavesFor(c, j)
      BY <2>1, <3>1 DEF WheelInv, Lists, LeavesFor
    <3>5. delayMS'[c] = delayMS[c]
      BY <3>4, TickRemains
    <3>6. Placed(cur_slot_idx, k, i, delayMS[c], asked[c], age[c])
      BY <3>1 DEF WheelInv, WellPlaced
    <3>7. asked[c] \in Nat => Placed(cur_slot_idx', k, i, delayMS[c], asked[c], age[c] + 1)
      BY <1>1, <1>2, <3>1, <3>6, StaysPlaced
    <3>8. Asleep(c) /\ OnWheel(c)
      BY <3>1, OnWheelIsAt DEF WheelInv, Sleepers
    <3>9. ~Comes(cur_slot_idx', c, k, i)
      BY <3>4 DEF Comes
    <3> QED BY <3>3, <3>4, <3>5, <3>7, <3>8, <3>9
  <2>3. CASE Comes(cur_slot_idx', c, k, i)
    <3>1. /\ k + 1 \in Wheels /\ Full(cur_slot_idx, k + 1)
          /\ At(c, k + 1, cur_slot_idx[k + 1]) /\ LeavesFor(c, k)
          /\ i = SlotFor(k, cur_slot_idx'[k], Remaining(k + 1, delayMS[c]))
      BY <2>3 DEF Comes, LeavesFor
    <3>2. k + 1 # 0 /\ cur_slot_idx[k + 1] \in Slots
      BY <1>2, <2>1, <3>1
    <3>3. ~Fires(c)
      BY <1>2, <2>1, <3>1, <3>2 DEF WheelInv, Lists, Fires
    <3>4. delayMS'[c] = Remaining(k + 1, delayMS[c])
      BY <3>1, TickRemains
    <3>5. Placed(cur_slot_idx, k + 1, cur_slot_idx[k + 1], delayMS[c], asked[c], age[c])
      BY <3>1, <3>2 DEF WheelInv, WellPlaced
    <3>6. asked[c] \in Nat => Placed(cur_slot_idx', k, i, delayMS'[c], asked[c], age[c] + 1)
      BY <1>1, <1>2, <3>1, <3>4, <3>5, CascadeIsPlaced
    <3>7. Asleep(c) /\ OnWheel(c)
      BY <3>1, <3>2, OnWheelIsAt DEF WheelInv, Sleepers
    <3>8. ~Stays(c, k, i)
      <4>1. k # k + 1
        BY <1>2
      <4> QED BY <3>1, <3>2, <4>1 DEF WheelInv, Lists, Stays
    <3> QED BY <3>3, <3>4, <3>6, <3>7, <3>8
  <2> QED BY <2>2, <2>3
<1>4. asked[c] \in Delays /\ asked[c] \in Nat
  BY <1>2, <1>3, DelaysAssumption DEF Asleep
<1>5. Placed(cur_slot_idx', k, i, delayMS'[c], asked[c], age[c] + 1) /\ age[c] + 1 \in Nat
  BY <1>2, <1>3, <1>4
<1>6. age[c] + 1 <= Horizon
  BY <1>1, <1>2, <1>4, <1>5, PlacedBelowHorizon
<1>7. Capped(age[c] + 1) = age[c] + 1
  BY <1>5, <1>6, HorizonIsNat DEF Capped
<1>8. age'[c] = age[c] + 1
  BY <1>3, <1>7, TickCounts
<1> QED BY <1>2, <1>3, <1>4, <1>5, <1>8
\* Unless it fires, a sleeper on a wheel is on a wheel after the tick.
LEMMA TickLosesNone ==
    ASSUME WheelInv, Tick, NEW c \in Coroutines, NEW k \in Wheels, NEW i \in Slots,
           At(c, k, i), ~Fires(c)
    PROVE  \E k2 \in Wheels, i2 \in Slots : At(c, k2, i2)'
<1>1. CASE ~Over(k, i)
  <2>1. Stays(c, k, i)
    BY <1>1 DEF Stays
  <2> QED BY <2>1, TickMoves
<1>2. CASE Over(k, i)
  <2>1. k # 0
    BY <1>2 DEF Over, Fires
  <2>2. PICK j : j = k - 1
    OBVIOUS
  <2>3. j \in Wheels /\ j + 1 = k
    BY <2>1, <2>2, Constants DEF Wheels
  <2>4. LeavesFor(c, j)
    BY <1>2, <2>3 DEF LeavesFor, Over
  <2>5. PICK i2 : i2 = SlotFor(j, cur_slot_idx'[j], Remaining(j + 1, delayMS[c]))
    OBVIOUS
  <2>6. i2 \in Slots
    <3>1. delayMS[c] \in Nat /\ j + 1 \in 0 .. WHEELS
      BY <2>3, Constants DEF WheelInv, TypeOK
    <3>2. intervalMS[j + 1] \in Nat \ {0}
      BY <3>1, Intervals
    <3>3. PICK e : e = Remaining(j + 1, delayMS[c])
      OBVIOUS
    <3>4. e \in Nat /\ e < intervalMS[j + 1]
      BY <3>1, <3>2, <3>3, Division DEF Remaining
    <3> QED BY <2>3, <2>5, <3>3, <3>4, WheelsTick, TicksOfNew
  <2>7. Comes(cur_slot_idx', c, j, i2)
    BY <2>4, <2>5 DEF Comes
  <2> QED BY <2>3, <2>6, <2>7, TickMoves
<1> QED BY <1>1, <1>2

\* The tick keeps the order of any two sleepers.
LEMMA TickKeepsOrder ==
    ASSUME WheelInv, Tick
    PROVE  Ordered'
<1>1. /\ cur_slot_idx \in [Wheels -> Slots] /\ cur_slot_idx' \in [Wheels -> Slots]
      /\ Advanced(cur_slot_idx, cur_slot_idx')
  BY WheelsTick
<1>2. ASSUME NEW b \in Coroutines, NEW c \in Coroutines, NEW k \in Wheels, NEW k2 \in Wheels,
             NEW i \in Slots, NEW i2 \in Slots, At(c, k, i)', At(b, k2, i2)',
             age'[c] = age'[b], asked'[c] < asked'[b]
      PROVE  InOrder(cur_slot_idx', k, i, delayMS'[c], k2, i2, delayMS'[b])
  <2>1. /\ Stays(c, k, i) \/ Comes(cur_slot_idx', c, k, i)
        /\ Stays(b, k2, i2) \/ Comes(cur_slot_idx', b, k2, i2)
    BY <1>2, TickMoves
  <2>2. /\ ~Fires(c) /\ ~Fires(b) /\ age'[c] = age[c] + 1 /\ age'[b] = age[b] + 1
        /\ age[c] \in Nat /\ age[b] \in Nat /\ delayMS[c] \in Nat /\ delayMS[b] \in Nat
    BY <2>1, TickPlaces
  <2>3. asked'[c] = asked[c] /\ asked'[b] = asked[b]
    BY <2>2, TickCounts
  <2>4. age[c] = age[b] /\ asked[c] < asked[b]
    <3>1. age[c] = age[b]
      <4>1. PICK x, y : x = age[c] /\ y = age[b]
        OBVIOUS
      <4>2. age'[c] = x + 1 /\ age'[b] = y + 1 /\ x \in Nat /\ y \in Nat
        BY <2>2, <4>1
      <4>3. x + 1 = y + 1
        BY <1>2, <4>2
      <4> QED BY <4>1, <4>2, <4>3
    <3> QED BY <1>2, <2>3, <3>1
  <2>5. \A j, j2 \in Wheels, n, n2 \in Slots :
           At(c, j, n) /\ At(b, j2, n2) => InOrder(cur_slot_idx, j, n, delayMS[c], j2, n2, delayMS[b])
    BY <2>4 DEF WheelInv, Ordered
  <2>6. \A j \in Wheels : cur_slot_idx[j] \in Slots
    BY <1>1
  <2>7. CASE Stays(c, k, i) /\ Stays(b, k2, i2)
    <3>1. InOrder(cur_slot_idx, k, i, delayMS[c], k2, i2, delayMS[b])
      BY <2>5, <2>7 DEF Stays
    <3>2. /\ ~(i = cur_slot_idx[k] /\ Full(cur_slot_idx, k))
          /\ ~(i2 = cur_slot_idx[k2] /\ Full(cur_slot_idx, k2))
      BY <2>7 DEF Stays, Over
    <3>3. delayMS'[c] = delayMS[c] /\ delayMS'[b] = delayMS[b]
      BY <2>7, TickPlaces
    <3> QED BY <1>1, <3>1, <3>2, <3>3, BothStayInOrder
  <2>8. CASE Comes(cur_slot_idx', c, k, i)
    <3>1. /\ k + 1 \in Wheels /\ Full(cur_slot_idx, k + 1)
          /\ At(c, k + 1, cur_slot_idx[k + 1])
          /\ i = SlotFor(k, cur_slot_idx'[k], Remaining(k + 1, delayMS[c]))
          /\ delayMS'[c] = Remaining(k + 1, delayMS[c])
      BY <2>8, TickPlaces DEF Comes, LeavesFor
    <3>2. CASE Stays(b, k2, i2)
      <4>1. InOrder(cur_slot_idx, k + 1, cur_slot_idx[k + 1], delayMS[c], k2, i2, delayMS[b])
        BY <2>5, <2>6, <3>1, <3>2 DEF Stays
      <4>2. k + 1 <= k2
        BY <4>1 DEF InOrder
      <4> QED BY <1>1, <2>2, <3>1, <4>2, MovedBeforeStaying
    <3>3. CASE Comes(cur_slot_idx', b, k2, i2)
      <4>1. /\ k2 + 1 \in Wheels /\ Full(cur_slot_idx, k2 + 1)
            /\ At(b, k2 + 1, cur_slot_idx[k2 + 1])
            /\ i2 = SlotFor(k2, cur_slot_idx'[k2], Remaining(k2 + 1, delayMS[b]))
            /\ delayMS'[b] = Remaining(k2 + 1, delayMS[b])
        BY <3>3, TickPlaces DEF Comes, LeavesFor
      <4>2. InOrder(cur_slot_idx, k + 1, cur_slot_idx[k + 1], delayMS[c],
                    k2 + 1, cur_slot_idx[k2 + 1], delayMS[b])
        BY <2>5, <2>6, <3>1, <4>1
      <4> QED BY <1>1, <2>2, <3>1, <4>1, <4>2, BothMovedInOrder
    <3> QED BY <2>1, <3>2, <3>3
  <2>9. CASE Stays(c, k, i) /\ Comes(cur_slot_idx', b, k2, i2)
    <3>1. /\ k2 + 1 \in Wheels /\ Full(cur_slot_idx, k2 + 1)
          /\ At(b, k2 + 1, cur_slot_idx[k2 + 1]) /\ cur_slot_idx[k2 + 1] \in Slots
      BY <2>6, <2>9 DEF Comes, LeavesFor
    <3>2. InOrder(cur_slot_idx, k, i, delayMS[c], k2 + 1, cur_slot_idx[k2 + 1], delayMS[b])
      BY <2>5, <2>9, <3>1 DEF Stays
    <3>3. TicksFrom(cur_slot_idx, k2 + 1, cur_slot_idx[k2 + 1]) = 0
      BY <1>1, <3>1, TicksAreLeft
    <3>4. TicksFrom(cur_slot_idx, k, i) <= 0
      BY <3>2, <3>3 DEF InOrder
    <3>5. PICK T : T = TicksFrom(cur_slot_idx, k, i)
      OBVIOUS
    <3>6. T \in Nat /\ T <= 0
      BY <1>1, <3>4, <3>5, TicksAreLeft
    <3>7. T = 0
      BY <3>6
    <3>8. Over(k, i)
      BY <1>1, <3>5, <3>7, TicksAreLeft DEF Over
    <3> QED BY <2>9, <3>8 DEF Stays
  <2> QED BY <2>1, <2>7, <2>8, <2>9
<1> QED BY <1>2 DEF Ordered

\* The tick with its cascade keeps the invariant.
LEMMA TickHolds ==
    ASSUME WheelInv, Tick
    PROVE  WheelInv'
<1>1. /\ pc = "drain" /\ pending_events = <<>> /\ lag' = lag - 1
      /\ pc' = "sleep" /\ pending_events' = pending_events /\ running' = running
  BY TickRemains DEF Tick
<1>2. \A c : ~Pending(c) /\ ~Pending(c)'
  BY <1>1, NoneOfNothing DEF Pending
<1>3. /\ \A c \in Coroutines : Fires(c) => Asleep(c)
      /\ \A c \in Coroutines : Asleep(c)' <=> Asleep(c) /\ ~Fires(c)
  <2>1. 0 \in Wheels /\ cur_slot_idx[0] \in Slots
    BY WheelsTick, Constants
  <2>2. \A c \in Coroutines : Fires(c) => Asleep(c)
    BY <2>1 DEF WheelInv, Sleepers, Fires
  <2> QED BY <2>2, TickCounts DEF Asleep
<1>4. TypeOK'
  <2>1. lag' \in -1 .. MaxLag
    <3>1. lag \in -1 .. MaxLag /\ lag >= 0 /\ MaxLag \in Nat
      BY <1>1, MaxLagAssumption DEF WheelInv, TypeOK, Timely
    <3> QED BY <1>1, <3>1
  <2>2. /\ asked' \in [Coroutines -> {-1} \cup Delays]
        /\ elapsed' \in [Coroutines -> 0 .. Horizon]
        /\ lagAtAdd' \in [Coroutines -> 0 .. MaxLag]
        /\ age' \in [Coroutines -> 0 .. Horizon]
    <3>1. PICK C : C = ToSet(Fired) /\ Wake(C)
      BY DEF Tick
    <3>2. /\ asked \in [Coroutines -> {-1} \cup Delays]
          /\ elapsed \in [Coroutines -> 0 .. Horizon]
          /\ lagAtAdd \in [Coroutines -> 0 .. MaxLag]
          /\ age \in [Coroutines -> 0 .. Horizon]
      BY DEF WheelInv, TypeOK
    <3>3. 0 \in 0 .. Horizon /\ 0 \in 0 .. MaxLag
      BY HorizonIsNat, MaxLagAssumption
    <3>4. \A n \in 0 .. Horizon : Capped(n + 1) \in 0 .. Horizon
      BY HorizonIsNat DEF Capped
    <3>5. asked' \in [Coroutines -> {-1} \cup Delays]
      BY <3>1, <3>2 DEF Wake
    <3>6. elapsed' \in [Coroutines -> 0 .. Horizon] /\ lagAtAdd' \in [Coroutines -> 0 .. MaxLag]
      BY <3>1, <3>2, <3>3 DEF Wake
    <3>7. age' \in [Coroutines -> 0 .. Horizon]
      BY <3>1, <3>2, <3>3, <3>4 DEF Wake
    <3> QED BY <3>5, <3>6, <3>7
  <2> QED BY <1>1, <2>1, <2>2, TickMoves, TickRemains, WheelsTick DEF WheelInv, TypeOK
<1>5. Lists'
  <2>1. Distinct(pending_events')
    BY <1>1, NoneOfNothing
  <2>2. ASSUME NEW c \in Coroutines, NEW k \in Wheels, NEW k2 \in Wheels,
               NEW i \in Slots, NEW i2 \in Slots, At(c, k, i)', At(c, k2, i2)'
        PROVE  k = k2 /\ i = i2
    <3>1. /\ Stays(c, k, i) \/ Comes(cur_slot_idx', c, k, i)
          /\ Stays(c, k2, i2) \/ Comes(cur_slot_idx', c, k2, i2)
      BY <2>2, TickMoves
    <3>2. CASE Stays(c, k, i)
      <4>1. \A j \in Wheels : ~LeavesFor(c, j)
        BY <3>2, TickPlaces
      <4>2. Stays(c, k2, i2)
        BY <3>1, <4>1 DEF Comes
      <4> QED BY <3>2, <4>2 DEF WheelInv, Lists, Stays
    <3>3. CASE Comes(cur_slot_idx', c, k, i)
      <4>1. LeavesFor(c, k)
        BY <3>3 DEF Comes
      <4>2. ~Stays(c, k2, i2)
        BY <4>1, TickPlaces
      <4>3. Comes(cur_slot_idx', c, k2, i2)
        BY <3>1, <4>2
      <4>4. k + 1 = k2 + 1
        <5>1. \A j \in Wheels : cur_slot_idx[j] \in Slots
          BY WheelsTick
        <5> QED BY <3>3, <4>3, <5>1 DEF Comes, LeavesFor, WheelInv, Lists
      <4>5. k = k2
        BY <4>4, Constants
      <4> QED BY <3>3, <4>3, <4>5 DEF Comes
    <3> QED BY <3>1, <3>2, <3>3
  <2> QED BY <1>2, <2>1, <2>2, TickMoves DEF Lists
<1>6. ASSUME NEW c \in Coroutines, NEW k \in Wheels, NEW i \in Slots, At(c, k, i)'
      PROVE  /\ Asleep(c) /\ ~Fires(c) /\ age'[c] = age[c] + 1 /\ age[c] \in Nat
             /\ asked'[c] = asked[c] /\ elapsed'[c] = elapsed[c] /\ lagAtAdd'[c] = lagAtAdd[c]
             /\ Placed(cur_slot_idx', k, i, delayMS'[c], asked'[c], age'[c])
             /\ \E j \in Wheels, n \in Slots : At(c, j, n)
  <2>1. Stays(c, k, i) \/ Comes(cur_slot_idx', c, k, i)
    BY <1>6, TickMoves
  <2>2. /\ Asleep(c) /\ ~Fires(c) /\ age'[c] = age[c] + 1 /\ age[c] \in Nat
        /\ Placed(cur_slot_idx', k, i, delayMS'[c], asked[c], age[c] + 1)
    BY <2>1, TickPlaces
  <2>3. asked'[c] = asked[c] /\ elapsed'[c] = elapsed[c] /\ lagAtAdd'[c] = lagAtAdd[c]
    BY <2>2, TickCounts
  <2>4. \E j \in Wheels, n \in Slots : At(c, j, n)
    BY <2>1, WheelsTick DEF Stays, Comes, LeavesFor
  <2> QED BY <2>2, <2>3, <2>4
<1>7. Sleepers'
  <2>1. ASSUME NEW c \in Coroutines, Asleep(c)'
        PROVE  \E k \in Wheels, i \in Slots : At(c, k, i)'
    <3>1. Asleep(c) /\ ~Fires(c)
      BY <1>3, <2>1
    <3>2. \E k \in Wheels, i \in Slots : At(c, k, i)
      BY <1>1, <1>2, <3>1 DEF WheelInv, Sleepers
    <3> QED BY <3>1, <3>2, TickLosesNone
  <2>2. ASSUME NEW c \in Coroutines, ~Asleep(c)'
        PROVE  age'[c] = 0 /\ elapsed'[c] = 0 /\ lagAtAdd'[c] = 0
    <3>1. CASE Fires(c)
      BY <3>1, TickCounts
    <3>2. CASE ~Fires(c)
      <4>1. ~Asleep(c)
        BY <1>3, <2>2, <3>2
      <4>2. ~OnWheel(c)
        BY <4>1, OnWheelIsAt DEF WheelInv, Sleepers
      <4>3. age[c] = 0 /\ elapsed[c] = 0 /\ lagAtAdd[c] = 0
        BY <4>1 DEF WheelInv, Sleepers
      <4> QED BY <3>2, <4>2, <4>3, TickCounts
    <3> QED BY <3>1, <3>2
  <2>3. \A c \in Coroutines, k \in Wheels, i \in Slots : At(c, k, i)' => Asleep(c)'
    BY <1>3, <1>6
  <2> QED BY <1>2, <2>1, <2>2, <2>3 DEF Sleepers
<1>8. WellPlaced'
  BY <1>6 DEF WellPlaced
<1>9. Timely'
  <2>1. ASSUME NEW c \in Coroutines, NEW k \in Wheels, NEW i \in Slots, At(c, k, i)'
        PROVE  elapsed'[c] = Horizon \/ elapsed'[c] + lagAtAdd'[c] >= age'[c] + lag'
    <3>1. elapsed[c] = Horizon \/ elapsed[c] + lagAtAdd[c] >= age[c] + lag
      BY <1>6, <2>1 DEF WheelInv, Timely
    <3>2. /\ elapsed'[c] = elapsed[c] /\ lagAtAdd'[c] = lagAtAdd[c]
          /\ age'[c] = age[c] + 1 /\ age[c] \in Nat
      BY <1>6, <2>1
    <3>3. (age[c] + 1) + (lag - 1) = age[c] + lag
      <4>1. lag \in -1 .. MaxLag /\ MaxLag \in Nat
        BY MaxLagAssumption DEF WheelInv, TypeOK
      <4> QED BY <3>2, <4>1
    <3> QED BY <1>1, <3>1, <3>2, <3>3
  <2> QED BY <1>1, <2>1 DEF Timely
<1>10. ThrowsOnlyIfTooLong'
  BY <1>1 DEF ThrowsOnlyIfTooLong
<1> QED BY <1>4, <1>5, <1>7, <1>8, <1>9, <1>10, TickKeepsOrder DEF WheelInv
-----------------------------------------------------------------------------
(* The theorems *)

\* The invariant is inductive: it holds initially and every step keeps it.
THEOREM WheelInvIsInductive == Spec => []WheelInv
<1>1. Init => WheelInv
  BY InitHolds
<1>2. WheelInv /\ [Next]_vars => WheelInv'
  <2> SUFFICES ASSUME WheelInv, [Next]_vars
               PROVE  WheelInv'
    OBVIOUS
  <2>1. /\ pc \in {"top", "drain", "sleep", "returned", "terminated"} /\ running \in BOOLEAN
        /\ lag \in -1 .. MaxLag /\ MaxLag \in Nat /\ (pc \in {"top", "drain"} => lag >= 0)
    BY MaxLagAssumption DEF WheelInv, TypeOK, Timely
  <2>2. ASSUME NEW c \in Coroutines, NEW d \in Delays, AddEvent(c, d)
        PROVE  WheelInv'
    BY <2>2, AddEventHolds
  <2>3. CASE Stop
    <3>1. /\ UNCHANGED <<wheels, delayMS, pending_events, lag, ghosts>>
          /\ pc' = pc /\ running' = FALSE
      BY <2>3 DEF Stop
    <3> QED BY <2>1, <3>1, NothingTouched
  <2>4. CASE LoopTop
    <3>1. /\ UNCHANGED <<wheels, delayMS, pending_events, lag, ghosts>>
          /\ pc = "top" /\ pc' \in {"drain", "returned"} /\ running' = running
      BY <2>4 DEF LoopTop
    <3> QED BY <2>1, <3>1, NothingTouched
  <2>5. CASE Drain
    BY <2>5, DrainHolds
  <2>6. CASE DrainThrows
    BY <2>6, DrainThrowsHolds
  <2>7. CASE Tick
    BY <2>7, TickHolds
  <2>8. CASE SleepUntilNext
    <3>1. /\ UNCHANGED <<wheels, delayMS, pending_events, running, asked, age, lagAtAdd>>
          /\ pc = "sleep" /\ pc' = "top" /\ lag < 0 /\ TimePasses
      BY <2>8 DEF SleepUntilNext
    <3>2. lag < MaxLag /\ lag >= -1
      BY <2>1, <3>1
    <3> QED BY <3>1, <3>2, TimePassesWell
  <2>9. CASE NoSleep
    <3>1. /\ UNCHANGED <<wheels, delayMS, pending_events, lag, ghosts>>
          /\ pc = "sleep" /\ pc' = "top" /\ lag >= 0 /\ running' = running
      BY <2>9 DEF NoSleep
    <3> QED BY <2>1, <3>1, NothingTouched
  <2>10. CASE Delayed
    <3>1. /\ UNCHANGED <<wheels, delayMS, pending_events, running, asked, age, lagAtAdd>>
          /\ pc' = pc /\ lag \in 0 .. MaxLag - 1 /\ TimePasses
      BY <2>10 DEF Delayed
    <3>2. lag < MaxLag /\ lag >= -1
      BY <2>1, <3>1
    <3> QED BY <2>1, <3>1, <3>2, TimePassesWell
  <2>11. CASE UNCHANGED vars
    <3>1. /\ UNCHANGED <<wheels, delayMS, pending_events, lag, ghosts>>
          /\ pc' = pc /\ running' = running
      BY <2>11 DEF vars
    <3> QED BY <2>1, <3>1, NothingTouched
  <2>12. CASE Ended
    BY <2>11, <2>12 DEF Ended
  <2> QED BY <2>2, <2>3, <2>4, <2>5, <2>6, <2>7, <2>8, <2>9, <2>10, <2>11, <2>12
          DEF Next, EventLoop
<1> QED BY <1>1, <1>2, PTL DEF Spec

\* The places of a coroutine, counted.
LEMMA LinkedOnceFollows == WheelInv => LinkedOnce
<1> SUFFICES ASSUME WheelInv, pc # "terminated", NEW c \in Coroutines
             PROVE  Cardinality(Places(c)) = IF Asleep(c) THEN 1 ELSE 0
  BY DEF LinkedOnce
<1>1. pending_events \in Seq(Coroutines) /\ slots \in [Wheels -> [Slots -> Seq(Coroutines)]]
  BY DEF WheelInv, TypeOK
<1>2. /\ Pending(c) <=> \E n \in DOMAIN pending_events : pending_events[n] = c
      /\ \A k \in Wheels, i \in Slots :
            At(c, k, i) <=> \E n \in DOMAIN slots[k][i] : slots[k][i][n] = c
  BY DEF Pending, At, ToSet
<1>3. \A x : x \in Places(c) <=>
                \/ \E n \in DOMAIN pending_events : pending_events[n] = c /\ x = <<<<>>, n>>
                \/ \E k \in Wheels, i \in Slots : \E n \in DOMAIN slots[k][i] :
                      slots[k][i][n] = c /\ x = <<<<k, i>>, n>>
  <2>1. \A x, where, s : x \in PlacesIn(c, where, s) <=>
                           \E n \in DOMAIN s : s[n] = c /\ x = <<where, n>>
    BY DEF PlacesIn
  <2>2. \A x : x \in Places(c) <=>
                  \/ x \in PlacesIn(c, <<>>, pending_events)
                  \/ \E p \in Wheels \X Slots : x \in PlacesIn(c, p, slots[p[1]][p[2]])
    BY DEF Places
  <2>3. \A x : (\E p \in Wheels \X Slots : x \in PlacesIn(c, p, slots[p[1]][p[2]])) <=>
               \E k \in Wheels, i \in Slots : x \in PlacesIn(c, <<k, i>>, slots[k][i])
    <3>1. ASSUME NEW x, NEW p \in Wheels \X Slots, x \in PlacesIn(c, p, slots[p[1]][p[2]])
          PROVE  \E k \in Wheels, i \in Slots : x \in PlacesIn(c, <<k, i>>, slots[k][i])
      <4>1. PICK k \in Wheels, i \in Slots : p = <<k, i>>
        OBVIOUS
      <4>2. p[1] = k /\ p[2] = i
        BY <4>1
      <4> QED BY <3>1, <4>1, <4>2
    <3>2. ASSUME NEW x, NEW k \in Wheels, NEW i \in Slots,
                 x \in PlacesIn(c, <<k, i>>, slots[k][i])
          PROVE  \E p \in Wheels \X Slots : x \in PlacesIn(c, p, slots[p[1]][p[2]])
      <4>1. PICK p \in Wheels \X Slots : p = <<k, i>>
        OBVIOUS
      <4>2. p[1] = k /\ p[2] = i
        BY <4>1
      <4> QED BY <3>2, <4>1, <4>2
    <3> QED BY <3>1, <3>2
  <2> QED BY <2>1, <2>2, <2>3
<1>4. CASE ~Asleep(c)
  <2>1. ~Pending(c) /\ \A k \in Wheels, i \in Slots : ~At(c, k, i)
    BY <1>4 DEF WheelInv, Sleepers
  <2>2. Places(c) = {}
    BY <1>2, <1>3, <2>1
  <2> QED BY <1>4, <2>2, FS_EmptySet
<1>5. CASE Asleep(c)
  <2>1. \E x : Places(c) = {x}
    <3>1. CASE Pending(c)
      <4>1. PICK n \in DOMAIN pending_events : pending_events[n] = c
        BY <1>2, <3>1
      <4>2. \A m \in DOMAIN pending_events : pending_events[m] = c => m = n
        BY <4>1 DEF WheelInv, Lists, Distinct
      <4>3. \A k \in Wheels, i \in Slots : \A m \in DOMAIN slots[k][i] : slots[k][i][m] # c
        BY <1>2, <3>1 DEF WheelInv, Lists
      <4>4. \A x : x \in Places(c) <=> x = <<<<>>, n>>
        BY <1>3, <4>1, <4>2, <4>3
      <4>5. Places(c) = {<<<<>>, n>>}
        BY <4>4, Zenon
      <4> QED BY <4>5
    <3>2. CASE ~Pending(c)
      <4>1. PICK k \in Wheels, i \in Slots : At(c, k, i)
        BY <1>5, <3>2 DEF WheelInv, Sleepers
      <4>2. PICK n \in DOMAIN slots[k][i] : slots[k][i][n] = c
        BY <1>2, <4>1
      <4>3. \A k2 \in Wheels, i2 \in Slots : \A m \in DOMAIN slots[k2][i2] :
               slots[k2][i2][m] = c => k2 = k /\ i2 = i /\ m = n
        <5>1. ASSUME NEW k2 \in Wheels, NEW i2 \in Slots, NEW m \in DOMAIN slots[k2][i2],
                     slots[k2][i2][m] = c
              PROVE  k2 = k /\ i2 = i /\ m = n
          <6>1. At(c, k2, i2)
            BY <1>2, <5>1
          <6>2. k2 = k /\ i2 = i
            BY <4>1, <6>1 DEF WheelInv, Lists
          <6> QED BY <4>2, <5>1, <6>2 DEF WheelInv, Lists, Distinct
        <5> QED BY <5>1
      <4>4. \A m \in DOMAIN pending_events : pending_events[m] # c
        BY <1>2, <3>2
      <4>5. \A x : x \in Places(c) <=> x = <<<<k, i>>, n>>
        BY <1>3, <4>2, <4>3, <4>4
      <4>6. Places(c) = {<<<<k, i>>, n>>}
        BY <4>5, Zenon
      <4> QED BY <4>6
    <3> QED BY <3>1, <3>2
  <2> QED BY <1>5, <2>1, FS_Singleton
<1> QED BY <1>4, <1>5

\* What RemainingIsEnough asks is part of where a sleeper may be.
LEMMA RemainingFollows == WheelInv => RemainingIsEnough
<1> SUFFICES ASSUME WheelInv, NEW k \in Wheels, NEW i \in Slots, NEW c \in ToSet(slots[k][i])
             PROVE  /\ delayMS[c] < intervalMS[k + 1]
                    /\ age[c] + TicksToSlot(k, i) + (delayMS[c] % intervalMS[k]) >= asked[c]
  BY DEF RemainingIsEnough
<1>1. c \in Coroutines
  <2>1. PICK s : s = slots[k][i]
    OBVIOUS
  <2>2. s \in Seq(Coroutines)
    BY <2>1 DEF WheelInv, TypeOK
  <2>3. DOMAIN s = 1 .. Len(s) /\ \A n \in 1 .. Len(s) : s[n] \in Coroutines
    BY <2>2
  <2> QED BY <2>1, <2>3 DEF ToSet
<1>2. Placed(cur_slot_idx, k, i, delayMS[c], asked[c], age[c])
  BY <1>1 DEF WheelInv, WellPlaced, At
<1>3. TicksToSlot(k, i) = TicksFrom(cur_slot_idx, k, i)
  BY DEF TicksToSlot, TicksFrom
<1> QED BY <1>2, <1>3 DEF Placed, Due

\* Each sleeper is in one list, once, and those that are awake are in none.
THEOREM WheelInvariantCorrect == Spec => []WheelInvariant
<1>1. WheelInv => WheelInvariant
  BY LinkedOnceFollows DEF WheelInv, WheelInvariant
<1> QED BY <1>1, WheelInvIsInductive, PTL

\* Whatever cascades a sleeper went through, it has as many ticks to go as it
\* still has to wait.
THEOREM RemainingIsEnoughCorrect == Spec => []RemainingIsEnough
BY RemainingFollows, WheelInvIsInductive, PTL

\* Neither add_event() nor a cascade throws if every delay fits the wheels.
THEOREM ThrowsOnlyIfTooLongCorrect == Spec => []ThrowsOnlyIfTooLong
<1>1. WheelInv => ThrowsOnlyIfTooLong
  BY DEF WheelInv
<1> QED BY <1>1, WheelInvIsInductive, PTL

\* Only a tick wakes a coroutine, and it wakes those in the current slot of
\* wheel 0.
LEMMA WokenByTick ==
    ASSUME WheelInv, [Next]_vars, NEW c \in Coroutines, Asleep(c), asked'[c] = -1
    PROVE  Tick /\ Fires(c) /\ pc = "drain"
<1>1. asked[c] # -1
  BY DEF Asleep
<1>2. ASSUME asked' = asked
      PROVE  FALSE
  BY <1>1, <1>2
<1>3. ASSUME NEW b \in Coroutines, NEW d \in Delays, AddEvent(b, d)
      PROVE  FALSE
  <2>1. b # c /\ asked' = [asked EXCEPT ![b] = d]
    BY <1>3 DEF AddEvent
  <2>2. asked'[c] = asked[c]
    BY <2>1 DEF WheelInv, TypeOK
  <2> QED BY <1>1, <2>2
<1>4. Tick
  BY <1>2, <1>3 DEF Next, EventLoop, Stop, LoopTop, Drain, DrainThrows, SleepUntilNext, NoSleep,
                    Delayed, Ended, vars, ghosts
<1> QED BY <1>1, <1>4, TickCounts DEF Tick

\* What fires has waited for its delay, and no more than its lateness.
LEMMA FiresInTime ==
    ASSUME WheelInv, NEW c \in Coroutines, Fires(c)
    PROVE  /\ age[c] \in asked[c] .. asked[c] + Lateness(asked[c])
           /\ asked[c] \in Delays /\ asked[c] \in Nat
           /\ elapsed[c] = Horizon \/ elapsed[c] + lagAtAdd[c] >= age[c] + lag
<1>1. cur_slot_idx \in [Wheels -> Slots] /\ 0 \in Wheels
  BY Constants DEF WheelInv, TypeOK
<1>2. At(c, 0, cur_slot_idx[0]) /\ cur_slot_idx[0] \in Slots
  BY <1>1 DEF Fires
<1>3. /\ Asleep(c) /\ Placed(cur_slot_idx, 0, cur_slot_idx[0], delayMS[c], asked[c], age[c])
      /\ elapsed[c] = Horizon \/ elapsed[c] + lagAtAdd[c] >= age[c] + lag
  BY <1>1, <1>2 DEF WheelInv, Sleepers, WellPlaced, Timely
<1>4. asked[c] \in Delays /\ asked[c] \in Nat /\ age[c] \in Nat /\ delayMS[c] \in Nat
  <2>1. asked[c] \in {-1} \cup Delays /\ age[c] \in 0 .. Horizon /\ delayMS[c] \in Nat
    BY DEF WheelInv, TypeOK
  <2>2. asked[c] \in Delays
    BY <1>3, <2>1 DEF Asleep
  <2>3. asked[c] \in Nat
    BY <2>2, DelaysAssumption
  <2>4. age[c] \in Nat
    BY <2>1, HorizonIsNat
  <2> QED BY <2>1, <2>2, <2>3, <2>4
<1>5. TicksFrom(cur_slot_idx, 0, cur_slot_idx[0]) = 0
  <2>1. Full(cur_slot_idx, 0)
    BY FullNext, Constants
  <2> QED BY <1>1, <1>2, <2>1, TicksAreLeft
<1>6. delayMS[c] % intervalMS[0] = 0
  BY <1>4, Intervals
<1>7. PICK a, g, z : a = asked[c] /\ g = age[c] /\ z = Lateness(a)
  OBVIOUS
<1>8. Due(cur_slot_idx, 0, cur_slot_idx[0], delayMS[c], g) = (g + 0) + 0
  BY <1>5, <1>6 DEF Due
<1>9. (g + 0) + 0 >= a /\ ((g + 0) + 0) + 0 <= a + z /\ a \in Nat /\ g \in Nat /\ z \in Nat
  BY <1>3, <1>4, <1>7, <1>8, LatenessBounded DEF Placed, LatenessBelow
<1>10. g \in a .. a + z
  BY <1>9
<1> QED BY <1>3, <1>4, <1>7, <1>10

\* A coroutine is woken after the ticks it asked for, and not much later.
THEOREM WokenInTimeCorrect == Spec => WokenInTime
<1>1. WheelInv /\ [Next]_vars =>
        [\A c \in Coroutines :
            Asleep(c) /\ asked'[c] = -1 =>
                age[c] \in asked[c] .. asked[c] + Lateness(asked[c])]_vars
  BY WokenByTick, FiresInTime
<1> QED BY <1>1, WheelInvIsInductive, PTL DEF Spec, WokenInTime

\* In real time it is woken early by no more than the timer thread was behind.
THEOREM EarlyByLagAtMostCorrect == Spec => EarlyByLagAtMost
<1>1. WheelInv /\ [Next]_vars =>
        [\A c \in Coroutines :
            Asleep(c) /\ asked'[c] = -1 => elapsed[c] >= asked[c] - lagAtAdd[c]]_vars
  <2> SUFFICES ASSUME WheelInv, [Next]_vars, NEW c \in Coroutines, Asleep(c), asked'[c] = -1
               PROVE  elapsed[c] >= asked[c] - lagAtAdd[c]
    OBVIOUS
  <2>1. Fires(c) /\ pc = "drain"
    BY WokenByTick
  <2>2. PICK a, g, e, l : a = asked[c] /\ g = age[c] /\ e = elapsed[c] /\ l = lagAtAdd[c]
    OBVIOUS
  <2>3. PICK z : z = Lateness(a)
    OBVIOUS
  <2>4. /\ g \in a .. a + z /\ a \in Delays /\ a \in Nat
        /\ e = Horizon \/ e + l >= g + lag
    BY <2>1, <2>2, <2>3, FiresInTime
  <2>5. z \in Nat
    BY <2>3, <2>4, LatenessBounded
  <2>6. lag \in -1 .. MaxLag /\ lag >= 0 /\ MaxLag \in Nat /\ l \in 0 .. MaxLag /\ e \in 0 .. Horizon
    BY <2>1, <2>2, MaxLagAssumption DEF WheelInv, TypeOK, Timely
  <2>7. a <= Horizon /\ Horizon \in Nat
    <3>1. Max(Delays) >= a /\ Max(Delays) \in Nat
      BY <2>4, DelaysAssumption, Greatest
    <3>2. WHEELS \in 0 .. WHEELS
      BY Constants
    <3>3. intervalMS[WHEELS] \in Nat
      BY <3>2, Intervals
    <3> QED BY <2>4, <3>1, <3>3 DEF Horizon
  <2>8. e >= a - l
    BY <2>4, <2>5, <2>6, <2>7
  <2> QED BY <2>2, <2>8
<1> QED BY <1>1, WheelInvIsInductive, PTL DEF Spec, EarlyByLagAtMost

\* The shorter of two delays that were added before the same tick is over no
\* later than the longer one.
THEOREM ShorterFirstCorrect == Spec => ShorterFirst
<1>1. WheelInv /\ [Next]_vars =>
        [\A b, c \in Coroutines :
            (/\ Asleep(b) /\ asked'[b] = -1
             /\ OnWheel(c) /\ age[c] = age[b] /\ asked[c] < asked[b])
                => asked'[c] = -1]_vars
  <2> SUFFICES ASSUME WheelInv, [Next]_vars, NEW b \in Coroutines, NEW c \in Coroutines,
                      Asleep(b), asked'[b] = -1,
                      OnWheel(c), age[c] = age[b], asked[c] < asked[b]
               PROVE  asked'[c] = -1
    OBVIOUS
  <2>1. Tick /\ Fires(b)
    BY WokenByTick
  <2>2. cur_slot_idx \in [Wheels -> Slots] /\ 0 \in Wheels /\ cur_slot_idx[0] \in Slots
    BY Constants DEF WheelInv, TypeOK
  <2>3. PICK k \in Wheels, i \in Slots : At(c, k, i)
    BY OnWheelIsAt DEF WheelInv
  <2>4. InOrder(cur_slot_idx, k, i, delayMS[c], 0, cur_slot_idx[0], delayMS[b])
    BY <2>1, <2>2, <2>3 DEF WheelInv, Ordered, Fires
  <2>5. TicksFrom(cur_slot_idx, 0, cur_slot_idx[0]) = 0
    <3>1. Full(cur_slot_idx, 0)
      BY FullNext, Constants
    <3> QED BY <2>2, <3>1, TicksAreLeft
  <2>6. PICK T : T = TicksFrom(cur_slot_idx, k, i)
    OBVIOUS
  <2>7. T \in Nat /\ T <= 0 /\ k <= 0 /\ k \in Nat
    BY <2>2, <2>4, <2>5, <2>6, TicksAreLeft, Constants DEF InOrder
  <2>8. T = 0 /\ k = 0
    BY <2>7
  <2>9. i = cur_slot_idx[0]
    <3>1. TicksFrom(cur_slot_idx, 0, i) = 0
      BY <2>6, <2>8
    <3> QED BY <2>2, <3>1, TicksAreLeft
  <2> QED BY <2>1, <2>3, <2>8, <2>9, TickCounts DEF Fires
<1> QED BY <1>1, WheelInvIsInductive, PTL DEF Spec, ShorterFirst

=============================================================================

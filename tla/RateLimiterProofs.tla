------------------------- MODULE RateLimiterProofs -------------------------
(***************************************************************************)
(* What the limiter promises holds for every set of keys, every limit,     *)
(* window, clock resolution and horizon.                                   *)
(*                                                                         *)
(* TypeOK and SlidingBound are not inductive by themselves: the bound over *)
(* a sliding period follows from where the current window begins in the    *)
(* history of a key, and from what lies before it.  KeyInv says that.      *)
(***************************************************************************)
EXTENDS RateLimiter, TLAPS

-----------------------------------------------------------------------------
(* The current window of key k in its history: it began at the admission  *)
(* number Len - count + 1, everything since lies inside it, and the        *)
(* admissions at least Limit places before it were a full window earlier.  *)
First(k) == Len(admits[k]) - state[k].count + 1

Tracked(k) ==
    /\ k \in DOMAIN state <=> Len(admits[k]) > 0
    /\ k \in DOMAIN state =>
         /\ state[k].count <= Len(admits[k])
         /\ admits[k][First(k)] = state[k].start

Sorted(k) ==
    /\ \A i \in 1..Len(admits[k]) : admits[k][i] <= now
    /\ \A i, j \in 1..Len(admits[k]) : i <= j => admits[k][i] <= admits[k][j]

Windowed(k) ==
    k \in DOMAIN state =>
        \A i \in 1..Len(admits[k]) :
            i + Limit <= First(k) => admits[k][i] + Window <= state[k].start

Bounded(k) ==
    \A i \in 1..Len(admits[k]) :
        i + 2 * Limit - 1 <= Len(admits[k]) =>
            admits[k][i + 2 * Limit - 1] - admits[k][i] >= Window

(* A refusal that no admission has followed was caused by a full window    *)
(* whose end lies before the time the caller was told to come back.        *)
Promised(k) ==
    \A r \in refused[k] :
        /\ r.seen <= Len(admits[k])
        /\ r.seen = Len(admits[k]) =>
             /\ k \in DOMAIN state
             /\ state[k].start + Window <= r.until

(* What a refusal says of the window that caused it. *)
Justified(k) ==
    \A r \in refused[k] :
        /\ r.seen >= Limit
        /\ r.seen <= Len(admits[k])
        /\ r.at - admits[k][r.seen - Limit + 1] < Window
        /\ admits[k][r.seen - Limit + 1] + Window < r.until
        /\ r.until - TicksPerSecond <= admits[k][r.seen - Limit + 1] + Window

KeyInv(k) ==
    Tracked(k) /\ Sorted(k) /\ Windowed(k) /\ Bounded(k) /\ Promised(k) /\ Justified(k)

IInv == TypeOK /\ \A k \in Keys : KeyInv(k)

-----------------------------------------------------------------------------
(* Integer division, as the Retry-After computation uses it. *)
LEMMA DivBounds ==
    ASSUME NEW x \in Nat, NEW d \in Nat \ {0}
    PROVE  /\ (x \div d + 1) * d \in Nat
           /\ (x \div d + 1) * d - d <= x
           /\ x < (x \div d + 1) * d
<1>1. x \div d \in Nat /\ (x \div d) * d <= x /\ x < (x \div d + 1) * d
  OBVIOUS
<1>2. (x \div d + 1) * d = (x \div d) * d + d
  BY <1>1
<1>3. (x \div d) * d \in Nat
  BY <1>1
<1> QED
  BY <1>1, <1>2, <1>3

(* The limit in force is a positive number whatever the constructor gets. *)
LEMMA LimitPositive == Limit \in Nat /\ Limit >= 1
  BY LimitArgAssumption DEF Limit

(* A key with a window: where that window begins in the history. *)
LEMMA WindowBegins ==
    ASSUME TypeOK, NEW k \in Keys, KeyInv(k), k \in DOMAIN state
    PROVE  /\ state[k] \in [start : Nat, count : 1..Limit]
           /\ Len(admits[k]) \in Nat
           /\ First(k) \in 1..Len(admits[k])
           /\ First(k) = Len(admits[k]) - state[k].count + 1
           /\ admits[k][First(k)] = state[k].start
           /\ state[k].start <= now
<1>1. state[k] \in [start : Nat, count : 1..Limit] /\ admits[k] \in Seq(Nat)
  BY DEF TypeOK
<1>2. Len(admits[k]) \in Nat /\ state[k].count \in 1..Limit
  BY <1>1
<1>3. state[k].count <= Len(admits[k]) /\ admits[k][First(k)] = state[k].start
  BY DEF KeyInv, Tracked
<1>4. First(k) \in 1..Len(admits[k])
  BY <1>2, <1>3, LimitPositive DEF First
<1>5. state[k].start <= now
  BY <1>3, <1>4 DEF KeyInv, Sorted
<1> QED
  BY <1>1, <1>2, <1>3, <1>4, <1>5 DEF First

(* The window a check works with has begun and is not over. *)
LEMMA CurrentOpen ==
    ASSUME TypeOK, NEW k \in Keys, KeyInv(k)
    PROVE  /\ Current(k) \in [start : Nat, count : 0..Limit]
           /\ Current(k).start <= now
           /\ now - Current(k).start < Window
<1>1. now \in Nat /\ Window \in Nat \ {0} /\ Limit \in Nat /\ Limit >= 1
  BY WindowAssumption, LimitPositive DEF TypeOK
<1>2. CASE k \in DOMAIN state
  <2>1. state[k] \in [start : Nat, count : 1..Limit] /\ state[k].start <= now
    BY <1>2, WindowBegins
  <2> QED
    BY <1>1, <1>2, <2>1 DEF Current, Entry
<1>3. CASE k \notin DOMAIN state
  BY <1>1, <1>3 DEF Current, Entry
<1> QED
  BY <1>2, <1>3

(* The invariant of a key depends on that key's own data and on the clock, *)
(* and survives the clock's advance.                                       *)
LEMMA Frame ==
    ASSUME TypeOK, NEW j \in Keys, KeyInv(j), now' \in Nat, now' >= now,
           j \in DOMAIN state' <=> j \in DOMAIN state,
           j \in DOMAIN state => state'[j] = state[j],
           admits'[j] = admits[j], refused'[j] = refused[j]
    PROVE  KeyInv(j)'
<1>1. Len(admits[j]) \in Nat /\ \A i \in 1..Len(admits[j]) : admits[j][i] \in Nat
  BY DEF TypeOK
<1>2. Tracked(j)'
  BY DEF KeyInv, Tracked, First
<1>3. Sorted(j)'
  <2>1. \A i \in 1..Len(admits[j]) : admits[j][i] <= now'
    BY <1>1 DEF KeyInv, Sorted, TypeOK
  <2> QED
    BY <2>1 DEF KeyInv, Sorted
<1>4. Windowed(j)' /\ Bounded(j)' /\ Promised(j)' /\ Justified(j)'
  BY DEF KeyInv, Windowed, Bounded, Promised, Justified, First
<1> QED
  BY <1>2, <1>3, <1>4 DEF KeyInv

-----------------------------------------------------------------------------
(* An admission keeps the invariant of the key it admits: the history gets *)
(* one entry, either in the current window or as the opening of a new one. *)
LEMMA AdmitKeepsKey ==
    ASSUME TypeOK, NEW k \in Keys, KeyInv(k), Admit(k)
    PROVE  KeyInv(k)'
<1> DEFINE H == admits[k]
           n == Len(admits[k])
           c == Current(k)
<1>1. now \in Nat /\ Window \in Nat \ {0} /\ Limit \in Nat /\ Limit >= 1
  BY WindowAssumption, LimitPositive DEF TypeOK
<1>2. H \in Seq(Nat) /\ n \in Nat /\ \A i \in 1..n : H[i] \in Nat
  BY DEF TypeOK
<1>3. /\ c.start \in Nat /\ c.count \in 0..Limit /\ c.count < Limit
      /\ c.start <= now /\ now - c.start < Window
  BY CurrentOpen, <1>1 DEF Admit, Exhausted
<1>4. /\ admits'[k] = Append(H, now)
      /\ state'[k] = [c EXCEPT !.count = @ + 1]
      /\ k \in DOMAIN state'
      /\ refused' = refused /\ now' = now
  BY DEF Admit, TypeOK
<1>5. state'[k].start = c.start /\ state'[k].count = c.count + 1
  BY <1>4, CurrentOpen
<1>6. /\ Len(admits'[k]) = n + 1
      /\ \A i \in 1..n : admits'[k][i] = H[i]
      /\ admits'[k][n + 1] = now
  BY <1>1, <1>2, <1>4
<1>7. First(k)' = n + 1 - c.count
  <2>1. c.count \in Nat /\ n \in Nat
    BY <1>1, <1>2, <1>3
  <2>2. (n + 1) - (c.count + 1) + 1 = n + 1 - c.count
    BY <2>1
  <2> QED
    BY <1>5, <1>6, <2>2 DEF First
<1>8. /\ c.count <= n
      /\ c.count > 0 => H[n + 1 - c.count] = c.start
      /\ \A i \in 1..n : i + Limit <= n + 1 - c.count => H[i] + Window <= c.start
  <2>1. CASE k \notin DOMAIN state
    <3>1. c.count = 0 /\ n = 0
      BY <1>1, <1>2, <2>1 DEF Current, Entry, KeyInv, Tracked
    <3> QED
      BY <3>1, <1>1
  <2>2. CASE k \in DOMAIN state /\ now - state[k].start < Window
    <3>1. c = state[k]
      BY <1>1, <2>2, WindowBegins DEF Current, Entry
    <3>2. /\ First(k) \in 1..n /\ First(k) = n - c.count + 1
          /\ H[First(k)] = c.start /\ c.count \in 1..Limit
      BY <2>2, <3>1, WindowBegins
    <3>3. n + 1 - c.count = First(k) /\ c.count <= n
      BY <1>1, <1>2, <3>2
    <3>4. \A i \in 1..n : i + Limit <= First(k) => H[i] + Window <= c.start
      BY <2>2, <3>1 DEF KeyInv, Windowed
    <3> QED
      BY <3>2, <3>3, <3>4
  <2>3. CASE k \in DOMAIN state /\ now - state[k].start >= Window
    <3>1. c.count = 0 /\ c.start = now
      BY <2>3 DEF Current, Entry
    <3>2. /\ First(k) \in 1..n /\ First(k) = n - state[k].count + 1
          /\ H[First(k)] = state[k].start
          /\ state[k].count \in 1..Limit /\ state[k].start \in Nat
      BY <2>3, WindowBegins
    <3>3. ASSUME NEW i \in 1..n, i + Limit <= n + 1
          PROVE  H[i] + Window <= now
      <4>1. i <= First(k)
        BY <1>1, <1>2, <3>2, <3>3
      <4>2. H[i] <= H[First(k)]
        BY <3>2, <3>3, <4>1 DEF KeyInv, Sorted
      <4> QED
        BY <1>1, <1>2, <2>3, <3>2, <4>2
    <3> QED
      BY <1>2, <3>1, <3>3
  <2> QED
    BY <1>1, <2>1, <2>2, <2>3, WindowBegins
<1>9. Tracked(k)'
  <2>1. c.count = 0 => admits'[k][n + 1] = c.start
    BY <1>1, <1>2, <1>6, <1>3 DEF Current, Entry, KeyInv, Tracked, TypeOK
  <2>2. admits'[k][n + 1 - c.count] = c.start
    <3>1. CASE c.count = 0
      BY <1>2, <2>1, <3>1
    <3>2. CASE c.count > 0
      <4>1. n + 1 - c.count \in 1..n
        BY <1>1, <1>2, <1>3, <1>8, <3>2
      <4> QED
        BY <1>6, <1>8, <3>2, <4>1
    <3> QED
      BY <1>1, <1>3, <3>1, <3>2
  <2> QED
    BY <1>2, <1>3, <1>4, <1>5, <1>6, <1>7, <1>8, <2>2 DEF Tracked
<1>10. Sorted(k)'
  <2>1. \A i \in 1..n : H[i] <= now
    BY DEF KeyInv, Sorted
  <2>2. \A i, j \in 1..n : i <= j => H[i] <= H[j]
    BY DEF KeyInv, Sorted
  <2>3. \A i \in 1..(n + 1) : admits'[k][i] <= now
    BY <1>1, <1>2, <1>6, <2>1
  <2>4. ASSUME NEW i \in 1..(n + 1), NEW j \in 1..(n + 1), i <= j
        PROVE  admits'[k][i] <= admits'[k][j]
    <3>1. CASE j \in 1..n
      <4>1. i \in 1..n
        BY <1>2, <2>4, <3>1
      <4> QED
        BY <1>6, <2>2, <2>4, <3>1, <4>1
    <3>2. CASE j = n + 1
      BY <1>6, <2>3, <3>2
    <3> QED
      BY <1>2, <3>1, <3>2
  <2> QED
    BY <1>4, <1>6, <2>3, <2>4 DEF Sorted
<1>11. Windowed(k)'
  <2>1. ASSUME NEW i \in 1..(n + 1), i + Limit <= n + 1 - c.count
        PROVE  admits'[k][i] + Window <= c.start
    <3>1. i \in 1..n
      BY <1>1, <1>2, <1>3, <2>1
    <3> QED
      BY <1>6, <1>8, <2>1, <3>1
  <2> QED
    BY <1>5, <1>6, <1>7, <2>1 DEF Windowed
<1>12. Bounded(k)'
  <2>1. ASSUME NEW i \in 1..(n + 1), i + 2 * Limit - 1 <= n + 1
        PROVE  admits'[k][i + 2 * Limit - 1] - admits'[k][i] >= Window
    <3>1. CASE i + 2 * Limit - 1 <= n
      <4>1. i \in 1..n /\ i + 2 * Limit - 1 \in 1..n
        BY <1>1, <1>2, <2>1, <3>1
      <4> QED
        BY <1>6, <3>1, <4>1 DEF KeyInv, Bounded
    <3>2. CASE i + 2 * Limit - 1 = n + 1
      <4>1. i \in 1..n /\ i + Limit <= n + 1 - c.count
        BY <1>1, <1>2, <1>3, <2>1, <3>2
      <4>2. H[i] + Window <= c.start
        BY <1>8, <4>1
      <4>3. admits'[k][i + 2 * Limit - 1] = now /\ admits'[k][i] = H[i] /\ H[i] \in Nat
        BY <1>2, <1>6, <3>2, <4>1
      <4>4. H[i] + Window <= now
        BY <1>1, <1>3, <4>2, <4>3
      <4> QED
        BY <1>1, <4>3, <4>4
    <3> QED
      BY <1>1, <1>2, <2>1, <3>1, <3>2
  <2> QED
    BY <1>6, <2>1, LimitPositive DEF Bounded, Limit
<1>13. Promised(k)' /\ Justified(k)'
  <2>1. \A r \in refused[k] : r.seen \in Nat /\ r.seen <= n
    BY DEF KeyInv, Promised, TypeOK
  <2>2. Promised(k)'
    BY <1>2, <1>4, <1>6, <2>1 DEF Promised
  <2>3. ASSUME NEW r \in refused[k]
        PROVE  /\ r.seen - Limit + 1 \in 1..n
               /\ admits'[k][r.seen - Limit + 1] = H[r.seen - Limit + 1]
    <3>1. r.seen \in Nat /\ r.seen <= n /\ r.seen >= Limit
      BY <2>1 DEF KeyInv, Justified
    <3>2. r.seen - Limit + 1 \in 1..n
      BY <1>1, <1>2, <3>1
    <3> QED
      BY <1>6, <3>2
  <2> QED
    BY <1>2, <1>4, <1>6, <2>1, <2>2, <2>3 DEF KeyInv, Justified, Limit
<1> QED
  BY <1>9, <1>10, <1>11, <1>12, <1>13 DEF KeyInv

(* A refusal keeps the invariant of the key it refuses: the window is full *)
(* and the announced time lies past its end.                               *)
LEMMA RefuseKeepsKey ==
    ASSUME TypeOK, NEW k \in Keys, KeyInv(k), Refuse(k)
    PROVE  KeyInv(k)'
<1> DEFINE n == Len(admits[k])
           rest == Window - (now - state[k].start)
           wait == RetryAfter(k) * TicksPerSecond
<1>1. /\ now \in Nat /\ Window \in Nat \ {0} /\ Limit \in Nat /\ Limit >= 1
      /\ TicksPerSecond \in Nat \ {0} /\ n \in Nat
  BY WindowAssumption, TicksAssumption, LimitPositive DEF TypeOK
<1>2. /\ k \in DOMAIN state /\ now - state[k].start < Window
      /\ Current(k) = state[k]
  <2>1. Current(k).count >= Limit
    BY DEF Refuse, Exhausted
  <2>2. Current(k) # [start |-> now, count |-> 0]
    BY <1>1, <2>1
  <2> QED
    BY <1>1, <2>2, WindowBegins DEF Current, Entry
<1>3. /\ state[k].start \in Nat /\ state[k].count = Limit
      /\ n - Limit + 1 \in 1..n /\ admits[k][n - Limit + 1] = state[k].start
      /\ state[k].start <= now
  BY <1>1, <1>2, WindowBegins DEF Refuse, Exhausted
<1>4. rest \in Nat /\ RetryAfter(k) = rest \div TicksPerSecond + 1
  BY <1>1, <1>2, <1>3 DEF RetryAfter
<1>5. wait \in Nat /\ rest < wait /\ wait - TicksPerSecond <= rest
  BY <1>1, <1>4, DivBounds
<1>6. /\ refused'[k] = {[at |-> now, until |-> now + wait, seen |-> n]}
      /\ now' = now /\ state' = state /\ admits' = admits
  BY DEF Refuse, TypeOK
<1>7. Promised(k)'
  BY <1>1, <1>2, <1>3, <1>5, <1>6 DEF Promised
<1>8. Justified(k)'
  <2>1. n >= Limit /\ now - state[k].start < Window
        /\ state[k].start + Window < now + wait
        /\ now + wait - TicksPerSecond <= state[k].start + Window
    BY <1>1, <1>2, <1>3, <1>5
  <2>2. \A r \in refused'[k] : r.at = now /\ r.until = now + wait /\ r.seen = n
    BY <1>6
  <2>3. ASSUME NEW r \in refused'[k]
        PROVE  /\ r.seen >= Limit
               /\ r.seen <= Len(admits'[k])
               /\ r.at - admits'[k][r.seen - Limit + 1] < Window
               /\ admits'[k][r.seen - Limit + 1] + Window < r.until
               /\ r.until - TicksPerSecond <= admits'[k][r.seen - Limit + 1] + Window
    <3>1. r.at = now /\ r.until = now + wait /\ r.seen = n /\ admits' = admits
      BY <1>6, <2>2, <2>3
    <3>2. admits'[k][r.seen - Limit + 1] = state[k].start
      BY <1>3, <3>1
    <3>3. r.seen >= Limit /\ r.seen <= Len(admits'[k])
      BY <1>1, <2>1, <3>1
    <3>4. r.at - admits'[k][r.seen - Limit + 1] < Window
      BY <2>1, <3>1, <3>2
    <3>5. /\ admits'[k][r.seen - Limit + 1] + Window < r.until
          /\ r.until - TicksPerSecond <= admits'[k][r.seen - Limit + 1] + Window
      <4> HIDE DEF wait
      <4> QED
        BY <1>1, <1>3, <1>5, <2>1, <3>1, <3>2
    <3> QED
      BY <3>3, <3>4, <3>5
  <2> QED
    BY <2>3 DEF Justified, Limit
<1>9. Tracked(k)' /\ Sorted(k)' /\ Windowed(k)' /\ Bounded(k)'
  BY <1>6 DEF KeyInv, Tracked, Sorted, Windowed, Bounded, First, Limit
<1> QED
  BY <1>7, <1>8, <1>9 DEF KeyInv

-----------------------------------------------------------------------------
(* A new limiter has told nobody anything. *)
LEMMA InitInvariant == Init => IInv
<1> SUFFICES ASSUME Init PROVE IInv
  OBVIOUS
<1>1. TypeOK
  BY LimitPositive DEF Init, TypeOK
<1>2. ASSUME NEW k \in Keys
      PROVE  /\ k \notin DOMAIN state /\ Len(admits[k]) = 0 /\ refused[k] = {}
  BY DEF Init
<1>3. ASSUME NEW k \in Keys
      PROVE  KeyInv(k)
  BY <1>2 DEF KeyInv, Tracked, Sorted, Windowed, Bounded, Promised, Justified
<1> QED
  BY <1>1, <1>3 DEF IInv

(* Types are kept by every step: a hit is only counted below the limit. *)
LEMMA NextTypeOK ==
    ASSUME IInv, [Next]_vars
    PROVE  TypeOK'
<1>1. now \in Nat /\ Window \in Nat \ {0} /\ Limit \in Nat /\ Limit >= 1
  BY WindowAssumption, LimitPositive DEF TypeOK, IInv
<1>2. ASSUME NEW k \in Keys, Admit(k)
      PROVE  TypeOK'
  <2>1. /\ Current(k) \in [start : Nat, count : 0..Limit]
        /\ Current(k).count < Limit
    BY <1>1, <1>2, CurrentOpen DEF IInv, Admit, Exhausted
  <2>2. [Current(k) EXCEPT !.count = @ + 1] \in [start : Nat, count : 1..Limit]
    BY <1>1, <2>1
  <2>3. \A j \in DOMAIN state' : state'[j] \in [start : Nat, count : 1..Limit]
    BY <1>2, <2>2 DEF Admit, IInv, TypeOK, Limit
  <2>4. admits' \in [Keys -> Seq(Nat)]
    BY <1>2 DEF Admit, IInv, TypeOK
  <2> QED
    BY <1>2, <2>3, <2>4 DEF Admit, IInv, TypeOK, Limit
<1>3. ASSUME NEW k \in Keys, Refuse(k)
      PROVE  TypeOK'
  <2> DEFINE rest == Window - (now - Current(k).start)
  <2>1. rest \in Nat /\ TicksPerSecond \in Nat \ {0}
    BY <1>1, CurrentOpen, TicksAssumption DEF IInv
  <2>2. RetryAfter(k) * TicksPerSecond \in Nat
    BY <2>1, DivBounds DEF RetryAfter
  <2> QED
    BY <1>1, <1>3, <2>2 DEF Refuse, IInv, TypeOK, Limit
<1>4. CASE Tick
  BY <1>1, <1>4 DEF Tick, limiterVars, IInv, TypeOK, Limit
<1>5. CASE Restart
  BY <1>5 DEF Restart, IInv, TypeOK, Limit
<1>6. CASE UNCHANGED vars
  BY <1>6 DEF vars, limiterVars, IInv, TypeOK, Limit
<1> QED
  BY <1>2, <1>3, <1>4, <1>5, <1>6 DEF Next, Check

(* Every check, tick and restart keeps the invariant: a check of one key   *)
(* leaves the other keys' parts of it alone.                               *)
LEMMA NextInvariant == IInv /\ [Next]_vars => IInv'
<1> SUFFICES ASSUME IInv, [Next]_vars PROVE IInv'
  OBVIOUS
<1>1. TypeOK /\ TypeOK' /\ now \in Nat
  BY NextTypeOK DEF IInv, TypeOK
<1>2. ASSUME NEW k \in Keys, NEW j \in Keys, Admit(k)
      PROVE  KeyInv(j)'
  <2>1. CASE j = k
    BY <1>2, <2>1, AdmitKeepsKey DEF IInv
  <2>2. CASE j # k
    <3>1. /\ j \in DOMAIN state' <=> j \in DOMAIN state
          /\ j \in DOMAIN state => state'[j] = state[j]
          /\ admits'[j] = admits[j] /\ refused'[j] = refused[j]
          /\ now' = now
      BY <1>2, <2>2 DEF Admit, IInv, TypeOK
    <3> QED
      BY <1>1, <3>1, Frame DEF IInv
  <2> QED
    BY <2>1, <2>2
<1>3. ASSUME NEW k \in Keys, NEW j \in Keys, Refuse(k)
      PROVE  KeyInv(j)'
  <2>1. CASE j = k
    BY <1>3, <2>1, RefuseKeepsKey DEF IInv
  <2>2. CASE j # k
    BY <1>1, <1>3, <2>2, Frame DEF Refuse, IInv, TypeOK
  <2> QED
    BY <2>1, <2>2
<1>4. ASSUME NEW j \in Keys, Tick
      PROVE  KeyInv(j)'
  BY <1>1, <1>4, Frame DEF Tick, limiterVars, IInv
<1>5. ASSUME NEW j \in Keys, Restart
      PROVE  KeyInv(j)'
  <2>1. j \notin DOMAIN state' /\ Len(admits'[j]) = 0 /\ refused'[j] = {}
    BY <1>5 DEF Restart
  <2> QED
    BY <2>1 DEF KeyInv, Tracked, Sorted, Windowed, Bounded, Promised, Justified
<1>6. ASSUME NEW j \in Keys, UNCHANGED vars
      PROVE  KeyInv(j)'
  BY <1>1, <1>6, Frame DEF vars, limiterVars, IInv
<1> QED
  BY <1>1, <1>2, <1>3, <1>4, <1>5, <1>6 DEF IInv, Next, Check

-----------------------------------------------------------------------------
(* IInv holds throughout every behaviour of the limiter. *)
THEOREM Inductive == Spec => []IInv
  BY InitInvariant, NextInvariant, PTL DEF Spec

(* The limiter's entries keep their shape: between one and Limit hits in   *)
(* each window of RateLimiter._state.                                      *)
THEOREM TypeCorrect == Spec => []TypeOK
<1>1. IInv => TypeOK
  BY DEF IInv
<1> QED
  BY <1>1, Inductive, PTL

(* No period as long as the window sees 2 * Limit admissions of a key, for *)
(* every limit and window RateLimiter is built with.                       *)
THEOREM AtMostTwiceTheLimit == Spec => []SlidingBound
<1>1. IInv => SlidingBound
  BY DEF IInv, KeyInv, Bounded, SlidingBound
<1> QED
  BY <1>1, Inductive, PTL

(* RateLimiter.check refuses a key only when that key itself was admitted  *)
(* Limit times within the last window.                                     *)
THEOREM RefusalsAreDeserved == Spec => []NoFalseRefusal
<1>1. IInv => NoFalseRefusal
  BY DEF IInv, KeyInv, Justified, NoFalseRefusal
<1> QED
  BY <1>1, Inductive, PTL

(* Waiting as long as Retry-After said is enough, unless the key was used. *)
THEOREM WaitingSuffices == Spec => []RetryHonoured
<1>1. ASSUME IInv, NEW k \in Keys, NEW r \in refused[k],
             now >= r.until, Len(admits[k]) = r.seen
      PROVE  ~ Exhausted(k)
  <2>1. k \in DOMAIN state /\ state[k].start + Window <= r.until
    BY <1>1 DEF IInv, KeyInv, Promised
  <2>2. now \in Nat /\ r.until \in Nat /\ state[k].start \in Nat /\ Window \in Nat
    BY <1>1, <2>1, WindowAssumption, WindowBegins DEF IInv, TypeOK
  <2>3. now - state[k].start >= Window
    BY <1>1, <2>1, <2>2
  <2>4. Current(k) = [start |-> now, count |-> 0]
    BY <2>1, <2>3 DEF Current, Entry
  <2> QED
    BY <2>4, LimitPositive DEF Exhausted
<1>2. IInv => RetryHonoured
  BY <1>1 DEF RetryHonoured
<1> QED
  BY <1>2, Inductive, PTL

(* Retry-After names the first whole second strictly after the window's    *)
(* end: one second more than the wait that is left if that is a whole      *)
(* number of seconds, and less than one second more otherwise.             *)
THEOREM WaitIsNextSecond == Spec => []RetryNextSecond
<1>1. IInv => RetryNextSecond
  BY DEF IInv, KeyInv, Justified, RetryNextSecond
<1> QED
  BY <1>1, Inductive, PTL

=============================================================================

-------------------------- MODULE RateLimitProofs --------------------------
(***************************************************************************)
(* RateBounded for every number of concurrent requests, every set of rpms, *)
(* capacity and delay, and every length of time.                           *)
(***************************************************************************)
EXTENDS RateLimit, TLAPS

(* Products are kept behind names, so that the rest is linear.             *)
LEMMA Distributes ==
  ASSUME NEW r \in Int, NEW x \in Int, NEW y \in Int
  PROVE  /\ r * x \in Int /\ r * (x + y) = r * x + r * y
         /\ r * (x - y) = r * x - r * y
OBVIOUS

LEMMA Monotonic ==
  ASSUME NEW r \in Nat, NEW x \in Int, NEW y \in Int, x <= y
  PROVE  r * x <= r * y
<1>1. y - x \in Nat
  OBVIOUS
<1>2. r * (y - x) \in Nat
  BY <1>1
<1>3. r * (y - x) = r * y - r * x
  BY Distributes
<1> QED
  BY <1>2, <1>3, Distributes

LEMMA RateMonotonic ==
  ASSUME NEW r \in Rate, NEW x \in Nat
  PROVE  r * x \in Nat /\ Top * x \in Nat /\ r * x <= Top * x
<1>1. r \in Nat /\ Top \in Nat /\ Top - r \in Nat
  BY RateLimitAssumption
<1>2. (Top - r) * x \in Nat /\ r * x \in Nat /\ Top * x \in Nat
  BY <1>1
<1>3. (Top - r) * x = Top * x - r * x
  BY <1>1
<1> QED
  BY <1>2, <1>3

(***************************************************************************)
(* What an rpm of r may have given up to time t.  Of scripts with one rpm, *)
(* the bound is kept on the line credit + r * (t - last), which does not   *)
(* depend on the order in which the times come.  Of scripts in the order   *)
(* of their times, whatever their rpms, it is kept on credit, which is     *)
(* never negative then.  Written is when the key was last given its TTL:   *)
(* a key that expires would by then have been full.                        *)
(***************************************************************************)
Earned(r, t) == r * (Window + (t - start) + MaxDelay)

Written == dies - TTL

TimesOK ==
  /\ \A s \in busy : now[s] <= clock /\ clock - now[s] <= MaxDelay
  /\ start <= clock /\ last <= clock
  /\ dies > 0 => Written <= clock

Ordered ==
  /\ credit >= 0
  /\ spent + credit <= Earned(Top, last)
  /\ dies > 0 => spent <= Earned(Top, Written)

Uniform ==
  /\ rate > 0 /\ dies > 0 /\ last <= Written
  /\ credit + rate * (Written - last) >= 0
  /\ spent + credit <= Earned(rate, last)

SpentOK ==
  \/ spent = 0
  \/ /\ rate \in Rate /\ dies # Absent
     /\ ~slipped => Ordered
     /\ ~mixed => Uniform

RateInv == TypeOK /\ TimesOK /\ SpentOK

-----------------------------------------------------------------------------
LEMMA Constants ==
  /\ Rate \subseteq Nat /\ Rate \subseteq Int /\ Top \in Nat
  /\ Window \in Nat /\ Window > 0 /\ MaxDelay \in Nat
  /\ TTL = Window + 1 /\ NoTTL = -1 /\ Absent = 0 /\ NoRate = -1
BY RateLimitAssumption DEF TTL, NoTTL, Absent, NoRate

LEMMA EarnedLine ==
  ASSUME TypeOK, NEW r \in Nat, NEW t \in Int, NEW u \in Int
  PROVE  /\ Earned(r, t) \in Int
         /\ Earned(r, u) = Earned(r, t) + r * (u - t)
<1> DEFINE a == Window + (t - start) + MaxDelay
           b == Window + (u - start) + MaxDelay
<1>1. a \in Int /\ b \in Int /\ b = a + (u - t) /\ u - t \in Int
  BY Constants DEF TypeOK
<1>2. r * a \in Int /\ r * (a + (u - t)) = r * a + r * (u - t)
  BY <1>1, Distributes
<1>3. Earned(r, t) = r * a /\ Earned(r, u) = r * b
  BY DEF Earned
<1> QED
  BY <1>1, <1>2, <1>3

LEMMA EarnedLater ==
  ASSUME TypeOK, NEW r \in Nat, NEW t \in Int, NEW u \in Int, t <= u
  PROVE  /\ Earned(r, t) \in Int /\ Earned(r, u) \in Int
         /\ Earned(r, t) <= Earned(r, u)
<1>1. u - t \in Nat
  OBVIOUS
<1>2. r * (u - t) \in Nat
  BY <1>1
<1>3. Earned(r, t) \in Int /\ Earned(r, u) = Earned(r, t) + r * (u - t)
  BY EarnedLine
<1> QED
  BY <1>2, <1>3

(* A time that may be read in the interval has earned a full bucket.       *)
LEMMA EarnedFull ==
  ASSUME TypeOK, NEW r \in Rate, NEW t \in Int, t - start + MaxDelay >= 0
  PROVE  /\ r * Window \in Nat
         /\ r * Window <= Earned(r, t) /\ Earned(r, t) <= Earned(Top, t)
<1> DEFINE x == Window + (t - start) + MaxDelay
<1>1. x \in Nat /\ Window \in Nat /\ Window <= x /\ r \in Nat
  BY Constants DEF TypeOK
<1>2. r * Window <= r * x /\ r * x <= Top * x /\ r * Window \in Nat
  BY <1>1, Monotonic, RateMonotonic
<1> QED
  BY <1>2 DEF Earned

(* An expired key leaves time for a full bucket.                           *)
LEMMA EarnedTwice ==
  ASSUME TypeOK, NEW r \in Nat, NEW w \in Int, NEW t \in Int, w + Window <= t
  PROVE  Earned(r, w) + r * Window <= Earned(r, t)
<1>1. Window \in Int /\ t - w \in Int /\ Window <= t - w
  BY Constants
<1>2. r * Window <= r * (t - w)
  BY <1>1, Monotonic
<1>3. Earned(r, w) \in Int /\ Earned(r, t) = Earned(r, w) + r * (t - w)
  BY EarnedLine
<1>4. r * Window \in Int /\ r * (t - w) \in Int
  BY <1>1
<1> QED
  BY <1>2, <1>3, <1>4

LEMMA RateInit == Init => RateInv
<1> SUFFICES ASSUME Init PROVE RateInv
  OBVIOUS
<1>1. Top * Window \in Nat
  BY Constants
<1>2. now \in [Slot -> Nat] /\ rpm \in [Slot -> Rate \cup {NoRate}]
  BY DEF Init
<1>3. slipped \in BOOLEAN /\ mixed \in BOOLEAN
  BY DEF Init
<1>4. /\ clock \in Nat /\ busy \subseteq Slot /\ \A s \in busy : rpm[s] \in Rate
      /\ credit \in Int /\ credit <= Top * Window /\ last \in Nat
      /\ dies \in Nat /\ start \in Nat /\ spent \in Nat /\ rate = NoRate
  BY <1>1, Constants DEF Init
<1>5. TypeOK
  BY <1>2, <1>3, <1>4 DEF TypeOK
<1>6. TimesOK /\ SpentOK
  BY Constants DEF Init, TimesOK, SpentOK
<1> QED
  BY <1>5, <1>6 DEF RateInv

-----------------------------------------------------------------------------
(* What both kinds of script do to the bucket.                             *)
LEMMA RefilledIs ==
  ASSUME TypeOK, NEW s \in busy
  PROVE  LET r == rpm[s]
             f == Refilled(now[s], r) IN
         /\ r \in Rate /\ r \in Nat /\ now[s] \in Nat /\ r * Window \in Nat
         /\ f \in Int /\ f <= r * Window /\ f <= Top * Window
         /\ Exists => f <= credit + r * (now[s] - last)
         /\ f = r * Window \/ (Exists /\ f = credit + r * (now[s] - last))
<1> DEFINE r == rpm[s]
           t == now[s]
           x == (t - last) * r
<1>1. /\ r \in Rate /\ r \in Nat /\ t \in Nat /\ last \in Nat /\ credit \in Int
      /\ Window \in Nat
  BY Constants DEF TypeOK
<1>2. r * Window \in Nat /\ r * Window <= Top * Window /\ Top * Window \in Nat
  BY <1>1, RateMonotonic
<1>3. x \in Int /\ r * (t - last) = x
  BY <1>1
<1>4. Refilled(t, r) = IF Exists /\ credit + x < r * Window THEN credit + x
                                                         ELSE r * Window
  BY DEF Refilled, Capacity
<1> HIDE DEF x
<1>5. /\ Refilled(t, r) \in Int /\ Refilled(t, r) <= r * Window
      /\ Exists => Refilled(t, r) <= credit + x
      /\ Refilled(t, r) = r * Window \/ (Exists /\ Refilled(t, r) = credit + x)
  BY <1>1, <1>2, <1>3, <1>4
<1>6. Refilled(t, r) <= Top * Window
  BY <1>2, <1>5
<1> QED
  BY <1>1, <1>2, <1>3, <1>5, <1>6

(* An expired key was given its TTL more than a full refill ago.           *)
LEMMA ExpiredLongAgo ==
  ASSUME MaxDelay <= TTL - Window, RateInv, NEW s \in busy, ~Exists, dies # Absent
  PROVE  dies > 0 /\ Written \in Int /\ Written + Window <= now[s]
<1>1. /\ dies \in Nat /\ clock \in Nat /\ now[s] \in Nat /\ clock >= dies
      /\ clock - now[s] <= MaxDelay
  BY Constants DEF RateInv, TypeOK, TimesOK, Exists
<1> QED
  BY <1>1, Constants DEF Written

(* Scripts in the order of their times.                                    *)
LEMMA OrderedKept ==
  ASSUME MaxDelay <= TTL - Window, RateInv, NEW s \in busy, NEW paid \in Nat,
         spent # 0, ~slipped', Noted(s, paid),
         credit' = Refilled(now[s], rpm[s]) - paid, credit' >= 0 \/ paid = 0,
         last' = now[s], clock' = clock,
         dies' = clock + TTL \/ (paid = 0 /\ dies' = IF Exists THEN dies ELSE NoTTL)
  PROVE  Ordered'
<1> DEFINE t == now[s]
           r == rpm[s]
           f == Refilled(t, r)
<1>1. /\ t \in Nat /\ t <= clock /\ clock \in Nat /\ start \in Nat
      /\ spent \in Nat /\ credit \in Int /\ last \in Nat /\ last \in Int
      /\ Top \in Nat /\ TypeOK /\ start' = start /\ spent' = spent + paid
      /\ clock \in Int /\ t \in Int
  BY Constants DEF RateInv, TypeOK, TimesOK, Noted
<1>2. ~slipped /\ (Exists => last <= t)
  <2>1. ~slipped /\ ~(Exists /\ t < last)
    BY Zenon DEF Noted
  <2> QED
    BY <1>1, <2>1
<1>3. /\ credit >= 0 /\ spent + credit <= Earned(Top, last)
      /\ dies > 0 => spent <= Earned(Top, Written)
      /\ dies # Absent
  BY <1>2 DEF RateInv, SpentOK, Ordered
<1>4. /\ r \in Rate /\ r \in Nat /\ r * Window \in Nat
      /\ f \in Int /\ f <= r * Window
      /\ Exists => f <= credit + r * (t - last)
      /\ f = r * Window \/ (Exists /\ f = credit + r * (t - last))
  BY <1>1, RefilledIs
<1>5. Earned(Top, t) \in Int /\ Earned(Top, clock) \in Int /\ Earned(Top, t) <= Earned(Top, clock)
  BY <1>1, EarnedLater
<1>6. f >= 0
  <2>1. CASE f = r * Window
    BY <1>4, <2>1
  <2>2. CASE Exists /\ f = credit + r * (t - last)
    <3>1. r * (t - last) \in Nat
      BY <1>1, <1>2, <1>4, <2>2
    <3> QED
      BY <1>1, <1>3, <2>2, <3>1
  <2> QED
    BY <1>4, <2>1, <2>2
<1>7. spent + f <= Earned(Top, t)
  <2>1. CASE Exists
    <3>1. t - last \in Nat
      BY <1>1, <1>2, <2>1
    <3>2. r * (t - last) <= Top * (t - last) /\ r * (t - last) \in Nat /\ Top * (t - last) \in Nat
      BY <1>4, <3>1, RateMonotonic
    <3>3. Earned(Top, t) = Earned(Top, last) + Top * (t - last) /\ Earned(Top, last) \in Int
      BY <1>1, EarnedLine
    <3> QED
      BY <1>1, <1>3, <1>4, <2>1, <3>2, <3>3
  <2>2. CASE ~Exists
    <3>1. dies > 0 /\ Written \in Int /\ Written + Window <= t
      BY <1>3, <2>2, ExpiredLongAgo
    <3>2. Earned(Top, Written) + Top * Window <= Earned(Top, t)
      BY <1>1, <3>1, EarnedTwice
    <3>3. r * Window <= Top * Window /\ Top * Window \in Nat /\ Earned(Top, Written) \in Int
      BY <1>1, <1>4, <3>1, Constants, RateMonotonic, EarnedLine
    <3> QED
      BY <1>1, <1>3, <1>4, <1>5, <3>1, <3>2, <3>3
  <2> QED
    BY <2>1, <2>2
<1>8. credit' >= 0 /\ spent' + credit' = spent + f /\ credit' \in Int /\ spent' \in Nat
  BY <1>1, <1>4, <1>6
<1>9. Earned(Top, last)' = Earned(Top, t)
  BY <1>1 DEF Earned
<1>10. dies' > 0 => spent' <= Earned(Top, Written)'
  <2>1. CASE dies' = clock + TTL
    <3>1. Written' = clock
      BY <1>1, <2>1, Constants DEF Written, TTL
    <3>2. Earned(Top, Written)' = Earned(Top, clock)
      BY <1>1, <3>1 DEF Earned
    <3> QED
      BY <1>1, <1>4, <1>5, <1>7, <1>8, <3>2
  <2>2. CASE paid = 0 /\ dies' = IF Exists THEN dies ELSE NoTTL
    <3>1. CASE Exists
      <4>1. dies' = dies /\ Written' = Written
        BY <2>2, <3>1 DEF Written, TTL
      <4>2. Earned(Top, Written)' = Earned(Top, Written)
        BY <1>1, <4>1 DEF Earned
      <4> QED
        BY <1>1, <1>3, <2>2, <4>1, <4>2
    <3>2. CASE ~Exists
      BY <2>2, <3>2, Constants
    <3> QED
      BY <3>1, <3>2
  <2> QED
    BY <2>1, <2>2
<1> QED
  BY <1>7, <1>8, <1>9, <1>10 DEF Ordered

(* Scripts with one rpm, in whatever order.                                *)
LEMMA UniformKept ==
  ASSUME MaxDelay <= TTL - Window, RateInv, NEW s \in busy, NEW paid \in Nat,
         spent # 0, ~mixed', Noted(s, paid),
         credit' = Refilled(now[s], rpm[s]) - paid, credit' >= 0 \/ paid = 0,
         last' = now[s], clock' = clock, dies' = clock + TTL
  PROVE  Uniform'
<1> DEFINE t == now[s]
           r == rpm[s]
           f == Refilled(t, r)
<1>1. /\ t \in Nat /\ t <= clock /\ clock \in Nat /\ start \in Nat
      /\ spent \in Nat /\ credit \in Int /\ last \in Nat /\ last <= clock
      /\ dies \in Nat \cup {NoTTL}
      /\ TypeOK /\ start' = start /\ spent' = spent + paid /\ rate' = r
      /\ t \in Int /\ last \in Int
  BY Constants DEF RateInv, TypeOK, TimesOK, Noted
<1>2. /\ r \in Rate /\ r \in Nat /\ r * Window \in Nat
      /\ f \in Int /\ f <= r * Window
      /\ Exists => f <= credit + r * (t - last)
      /\ f = r * Window \/ (Exists /\ f = credit + r * (t - last))
  BY <1>1, RefilledIs
<1>3. ~mixed /\ rate \in {NoRate, r}
  BY Zenon DEF Noted
<1>4. /\ rate \in Rate /\ dies # Absent /\ Uniform
  BY <1>3 DEF RateInv, SpentOK
<1>5. rate = r
  BY <1>3, <1>4, Constants
<1>6. /\ r > 0 /\ dies > 0 /\ last <= Written /\ Written \in Int /\ Written <= clock
      /\ credit + r * (Written - last) >= 0 /\ spent + credit <= Earned(r, last)
  BY <1>1, <1>4, <1>5, Constants DEF Uniform, Written, RateInv, TimesOK
<1>7. Written' = clock
  BY <1>1, Constants DEF Written, TTL
<1>8. f - paid + r * (clock - t) >= 0
  <2>1. clock - t \in Nat /\ r * (clock - t) \in Nat
    BY <1>1, <1>2
  <2>2. CASE f - paid >= 0
    BY <1>2, <2>1, <2>2
  <2>3. CASE paid = 0 /\ f = r * Window
    BY <1>2, <2>1, <2>3
  <2>4. CASE paid = 0 /\ Exists /\ f = credit + r * (t - last)
    <3>1. Written - last <= clock - last /\ Written - last \in Int /\ clock - last \in Int
      BY <1>1, <1>6
    <3>2. r * (Written - last) <= r * (clock - last)
      BY <1>2, <3>1, Monotonic
    <3>3. (t - last) + (clock - t) = clock - last /\ t - last \in Int
      BY <1>1
    <3>4. r * (t - last) + r * (clock - t) = r * (clock - last)
      BY <1>2, <2>1, <3>3, Distributes
    <3>5. r * (Written - last) \in Int /\ r * (clock - last) \in Int /\ r * (t - last) \in Int
      BY <1>2, <3>1, <3>3
    <3> QED
      BY <1>1, <1>6, <2>1, <2>4, <3>2, <3>4, <3>5
  <2> QED
    BY <1>2, <2>2, <2>3, <2>4
<1>9. spent + f <= Earned(r, t)
  <2>0. Earned(r, last) \in Int /\ Earned(r, t) = Earned(r, last) + r * (t - last)
    BY <1>1, <1>2, EarnedLine
  <2>1. CASE Exists
    <3>1. r * (t - last) \in Int
      BY <1>1, <1>2
    <3> QED
      BY <1>1, <1>2, <1>6, <2>0, <2>1, <3>1
  <2>2. CASE ~Exists
    <3>1. Written + Window <= t
      BY <1>4, <2>2, ExpiredLongAgo
    <3>2. Earned(r, Written) + r * Window <= Earned(r, t)
      BY <1>1, <1>2, <1>6, <3>1, EarnedTwice
    <3>3. Earned(r, Written) = Earned(r, last) + r * (Written - last)
      BY <1>1, <1>2, <1>6, EarnedLine
    <3>4. Earned(r, Written) \in Int /\ Earned(r, t) \in Int
      BY <1>1, <1>2, <1>6, EarnedLine
    <3>5. r * (Written - last) \in Int
      BY <1>1, <1>2, <1>6
    <3> QED
      BY <1>1, <1>2, <1>6, <2>0, <3>2, <3>3, <3>4, <3>5
  <2> QED
    BY <2>1, <2>2
<1>10. Earned(rate, last)' = Earned(r, t)
  BY <1>1 DEF Earned
<1>11. spent' + credit' = spent + f
  BY <1>1, <1>2
<1>12. credit' + rate' * (Written' - last') >= 0
  BY <1>1, <1>7, <1>8
<1>13. rate' > 0 /\ dies' > 0 /\ last' <= Written'
  BY <1>1, <1>6, <1>7, Constants
<1> QED
  BY <1>9, <1>10, <1>11, <1>12, <1>13 DEF Uniform

(* The first request that an interval allows.                              *)
LEMMA FirstAllowed ==
  ASSUME RateInv, spent = 0, NEW s \in busy, Noted(s, Window), rpm[s] > 0,
         Refilled(now[s], rpm[s]) >= Window,
         credit' = Refilled(now[s], rpm[s]) - Window,
         last' = now[s], clock' = clock, dies' = clock + TTL
  PROVE  Ordered' /\ Uniform'
<1> DEFINE t == now[s]
           r == rpm[s]
           f == Refilled(t, r)
<1>1. /\ t \in Nat /\ t \in Int /\ t <= clock /\ clock \in Nat /\ clock \in Int
      /\ start \in Nat /\ start <= clock /\ clock - t <= MaxDelay
      /\ TypeOK /\ start' = start /\ spent' = Window /\ rate' = r
  BY Constants DEF RateInv, TypeOK, TimesOK, Noted
<1>2. r \in Rate /\ r \in Nat /\ f \in Int /\ f <= r * Window
  BY <1>1, RefilledIs
<1>3. t - start + MaxDelay >= 0
  BY <1>1, Constants
<1>4. r * Window \in Nat /\ r * Window <= Earned(r, t) /\ Earned(r, t) <= Earned(Top, t)
  BY <1>1, <1>2, <1>3, EarnedFull
<1>5. /\ Earned(r, t) \in Int /\ Earned(Top, t) \in Int /\ Earned(Top, clock) \in Int
      /\ Earned(Top, t) <= Earned(Top, clock)
  BY <1>1, <1>2, Constants, EarnedLater
<1>6. Written' = clock
  BY <1>1, Constants DEF Written, TTL
<1>7. /\ Earned(rate, last)' = Earned(r, t) /\ Earned(Top, last)' = Earned(Top, t)
      /\ Earned(Top, Written)' = Earned(Top, clock)
  BY <1>1, <1>6 DEF Earned
<1>8. spent' + credit' = f /\ credit' \in Nat /\ spent' \in Nat
  BY <1>1, <1>2, Constants
<1>9. Ordered'
  BY <1>2, <1>4, <1>5, <1>7, <1>8 DEF Ordered
<1>10. rate' * (Written' - last') \in Nat
  <2>1. clock - t \in Nat
    BY <1>1
  <2> QED
    BY <1>1, <1>2, <1>6, <2>1
<1>11. rate' > 0 /\ dies' > 0 /\ last' <= Written'
  BY <1>1, <1>6, Constants
<1>12. credit' + rate' * (Written' - last') >= 0
  BY <1>8, <1>10
<1>13. spent' + credit' <= Earned(rate, last)'
  BY <1>2, <1>4, <1>5, <1>7, <1>8
<1> QED
  BY <1>9, <1>11, <1>12, <1>13 DEF Uniform

(* Types and times under a script.                                         *)
LEMMA ScriptTypes ==
  ASSUME TypeOK, TimesOK, NEW s \in busy, NEW paid \in Nat, Leave(s), Noted(s, paid),
         credit' = Refilled(now[s], rpm[s]) - paid, last' = now[s], clock' = clock,
         dies' \in {clock + TTL, dies, NoTTL}
  PROVE  TypeOK' /\ TimesOK'
<1>1. /\ rpm[s] \in Rate /\ now[s] \in Nat /\ now[s] <= clock /\ clock \in Nat
      /\ Refilled(now[s], rpm[s]) \in Int /\ Refilled(now[s], rpm[s]) <= Top * Window
      /\ spent \in Nat /\ start \in Nat /\ dies \in Nat \cup {NoTTL}
      /\ Top * Window \in Int
  BY RefilledIs, Constants DEF TypeOK, TimesOK
<1>2. credit' \in Int /\ credit' <= Top * Window /\ last' \in Nat
  BY <1>1
<1>3. dies' \in Nat \cup {NoTTL}
  BY <1>1, Constants
<1>4. /\ start' = start /\ spent' \in Nat /\ rate' \in Rate
      /\ slipped' \in BOOLEAN /\ mixed' \in BOOLEAN
  BY <1>1 DEF Noted
<1>5. /\ busy' \subseteq Slot /\ now' \in [Slot -> Nat]
      /\ rpm' \in [Slot -> Rate \cup {NoRate}]
      /\ \A u \in busy' : rpm'[u] \in Rate /\ now'[u] = now[u]
  BY DEF Leave, TypeOK
<1>6. TypeOK'
  BY <1>1, <1>2, <1>3, <1>4, <1>5 DEF TypeOK
<1>7. dies' > 0 => Written' <= clock
  BY <1>1, Constants DEF Written, TTL, TimesOK
<1>8. \A u \in busy' : now'[u] <= clock' /\ clock' - now'[u] <= MaxDelay
  BY <1>5 DEF Leave, TimesOK
<1> QED
  BY <1>1, <1>4, <1>6, <1>7, <1>8 DEF TimesOK

LEMMA TypesStep == TypeOK /\ TimesOK /\ [Next]_vars => TypeOK' /\ TimesOK'
<1> SUFFICES ASSUME TypeOK, TimesOK, [Next]_vars PROVE TypeOK' /\ TimesOK'
  OBVIOUS
<1>1. CASE UNCHANGED vars
  BY <1>1 DEF vars, bucket, observed, TypeOK, TimesOK, Written
<1>2. ASSUME NEW s \in Slot, ReadTime(s) PROVE TypeOK' /\ TimesOK'
  BY <1>2, Constants DEF ReadTime, bucket, observed, TypeOK, TimesOK, Written
<1>3. ASSUME NEW s \in Slot, Allow(s) \/ Deny(s) PROVE TypeOK' /\ TimesOK'
  <2>1. s \in busy /\ \E paid \in {0, Window} : paid \in Nat /\ Write(s, paid)
    BY <1>3, Constants DEF Allow, Deny
  <2> QED
    BY <2>1, ScriptTypes DEF Write
<1>4. ASSUME NEW s \in Slot, ZeroRate(s) PROVE TypeOK' /\ TimesOK'
  <2>1. /\ s \in busy /\ Leave(s) /\ Noted(s, 0) /\ last' = now[s] /\ clock' = clock
        /\ dies' \in {clock + TTL, dies, NoTTL}
        /\ credit' = Refilled(now[s], rpm[s]) - 0
    BY <1>4, RefilledIs, Constants DEF ZeroRate, TypeOK
  <2> QED
    BY <2>1, ScriptTypes
<1>5. ASSUME NEW s \in Slot, EvalRaises(s) PROVE TypeOK' /\ TimesOK'
  BY <1>5 DEF EvalRaises, Leave, bucket, observed, TypeOK, TimesOK, Written
<1>6. CASE Tick
  BY <1>6, Constants DEF Tick, bucket, observed, TypeOK, TimesOK, Written, TTL
<1>7. CASE Observe
  <2>1. slipped' \in BOOLEAN /\ mixed' \in BOOLEAN
    BY <1>7 DEF Observe
  <2>2. start' \in Nat /\ start' <= clock' /\ spent' \in Nat /\ rate' = NoRate
    BY <1>7 DEF Observe, TypeOK
  <2>3. UNCHANGED <<clock, busy, now, rpm, credit, last, dies>>
    BY <1>7 DEF Observe, bucket
  <2>4. TypeOK'
    BY <2>1, <2>2, <2>3 DEF TypeOK
  <2> QED
    BY <2>2, <2>3, <2>4 DEF TimesOK, Written
<1> QED
  BY <1>1, <1>2, <1>3, <1>4, <1>5, <1>6, <1>7 DEF Next

(* The bucket never holds more than the largest capacity, and times are    *)
(* times, whatever order the scripts run in.                               *)
(* (rate_limit.py _TOKEN_BUCKET_LUA, check_rate_limit)                     *)
THEOREM TypeCorrect == Spec => []TypeOK
<1>1. Init => TypeOK /\ TimesOK
  BY RateInit DEF RateInv
<1> QED
  BY <1>1, TypesStep, PTL DEF Spec

(* A script that has refilled and taken paid.                              *)
LEMMA ScriptSpent ==
  ASSUME MaxDelay <= TTL - Window, RateInv, NEW s \in busy, NEW paid \in {0, Window},
         rpm[s] > 0, paid = 0 \/ Refilled(now[s], rpm[s]) >= Window,
         Write(s, paid)
  PROVE  RateInv'
<1>1. /\ Leave(s) /\ Noted(s, paid) /\ credit' = Refilled(now[s], rpm[s]) - paid
      /\ last' = now[s] /\ clock' = clock /\ dies' = clock + TTL /\ paid \in Nat
  BY Constants DEF Write
<1>2. TypeOK' /\ TimesOK'
  BY <1>1, ScriptTypes DEF RateInv
<1>3. rate' \in Rate /\ dies' # Absent /\ spent' = spent + paid
  <2>1. rpm[s] \in Rate /\ clock \in Nat
    BY DEF RateInv, TypeOK
  <2> QED
    BY <1>1, <2>1, Constants DEF Noted
<1>4. SpentOK'
  <2>1. CASE spent # 0
    <3>1. credit' >= 0 \/ paid = 0
      <4>1. Refilled(now[s], rpm[s]) \in Int
        BY RefilledIs DEF RateInv
      <4> QED
        BY <1>1, <4>1, Constants
    <3>2. ~slipped' => Ordered'
      BY <1>1, <2>1, <3>1, OrderedKept
    <3>3. ~mixed' => Uniform'
      BY <1>1, <2>1, <3>1, UniformKept
    <3> QED
      BY <1>3, <3>2, <3>3 DEF SpentOK
  <2>2. CASE spent = 0 /\ paid = 0
    BY <1>3, <2>2 DEF SpentOK
  <2>3. CASE spent = 0 /\ paid = Window /\ paid # 0
    <3>1. Refilled(now[s], rpm[s]) >= Window
      BY <2>3
    <3>2. Ordered' /\ Uniform'
      BY <1>1, <2>3, <3>1, FirstAllowed
    <3> QED
      BY <1>3, <3>2 DEF SpentOK
  <2> QED
    BY <2>1, <2>2, <2>3
<1> QED
  BY <1>2, <1>4 DEF RateInv

LEMMA ZeroSpent ==
  ASSUME MaxDelay <= TTL - Window, RateInv, NEW s \in busy, ZeroRate(s)
  PROVE  RateInv'
<1>1. Refilled(now[s], 0) \in Int /\ rpm[s] = 0 /\ rpm[s] \in Rate /\ spent \in Nat
  BY RefilledIs DEF RateInv, TypeOK, ZeroRate
<1>2. /\ Leave(s) /\ Noted(s, 0) /\ credit' = Refilled(now[s], rpm[s]) - 0
      /\ last' = now[s] /\ clock' = clock /\ 0 \in Nat
      /\ dies' = IF Exists THEN dies ELSE NoTTL
  BY <1>1 DEF ZeroRate
<1>3. TypeOK' /\ TimesOK'
  BY <1>2, ScriptTypes DEF RateInv
<1>4. spent' = spent /\ rate' = 0 /\ rate' \in Rate
  BY <1>1, <1>2 DEF Noted
<1>5. SpentOK'
  <2>1. CASE spent = 0
    BY <1>4, <2>1 DEF SpentOK
  <2>2. CASE spent # 0
    <3>1. rate \in Rate /\ dies # Absent /\ (~mixed => Uniform)
      BY <2>2 DEF RateInv, SpentOK
    <3>2. dies' # Absent
      BY <1>2, <3>1, Constants
    <3>3. ~slipped' => Ordered'
      BY <1>2, <2>2, OrderedKept
    <3>4. mixed'
      <4>1. CASE mixed
        BY <1>2, <4>1 DEF Noted
      <4>2. CASE ~mixed
        <5>1. rate > 0 /\ rate # NoRate
          BY <3>1, <4>2, Constants DEF Uniform
        <5>2. rate \notin {NoRate, rpm[s]}
          BY <1>1, <5>1
        <5> QED
          BY <1>2, <5>2 DEF Noted
      <4> QED
        BY <4>1, <4>2
    <3> QED
      BY <1>4, <3>2, <3>3, <3>4 DEF SpentOK
  <2> QED
    BY <2>1, <2>2
<1> QED
  BY <1>3, <1>5 DEF RateInv

LEMMA RateStep ==
  ASSUME MaxDelay <= TTL - Window
  PROVE  RateInv /\ [Next]_vars => RateInv'
<1> SUFFICES ASSUME RateInv, [Next]_vars PROVE RateInv'
  OBVIOUS
<1>1. TypeOK' /\ TimesOK'
  BY TypesStep DEF RateInv
<1>2. ASSUME UNCHANGED <<bucket, observed>> PROVE RateInv'
  <2>1. SpentOK'
    BY <1>2 DEF bucket, observed, RateInv, SpentOK, Ordered, Uniform, Earned, Written
  <2> QED
    BY <1>1, <2>1 DEF RateInv
<1>3. CASE UNCHANGED vars \/ Tick
  BY <1>2, <1>3 DEF vars, Tick
<1>4. ASSUME NEW s \in Slot, ReadTime(s) \/ EvalRaises(s) PROVE RateInv'
  BY <1>2, <1>4 DEF ReadTime, EvalRaises
<1>5. ASSUME NEW s \in Slot, Allow(s) PROVE RateInv'
  BY <1>5, ScriptSpent DEF Allow
<1>6. ASSUME NEW s \in Slot, Deny(s) PROVE RateInv'
  BY <1>6, ScriptSpent DEF Deny
<1>7. ASSUME NEW s \in Slot, ZeroRate(s) PROVE RateInv'
  BY <1>7, ZeroSpent DEF ZeroRate
<1>8. CASE Observe
  <2>1. SpentOK'
    BY <1>8 DEF Observe, SpentOK
  <2> QED
    BY <1>1, <2>1 DEF RateInv
<1> QED
  BY <1>3, <1>4, <1>5, <1>6, <1>7, <1>8 DEF Next

(* In any interval, whatever the order in which the scripts run or         *)
(* whatever rpms they run with, and however often the key expires, what    *)
(* the limiter allows costs no more than the largest capacity plus the     *)
(* refill, provided that no request spends longer between reading the time *)
(* and its script than the key outlives a full refill.                     *)
(* (rate_limit.py:39-64, 94-109 and 154-166)                               *)
THEOREM RateLimited ==
  MaxDelay <= TTL - Window => (Spec => []RateBounded)
<1> SUFFICES ASSUME MaxDelay <= TTL - Window PROVE Spec => []RateBounded
  OBVIOUS
<1>1. RateInv => RateBounded
  <2> SUFFICES ASSUME RateInv, ~(slipped /\ mixed)
               PROVE  spent <= Earned(Top, clock)
    BY DEF RateBounded, Earned
  <2>1. /\ clock \in Nat /\ start \in Nat /\ spent \in Nat /\ credit \in Int
        /\ last \in Nat /\ last <= clock /\ start <= clock /\ TypeOK
        /\ dies \in Nat \cup {NoTTL} /\ (dies > 0 => Written <= clock)
    BY DEF RateInv, TypeOK, TimesOK
  <2>2. /\ Earned(Top, last) \in Int /\ Earned(Top, clock) \in Int
        /\ Earned(Top, last) <= Earned(Top, clock)
    BY <2>1, Constants, EarnedLater
  <2>3. CASE spent = 0
    <3>1. Window + (clock - start) + MaxDelay \in Nat
      BY <2>1, Constants
    <3> QED
      BY <2>3, <3>1, Constants DEF Earned
  <2>4. CASE Ordered
    BY <2>1, <2>2, <2>4 DEF Ordered
  <2>5. CASE Uniform /\ rate \in Rate
    <3>1. /\ rate \in Nat /\ Written \in Int /\ Written <= clock
          /\ credit + rate * (Written - last) >= 0
          /\ spent + credit <= Earned(rate, last)
      BY <2>1, <2>5, Constants DEF Uniform, Written
    <3>2. /\ Earned(rate, last) \in Int
          /\ Earned(rate, Written) = Earned(rate, last) + rate * (Written - last)
      BY <2>1, <3>1, EarnedLine
    <3>3. /\ Earned(rate, Written) \in Int /\ Earned(rate, clock) \in Int
          /\ Earned(rate, Written) <= Earned(rate, clock)
      BY <2>1, <3>1, EarnedLater
    <3>4. Earned(rate, clock) <= Earned(Top, clock)
      <4>1. clock - start + MaxDelay >= 0
        BY <2>1, Constants
      <4> QED
        BY <2>1, <2>5, <4>1, EarnedFull
    <3>5. rate * (Written - last) \in Int
      BY <2>1, <3>1
    <3> QED
      BY <2>1, <2>2, <3>1, <3>2, <3>3, <3>4, <3>5
  <2> QED
    BY <2>3, <2>4, <2>5 DEF RateInv, SpentOK
<1> QED
  BY <1>1, RateInit, RateStep, PTL DEF Spec
=============================================================================

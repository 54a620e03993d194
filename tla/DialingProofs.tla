---------------------------- MODULE DialingProofs -----------------------------
(***************************************************************************)
(* Theorems about Dialing and Origination for any campaigns, settings,     *)
(* leads, clock and hosts.                                                 *)
(*                                                                         *)
(* First what evaluate.h guarantees, as lemmas about the operators of      *)
(* Evaluate; the product of the ratio and the agents is all the prover     *)
(* need not look into.  Then the pass.  The cache is handled through two   *)
(* facts: a pass over the front of the deque leaves a suffix of it         *)
(* (PopSuffix), and the lines a campaign has in use only fall when calls   *)
(* leave or are answered, and grow by no more than the calls added for it  *)
(* (the lemmas on Lines).  Last, the calls given to Asterisk's hosts.      *)
(***************************************************************************)
EXTENDS Dialing, Origination, FiniteSetTheorems, SequenceTheorems, WellFoundedInduction, TLAPS

(* evaluate.h *)

\* Dividing a natural number by Scale gives a natural number, and so on: the
\* factors of evaluate.h keep to the integers.
LEMMA Quotient ==
  ASSUME NEW x \in Nat, NEW y \in Nat
  PROVE  (x * y) \div Scale \in Int
<1>1. x * y \in Int
  OBVIOUS
<1>2. \A z \in Int : z \div Scale \in Int
  BY ScaleAssumption
<1>3. QED BY <1>1, <1>2

\* power never takes the lines in use above the ratio, and is never negative.
LEMMA PowerBound ==
  ASSUME NEW mr \in Nat, NEW aa \in Nat, NEW ld \in Nat
  PROVE  /\ power(mr, aa, ld) \in Nat
         /\ ld + power(mr, aa, ld) <= greaterOf(ld, (mr * aa) \div Scale)
<1> DEFINE r == (mr * aa) \div Scale
<1>1. r \in Int
  BY Quotient
<1> HIDE DEF r
<1>2. (IF aa = 0 THEN 0 ELSE greaterOf(r - ld, 0)) \in Nat
  BY <1>1 DEF greaterOf
<1>3. ld + (IF aa = 0 THEN 0 ELSE greaterOf(r - ld, 0)) <= greaterOf(ld, r)
  BY <1>1 DEF greaterOf
<1>4. QED BY <1>2, <1>3 DEF power, r

\* The throttle is between 0 and the other two limits.
LEMMA ThrottleBound ==
  ASSUME NEW ld \in Nat, NEW aa \in Nat, NEW mr \in Nat, NEW ml \in Nat, NEW ma \in Nat,
         NEW calls \in Nat, NEW abandons \in Nat
  PROVE  LET t == throttle(ld, aa, mr, ml, ma, calls, abandons) IN
         t \in Nat /\ t <= ml /\ t <= power(mr, aa, ld)
<1> DEFINE p == power(mr, aa, ld)
           q == (ma * greaterOf(calls, 1)) \div Scale
           b == greaterOf(abandons, 1)
           w == greaterOf(q - b - ld + aa, 0)
           u == lesserOf(w, ml)
<1>1. greaterOf(calls, 1) \in Nat /\ b \in Nat
  BY DEF greaterOf
<1>2. q \in Int /\ p \in Nat
  BY <1>1, Quotient, PowerBound
<1>3. throttle(ld, aa, mr, ml, ma, calls, abandons) = lesserOf(u, p)
  BY DEF throttle
<1> HIDE DEF q, b, p
<1>4. w \in Nat
  BY <1>1, <1>2 DEF greaterOf
<1> HIDE DEF w
<1>5. u \in Nat /\ u <= ml
  BY <1>4 DEF lesserOf
<1> HIDE DEF u
<1>6. lesserOf(u, p) \in Nat /\ lesserOf(u, p) <= ml /\ lesserOf(u, p) <= p
  BY <1>2, <1>5 DEF lesserOf
<1>7. QED BY <1>3, <1>6 DEF p

\* In predictive mode evaluate.h dials no more than maxlines at a time, keeps
\* the lines in use within the larger of the ratio and one line for each agent,
\* and leaves no agent without a line unless maxlines are dialed.
THEOREM PredictiveBounds ==
  ASSUME NEW ld \in Nat, NEW aa \in Nat, NEW mr \in Nat, NEW ml \in Nat, NEW ma \in Nat,
         NEW calls \in Nat, NEW abandons \in Nat
  PROVE  LET n == predictive(ld, aa, mr, ml, ma, calls, abandons) IN
         /\ n \in Nat
         /\ n <= ml
         /\ n > 0 => ld + n <= greaterOf(aa, (mr * aa) \div Scale)
         /\ ld + n >= lesserOf(aa, ml)
<1> DEFINE t == throttle(ld, aa, mr, ml, ma, calls, abandons)
           r == (mr * aa) \div Scale
           idle == aa - ld
           n == IF aa = 0 THEN 0
                ELSE lesserOf(IF idle > 0 THEN greaterOf(idle, t) ELSE t, ml)
<1>1. t \in Nat /\ t <= ml /\ t <= power(mr, aa, ld)
  BY ThrottleBound
<1>2. r \in Int
  BY Quotient
<1>3. power(mr, aa, ld) \in Nat /\ ld + power(mr, aa, ld) <= greaterOf(ld, r)
  BY PowerBound
<1> HIDE DEF t, r
<1>4. ld + t <= greaterOf(ld, r)
  BY <1>1, <1>2, <1>3 DEF greaterOf
<1>5. n \in Nat /\ n <= ml
  BY <1>1 DEF greaterOf, lesserOf
<1>6. n > 0 => ld + n <= greaterOf(aa, r)
  <2>1. CASE aa = 0
    BY <2>1
  <2>2. CASE aa # 0 /\ idle > 0
    <3>1. n <= greaterOf(idle, t)
      BY <1>1, <2>2 DEF lesserOf, greaterOf
    <3>2. ld + greaterOf(idle, t) <= greaterOf(aa, r)
      BY <1>1, <1>2, <1>4, <2>2 DEF greaterOf
    <3>3. QED BY <1>1, <1>2, <1>5, <3>1, <3>2 DEF greaterOf
  <2>3. CASE aa # 0 /\ ~(idle > 0)
    <3>1. n <= t
      BY <1>1, <2>3 DEF lesserOf
    <3>2. t > 0 => ld + t <= r
      BY <1>1, <1>2, <1>4 DEF greaterOf
    <3>3. QED BY <1>1, <1>2, <1>5, <3>1, <3>2 DEF greaterOf
  <2>4. QED BY <2>1, <2>2, <2>3
<1>7. ld + n >= lesserOf(aa, ml)
  BY <1>1 DEF greaterOf, lesserOf
<1>8. n = predictive(ld, aa, mr, ml, ma, calls, abandons)
  BY DEF predictive, t
<1>9. QED BY <1>5, <1>6, <1>7, <1>8 DEF r

\* In mode "auto" the lines in use and those dialed do not exceed maxlines,
\* unless those in use already do, and then none is dialed.
THEOREM AutoBound ==
  ASSUME NEW ld \in Nat, NEW ml \in Nat
  PROVE  /\ auto(ld, ml) \in Nat
         /\ ld + auto(ld, ml) <= greaterOf(ld, ml)
  BY DEF auto, greaterOf

\* Whatever the mode, the number of lines to dial is not negative: main keeps it
\* in an unsigned integer.
THEOREM EvaluateNat ==
  ASSUME NEW mode, NEW ld \in Nat, NEW aa \in Nat, NEW mr \in Nat, NEW ml \in Nat,
         NEW ma \in Nat, NEW calls \in Nat, NEW abandons \in Nat
  PROVE  evaluate(mode, ld, aa, mr, ml, ma, calls, abandons) \in Nat
<1>1. CASE mode = "auto"
  BY <1>1, AutoBound DEF evaluate
<1>2. CASE mode = "power"
  BY <1>2, PowerBound DEF evaluate
<1>3. CASE mode = "predictive"
  BY <1>3, PredictiveBounds DEF evaluate
<1>4. CASE mode \notin {"auto", "power", "predictive"}
  BY <1>4 DEF evaluate
<1>5. QED BY <1>1, <1>2, <1>3, <1>4
-------------------------------------------------------------------------------
(* The pass *)

\* A set of naturals that is not empty has a least member.
LEMMA LeastNatural ==
  ASSUME NEW S \in SUBSET Nat, S # {}
  PROVE  \E x \in S : \A y \in S : x <= y
<1>1. PICK x \in S : \A y \in S : ~ (<<y, x>> \in OpToRel(<, Nat))
  BY WFMin, NatLessThanWellFounded
<1>2. \A y \in S : ~ (y < x)
  BY <1>1 DEF OpToRel
<1>3. QED BY <1>2

\* LinesDialing leaves a suffix of the deque: nothing when every call timed
\* out, and else a first call that has not; those that leave have.
LEMMA PopSuffix ==
  ASSUME NEW calls \in Seq(Calls)
  PROVE  \E d \in 0 .. Len(calls) :
           /\ PopTimedOut(calls) \in Seq(Calls)
           /\ Len(PopTimedOut(calls)) = Len(calls) - d
           /\ \A i \in 1 .. Len(calls) - d : PopTimedOut(calls)[i] = calls[i + d]
           /\ Len(calls) - d > 0 => ~ TimedOut(PopTimedOut(calls)[1])
           /\ \A i \in 1 .. d : TimedOut(calls[i])
<1> DEFINE kept == {i \in DOMAIN calls : ~ TimedOut(calls[i])}
           least == CHOOSE i \in kept : \A j \in kept : i <= j
           first == IF kept = {} THEN Len(calls) + 1 ELSE least
<1>1. Len(calls) \in Nat /\ DOMAIN calls = 1 .. Len(calls)
  BY LenProperties
<1>2. kept # {} => least \in kept /\ \A i \in kept : least <= i
  <2>1. kept \in SUBSET Nat
    BY <1>1
  <2>2. kept # {} => \E i \in kept : \A j \in kept : i <= j
    BY <2>1, LeastNatural
  <2>3. QED BY <2>2
<1>3. first \in 1 .. Len(calls) + 1
  BY <1>1, <1>2
<1>4. PopTimedOut(calls) = SubSeq(calls, first, Len(calls))
  BY DEF PopTimedOut
<1>5. first <= Len(calls) => ~ TimedOut(calls[first])
  BY <1>1, <1>2
<1>13. \A i \in 1 .. first - 1 : TimedOut(calls[i])
  <2> SUFFICES ASSUME NEW i \in 1 .. first - 1, ~ TimedOut(calls[i]) PROVE FALSE
    OBVIOUS
  <2>1. i \in kept
    BY <1>1, <1>3
  <2>2. first = least /\ first <= i
    BY <1>2, <2>1
  <2>3. QED BY <1>1, <1>3, <2>2
<1> HIDE DEF first
<1>6. \A i \in first .. Len(calls) : calls[i] \in Calls
  BY <1>1, <1>3, ElementOfSeq
<1>7. /\ PopTimedOut(calls) \in Seq(Calls)
      /\ Len(PopTimedOut(calls)) = IF first <= Len(calls) THEN Len(calls) - first + 1 ELSE 0
      /\ \A i \in 1 .. Len(calls) - first + 1 : PopTimedOut(calls)[i] = calls[first + i - 1]
  BY <1>1, <1>3, <1>4, <1>6, SubSeqProperties, SMTT(30)
<1> DEFINE d == first - 1
<1>8. d \in 0 .. Len(calls)
  BY <1>1, <1>3
<1>9. Len(PopTimedOut(calls)) = Len(calls) - d
  BY <1>1, <1>3, <1>7
<1>10. \A i \in 1 .. Len(calls) - d : PopTimedOut(calls)[i] = calls[i + d]
  <2> SUFFICES ASSUME NEW i \in 1 .. Len(calls) - d
               PROVE  PopTimedOut(calls)[i] = calls[i + d]
    OBVIOUS
  <2>1. i \in 1 .. Len(calls) - first + 1 /\ i + d = first + i - 1
    BY <1>1, <1>3
  <2>2. PopTimedOut(calls)[i] = calls[first + i - 1]
    BY <1>7, <2>1
  <2>3. QED BY <2>1, <2>2
<1>11. Len(calls) - d > 0 => ~ TimedOut(PopTimedOut(calls)[1])
  <2>1. Len(calls) - d > 0 => first <= Len(calls) /\ PopTimedOut(calls)[1] = calls[1 + d]
    BY <1>1, <1>3, <1>10
  <2>2. 1 + d = first
    BY <1>3
  <2>3. QED BY <1>5, <2>1, <2>2
<1>12. QED BY <1>7, <1>8, <1>9, <1>10, <1>11, <1>13
-------------------------------------------------------------------------------
\* The calls of c that nobody answered.
Busy(calls, c) == {i \in DOMAIN calls : calls[i].campaign = c /\ ~ calls[i].answered}

\* The lines in use are a number, and no more of them than calls.
LEMMA LinesNat ==
  ASSUME NEW calls \in Seq(Calls), NEW c
  PROVE  /\ IsFiniteSet(Busy(calls, c))
         /\ Lines(calls, c) = Cardinality(Busy(calls, c))
         /\ Lines(calls, c) \in Nat
<1>1. Len(calls) \in Nat /\ DOMAIN calls = 1 .. Len(calls)
  BY LenProperties
<1>2. IsFiniteSet(1 .. Len(calls))
  BY <1>1, FS_Interval
<1>3. Busy(calls, c) \in SUBSET (1 .. Len(calls))
  BY <1>1 DEF Busy
<1>4. IsFiniteSet(Busy(calls, c))
  BY <1>2, <1>3, FS_Subset
<1>5. QED BY <1>4, FS_CardinalityType DEF Lines, Busy

\* An empty cache has no lines in use.
LEMMA EmptyIdle == \A c : Lines(<<>>, c) = 0
<1>1. <<>> \in Seq(Calls) /\ Len(<<>>) = 0
  BY EmptySeq
<1>2. DOMAIN <<>> = 1 .. 0
  BY <1>1, LenProperties
<1>3. \A c : Busy(<<>>, c) = {}
  BY <1>2 DEF Busy
<1>4. \A c : Lines(<<>>, c) = Cardinality(Busy(<<>>, c))
  BY <1>1, LinesNat
<1>5. QED BY <1>3, <1>4, FS_EmptySet

\* Calls that leave at the front take lines with them, and never add any.
LEMMA LinesPop ==
  ASSUME NEW calls \in Seq(Calls), NEW c
  PROVE  Lines(PopTimedOut(calls), c) <= Lines(calls, c)
<1>1. PICK d \in 0 .. Len(calls) :
        /\ PopTimedOut(calls) \in Seq(Calls)
        /\ Len(PopTimedOut(calls)) = Len(calls) - d
        /\ \A i \in 1 .. Len(calls) - d : PopTimedOut(calls)[i] = calls[i + d]
        /\ Len(calls) - d > 0 => ~ TimedOut(PopTimedOut(calls)[1])
        /\ \A i \in 1 .. d : TimedOut(calls[i])
  BY PopSuffix, Zenon
<1> DEFINE S == Busy(PopTimedOut(calls), c)
           T == Busy(calls, c)
           f == [i \in S |-> i + d]
<1>2. Len(calls) \in Nat /\ DOMAIN calls = 1 .. Len(calls)
  BY LenProperties
<1>3. DOMAIN PopTimedOut(calls) = 1 .. Len(calls) - d
  BY <1>1, LenProperties
<1>4. S \in SUBSET (1 .. Len(calls) - d)
  BY <1>3 DEF Busy
<1>5. \A i \in S : i + d \in T
  BY <1>1, <1>2, <1>3 DEF Busy
<1>6. f \in [S -> T]
  BY <1>5
<1>7. \A x, y \in S : f[x] = f[y] => x = y
  BY <1>1, <1>2, <1>4
<1>8. f \in Injection(S, T)
  BY <1>6, <1>7 DEF Injection, IsInjective
<1>9. IsFiniteSet(T) /\ Lines(calls, c) = Cardinality(T)
  BY LinesNat
<1>10. Cardinality(S) <= Cardinality(T)
  BY <1>8, <1>9, FS_Injection
<1>11. Lines(PopTimedOut(calls), c) = Cardinality(S)
  BY <1>1, LinesNat
<1>12. QED BY <1>9, <1>10, <1>11

\* The size of a segment of the numbers.
LEMMA Segment ==
  ASSUME NEW m \in Nat, NEW n \in Nat
  PROVE  IsFiniteSet(m + 1 .. m + n) /\ Cardinality(m + 1 .. m + n) = n
<1>1. m + 1 \in Int /\ m + n \in Int
  OBVIOUS
<1>2. /\ IsFiniteSet(m + 1 .. m + n)
      /\ Cardinality(m + 1 .. m + n) =
           IF m + 1 > m + n THEN 0 ELSE (m + n) - (m + 1) + 1
  BY <1>1, FS_Interval
<1>3. QED BY <1>2

\* Adding calls for one campaign adds at most their number to its lines, and
\* nothing to those of another.
LEMMA LinesAdd ==
  ASSUME NEW calls \in Seq(Calls), NEW new \in Seq(Calls), NEW c, NEW d,
         \A i \in DOMAIN new : new[i].campaign = c
  PROVE  /\ Lines(calls \o new, c) <= Lines(calls, c) + Len(new)
         /\ d # c => Lines(calls \o new, d) <= Lines(calls, d)
<1> DEFINE m == Len(calls)
           n == Len(new)
<1>1. m \in Nat /\ n \in Nat /\ DOMAIN calls = 1 .. m /\ DOMAIN new = 1 .. n
  BY LenProperties
<1>2. /\ calls \o new \in Seq(Calls)
      /\ Len(calls \o new) = m + n
      /\ \A i \in 1 .. m + n : (calls \o new)[i] = IF i <= m THEN calls[i] ELSE new[i - m]
  BY ConcatProperties
<1>3. DOMAIN (calls \o new) = 1 .. m + n
  BY <1>2, LenProperties
<1>4. \A e : Busy(calls \o new, e) \subseteq Busy(calls, e) \cup (m + 1 .. m + n)
  BY <1>1, <1>2, <1>3 DEF Busy
<1>5. d # c => Busy(calls \o new, d) \subseteq Busy(calls, d)
  BY <1>1, <1>2, <1>3 DEF Busy
<1>6. d # c => Lines(calls \o new, d) <= Lines(calls, d)
  <2> SUFFICES ASSUME d # c PROVE Lines(calls \o new, d) <= Lines(calls, d)
    OBVIOUS
  <2>1. Busy(calls \o new, d) \in SUBSET Busy(calls, d)
    BY <1>5
  <2>2. IsFiniteSet(Busy(calls, d)) /\ Lines(calls, d) = Cardinality(Busy(calls, d))
    BY LinesNat
  <2>3. Lines(calls \o new, d) = Cardinality(Busy(calls \o new, d))
    BY <1>2, LinesNat
  <2>4. QED BY <2>1, <2>2, <2>3, FS_Subset
<1>7. Lines(calls \o new, c) <= Lines(calls, c) + n
  <2> DEFINE S == Busy(calls, c)
             A == m + 1 .. m + n
  <2>1. IsFiniteSet(S) /\ Lines(calls, c) = Cardinality(S) /\ Cardinality(S) \in Nat
    BY LinesNat
  <2>3. IsFiniteSet(A) /\ Cardinality(A) = n
    BY <1>1, Segment
  <2> HIDE DEF S, A
  <2>5. IsFiniteSet(S \cup A) /\ Cardinality(S \cup A) = Cardinality(S) + Cardinality(A) - Cardinality(S \cap A)
    BY <2>1, <2>3, FS_Union
  <2>6. IsFiniteSet(S \cap A)
    BY <2>1, FS_Intersection
  <2>7. Cardinality(S \cap A) \in Nat
    BY <2>6, FS_CardinalityType
  <2>8. Cardinality(S \cup A) <= Cardinality(S) + n
    BY <1>1, <2>1, <2>3, <2>5, <2>7
  <2>9. Busy(calls \o new, c) \in SUBSET (S \cup A)
    BY <1>4 DEF S, A
  <2>10. Cardinality(Busy(calls \o new, c)) <= Cardinality(S \cup A)
    BY <2>5, <2>9, FS_Subset
  <2>11. /\ Lines(calls \o new, c) = Cardinality(Busy(calls \o new, c))
         /\ Lines(calls \o new, c) \in Nat
    BY <1>2, LinesNat
  <2>12. Cardinality(S \cup A) \in Nat
    BY <2>5, FS_CardinalityType
  <2>13. QED BY <1>1, <2>1, <2>8, <2>10, <2>11, <2>12
<1>8. QED BY <1>6, <1>7
-------------------------------------------------------------------------------
\* The clock runs over at least two seconds.
LEMMA ClockFacts ==
  /\ ClockMod \in Nat \ {0} /\ 0 \in Clock
  /\ \A x \in Clock : (x + 1) % ClockMod \in Clock
  /\ Len(Queues) \in Nat \ {0} /\ DOMAIN Queues = 1 .. Len(Queues)
  /\ \A i \in DOMAIN Queues : Queues[i] \in Campaigns
<1>1. ClockMod \in Nat \ {0}
  BY DialClockAssumption
<1>2. 0 \in Clock /\ \A x \in Clock : (x + 1) % ClockMod \in Clock
  BY <1>1 DEF Clock
<1>3. Len(Queues) \in Nat \ {0} /\ DOMAIN Queues = 1 .. Len(Queues)
  BY QueuesAssumption, LenProperties, EmptySeq
<1>4. QED BY <1>1, <1>2, <1>3 DEF Campaigns

\* The rows of a query are leads, no more of them than asked for.
LEMMA RowsTyped ==
  ASSUME NEW limit, NEW ids \in Rows(limit)
  PROVE  ids \in Seq(Leads) /\ Len(ids) <= limit
<1>1. PICK n \in 0 .. Cardinality(Leads) : ids \in [1 .. n -> Leads]
  BY DEF Rows
<1>2. Cardinality(Leads) \in Nat
  BY BoundsAssumption, FS_CardinalityType
<1>3. n \in Nat
  BY <1>1, <1>2
<1>4. ids \in Seq(Leads)
  BY <1>1, <1>3
<1>5. QED BY <1>4 DEF Rows

\* Calls a campaign puts in the cache now.
JustAdded(new, c) ==
  \A i \in DOMAIN new :
    new[i].campaign = c /\ new[i].time = now /\ new[i].timeout = Settings[c].timeout

\* Calls added are calls of the campaign, put in now.
LEMMA AddCallsTyped ==
  ASSUME now \in Clock, NEW calls \in Seq(Calls), NEW c \in Campaigns, NEW ids \in Seq(Leads)
  PROVE  \E new \in Seq(Calls) :
           /\ AddCalls(calls, c, ids) = calls \o new
           /\ Len(new) = Len(ids)
           /\ JustAdded(new, c)
<1> DEFINE new == [i \in DOMAIN ids |-> Call(c, ids[i])]
<1>1. Len(ids) \in Nat /\ DOMAIN ids = 1 .. Len(ids) /\ \A i \in DOMAIN ids : ids[i] \in Leads
  BY LenProperties, ElementOfSeq
<1>2. \A i \in DOMAIN ids : Call(c, ids[i]) \in Calls
  BY <1>1, SettingsAssumption DEF Call, Calls
<1>3. new \in [1 .. Len(ids) -> Calls]
  BY <1>1, <1>2
<1>4. new \in Seq(Calls)
  BY <1>1, <1>3
<1>5. DOMAIN new = 1 .. Len(ids) /\ Len(new) = Len(ids)
  BY <1>1, <1>4, LenProperties
<1>6. JustAdded(new, c)
  BY <1>1, <1>5 DEF Call, JustAdded
<1>7. QED BY <1>4, <1>5, <1>6 DEF AddCalls

\* The two loops over the whole cache keep its length and its calls' campaigns
\* and times, and take no answer back.
SameCalls(calls, other) ==
  /\ other \in Seq(Calls) /\ Len(other) = Len(calls) /\ DOMAIN other = DOMAIN calls
  /\ \A i \in DOMAIN calls :
       /\ other[i].campaign = calls[i].campaign /\ other[i].time = calls[i].time
       /\ other[i].timeout = calls[i].timeout
       /\ calls[i].answered => other[i].answered

\* SetAnswered is such a loop.
LEMMA SetAnsweredSame ==
  ASSUME NEW calls \in Seq(Calls), NEW c, NEW id
  PROVE  SameCalls(calls, SetAnswered(calls, c, id))
<1> DEFINE a == SetAnswered(calls, c, id)
<1>1. Len(calls) \in Nat /\ DOMAIN calls = 1 .. Len(calls) /\ \A i \in DOMAIN calls : calls[i] \in Calls
  BY LenProperties, ElementOfSeq
<1>2. a \in [1 .. Len(calls) -> Calls]
  BY <1>1 DEF SetAnswered, Calls
<1>3. a \in Seq(Calls) /\ Len(a) = Len(calls) /\ DOMAIN a = DOMAIN calls
  BY <1>1, <1>2, LenProperties
<1>4. \A i \in DOMAIN calls :
        /\ a[i].campaign = calls[i].campaign /\ a[i].time = calls[i].time
        /\ a[i].timeout = calls[i].timeout
        /\ calls[i].answered => a[i].answered
  BY <1>1 DEF SetAnswered, Calls
<1>5. QED BY <1>3, <1>4 DEF SameCalls

\* CallAll is the other.
LEMMA CallAllSame ==
  ASSUME cache \in Seq(Calls), CallAll
  PROVE  SameCalls(cache, cache')
<1>1. Len(cache) \in Nat /\ DOMAIN cache = 1 .. Len(cache) /\ \A i \in DOMAIN cache : cache[i] \in Calls
  BY LenProperties, ElementOfSeq
<1>2. cache' \in [1 .. Len(cache) -> Calls]
  BY <1>1 DEF CallAll, Calls
<1>3. cache' \in Seq(Calls) /\ Len(cache') = Len(cache) /\ DOMAIN cache' = DOMAIN cache
  BY <1>1, <1>2, LenProperties
<1>4. \A i \in DOMAIN cache :
        /\ cache'[i].campaign = cache[i].campaign /\ cache'[i].time = cache[i].time
        /\ cache'[i].timeout = cache[i].timeout
        /\ cache[i].answered => cache'[i].answered
  BY <1>1 DEF CallAll, Calls
<1>5. QED BY <1>3, <1>4 DEF SameCalls

\* The two loops add no line in use.
LEMMA LinesFewer ==
  ASSUME NEW calls \in Seq(Calls), NEW other, SameCalls(calls, other), NEW c
  PROVE  Lines(other, c) <= Lines(calls, c)
<1>1. Busy(other, c) \in SUBSET Busy(calls, c)
  BY DEF Busy, SameCalls
<1>2. other \in Seq(Calls)
  BY DEF SameCalls
<1>3. QED BY <1>1, <1>2, LinesNat, FS_Subset
-------------------------------------------------------------------------------
\* A campaign's turn drops a prefix of the cache and adds calls of its own at
\* the end; for a campaign that dials no callbacks, as many as evaluate says
\* at most.
LEMMA DialShape ==
  ASSUME TypeOK, NEW c \in Campaigns, DialCampaign(c)
  PROVE  \E new \in Seq(Calls) :
           /\ cache' = PopTimedOut(cache) \o new
           /\ Len(PopTimedOut(cache)) + Len(new) <= MaxCache
           /\ JustAdded(new, c)
           /\ helper' = [helper EXCEPT ![c].calls = lesserOf(@ + Len(new), MaxCalls)]
           /\ c \in MainOnly =>
                Len(new) <= IF Settings[c].function \in {"closer", "inbound"} THEN 0
                            ELSE linestodial(c, PopTimedOut(cache))
<1> DEFINE popped == PopTimedOut(cache)
           s == Settings[c]
           n == linestodial(c, popped)
           left == remaininglines(c, popped)
           window == left # 0 /\ Minus(current, updated) = RefreshSoon
           most == IF s.function \in {"closer", "inbound"} THEN 0 ELSE n
           ones == IF s.usecloser /\ window THEN 1 ELSE 0
           backs == IF s.usecallback /\ window THEN left ELSE 0
<1>1. PICK main \in Rows(most), closer \in Rows(ones), callback \in Rows(backs) :
        /\ Len(popped) + Len(main \o closer \o callback) <= MaxCache
        /\ cache' = AddCalls(popped, c, main \o closer \o callback)
        /\ helper' = [helper EXCEPT ![c].calls =
                         lesserOf(@ + Len(main \o closer \o callback), MaxCalls)]
  BY DEF DialCampaign
<1>2. popped \in Seq(Calls) /\ now \in Clock
  BY PopSuffix DEF TypeOK
<1> HIDE DEF popped, most, ones, backs
<1>3. /\ main \in Seq(Leads) /\ Len(main) <= most
      /\ closer \in Seq(Leads) /\ Len(closer) <= ones
      /\ callback \in Seq(Leads) /\ Len(callback) <= backs
  BY RowsTyped
<1>4. /\ main \o closer \o callback \in Seq(Leads)
      /\ Len(main \o closer \o callback) = Len(main) + Len(closer) + Len(callback)
  BY <1>3, ConcatProperties
<1> DEFINE ids == main \o closer \o callback
<1> HIDE DEF ids
<1>5. PICK new \in Seq(Calls) :
        /\ AddCalls(popped, c, ids) = popped \o new
        /\ Len(new) = Len(ids)
        /\ JustAdded(new, c)
  BY <1>2, <1>4, AddCallsTyped DEF ids
<1>6. c \in MainOnly => Len(ids) <= most
  <2> SUFFICES ASSUME c \in MainOnly PROVE Len(ids) <= most
    OBVIOUS
  <2>1. ones = 0 /\ backs = 0
    BY DEF MainOnly, ones, backs
  <2>2. Len(main) \in Nat /\ Len(closer) \in Nat /\ Len(callback) \in Nat
    BY <1>3, LenProperties
  <2>3. Len(closer) = 0 /\ Len(callback) = 0
    BY <1>3, <2>1, <2>2
  <2>4. Len(ids) = Len(main)
    BY <1>4, <2>2, <2>3 DEF ids
  <2>5. QED BY <1>3, <2>4
<1>7. QED BY <1>1, <1>5, <1>6 DEF ids, popped, most

\* The turn passes on within its range.
LEMMA TurnTyped ==
  ASSUME TypeOK, turn \in 0 .. Len(Queues), NextTurn
  PROVE  turn' \in 0 .. Len(Queues) + 1 /\ avail' \in 0 .. MaxAgents
<1>1. turn' \in 0 .. Len(Queues) + 1
  BY ClockFacts DEF NextTurn
<1>2. MaxAgents \in Nat
  BY BoundsAssumption
<1>3. QED BY <1>1, <1>2 DEF NextTurn

\* The counters stay below the bound they are counted up to.
LEMMA CountersTyped ==
  ASSUME helper \in [Campaigns -> [calls : 0 .. MaxCalls, abandons : 0 .. MaxCalls]],
         NEW c \in Campaigns, NEW n \in Nat
  PROVE  /\ [helper EXCEPT ![c].calls = lesserOf(@ + n, MaxCalls)]
              \in [Campaigns -> [calls : 0 .. MaxCalls, abandons : 0 .. MaxCalls]]
         /\ [helper EXCEPT ![c].abandons = lesserOf(@ + 1, MaxCalls)]
              \in [Campaigns -> [calls : 0 .. MaxCalls, abandons : 0 .. MaxCalls]]
         /\ NewDay \in [Campaigns -> [calls : 0 .. MaxCalls, abandons : 0 .. MaxCalls]]
<1>1. MaxCalls \in Nat
  BY BoundsAssumption
<1>2. \A x \in 0 .. MaxCalls :
        lesserOf(x + n, MaxCalls) \in 0 .. MaxCalls /\ lesserOf(x + 1, MaxCalls) \in 0 .. MaxCalls
  BY <1>1 DEF lesserOf
<1>3. NewDay \in [Campaigns -> [calls : 0 .. MaxCalls, abandons : 0 .. MaxCalls]]
  BY <1>1 DEF NewDay
<1>4. QED BY <1>2, <1>3

\* The calls forgotten are calls of the cache.
LEMMA StrayedTyped ==
  ASSUME cache \in Seq(Calls)
  PROVE  Strayed(cache) \in SUBSET [place : Nat, call : Calls]
<1>1. /\ Len(cache) \in Nat /\ DOMAIN cache = 1 .. Len(cache)
      /\ \A i \in DOMAIN cache : cache[i] \in Calls
  BY LenProperties, ElementOfSeq
<1>2. PICK d \in 0 .. Len(cache) : Len(PopTimedOut(cache)) = Len(cache) - d
  BY PopSuffix
<1>3. \A j \in 1 .. Len(cache) - Len(PopTimedOut(cache)) : j \in Nat /\ cache[j] \in Calls
  BY <1>1, <1>2
<1>4. QED BY <1>3 DEF Strayed

\* Type correctness of every step.
LEMMA StepKeepsTypes == TypeOK /\ [Next]_vars => TypeOK'
<1> SUFFICES ASSUME TypeOK, [Next]_vars PROVE TypeOK'
  OBVIOUS
<1>t. /\ now \in Clock /\ current \in Clock /\ updated \in Clock
      /\ turn \in 0 .. Len(Queues) + 1
      /\ cache \in Seq(Calls) /\ Len(cache) <= MaxCache
      /\ avail \in 0 .. MaxAgents
      /\ helper \in [Campaigns -> [calls : 0 .. MaxCalls, abandons : 0 .. MaxCalls]]
      /\ strays \in SUBSET [place : Nat, call : Calls]
  BY DEF TypeOK
<1>b. Len(Queues) \in Nat /\ MaxAgents \in Nat /\ MaxCache \in Nat
  BY ClockFacts, BoundsAssumption
<1>1. CASE Tick
  <2>1. (now + 1) % ClockMod \in Clock
    BY <1>t, ClockFacts
  <2>2. now' \in Clock
    BY <1>1, <2>1 DEF Tick
  <2>3. UNCHANGED <<turn, current, updated, cache, avail, helper>> /\ strays' \subseteq strays
    BY <1>1 DEF Tick
  <2>4. QED BY <1>t, <2>2, <2>3 DEF TypeOK
<1>2. CASE Begin
  <2>1. updated' \in Clock /\ helper' \in {helper, NewDay}
    BY <1>2, <1>t DEF Begin
  <2>2. helper' \in [Campaigns -> [calls : 0 .. MaxCalls, abandons : 0 .. MaxCalls]]
    <3>1. NewDay \in [Campaigns -> [calls : 0 .. MaxCalls, abandons : 0 .. MaxCalls]]
      BY BoundsAssumption DEF NewDay
    <3>2. QED BY <1>t, <2>1, <3>1
  <2>3. QED BY <1>2, <1>b, <1>t, <2>1, <2>2 DEF Begin, TypeOK, Clock
<1>3. CASE EndEvents
  <2>1. turn \in 0 .. Len(Queues)
    BY <1>3, <1>b DEF EndEvents
  <2>2. turn' \in 0 .. Len(Queues) + 1 /\ avail' \in 0 .. MaxAgents
    BY <1>3, <2>1, TurnTyped DEF EndEvents
  <2>3. QED BY <1>3, <1>t, <2>2 DEF EndEvents, TypeOK, Clock
<1>4. CASE CallAll
  <2>1. SameCalls(cache, cache')
    BY <1>4, <1>t, CallAllSame
  <2>2. QED BY <1>4, <1>t, <2>1 DEF SameCalls, CallAll, TypeOK
<1>5. CASE Restart
  <2>1. helper' \in [Campaigns -> [calls : 0 .. MaxCalls, abandons : 0 .. MaxCalls]]
    <3>1. NewDay \in [Campaigns -> [calls : 0 .. MaxCalls, abandons : 0 .. MaxCalls]]
      BY BoundsAssumption DEF NewDay
    <3>2. QED BY <1>5, <1>t, <3>1 DEF Restart
  <2>2. <<>> \in Seq(Calls) /\ Len(<<>>) = 0
    BY EmptySeq
  <2>3. 0 \in Clock
    BY ClockFacts
  <2>4. cache' \in Seq(Calls) /\ Len(cache') <= MaxCache
    BY <1>5, <1>b, <2>2 DEF Restart
  <2>5. QED BY <1>5, <1>b, <1>t, <2>1, <2>3, <2>4 DEF Restart, TypeOK, Clock
<1>6. ASSUME NEW c \in Campaigns, DialCampaign(c) PROVE TypeOK'
  <2>1. PICK new \in Seq(Calls) :
          /\ cache' = PopTimedOut(cache) \o new
          /\ Len(PopTimedOut(cache)) + Len(new) <= MaxCache
          /\ helper' = [helper EXCEPT ![c].calls = lesserOf(@ + Len(new), MaxCalls)]
    BY <1>6, DialShape
  <2>2. PopTimedOut(cache) \in Seq(Calls) /\ Len(new) \in Nat
    BY <1>t, PopSuffix, LenProperties
  <2>3. cache' \in Seq(Calls) /\ Len(cache') <= MaxCache
    BY <2>1, <2>2, ConcatProperties
  <2>4. helper' \in [Campaigns -> [calls : 0 .. MaxCalls, abandons : 0 .. MaxCalls]]
    BY <1>t, <2>1, <2>2, CountersTyped
  <2>5. turn \in 0 .. Len(Queues)
    BY <1>6, <1>b, <1>t, ClockFacts DEF DialCampaign, Turn
  <2>6. turn' \in 0 .. Len(Queues) + 1 /\ avail' \in 0 .. MaxAgents
    BY <1>6, <2>5, TurnTyped DEF DialCampaign
  <2>7. now' = now /\ current' = current /\ updated' = updated
    BY <1>6 DEF DialCampaign
  <2>8. strays' \in SUBSET [place : Nat, call : Calls]
    BY <1>6, <1>t, StrayedTyped DEF DialCampaign
  <2>9. QED BY <1>t, <2>3, <2>4, <2>6, <2>7, <2>8 DEF TypeOK, Clock
<1>7. ASSUME NEW c \in Campaigns, Abandon(c) PROVE TypeOK'
  <2>1. helper' \in [Campaigns -> [calls : 0 .. MaxCalls, abandons : 0 .. MaxCalls]]
    BY <1>7, <1>t, CountersTyped DEF Abandon
  <2>2. QED BY <1>7, <1>t, <2>1 DEF Abandon, TypeOK, Clock
<1>8. ASSUME NEW c \in Campaigns, NEW id \in Leads, Answered(c, id) PROVE TypeOK'
  <2>1. SameCalls(cache, cache')
    BY <1>8, <1>t, SetAnsweredSame DEF Answered
  <2>2. QED BY <1>8, <1>t, <2>1 DEF SameCalls, Answered, TypeOK
<1>9. CASE UNCHANGED vars
  BY <1>9, <1>t DEF vars, TypeOK, Clock
<1>10. QED BY <1>1, <1>2, <1>3, <1>4, <1>5, <1>6, <1>7, <1>8, <1>9 DEF Next

\* Every state of Dialing is of its type, for any campaigns, leads and clock.
THEOREM DialingTypeCorrect == Spec => []TypeOK
<1>1. Init => TypeOK
  <2> SUFFICES ASSUME Init PROVE TypeOK
    OBVIOUS
  <2>1. 0 \in Clock /\ Len(Queues) \in Nat
    BY ClockFacts
  <2>2. <<>> \in Seq(Calls) /\ Len(<<>>) = 0
    BY EmptySeq
  <2>3. MaxAgents \in Nat /\ MaxCalls \in Nat /\ MaxCache \in Nat
    BY BoundsAssumption
  <2>4. helper \in [Campaigns -> [calls : 0 .. MaxCalls, abandons : 0 .. MaxCalls]]
    BY <2>3 DEF Init
  <2>5. QED BY <2>1, <2>2, <2>3, <2>4 DEF Init, TypeOK
<1>2. QED BY <1>1, StepKeepsTypes, PTL DEF Spec
-------------------------------------------------------------------------------
\* The counters are numbers, and so is what evaluate makes of them.
LEMMA LinesToDialNat ==
  ASSUME TypeOK, NEW c \in Campaigns, NEW calls \in Seq(Calls)
  PROVE  /\ avail \in Nat /\ helper[c].calls \in Nat /\ helper[c].abandons \in Nat
         /\ linestodial(c, calls) \in Nat
<1>1. avail \in Nat /\ helper[c].calls \in Nat /\ helper[c].abandons \in Nat
  BY BoundsAssumption DEF TypeOK
<1>2. Lines(calls, c) \in Nat
  BY LinesNat
<1>3. QED BY <1>1, <1>2, SettingsAssumption, EvaluateNat DEF linestodial

\* Predictive dialing leaves no available agent without a line, up to maxlines.
THEOREM PredictiveLeavesNoAgentIdle == Spec => []NoAgentIdle
<1>1. TypeOK => NoAgentIdle
  <2> SUFFICES ASSUME TypeOK, NEW c \in Campaigns, Settings[c].function = "predictive"
               PROVE  LET calls == PopTimedOut(cache) IN
                      Lines(calls, c) + linestodial(c, calls)
                        >= lesserOf(avail, Settings[c].maxlines)
    BY DEF NoAgentIdle
  <2> DEFINE calls == PopTimedOut(cache)
  <2>1. calls \in Seq(Calls)
    BY PopSuffix DEF TypeOK
  <2> HIDE DEF calls
  <2>2. Lines(calls, c) \in Nat
    BY <2>1, LinesNat
  <2>3. avail \in Nat /\ helper[c].calls \in Nat /\ helper[c].abandons \in Nat
    BY <2>1, LinesToDialNat
  <2>4. linestodial(c, calls) =
          predictive(Lines(calls, c), avail, Settings[c].maxratio, Settings[c].maxlines,
                     Settings[c].maxabandons, helper[c].calls, helper[c].abandons)
    BY DEF linestodial, evaluate
  <2>5. Lines(calls, c) + linestodial(c, calls) >= lesserOf(avail, Settings[c].maxlines)
    BY <2>2, <2>3, <2>4, SettingsAssumption, PredictiveBounds
  <2>6. QED BY <2>5 DEF calls
<1>2. QED BY <1>1, DialingTypeCorrect, PTL

\* A step other than a campaign's own turn does not add to its lines.
LEMMA OthersAddNone ==
  ASSUME TypeOK, [Next]_vars, NEW c \in Campaigns, ~ DialCampaign(c)
  PROVE  Lines(cache', c) <= Lines(cache, c)
<1>t. cache \in Seq(Calls)
  BY DEF TypeOK
<1>n. Lines(cache, c) \in Nat
  BY <1>t, LinesNat
<1>1. CASE UNCHANGED cache
  BY <1>1, <1>n
<1>2. CASE CallAll
  BY <1>2, <1>t, CallAllSame, LinesFewer
<1>3. CASE Restart
  <2>1. cache' = <<>> /\ <<>> \in Seq(Calls)
    BY <1>3, EmptySeq DEF Restart
  <2>3. Lines(<<>>, c) = 0
    BY EmptyIdle
  <2>4. QED BY <1>n, <2>1, <2>3
<1>4. ASSUME NEW d \in Campaigns, DialCampaign(d)
      PROVE  Lines(cache', c) <= Lines(cache, c)
  <2>1. d # c
    BY <1>4
  <2>2. PICK new \in Seq(Calls) :
          /\ cache' = PopTimedOut(cache) \o new
          /\ JustAdded(new, d)
    BY <1>4, DialShape
  <2>3. PopTimedOut(cache) \in Seq(Calls)
    BY <1>t, PopSuffix
  <2>4. Lines(cache', c) <= Lines(PopTimedOut(cache), c)
    BY <2>1, <2>2, <2>3, LinesAdd DEF JustAdded
  <2>5. Lines(PopTimedOut(cache), c) <= Lines(cache, c)
    BY <1>t, LinesPop
  <2>6. cache' \in Seq(Calls)
    BY <2>2, <2>3, ConcatProperties
  <2>7. Lines(cache', c) \in Nat /\ Lines(PopTimedOut(cache), c) \in Nat
    BY <2>3, <2>6, LinesNat
  <2>8. QED BY <1>n, <2>4, <2>5, <2>7
<1>5. ASSUME NEW d \in Campaigns, NEW id \in Leads, Answered(d, id)
      PROVE  Lines(cache', c) <= Lines(cache, c)
  <2>1. SameCalls(cache, cache')
    BY <1>5, <1>t, SetAnsweredSame DEF Answered
  <2>2. QED BY <1>t, <2>1, LinesFewer
<1>6. QED BY <1>1, <1>2, <1>3, <1>4, <1>5
  DEF Next, Tick, Begin, EndEvents, Abandon, vars

\* A campaign's own turn, when it dials no callbacks: its lines end within what
\* were left of them after the timeouts and what evaluate adds.
LEMMA OwnTurnAdds ==
  ASSUME TypeOK, NEW c \in MainOnly, DialCampaign(c),
         Settings[c].function \notin {"closer", "inbound"}
  PROVE  LET calls == PopTimedOut(cache) IN
         /\ calls \in Seq(Calls) /\ Lines(calls, c) \in Nat
         /\ Lines(cache, c) \in Nat /\ Lines(cache', c) \in Nat
         /\ Lines(calls, c) <= Lines(cache, c)
         /\ linestodial(c, calls) \in Nat
         /\ Lines(cache', c) <= Lines(calls, c) + linestodial(c, calls)
<1> DEFINE calls == PopTimedOut(cache)
<1>c. c \in Campaigns
  BY DEF MainOnly
<1>t. cache \in Seq(Calls)
  BY DEF TypeOK
<1>1. calls \in Seq(Calls)
  BY <1>t, PopSuffix
<1>2. PICK new \in Seq(Calls) :
        /\ cache' = calls \o new
        /\ JustAdded(new, c)
        /\ Len(new) <= linestodial(c, calls)
  BY <1>c, DialShape
<1>5. Lines(calls, c) <= Lines(cache, c)
  BY <1>t, LinesPop
<1> HIDE DEF calls
<1>3. cache' \in Seq(Calls)
  BY <1>1, <1>2, ConcatProperties
<1>4. Lines(cache', c) <= Lines(calls, c) + Len(new)
  BY <1>1, <1>2, LinesAdd DEF JustAdded
<1>6. Lines(calls, c) \in Nat /\ Lines(cache, c) \in Nat /\ Lines(cache', c) \in Nat
  BY <1>t, <1>1, <1>3, LinesNat
<1>7. Len(new) \in Nat /\ linestodial(c, calls) \in Nat
  BY <1>c, <1>1, LinesToDialNat, LenProperties
<1>8. Lines(cache', c) <= Lines(calls, c) + linestodial(c, calls)
  BY <1>2, <1>4, <1>6, <1>7
<1>9. QED BY <1>1, <1>5, <1>6, <1>7, <1>8 DEF calls
-------------------------------------------------------------------------------
\* The difference of two readings of the clock, modulo its turn.
LEMMA Difference ==
  ASSUME NEW M \in Nat \ {0}, NEW x \in 0 .. M - 1, NEW y \in 0 .. M - 1
  PROVE  (x - y) % M = IF x >= y THEN x - y ELSE x - y + M
  OBVIOUS

\* The next reading.
LEMMA Successor ==
  ASSUME NEW M \in Nat \ {0}, NEW x \in 0 .. M - 1
  PROVE  (x + 1) % M = IF x = M - 1 THEN 0 ELSE x + 1
  OBVIOUS

\* A difference of unsigned integers, of less than their modulus.
LEMMA Unsigned ==
  ASSUME NEW W \in Nat, NEW x \in Int, -W <= x, x < W
  PROVE  x % W = IF x >= 0 THEN x ELSE x + W
  OBVIOUS

\* A tick makes every call a second older, on either side of the turn.
LEMMA TickAges ==
  ASSUME NEW M \in Nat \ {0}, NEW x \in 0 .. M - 1, NEW y \in 0 .. M - 1, (x - y) % M < M - 1
  PROVE  (((x + 1) % M) - y) % M = ((x - y) % M) + 1
<1> DEFINE z == (x + 1) % M
<1>1. z = IF x = M - 1 THEN 0 ELSE x + 1
  BY Successor
<1>2. z \in 0 .. M - 1
  BY <1>1
<1> HIDE DEF z
<1>3. (z - y) % M = IF z >= y THEN z - y ELSE z - y + M
  BY <1>2, Difference
<1>4. (x - y) % M = IF x >= y THEN x - y ELSE x - y + M
  BY Difference
<1>5. (z - y) % M = ((x - y) % M) + 1
  BY <1>1, <1>3, <1>4
<1>6. QED BY <1>5 DEF z

\* Every call has the timeout of its campaign.
TimeoutsKept ==
  \A i \in DOMAIN cache : cache[i].timeout = Settings[cache[i].campaign].timeout

\* The order of the deque, with what a pass needs of its calls.
Ordered == OldestFirst /\ TimeoutsKept

\* The two loops keep the order: they leave the times alone.
LEMMA SameOrdered ==
  ASSUME cache \in Seq(Calls), Ordered, now' = now, SameCalls(cache, cache')
  PROVE  Ordered'
<1>1. /\ DOMAIN cache' = DOMAIN cache
      /\ \A i \in DOMAIN cache :
           /\ cache'[i].campaign = cache[i].campaign /\ cache'[i].time = cache[i].time
           /\ cache'[i].timeout = cache[i].timeout
  BY DEF SameCalls
<1>2. OldestFirst'
  BY <1>1 DEF Ordered, OldestFirst, Age
<1>3. TimeoutsKept'
  BY <1>1 DEF Ordered, TimeoutsKept
<1>4. QED BY <1>2, <1>3 DEF Ordered

\* What a campaign's turn leaves of the cache, call by call: those after a
\* prefix, the first of them not timed out, and then calls put in now.
LEMMA DialKeeps ==
  ASSUME TypeOK, Ordered, NEW c \in Campaigns, DialCampaign(c)
  PROVE  \E d \in Nat, m \in Nat :
           /\ now' = now
           /\ DOMAIN cache' \subseteq Nat
           /\ \A i \in DOMAIN cache' : i <= m => i + d \in DOMAIN cache /\ cache'[i] = cache[i + d]
           /\ \A i \in DOMAIN cache' :
                i > m => /\ cache'[i].time = now /\ cache'[i].campaign = c
                         /\ cache'[i].timeout = Settings[c].timeout
           /\ m > 0 => 1 \in DOMAIN cache' /\ ~ TimedOut(cache'[1])
<1> DEFINE popped == PopTimedOut(cache)
<1>t. cache \in Seq(Calls) /\ Len(cache) \in Nat /\ DOMAIN cache = 1 .. Len(cache)
  BY LenProperties DEF TypeOK
<1>1. PICK d \in 0 .. Len(cache) :
        /\ popped \in Seq(Calls)
        /\ Len(popped) = Len(cache) - d
        /\ \A i \in 1 .. Len(cache) - d : popped[i] = cache[i + d]
        /\ Len(cache) - d > 0 => ~ TimedOut(popped[1])
  BY <1>t, PopSuffix
<1>2. PICK new \in Seq(Calls) :
        /\ cache' = popped \o new
        /\ JustAdded(new, c)
  BY DialShape
<1> HIDE DEF popped
<1> DEFINE m == Len(popped)
           n == Len(new)
<1>3. m \in Nat /\ n \in Nat /\ DOMAIN new = 1 .. n /\ d \in Nat
  BY <1>1, <1>2, <1>t, LenProperties
<1>4. /\ cache' \in Seq(Calls) /\ Len(cache') = m + n
      /\ \A i \in 1 .. m + n : cache'[i] = IF i <= m THEN popped[i] ELSE new[i - m]
  BY <1>1, <1>2, ConcatProperties
<1>5. DOMAIN cache' = 1 .. m + n
  BY <1>4, LenProperties
<1>6. \A i \in DOMAIN cache' : i <= m => i + d \in DOMAIN cache /\ cache'[i] = cache[i + d]
  <2> SUFFICES ASSUME NEW i \in DOMAIN cache', i <= m
               PROVE  i + d \in DOMAIN cache /\ cache'[i] = cache[i + d]
    OBVIOUS
  <2>1. i \in 1 .. m + n /\ i \in 1 .. m
    BY <1>3, <1>5
  <2>2. m = Len(cache) - d /\ i \in 1 .. Len(cache) - d
    BY <1>1, <2>1
  <2>3. i + d \in DOMAIN cache /\ popped[i] = cache[i + d]
    BY <1>t, <1>1, <1>3, <2>2
  <2>4. cache'[i] = popped[i]
    BY <1>4, <2>1
  <2>5. QED BY <2>3, <2>4
<1>7. \A i \in DOMAIN cache' :
        i > m => /\ cache'[i].time = now /\ cache'[i].campaign = c
                 /\ cache'[i].timeout = Settings[c].timeout
  <2> SUFFICES ASSUME NEW i \in DOMAIN cache', i > m
               PROVE  /\ cache'[i].time = now /\ cache'[i].campaign = c
                      /\ cache'[i].timeout = Settings[c].timeout
    OBVIOUS
  <2>1. cache'[i] = new[i - m] /\ i - m \in DOMAIN new
    BY <1>3, <1>4, <1>5
  <2>2. QED BY <1>2, <2>1 DEF JustAdded
<1>8. m > 0 => 1 \in DOMAIN cache' /\ ~ TimedOut(cache'[1])
  <2> SUFFICES ASSUME m > 0 PROVE 1 \in DOMAIN cache' /\ ~ TimedOut(cache'[1])
    OBVIOUS
  <2>1. 1 \in DOMAIN cache' /\ cache'[1] = popped[1]
    BY <1>3, <1>4, <1>5
  <2>2. QED BY <1>1, <2>1
<1>9. now' = now
  BY DEF DialCampaign
<1>10. DOMAIN cache' \subseteq Nat
  BY <1>3, <1>5
<1>11. QED BY <1>3, <1>6, <1>7, <1>8, <1>9, <1>10

\* Readings of the clock of which Difference and the others speak.
LEMMA CacheTimes ==
  ASSUME TypeOK
  PROVE  /\ ClockMod \in Nat \ {0} /\ now \in 0 .. ClockMod - 1
         /\ DOMAIN cache \subseteq Nat
         /\ \A i \in DOMAIN cache :
              /\ cache[i].time \in 0 .. ClockMod - 1 /\ cache[i].campaign \in Campaigns
              /\ Age(cache[i]) \in Nat
<1>1. /\ Len(cache) \in Nat /\ DOMAIN cache = 1 .. Len(cache)
      /\ \A i \in DOMAIN cache : cache[i] \in Calls
  BY LenProperties, ElementOfSeq DEF TypeOK
<1>2. ClockMod \in Nat \ {0} /\ now \in 0 .. ClockMod - 1
  BY ClockFacts DEF TypeOK, Clock
<1>3. \A i \in DOMAIN cache : cache[i].time \in 0 .. ClockMod - 1 /\ cache[i].campaign \in Campaigns
  BY <1>1 DEF Calls, Clock
<1>4. \A i \in DOMAIN cache : Age(cache[i]) \in Nat
  <2> SUFFICES ASSUME NEW i \in DOMAIN cache PROVE (now - cache[i].time) % ClockMod \in Nat
    BY DEF Age
  <2>1. cache[i].time \in 0 .. ClockMod - 1
    BY <1>3
  <2>2. (now - cache[i].time) % ClockMod =
          IF now >= cache[i].time THEN now - cache[i].time ELSE now - cache[i].time + ClockMod
    BY <1>2, <2>1, Difference
  <2>3. QED BY <1>2, <2>1, <2>2
<1>5. QED BY <1>1, <1>2, <1>3, <1>4

\* A call put in now has no age.
LEMMA NewAge == ASSUME TypeOK PROVE (now - now) % ClockMod = 0
  BY CacheTimes, Difference

\* Every step keeps the order.
LEMMA StepOrdered ==
  ASSUME TypeOK, TypeOK', Ordered, [Next]_vars
  PROVE  Ordered'
<1>t. cache \in Seq(Calls)
  BY DEF TypeOK
<1>1. CASE UNCHANGED <<now, cache>>
  BY <1>1 DEF Ordered, OldestFirst, TimeoutsKept, Age
<1>2. CASE Tick
  <2>1. cache' = cache /\ now' = (now + 1) % ClockMod
    BY <1>2 DEF Tick
  <2>2. ASSUME NEW i \in DOMAIN cache PROVE Age(cache[i])' = Age(cache[i]) + 1
    <3>1. Age(cache[i]) < ClockMod - 1
      BY <1>2 DEF Tick
    <3>2. (((now + 1) % ClockMod) - cache[i].time) % ClockMod = ((now - cache[i].time) % ClockMod) + 1
      BY <3>1, CacheTimes, TickAges DEF Age
    <3>3. QED BY <2>1, <3>2 DEF Age
  <2>3. OldestFirst'
    <3> SUFFICES ASSUME NEW i \in DOMAIN cache, NEW j \in DOMAIN cache, i < j
                 PROVE  Age(cache[i])' >= Age(cache[j])'
      BY <2>1 DEF OldestFirst
    <3>1. Age(cache[i]) >= Age(cache[j]) /\ Age(cache[i]) \in Nat /\ Age(cache[j]) \in Nat
      BY CacheTimes DEF Ordered, OldestFirst
    <3>2. Age(cache[i])' = Age(cache[i]) + 1 /\ Age(cache[j])' = Age(cache[j]) + 1
      BY <2>2
    <3>3. QED BY <3>1, <3>2
  <2>4. QED BY <2>1, <2>3 DEF Ordered, TimeoutsKept
<1>3. CASE Restart
  <2>1. DOMAIN cache' = {}
    <3>1. cache' = <<>> /\ <<>> \in Seq(Calls) /\ Len(<<>>) = 0
      BY <1>3, EmptySeq DEF Restart
    <3>2. DOMAIN <<>> = 1 .. 0
      BY <3>1, LenProperties
    <3>3. QED BY <3>1, <3>2
  <2>2. QED BY <2>1 DEF Ordered, OldestFirst, TimeoutsKept
<1>4. CASE CallAll
  BY <1>4, <1>t, CallAllSame, SameOrdered DEF CallAll
<1>5. ASSUME NEW c \in Campaigns, NEW id \in Leads, Answered(c, id) PROVE Ordered'
  BY <1>5, <1>t, SetAnsweredSame, SameOrdered DEF Answered
<1>6. ASSUME NEW c \in Campaigns, DialCampaign(c) PROVE Ordered'
  <2>1. PICK d \in Nat, m \in Nat :
          /\ now' = now
          /\ DOMAIN cache' \subseteq Nat
          /\ \A i \in DOMAIN cache' : i <= m => i + d \in DOMAIN cache /\ cache'[i] = cache[i + d]
          /\ \A i \in DOMAIN cache' :
               i > m => /\ cache'[i].time = now /\ cache'[i].campaign = c
                        /\ cache'[i].timeout = Settings[c].timeout
    BY <1>6, DialKeeps
  <2>2. \A i \in DOMAIN cache' :
          cache'[i].timeout = Settings[cache'[i].campaign].timeout
    <3> SUFFICES ASSUME NEW i \in DOMAIN cache'
                 PROVE  cache'[i].timeout = Settings[cache'[i].campaign].timeout
      OBVIOUS
    <3>1. CASE i <= m
      BY <2>1, <3>1 DEF Ordered, TimeoutsKept
    <3>2. CASE i > m
      BY <2>1, <3>2
    <3>3. QED BY <2>1, <3>1, <3>2
  <2>3. ASSUME NEW i \in DOMAIN cache', NEW j \in DOMAIN cache', i < j
        PROVE  (now - cache'[i].time) % ClockMod >= (now - cache'[j].time) % ClockMod
    <3>0. i \in Nat /\ j \in Nat
      BY <2>1
    <3>1. CASE j <= m
      <4>1. /\ i + d \in DOMAIN cache /\ cache'[i] = cache[i + d]
            /\ j + d \in DOMAIN cache /\ cache'[j] = cache[j + d]
            /\ i + d < j + d
        BY <2>1, <2>3, <3>0, <3>1
      <4>2. QED BY <4>1 DEF Ordered, OldestFirst, Age
    <3>2. CASE j > m
      <4>1. (now - cache'[j].time) % ClockMod = 0
        BY <2>1, <3>2, NewAge
      <4>2. cache'[i] \in Calls
        BY LenProperties, ElementOfSeq DEF TypeOK
      <4>3. cache'[i].time \in 0 .. ClockMod - 1
        BY <4>2 DEF Calls, Clock
      <4>4. (now - cache'[i].time) % ClockMod \in Nat
        BY <4>3, CacheTimes, Difference
      <4>5. QED BY <4>1, <4>4
    <3>3. QED BY <3>0, <3>1, <3>2
  <2>4. OldestFirst'
    BY <2>1, <2>3 DEF OldestFirst, Age
  <2>5. QED BY <2>2, <2>4 DEF Ordered, TimeoutsKept
<1>7. QED BY <1>1, <1>2, <1>3, <1>4, <1>5, <1>6
  DEF Next, Begin, EndEvents, Abandon, vars

\* The deque is in the order of its calls' age, for any clock and any timeouts.
LEMMA OrderedInvariant == Spec => []Ordered
<1>1. Init => Ordered
  <2> SUFFICES ASSUME Init PROVE Ordered
    OBVIOUS
  <2>1. cache = <<>> /\ <<>> \in Seq(Calls) /\ Len(<<>>) = 0
    BY EmptySeq DEF Init
  <2>2. DOMAIN <<>> = 1 .. 0
    BY <2>1, LenProperties
  <2>3. DOMAIN cache = {}
    BY <2>1, <2>2
  <2>4. QED BY <2>3 DEF Ordered, OldestFirst, TimeoutsKept
<1>2. TypeOK /\ TypeOK' /\ Ordered /\ [Next]_vars => Ordered'
  BY StepOrdered
<1>3. QED BY <1>1, <1>2, DialingTypeCorrect, PTL DEF Spec

\* So the front of the deque is its oldest call, also while the clock turns over.
THEOREM DequeIsOldestFirst == Spec => []OldestFirst
<1>1. Ordered => OldestFirst
  BY DEF Ordered
<1>2. QED BY <1>1, OrderedInvariant, PTL

\* A call that has not timed out, by the unsigned subtraction of the code, is
\* no older than its timeout: one of before the turn of the clock times out.
LEMMA YoungCall ==
  ASSUME TypeOK, Ordered, NEW i \in DOMAIN cache, ~ TimedOut(cache[i])
  PROVE  /\ Age(cache[i]) <= Settings[cache[i].campaign].timeout
         /\ cache[i].time <= now
<1> DEFINE t == cache[i].time
           limit == Settings[cache[i].campaign].timeout
<1>1. /\ ClockMod \in Nat \ {0} /\ now \in 0 .. ClockMod - 1 /\ t \in 0 .. ClockMod - 1
      /\ cache[i].campaign \in Campaigns
  BY CacheTimes
<1>2. limit \in Nat /\ Word \in Nat /\ ClockMod + limit < Word
  BY <1>1, SettingsAssumption, DialClockAssumption
<1>3. ~ ((now - t) % Word > limit)
  BY DEF TimedOut, Minus, Ordered, TimeoutsKept
<1> HIDE DEF t, limit
<1>4. -Word <= now - t /\ now - t < Word /\ now - t \in Int
  BY <1>1, <1>2
<1>5. (now - t) % Word = IF now - t >= 0 THEN now - t ELSE now - t + Word
  BY <1>2, <1>4, Unsigned
<1>6. now >= t /\ now - t <= limit
  BY <1>1, <1>2, <1>3, <1>5
<1>7. (now - t) % ClockMod = now - t
  BY <1>1, <1>6, Difference
<1>8. (now - t) % ClockMod <= limit
  BY <1>6, <1>7
<1>9. QED BY <1>1, <1>6, <1>8 DEF Age, t, limit

\* No call that has outlived the longest timeout is left after a campaign's
\* turn, though LinesDialing looks at the front of the deque only.
THEOREM NoGhostsLeft == Spec => NoGhosts
<1> DEFINE Young(i) ==
      \E c \in Campaigns : (now - cache'[i].time) % ClockMod <= Settings[c].timeout
<1>1. ASSUME TypeOK, TypeOK', Ordered, Ordered', [Next]_vars, turn > 0, turn' = turn + 1
      PROVE  \A i \in DOMAIN cache' : Young(i)
  <2>0. turn \in Nat /\ turn' # turn /\ turn' # 0
    BY <1>1, ClockFacts DEF TypeOK
  <2>1. PICK c \in Campaigns : DialCampaign(c)
    BY <1>1, <2>0 DEF Next, Tick, Begin, EndEvents, CallAll, Restart, Abandon, Answered, vars
  <2>2. PICK d \in Nat, m \in Nat :
          /\ now' = now
          /\ DOMAIN cache' \subseteq Nat
          /\ \A i \in DOMAIN cache' : i <= m => i + d \in DOMAIN cache /\ cache'[i] = cache[i + d]
          /\ \A i \in DOMAIN cache' :
               i > m => /\ cache'[i].time = now /\ cache'[i].campaign = c
                        /\ cache'[i].timeout = Settings[c].timeout
          /\ m > 0 => 1 \in DOMAIN cache' /\ ~ TimedOut(cache'[1])
    BY <1>1, <2>1, DialKeeps
  <2>3. ASSUME NEW i \in DOMAIN cache', i > m PROVE Young(i)
    <3>1. (now - cache'[i].time) % ClockMod = 0
      BY <1>1, <2>2, <2>3, NewAge
    <3>2. 0 <= Settings[c].timeout
      BY SettingsAssumption
    <3>3. QED BY <3>1, <3>2
  <2>4. ASSUME NEW i \in DOMAIN cache', i <= m PROVE Young(i)
    <3>1. i \in Nat /\ i + d \in DOMAIN cache /\ cache'[i] = cache[i + d]
      BY <2>2, <2>4
    <3>2. i \in DOMAIN cache' /\ i # 0
      <4>1. cache' \in Seq(Calls)
        BY <1>1 DEF TypeOK
      <4>2. QED BY <2>4, <4>1, LenProperties
    <3>3. m > 0 /\ 1 <= m
      BY <2>4, <3>1, <3>2
    <3>4. /\ 1 \in DOMAIN cache' /\ ~ TimedOut(cache'[1])
          /\ 1 + d \in DOMAIN cache /\ cache'[1] = cache[1 + d]
      BY <2>2, <3>3
    <3>5. Age(cache[1 + d]) <= Settings[cache[1 + d].campaign].timeout
      BY <1>1, <3>4, YoungCall
    <3>6. Age(cache[i + d]) <= Age(cache[1 + d])
      <4>1. CASE i = 1
        BY <1>1, <3>4, <4>1, CacheTimes
      <4>2. CASE i # 1
        <5>1. 1 + d < i + d
          BY <3>1, <3>2, <4>2
        <5>2. Age(cache[1 + d]) >= Age(cache[i + d])
          BY <1>1, <3>1, <3>4, <5>1 DEF Ordered, OldestFirst
        <5>3. QED BY <1>1, <3>1, <3>4, <5>2, CacheTimes
      <4>3. QED BY <4>1, <4>2
    <3>7. /\ cache[1 + d].campaign \in Campaigns
          /\ Settings[cache[1 + d].campaign].timeout \in Nat
          /\ Age(cache[i + d]) \in Nat /\ Age(cache[1 + d]) \in Nat
      BY <1>1, <3>1, <3>4, CacheTimes, SettingsAssumption
    <3>8. Age(cache[i + d]) <= Settings[cache[1 + d].campaign].timeout
      BY <3>5, <3>6, <3>7
    <3>9. QED BY <3>1, <3>7, <3>8 DEF Age
  <2>5. QED BY <2>2, <2>3, <2>4
<1>2. TypeOK /\ TypeOK' /\ Ordered /\ Ordered' /\ [Next]_vars
        => [turn > 0 /\ turn' = turn + 1 => \A i \in DOMAIN cache' : Young(i)]_vars
  BY <1>1
<1>3. QED BY <1>2, DialingTypeCorrect, OrderedInvariant, PTL DEF Spec, NoGhosts
-------------------------------------------------------------------------------
(* The calls that are out *)

\* A call that leaves before its time was put in the cache before the clock
\* turned over: any other that has timed out by the unsigned subtraction is old.
LEMMA StrayedBeforeTurn ==
  ASSUME TypeOK, Ordered, NEW s \in Strayed(cache)
  PROVE  /\ \E i \in DOMAIN cache : i = s.place /\ s.call = cache[i] /\ ~ cache[i].answered
         /\ s.call.time > now /\ Age(s.call) <= s.call.timeout
<1>1. /\ cache \in Seq(Calls) /\ Len(cache) \in Nat /\ DOMAIN cache = 1 .. Len(cache)
  BY LenProperties DEF TypeOK
<1>2. PICK d \in 0 .. Len(cache) :
        /\ Len(PopTimedOut(cache)) = Len(cache) - d
        /\ \A i \in 1 .. d : TimedOut(cache[i])
  BY <1>1, PopSuffix
<1>3. PICK i \in 1 .. Len(cache) - Len(PopTimedOut(cache)) :
        /\ s = [place |-> i, call |-> cache[i]]
        /\ ~ cache[i].answered /\ Age(cache[i]) <= cache[i].timeout
  BY DEF Strayed
<1>4. i \in 1 .. d /\ i \in DOMAIN cache
  BY <1>1, <1>2, <1>3
<1> DEFINE t == cache[i].time
           limit == cache[i].timeout
<1>5. /\ ClockMod \in Nat \ {0} /\ now \in 0 .. ClockMod - 1 /\ t \in 0 .. ClockMod - 1
      /\ cache[i].campaign \in Campaigns /\ limit = Settings[cache[i].campaign].timeout
  BY <1>4, CacheTimes DEF Ordered, TimeoutsKept
<1>6. limit \in Nat /\ Word \in Nat /\ ClockMod + limit < Word
  BY <1>5, SettingsAssumption, DialClockAssumption
<1>7. (now - t) % Word > limit /\ (now - t) % ClockMod <= limit
  BY <1>2, <1>3, <1>4 DEF TimedOut, Minus, Age
<1> HIDE DEF t, limit
<1>8. t > now
  <2> SUFFICES ASSUME t <= now PROVE FALSE
    BY <1>5
  <2>1. (now - t) % ClockMod = now - t
    BY <1>5, Difference
  <2>2. -Word <= now - t /\ now - t < Word /\ now - t \in Int /\ now - t >= 0
    BY <1>5, <1>6
  <2>3. (now - t) % Word = now - t
    BY <1>6, <2>2, Unsigned
  <2>4. QED BY <1>5, <1>6, <1>7, <2>1, <2>3
<1>9. QED BY <1>3, <1>4, <1>8 DEF t

\* After a campaign's turn no call of before the turn of the clock is left: the
\* first call is not timed out, and those behind it are no older.
LEMMA DialLeavesNew ==
  ASSUME TypeOK, TypeOK', Ordered, NEW c \in Campaigns, DialCampaign(c)
  PROVE  now' = now /\ \A i \in DOMAIN cache' : cache'[i].time <= now
<1>1. PICK d \in Nat, m \in Nat :
        /\ now' = now
        /\ DOMAIN cache' \subseteq Nat
        /\ \A i \in DOMAIN cache' : i <= m => i + d \in DOMAIN cache /\ cache'[i] = cache[i + d]
        /\ \A i \in DOMAIN cache' : i > m => cache'[i].time = now
        /\ m > 0 => 1 \in DOMAIN cache' /\ ~ TimedOut(cache'[1])
  BY DialKeeps
<1>n. ClockMod \in Nat \ {0} /\ now \in 0 .. ClockMod - 1
  BY CacheTimes
<1>2. ASSUME NEW i \in DOMAIN cache' PROVE cache'[i].time <= now
  <2>0. i \in Nat /\ i # 0
    BY LenProperties DEF TypeOK
  <2>1. CASE i > m
    BY <1>1, <1>n, <2>1
  <2>2. CASE i <= m
    <3>1. m > 0 /\ 1 <= m
      BY <1>1, <2>0, <2>2
    <3>2. /\ i + d \in DOMAIN cache /\ cache'[i] = cache[i + d]
          /\ 1 + d \in DOMAIN cache /\ cache'[1] = cache[1 + d] /\ ~ TimedOut(cache[1 + d])
      BY <1>1, <2>2, <3>1
    <3> DEFINE t == cache[i + d].time
               u == cache[1 + d].time
    <3>3. t \in 0 .. ClockMod - 1 /\ u \in 0 .. ClockMod - 1
      BY <3>2, CacheTimes
    <3>4. u <= now
      BY <3>2, YoungCall
    <3>5. (now - t) % ClockMod <= (now - u) % ClockMod
      <4>1. CASE i = 1
        <5>1. (now - t) % ClockMod \in Nat
          BY <3>2, CacheTimes DEF Age
        <5>2. QED BY <4>1, <5>1
      <4>2. CASE i # 1
        <5>1. 1 + d < i + d
          BY <2>0, <4>2
        <5>2. Age(cache[1 + d]) >= Age(cache[i + d])
          BY <3>2, <5>1 DEF Ordered, OldestFirst
        <5>3. Age(cache[1 + d]) \in Nat /\ Age(cache[i + d]) \in Nat
          BY <3>2, CacheTimes
        <5>4. QED BY <5>2, <5>3 DEF Age
      <4>3. QED BY <4>1, <4>2
    <3> HIDE DEF t, u
    <3>6. /\ (now - u) % ClockMod = now - u
          /\ (now - t) % ClockMod = IF now >= t THEN now - t ELSE now - t + ClockMod
      BY <1>n, <3>3, <3>4, Difference
    <3>7. t <= now
      BY <1>n, <3>3, <3>4, <3>5, <3>6
    <3>8. QED BY <3>2, <3>7 DEF t
  <2>3. QED BY <1>1, <2>0, <2>1, <2>2
<1>3. QED BY <1>1, <1>2

\* The calls forgotten in a turn are as many as their places at most.
LEMMA StrayedFinite == ASSUME TypeOK, Ordered PROVE IsFiniteSet(Strayed(cache))
<1> DEFINE S == Strayed(cache)
           T == 1 .. Len(cache)
           f == [s \in S |-> s.place]
<1>1. Len(cache) \in Nat /\ DOMAIN cache = T
  BY LenProperties DEF TypeOK
<1>2. \A s \in S : s.place \in T
  BY <1>1, StrayedBeforeTurn
<1>3. \A s, r \in S : s.place = r.place => s = r
  BY DEF Strayed
<1>4. IsFiniteSet(T)
  BY <1>1, FS_Interval
<1> HIDE DEF S, T
<1>5. f \in Injection(S, T)
  BY <1>2, <1>3 DEF Injection, IsInjective
<1>6. QED BY <1>4, <1>5, FS_Injection DEF S

\* The calls forgotten are of before the turn of the clock, still in their time;
\* and while any of them is out, no call of before the turn is in the cache.
BeforeTurn ==
  /\ IsFiniteSet(strays)
  /\ \A s \in strays : /\ s.call.time > now /\ Age(s.call) <= s.call.timeout
                       /\ s.call.timeout = Settings[s.call.campaign].timeout
  /\ strays # {} => \A i \in DOMAIN cache : cache[i].time <= now

\* A second later: what is still in its time was not dialed in the second that
\* comes, since no timeout is as long as a turn of the clock.
LEMMA TickBeforeTurn == ASSUME TypeOK, BeforeTurn, Tick PROVE BeforeTurn'
<1>1. /\ cache' = cache /\ now' = (now + 1) % ClockMod
      /\ strays' = {s \in strays : Age(s.call) < s.call.timeout}
  BY DEF Tick
<1>n. ClockMod \in Nat \ {0} /\ now \in 0 .. ClockMod - 1
  BY CacheTimes
<1>2. ASSUME NEW s \in strays, Age(s.call) < s.call.timeout
      PROVE  /\ now' = now + 1 /\ s.call.time > now'
             /\ (now' - s.call.time) % ClockMod <= s.call.timeout
             /\ s.call.timeout = Settings[s.call.campaign].timeout
  <2> DEFINE t == s.call.time
             limit == s.call.timeout
  <2>1. s.call \in Calls
    BY DEF TypeOK
  <2>2. /\ t \in 0 .. ClockMod - 1 /\ t > now /\ limit \in Nat
        /\ limit = Settings[s.call.campaign].timeout /\ s.call.campaign \in Campaigns
    BY <2>1 DEF Calls, Clock, BeforeTurn
  <2>3. limit + 1 < ClockMod
    BY <2>2, DialClockAssumption
  <2>4. (now - t) % ClockMod < limit
    BY <1>2 DEF Age
  <2> HIDE DEF t, limit
  <2>5. (now - t) % ClockMod = now - t + ClockMod
    BY <1>n, <2>2, Difference
  <2>6. t > now + 1 /\ now + 1 <= ClockMod - 1
    BY <1>n, <2>2, <2>3, <2>4, <2>5
  <2>7. now' = now + 1
    BY <1>1, <1>n, <2>6, Successor
  <2>8. (now - t) % ClockMod < ClockMod - 1
    BY <1>n, <2>2, <2>3, <2>4, <2>5
  <2>9. (((now + 1) % ClockMod) - t) % ClockMod = ((now - t) % ClockMod) + 1
    BY <1>n, <2>2, <2>8, TickAges
  <2>10. (now' - t) % ClockMod <= limit
    BY <1>1, <1>n, <2>2, <2>4, <2>5, <2>9
  <2>11. QED BY <2>2, <2>6, <2>7, <2>10 DEF t, limit
<1>3. ASSUME strays' # {}, NEW i \in DOMAIN cache PROVE cache[i].time <= now'
  <2>1. PICK s \in strays : Age(s.call) < s.call.timeout
    BY <1>1, <1>3
  <2>2. now' = now + 1 /\ strays # {}
    BY <1>2, <2>1
  <2>3. cache[i].time <= now /\ cache[i].time \in Int
    BY <2>2, CacheTimes DEF BeforeTurn
  <2>4. QED BY <1>n, <2>2, <2>3
<1>4. IsFiniteSet(strays')
  BY <1>1, FS_Subset DEF BeforeTurn
<1>5. QED BY <1>1, <1>2, <1>3, <1>4 DEF BeforeTurn, Age

\* Every step keeps it.
LEMMA StepBeforeTurn ==
  ASSUME TypeOK, TypeOK', Ordered, BeforeTurn, [Next]_vars
  PROVE  BeforeTurn'
<1>1. CASE UNCHANGED <<now, cache, strays>>
  BY <1>1 DEF BeforeTurn, Age
<1>2. CASE Tick
  BY <1>2, TickBeforeTurn
<1>3. CASE Restart
  BY <1>3, FS_EmptySet DEF Restart, BeforeTurn
<1>4. ASSUME now' = now, strays' \subseteq strays, SameCalls(cache, cache')
      PROVE  BeforeTurn'
  <2>1. IsFiniteSet(strays')
    BY <1>4, FS_Subset DEF BeforeTurn
  <2>2. QED BY <1>4, <2>1 DEF BeforeTurn, SameCalls, Age
<1>5. CASE CallAll
  BY <1>4, <1>5, CallAllSame DEF CallAll, TypeOK
<1>6. ASSUME NEW c \in Campaigns, NEW id \in Leads, Answered(c, id) PROVE BeforeTurn'
  BY <1>4, <1>6, SetAnsweredSame DEF Answered, TypeOK
<1>7. ASSUME NEW c \in Campaigns, DialCampaign(c) PROVE BeforeTurn'
  <2>1. now' = now /\ \A i \in DOMAIN cache' : cache'[i].time <= now
    BY <1>7, DialLeavesNew
  <2>2. strays' = strays \cup Strayed(cache)
    BY <1>7 DEF DialCampaign
  <2>3. \A s \in Strayed(cache) :
          /\ s.call.time > now /\ Age(s.call) <= s.call.timeout
          /\ s.call.timeout = Settings[s.call.campaign].timeout
    BY StrayedBeforeTurn DEF Ordered, TimeoutsKept
  <2>4. IsFiniteSet(strays')
    BY <2>2, StrayedFinite, FS_Union DEF BeforeTurn
  <2>5. QED BY <2>1, <2>2, <2>3, <2>4 DEF BeforeTurn, Age
<1>8. QED BY <1>1, <1>2, <1>3, <1>5, <1>6, <1>7
  DEF Next, Begin, EndEvents, Abandon, vars

\* A call leaves the daemon's count before its time only because the clock turned
\* over: the timeouts, answers and turns of other campaigns take no call that
\* still rings.
LEMMA BeforeTurnInvariant == Spec => []BeforeTurn
<1>1. Init => BeforeTurn
  BY FS_EmptySet DEF Init, BeforeTurn
<1>2. TypeOK /\ TypeOK' /\ Ordered /\ BeforeTurn /\ [Next]_vars => BeforeTurn'
  BY StepBeforeTurn
<1>3. QED BY <1>1, <1>2, DialingTypeCorrect, OrderedInvariant, PTL DEF Spec

\* What mode "auto" keeps of its two counts: the daemon's own, and that of the
\* calls forgotten, which were all in the cache together when they were.
AutoCounts ==
  \A c \in MainOnly :
    Settings[c].function = "auto" =>
      /\ Lines(cache, c) <= Settings[c].maxlines
      /\ IsFiniteSet(Strays(c)) /\ Cardinality(Strays(c)) <= Settings[c].maxlines

\* The calls of a campaign that are forgotten in one turn were counted before.
LEMMA StrayedCounted ==
  ASSUME TypeOK, Ordered, NEW c
  PROVE  LET S == {s \in Strayed(cache) : s.call.campaign = c} IN
         IsFiniteSet(S) /\ Cardinality(S) <= Lines(cache, c)
<1> DEFINE S == {s \in Strayed(cache) : s.call.campaign = c}
           T == Busy(cache, c)
           f == [s \in S |-> s.place]
<1>1. \A s \in S : s.place \in T
  BY StrayedBeforeTurn DEF Busy
<1>2. \A s, r \in S : s.place = r.place => s = r
  BY DEF Strayed
<1>3. f \in Injection(S, T)
  <2>1. f \in [S -> T]
    BY <1>1
  <2>2. \A s, r \in S : f[s] = f[r] => s = r
    BY <1>2
  <2>3. QED BY <2>1, <2>2 DEF Injection, IsInjective
<1>4. IsFiniteSet(T) /\ Lines(cache, c) = Cardinality(T)
  BY LinesNat DEF TypeOK
<1> HIDE DEF S, T, f
<1>5. IsFiniteSet(S) /\ Cardinality(S) <= Cardinality(T)
  BY <1>3, <1>4, FS_Injection
<1>6. QED BY <1>4, <1>5 DEF S

\* A campaign's turn either finds calls forgotten, and forgets no other, or
\* leaves no more than it forgets itself.
LEMMA DialStrays ==
  ASSUME TypeOK, Ordered, BeforeTurn, NEW d \in Campaigns, DialCampaign(d), NEW c
  PROVE  \/ Strays(c)' = Strays(c)
         \/ Strays(c)' = {s \in Strayed(cache) : s.call.campaign = c}
<1>1. strays' = strays \cup Strayed(cache)
  BY DEF DialCampaign
<1>2. CASE strays = {}
  BY <1>1, <1>2 DEF Strays
<1>3. CASE strays # {}
  <2>1. ASSUME NEW s \in Strayed(cache) PROVE FALSE
    <3>1. PICK i \in DOMAIN cache : s.call = cache[i] /\ cache[i].time > now
      BY StrayedBeforeTurn
    <3>2. cache[i].time <= now /\ cache[i].time \in Int /\ now \in Int
      BY <1>3, CacheTimes DEF BeforeTurn
    <3>3. QED BY <3>1, <3>2
  <2>2. QED BY <1>1, <2>1 DEF Strays
<1>4. QED BY <1>2, <1>3

\* Every step keeps the two counts.
LEMMA StepAutoCounts ==
  ASSUME TypeOK, TypeOK', Ordered, BeforeTurn, AutoCounts, [Next]_vars
  PROVE  AutoCounts'
<1> SUFFICES ASSUME NEW c \in MainOnly, Settings[c].function = "auto"
             PROVE  /\ Lines(cache', c) <= Settings[c].maxlines
                    /\ IsFiniteSet(Strays(c)') /\ Cardinality(Strays(c)') <= Settings[c].maxlines
  BY DEF AutoCounts
<1>1. c \in Campaigns /\ Settings[c].maxlines \in Nat
  BY SettingsAssumption DEF MainOnly
<1>2. /\ Lines(cache, c) <= Settings[c].maxlines
      /\ IsFiniteSet(Strays(c)) /\ Cardinality(Strays(c)) <= Settings[c].maxlines
  BY DEF AutoCounts
<1>3. Lines(cache, c) \in Nat /\ Lines(cache', c) \in Nat
  BY LinesNat DEF TypeOK
<1>4. Lines(cache', c) <= Settings[c].maxlines
  <2>1. CASE ~ DialCampaign(c)
    <3>1. Lines(cache', c) <= Lines(cache, c)
      BY <1>1, <2>1, OthersAddNone
    <3>2. QED BY <1>1, <1>2, <1>3, <3>1
  <2>2. CASE DialCampaign(c)
    <3> DEFINE calls == PopTimedOut(cache)
    <3>1. /\ Lines(calls, c) \in Nat
          /\ Lines(calls, c) <= Lines(cache, c)
          /\ linestodial(c, calls) \in Nat
          /\ Lines(cache', c) <= Lines(calls, c) + linestodial(c, calls)
      BY <2>2, OwnTurnAdds
    <3> HIDE DEF calls
    <3>2. linestodial(c, calls) = auto(Lines(calls, c), Settings[c].maxlines)
      BY DEF linestodial, evaluate
    <3>3. Lines(calls, c) + linestodial(c, calls) <= greaterOf(Lines(calls, c), Settings[c].maxlines)
      BY <1>1, <3>1, <3>2, AutoBound
    <3>4. greaterOf(Lines(calls, c), Settings[c].maxlines) <= Settings[c].maxlines
      BY <1>1, <1>2, <1>3, <3>1 DEF greaterOf
    <3>5. greaterOf(Lines(calls, c), Settings[c].maxlines) \in Nat
      BY <1>1, <3>1 DEF greaterOf
    <3>6. QED BY <1>1, <1>3, <3>1, <3>3, <3>4, <3>5
  <2>3. QED BY <2>1, <2>2
<1>5. IsFiniteSet(Strays(c)') /\ Cardinality(Strays(c)') <= Settings[c].maxlines
  <2>1. CASE \E d \in Campaigns : DialCampaign(d)
    <3>1. CASE Strays(c)' = Strays(c)
      BY <1>2, <3>1
    <3>2. CASE Strays(c)' = {s \in Strayed(cache) : s.call.campaign = c}
      <4>1. IsFiniteSet(Strays(c)') /\ Cardinality(Strays(c)') <= Lines(cache, c)
        BY <3>2, StrayedCounted
      <4>2. Cardinality(Strays(c)') \in Nat
        BY <4>1, FS_CardinalityType
      <4>3. QED BY <1>1, <1>2, <1>3, <4>1, <4>2
    <3>3. QED BY <2>1, <3>1, <3>2, DialStrays
  <2>2. CASE ~ \E d \in Campaigns : DialCampaign(d)
    <3>1. strays' \subseteq strays
      BY <2>2 DEF Next, Tick, Begin, EndEvents, CallAll, Restart, Abandon, Answered, vars
    <3>2. Strays(c)' \in SUBSET Strays(c)
      BY <3>1 DEF Strays
    <3>3. IsFiniteSet(Strays(c)') /\ Cardinality(Strays(c)') <= Cardinality(Strays(c))
      BY <1>2, <3>2, FS_Subset
    <3>4. Cardinality(Strays(c)') \in Nat /\ Cardinality(Strays(c)) \in Nat
      BY <1>2, <3>3, FS_CardinalityType
    <3>5. QED BY <1>1, <1>2, <3>3, <3>4
  <2>3. QED BY <2>1, <2>2
<1>6. QED BY <1>4, <1>5

\* No call forgotten, or the clock turned over since it was dialed.
LEMMA NoStraysOrTurned ==
  ASSUME BeforeTurn, NEW c, Strays(c) # {}
  PROVE  TurnedOver(c)
  BY DEF BeforeTurn, Strays, TurnedOver

\* Mode "auto" keeps the calls that are out, those included that the daemon has
\* forgotten, within maxlines, through answers, timeouts, the other campaigns'
\* turns and the order of the deque; only while calls of before a turn of the
\* clock ring on there may be more, and never more than twice maxlines.
THEOREM AutoKeepsMaxLines == Spec => []AutoWithinMaxLines
<1>1. Init => AutoCounts
  <2> SUFFICES ASSUME Init, NEW c \in MainOnly
               PROVE  /\ Lines(cache, c) <= Settings[c].maxlines
                      /\ IsFiniteSet(Strays(c)) /\ Cardinality(Strays(c)) <= Settings[c].maxlines
    BY DEF AutoCounts
  <2>1. cache = <<>> /\ Lines(<<>>, c) = 0
    BY EmptyIdle DEF Init
  <2>2. Strays(c) = {}
    BY DEF Init, Strays
  <2>3. Settings[c].maxlines \in Nat
    BY SettingsAssumption DEF MainOnly
  <2>4. QED BY <2>1, <2>2, <2>3, FS_EmptySet
<1>2. TypeOK /\ TypeOK' /\ Ordered /\ BeforeTurn /\ AutoCounts /\ [Next]_vars => AutoCounts'
  BY StepAutoCounts
<1>3. TypeOK /\ BeforeTurn /\ AutoCounts => AutoWithinMaxLines
  <2> SUFFICES ASSUME TypeOK, BeforeTurn, AutoCounts, NEW c \in MainOnly,
                      Settings[c].function = "auto"
               PROVE  /\ Out(c) <= Settings[c].maxlines \/ TurnedOver(c)
                      /\ Out(c) <= 2 * Settings[c].maxlines
    BY DEF AutoWithinMaxLines
  <2>1. /\ Lines(cache, c) <= Settings[c].maxlines /\ IsFiniteSet(Strays(c))
        /\ Cardinality(Strays(c)) <= Settings[c].maxlines
    BY DEF AutoCounts
  <2>2. /\ Lines(cache, c) \in Nat /\ Cardinality(Strays(c)) \in Nat
        /\ Settings[c].maxlines \in Nat
    BY <2>1, LinesNat, FS_CardinalityType, SettingsAssumption DEF TypeOK, MainOnly
  <2>3. Out(c) <= 2 * Settings[c].maxlines
    BY <2>1, <2>2 DEF Out
  <2>4. CASE Strays(c) = {}
    <3>1. Cardinality(Strays(c)) = 0
      BY <2>4, FS_EmptySet
    <3>2. QED BY <2>1, <2>2, <2>3, <3>1 DEF Out
  <2>5. CASE Strays(c) # {}
    BY <2>3, <2>5, NoStraysOrTurned
  <2>6. QED BY <2>4, <2>5
<1>4. QED
  BY <1>1, <1>2, <1>3, DialingTypeCorrect, OrderedInvariant, BeforeTurnInvariant, PTL DEF Spec

\* The calls out are counted by numbers, and forgotten ones only by a campaign's turn.
LEMMA OutNat ==
  ASSUME TypeOK, BeforeTurn, NEW c
  PROVE  /\ IsFiniteSet(Strays(c)) /\ Cardinality(Strays(c)) \in Nat
         /\ Lines(cache, c) \in Nat
<1>1. Strays(c) \in SUBSET strays
  BY DEF Strays
<1>2. IsFiniteSet(Strays(c))
  BY <1>1, FS_Subset DEF BeforeTurn
<1>3. QED BY <1>2, FS_CardinalityType, LinesNat DEF TypeOK

\* Pacing by agents: a turn that takes the calls out of a campaign up keeps them
\* within the ratio, or one for each available agent, counting those the daemon
\* forgot, unless such a call is of before a turn of the clock.
THEOREM PacingKeepsRatio == Spec => RatioKept
<1> DEFINE Bound(c) == greaterOf(avail, (Settings[c].maxratio * avail) \div Scale)
<1>1. ASSUME TypeOK, TypeOK', [Next]_vars,
             NEW c \in MainOnly, Settings[c].function \in {"power", "predictive"},
             Lines(cache', c) > Lines(cache, c)
      PROVE  Lines(cache', c) <= Bound(c)
  <2> DEFINE calls == PopTimedOut(cache)
             s == Settings[c]
             r == (s.maxratio * avail) \div Scale
             n == linestodial(c, calls)
  <2>1. c \in Campaigns /\ s.maxlines \in Nat /\ s.maxratio \in Nat /\ s.maxabandons \in Nat
    BY SettingsAssumption DEF MainOnly
  <2>2. Lines(cache, c) \in Nat /\ Lines(cache', c) \in Nat
    BY <1>1, LinesNat DEF TypeOK
  <2>3. DialCampaign(c)
    BY <1>1, <2>1, <2>2, OthersAddNone
  <2>4. /\ calls \in Seq(Calls) /\ Lines(calls, c) \in Nat
        /\ Lines(calls, c) <= Lines(cache, c)
        /\ n \in Nat
        /\ Lines(cache', c) <= Lines(calls, c) + n
    BY <1>1, <2>3, OwnTurnAdds
  <2>5. avail \in Nat /\ helper[c].calls \in Nat /\ helper[c].abandons \in Nat
    BY <1>1, <2>1, <2>4, LinesToDialNat
  <2>6. r \in Int
    BY <2>1, <2>5, Quotient
  <2>7. Lines(calls, c) + n <= greaterOf(avail, r)
    <3>1. CASE s.function = "power"
      <4>1. n = power(s.maxratio, avail, Lines(calls, c))
        BY <3>1 DEF linestodial, evaluate
      <4>2. Lines(calls, c) + n <= greaterOf(Lines(calls, c), r)
        BY <2>1, <2>4, <2>5, <4>1, PowerBound
      <4> HIDE DEF calls, n, r
      <4>3. n > 0
        BY <1>1, <2>2, <2>4
      <4>4. QED BY <2>4, <2>5, <2>6, <4>2, <4>3 DEF greaterOf
    <3>2. CASE s.function = "predictive"
      <4>1. n = predictive(Lines(calls, c), avail, s.maxratio, s.maxlines,
                           s.maxabandons, helper[c].calls, helper[c].abandons)
        BY <3>2 DEF linestodial, evaluate
      <4>2. n > 0 => Lines(calls, c) + n <= greaterOf(avail, r)
        BY <2>1, <2>4, <2>5, <4>1, PredictiveBounds
      <4> HIDE DEF calls, n, r
      <4>3. n > 0
        BY <1>1, <2>2, <2>4
      <4>4. QED BY <4>2, <4>3
    <3>3. QED BY <1>1, <3>1, <3>2
  <2>8. greaterOf(avail, r) \in Int
    BY <2>5, <2>6 DEF greaterOf
  <2> HIDE DEF calls, n, r
  <2>9. Lines(cache', c) <= greaterOf(avail, r)
    BY <2>2, <2>4, <2>7, <2>8
  <2>10. QED BY <2>9 DEF r
<1>2. ASSUME TypeOK, TypeOK', BeforeTurn, BeforeTurn', [Next]_vars, NEW c \in MainOnly,
             Settings[c].function \in {"power", "predictive"}, Out(c)' > Out(c)
      PROVE  Out(c)' <= Bound(c) \/ TurnedOver(c)'
  <2>1. /\ Out(c)' = Lines(cache', c) + Cardinality(Strays(c)')
        /\ Out(c) = Lines(cache, c) + Cardinality(Strays(c))
    BY DEF Out
  <2>2. /\ Lines(cache, c) \in Nat /\ Cardinality(Strays(c)) \in Nat
        /\ Lines(cache', c) \in Nat
    BY <1>2, OutNat, LinesNat DEF TypeOK
  <2>3. CASE Strays(c)' = {}
    <3>1. Cardinality(Strays(c)') = 0
      BY <2>3, FS_EmptySet
    <3>2. Out(c)' = Lines(cache', c)
      BY <2>1, <2>2, <3>1
    <3>3. Lines(cache', c) > Lines(cache, c)
      BY <1>2, <2>1, <2>2, <3>2
    <3>4. Lines(cache', c) <= Bound(c)
      BY <1>1, <1>2, <3>3
    <3>5. QED BY <3>2, <3>4
  <2>4. CASE Strays(c)' # {}
    <3>1. PICK s \in strays' : s.call.campaign = c
      BY <2>4 DEF Strays
    <3>2. s.call.time > now'
      BY <1>2, <3>1 DEF BeforeTurn
    <3>3. QED BY <3>1, <3>2 DEF TurnedOver, Strays
  <2>5. QED BY <2>3, <2>4
<1>3. TypeOK /\ TypeOK' /\ BeforeTurn /\ BeforeTurn' /\ [Next]_vars
        => [\A c \in MainOnly :
              /\ Turn(c) /\ Settings[c].function \in {"power", "predictive"}
              /\ Out(c)' > Out(c)
              => \/ Out(c)' <= greaterOf(avail, (Settings[c].maxratio * avail) \div Scale)
                 \/ TurnedOver(c)']_vars
  BY <1>2
<1>4. QED BY <1>3, DialingTypeCorrect, BeforeTurnInvariant, PTL DEF Spec, RatioKept
-------------------------------------------------------------------------------
(* Calls asked for *)

\* The calls of the cache are of the ids given out; no two are of one.
QueueInv ==
  /\ added \in 0 .. MaxPlaced
  /\ deque \in Seq([id : Ids, called : BOOLEAN])
  /\ \A i \in DOMAIN deque : deque[i].id <= added
  /\ \A i, j \in DOMAIN deque : deque[i].id = deque[j].id => i = j

\* Nobody has been told of a call.
Unasked(id) == asked[id] = 0 /\ \A c \in children : c.call # id

\* A call is with one child, or was asked for once, or neither; it is with nobody
\* before it is marked, and before it is put in the cache.
OrdersInv ==
  /\ asked \in [Ids -> {0, 1}]
  /\ \A c \in children : c.call \in Ids /\ asked[c.call] = 0
  /\ \A c, d \in children : c.call = d.call => c = d
  /\ \A id \in Ids : id > added => Unasked(id)
  /\ \A i \in DOMAIN deque : ~ deque[i].called => Unasked(deque[i].id)

HostsInv == QueueInv /\ OrdersInv

\* The members of the cache.
LEMMA QueueFacts ==
  ASSUME QueueInv
  PROVE  /\ Len(deque) \in Nat /\ DOMAIN deque = 1 .. Len(deque)
         /\ \A i \in DOMAIN deque : /\ deque[i] \in [id : Ids, called : BOOLEAN]
                                    /\ deque[i].id \in Ids /\ deque[i].id \in Nat
<1>1. deque \in Seq([id : Ids, called : BOOLEAN])
  BY DEF QueueInv
<1>2. Len(deque) \in Nat /\ DOMAIN deque = 1 .. Len(deque)
  BY <1>1, LenProperties
<1>3. \A i \in DOMAIN deque : deque[i] \in [id : Ids, called : BOOLEAN]
  BY <1>1, <1>2, ElementOfSeq
<1>4. \A i \in DOMAIN deque : deque[i].id \in Ids
  BY <1>3
<1>5. Ids \subseteq Nat
  BY DEF Ids
<1>6. QED BY <1>2, <1>3, <1>4, <1>5

LEMMA HostsInitInv == HostsInit => HostsInv
<1> SUFFICES ASSUME HostsInit PROVE HostsInv
  OBVIOUS
<1>1. deque = <<>> /\ deque \in Seq([id : Ids, called : BOOLEAN]) /\ DOMAIN deque = {}
  BY DEF HostsInit
<1>2. 0 \in 0 .. MaxPlaced
  BY PlacedAssumption
<1>3. QED BY <1>1, <1>2 DEF HostsInit, HostsInv, QueueInv, OrdersInv, Unasked

LEMMA AddCallInv == ASSUME HostsInv, AddCall PROVE HostsInv'
<1> DEFINE new == [id |-> added + 1, called |-> FALSE]
<1>1. added + 1 \in Ids /\ added + 1 \in 0 .. MaxPlaced /\ added \in Nat
  BY PlacedAssumption DEF AddCall, HostsInv, QueueInv, Ids
<1>2. new \in [id : Ids, called : BOOLEAN] /\ new.id = added + 1
  BY <1>1
<1>3. added' = added + 1 /\ deque' = Append(deque, new) /\ UNCHANGED <<children, asked>>
  BY DEF AddCall
<1> HIDE DEF new
<1>4. /\ deque' \in Seq([id : Ids, called : BOOLEAN])
      /\ Len(deque') = Len(deque) + 1
      /\ \A i \in 1 .. Len(deque) : deque'[i] = deque[i]
      /\ deque'[Len(deque) + 1] = new
      /\ Len(deque) \in Nat
  BY <1>2, <1>3, AppendProperties DEF HostsInv, QueueInv
<1>5. DOMAIN deque = 1 .. Len(deque) /\ DOMAIN deque' = 1 .. Len(deque) + 1
  BY <1>4, LenProperties DEF HostsInv, QueueInv
<1>6. \A i \in DOMAIN deque' : i \in DOMAIN deque \/ i = Len(deque) + 1
  BY <1>4, <1>5
<1>7. Unasked(added + 1)
  <2>1. added + 1 > added
    BY <1>1
  <2>2. QED BY <1>1, <2>1 DEF HostsInv, OrdersInv
<1>8. QueueInv'
  <2>1. \A i \in DOMAIN deque : deque[i].id \in Nat /\ deque[i].id <= added
    BY QueueFacts DEF HostsInv, QueueInv
  <2>2. \A i \in DOMAIN deque : deque[i].id # added + 1 /\ deque[i].id <= added + 1
    BY <1>1, <2>1
  <2>3. \A i \in DOMAIN deque : deque'[i] = deque[i]
    BY <1>4, <1>5
  <2>4. \A i \in DOMAIN deque' : deque'[i].id <= added'
    BY <1>1, <1>2, <1>3, <1>4, <1>6, <2>2, <2>3
  <2>5. \A i, j \in DOMAIN deque' : deque'[i].id = deque'[j].id => i = j
    BY <1>2, <1>4, <1>6, <2>2, <2>3 DEF HostsInv, QueueInv
  <2>6. QED BY <1>1, <1>3, <1>4, <2>4, <2>5 DEF QueueInv
<1>9. OrdersInv'
  <2>1. \A id \in Ids : id > added + 1 => id > added
    BY <1>1 DEF Ids
  <2>2. \A id \in Ids : id > added' => Unasked(id)'
    BY <1>3, <2>1 DEF HostsInv, OrdersInv, Unasked
  <2>3. \A i \in DOMAIN deque' : ~ deque'[i].called => Unasked(deque'[i].id)
    BY <1>2, <1>4, <1>5, <1>6, <1>7 DEF HostsInv, OrdersInv
  <2>4. QED BY <1>3, <2>2, <2>3 DEF HostsInv, OrdersInv, Unasked
<1>10. QED BY <1>8, <1>9 DEF HostsInv

LEMMA PopFrontInv == ASSUME HostsInv, PopFront PROVE HostsInv'
<1>1. deque # <<>> /\ deque' = Tail(deque) /\ UNCHANGED <<added, children, asked>>
  BY DEF PopFront
<1>2. /\ deque' \in Seq([id : Ids, called : BOOLEAN])
      /\ Len(deque') = Len(deque) - 1
      /\ \A i \in 1 .. Len(deque') : deque'[i] = deque[i + 1]
      /\ Len(deque) \in Nat
  BY <1>1, HeadTailProperties DEF HostsInv, QueueInv
<1>3. DOMAIN deque = 1 .. Len(deque) /\ DOMAIN deque' = 1 .. Len(deque) - 1
  BY <1>2, LenProperties DEF HostsInv, QueueInv
<1>4. \A i \in DOMAIN deque' : i + 1 \in DOMAIN deque /\ deque'[i] = deque[i + 1]
  BY <1>2, <1>3
<1>5. \A i, j \in DOMAIN deque' : i + 1 = j + 1 => i = j
  BY <1>2, <1>3
<1>6. QueueInv'
  BY <1>1, <1>2, <1>4, <1>5 DEF HostsInv, QueueInv
<1>7. OrdersInv'
  BY <1>1, <1>4 DEF HostsInv, OrdersInv, Unasked
<1>8. QED BY <1>6, <1>7 DEF HostsInv

LEMMA DoCallInv == ASSUME HostsInv, NEW i \in DOMAIN deque, DoCall(i) PROVE HostsInv'
<1> DEFINE new == [call |-> deque[i].id, host |-> hosts'[1].line]
<1>1. /\ ~ deque[i].called /\ deque' = [deque EXCEPT ![i].called = TRUE]
      /\ children' = children \cup {new} /\ new.call = deque[i].id
      /\ UNCHANGED <<added, asked>>
  BY DEF DoCall, Mark
<1> HIDE DEF new
<1>2. /\ deque \in Seq([id : Ids, called : BOOLEAN]) /\ DOMAIN deque = 1 .. Len(deque)
      /\ \A j \in DOMAIN deque : deque[j] \in [id : Ids, called : BOOLEAN]
  BY QueueFacts DEF HostsInv, QueueInv
<1>3. /\ DOMAIN deque' = DOMAIN deque
      /\ \A j \in DOMAIN deque : j # i => deque'[j] = deque[j]
      /\ deque'[i].id = deque[i].id /\ deque'[i].called
      /\ deque'[i] \in [id : Ids, called : BOOLEAN]
  <2> DEFINE call == [deque[i] EXCEPT !.called = TRUE]
  <2>1. deque' = [deque EXCEPT ![i] = call]
    BY <1>1
  <2>2. call \in [id : Ids, called : BOOLEAN] /\ call.id = deque[i].id /\ call.called
    BY <1>2
  <2> HIDE DEF call
  <2>3. QED BY <2>1, <2>2
<1>4. \A j \in DOMAIN deque : deque'[j].id = deque[j].id
  BY <1>3
<1>5. deque' \in Seq([id : Ids, called : BOOLEAN])
  <2> DEFINE call == [deque[i] EXCEPT !.called = TRUE]
  <2>1. deque' = [deque EXCEPT ![i] = call] /\ call \in [id : Ids, called : BOOLEAN]
    BY <1>1, <1>2
  <2> HIDE DEF call
  <2>2. QED BY <1>2, <2>1, ExceptSeq
<1>6. QueueInv'
  BY <1>1, <1>3, <1>4, <1>5 DEF HostsInv, QueueInv
<1>7. OrdersInv'
  <2>1. Unasked(deque[i].id) /\ deque[i].id \in Ids
    BY <1>1, <1>2 DEF HostsInv, OrdersInv
  <2>2. \A c \in children' : c.call \in Ids /\ asked[c.call] = 0
    BY <1>1, <2>1 DEF HostsInv, OrdersInv, Unasked
  <2>3. \A c, d \in children' : c.call = d.call => c = d
    BY <1>1, <2>1 DEF HostsInv, OrdersInv, Unasked
  <2>4. \A id \in Ids : id > added => Unasked(id)'
    <3>1. added \in Nat /\ deque[i].id \in Nat /\ deque[i].id <= added
      BY <2>1 DEF HostsInv, QueueInv, Ids
    <3>2. \A id \in Ids : id > added => id # deque[i].id
      BY <3>1 DEF Ids
    <3>3. QED BY <1>1, <3>2 DEF HostsInv, OrdersInv, Unasked
  <2>5. \A j \in DOMAIN deque : ~ deque'[j].called => Unasked(deque[j].id)'
    <3>1. ASSUME NEW j \in DOMAIN deque, ~ deque'[j].called
          PROVE  j # i /\ Unasked(deque[j].id) /\ deque[j].id # deque[i].id
      BY <1>3, <3>1 DEF HostsInv, QueueInv, OrdersInv
    <3>2. QED BY <1>1, <3>1 DEF Unasked
  <2>6. QED BY <1>1, <1>3, <1>4, <2>2, <2>3, <2>4, <2>5 DEF HostsInv, OrdersInv, Unasked
<1>8. QED BY <1>6, <1>7 DEF HostsInv

LEMMA OriginateInv == ASSUME HostsInv, NEW c \in children, Originate(c) PROVE HostsInv'
<1>1. /\ children' = children \ {c} /\ asked' = [asked EXCEPT ![c.call] = asked[c.call] + 1]
      /\ UNCHANGED <<deque, added>>
  BY DEF Originate
<1>2. /\ c.call \in Ids /\ asked[c.call] = 0 /\ asked \in [Ids -> {0, 1}]
      /\ \A d \in children : d # c => d.call # c.call
  BY DEF HostsInv, OrdersInv
<1>3. /\ asked' \in [Ids -> {0, 1}]
      /\ \A id \in Ids : id # c.call => asked'[id] = asked[id]
  BY <1>1, <1>2
<1>4. QueueInv'
  BY <1>1 DEF HostsInv, QueueInv
<1>5. \A id \in Ids : Unasked(id) => Unasked(id)'
  BY <1>1, <1>3 DEF Unasked
<1>6. \A i \in DOMAIN deque : deque[i].id \in Ids
  BY QueueFacts DEF HostsInv
<1>7. OrdersInv'
  <2>1. \A d \in children' : d.call \in Ids /\ asked'[d.call] = 0
    BY <1>1, <1>2, <1>3 DEF HostsInv, OrdersInv
  <2>2. \A d, e \in children' : d.call = e.call => d = e
    BY <1>1 DEF HostsInv, OrdersInv
  <2>3. /\ \A id \in Ids : id > added' => Unasked(id)'
        /\ \A i \in DOMAIN deque' : ~ deque'[i].called => Unasked(deque[i].id)'
    BY <1>1, <1>5, <1>6 DEF HostsInv, OrdersInv
  <2>4. QED BY <1>1, <1>3, <2>1, <2>2, <2>3 DEF OrdersInv, Unasked
<1>8. QED BY <1>4, <1>7 DEF HostsInv

LEMMA LoseOrderInv == ASSUME HostsInv, NEW c \in children, LoseOrder(c) PROVE HostsInv'
BY DEF LoseOrder, HostsInv, QueueInv, OrdersInv, Unasked

LEMMA StartAgainInv == ASSUME HostsInv, StartAgain PROVE HostsInv'
<1>1. deque' = <<>> /\ deque' \in Seq([id : Ids, called : BOOLEAN]) /\ DOMAIN deque' = {}
  BY DEF StartAgain
<1>2. QED BY <1>1 DEF StartAgain, HostsInv, QueueInv, OrdersInv, Unasked

\* The daemon's copy of a call is marked before its child is forked, so that
\* for every state a call not marked is with nobody.
THEOREM HostsInvariant == HostsSpec => []HostsInv
<1>1. HostsInit => HostsInv
  BY HostsInitInv
<1>2. HostsInv /\ [HostsNext]_hostvars => HostsInv'
  <2> SUFFICES ASSUME HostsInv, [HostsNext]_hostvars PROVE HostsInv'
    OBVIOUS
  <2>1. CASE AddCall BY <2>1, AddCallInv
  <2>2. CASE PopFront BY <2>2, PopFrontInv
  <2>3. CASE StartAgain BY <2>3, StartAgainInv
  <2>4. ASSUME NEW i \in DOMAIN deque, DoCall(i) PROVE HostsInv'
    BY <2>4, DoCallInv
  <2>5. ASSUME NEW c \in children, Originate(c) PROVE HostsInv'
    BY <2>5, OriginateInv
  <2>6. ASSUME NEW c \in children, LoseOrder(c) PROVE HostsInv'
    BY <2>6, LoseOrderInv
  <2>7. CASE UNCHANGED hostvars
    BY <2>7 DEF hostvars, HostsInv, QueueInv, OrdersInv, Unasked
  <2>8. QED BY <2>1, <2>2, <2>3, <2>4, <2>5, <2>6, <2>7 DEF HostsNext
<1>3. QED BY <1>1, <1>2, PTL DEF HostsSpec

\* Whatever passes, timeouts, restarts and children there are: Asterisk is asked
\* at most once for a call, those asking now included.
THEOREM EveryCallAskedOnce == HostsSpec => []AskedOnce
<1>1. HostsInv => AskedOnce
  <2> SUFFICES ASSUME HostsInv, NEW id \in Ids
               PROVE  asked[id] + Cardinality({c \in children : c.call = id}) <= 1
    BY DEF AskedOnce
  <2> DEFINE its == {c \in children : c.call = id}
  <2>1. CASE its = {}
    <3>1. Cardinality(its) = 0
      BY <2>1, FS_EmptySet
    <3>2. asked[id] \in {0, 1}
      BY DEF HostsInv, OrdersInv
    <3>3. QED BY <3>1, <3>2
  <2>2. CASE its # {}
    <3>1. PICK c \in its : TRUE
      BY <2>2
    <3>2. its = {c} /\ asked[id] = 0
      BY <3>1 DEF HostsInv, OrdersInv
    <3>3. Cardinality({c}) = 1
      BY FS_Singleton
    <3>4. QED BY <3>2, <3>3
  <2>3. QED BY <2>1, <2>2
<1>2. QED BY <1>1, HostsInvariant, PTL
===============================================================================

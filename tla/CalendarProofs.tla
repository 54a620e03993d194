--------------------------- MODULE CalendarProofs ---------------------------
(***************************************************************************)
(* Theorems about the parts that go by the calendar, for any number of     *)
(* days.                                                                   *)
(*                                                                         *)
(* CallHours: the calls through the filter keep to the hours that are      *)
(* allowed.  What --tzpopulate has done to a row at each of its statements *)
(* (ImportInv), also to one that an import added meanwhile, and that no    *)
(* row is in a zone not its own (ZoneInv) is what the filter relies on;    *)
(* the rest is that adding a zone to Greenwich's hour and wrapping it      *)
(* once, as the filter does, is the hour there or, where her summer time   *)
(* is not the code's, the next to it (SpanKept).                           *)
(*                                                                         *)
(* Counters: the counters of the day are exact, whatever midnight,         *)
(* refreshes, restarts and half-written files do. The property is about    *)
(* the memory, which a refresh takes from the file; so the invariant says  *)
(* when the day's file is exact (DiskInv), and that needs to know what a   *)
(* file is like while it is written (WritingInv) and that nothing is       *)
(* counted for a day before it has come (DatesInv).                        *)
(***************************************************************************)
EXTENDS Counters, CallHours, SequenceTheorems, WellFoundedInduction, TLAPS

(* CallHours                                                               *)

\* No row is put into a zone that is not its own.
ZoneInv == \A l \in DOMAIN table : table[l].zone \in {0, ZoneOf[l]}

\* What the first n statements have made of a row that was there at the first.
Brought(l, r, n) ==
  /\ n >= 1 => r.disposition # Unset
  /\ n >= 1 + ZoneOf[l] => r.zone = ZoneOf[l]
  /\ n >= TzStatements + 1 + StateOf[l] => r.hours = Own(l)

\* And of the hours of any row, also one that has come since.
HoursSo(l, r, n) == n >= TzStatements + 1 + StateOf[l] => r.hours \in {Unset, Own(l)}

\* How far --tzpopulate has come, when nothing failed so far.
Done == IF stage = 0 THEN Statements ELSE stage - 1
ImportInv ==
  ~ failed => /\ \A l \in covered : Brought(l, table[l], Done)
              /\ \A l \in DOMAIN table : HoursSo(l, table[l], Done)

HoursInv == HoursTypeOK /\ ZoneInv /\ ImportInv /\ CalledInHours

\* Of the zones only these are used.
LEMMA ZoneValues ==
  /\ Len(Zones) = 10
  /\ \A i \in 1 .. 10 : /\ Zones[i].tzl \in -10 .. -4 /\ Zones[i].tzh \in -10 .. -4
                        /\ Zones[i].tzh = Zones[i].tzl \/ Zones[i].tzh = Zones[i].tzl + 1
  BY DEF Zones

\* A set of positions has a last one.
LEMMA BoundedHasLast ==
  ASSUME NEW n \in Nat, NEW S \in SUBSET (1 .. n), S # {}
  PROVE  \E i \in S : \A j \in S : j <= i
<1> DEFINE down == {n - i : i \in S}
<1>1. down \subseteq Nat /\ down # {}
  <2>1. \A i \in S : i \in 1 .. n /\ n - i \in Nat
    OBVIOUS
  <2> QED
    BY <2>1
<1>2. PICK k \in down : \A m \in down : ~ (<<m, k>> \in OpToRel(<, Nat))
  BY <1>1, WFMin, NatLessThanWellFounded
<1>3. \A m \in down : ~ (m < k)
  BY <1>1, <1>2 DEF OpToRel
<1>4. PICK i \in S : k = n - i
  OBVIOUS
<1>5. \A j \in S : j <= i
  <2>1. TAKE j \in S
  <2>2. n - j \in down
    OBVIOUS
  <2> QED
    BY <2>2, <1>3, <1>4
<1> QED
  BY <1>5

\* Wrapping once is enough.
LEMMA HoursAgree ==
  ASSUME NEW z \in -10 .. -4, NEW t \in Nat
  PROVE  /\ Wrapped(z + tm_hour(t)) = FilterHour(z, t)
         /\ FilterHour(z, t) \in 0 .. 23
<1>1. isdst(t) \in {0, 1}
  BY DEF isdst
<1> DEFINE d == isdst(t)
<1>2. ASSUME NEW e \in {0, 1}
      PROVE /\ (t + e + z) % 24 = IF (t % 24) + e + z < 0 THEN (t % 24) + e + z + 24 ELSE (t % 24) + e + z
            /\ (t + e + z) % 24 \in 0 .. 23
  BY SMT
<1> QED
  BY <1>1, <1>2 DEF Wrapped, tm_hour, FilterHour

\* The hour at a place is the filter's of one of its zones, or, when the filter
\* takes no clock like the place's, the one before or after it.
LEMMA HourAtPlace ==
  ASSUME NEW l \in Phones, ZoneOf[l] \in 1 .. 10, clock \in Nat, NEW place \in Places[l]
  PROVE  \E e \in IF Ahead(place, clock) \in Taken(l) THEN {0} ELSE {-1, 1} :
         \E z \in ZonesOf(l) : (HourThere(place, clock) + e) % 24 = FilterHour(z, clock)
<1> DEFINE ahead == Ahead(place, clock)
           d == isdst(clock)
           s == IF clock \in place.summer THEN 1 ELSE 0
<1>1. /\ place.standard \in ZonesOf(l) /\ place.standard \in Int
      /\ \A z \in ZonesOf(l) : z \in Int
  <2>1. place \in [standard : Int, summer : SUBSET Nat]
    <3>1. Places[l] \subseteq [standard : Int, summer : SUBSET Nat]
      BY HoursAssumption
    <3> QED
      BY <3>1
  <2>2. place.standard \in ZonesOf(l)
    BY PlacesAssumption DEF ZonesOf
  <2>3. \A z \in ZonesOf(l) : z \in Int
    BY ZoneValues DEF ZonesOf
  <2> QED
    BY <2>1, <2>2, <2>3
<1>2. d \in {0, 1} /\ s \in {0, 1} /\ ahead = place.standard + s /\ ahead \in Int
  BY <1>1 DEF isdst, Ahead
<1>3. ASSUME NEW a \in Int, NEW e \in {-1, 0, 1}
      PROVE  (((clock + a) % 24) + e) % 24 = (clock + a + e) % 24
  BY <1>3, SMT
<1>4. HourThere(place, clock) = (clock + ahead) % 24
  BY DEF HourThere
<1>5. \A z : FilterHour(z, clock) = (clock + d + z) % 24
  BY DEF FilterHour
<1> HIDE DEF ahead, d, s
<1>6. CASE ahead \in Taken(l)
  <2>1. PICK z \in ZonesOf(l) : ahead = z + d
    BY <1>6 DEF Taken, d
  <2>2. clock + ahead + 0 = clock + d + z
    BY <1>1, <1>2, <2>1
  <2>3. (HourThere(place, clock) + 0) % 24 = FilterHour(z, clock)
    BY <1>2, <1>3, <1>4, <1>5, <2>2
  <2> QED
    BY <1>6, <2>3 DEF ahead
<1>7. CASE ahead \notin Taken(l)
  <2>1. place.standard + d \in Taken(l)
    BY <1>1 DEF Taken, d
  <2>2. d - s \in {-1, 1}
    BY <1>1, <1>2, <1>7, <2>1
  <2>3. clock + ahead + (d - s) = clock + d + place.standard
    BY <1>1, <1>2
  <2>4. (HourThere(place, clock) + (d - s)) % 24 = FilterHour(place.standard, clock)
    BY <1>2, <1>3, <1>4, <1>5, <2>2, <2>3
  <2> QED
    BY <1>1, <1>7, <2>2, <2>4 DEF ahead
<1> QED
  BY <1>6, <1>7

\* The filter's two bounds keep both zones' hours, but for midnight between them.
LEMMA SpanKept ==
  ASSUME NEW l \in Phones, ZoneOf[l] \in 1 .. 10, clock \in Nat,
         NEW low \in Nat, NEW high \in Nat,
         Wrapped(Zones[ZoneOf[l]].tzl + tm_hour(clock)) >= low,
         Wrapped(Zones[ZoneOf[l]].tzh + tm_hour(clock)) < high
  PROVE  AtMidnight(l) \/ Within(l, [low |-> low, high |-> high])
<1> DEFINE zl == Zones[ZoneOf[l]].tzl
           zh == Zones[ZoneOf[l]].tzh
           d == isdst(clock)
<1>1. zl \in -10 .. -4 /\ zh \in -10 .. -4 /\ (zh = zl \/ zh = zl + 1)
  BY ZoneValues
<1>2. d \in {0, 1}
  BY DEF isdst
<1>3. /\ FilterHour(zl, clock) \in 0 .. 23 /\ FilterHour(zl, clock) >= low
      /\ FilterHour(zh, clock) \in 0 .. 23 /\ FilterHour(zh, clock) < high
  BY <1>1, HoursAgree
<1>4. \/ FilterHour(zh, clock) = FilterHour(zl, clock)
      \/ FilterHour(zh, clock) = FilterHour(zl, clock) + 1
      \/ FilterHour(zl, clock) = 23 /\ FilterHour(zh, clock) = 0
  <2>1. ASSUME NEW t \in Int
        PROVE  (t + 1) % 24 = (t % 24) + 1 \/ (t % 24 = 23 /\ (t + 1) % 24 = 0)
    BY SMT
  <2>2. CASE zh = zl
    BY <2>2
  <2>3. CASE zh = zl + 1
    <3>1. clock + d + zl \in Int /\ clock + d + zh = (clock + d + zl) + 1
      BY <1>1, <1>2, <2>3
    <3>2. \/ (clock + d + zh) % 24 = ((clock + d + zl) % 24) + 1
          \/ (clock + d + zl) % 24 = 23 /\ (clock + d + zh) % 24 = 0
      BY <3>1, <2>1
    <3> QED
      BY <3>2 DEF FilterHour
  <2> QED
    BY <1>1, <2>2, <2>3
<1>5. CASE FilterHour(zl, clock) = 23 /\ FilterHour(zh, clock) = 0
  BY <1>5 DEF AtMidnight
<1>6. CASE FilterHour(zh, clock) \in {FilterHour(zl, clock), FilterHour(zl, clock) + 1}
  <2>1. \A z \in ZonesOf(l) : FilterHour(z, clock) \in low .. high - 1
    BY <1>3, <1>6 DEF ZonesOf
  <2>2. ASSUME NEW place \in Places[l]
        PROVE  \E e \in IF Ahead(place, clock) \in Taken(l) THEN {0} ELSE {-1, 1} :
                 (HourThere(place, clock) + e) % 24 \in low .. high - 1
    BY <2>1, HourAtPlace
  <2> QED
    BY <2>2 DEF Within
<1> QED
  BY <1>4, <1>5, <1>6

\* What states.txt says of a state are hours.
LEMMA ParsesHours ==
  ASSUME NEW text \in Seq([key : DayTypes \cup {"all"}, low : Nat, high : Nat])
  PROVE  Parse(text) \in Hours
<1>1. \A i \in 1 .. Len(text) : text[i].low \in Nat /\ text[i].high \in Nat
  <2> DEFINE Lines == [key : DayTypes \cup {"all"}, low : Nat, high : Nat]
  <2>1. \A i \in 1 .. Len(text) : text[i] \in Lines
    <3> HIDE DEF Lines
    <3>1. text \in Seq(Lines)
      BY DEF Lines
    <3> QED
      BY <3>1
  <2> QED
    BY <2>1
<1>2. ASSUME NEW d \in DayTypes
      PROVE  Parse(text)[d] \in [low : Nat, high : Nat]
  <2> DEFINE said == {i \in DOMAIN text : text[i].key \in {d, "all"}}
             last == CHOOSE i \in said : \A j \in said : j <= i
  <2>1. Parse(text)[d] = IF said = {} THEN FTC ELSE [low |-> text[last].low, high |-> text[last].high]
    BY DEF Parse
  <2>2. ASSUME said # {} PROVE last \in 1 .. Len(text)
    <3>1. said \in SUBSET (1 .. Len(text)) /\ Len(text) \in Nat
      OBVIOUS
    <3>2. \E i \in said : \A j \in said : j <= i
      BY <3>1, <2>2, BoundedHasLast
    <3>3. last \in said
      BY <3>2
    <3> QED
      BY <3>1, <3>3
  <2>3. CASE said = {}
    BY <2>1, <2>3 DEF FTC
  <2>4. CASE said # {}
    <3> HIDE DEF last, said
    <3> QED
      BY <2>1, <2>2, <2>4, <1>1
  <2> QED
    BY <2>3, <2>4
<1>3. Parse(text) = [d \in DayTypes |-> Parse(text)[d]]
  BY DEF Parse
<1> QED
  BY <1>2, <1>3 DEF Hours

LEMMA HoursTypes ==
  /\ Always \in Hours /\ Unset \notin Hours
  /\ \A n \in 1 .. Len(StatesTxt) : Parse(StatesTxt[n]) \in Hours
  /\ \A l \in Phones : Own(l) \in Hours
<1> USE HoursAssumption
<1>1. Always \in Hours /\ Unset \notin Hours
  BY DEF Always, Hours
<1>2. \A n \in 1 .. Len(StatesTxt) : Parse(StatesTxt[n]) \in Hours
  <2>1. TAKE n \in 1 .. Len(StatesTxt)
  <2>2. StatesTxt[n] \in Seq([key : DayTypes \cup {"all"}, low : Nat, high : Nat])
    OBVIOUS
  <2> QED
    BY <2>2, ParsesHours
<1>3. ASSUME NEW l \in Phones PROVE Own(l) \in Hours
  <2>1. StateOf[l] \in 0 .. Len(StatesTxt) /\ Len(StatesTxt) \in Nat
    OBVIOUS
  <2> QED
    BY <2>1, <1>1, <1>2 DEF Own
<1> QED
  BY <1>1, <1>2, <1>3

LEMMA StatementNumbers ==
  /\ TzStatements = 11 /\ Statements = 12 + Len(StatesTxt) /\ Len(StatesTxt) \in Nat
  /\ \A l \in Phones : ZoneOf[l] \in 0 .. 10 /\ StateOf[l] \in 0 .. Len(StatesTxt)
<1>1. Len(StatesTxt) \in Nat
  BY HoursAssumption
<1> QED
  BY <1>1, ZoneValues, HoursAssumption DEF TzStatements, Statements

LEMMA Stamped ==
  ASSUME NEW r, NEW new \in RowType
  PROVE  /\ Stamp(r, new) \in RowType /\ Stamp(r, new).zone = new.zone
         /\ Stamp(r, new).hours = new.hours /\ Stamp(r, new).disposition = new.disposition
  BY DEF Stamp, RowType

\* A statement does its part for a row and leaves the others' parts.
LEMMA StatementOnRow ==
  ASSUME NEW l \in Phones, NEW r \in RowType, NEW n \in 1 .. Statements, r.zone \in {0, ZoneOf[l]}
  PROVE  LET new == Stamp(r, Statement(l, r, n)) IN
         /\ new \in RowType
         /\ new.zone \in {0, ZoneOf[l]}
         /\ Brought(l, r, n - 1) => Brought(l, new, n)
         /\ HoursSo(l, r, n - 1) => HoursSo(l, new, n)
<1> DEFINE s == Statement(l, r, n)
           new == Stamp(r, s)
           z == ZoneOf[l]
           st == StateOf[l]
<1>0. /\ TzStatements = 11 /\ n \in Int /\ z \in 0 .. 10 /\ st \in Int /\ st >= 0
      /\ st <= Len(StatesTxt) /\ Len(StatesTxt) \in Int /\ n <= 12 + Len(StatesTxt) /\ n >= 1
  BY StatementNumbers
<1>1. SUFFICES /\ s \in RowType /\ s.zone \in {0, z}
               /\ Brought(l, r, n - 1) => Brought(l, s, n)
               /\ HoursSo(l, r, n - 1) => HoursSo(l, s, n)
  <2>1. ASSUME s \in RowType, Brought(l, s, n) PROVE Brought(l, new, n)
    BY <2>1, Stamped DEF Brought
  <2>2. ASSUME s \in RowType, HoursSo(l, s, n) PROVE HoursSo(l, new, n)
    BY <2>2, Stamped DEF HoursSo
  <2> QED
    BY <2>1, <2>2, Stamped
<1>2. CASE n = 1
  <2>0. HoursSo(l, s, n)
    BY <1>0, <1>2 DEF HoursSo
  <2>1. s = IF r.disposition = Unset THEN [r EXCEPT !.zone = 0, !.disposition = 1] ELSE r
    BY <1>2, <1>0 DEF Statement, tzpopulate
  <2>2. CASE r.disposition = Unset
    <3>1. s = [r EXCEPT !.zone = 0, !.disposition = 1]
      BY <2>1, <2>2
    <3>2. s.zone = 0 /\ s.disposition = 1 /\ 1 # Unset
      BY <3>1, HoursAssumption DEF RowType
    <3>3. s \in RowType
      <4>1. s = [zone |-> 0, hours |-> r.hours, disposition |-> 1, today |-> r.today]
        BY <3>1 DEF RowType
      <4>2. 0 \in 0 .. 10 /\ 1 \in Outcomes \cup {0, 1, Unset}
        OBVIOUS
      <4> HIDE DEF s
      <4> QED
        BY <4>1, <4>2 DEF RowType
    <3>4. Brought(l, s, n)
      BY <1>0, <1>2, <3>2 DEF Brought
    <3> QED
      BY <2>0, <3>2, <3>3, <3>4
  <2>3. CASE r.disposition # Unset
    <3>1. s = r
      BY <2>1, <2>3
    <3>2. Brought(l, r, n)
      BY <1>0, <1>2, <2>3 DEF Brought
    <3> QED
      BY <2>0, <3>1, <3>2
  <2> QED
    BY <2>2, <2>3
<1>3. CASE n \in 2 .. TzStatements
  <2>1. s = IF z = n - 1 THEN [r EXCEPT !.zone = n - 1] ELSE r
    BY <1>3, <1>0 DEF Statement, tzpopulate, createTzQuery
  <2>2. /\ s \in RowType /\ s.disposition = r.disposition /\ s.hours = r.hours
        /\ z = n - 1 => s.zone = z
        /\ z # n - 1 => s.zone = r.zone
    BY <2>1, <1>0, <1>3 DEF RowType
  <2>3. ASSUME Brought(l, r, n - 1) PROVE Brought(l, s, n)
    <3>1. s.disposition # Unset /\ n < TzStatements + 1 + st
      BY <1>0, <1>3, <2>2, <2>3 DEF Brought
    <3>2. n >= 1 + z => s.zone = z
      BY <1>0, <1>3, <2>2, <2>3 DEF Brought
    <3> QED
      BY <1>0, <3>1, <3>2 DEF Brought
  <2>4. HoursSo(l, s, n)
    BY <1>0, <1>3 DEF HoursSo
  <2> QED
    BY <2>2, <2>3, <2>4
<1>4. CASE n > TzStatements
  <2> DEFINE k == n - TzStatements
  <2>1. s = IF k = 1 THEN [r EXCEPT !.hours = Always]
            ELSE IF st = k - 1 THEN [r EXCEPT !.hours = Parse(StatesTxt[k - 1])] ELSE r
    BY <1>4, <1>0 DEF Statement, statepopulate
  <2>2. k \in 1 .. 1 + Len(StatesTxt)
    BY <1>4, <1>0
  <2>3. Own(l) \in Hours /\ Always \in Hours
    BY HoursTypes
  <2>4. CASE k = 1
    <3>1. s = [r EXCEPT !.hours = Always]
      BY <2>1, <2>4
    <3>2. /\ s \in RowType /\ s.disposition = r.disposition /\ s.zone = r.zone
          /\ s.hours = Always
      BY <3>1, <2>3 DEF RowType
    <3>3. st = 0 => Own(l) = Always
      BY DEF Own
    <3>4. ASSUME Brought(l, r, n - 1) PROVE Brought(l, s, n)
      <4>1. n = 12
        BY <1>0, <2>4
      <4>2. s.disposition # Unset /\ s.zone = z
        <5>1. n - 1 >= 1 /\ n - 1 >= 1 + z
          BY <1>0, <4>1
        <5>2. r.disposition # Unset /\ r.zone = z
          <6> HIDE DEF z
          <6> QED
            BY <5>1, <3>4 DEF Brought, z
        <5> QED
          BY <3>2, <5>2
      <4>3. n >= TzStatements + 1 + st => s.hours = Own(l)
        BY <1>0, <4>1, <3>2, <3>3
      <4> QED
        BY <4>2, <4>3 DEF Brought
    <3>5. HoursSo(l, s, n)
      BY <1>0, <2>4, <3>2, <3>3 DEF HoursSo
    <3> QED
      BY <3>2, <3>4, <3>5
  <2>5. CASE k # 1
    <3>1. s = IF st = k - 1 THEN [r EXCEPT !.hours = Own(l)] ELSE r
      <4>1. st = k - 1 => Own(l) = Parse(StatesTxt[k - 1])
        BY <2>2, <2>5 DEF Own
      <4> QED
        BY <2>1, <2>5, <4>1
    <3>2. /\ s \in RowType /\ s.disposition = r.disposition /\ s.zone = r.zone
          /\ st = k - 1 => s.hours = Own(l)
          /\ st # k - 1 => s.hours = r.hours
      BY <3>1, <2>3 DEF RowType
    <3>3. ASSUME Brought(l, r, n - 1) PROVE Brought(l, s, n)
      <4>1. n > 12
        BY <1>0, <2>2, <2>5
      <4>2. s.disposition # Unset /\ s.zone = z
        <5>1. n - 1 >= 1 /\ n - 1 >= 1 + z
          BY <1>0, <4>1
        <5>2. r.disposition # Unset /\ r.zone = z
          <6> HIDE DEF z
          <6> QED
            BY <5>1, <3>3 DEF Brought, z
        <5> QED
          BY <3>2, <5>2
      <4>3. ASSUME n >= TzStatements + 1 + st PROVE s.hours = Own(l)
        <5>1. CASE st = k - 1
          BY <5>1, <3>2
        <5>2. CASE st # k - 1
          <6>1. n - 1 >= TzStatements + 1 + st
            BY <1>0, <2>2, <4>3, <5>2
          <6>2. r.hours = Own(l)
            BY <3>3, <6>1 DEF Brought
          <6> QED
            BY <3>2, <5>2, <6>2
        <5> QED
          BY <5>1, <5>2
      <4> QED
        BY <4>2, <4>3 DEF Brought
    <3>4. ASSUME HoursSo(l, r, n - 1) PROVE HoursSo(l, s, n)
      <4>1. st # k - 1 /\ n >= TzStatements + 1 + st => n - 1 >= TzStatements + 1 + st
        BY <1>0, <2>2
      <4> QED
        BY <3>2, <3>4, <4>1 DEF HoursSo
    <3> QED
      BY <3>2, <3>3, <3>4
  <2> QED
    BY <2>4, <2>5
<1> QED
  BY <1>0, <1>2, <1>3, <1>4

\* What passes the filter is called within both limits.
LEMMA FilterKeepsHours ==
  ASSUME HoursTypeOK, ZoneInv, NEW l \in DOMAIN table, getFilter(table[l], clock)
  PROVE  /\ ZoneOf[l] # 0
         /\ AtMidnight(l) \/ Within(l, [low |-> Earliest, high |-> Latest])
         /\ table[l].hours = Own(l) => AtMidnight(l) \/ Within(l, Own(l)[daytype(clock)])
<1>1. l \in Phones /\ clock \in Nat /\ table[l].zone = ZoneOf[l] /\ ZoneOf[l] \in 1 .. 10
  BY HoursAssumption DEF HoursTypeOK, ZoneInv, getFilter
<1>2. daytype(clock) \in DayTypes
  BY DEF daytype, DayTypes
<1>3. AtMidnight(l) \/ Within(l, [low |-> Earliest, high |-> Latest])
  <2>1. /\ Wrapped(Zones[ZoneOf[l]].tzl + tm_hour(clock)) >= Earliest
        /\ Wrapped(Zones[ZoneOf[l]].tzh + tm_hour(clock)) < Latest
    BY <1>1 DEF getFilter
  <2>2. Earliest \in Nat /\ Latest \in Nat
    BY HoursAssumption
  <2> QED
    BY <1>1, <2>1, <2>2, SpanKept
<1>4. ASSUME table[l].hours = Own(l)
      PROVE  AtMidnight(l) \/ Within(l, Own(l)[daytype(clock)])
  <2> DEFINE own == Own(l)[daytype(clock)]
  <2>1. own \in [low : Nat, high : Nat]
    BY <1>1, <1>2, HoursTypes DEF Hours
  <2>2. /\ Wrapped(Zones[ZoneOf[l]].tzl + tm_hour(clock)) >= own.low
        /\ Wrapped(Zones[ZoneOf[l]].tzh + tm_hour(clock)) < own.high
    BY <1>1, <1>4 DEF getFilter
  <2>3. own.low \in Nat /\ own.high \in Nat /\ own = [low |-> own.low, high |-> own.high]
    BY <2>1
  <2>4. AtMidnight(l) \/ Within(l, [low |-> own.low, high |-> own.high])
    BY <1>1, <2>2, <2>3, SpanKept
  <2> QED
    BY <2>3, <2>4
<1> QED
  BY <1>1, <1>3, <1>4
-------------------------------------------------------------------------------

LEMMA HoursStart == HoursInit => HoursInv
<1> SUFFICES ASSUME HoursInit PROVE HoursInv
  OBVIOUS
<1>1. HoursTypeOK
  <2>1. isHoliday(clock) \in BOOLEAN
    BY DEF isHoliday
  <2>2. 0 \in 0 .. Statements /\ clock \in Nat
    BY StatementNumbers, HoursAssumption DEF HoursInit
  <2>3. table = <<>> /\ covered = {} /\ placed = {} /\ stage = 0 /\ failed = FALSE /\ isAHoliday = isHoliday(clock)
    BY DEF HoursInit
  <2>4. DOMAIN table = {}
    BY <2>3
  <2> QED
    BY <2>1, <2>2, <2>3, <2>4 DEF HoursTypeOK
<1>2. ZoneInv /\ ImportInv /\ CalledInHours
  BY DEF HoursInit, ZoneInv, ImportInv, CalledInHours
<1> QED
  BY <1>1, <1>2 DEF HoursInv

\* The calls so far stay what they are while the hour lasts.
LEMMA CallsStay ==
  ASSUME HoursInv, UNCHANGED <<clock, placed>>
  PROVE  CalledInHours'
  BY DEF HoursInv, CalledInHours, InSettingsHours, InStateHours, AtMidnight, Within, Ahead, HourThere,
     Taken, FilterHour, isdst

LEMMA ImportKeeps ==
  ASSUME HoursInv, NEW new \in SUBSET Phones, Import(new)
  PROVE  HoursInv'
<1>1. DOMAIN table' = DOMAIN table \cup new /\ UNCHANGED <<stage, failed, covered, clock, isAHoliday, placed>>
  BY DEF Import
<1>2. \A l \in DOMAIN table' : table'[l] = IF l \in new THEN NewRow ELSE table[l]
  BY DEF Import
<1>3. covered \subseteq DOMAIN table /\ new \cap DOMAIN table = {}
  BY DEF HoursInv, HoursTypeOK, Import
<1>4. HoursTypeOK'
  <2>1. NewRow \in RowType
    BY DEF NewRow, RowType
  <2>2. \A l \in DOMAIN table' : table'[l] \in RowType
    BY <1>1, <1>2, <2>1 DEF HoursInv, HoursTypeOK
  <2> QED
    BY <1>1, <1>3, <2>2 DEF HoursInv, HoursTypeOK
<1>5. ZoneInv'
  BY <1>1, <1>2 DEF HoursInv, ZoneInv, NewRow
<1>6. ImportInv'
  <2>1. Done' = Done
    BY <1>1 DEF Done
  <2>2. \A l \in covered : table'[l] = table[l]
    BY <1>1, <1>2, <1>3
  <2>3. \A l, n : HoursSo(l, NewRow, n)
    BY DEF HoursSo, NewRow
  <2> QED
    BY <1>1, <1>2, <2>1, <2>2, <2>3 DEF HoursInv, ImportInv
<1> QED
  BY <1>1, <1>4, <1>5, <1>6, CallsStay DEF HoursInv

\* A run of --tzpopulate begins, and has done nothing yet.
LEMMA TzpopulateKeeps ==
  ASSUME HoursInv, Tzpopulate
  PROVE  HoursInv'
<1>1. HoursTypeOK'
  <2>1. 1 \in 0 .. Statements
    BY StatementNumbers
  <2> QED
    BY <2>1 DEF HoursInv, HoursTypeOK, Tzpopulate
<1>2. ZoneInv'
  BY DEF HoursInv, ZoneInv, Tzpopulate
<1>3. ImportInv'
  <2>1. Done' = 0 /\ table' = table /\ covered' = DOMAIN table
    BY DEF Tzpopulate, Done
  <2>2. ASSUME NEW l \in DOMAIN table
        PROVE  Brought(l, table[l], 0) /\ HoursSo(l, table[l], 0)
    <3>1. l \in Phones
      BY DEF HoursInv, HoursTypeOK
    <3> QED
      BY <3>1, StatementNumbers DEF Brought, HoursSo
  <2> QED
    BY <2>1, <2>2 DEF ImportInv
<1> QED
  BY <1>1, <1>2, <1>3, CallsStay DEF HoursInv, Tzpopulate

\* After a statement one more is done.
LEMMA OneMoreDone ==
  ASSUME HoursTypeOK, stage > 0, NextStage
  PROVE  stage \in 1 .. Statements /\ Done = stage - 1 /\ Done' = stage /\ stage' \in 0 .. Statements
<1>1. Statements \in Nat
  BY StatementNumbers
<1>2. stage \in 1 .. Statements
  BY <1>1 DEF HoursTypeOK
<1>3. stage' = IF stage = Statements THEN 0 ELSE stage + 1
  BY DEF NextStage
<1>4. Done = stage - 1
  BY <1>2 DEF Done
<1>5. Done' = stage /\ stage' \in 0 .. Statements
  <2>1. CASE stage = Statements
    BY <1>1, <1>3, <2>1 DEF Done, Statements, TzStatements, Zones
  <2>2. CASE stage # Statements
    BY <1>1, <1>2, <1>3, <2>2 DEF Done
  <2> QED
    BY <2>1, <2>2
<1> QED
  BY <1>2, <1>4, <1>5

LEMMA PopulateKeeps ==
  ASSUME HoursInv, Populate
  PROVE  HoursInv'
<1>1. stage \in 1 .. Statements /\ Done = stage - 1 /\ Done' = stage /\ stage' \in 0 .. Statements
  BY OneMoreDone DEF HoursInv, Populate
<1>2. DOMAIN table' = DOMAIN table /\ failed' = failed
  BY DEF Populate
<1>3. ASSUME NEW l \in DOMAIN table
      PROVE  /\ table'[l] \in RowType
             /\ table'[l].zone \in {0, ZoneOf[l]}
             /\ Brought(l, table[l], stage - 1) => Brought(l, table'[l], stage)
             /\ HoursSo(l, table[l], stage - 1) => HoursSo(l, table'[l], stage)
  <2>1. l \in Phones /\ table[l] \in RowType /\ table[l].zone \in {0, ZoneOf[l]}
    BY DEF HoursInv, HoursTypeOK, ZoneInv
  <2>2. table'[l] = Stamp(table[l], Statement(l, table[l], stage))
    BY DEF Populate
  <2> QED
    BY <1>1, <2>1, <2>2, StatementOnRow
<1>4. HoursTypeOK'
  BY <1>1, <1>2, <1>3 DEF HoursInv, HoursTypeOK, Populate
<1>5. ZoneInv'
  BY <1>2, <1>3 DEF ZoneInv
<1>6. ImportInv'
  <2>1. covered' = covered /\ covered \subseteq DOMAIN table
    BY DEF HoursInv, HoursTypeOK, Populate
  <2> QED
    BY <1>1, <1>2, <1>3, <2>1 DEF HoursInv, ImportInv
<1> QED
  BY <1>4, <1>5, <1>6, CallsStay DEF HoursInv, Populate

LEMMA PopulateFailsKeeps ==
  ASSUME HoursInv, PopulateFails
  PROVE  HoursInv'
<1>1. stage' \in 0 .. Statements
  BY OneMoreDone DEF HoursInv, PopulateFails
<1>2. HoursTypeOK' /\ ZoneInv' /\ ImportInv'
  BY <1>1 DEF HoursInv, HoursTypeOK, ZoneInv, ImportInv, PopulateFails
<1> QED
  BY <1>2, CallsStay DEF HoursInv, PopulateFails

\* A step that stamps rows and changes nothing else of them but, perhaps, a
\* disposition into another one.
LEMMA RowsStay ==
  ASSUME HoursInv, UNCHANGED <<stage, failed, covered>>, DOMAIN table' = DOMAIN table,
         \A l \in DOMAIN table :
           /\ table'[l] \in RowType
           /\ table'[l].zone = table[l].zone /\ table'[l].hours = table[l].hours
           /\ table'[l].disposition \in {table[l].disposition} \cup Int
  PROVE  ZoneInv' /\ ImportInv'
<1>1. ZoneInv'
  BY DEF HoursInv, ZoneInv
<1>2. Done' = Done
  BY DEF Done
<1>3. ASSUME NEW l \in DOMAIN table
      PROVE  /\ Brought(l, table[l], Done) => Brought(l, table'[l], Done)
             /\ HoursSo(l, table[l], Done) => HoursSo(l, table'[l], Done)
  BY HoursAssumption DEF Brought, HoursSo
<1>4. ImportInv'
  BY <1>2, <1>3 DEF HoursInv, HoursTypeOK, ImportInv
<1> QED
  BY <1>1, <1>4

LEMMA PlaceKeeps ==
  ASSUME HoursInv, NEW query \in {"main", "callback", "closer"},
         NEW leads \in SUBSET DOMAIN table, Place(query, leads)
  PROVE  HoursInv'
<1> DEFINE new == {[lead |-> l, query |-> query, daytype |-> daytype(clock),
                    fresh |-> Fresh(table[l]), ready |-> stage = 0 /\ ~ failed] : l \in leads}
<1>1. \A l \in DOMAIN table : table[l] \in RowType /\ l \in Phones
  BY DEF HoursInv, HoursTypeOK
<1>2. /\ DOMAIN table' = DOMAIN table
      /\ \A l \in DOMAIN table :
           /\ table'[l] \in RowType
           /\ table'[l].zone = table[l].zone /\ table'[l].hours = table[l].hours
           /\ table'[l].disposition = table[l].disposition
  BY <1>1 DEF Place, RowType
<1>3. ZoneInv' /\ ImportInv'
  BY <1>2, RowsStay DEF Place
<1>4. daytype(clock) \in DayTypes
  BY DEF daytype, DayTypes
<1>5. HoursTypeOK'
  <2>1. new \subseteq Placed
    <3>1. ASSUME NEW l \in leads
          PROVE  [lead |-> l, query |-> query, daytype |-> daytype(clock),
                  fresh |-> Fresh(table[l]), ready |-> stage = 0 /\ ~ failed] \in Placed
      <4>1. Fresh(table[l]) \in BOOLEAN
        BY <1>1 DEF Fresh, RowType
      <4>2. (stage = 0 /\ ~ failed) \in BOOLEAN /\ l \in Phones
        BY <1>1
      <4> QED
        BY <1>4, <4>1, <4>2 DEF Placed
    <3> QED
      BY <3>1
  <2>2. placed' = placed \cup new
    BY DEF Place
  <2> HIDE DEF new
  <2> QED
    BY <2>1, <2>2, <1>2 DEF HoursInv, HoursTypeOK, Place
<1>6. ASSUME NEW p \in new
      PROVE  \/ Unfiltered(p)
             \/ ZoneOf[p.lead] # 0 /\ AtMidnight(p.lead)
             \/ InSettingsHours(p) /\ InStateHours(p)
  <2>1. PICK l \in leads :
          p = [lead |-> l, query |-> query, daytype |-> daytype(clock),
               fresh |-> Fresh(table[l]), ready |-> stage = 0 /\ ~ failed]
    OBVIOUS
  <2>2. Selects(query, table[l]) /\ l \in DOMAIN table
    BY DEF Place
  <2>3. CASE Unfiltered(p)
    BY <2>3
  <2>4. CASE ~ Unfiltered(p)
    <3>1. getFilter(table[l], clock)
      BY <2>1, <2>2, <2>4 DEF Selects, Unfiltered
    <3>2. ASSUME p.ready PROVE table[l].hours = Own(l)
      <4>1. stage = 0 /\ ~ failed
        BY <2>1, <3>2
      <4>2. HoursSo(l, table[l], Statements)
        BY <2>2, <4>1 DEF HoursInv, ImportInv, Done
      <4>3. Statements >= TzStatements + 1 + StateOf[l]
        BY <1>1, <2>2, StatementNumbers
      <4>4. table[l].hours # Unset
        BY <3>1 DEF getFilter
      <4> QED
        BY <4>2, <4>3, <4>4 DEF HoursSo
    <3>3. /\ ZoneOf[l] # 0
          /\ AtMidnight(l) \/ Within(l, [low |-> Earliest, high |-> Latest])
          /\ table[l].hours = Own(l) => AtMidnight(l) \/ Within(l, Own(l)[daytype(clock)])
      BY <2>2, <3>1, FilterKeepsHours DEF HoursInv
    <3>4. p.lead = l /\ p.daytype = daytype(clock)
      BY <2>1
    <3> QED
      BY <3>2, <3>3, <3>4 DEF InSettingsHours, InStateHours
  <2> QED
    BY <2>3, <2>4
<1>7. CalledInHours'
  <2>1. placed' = placed \cup new /\ clock' = clock
    BY DEF Place
  <2>2. \A l : (AtMidnight(l)' <=> AtMidnight(l))
    BY <2>1 DEF AtMidnight, FilterHour, isdst
  <2>3. \A l, span : (Within(l, span)' <=> Within(l, span))
    BY <2>1 DEF Within, Ahead, HourThere, Taken, isdst
  <2>4. \A p : /\ (InSettingsHours(p)' <=> InSettingsHours(p))
              /\ (InStateHours(p)' <=> InStateHours(p))
    BY <2>3 DEF InSettingsHours, InStateHours
  <2> HIDE DEF new
  <2> QED
    BY <2>1, <2>2, <2>4, <1>6 DEF HoursInv, CalledInHours
<1> QED
  BY <1>3, <1>5, <1>7 DEF HoursInv

LEMMA OutcomeKeeps ==
  ASSUME HoursInv, NEW l \in Phones, NEW d \in Outcomes, Outcome(l, d)
  PROVE  HoursInv'
<1>1. /\ DOMAIN table' = DOMAIN table
      /\ \A k \in DOMAIN table :
           /\ table'[k] \in RowType
           /\ table'[k].zone = table[k].zone /\ table'[k].hours = table[k].hours
           /\ table'[k].disposition \in {table[k].disposition} \cup Int
  <2>1. \A k \in DOMAIN table : table[k] \in RowType
    BY DEF HoursInv, HoursTypeOK
  <2>2. d \in Int
    BY HoursAssumption
  <2> QED
    BY <2>1, <2>2 DEF Outcome, RowType
<1>2. HoursTypeOK'
  BY <1>1 DEF HoursInv, HoursTypeOK, Outcome
<1>3. ZoneInv' /\ ImportInv'
  BY <1>1, RowsStay DEF Outcome
<1> QED
  BY <1>2, <1>3, CallsStay DEF HoursInv, Outcome

LEMMA StartAnewKeeps ==
  ASSUME HoursInv, StartAnew
  PROVE  HoursInv'
<1>1. isHoliday(clock) \in BOOLEAN
  BY DEF isHoliday
<1>2. HoursTypeOK' /\ ZoneInv' /\ ImportInv'
  BY <1>1 DEF HoursInv, HoursTypeOK, ZoneInv, ImportInv, Done, StartAnew
<1> QED
  BY <1>2, CallsStay DEF HoursInv, StartAnew

LEMMA HourPassesKeeps ==
  ASSUME HoursInv, HourPasses
  PROVE  HoursInv'
<1>1. /\ DOMAIN table' = DOMAIN table
      /\ \A l \in DOMAIN table :
           /\ table'[l] \in RowType
           /\ table'[l].zone = table[l].zone /\ table'[l].hours = table[l].hours
           /\ table'[l].disposition = table[l].disposition
  <2>1. \A l \in DOMAIN table : table[l] \in RowType
    BY DEF HoursInv, HoursTypeOK
  <2> QED
    BY <2>1 DEF HourPasses, RowType
<1>2. HoursTypeOK'
  BY <1>1 DEF HoursInv, HoursTypeOK, HourPasses
<1>3. ZoneInv' /\ ImportInv'
  BY <1>1, RowsStay DEF HourPasses
<1>4. CalledInHours'
  BY DEF HourPasses, CalledInHours
<1> QED
  BY <1>2, <1>3, <1>4 DEF HoursInv

LEMMA StutterKeepsHours ==
  ASSUME HoursInv, UNCHANGED hoursvars
  PROVE  HoursInv'
<1>1. HoursTypeOK' /\ ZoneInv' /\ ImportInv'
  BY DEF HoursInv, HoursTypeOK, ZoneInv, ImportInv, Done, hoursvars
<1> QED
  BY <1>1, CallsStay DEF HoursInv, hoursvars

\* Zones, imports and calls hang together at every step: see HoursInv.
THEOREM HoursInvariant == HoursSpec => []HoursInv
<1>1. HoursInit => HoursInv
  BY HoursStart
<1>2. HoursInv /\ [HoursNext]_hoursvars => HoursInv'
  BY ImportKeeps, TzpopulateKeeps, PopulateKeeps, PopulateFailsKeeps, PlaceKeeps, OutcomeKeeps,
     StartAnewKeeps, HourPassesKeeps, StutterKeepsHours DEF HoursNext
<1> QED
  BY <1>1, <1>2, PTL DEF HoursSpec

\* The rows, the calls and the statements an import goes through have their
\* types, with any states.txt and any zones.
THEOREM HoursTypeCorrect == HoursSpec => []HoursTypeOK
<1>1. HoursInv => HoursTypeOK
  BY DEF HoursInv
<1> QED
  BY <1>1, HoursInvariant, PTL

\* No call through the filter is outside the settings' hours by the clock of any
\* place its lead may be in, nor, once --tzpopulate is through, outside the hours
\* of its lead's state, but for the hour between her zones at midnight and, for
\* one hour, where her summer time is not the code's: for any settings, places
\* and summer times, at any hour, and whatever imports do meanwhile.
THEOREM CallsKeepHours == HoursSpec => []CalledInHours
<1>1. HoursInv => CalledInHours
  BY DEF HoursInv
<1> QED
  BY <1>1, HoursInvariant, PTL

\* A run of --tzpopulate none of whose statements failed has given every row that
\* was there when it began its own zone and hours.
THEOREM ImportsAreWhole == HoursSpec => []PopulatedRight
<1>1. HoursInv => PopulatedRight
  <2> SUFFICES ASSUME HoursInv, stage = 0, ~ failed, NEW l \in covered
               PROVE  /\ table[l].zone = ZoneOf[l] /\ table[l].hours = Own(l)
                      /\ table[l].disposition # Unset
    BY DEF PopulatedRight
  <2>1. Brought(l, table[l], Statements)
    BY DEF HoursInv, ImportInv, Done
  <2>2. l \in Phones
    BY DEF HoursInv, HoursTypeOK
  <2> QED
    BY <2>1, <2>2, StatementNumbers DEF Brought
<1> QED
  BY <1>1, HoursInvariant, PTL

\* The filter then lets through every such lead that may be called wherever she
\* may be, where the clocks it takes for hers are those of these places.
THEOREM FilterLetsThrough == HoursSpec => []CalledWheneverAllowed
<1>1. HoursInv /\ PopulatedRight => CalledWheneverAllowed
  <2> SUFFICES ASSUME HoursInv, PopulatedRight, stage = 0, ~ failed,
                      NEW l \in covered, ZoneOf[l] # 0,
                      Taken(l) \subseteq {Ahead(place, clock) : place \in Places[l]},
                      Within(l, [low |-> Earliest, high |-> Latest]),
                      Within(l, Own(l)[daytype(clock)])
               PROVE  getFilter(table[l], clock)
    BY DEF CalledWheneverAllowed
  <2>1. /\ l \in Phones /\ clock \in Nat
        /\ table[l].zone = ZoneOf[l] /\ table[l].hours = Own(l)
        /\ ZoneOf[l] \in 1 .. 10
    BY HoursAssumption DEF HoursInv, HoursTypeOK, PopulatedRight
  <2>2. daytype(clock) \in DayTypes
    BY DEF daytype, DayTypes
  <2>3. Own(l) \in Hours /\ Unset \notin Hours
    BY <2>1, HoursTypes
  <2> DEFINE zl == Zones[ZoneOf[l]].tzl
             zh == Zones[ZoneOf[l]].tzh
             own == Own(l)[daytype(clock)]
  <2>4. zl \in -10 .. -4 /\ zh \in -10 .. -4 /\ ZonesOf(l) = {zl, zh}
    BY <2>1, ZoneValues DEF ZonesOf
  <2>5. /\ Wrapped(zl + tm_hour(clock)) = FilterHour(zl, clock)
        /\ Wrapped(zh + tm_hour(clock)) = FilterHour(zh, clock)
        /\ FilterHour(zl, clock) \in 0 .. 23 /\ FilterHour(zh, clock) \in 0 .. 23
    BY <2>1, <2>4, HoursAgree
  <2>6. own.low \in Nat /\ own.high \in Nat
    BY <2>2, <2>3 DEF Hours
  <2>7. ASSUME NEW z \in ZonesOf(l)
        PROVE  /\ FilterHour(z, clock) \in Earliest .. Latest - 1
               /\ FilterHour(z, clock) \in own.low .. own.high - 1
    <3>1. z + isdst(clock) \in Taken(l)
      BY DEF Taken
    <3>2. PICK place \in Places[l] : Ahead(place, clock) = z + isdst(clock)
      BY <3>1
    <3>3. Ahead(place, clock) \in Taken(l)
      BY <3>1, <3>2
    <3>4. z \in Int /\ isdst(clock) \in Int
      BY <2>4 DEF isdst
    <3>5. HourThere(place, clock) = FilterHour(z, clock)
      <4>1. clock + Ahead(place, clock) = clock + isdst(clock) + z
        BY <2>1, <3>2, <3>4
      <4> QED
        BY <4>1 DEF HourThere, FilterHour
    <3>6. FilterHour(z, clock) \in 0 .. 23
      BY <2>4, <2>5
    <3>7. (HourThere(place, clock) + 0) % 24 = FilterHour(z, clock)
      BY <3>5, <3>6
    <3>8. \A span : Within(l, span) =>
             (HourThere(place, clock) + 0) % 24 \in span.low .. span.high - 1
      BY <3>3 DEF Within
    <3> QED
      BY <3>7, <3>8
  <2>8. /\ FilterHour(zl, clock) >= Earliest /\ FilterHour(zh, clock) < Latest
        /\ FilterHour(zl, clock) >= own.low /\ FilterHour(zh, clock) < own.high
    <3>1. zl \in ZonesOf(l) /\ zh \in ZonesOf(l)
      BY <2>4
    <3> QED
      BY <3>1, <2>5, <2>6, <2>7, HoursAssumption
  <2> QED
    BY <2>1, <2>3, <2>5, <2>8 DEF getFilter
<1> QED
  BY <1>1, HoursInvariant, ImportsAreWhole, PTL
-----------------------------------------------------------------------------
(* Counters                                                                *)

USE CountersAssumption

Texts == {Blank} \cup {Text(n) : n \in Nat}
NoCount == [calls |-> 0, abandons |-> 0]

CountersTypeOK ==
  /\ day \in Days /\ opened \in Days
  /\ running \in BOOLEAN
  /\ mem \in [Names -> Texts]
  /\ counted \in [Days -> [calls : Nat, abandons : Nat]]
  /\ \A d \in DOMAIN file : \A n \in DOMAIN file[d] : n \in Names /\ file[d][n] \in Texts

\* The date in use is the day's or the day before's; nothing is counted for a
\* later one, and no file is newer than the one opened last.
DatesInv ==
  /\ running => mem.datestring = Text(Date) /\ Date \in Days /\ Date <= day /\ day <= Date + 1
  /\ opened <= day
  /\ \A d \in DOMAIN file : d \in Days /\ d <= opened
  /\ \A d \in Days : d > day \/ (running /\ d > Date) => counted[d] = NoCount

\* The day's calls and abandons are a part of the totals, in memory and in each
\* file that has come to its date.
Ordered(t) ==
  /\ atoi(t.calls) <= atoi(t.totalcalls)
  /\ atoi(t.abandons) <= atoi(t.totalabandons)
Summed == {"calls", "totalcalls", "abandons", "totalabandons"}
OrderInv ==
  /\ Ordered(mem)
  /\ \A d \in DOMAIN file :
       "datestring" \in DOMAIN file[d] => Summed \subseteq DOMAIN file[d] /\ Ordered(file[d])

\* What Write has still to do is the rest of two writes.  A write that has opened
\* its file has written the lines before the rest, and no other.
Tokens == Names \cup {"open"}
Twice == Write \o Write
Stage(w) ==
  /\ w \in Seq(Tokens)
  /\ Len(w) <= 14
  /\ \A i \in 1 .. Len(w) : w[i] = Twice[14 - Len(w) + i]
Lacking(n) == IF n < 7 THEN n ELSE IF n < 14 THEN n - 7 ELSE 0
Has(t, i) == Layout[i] \in DOMAIN t /\ t[Layout[i]] = mem[Layout[i]]
WritingInv ==
  /\ Stage(writing)
  /\ ~ running => writing = <<>>
  /\ Lacking(Len(writing)) # 0 =>
       /\ opened \in DOMAIN file /\ opened >= Date
       /\ \A i \in 1 .. 6 : IF i <= 6 - Lacking(Len(writing)) THEN Has(file[opened], i)
                            ELSE Layout[i] \notin DOMAIN file[opened]

\* What is in memory for a date that was not torn is all that was counted; and so
\* is what a refresh would find in the day's file when no write is under way.
MemInv ==
  running /\ Date \notin torn =>
    mem.calls = Text(counted[Date].calls) /\ mem.abandons = Text(counted[Date].abandons)
Exact(d) ==
  IF d \in DOMAIN file /\ Said(file[d]).datestring = Text(d)
  THEN /\ "calls" \in DOMAIN file[d] /\ file[d].calls = Text(counted[d].calls)
       /\ "abandons" \in DOMAIN file[d] /\ file[d].abandons = Text(counted[d].abandons)
  ELSE counted[d] = NoCount
DiskInv == writing = <<>> /\ day \notin torn => Exact(day)

CountersInv ==
  CountersTypeOK /\ DatesInv /\ OrderInv /\ WritingInv /\ MemInv /\ DiskInv
-----------------------------------------------------------------------------
(* Texts and lines *)

LEMMA NamesAre ==
  /\ Names = {"calls", "totalcalls", "abandons", "totalabandons", "datestring", "ansmachs"}
  /\ \A i \in 1 .. 6 : Layout[i] \in Names
  /\ \A n \in Names : \E i \in 1 .. 6 : n = Layout[i]
  /\ \A i, j \in 1 .. 6 : Layout[i] = Layout[j] => i = j
<1>1. DOMAIN Layout = 1 .. 6
  BY DEF Layout
<1>2. Names = {Layout[i] : i \in 1 .. 6}
  BY <1>1 DEF Names, Range
<1>3. QED BY <1>2 DEF Layout

\* A text in use as a number.
LEMMA TextFacts ==
  /\ \A n \in Nat : Text(n) \in Texts /\ atoi(Text(n)) = n /\ Text(n) # Blank
  /\ \A m, n \in Nat : Text(m) = Text(n) => m = n
  /\ \A t \in Texts, n \in Nat : atoi(t) \in Nat /\ Plus(t, n) = Text(atoi(t) + n)
  /\ Blank \in Texts /\ atoi(Blank) = 0
<1>1. \A n \in Nat : Text(n)[1] = n /\ Text(n) # Blank
  BY DEF Text, Blank
<1>2. \A n \in Nat : atoi(Text(n)) = n
  BY <1>1 DEF atoi
<1>3. atoi(Blank) = 0
  BY DEF atoi
<1>4. \A t \in Texts : atoi(t) \in Nat
  BY <1>2, <1>3 DEF Texts
<1>5. QED BY <1>1, <1>2, <1>3, <1>4 DEF Plus, Texts

\* A whole write: the file is opened, then its six lines come.
LEMMA WriteIs ==
  /\ Write \in Seq(Tokens) /\ Len(Write) = 7
  /\ Write[1] = "open" /\ \A i \in 2 .. 7 : Write[i] = Layout[i - 1]
<1>1. Layout \in Seq(Tokens) /\ Len(Layout) = 6
  <2>1. Layout = <<Layout[1], Layout[2], Layout[3], Layout[4], Layout[5], Layout[6]>>
    BY DEF Layout
  <2>2. \A i \in 1 .. 6 : Layout[i] \in Tokens
    BY NamesAre DEF Tokens
  <2>3. <<Layout[1], Layout[2], Layout[3], Layout[4], Layout[5], Layout[6]>> \in Seq(Tokens)
    BY <2>2
  <2>4. QED BY <2>1, <2>3 DEF Layout
<1>2. <<"open">> \in Seq(Tokens) /\ Len(<<"open">>) = 1 /\ <<"open">>[1] = "open"
  BY DEF Tokens
<1> DEFINE open == <<"open">>
<1>3. open \in Seq(Tokens) /\ Len(open) = 1 /\ open[1] = "open"
  BY <1>2
<1>4. Write = open \o Layout
  BY DEF Write
<1> HIDE DEF open
<1>5. /\ Write \in Seq(Tokens) /\ Len(Write) = Len(open) + Len(Layout)
      /\ \A i \in 1 .. Len(open) + Len(Layout) :
           Write[i] = IF i <= Len(open) THEN open[i] ELSE Layout[i - Len(open)]
  BY <1>1, <1>3, <1>4, ConcatProperties
<1>6. Len(Write) = 7
  BY <1>1, <1>3, <1>5
<1>7. \A i \in 1 .. 7 : Write[i] = IF i <= 1 THEN open[i] ELSE Layout[i - 1]
  BY <1>1, <1>3, <1>5
<1>8. Write[1] = "open" /\ \A i \in 2 .. 7 : Write[i] = Layout[i - 1]
  BY <1>3, <1>7
<1>9. QED BY <1>5, <1>6, <1>8

LEMMA TwiceIs ==
  /\ Twice \in Seq(Tokens) /\ Len(Twice) = 14
  /\ Twice[1] = "open" /\ Twice[8] = "open"
  /\ \A i \in 1 .. 7 : Twice[i] = Write[i] /\ Twice[i + 7] = Write[i]
  /\ \A i \in 2 .. 7 : Twice[i] = Layout[i - 1] /\ Twice[i + 7] = Layout[i - 1]
<1>1. Write \in Seq(Tokens) /\ Len(Write) = 7
  BY WriteIs
<1>2. /\ Twice \in Seq(Tokens) /\ Len(Twice) = Len(Write) + Len(Write)
      /\ \A i \in 1 .. Len(Write) + Len(Write) :
           Twice[i] = IF i <= Len(Write) THEN Write[i] ELSE Write[i - Len(Write)]
  BY <1>1, ConcatProperties DEF Twice
<1>3. Len(Twice) = 14
  BY <1>1, <1>2
<1>4. \A i \in 1 .. 14 : Twice[i] = IF i <= 7 THEN Write[i] ELSE Write[i - 7]
  BY <1>1, <1>2
<1>5. \A i \in 1 .. 7 : Twice[i] = Write[i] /\ Twice[i + 7] = Write[i]
  BY <1>4
<1>6. QED BY <1>2, <1>3, <1>5, WriteIs

LEMMA Stages == Stage(<<>>) /\ Stage(Write) /\ Stage(Write \o Write)
<1>1. Stage(<<>>)
  BY EmptySeq DEF Stage
<1>2. Stage(Write)
  BY WriteIs, TwiceIs DEF Stage
<1>3. Stage(Twice)
  BY TwiceIs DEF Stage
<1>4. QED BY <1>1, <1>2, <1>3 DEF Twice

LEMMA LackingIs ==
  ASSUME NEW n \in 1 .. 14
  PROVE  /\ Lacking(n) = 0 => n = 7 \/ n = 14
         /\ Lacking(n) # 0 => /\ Lacking(n) \in 1 .. 6
                              /\ 15 - n = 8 - Lacking(n) \/ 15 - n = 8 - Lacking(n) + 7
                              /\ Lacking(n - 1) = Lacking(n) - 1
         /\ Lacking(n) = 0 => Lacking(n - 1) = 6
BY DEF Lacking

\* The next thing Write does.
LEMMA StageSteps ==
  ASSUME NEW w, Stage(w), w # <<>>
  PROVE  /\ Len(w) \in 1 .. 14
         /\ Stage(Tail(w)) /\ Len(Tail(w)) = Len(w) - 1
         /\ Head(w) = "open" <=> Lacking(Len(w)) = 0
         /\ Lacking(Len(w)) # 0 => Head(w) = Layout[7 - Lacking(Len(w))]
         /\ Head(w) = "open" => /\ Stage(SubSeq(w, Len(Write) + 1, Len(w)))
                                /\ Lacking(Len(SubSeq(w, Len(Write) + 1, Len(w)))) = 0
<1>1. w \in Seq(Tokens)
  BY DEF Stage
<1>2. PICK n \in 1 .. 14 : n = Len(w)
  <2>1. Len(w) <= 14
    BY DEF Stage
  <2>2. Len(w) \in Nat \ {0}
    BY <1>1, EmptySeq
  <2>3. \A k \in Nat \ {0} : k <= 14 => k \in 1 .. 14
    OBVIOUS
  <2>4. Len(w) \in 1 .. 14
    BY <2>1, <2>2, <2>3
  <2>5. QED BY <2>4
<1>3. \A i \in 1 .. n : w[i] = Twice[14 - n + i]
  BY <1>2 DEF Stage
<1>4. \A i \in 1 .. 6 : Layout[i] # "open"
  BY NamesAre
<1>5. /\ Tail(w) \in Seq(Tokens) /\ Len(Tail(w)) = Len(w) - 1
      /\ \A i \in 1 .. Len(Tail(w)) : Tail(w)[i] = w[i + 1]
  BY <1>1, HeadTailProperties
<1>6. Len(Tail(w)) = n - 1
  BY <1>2, <1>5
<1>7. Stage(Tail(w))
  <2>1. ASSUME NEW i \in 1 .. n - 1
        PROVE  Tail(w)[i] = Twice[14 - (n - 1) + i]
    <3>1. i + 1 \in 1 .. n /\ 14 - n + (i + 1) = 14 - (n - 1) + i
      OBVIOUS
    <3>2. Tail(w)[i] = w[i + 1]
      BY <1>5, <1>6
    <3>3. w[i + 1] = Twice[14 - n + (i + 1)]
      BY <1>3, <3>1
    <3>4. QED BY <3>1, <3>2, <3>3
  <2>2. n - 1 <= 14
    OBVIOUS
  <2>3. QED BY <1>5, <1>6, <2>1, <2>2 DEF Stage
<1>8. Head(w) = Twice[15 - n]
  <2>1. 1 \in 1 .. n /\ 14 - n + 1 = 15 - n
    OBVIOUS
  <2>2. w[1] = Twice[14 - n + 1]
    BY <1>3, <2>1
  <2>3. QED BY <2>1, <2>2
<1>9. Lacking(n) = 0 => Head(w) = "open"
  <2>1. Lacking(n) = 0 => 15 - n = 8 \/ 15 - n = 1
    BY LackingIs
  <2>2. QED BY <1>8, <2>1, TwiceIs
<1>10. Lacking(n) # 0 => Head(w) = Layout[7 - Lacking(n)] /\ Head(w) # "open"
  <2> SUFFICES ASSUME Lacking(n) # 0
               PROVE  Head(w) = Layout[7 - Lacking(n)] /\ Head(w) # "open"
    OBVIOUS
  <2>1. PICK k \in 1 .. 6 : k = Lacking(n) /\ (15 - n = 8 - k \/ 15 - n = 8 - k + 7)
    BY LackingIs
  <2>2. 8 - k \in 2 .. 7 /\ 8 - k - 1 = 7 - k /\ 7 - k \in 1 .. 6
    OBVIOUS
  <2>3. Twice[8 - k] = Layout[8 - k - 1] /\ Twice[8 - k + 7] = Layout[8 - k - 1]
    BY <2>2, TwiceIs
  <2>4. QED BY <1>4, <1>8, <2>1, <2>2, <2>3
<1>11. ASSUME Head(w) = "open"
       PROVE  /\ Stage(SubSeq(w, Len(Write) + 1, Len(w)))
              /\ Lacking(Len(SubSeq(w, Len(Write) + 1, Len(w)))) = 0
  <2> DEFINE v == SubSeq(w, 8, n)
  <2>1. n = 7 \/ n = 14
    BY <1>10, <1>11, LackingIs
  <2>2. \A i \in 8 .. n : w[i] \in Tokens
    BY <1>1, <1>2, ElementOfSeq
  <2>3. /\ v \in Seq(Tokens)
        /\ Len(v) = IF 8 <= n THEN n - 8 + 1 ELSE 0
        /\ \A i \in 1 .. n - 8 + 1 : v[i] = w[8 + i - 1]
    BY <2>2, SubSeqProperties
  <2>4. SubSeq(w, Len(Write) + 1, Len(w)) = v
    BY <1>2, WriteIs
  <2> HIDE DEF v
  <2>5. Len(v) = n - 7
    BY <2>1, <2>3
  <2>6. ASSUME NEW i \in 1 .. n - 7
        PROVE  v[i] = Twice[14 - (n - 7) + i]
    <3>1. /\ i \in 1 .. n - 8 + 1 /\ 8 + i - 1 = i + 7
          /\ i + 7 \in 1 .. n /\ 14 - n + (i + 7) = 14 - (n - 7) + i
      OBVIOUS
    <3>2. v[i] = w[8 + i - 1]
      BY <2>3, <3>1
    <3>3. w[i + 7] = Twice[14 - n + (i + 7)]
      BY <1>3, <3>1
    <3>4. QED BY <3>1, <3>2, <3>3
  <2>7. n - 7 <= 14 /\ Lacking(n - 7) = 0
    BY <2>1 DEF Lacking
  <2>8. Stage(v)
    BY <2>3, <2>5, <2>6, <2>7 DEF Stage
  <2>9. QED BY <2>4, <2>5, <2>7, <2>8
<1>12. QED BY <1>2, <1>5, <1>7, <1>9, <1>10, <1>11
-----------------------------------------------------------------------------
(* The invariant *)

LEMMA InitInv == CountersInit => CountersInv
<1> SUFFICES ASSUME CountersInit PROVE CountersInv
  OBVIOUS
<1>1. \A n \in Names : mem[n] = Text(0)
  BY DEF CountersInit, Zeros
<1>2. /\ mem = [n \in Names |-> Text(0)] /\ 0 \in Nat
      /\ DOMAIN file = {} /\ 1 \in Days
  BY DEF CountersInit, Zeros, Days
<1>3. CountersTypeOK
  <2>1. Text(0) \in Texts
    BY <1>2, TextFacts
  <2>2. mem \in [Names -> Texts]
    BY <1>2, <2>1
  <2>3. counted \in [Days -> [calls : Nat, abandons : Nat]]
    BY DEF CountersInit
  <2>4. QED BY <1>2, <2>2, <2>3 DEF CountersInit, CountersTypeOK
<1>4. DatesInv
  BY <1>2 DEF CountersInit, DatesInv, NoCount, Days
<1>5. OrderInv
  <2>1. {"calls", "totalcalls", "abandons", "totalabandons"} \subseteq Names
    BY NamesAre
  <2>2. atoi(mem.calls) = 0 /\ atoi(mem.totalcalls) = 0 /\ atoi(mem.abandons) = 0 /\ atoi(mem.totalabandons) = 0
    BY <1>1, <1>2, <2>1, TextFacts
  <2>3. QED BY <1>2, <2>2 DEF OrderInv, Ordered
<1>6. WritingInv
  <2>1. writing = <<>> /\ Len(writing) = 0
    BY DEF CountersInit
  <2>2. Lacking(0) = 0
    BY DEF Lacking
  <2>3. QED BY <2>1, <2>2, Stages DEF WritingInv
<1>7. MemInv
  BY DEF CountersInit, MemInv
<1>8. DiskInv
  BY <1>2 DEF CountersInit, DiskInv, Exact, NoCount
<1>9. QED BY <1>3, <1>4, <1>5, <1>6, <1>7, <1>8 DEF CountersInv

\* What a new object reads: its date is the day's, its numbers are exact if the
\* day's file is, and never more than the totals.
LEMMA ReadFacts ==
  ASSUME CountersInv
  PROVE  /\ Read(day) \in [Names -> Texts]
         /\ Read(day).datestring = Text(day)
         /\ Ordered(Read(day))
         /\ Exact(day) => /\ Read(day).calls = Text(counted[day].calls)
                          /\ Read(day).abandons = Text(counted[day].abandons)
<1> DEFINE got == Said(file[day])
<1>1. day \in Nat /\ 0 \in Nat
  BY DEF CountersInv, CountersTypeOK, Days
<1>2. "calls" \in Names /\ "totalcalls" \in Names /\ "abandons" \in Names /\ "totalabandons" \in Names
      /\ "datestring" \in Names /\ "ansmachs" \in Names
  BY NamesAre
<1>3. Text(0) \in Texts /\ Text(day) \in Texts /\ Text(day) # Blank /\ atoi(Text(0)) = 0 /\ Blank \in Texts
  BY <1>1, TextFacts
<1>4. CASE day \notin DOMAIN file
  <2> DEFINE new == [Zeros EXCEPT !.datestring = Text(day)]
  <2>1. Read(day) = new
    BY <1>4 DEF Read
  <2>2. new \in [Names -> Texts] /\ new.datestring = Text(day)
    BY <1>2, <1>3 DEF Zeros
  <2>3. new.calls = Text(0) /\ new.totalcalls = Text(0) /\ new.abandons = Text(0) /\ new.totalabandons = Text(0)
    BY <1>2 DEF Zeros
  <2>4. Exact(day) => counted[day].calls = 0 /\ counted[day].abandons = 0
    BY <1>4 DEF Exact, NoCount
  <2>5. Ordered(new)
    BY <1>3, <2>3 DEF Ordered
  <2> HIDE DEF new
  <2>6. QED BY <2>1, <2>2, <2>3, <2>4, <2>5
<1>5. CASE day \in DOMAIN file
  <2>1. got \in [Names -> Texts]
    BY <1>3, <1>5 DEF Said, CountersInv, CountersTypeOK
  <2>2. \A n \in Names : n \in DOMAIN file[day] => got[n] = file[day][n]
    BY DEF Said
  <2>3. got.datestring = Text(day) => "datestring" \in DOMAIN file[day]
    BY <1>2, <1>3 DEF Said
  <2>4. CASE got.datestring = Text(day)
    <3>1. Read(day) = got
      BY <1>5, <2>4 DEF Read
    <3>2. Summed \subseteq DOMAIN file[day] /\ Ordered(file[day])
      BY <1>5, <2>3, <2>4 DEF CountersInv, OrderInv
    <3>3. Ordered(got)
      BY <1>2, <2>2, <3>2 DEF Summed, Ordered
    <3>4. Exact(day) => got.calls = Text(counted[day].calls) /\ got.abandons = Text(counted[day].abandons)
      BY <1>2, <1>5, <2>2, <2>4 DEF Exact
    <3> HIDE DEF got
    <3>5. QED BY <2>1, <2>4, <3>1, <3>3, <3>4
  <2>5. CASE got.datestring # Text(day)
    <3> DEFINE new == [got EXCEPT !.datestring = Text(day), !.calls = Text(0), !.abandons = Text(0),
                                  !.ansmachs = Text(0)]
    <3>1. Read(day) = new
      BY <1>5, <2>5 DEF Read
    <3>2. Exact(day) => counted[day].calls = 0 /\ counted[day].abandons = 0
      BY <2>5 DEF Exact, NoCount
    <3> HIDE DEF got
    <3>3. new \in [Names -> Texts] /\ new.datestring = Text(day)
          /\ new.calls = Text(0) /\ new.abandons = Text(0)
      BY <1>2, <1>3, <2>1
    <3> HIDE DEF new
    <3>4. atoi(new.totalcalls) >= 0 /\ atoi(new.totalabandons) >= 0
      <4>1. new["totalcalls"] \in Texts /\ new["totalabandons"] \in Texts
        BY <1>2, <3>3
      <4>2. atoi(new["totalcalls"]) \in Nat /\ atoi(new["totalabandons"]) \in Nat
        BY <4>1, TextFacts
      <4>3. QED BY <4>2
    <3>5. Ordered(new)
      BY <1>3, <3>3, <3>4 DEF Ordered
    <3>6. QED BY <3>1, <3>2, <3>3, <3>5
  <2>6. QED BY <2>4, <2>5
<1>6. QED BY <1>4, <1>5

LEMMA LoadInv == ASSUME CountersInv, Load PROVE CountersInv'
<1> USE DEF Load
<1>1. /\ Read(day) \in [Names -> Texts]
      /\ Read(day).datestring = Text(day)
      /\ Ordered(Read(day))
      /\ Exact(day) => /\ Read(day).calls = Text(counted[day].calls)
                       /\ Read(day).abandons = Text(counted[day].abandons)
  BY ReadFacts
<1>2. mem' = Read(day) /\ running'
  OBVIOUS
<1>3. day \in Days /\ day \in Nat
  BY DEF CountersInv, CountersTypeOK, Days
<1>4. Date' = day
  BY <1>1, <1>3, TextFacts DEF Date
<1>5. CountersTypeOK'
  BY <1>1 DEF CountersInv, CountersTypeOK
<1>6. DatesInv'
  BY <1>1, <1>3, <1>4 DEF CountersInv, DatesInv, Days
<1>7. OrderInv'
  BY <1>1 DEF CountersInv, OrderInv, Ordered
<1>8. WritingInv'
  <2>1. Len(writing) = 0 /\ Lacking(0) = 0
    BY DEF Lacking
  <2>2. QED BY <2>1, Stages DEF CountersInv, WritingInv
<1>9. MemInv'
  BY <1>1, <1>4 DEF CountersInv, DiskInv, MemInv
<1>10. DiskInv'
  BY DEF CountersInv, DiskInv, Exact
<1>11. QED BY <1>5, <1>6, <1>7, <1>8, <1>9, <1>10 DEF CountersInv

\* Counting adds the same to the memory and to what was counted for its date, and
\* begins to write (AddCallsDialed, IncrementAbandons).
LEMMA CountedInv ==
  ASSUME CountersInv, NotWriting, NEW c \in Nat, NEW a \in Nat,
         mem' \in [Names -> Texts], mem'["datestring"] = mem["datestring"],
         atoi(mem'["calls"]) = atoi(mem["calls"]) + c,
         atoi(mem'["totalcalls"]) = atoi(mem["totalcalls"]) + c,
         atoi(mem'["abandons"]) = atoi(mem["abandons"]) + a,
         atoi(mem'["totalabandons"]) = atoi(mem["totalabandons"]) + a,
         \A n \in {"calls", "abandons"} : mem'[n] = Text(atoi(mem'[n])) \/ mem'[n] = mem[n],
         counted' \in [Days -> [calls : Nat, abandons : Nat]],
         counted'[Date].calls = counted[Date].calls + c,
         counted'[Date].abandons = counted[Date].abandons + a,
         \A d \in Days : d # Date => counted'[d] = counted[d],
         writing' \in {Write, Write \o Write},
         UNCHANGED <<day, running, file, opened, torn>>
  PROVE  CountersInv'
<1>1. running /\ writing = <<>>
  BY DEF NotWriting
<1>2. mem.datestring = Text(Date) /\ Date \in Days /\ Date <= day /\ day <= Date + 1
  BY <1>1 DEF CountersInv, DatesInv
<1>3. "calls" \in Names /\ "totalcalls" \in Names /\ "abandons" \in Names /\ "totalabandons" \in Names
      /\ "datestring" \in Names
  BY NamesAre
<1>4. mem \in [Names -> Texts]
  BY DEF CountersInv, CountersTypeOK
<1>5. \A n \in Names : atoi(mem[n]) \in Nat
  BY <1>4, TextFacts
<1>9. Date' = Date
  BY DEF Date
<1>10. counted[Date].calls \in Nat /\ counted[Date].abandons \in Nat
  BY <1>2 DEF CountersInv, CountersTypeOK
<1>12. writing' # <<>> /\ Stage(writing') /\ Lacking(Len(writing')) = 0
  <2>1. Len(Write) = 7 /\ Len(Write \o Write) = 14
    BY WriteIs, TwiceIs DEF Twice
  <2>2. Write # <<>> /\ Write \o Write # <<>>
    BY <2>1
  <2>3. Lacking(7) = 0 /\ Lacking(14) = 0
    BY DEF Lacking
  <2>4. QED BY <2>1, <2>2, <2>3, Stages
<1>13. CountersTypeOK'
  BY DEF CountersInv, CountersTypeOK
<1>14. DatesInv'
  <2>1. ASSUME NEW d \in Days, d > day \/ d > Date
        PROVE  d # Date
    <3>1. PICK x, y, z \in Nat : x = d /\ y = day /\ z = Date
      BY <1>2 DEF CountersInv, CountersTypeOK, Days
    <3>2. (x > y \/ x > z) /\ z <= y => x # z
      OBVIOUS
    <3>3. QED BY <1>2, <2>1, <3>1, <3>2
  <2>2. \A d \in Days : d > day \/ (running /\ d > Date) => counted[d] = NoCount
    BY DEF CountersInv, DatesInv
  <2>3. \A d \in Days : d > day \/ (running /\ d > Date) => counted'[d] = NoCount
    BY <2>1, <2>2
  <2>4. QED BY <1>2, <1>9, <2>3 DEF CountersInv, DatesInv
<1>15. OrderInv'
  <2>1. PICK k, m, p, q \in Nat : k = atoi(mem["calls"]) /\ m = atoi(mem["totalcalls"])
                                  /\ p = atoi(mem["abandons"]) /\ q = atoi(mem["totalabandons"])
    BY <1>3, <1>5
  <2>2. k <= m /\ p <= q
    BY <2>1 DEF CountersInv, OrderInv, Ordered
  <2>3. k + c <= m + c /\ p + a <= q + a
    BY <2>2
  <2>4. Ordered(mem')
    BY <2>1, <2>3 DEF Ordered
  <2>5. QED BY <2>4 DEF CountersInv, OrderInv, Ordered
<1>16. WritingInv'
  BY <1>1, <1>12 DEF WritingInv
<1>17. MemInv'
  <2> SUFFICES ASSUME Date \notin torn
               PROVE  /\ mem'["calls"] = Text(counted'[Date].calls)
                      /\ mem'["abandons"] = Text(counted'[Date].abandons)
    BY <1>9 DEF MemInv
  <2>1. mem["calls"] = Text(counted[Date].calls) /\ mem["abandons"] = Text(counted[Date].abandons)
    BY <1>1 DEF CountersInv, MemInv
  <2>2. atoi(mem["calls"]) = counted[Date].calls /\ atoi(mem["abandons"]) = counted[Date].abandons
    BY <1>10, <2>1, TextFacts
  <2>3. /\ mem["calls"] = Text(atoi(mem["calls"])) /\ mem["abandons"] = Text(atoi(mem["abandons"]))
        /\ \A n \in {"calls", "abandons"} : mem'[n] = Text(atoi(mem'[n])) \/ mem'[n] = mem[n]
    BY <2>1, <2>2
  <2>5. mem'["calls"] = Text(atoi(mem'["calls"])) /\ mem'["abandons"] = Text(atoi(mem'["abandons"]))
    BY <2>3
  <2>6. QED BY <2>2, <2>5
<1>18. DiskInv'
  BY <1>12 DEF DiskInv
<1>19. QED BY <1>13, <1>14, <1>15, <1>16, <1>17, <1>18 DEF CountersInv

\* What a number in memory is after adding to it.
LEMMA PlusFacts ==
  ASSUME CountersTypeOK, NEW n \in Names, NEW k \in Nat
  PROVE  /\ atoi(mem[n]) \in Nat
         /\ Plus(mem[n], k) \in Texts
         /\ atoi(Plus(mem[n], k)) = atoi(mem[n]) + k
         /\ Plus(mem[n], k) = Text(atoi(Plus(mem[n], k)))
<1>1. mem[n] \in Texts
  BY DEF CountersTypeOK
<1>2. atoi(mem[n]) \in Nat /\ Plus(mem[n], k) = Text(atoi(mem[n]) + k)
  BY <1>1, TextFacts
<1>3. atoi(mem[n]) + k \in Nat
  BY <1>2
<1>4. QED BY <1>2, <1>3, TextFacts

LEMMA CountCallsInv == ASSUME CountersInv, NEW n \in 1 .. 2, CountCalls(n) PROVE CountersInv'
<1>1. CountersTypeOK /\ mem \in [Names -> Texts] /\ n \in Nat /\ 0 \in Nat
  BY DEF CountersInv, CountersTypeOK
<1>2. "calls" \in Names /\ "totalcalls" \in Names /\ "abandons" \in Names /\ "totalabandons" \in Names
      /\ "datestring" \in Names
  BY NamesAre
<1>3. mem' = [mem EXCEPT !["calls"] = Plus(mem["calls"], n), !["totalcalls"] = Plus(mem["totalcalls"], n)]
  BY DEF CountCalls
<1>4. /\ mem'["calls"] = Plus(mem["calls"], n) /\ mem'["totalcalls"] = Plus(mem["totalcalls"], n)
      /\ mem'["abandons"] = mem["abandons"] /\ mem'["totalabandons"] = mem["totalabandons"]
      /\ mem'["datestring"] = mem["datestring"]
  BY <1>1, <1>2, <1>3
<1>5. mem' \in [Names -> Texts]
  <2>1. Plus(mem["calls"], n) \in Texts /\ Plus(mem["totalcalls"], n) \in Texts
    BY <1>1, <1>2, PlusFacts
  <2>2. QED BY <1>1, <1>3, <2>1
<1>6. NotWriting /\ Date \in Days
  BY DEF CountCalls, Count, NotWriting, CountersInv, DatesInv
<1>7. counted \in [Days -> [calls : Nat, abandons : Nat]]
  BY DEF CountersInv, CountersTypeOK
<1>8. /\ counted' \in [Days -> [calls : Nat, abandons : Nat]]
      /\ counted'[Date].calls = counted[Date].calls + n
      /\ counted'[Date].abandons = counted[Date].abandons + 0
      /\ \A d \in Days : d # Date => counted'[d] = counted[d]
  <2> DEFINE new == [counted[Date] EXCEPT !.calls = counted[Date].calls + n]
  <2>1. counted' = [counted EXCEPT ![Date] = new]
    BY DEF CountCalls
  <2>2. counted[Date] \in [calls : Nat, abandons : Nat]
    BY <1>6, <1>7
  <2>3. /\ new \in [calls : Nat, abandons : Nat] /\ new.calls = counted[Date].calls + n
        /\ new.abandons = counted[Date].abandons + 0
    BY <1>1, <2>2
  <2> HIDE DEF new
  <2>4. QED BY <1>6, <1>7, <2>1, <2>3
<1>9. /\ atoi(mem["abandons"]) = atoi(mem["abandons"]) + 0
      /\ atoi(mem["totalabandons"]) = atoi(mem["totalabandons"]) + 0
  <2>1. atoi(mem["abandons"]) \in Nat /\ atoi(mem["totalabandons"]) \in Nat
    BY <1>1, <1>2, PlusFacts
  <2>2. QED BY <2>1
<1>10. /\ atoi(mem'["calls"]) = atoi(mem["calls"]) + n
       /\ atoi(mem'["totalcalls"]) = atoi(mem["totalcalls"]) + n
       /\ mem'["calls"] = Text(atoi(mem'["calls"]))
  BY <1>1, <1>2, <1>4, PlusFacts
<1>11. writing' \in {Write, Write \o Write} /\ UNCHANGED <<day, running, file, opened, torn>>
  BY DEF CountCalls, Count
<1>12. QED BY <1>1, <1>4, <1>5, <1>6, <1>8, <1>9, <1>10, <1>11, CountedInv

LEMMA CountAbandonInv == ASSUME CountersInv, CountAbandon PROVE CountersInv'
<1>1. CountersTypeOK /\ mem \in [Names -> Texts] /\ 1 \in Nat /\ 0 \in Nat
  BY DEF CountersInv, CountersTypeOK
<1>2. "calls" \in Names /\ "totalcalls" \in Names /\ "abandons" \in Names /\ "totalabandons" \in Names
      /\ "datestring" \in Names
  BY NamesAre
<1>3. mem' = [mem EXCEPT !["abandons"] = Plus(mem["abandons"], 1),
                         !["totalabandons"] = Plus(mem["totalabandons"], 1)]
  BY DEF CountAbandon
<1>4. /\ mem'["abandons"] = Plus(mem["abandons"], 1)
      /\ mem'["totalabandons"] = Plus(mem["totalabandons"], 1)
      /\ mem'["calls"] = mem["calls"] /\ mem'["totalcalls"] = mem["totalcalls"]
      /\ mem'["datestring"] = mem["datestring"]
  BY <1>1, <1>2, <1>3
<1>5. mem' \in [Names -> Texts]
  <2>1. Plus(mem["abandons"], 1) \in Texts /\ Plus(mem["totalabandons"], 1) \in Texts
    BY <1>1, <1>2, PlusFacts
  <2>2. QED BY <1>1, <1>3, <2>1
<1>6. NotWriting /\ Date \in Days
  BY DEF CountAbandon, Count, NotWriting, CountersInv, DatesInv
<1>7. counted \in [Days -> [calls : Nat, abandons : Nat]]
  BY DEF CountersInv, CountersTypeOK
<1>8. /\ counted' \in [Days -> [calls : Nat, abandons : Nat]]
      /\ counted'[Date].calls = counted[Date].calls + 0
      /\ counted'[Date].abandons = counted[Date].abandons + 1
      /\ \A d \in Days : d # Date => counted'[d] = counted[d]
  <2> DEFINE new == [counted[Date] EXCEPT !.abandons = counted[Date].abandons + 1]
  <2>1. counted' = [counted EXCEPT ![Date] = new]
    BY DEF CountAbandon
  <2>2. counted[Date] \in [calls : Nat, abandons : Nat]
    BY <1>6, <1>7
  <2>3. /\ new \in [calls : Nat, abandons : Nat] /\ new.abandons = counted[Date].abandons + 1
        /\ new.calls = counted[Date].calls + 0
    BY <2>2
  <2> HIDE DEF new
  <2>4. QED BY <1>6, <1>7, <2>1, <2>3
<1>9. /\ atoi(mem["calls"]) = atoi(mem["calls"]) + 0
      /\ atoi(mem["totalcalls"]) = atoi(mem["totalcalls"]) + 0
  <2>1. atoi(mem["calls"]) \in Nat /\ atoi(mem["totalcalls"]) \in Nat
    BY <1>1, <1>2, PlusFacts
  <2>2. QED BY <2>1
<1>10. /\ atoi(mem'["abandons"]) = atoi(mem["abandons"]) + 1
       /\ atoi(mem'["totalabandons"]) = atoi(mem["totalabandons"]) + 1
       /\ mem'["abandons"] = Text(atoi(mem'["abandons"]))
  BY <1>1, <1>2, <1>4, PlusFacts
<1>11. writing' \in {Write, Write \o Write} /\ UNCHANGED <<day, running, file, opened, torn>>
  BY DEF CountAbandon, Count
<1>12. QED BY <1>1, <1>4, <1>5, <1>6, <1>8, <1>9, <1>10, <1>11, CountedInv

LEMMA CountMachineInv == ASSUME CountersInv, CountMachine PROVE CountersInv'
<1> USE DEF CountMachine, Count, NotWriting
<1>1. CountersTypeOK /\ mem \in [Names -> Texts] /\ 1 \in Nat
  BY DEF CountersInv, CountersTypeOK
<1>2. /\ "calls" \in Names /\ "totalcalls" \in Names /\ "abandons" \in Names
      /\ "totalabandons" \in Names /\ "datestring" \in Names /\ "ansmachs" \in Names
  BY NamesAre
<1>3. Plus(mem["ansmachs"], 1) \in Texts
  BY <1>1, <1>2, PlusFacts
<1>4. mem' = [mem EXCEPT !["ansmachs"] = Plus(mem["ansmachs"], 1)]
  OBVIOUS
<1>5. /\ mem' \in [Names -> Texts]
      /\ mem'["calls"] = mem["calls"] /\ mem'["totalcalls"] = mem["totalcalls"]
      /\ mem'["abandons"] = mem["abandons"] /\ mem'["totalabandons"] = mem["totalabandons"]
      /\ mem'["datestring"] = mem["datestring"]
  BY <1>1, <1>2, <1>3, <1>4
<1>6. Date' = Date
  BY <1>5 DEF Date
<1>7. UNCHANGED <<day, running, file, writing, opened, torn, counted>> /\ writing = <<>>
  OBVIOUS
<1> HIDE DEF CountMachine, Count, NotWriting
<1>8. CountersTypeOK'
  BY <1>5, <1>7 DEF CountersInv, CountersTypeOK
<1>9. DatesInv'
  BY <1>5, <1>6, <1>7 DEF CountersInv, DatesInv
<1>10. OrderInv'
  BY <1>5, <1>7 DEF CountersInv, OrderInv, Ordered
<1>11. WritingInv'
  <2>1. Len(writing) = 0 /\ Lacking(0) = 0
    BY <1>7 DEF Lacking
  <2>2. QED BY <1>7, <2>1, Stages DEF WritingInv
<1>12. MemInv'
  BY <1>5, <1>6, <1>7 DEF CountersInv, MemInv
<1>13. DiskInv'
  BY <1>7 DEF CountersInv, DiskInv, Exact
<1>14. QED BY <1>8, <1>9, <1>10, <1>11, <1>12, <1>13 DEF CountersInv

LEMMA OpenInv == ASSUME CountersInv, Open PROVE CountersInv'
<1>1. /\ running /\ writing # <<>> /\ Head(writing) = "open"
      /\ file' = With(file, day, <<>>) /\ opened' = day /\ writing' = Tail(writing)
      /\ UNCHANGED <<day, running, mem, counted, torn>>
  BY DEF Open, Opens
<1>2. Stage(writing)
  BY DEF CountersInv, WritingInv
<1>3. /\ DOMAIN file' = DOMAIN file \cup {day} /\ file'[day] = <<>>
      /\ \A d \in DOMAIN file : d # day => file'[d] = file[d]
      /\ DOMAIN file'[day] = {}
  <2>1. DOMAIN <<>> = {}
    OBVIOUS
  <2>2. /\ DOMAIN With(file, day, <<>>) = DOMAIN file \cup {day}
        /\ With(file, day, <<>>)[day] = <<>>
        /\ \A d \in DOMAIN file : d # day => With(file, day, <<>>)[d] = file[d]
    BY DEF With
  <2>3. QED BY <1>1, <2>1, <2>2
<1>4. /\ Len(writing) \in 1 .. 14 /\ Stage(writing') /\ Len(writing') = Len(writing) - 1
      /\ Lacking(Len(writing)) = 0
  BY <1>1, <1>2, StageSteps
<1>5. Lacking(Len(writing')) = 6
  BY <1>4, LackingIs
<1>6. writing' # <<>>
  <2>1. Lacking(0) = 0 /\ Len(<<>>) = 0
    BY DEF Lacking
  <2>2. QED BY <1>5, <2>1
<1>7. Date' = Date
  BY <1>1 DEF Date
<1>8. CountersTypeOK'
  BY <1>1, <1>3 DEF CountersInv, CountersTypeOK
<1>9. DatesInv'
  <2>1. day \in Days /\ day \in Int /\ opened \in Int /\ opened <= day
    BY DEF CountersInv, CountersTypeOK, DatesInv, Days
  <2>2. \A d \in DOMAIN file : d \in Days /\ d \in Int /\ d <= opened
    BY DEF CountersInv, DatesInv, Days
  <2>3. \A d \in DOMAIN file : d <= day
    BY <2>1, <2>2
  <2>4. \A d \in DOMAIN file' : d \in Days /\ d <= opened'
    BY <1>1, <1>3, <2>1, <2>2, <2>3
  <2>5. QED BY <1>1, <1>7, <2>1, <2>4 DEF CountersInv, DatesInv
<1>10. OrderInv'
  BY <1>1, <1>3 DEF CountersInv, OrderInv, Ordered
<1>11. WritingInv'
  <2>1. Date <= day
    BY <1>1 DEF CountersInv, DatesInv
  <2>2. Date \in Int /\ day \in Int
    BY <1>1 DEF CountersInv, DatesInv, CountersTypeOK, Days
  <2>3. \A i \in 1 .. 6 : ~ i <= 0
    OBVIOUS
  <2>4. (\A i \in 1 .. 6 : IF i <= 6 - Lacking(Len(writing)) THEN Has(file[opened], i)
                           ELSE Layout[i] \notin DOMAIN file[opened])'
    BY <1>1, <1>3, <1>5, <2>3
  <2>5. day >= Date
    BY <2>1, <2>2
  <2>6. QED BY <1>1, <1>3, <1>4, <1>5, <1>7, <2>4, <2>5 DEF WritingInv, Has
<1>12. MemInv'
  BY <1>1, <1>7 DEF CountersInv, MemInv
<1>13. DiskInv'
  BY <1>6 DEF DiskInv
<1>14. QED BY <1>8, <1>9, <1>10, <1>11, <1>12, <1>13 DEF CountersInv

LEMMA FailToOpenInv == ASSUME CountersInv, FailToOpen PROVE CountersInv'
<1>1. /\ running /\ writing # <<>> /\ Head(writing) = "open"
      /\ torn' = torn \cup {day, Date}
      /\ writing' = SubSeq(writing, Len(Write) + 1, Len(writing))
      /\ UNCHANGED <<day, running, mem, file, opened, counted>>
  BY DEF FailToOpen, Opens
<1>2. Stage(writing)
  BY DEF CountersInv, WritingInv
<1>3. Stage(writing') /\ Lacking(Len(writing')) = 0
  BY <1>1, <1>2, StageSteps
<1>4. Date' = Date
  BY <1>1 DEF Date
<1>5. CountersTypeOK'
  BY <1>1 DEF CountersInv, CountersTypeOK
<1>6. DatesInv'
  BY <1>1, <1>4 DEF CountersInv, DatesInv
<1>7. OrderInv'
  BY <1>1 DEF CountersInv, OrderInv, Ordered
<1>8. WritingInv'
  BY <1>1, <1>3 DEF WritingInv
<1>9. MemInv' /\ DiskInv'
  BY <1>1, <1>4 DEF MemInv, DiskInv
<1>10. QED BY <1>5, <1>6, <1>7, <1>8, <1>9 DEF CountersInv

\* A line written: of the open file the lines before the rest are what memory says.
LEMMA LineWritten ==
  ASSUME CountersInv, WriteLine
  PROVE  /\ running /\ opened \in DOMAIN file /\ opened >= Date
         /\ UNCHANGED <<day, running, mem, opened, counted, torn>>
         /\ DOMAIN file' = DOMAIN file
         /\ \A d \in DOMAIN file : d # opened => file'[d] = file[d]
         /\ \A n \in DOMAIN file'[opened] : n \in DOMAIN file[opened] \/ n \in Names
         /\ \A n \in DOMAIN file'[opened] :
              \/ file'[opened][n] = mem[n]
              \/ n \in DOMAIN file[opened] /\ file'[opened][n] = file[opened][n]
         /\ Stage(writing')
         /\ Lacking(Len(writing')) \in 0 .. 5
         /\ \A i \in 1 .. 6 :
              IF i <= 6 - Lacking(Len(writing'))
              THEN Layout[i] \in DOMAIN file'[opened] /\ file'[opened][Layout[i]] = mem[Layout[i]]
              ELSE Layout[i] \notin DOMAIN file'[opened]
<1> DEFINE n == Head(writing)
           f == file[opened]
           g == With(f, n, mem[n])
<1>1. /\ running /\ writing # <<>> /\ n # "open"
      /\ file' = [file EXCEPT ![opened] = g]
      /\ writing' = Tail(writing)
      /\ UNCHANGED <<day, running, mem, opened, counted, torn>>
  BY DEF WriteLine, Opens
<1>2. Stage(writing)
  BY DEF CountersInv, WritingInv
<1>3. /\ Len(writing) \in 1 .. 14 /\ Stage(writing') /\ Len(writing') = Len(writing) - 1
      /\ Lacking(Len(writing)) # 0 /\ n = Layout[7 - Lacking(Len(writing))]
  BY <1>1, <1>2, StageSteps
<1>4. PICK k \in 1 .. 6 : k = Lacking(Len(writing)) /\ Lacking(Len(writing')) = k - 1
  BY <1>3, LackingIs
<1>5. 7 - k \in 1 .. 6 /\ k - 1 \in 0 .. 5 /\ 6 - (k - 1) = 7 - k
  OBVIOUS
<1>6. n = Layout[7 - k] /\ n \in Names
  BY <1>3, <1>4, <1>5, NamesAre
<1>7. /\ opened \in DOMAIN file /\ opened >= Date
      /\ \A i \in 1 .. 6 : IF i <= 6 - k THEN Has(f, i) ELSE Layout[i] \notin DOMAIN f
  BY <1>3, <1>4 DEF CountersInv, WritingInv
<1>8. /\ DOMAIN g = DOMAIN f \cup {n} /\ g[n] = mem[n]
      /\ \A m \in DOMAIN f : m # n => g[m] = f[m]
  <2> HIDE DEF n, f
  <2>1. QED BY DEF With
<1>9. ASSUME NEW i \in 1 .. 6
      PROVE  IF i <= 7 - k THEN Layout[i] \in DOMAIN g /\ g[Layout[i]] = mem[Layout[i]]
             ELSE Layout[i] \notin DOMAIN g
  <2> HIDE DEF n, f, g
  <2>1. i <= 6 - k \/ i = 7 - k \/ ~ i <= 7 - k
    OBVIOUS
  <2>2. CASE i <= 6 - k
    <3>1. i <= 7 - k
      BY <2>2
    <3>2. Layout[i] \in DOMAIN f /\ f[Layout[i]] = mem[Layout[i]]
      BY <1>7, <2>2 DEF Has
    <3>3. g[Layout[i]] = mem[Layout[i]]
      BY <1>8, <3>2
    <3>4. QED BY <1>8, <3>1, <3>2, <3>3
  <2>3. CASE i = 7 - k
    <3>1. i <= 7 - k
      BY <2>3
    <3>2. QED BY <1>6, <1>8, <2>3, <3>1
  <2>4. CASE ~ i <= 7 - k
    <3>1. ~ i <= 6 - k /\ i # 7 - k
      BY <2>4
    <3>2. Layout[i] \notin DOMAIN f
      BY <1>7, <3>1
    <3>3. Layout[i] # n
      BY <1>5, <1>6, <3>1, NamesAre
    <3>4. QED BY <1>8, <2>4, <3>2, <3>3
  <2>5. QED BY <2>1, <2>2, <2>3, <2>4
<1> HIDE DEF n, f, g
<1>10. file'[opened] = g /\ DOMAIN file' = DOMAIN file
       /\ \A d \in DOMAIN file : d # opened => file'[d] = file[d]
  BY <1>1, <1>7
<1>11. \A m \in DOMAIN g : m \in DOMAIN f \/ m \in Names
  BY <1>6, <1>8
<1>12. \A m \in DOMAIN g : g[m] = mem[m] \/ (m \in DOMAIN f /\ g[m] = f[m])
  BY <1>8
<1>13. \A i \in 1 .. 6 :
         IF i <= 6 - Lacking(Len(writing'))
         THEN Layout[i] \in DOMAIN g /\ g[Layout[i]] = mem[Layout[i]]
         ELSE Layout[i] \notin DOMAIN g
  BY <1>4, <1>5, <1>9
<1>14. QED BY <1>1, <1>3, <1>4, <1>5, <1>7, <1>10, <1>11, <1>12, <1>13 DEF f

LEMMA WriteLineInv == ASSUME CountersInv, WriteLine PROVE CountersInv'
<1> DEFINE g == file'[opened]
<1>1. /\ running /\ opened \in DOMAIN file /\ opened >= Date
      /\ UNCHANGED <<day, running, mem, opened, counted, torn>>
      /\ DOMAIN file' = DOMAIN file
      /\ \A d \in DOMAIN file : d # opened => file'[d] = file[d]
      /\ Stage(writing')
  BY LineWritten
<1>2. /\ \A n \in DOMAIN g : n \in DOMAIN file[opened] \/ n \in Names
      /\ \A n \in DOMAIN g : g[n] = mem[n] \/ (n \in DOMAIN file[opened] /\ g[n] = file[opened][n])
  BY LineWritten
<1>3. PICK k \in 0 .. 5 :
        /\ k = Lacking(Len(writing'))
        /\ \A i \in 1 .. 6 : IF i <= 6 - k
                             THEN Layout[i] \in DOMAIN g /\ g[Layout[i]] = mem[Layout[i]]
                             ELSE Layout[i] \notin DOMAIN g
  BY LineWritten
<1>4. Date' = Date
  BY <1>1 DEF Date
<1>5. Layout[1] = "calls" /\ Layout[2] = "totalcalls" /\ Layout[3] = "abandons"
      /\ Layout[4] = "totalabandons" /\ Layout[5] = "datestring"
  BY DEF Layout
<1> HIDE DEF g
<1>6. /\ mem.datestring = Text(Date) /\ Date \in Days /\ Date \in Nat /\ day \in Nat /\ opened \in Nat
      /\ Date <= day /\ day <= Date + 1 /\ opened <= day /\ day \in Days
  BY <1>1 DEF CountersInv, DatesInv, CountersTypeOK, Days
<1>7. CountersTypeOK'
  <2>1. mem \in [Names -> Texts]
    BY DEF CountersInv, CountersTypeOK
  <2>2. \A d \in DOMAIN file : \A n \in DOMAIN file[d] : n \in Names /\ file[d][n] \in Texts
    BY DEF CountersInv, CountersTypeOK
  <2>3. \A n \in DOMAIN g : n \in Names /\ g[n] \in Texts
    BY <1>1, <1>2, <2>1, <2>2
  <2>4. \A d \in DOMAIN file' : \A n \in DOMAIN file'[d] : n \in Names /\ file'[d][n] \in Texts
    BY <1>1, <2>2, <2>3 DEF g
  <2>5. QED BY <1>1, <2>4 DEF CountersInv, CountersTypeOK
<1>8. DatesInv'
  BY <1>1, <1>4 DEF CountersInv, DatesInv
<1>9. OrderInv'
  <2>1. ASSUME "datestring" \in DOMAIN g PROVE Summed \subseteq DOMAIN g /\ Ordered(g)
    <3>1. 5 <= 6 - k
      BY <1>3, <1>5, <2>1
    <3>2. 1 <= 6 - k /\ 2 <= 6 - k /\ 3 <= 6 - k /\ 4 <= 6 - k
      BY <3>1
    <3>3. /\ "calls" \in DOMAIN g /\ g["calls"] = mem["calls"]
          /\ "totalcalls" \in DOMAIN g /\ g["totalcalls"] = mem["totalcalls"]
          /\ "abandons" \in DOMAIN g /\ g["abandons"] = mem["abandons"]
          /\ "totalabandons" \in DOMAIN g /\ g["totalabandons"] = mem["totalabandons"]
      BY <1>3, <1>5, <3>2
    <3>4. QED BY <3>3 DEF CountersInv, OrderInv, Ordered, Summed
  <2>2. \A d \in DOMAIN file' :
          "datestring" \in DOMAIN file'[d] => Summed \subseteq DOMAIN file'[d] /\ Ordered(file'[d])
    <3>1. \A d \in DOMAIN file :
            "datestring" \in DOMAIN file[d] => Summed \subseteq DOMAIN file[d] /\ Ordered(file[d])
      BY DEF CountersInv, OrderInv
    <3>2. QED BY <1>1, <2>1, <3>1 DEF g
  <2>3. QED BY <1>1, <2>2 DEF CountersInv, OrderInv, Ordered
<1>10. WritingInv'
  <2>1. \A i \in 1 .. 6 :
          IF i <= 6 - Lacking(Len(writing'))
          THEN Layout[i] \in DOMAIN file'[opened] /\ file'[opened][Layout[i]] = mem[Layout[i]]
          ELSE Layout[i] \notin DOMAIN file'[opened]
    BY <1>3 DEF g
  <2>2. QED BY <1>1, <1>4, <2>1 DEF WritingInv, Has
<1>11. MemInv'
  BY <1>1, <1>4 DEF CountersInv, MemInv
<1>12. DiskInv'
  <2> SUFFICES ASSUME writing' = <<>>, day \notin torn PROVE Exact(day)'
    BY <1>1 DEF DiskInv
  <2>1. k = 0
    <3>1. Len(<<>>) = 0 /\ Lacking(0) = 0
      BY DEF Lacking
    <3>2. QED BY <1>3, <3>1
  <2>2. /\ "calls" \in DOMAIN g /\ g["calls"] = mem["calls"]
        /\ "abandons" \in DOMAIN g /\ g["abandons"] = mem["abandons"]
        /\ "datestring" \in DOMAIN g /\ g["datestring"] = mem["datestring"]
    <3>1. 1 <= 6 - k /\ 3 <= 6 - k /\ 5 <= 6 - k
      BY <2>1
    <3>2. QED BY <1>3, <1>5, <3>1
  <2>3. ASSUME Date # day PROVE counted[day] = NoCount
    <3>1. day > Date
      BY <1>6, <2>3
    <3>2. QED BY <1>1, <1>6, <3>1 DEF CountersInv, DatesInv
  <2>4. CASE opened = day
    <3>1. Said(g)["datestring"] = Text(Date)
      BY <1>6, <2>2, NamesAre DEF Said
    <3>2. CASE Date = day
      <4>1. mem["calls"] = Text(counted[day].calls) /\ mem["abandons"] = Text(counted[day].abandons)
        BY <1>1, <3>2 DEF CountersInv, MemInv
      <4>2. QED BY <1>1, <2>2, <2>4, <3>1, <3>2, <4>1 DEF Exact, g
    <3>3. CASE Date # day
      <4>1. Text(Date) # Text(day)
        BY <1>6, <3>3, TextFacts
      <4>2. QED BY <1>1, <2>3, <2>4, <3>1, <3>3, <4>1 DEF Exact, g
    <3>4. QED BY <3>2, <3>3
  <2>5. CASE opened # day
    <3>1. ~ day <= opened /\ Date # day
      BY <1>1, <1>6, <2>5
    <3>2. day \notin DOMAIN file'
      BY <1>1, <3>1 DEF CountersInv, DatesInv
    <3>3. QED BY <1>1, <2>3, <3>1, <3>2 DEF Exact
  <2>6. QED BY <2>4, <2>5
<1>13. QED BY <1>7, <1>8, <1>9, <1>10, <1>11, <1>12 DEF CountersInv

LEMMA MidnightInv == ASSUME CountersInv, Midnight PROVE CountersInv'
<1>1. /\ day < LastDay /\ (running => Date = day) /\ day' = day + 1
      /\ UNCHANGED <<running, mem, file, writing, opened, counted, torn>>
  BY DEF Midnight
<1>2. day \in Nat /\ day \in Days /\ opened \in Nat /\ opened <= day /\ day + 1 \in Days
  BY <1>1 DEF CountersInv, CountersTypeOK, DatesInv, Days
<1>3. Date' = Date
  BY <1>1 DEF Date
<1>4. ~ day + 1 <= opened /\ day + 1 > day /\ opened <= day + 1
  BY <1>2
<1>5. CountersTypeOK'
  BY <1>1, <1>2 DEF CountersInv, CountersTypeOK
<1>6. DatesInv'
  <2>1. running => Date <= day + 1 /\ day + 1 <= Date + 1
    BY <1>1, <1>2
  <2>2. \A d \in Days : d > day + 1 => d > day
    BY <1>2 DEF Days
  <2>3. QED BY <1>1, <1>3, <1>4, <2>1, <2>2 DEF CountersInv, DatesInv
<1>7. OrderInv'
  BY <1>1 DEF CountersInv, OrderInv, Ordered
<1>8. WritingInv'
  BY <1>1, <1>3 DEF CountersInv, WritingInv, Has
<1>9. MemInv'
  BY <1>1, <1>3 DEF CountersInv, MemInv
<1>10. DiskInv'
  <2>1. day + 1 \notin DOMAIN file
    BY <1>4 DEF CountersInv, DatesInv
  <2>2. counted[day + 1] = NoCount
    BY <1>2, <1>4 DEF CountersInv, DatesInv
  <2>3. QED BY <1>1, <2>1, <2>2 DEF DiskInv, Exact
<1>11. QED BY <1>5, <1>6, <1>7, <1>8, <1>9, <1>10 DEF CountersInv

LEMMA EndsInv == ASSUME CountersInv, Ends PROVE CountersInv'
<1>1. /\ running /\ running' = FALSE /\ mem' = Zeros /\ writing' = <<>>
      /\ torn' = torn \cup (IF writing = <<>> THEN {} ELSE {opened, Date})
      /\ UNCHANGED <<day, file, opened, counted>>
  BY DEF Ends
<1>2. /\ Date \in Days /\ Date \in Nat /\ day \in Nat /\ opened \in Nat
      /\ Date <= day /\ opened <= day /\ day \in Days
  BY <1>1 DEF CountersInv, CountersTypeOK, DatesInv, Days
<1>3. /\ mem' \in [Names -> Texts] /\ Ordered(mem')
  <2>1. Text(0) \in Texts /\ atoi(Text(0)) = 0
    <3>1. 0 \in Nat
      OBVIOUS
    <3>2. QED BY <3>1, TextFacts
  <2>2. {"calls", "totalcalls", "abandons", "totalabandons"} \subseteq Names
    BY NamesAre
  <2>3. mem'["calls"] = Text(0) /\ mem'["totalcalls"] = Text(0)
        /\ mem'["abandons"] = Text(0) /\ mem'["totalabandons"] = Text(0)
    BY <1>1, <2>2 DEF Zeros
  <2>4. Ordered(mem')
    BY <2>1, <2>3 DEF Ordered
  <2>5. QED BY <1>1, <2>1, <2>4 DEF Zeros
<1>4. CountersTypeOK'
  <2>1. running' \in BOOLEAN
    BY DEF Ends
  <2>2. QED BY <1>1, <1>3, <2>1 DEF CountersInv, CountersTypeOK
<1>5. DatesInv'
  BY <1>1 DEF CountersInv, DatesInv
<1>6. OrderInv'
  BY <1>1, <1>3 DEF CountersInv, OrderInv, Ordered
<1>7. WritingInv'
  <2>1. Len(<<>>) = 0 /\ Lacking(0) = 0
    BY DEF Lacking
  <2>2. QED BY <1>1, <2>1, Stages DEF WritingInv
<1>8. MemInv'
  BY <1>1 DEF MemInv
<1>9. DiskInv'
  <2> SUFFICES ASSUME day \notin torn' PROVE Exact(day)
    BY <1>1 DEF DiskInv, Exact
  <2>1. CASE writing = <<>>
    BY <1>1, <2>1 DEF CountersInv, DiskInv
  <2>2. CASE writing # <<>>
    <3>1. opened # day /\ Date # day
      BY <1>1, <2>2
    <3>2. ~ day <= opened /\ day > Date
      BY <1>2, <3>1
    <3>3. day \notin DOMAIN file /\ counted[day] = NoCount
      BY <1>1, <1>2, <3>2 DEF CountersInv, DatesInv
    <3>4. QED BY <3>3 DEF Exact
  <2>3. QED BY <2>1, <2>2
<1>10. QED BY <1>4, <1>5, <1>6, <1>7, <1>8, <1>9 DEF CountersInv

LEMMA StutterInv == ASSUME CountersInv, UNCHANGED countersvars PROVE CountersInv'
<1>1. UNCHANGED <<day, running, mem, file, writing, opened, counted, torn>>
  BY DEF countersvars
<1>2. Date' = Date
  BY <1>1 DEF Date
<1>3. CountersTypeOK' /\ DatesInv'
  BY <1>1, <1>2 DEF CountersInv, CountersTypeOK, DatesInv
<1>4. OrderInv' /\ WritingInv'
  BY <1>1, <1>2 DEF CountersInv, OrderInv, Ordered, WritingInv, Has
<1>5. MemInv' /\ DiskInv'
  BY <1>1, <1>2 DEF CountersInv, MemInv, DiskInv, Exact
<1>6. QED BY <1>3, <1>4, <1>5 DEF CountersInv

\* For any number of days and counts: every state has the invariant.
THEOREM CountersInvariant == CountersSpec => []CountersInv
<1>1. CountersInit => CountersInv
  BY InitInv
<1>2. CountersInv /\ [CountersNext]_countersvars => CountersInv'
  <2> SUFFICES ASSUME CountersInv, [CountersNext]_countersvars PROVE CountersInv'
    OBVIOUS
  <2>1. CASE Load BY <2>1, LoadInv
  <2>2. CASE CountAbandon BY <2>2, CountAbandonInv
  <2>3. CASE CountMachine BY <2>3, CountMachineInv
  <2>4. ASSUME NEW n \in 1 .. 2, CountCalls(n) PROVE CountersInv'
    BY <2>4, CountCallsInv
  <2>5. CASE Open BY <2>5, OpenInv
  <2>6. CASE FailToOpen BY <2>6, FailToOpenInv
  <2>7. CASE WriteLine BY <2>7, WriteLineInv
  <2>8. CASE Midnight BY <2>8, MidnightInv
  <2>9. CASE Ends BY <2>9, EndsInv
  <2>10. CASE UNCHANGED countersvars BY <2>10, StutterInv
  <2>11. QED BY <2>1, <2>2, <2>3, <2>4, <2>5, <2>6, <2>7, <2>8, <2>9, <2>10 DEF CountersNext
<1>3. QED BY <1>1, <1>2, PTL DEF CountersSpec

\* Refreshes, restarts, midnight and half-written files in any order: the
\* day's calls and abandons in memory, which pace the dialing, are those counted
\* since its day began (AbnHelper::Read and Write), but for days torn.
THEOREM CountersAreExact == CountersSpec => []DayIsExact
<1>1. CountersInv => DayIsExact
  <2> SUFFICES ASSUME CountersInv, running PROVE DayIsExact
    BY DEF DayIsExact
  <2>1. atoi(mem.calls) <= atoi(mem.totalcalls) /\ atoi(mem.abandons) <= atoi(mem.totalabandons)
    BY DEF CountersInv, OrderInv, Ordered
  <2>2. ASSUME Date \notin torn
        PROVE  atoi(mem.calls) = counted[Date].calls /\ atoi(mem.abandons) = counted[Date].abandons
    <3>1. counted[Date].calls \in Nat /\ counted[Date].abandons \in Nat
      BY DEF CountersInv, DatesInv, CountersTypeOK
    <3>2. mem.calls = Text(counted[Date].calls) /\ mem.abandons = Text(counted[Date].abandons)
      BY <2>2 DEF CountersInv, MemInv
    <3>3. QED BY <3>1, <3>2, TextFacts
  <2>3. QED BY <2>1, <2>2 DEF DayIsExact
<1>2. QED BY <1>1, CountersInvariant, PTL
=============================================================================

--------------------------- MODULE Session_proofs ---------------------------
(***************************************************************************)
(* Proofs about a session: for every disk, array, volume group, answer of  *)
(* smartctl and fstab, however often devices are scanned and mount points  *)
(* saved, no operation outlives its device, the two verdicts of SMART      *)
(* agree, and the lines of other partitions stay in fstab.                 *)
(***************************************************************************)
EXTENDS Session, SequenceTheorems, FiniteSetTheorems, WellFoundedInduction, TLAPS

--------------------------------------------------------------------------------
(* SMART: one answer                                                       *)

\* The units of the attributes that the verdict looks at.
LEMMA Units ==
    ASSUME NEW quirk
    PROVE  /\ updateUnit(5, quirk) \in {"Sectors", "Unknown"}
           /\ updateUnit(197, quirk) \in {"Sectors", "Unknown"}
           /\ updateUnit(9, quirk) = "Miliseconds"
           /\ updateUnit(233, quirk) \in {"Percent", "Unknown"}
<1> DEFINE units(id) == {u \in QuirkUnits : u[1] = id /\ u[2] \in quirk}
<1>1. \A id : updateUnit(id, quirk) = IF units(id) = {} THEN tableUnit(id) ELSE (CHOOSE u \in units(id) : TRUE)[3]
  BY DEF updateUnit
<1>2. \A u \in QuirkUnits : /\ u[1] = 5 \/ u[1] = 197 => u[3] = "Unknown"
                            /\ u[1] = 9 => u[3] = "Miliseconds"
                            /\ u[1] = 233 => u[3] = "Percent"
  BY DEF QuirkUnits
<1>3. /\ tableUnit(5) = "Sectors" /\ tableUnit(197) = "Sectors" /\ tableUnit(9) = "Miliseconds"
      /\ tableUnit(233) = "Unknown"
  BY DEF tableUnit
<1>4. \A id : \A u \in units(id) : u \in QuirkUnits /\ u[1] = id OBVIOUS
<1> HIDE DEF units
<1>5. \A id : units(id) # {} => (CHOOSE u \in units(id) : TRUE) \in units(id) OBVIOUS
<1> QED BY <1>1, <1>2, <1>3, <1>4, <1>5

\* The value of an attribute of sectors.
LEMMA SectorValue ==
    ASSUME NEW a \in Attribute, NEW id \in {5, 197}, NEW unit
    PROVE  makePretty(id, a, unit) \in Nat /\ (unit = "Unknown" => makePretty(id, a, unit) = 0)
<1>1. a.raw \in Nat /\ Long \in Nat /\ Long > 0 BY SmartAssumption DEF Attribute
<1>2. a.raw % Long \in Nat BY <1>1
<1> QED BY <1>2 DEF makePretty

\* What the overall verdict and the table look at in an attribute.
LEMMA ParsedFields ==
    ASSUME NEW answer, NEW id, NEW a, a = answer.table[id], a \in Attribute,
           NEW now \in BOOLEAN, now <=> Valid(a.thresh) /\ Valid(a.value) /\ a.value <= a.thresh,
           NEW past \in BOOLEAN, past <=> Valid(a.thresh) /\ Valid(a.worst) /\ a.worst <= a.thresh,
           NEW first, first = updateUnit(id, answer.quirk),
           NEW pretty, pretty = makePretty(id, a, first)
    PROVE  LET p == Parsed(answer, id)
           IN  /\ p.badNow <=> now
               /\ p.badInThePast <=> past
               /\ p.prefailure = a.prefailure
               /\ p.pretty = pretty
               /\ p.unit = verifyAttribute(id, first, pretty, answer.sectors)
BY DEF Parsed

\* The table shows a pre-failure attribute as failing exactly if it fails now.
LEMMA Assessed ==
    ASSUME NEW a \in Attribute, NEW parsed, a.prefailure
    PROVE  /\ getAssessment(a, parsed) = "Failing" <=> parsed.badNow
           /\ getAssessment(a, parsed) = "HasFailed" <=> ~parsed.badNow /\ parsed.badInThePast
BY DEF getAssessment

\* What of an attribute is shown and counted can be, if it is of a known unit.
LEMMA ParsedValue ==
    ASSUME NEW answer, Answer(answer), NEW id \in DOMAIN answer.table
    PROVE  LET p == Parsed(answer, id)
           IN  /\ id \in {5, 197} =>
                      /\ p.pretty \in Nat
                      /\ p.pretty > 0 /\ p.pretty < 65536 /\ p.pretty <= answer.sectors => p.unit = "Sectors"
               /\ p.unit = "Milikelvin" => p.pretty \in Milikelvin(-15) .. Milikelvin(100)
               /\ id = 9 /\ p.unit = "Miliseconds" => p.pretty \in 1 .. ThirtyYears
               /\ id = 233 => p.unit # "Miliseconds"
<1> DEFINE a == answer.table[id]
           first == updateUnit(id, answer.quirk)
           pretty == makePretty(id, a, first)
           p == Parsed(answer, id)
<1>1. a \in Attribute /\ answer.sectors \in Nat BY DEF Answer
<1>2. p.pretty = pretty /\ p.unit = verifyAttribute(id, first, pretty, answer.sectors)
  <2> DEFINE now == Valid(a.thresh) /\ Valid(a.value) /\ a.value <= a.thresh
             past == Valid(a.thresh) /\ Valid(a.worst) /\ a.worst <= a.thresh
  <2>1. now \in BOOLEAN /\ past \in BOOLEAN OBVIOUS
  <2>2. /\ now <=> Valid(a.thresh) /\ Valid(a.value) /\ a.value <= a.thresh
        /\ past <=> Valid(a.thresh) /\ Valid(a.worst) /\ a.worst <= a.thresh
    OBVIOUS
  <2> HIDE DEF now, past
  <2>3. a = answer.table[id] /\ first = updateUnit(id, answer.quirk) /\ pretty = makePretty(id, a, first)
        /\ p = Parsed(answer, id)
    OBVIOUS
  <2> HIDE DEF a, first, pretty, p
  <2> QED BY ONLY <1>1, <2>1, <2>2, <2>3, ParsedFields
<1>3. id \in {5, 197} => /\ first \in {"Sectors", "Unknown"} /\ pretty \in Nat
                         /\ first = "Unknown" => pretty = 0
  BY <1>1, Units, SectorValue
<1>4. id = 9 => first = "Miliseconds" BY Units
<1>5. id = 233 => first \in {"Percent", "Unknown"} BY Units
<1> HIDE DEF a, first, pretty, p
<1>6. ASSUME id \in {5, 197}, pretty > 0, pretty < 65536, pretty <= answer.sectors PROVE p.unit = "Sectors"
  BY <1>1, <1>2, <1>3, <1>6, SmartAssumption DEF verifyAttribute
<1>7. p.unit = "Milikelvin" => p.pretty \in Milikelvin(-15) .. Milikelvin(100)
  BY <1>2 DEF verifyAttribute
<1>8. id = 9 /\ p.unit = "Miliseconds" => p.pretty \in 1 .. ThirtyYears
  BY <1>2, <1>4 DEF verifyAttribute
<1>9. id = 233 => p.unit # "Miliseconds" BY <1>2, <1>5 DEF verifyAttribute
<1> QED BY <1>2, <1>3, <1>6, <1>7, <1>8, <1>9 DEF p

\* The value that FirstWithUnit() gives is one of its attributes', or nothing.
LEMMA FirstIsOne ==
    ASSUME NEW parsed, NEW ids, DOMAIN ids \subseteq 1 .. 3, NEW unit
    PROVE  \/ FirstWithUnit(parsed, ids, unit) = 0
           \/ \E i \in DOMAIN ids : /\ ids[i] \in DOMAIN parsed /\ parsed[ids[i]].unit = unit
                                /\ FirstWithUnit(parsed, ids, unit) = parsed[ids[i]].pretty
<1> DEFINE usable == {i \in DOMAIN ids : ids[i] \in DOMAIN parsed /\ parsed[ids[i]].unit = unit}
           least == CHOOSE i \in usable : \A j \in usable : i <= j
<1>1. FirstWithUnit(parsed, ids, unit) = IF usable = {} THEN 0 ELSE parsed[ids[least]].pretty BY DEF FirstWithUnit
<1>2. CASE usable # {}
  <2>1. usable \subseteq 1 .. 3 BY DEF usable
  <2>2. \E i \in usable : \A j \in usable : i <= j
    <3> HIDE DEF usable
    <3>1. \A j \in usable : j = 1 \/ j = 2 \/ j = 3 BY <2>1
    <3> QED BY <1>2, <3>1
  <2>3. least \in usable
    <3> HIDE DEF usable
    <3> QED BY <2>2
  <2> QED BY <1>1, <1>2, <2>3
<1> QED BY <1>1, <1>2

\* The verdict on an answer matches the table.
LEMMA VerdictMatches ==
    ASSUME NEW answer, answer # NoAnswer, Answer(answer), NEW status
    PROVE  VerdictMatchesTable(update(status, answer))
<1> DEFINE table  == answer.table
           parsed == [id \in DOMAIN table |-> Parsed(answer, id)]
           bad    == updateBadSectors(parsed)
           many   == u64log2(answer.sectors) * 1024
           overall == updateOverall(answer, parsed, bad)
           s      == update(status, answer)
           Now(id)  == Valid(table[id].thresh) /\ Valid(table[id].value) /\ table[id].value <= table[id].thresh
           Past(id) == Valid(table[id].thresh) /\ Valid(table[id].worst) /\ table[id].worst <= table[id].thresh
<1>1. s = [valid |-> TRUE, status |-> answer.passed, overall |-> overall,
           badSectors |-> bad, temp |-> updateTemperature(parsed), poweredOn |-> updatePowerOn(parsed),
           powerCycles |-> updatePowerCycle(parsed),
           attributes |-> [id \in DOMAIN parsed |->
               [prefailure |-> parsed[id].prefailure, unit |-> parsed[id].unit, value |-> parsed[id].pretty,
                assessment |-> getAssessment(table[id], parsed[id])]]]
  BY DEF update
<1>2. DOMAIN parsed = DOMAIN table /\ \A id \in DOMAIN table : parsed[id] = Parsed(answer, id) /\ table[id] \in Attribute
  BY DEF Answer
<1>3. \A id \in DOMAIN table : /\ parsed[id].prefailure = table[id].prefailure
                               /\ parsed[id].badNow <=> Now(id)
                               /\ parsed[id].badInThePast <=> Past(id)
  <2> SUFFICES ASSUME NEW id \in DOMAIN table
               PROVE  /\ parsed[id].prefailure = table[id].prefailure
                      /\ parsed[id].badNow <=> Now(id)
                      /\ parsed[id].badInThePast <=> Past(id)
    OBVIOUS
  <2> DEFINE a == table[id]
             now == Now(id)
             past == Past(id)
             first == updateUnit(id, answer.quirk)
             pretty == makePretty(id, a, first)
  <2>1. now \in BOOLEAN /\ past \in BOOLEAN OBVIOUS
  <2>2. /\ now <=> Valid(a.thresh) /\ Valid(a.value) /\ a.value <= a.thresh
        /\ past <=> Valid(a.thresh) /\ Valid(a.worst) /\ a.worst <= a.thresh
    OBVIOUS
  <2>3. a = answer.table[id] /\ first = updateUnit(id, answer.quirk) /\ pretty = makePretty(id, a, first)
    OBVIOUS
  <2>4. a \in Attribute /\ parsed[id] = Parsed(answer, id) BY <1>2
  <2>5. /\ parsed[id].prefailure = a.prefailure
        /\ parsed[id].badNow <=> now
        /\ parsed[id].badInThePast <=> past
    <3> HIDE DEF a, now, past, first, pretty, parsed, table
    <3> QED BY ONLY <2>1, <2>2, <2>3, <2>4, ParsedFields
  <2> QED BY <2>5
<1> HIDE DEF overall, s
<1>4. /\ s.valid /\ s.status = answer.passed /\ s.overall = overall /\ s.temp = updateTemperature(parsed)
      /\ s.poweredOn = updatePowerOn(parsed) /\ DOMAIN s.attributes = DOMAIN table
      /\ \A id \in DOMAIN table : /\ s.attributes[id].prefailure = table[id].prefailure
                                  /\ s.attributes[id].unit = parsed[id].unit
                                  /\ s.attributes[id].value = parsed[id].pretty
                                  /\ s.attributes[id].assessment = getAssessment(table[id], parsed[id])
  <2> HIDE DEF parsed, bad
  <2> QED BY <1>1, <1>2, <1>3
<1> HIDE DEF parsed, bad, many, Now, Past
<1>5. \A id \in DOMAIN table : table[id].prefailure =>
          /\ s.attributes[id].assessment = "Failing" <=> Now(id)
          /\ s.attributes[id].assessment = "HasFailed" <=> ~Now(id) /\ Past(id)
  BY <1>2, <1>3, <1>4, Assessed
<1>6. /\ bad \in Nat
      /\ bad = 0 => \A id \in DOMAIN table \cap {5, 197} : parsed[id].pretty = 0
      /\ bad > 0 => \E id \in DOMAIN table \cap {5, 197} : parsed[id].pretty > 0 /\ parsed[id].pretty <= bad
  <2> DEFINE Of(id) == IF id \in DOMAIN parsed THEN parsed[id].pretty ELSE 0
  <2>1. bad = Of(5) + Of(197) BY DEF bad, updateBadSectors
  <2>2. \A id \in DOMAIN table \cap {5, 197} : parsed[id].pretty \in Nat BY <1>2, ParsedValue
  <2>3. Of(5) \in Nat /\ Of(197) \in Nat BY <1>2, <2>2
  <2>4. \A id \in DOMAIN table \cap {5, 197} : Of(id) = parsed[id].pretty BY <1>2
  <2>5. \A id \in {5, 197} : Of(id) # 0 => id \in DOMAIN table BY <1>2
  <2> HIDE DEF Of
  <2> QED BY <2>1, <2>3, <2>4, <2>5
<1>7. many \in Nat /\ many <= answer.sectors /\ many < 65536 /\ answer.sectors \in Nat
  BY DEF many, Answer
<1>8. overall = IF ~answer.passed THEN "Bad"
                ELSE IF bad >= many THEN "BadSectorsMany"
                ELSE IF \E id \in DOMAIN table : table[id].prefailure /\ Now(id) THEN "BadNow"
                ELSE IF bad > 0 THEN "BadSectors"
                ELSE IF \E id \in DOMAIN table : table[id].prefailure /\ Past(id) THEN "BadPast" ELSE "Good"
  BY <1>2, <1>3 DEF overall, many, updateOverall
<1>9. s.temp = 0 \/ s.temp \in Milikelvin(-15) .. Milikelvin(100)
  <2> DEFINE ids == <<231, 194, 190>>
  <2>1. DOMAIN ids \subseteq 1 .. 3 OBVIOUS
  <2>2. s.temp = FirstWithUnit(parsed, ids, "Milikelvin") BY <1>4 DEF updateTemperature
  <2> HIDE DEF ids
  <2>3. \/ s.temp = 0
        \/ \E i \in DOMAIN ids : /\ ids[i] \in DOMAIN parsed /\ parsed[ids[i]].unit = "Milikelvin"
                             /\ s.temp = parsed[ids[i]].pretty
    BY ONLY <2>1, <2>2, FirstIsOne
  <2> QED BY <2>3, <1>2, ParsedValue
<1>10. s.poweredOn \in 0 .. ThirtyYears
  <2> DEFINE ids == <<9, 233>>
  <2>1. DOMAIN ids \subseteq 1 .. 3 /\ \A i \in DOMAIN ids : ids[i] \in {9, 233} OBVIOUS
  <2>2. s.poweredOn = FirstWithUnit(parsed, ids, "Miliseconds") BY <1>4 DEF updatePowerOn
  <2> HIDE DEF ids
  <2>3. \/ s.poweredOn = 0
        \/ \E i \in DOMAIN ids : /\ ids[i] \in DOMAIN parsed /\ parsed[ids[i]].unit = "Miliseconds"
                             /\ s.poweredOn = parsed[ids[i]].pretty
    BY ONLY <2>1, <2>2, FirstIsOne
  <2>4. ThirtyYears \in Nat BY DEF ThirtyYears
  <2>5. s.poweredOn = 0 \/ s.poweredOn \in 1 .. ThirtyYears BY <2>1, <2>3, <1>2, ParsedValue
  <2> QED BY <2>4, <2>5
<1>11. ASSUME overall = "BadSectors"
       PROVE  \E id \in DOMAIN table \cap {5, 197} : s.attributes[id].unit = "Sectors" /\ s.attributes[id].value > 0
  <2>1. bad > 0 /\ bad < many BY <1>6, <1>7, <1>8, <1>11
  <2>2. PICK id \in DOMAIN table \cap {5, 197} : parsed[id].pretty > 0 /\ parsed[id].pretty <= bad BY <1>6, <2>1
  <2>3. parsed[id].pretty \in Nat BY <1>2, <2>2, ParsedValue
  <2>4. parsed[id].pretty < 65536 /\ parsed[id].pretty <= answer.sectors BY <1>6, <1>7, <2>1, <2>2, <2>3
  <2>5. parsed[id].unit = "Sectors" BY <1>2, <2>2, <2>4, ParsedValue
  <2> QED BY <1>4, <2>2, <2>5
<1> DEFINE Assess(v) == {id \in DOMAIN s.attributes : s.attributes[id].prefailure /\ s.attributes[id].assessment = v}
           Warned == {id \in DOMAIN s.attributes \cap {5, 197} :
                          s.attributes[id].unit = "Sectors" /\ s.attributes[id].value > 0}
<1>12. /\ overall = "BadNow" => Assess("Failing") # {}
       /\ overall \in {"BadSectors", "BadPast", "Good"} => Assess("Failing") = {}
       /\ overall = "BadPast" => Assess("HasFailed") # {}
       /\ overall = "Good" => Assess("HasFailed") = {}
       /\ overall \in {"BadPast", "Good"} => bad = 0 /\ answer.passed
  BY <1>4, <1>5, <1>6, <1>8
<1>13. overall \in {"BadPast", "Good"} => Warned = {} BY <1>4, <1>6, <1>12
<1>14. overall = "BadSectors" => Warned # {} BY <1>4, <1>11
<1> HIDE DEF Assess, Warned
<1>15. /\ s.overall = "Good" => s.status /\ Assess("Failing") \cup Assess("HasFailed") \cup Warned = {}
       /\ s.overall = "BadPast" => Assess("Failing") = {} /\ Assess("HasFailed") # {} /\ Warned = {}
       /\ s.overall = "BadNow" => Assess("Failing") # {}
       /\ s.overall = "BadSectors" => Warned # {} /\ Assess("Failing") = {}
  BY <1>4, <1>12, <1>13, <1>14
<1> QED BY <1>9, <1>10, <1>15 DEF VerdictMatchesTable, Assess, Warned, s

--------------------------------------------------------------------------------
(* Lists of devices                                                        *)

\* A device of which SMART tells one thing.
Told(d) == \E gen, node, class, status, table, volumes, smart :
               /\ d = [gen |-> gen, node |-> node, class |-> class, status |-> status, table |-> table,
                       volumes |-> volumes, smart |-> smart]
               /\ VerdictMatchesTable(smart)

ListOf(l) == \E S : l \in Seq(S) /\ \A d \in S : Told(d)

\* The elements of a list.
LEMMA ListElements ==
    ASSUME NEW l, ListOf(l)
    PROVE  /\ DOMAIN l = 1 .. Len(l) /\ Len(l) \in Nat
           /\ \A i \in 1 .. Len(l) : Told(l[i])
           /\ \A d \in Range(l) : Told(d)
           /\ \A i \in 1 .. Len(l) : l[i] \in Range(l)
BY DEF ListOf, Range

\* What is cut out of a list.
LEMMA ListCut ==
    ASSUME NEW l, ListOf(l), NEW m \in Nat, NEW n \in Nat, n <= Len(l), m > 0
    PROVE  ListOf(SubSeq(l, m, n)) /\ Len(SubSeq(l, m, n)) = IF m <= n THEN n - m + 1 ELSE 0
<1>1. PICK S : l \in Seq(S) /\ \A d \in S : Told(d) BY DEF ListOf
<1>2. SubSeq(l, m, n) \in Seq(S) /\ Len(SubSeq(l, m, n)) = IF m <= n THEN n - m + 1 ELSE 0 BY <1>1
<1> QED BY <1>1, <1>2 DEF ListOf

\* The first device of a list, and the others.
LEMMA ListTail ==
    ASSUME NEW l, ListOf(l), l # <<>>
    PROVE  ListOf(Tail(l)) /\ Told(Head(l)) /\ Len(l) > 0
<1>1. PICK S : l \in Seq(S) /\ \A d \in S : Told(d) BY DEF ListOf
<1>2. Tail(l) \in Seq(S) /\ Head(l) \in S /\ Len(l) > 0 BY <1>1
<1> QED BY <1>1, <1>2 DEF ListOf

\* One list behind another.
LEMMA ListConcat ==
    ASSUME NEW k, ListOf(k), NEW l, ListOf(l)
    PROVE  ListOf(k \o l) /\ Len(k \o l) = Len(k) + Len(l)
<1>1. PICK S : k \in Seq(S) /\ \A d \in S : Told(d) BY DEF ListOf
<1>2. PICK T : l \in Seq(T) /\ \A d \in T : Told(d) BY DEF ListOf
<1>3. k \in Seq(S \cup T) /\ l \in Seq(S \cup T) BY <1>1, <1>2
<1>4. k \o l \in Seq(S \cup T) /\ Len(k \o l) = Len(k) + Len(l) BY <1>3
<1> QED BY <1>1, <1>2, <1>4 DEF ListOf

\* A sequence over a set of devices.
LEMMA ListBy ==
    ASSUME NEW l, NEW S, l \in Seq(S), \A d \in S : Told(d)
    PROVE  ListOf(l)
BY DEF ListOf

\* No device, and a single one.
LEMMA ListOne ==
    /\ ListOf(<<>>)
    /\ \A d : Told(d) => ListOf(<<d>>)
<1>1. ASSUME NEW l, NEW S, l = <<>>, S = {} PROVE ListOf(l)
  <2>1. l \in Seq(S) /\ \A d \in S : Told(d) BY <1>1
  <2> QED BY ONLY <2>1, ListBy
<1>2. ASSUME NEW d, Told(d), NEW l, NEW S, l = <<d>>, S = {d} PROVE ListOf(l)
  <2>1. l \in Seq(S) /\ \A e \in S : Told(e) BY <1>2
  <2> QED BY ONLY <2>1, ListBy
<1> QED BY <1>1, <1>2

\* A device behind those of a list.
LEMMA ListAppend ==
    ASSUME NEW l, ListOf(l), NEW d, Told(d)
    PROVE  ListOf(Append(l, d))
<1>1. PICK S : l \in Seq(S) /\ \A e \in S : Told(e) BY DEF ListOf
<1>2. l \in Seq(S \cup {d}) /\ d \in S \cup {d} BY <1>1
<1>3. Append(l, d) \in Seq(S \cup {d}) BY <1>2
<1> QED BY <1>1, <1>3 DEF ListOf

\* A sequence of any length of devices is a list.
LEMMA ListMade ==
    ASSUME NEW n \in Nat, NEW f, f = [i \in 1 .. n |-> f[i]], \A i \in 1 .. n : Told(f[i])
    PROVE  ListOf(f)
<1> DEFINE S == {f[i] : i \in 1 .. n}
<1>1. f \in [1 .. n -> S] OBVIOUS
<1>2. \A d \in S : Told(d) OBVIOUS
<1> HIDE DEF S
<1>3. f \in Seq(S) BY <1>1
<1> QED BY <1>2, <1>3 DEF ListOf

\* The devices of a finite set, in any order.
LEMMA ListOfSet ==
    ASSUME NEW S, IsFiniteSet(S), \A d \in S : Told(d)
    PROVE  ListOf(SetToSeq(S))
<1>1. Cardinality(S) \in Nat /\ ExistsBijection(1 .. Cardinality(S), S) BY FS_CardinalityType
<1>2. PICK f \in [1 .. Cardinality(S) -> S] : IsInjective(f)
  BY <1>1 DEF ExistsBijection, Bijection, Injection, IsInjective
<1>3. SetToSeq(S) \in [1 .. Cardinality(S) -> S] BY <1>2 DEF SetToSeq
<1>4. SetToSeq(S) \in Seq(S) BY <1>1, <1>3
<1> QED BY <1>4 DEF ListOf

\* A set of numbers has a least one.
LEMMA LeastNumber ==
    ASSUME NEW T, T \subseteq Nat, T # {}
    PROVE  \E x \in T : \A y \in T : x <= y
<1> DEFINE R == OpToRel(<, Nat)
<1>1. IsWellFoundedOn(R, Nat) BY NatLessThanWellFounded
<1>2. \A x, y \in Nat : <<y, x>> \in R <=> y < x BY DEF OpToRel
<1> HIDE DEF R
<1>3. PICK x \in T : \A y \in T : ~(<<y, x>> \in R) BY <1>1, WFMin
<1>4. ASSUME NEW y \in T PROVE x <= y
  <2>1. x \in Nat /\ y \in Nat BY <1>3
  <2>2. ~(y < x) BY <1>2, <1>3, <2>1
  <2> QED BY <2>1, <2>2
<1> QED BY <1>4

\* The greatest of a bounded set of numbers is the one that Max() gives.
LEMMA GreatestNumber ==
    ASSUME NEW n \in Nat, NEW S, S \subseteq 0 .. n, S # {}
    PROVE  Max(S) \in S /\ \A y \in S : Max(S) >= y
<1> DEFINE T == {n - i : i \in S}
<1>1. T \subseteq Nat /\ T # {}
  <2>1. \A i \in 0 .. n : n - i \in Nat BY ONLY n \in Nat
  <2>2. \A i \in S : n - i \in Nat BY <2>1
  <2>3. T # {} OBVIOUS
  <2> QED BY <2>2, <2>3
<1>2. PICK x \in T : \A y \in T : x <= y BY <1>1, LeastNumber
<1>3. \E i \in S : \A j \in S : i >= j
  <2>1. PICK i \in S : x = n - i BY <1>2
  <2>2. \A j \in S : x <= n - j BY <1>2
  <2>3. \A j \in 0 .. n : j \in Int /\ n \in Int BY n \in Nat
  <2>4. \A j \in S : i >= j BY <2>1, <2>2, <2>3
  <2> QED BY <2>4
<1> QED BY <1>3 DEF Max

\* Inserting a device into a list.
LEMMA ListInsert ==
    ASSUME NEW l, ListOf(l), NEW d, Told(d)
    PROVE  ListOf(Insert(l, d)) /\ Len(Insert(l, d)) = Len(l) + 1
<1> DEFINE greater == {i \in DOMAIN l : ~deviceLessThan(d, l[i])}
           behind  == IF l = <<>> \/ deviceLessThan(d, Head(l)) THEN 0 ELSE Max({0} \cup greater)
<1>1. DOMAIN l = 1 .. Len(l) /\ Len(l) \in Nat BY ListElements
<1>2. behind \in 0 .. Len(l)
  <2>1. {0} \cup greater \subseteq 0 .. Len(l) /\ {0} \cup greater # {} BY <1>1
  <2> HIDE DEF greater
  <2>2. Max({0} \cup greater) \in {0} \cup greater BY <1>1, <2>1, GreatestNumber
  <2> QED BY <1>1, <2>1, <2>2
<1>3. Insert(l, d) = SubSeq(l, 1, behind) \o <<d>> \o SubSeq(l, behind + 1, Len(l)) BY DEF Insert
<1> HIDE DEF behind
<1> DEFINE front == SubSeq(l, 1, behind)
           back  == SubSeq(l, behind + 1, Len(l))
           one   == <<d>>
<1>4. ListOf(front) /\ Len(front) = behind
  <2>1. behind \in Nat /\ behind <= Len(l) /\ 1 \in Nat /\ 1 > 0 BY <1>1, <1>2
  <2>2. ListOf(SubSeq(l, 1, behind)) /\ Len(SubSeq(l, 1, behind)) = IF 1 <= behind THEN behind - 1 + 1 ELSE 0
    BY <2>1, ListCut
  <2> QED BY <2>1, <2>2
<1>5. ListOf(back) /\ Len(back) = Len(l) - behind
  <2>1. behind \in Nat /\ behind + 1 \in Nat /\ behind + 1 > 0 /\ behind <= Len(l) /\ Len(l) <= Len(l) BY <1>1, <1>2
  <2>2. /\ ListOf(SubSeq(l, behind + 1, Len(l)))
        /\ Len(SubSeq(l, behind + 1, Len(l))) = IF behind + 1 <= Len(l) THEN Len(l) - (behind + 1) + 1 ELSE 0
    BY <1>1, <2>1, ListCut
  <2>3. (IF behind + 1 <= Len(l) THEN Len(l) - (behind + 1) + 1 ELSE 0) = Len(l) - behind
    <3>1. \A a, b \in Nat : a <= b => (IF a + 1 <= b THEN b - (a + 1) + 1 ELSE 0) = b - a OBVIOUS
    <3> QED BY <1>1, <2>1, <3>1
  <2>4. ListOf(back) /\ Len(back) = IF behind + 1 <= Len(l) THEN Len(l) - (behind + 1) + 1 ELSE 0 BY ONLY <2>2
  <2> HIDE DEF back
  <2> QED BY <2>3, <2>4
<1>6. ListOf(one) /\ Len(one) = 1 BY ListOne
<1> HIDE DEF front, back, one
<1>7. ListOf(front \o one) /\ Len(front \o one) = behind + 1 BY <1>4, <1>6, ListConcat
<1>8. ListOf((front \o one) \o back) /\ Len((front \o one) \o back) = Len(l) + 1
  <2> DEFINE k == front \o one
  <2>1. ListOf(k) /\ Len(k) = behind + 1 BY <1>7
  <2> HIDE DEF k
  <2>2. ListOf(k \o back) /\ Len(k \o back) = Len(k) + Len(back) BY <1>5, <2>1, ListConcat
  <2>3. Len(k \o back) = Len(l) + 1 BY <1>1, <1>2, <1>5, <2>1, <2>2
  <2> QED BY <2>2, <2>3 DEF k
<1> QED BY <1>3, <1>8 DEF front, back, one

--------------------------------------------------------------------------------
(* fstab                                                                   *)

IsLine(e) == e = Line(e.fields, e.spec, e.point, e.swap) /\ e.fields \in Nat /\ e.swap \in BOOLEAN
FileOf(f) == \E S : f \in Seq(S) /\ \A e \in S : IsLine(e)

\* The entries that the editor has are those of the file, as far as they mount something else.
Keeps(file, entries) ==
    /\ \A i \in DOMAIN file : Other(file[i]) => i \in DOMAIN entries /\ entries[i] = file[i]
    /\ \A i \in DOMAIN entries : Other(entries[i]) => i \in DOMAIN file /\ Other(file[i])
    /\ \A i \in DOMAIN entries : entries[i].fields \in {0} \cup 4 .. 6

FstabInv ==
    /\ editor = [phase |-> editor.phase, entries |-> editor.entries, read |-> editor.read]
    /\ FileOf(fstab) /\ FileOf(editor.entries) /\ FileOf(editor.read)
    /\ editor.phase \in {"open", "edited", "writing"} => Keeps(editor.read, editor.entries)
    /\ OthersKept

\* A sequence over a set of lines.
LEMMA FileBy ==
    ASSUME NEW f, NEW S, f \in Seq(S), \A e \in S : IsLine(e)
    PROVE  FileOf(f)
BY DEF FileOf

\* The lines of a file.
LEMMA FileLines ==
    ASSUME NEW f, FileOf(f)
    PROVE  DOMAIN f = 1 .. Len(f) /\ Len(f) \in Nat /\ \A i \in 1 .. Len(f) : IsLine(f[i])
BY DEF FileOf

\* A sequence of any length of lines is a file.
LEMMA FileMade ==
    ASSUME NEW n \in Nat, NEW f, f = [i \in 1 .. n |-> f[i]], \A i \in 1 .. n : IsLine(f[i])
    PROVE  FileOf(f)
<1> DEFINE S == {f[i] : i \in 1 .. n}
<1>1. f \in [1 .. n -> S] OBVIOUS
<1>2. \A d \in S : IsLine(d) OBVIOUS
<1> HIDE DEF S
<1>3. f \in Seq(S) BY <1>1
<1> QED BY ONLY <1>2, <1>3, FileBy

\* A truncated file.
LEMMA EmptyFile == FileOf(<<>>)
<1> SUFFICES ASSUME NEW f, f = <<>> PROVE FileOf(f) OBVIOUS
<1>1. f = [i \in 1 .. 0 |-> f[i]] /\ \A i \in 1 .. 0 : IsLine(f[i]) OBVIOUS
<1> QED BY ONLY <1>1, FileMade, 0 \in Nat

\* Reading a file gives an entry for each line, those that mount something as they are.
LEMMA ReadKeeps ==
    ASSUME NEW file, FileOf(file)
    PROVE  FileOf(readFstabEntries(file)) /\ Keeps(file, readFstabEntries(file))
<1> DEFINE entries == readFstabEntries(file)
<1>1. DOMAIN file = 1 .. Len(file) /\ Len(file) \in Nat /\ \A i \in 1 .. Len(file) : IsLine(file[i]) BY FileLines
<1>2. entries = [i \in 1 .. Len(file) |-> Entry(file[i])] BY <1>1 DEF readFstabEntries
<1>3. \A e : IsLine(e) => /\ IsLine(Entry(e)) /\ Entry(e).fields \in {0} \cup 4 .. 6
                          /\ Other(e) => Entry(e) = e
                          /\ Other(Entry(e)) => Entry(e) = e
  <2>1. IsLine(Dropped) /\ Dropped.fields = 0 /\ ~Other(Dropped) BY DEF IsLine, Dropped, Line, Other
  <2>2. ASSUME NEW e, IsLine(e)
        PROVE  /\ IsLine([e EXCEPT !.fields = 0]) /\ [e EXCEPT !.fields = 0].fields = 0
               /\ ~Other([e EXCEPT !.fields = 0])
    BY <2>2 DEF IsLine, Line, Other
  <2>3. \A e : IsLine(e) => e.fields \in Nat BY DEF IsLine
  <2>4. \A e : Other(e) => e.fields \in 4 .. 6 BY DEF Other
  <2> QED BY <2>1, <2>2, <2>3, <2>4 DEF Entry
<1> HIDE DEF entries
<1>4. DOMAIN entries = 1 .. Len(file) /\ \A i \in 1 .. Len(file) : entries[i] = Entry(file[i]) BY <1>2
<1>5. FileOf(entries)
  <2>1. entries = [i \in 1 .. Len(file) |-> entries[i]] /\ \A i \in 1 .. Len(file) : IsLine(entries[i])
    BY <1>1, <1>2, <1>3, <1>4
  <2> QED BY ONLY <1>1, <2>1, FileMade
<1>6. Keeps(file, entries) BY <1>1, <1>3, <1>4 DEF Keeps
<1> QED BY <1>5, <1>6 DEF entries

\* Writing the entries keeps what mounts something.
LEMMA WriteKeeps ==
    ASSUME NEW file, FileOf(file), NEW entries, FileOf(entries), Keeps(file, entries),
           NEW written, written = generateFstab(entries)
    PROVE  /\ FileOf(written) /\ Len(written) \in Nat
           /\ \A n \in 0 .. Len(written) : FileOf(SubSeq(written, 1, n))
           /\ \A i \in DOMAIN file : Other(file[i]) =>
                  i \in DOMAIN written /\ written[i] = [file[i] EXCEPT !.fields = 6]
           /\ \A i \in DOMAIN written : Other(written[i]) => i \in DOMAIN file /\ Other(file[i])
<1>1. DOMAIN entries = 1 .. Len(entries) /\ Len(entries) \in Nat /\ \A i \in 1 .. Len(entries) : IsLine(entries[i])
  BY FileLines
<1>2. /\ written = [i \in 1 .. Len(entries) |-> Written(entries[i])]
      /\ DOMAIN written = 1 .. Len(entries) /\ \A i \in 1 .. Len(entries) : written[i] = Written(entries[i])
  BY <1>1 DEF generateFstab
<1>3. \A e : IsLine(e) => /\ IsLine(Written(e))
                          /\ Other(e) => Written(e) = [e EXCEPT !.fields = 6]
                          /\ Other(Written(e)) /\ e.fields \in {0} \cup 4 .. 6 => Other(e)
  <2>1. IsLine(Dropped) /\ ~Other(Dropped) BY DEF IsLine, Dropped, Line, Other
  <2>2. ASSUME NEW e, IsLine(e)
        PROVE  /\ IsLine([e EXCEPT !.fields = 6])
               /\ [e EXCEPT !.fields = 6].spec = e.spec /\ [e EXCEPT !.fields = 6].point = e.point
               /\ [e EXCEPT !.fields = 6].swap = e.swap
    BY <2>2 DEF IsLine, Line
  <2>3. SUFFICES ASSUME NEW e, IsLine(e)
                 PROVE  /\ IsLine(Written(e))
                        /\ Other(e) => Written(e) = [e EXCEPT !.fields = 6]
                        /\ Other(Written(e)) /\ e.fields \in {0} \cup 4 .. 6 => Other(e)
    OBVIOUS
  <2>4. CASE IsComment(e)
    <3>1. Written(e) = e /\ e.fields = 0 BY <2>4 DEF Written, IsComment
    <3> QED BY <2>3, <3>1 DEF Other
  <2>5. CASE ~IsComment(e) /\ e.point = NoPoint /\ ~e.swap
    <3>1. Written(e) = Dropped BY <2>5 DEF Written
    <3> QED BY <2>1, <2>5, <3>1 DEF Other
  <2>6. CASE ~IsComment(e) /\ (e.point # NoPoint \/ e.swap)
    <3>1. Written(e) = [e EXCEPT !.fields = 6] BY <2>6 DEF Written
    <3>2. IsLine(Written(e)) BY <2>2, <2>3, <3>1
    <3>3. Other(Written(e)) => e.spec # Edited BY <2>2, <2>3, <3>1 DEF Other
    <3>4. Other(Written(e)) /\ e.fields \in {0} \cup 4 .. 6 => Other(e) BY <2>6, <3>3 DEF Other, IsComment
    <3> QED BY <3>1, <3>2, <3>4
  <2> QED BY <2>4, <2>5, <2>6
<1>4. FileOf(written)
  <2>1. written = [i \in 1 .. Len(entries) |-> written[i]] /\ \A i \in 1 .. Len(entries) : IsLine(written[i])
    BY <1>1, <1>2, <1>3
  <2> QED BY ONLY <1>1, <2>1, FileMade
<1>5. Len(written) \in Nat /\ \A n \in 0 .. Len(written) : FileOf(SubSeq(written, 1, n))
  <2>1. PICK S : written \in Seq(S) /\ \A e \in S : IsLine(e) BY <1>4 DEF FileOf
  <2>2. Len(written) \in Nat BY <2>1
  <2>3. ASSUME NEW n \in 0 .. Len(written) PROVE FileOf(SubSeq(written, 1, n))
    <3>1. SubSeq(written, 1, n) \in Seq(S) BY <2>1, <2>2
    <3> QED BY <2>1, <3>1, FileBy
  <2> QED BY <2>2, <2>3
<1> QED BY <1>1, <1>2, <1>3, <1>4, <1>5 DEF Keeps

\* A line that is mounted elsewhere stays a line of the same partition.
LEMMA LinePoint ==
    ASSUME NEW e, IsLine(e), NEW point, NEW g, g = [e EXCEPT !.point = point]
    PROVE  IsLine(g) /\ g.spec = e.spec /\ g.fields = e.fields
BY DEF IsLine, Line

\* What a session's steps do to the file and to the list of the editor.
LEMMA FstabStep == FstabInv /\ FstabNext => FstabInv'
<1> SUFFICES ASSUME FstabInv, FstabNext PROVE FstabInv' OBVIOUS
<1>1. /\ editor = [phase |-> editor.phase, entries |-> editor.entries, read |-> editor.read]
      /\ FileOf(fstab) /\ FileOf(editor.entries) /\ FileOf(editor.read)
      /\ editor.phase \in {"open", "edited", "writing"} => Keeps(editor.read, editor.entries)
  BY DEF FstabInv
<1>2. CASE OpenEditor
  <2>1. /\ editor' = [phase |-> "open", entries |-> readFstabEntries(fstab), read |-> fstab] /\ fstab' = fstab
    BY <1>2 DEF OpenEditor
  <2>2. editor'.phase = "open" /\ editor'.entries = readFstabEntries(fstab) /\ editor'.read = fstab BY <2>1
  <2> QED BY <1>1, <2>1, <2>2, ReadKeeps DEF FstabInv, OthersKept
<1>3. CASE Edit
  <2> DEFINE all  == editor.entries
             mine == {i \in DOMAIN all : ~IsComment(all[i]) /\ all[i].spec = Edited}
  <2>1. PICK point \in Points \cup {NoPoint} :
            editor' = [editor EXCEPT
                !.phase = "edited",
                !.entries = IF mine = {} THEN Append(all, Line(6, Edited, point, FALSE))
                            ELSE [i \in DOMAIN all |-> IF i \in mine THEN [all[i] EXCEPT !.point = point] ELSE all[i]]]
    BY <1>3 DEF Edit
  <2> DEFINE added == Append(all, Line(6, Edited, point, FALSE))
             set == [i \in DOMAIN all |-> IF i \in mine THEN [all[i] EXCEPT !.point = point] ELSE all[i]]
             new == IF mine = {} THEN added ELSE set
  <2>2. fstab' = fstab /\ editor.phase = "open" /\ Keeps(editor.read, all) BY <1>1, <1>3 DEF Edit
  <2>3. editor'.phase = "edited" /\ editor'.entries = new /\ editor'.read = editor.read
        /\ editor' = [phase |-> editor'.phase, entries |-> editor'.entries, read |-> editor'.read]
    <3>1. editor' = [editor EXCEPT !.phase = "edited", !.entries = new] BY <2>1
    <3> HIDE DEF new
    <3> QED BY <1>1, <3>1
  <2>4. PICK S : all \in Seq(S) /\ \A e \in S : IsLine(e) BY <1>1 DEF FileOf
  <2>5. DOMAIN all = 1 .. Len(all) /\ Len(all) \in Nat /\ \A i \in 1 .. Len(all) : IsLine(all[i]) BY <2>4
  <2>6. /\ FileOf(added) /\ DOMAIN added = 1 .. Len(all) + 1
        /\ \A i \in 1 .. Len(all) : added[i] = all[i]
        /\ added[Len(all) + 1].fields = 6 /\ added[Len(all) + 1].spec = Edited
    <3> DEFINE line == Line(6, Edited, point, FALSE)
    <3>1. IsLine(line) /\ line.fields = 6 /\ line.spec = Edited BY DEF IsLine, Line
    <3>2. added = Append(all, line) OBVIOUS
    <3> DEFINE T == S \cup {line}
    <3> HIDE DEF line, all, added
    <3>3. all \in Seq(T) /\ line \in T /\ \A e \in T : IsLine(e) BY <2>4, <3>1
    <3> HIDE DEF T
    <3>4. /\ added \in Seq(T) /\ DOMAIN added = 1 .. Len(all) + 1 /\ added[Len(all) + 1] = line
          /\ \A i \in 1 .. Len(all) : added[i] = all[i]
      BY ONLY <3>2, <3>3
    <3>5. FileOf(added) BY ONLY <3>3, <3>4, FileBy
    <3> QED BY ONLY <3>1, <3>4, <3>5
  <2>7. \A i \in DOMAIN all : set[i] = IF i \in mine THEN [all[i] EXCEPT !.point = point] ELSE all[i] OBVIOUS
  <2>8. \A i \in mine : /\ IsLine([all[i] EXCEPT !.point = point])
                        /\ [all[i] EXCEPT !.point = point].spec = Edited /\ all[i].spec = Edited
                        /\ [all[i] EXCEPT !.point = point].fields = all[i].fields
    <3>1. \A i \in mine : i \in DOMAIN all /\ IsLine(all[i]) /\ all[i].spec = Edited BY <2>5
    <3>2. \A e : IsLine(e) => /\ IsLine([e EXCEPT !.point = point])
                              /\ [e EXCEPT !.point = point].spec = e.spec
                              /\ [e EXCEPT !.point = point].fields = e.fields
      BY LinePoint
    <3> HIDE DEF mine, all
    <3> QED BY ONLY <3>1, <3>2
  <2>9. FileOf(set)
    <3>1. set = [i \in 1 .. Len(all) |-> set[i]] /\ \A i \in 1 .. Len(all) : IsLine(set[i]) BY <2>5, <2>7, <2>8
    <3> HIDE DEF set
    <3> QED BY ONLY <2>5, <3>1, FileMade
  <2>10. DOMAIN set = DOMAIN all OBVIOUS
  <2> HIDE DEF added, set, all, mine
  <2>11. Keeps(editor.read, added)
    <3>1. \A i \in DOMAIN added : i \in DOMAIN all \/ i = Len(all) + 1 BY <2>5, <2>6
    <3>2. \A i \in DOMAIN all : i \in DOMAIN added /\ added[i] = all[i] BY <2>5, <2>6
    <3> QED BY <2>2, <2>6, <3>1, <3>2 DEF Keeps, Other
  <2>12. Keeps(editor.read, set)
    <3>1. \A i \in DOMAIN all : i \notin mine => set[i] = all[i] BY <2>7
    <3>2. \A i \in DOMAIN all : i \in mine => ~Other(set[i]) /\ ~Other(all[i]) /\ set[i].fields = all[i].fields
      BY <2>7, <2>8 DEF Other
    <3> QED BY <2>2, <2>10, <3>1, <3>2 DEF Keeps
  <2> QED BY <1>1, <2>2, <2>3, <2>6, <2>9, <2>11, <2>12 DEF FstabInv, OthersKept
<1>4. CASE SaveRefused
  <2>1. editor' = [editor EXCEPT !.phase = "failed"] /\ fstab' = fstab BY <1>4 DEF SaveRefused
  <2> QED BY <1>1, <2>1 DEF FstabInv, OthersKept
<1>5. CASE HelperOpens
  <2>1. editor' = [editor EXCEPT !.phase = "writing"] /\ fstab' = <<>> /\ editor.phase = "edited" BY <1>5 DEF HelperOpens
  <2>2. FileOf(fstab') BY <2>1, EmptyFile
  <2> QED BY <1>1, <2>1, <2>2 DEF FstabInv, OthersKept
<1>6. CASE HelperWrites
  <2>1. editor' = [editor EXCEPT !.phase = "saved"] /\ fstab' = generateFstab(editor.entries) /\ editor.phase = "writing"
    BY <1>6 DEF HelperWrites
  <2>2. /\ editor'.phase = "saved" /\ editor'.entries = editor.entries /\ editor'.read = editor.read
        /\ editor' = [phase |-> editor'.phase, entries |-> editor'.entries, read |-> editor'.read]
    BY <1>1, <2>1
  <2>3. /\ FileOf(fstab')
        /\ \A i \in DOMAIN editor.read : Other(editor.read[i]) =>
               i \in DOMAIN fstab' /\ fstab'[i] = [editor.read[i] EXCEPT !.fields = 6]
        /\ \A i \in DOMAIN fstab' : Other(fstab'[i]) => i \in DOMAIN editor.read /\ Other(editor.read[i])
    BY <1>1, <2>1, WriteKeeps
  <2> QED BY <1>1, <2>2, <2>3 DEF FstabInv, OthersKept
<1>7. CASE HelperFails
  <2> DEFINE written == generateFstab(editor.entries)
  <2>1. PICK n \in 0 .. Len(written) - 1 : fstab' = SubSeq(written, 1, n) BY <1>7 DEF HelperFails
  <2>2. editor' = [editor EXCEPT !.phase = "failed"] /\ editor.phase = "writing" BY <1>7 DEF HelperFails
  <2>3. /\ editor'.phase = "failed" /\ editor'.entries = editor.entries /\ editor'.read = editor.read
        /\ editor' = [phase |-> editor'.phase, entries |-> editor'.entries, read |-> editor'.read]
    BY <1>1, <2>2
  <2> HIDE DEF written
  <2>4. Len(written) \in Nat /\ \A k \in 0 .. Len(written) : FileOf(SubSeq(written, 1, k))
    BY <1>1, <2>2, WriteKeeps DEF written
  <2>5. n \in 0 .. Len(written) BY <2>4
  <2>6. FileOf(fstab') BY <2>1, <2>4, <2>5
  <2> QED BY <1>1, <2>3, <2>6 DEF FstabInv, OthersKept
<1>8. CASE CallErrs
  <2>1. editor' = [editor EXCEPT !.phase = "believed"] /\ fstab' = fstab BY <1>8 DEF CallErrs
  <2> QED BY <1>1, <2>1 DEF FstabInv, OthersKept
<1>9. CASE CloseEditor
  <2>1. editor' = [phase |-> "closed", entries |-> <<>>, read |-> <<>>] /\ fstab' = fstab BY <1>9 DEF CloseEditor
  <2> QED BY <1>1, <2>1, EmptyFile DEF FstabInv, OthersKept
<1> QED BY <1>2, <1>3, <1>4, <1>5, <1>6, <1>7, <1>8, <1>9 DEF FstabNext

--------------------------------------------------------------------------------
(* Scanned devices                                                         *)

\* A device whose status, or whose SMART status, changes.
LEMMA ToldExcept ==
    ASSUME NEW d, Told(d), NEW s
    PROVE  /\ Told([d EXCEPT !.status = s])
           /\ VerdictMatchesTable(d.smart)
           /\ Object([d EXCEPT !.smart = s]) = Object(d)
           /\ VerdictMatchesTable(s) => Told([d EXCEPT !.smart = s])
<1>1. PICK gen, node, class, status, table, volumes, smart :
          /\ d = [gen |-> gen, node |-> node, class |-> class, status |-> status, table |-> table,
                  volumes |-> volumes, smart |-> smart]
          /\ VerdictMatchesTable(smart)
  BY DEF Told
<1>2. [d EXCEPT !.status = s] = [gen |-> gen, node |-> node, class |-> class, status |-> s, table |-> table,
                                 volumes |-> volumes, smart |-> smart]
  BY <1>1
<1>3. [d EXCEPT !.smart = s] = [gen |-> gen, node |-> node, class |-> class, status |-> status, table |-> table,
                                volumes |-> volumes, smart |-> s]
  BY <1>1
<1>4. d.smart = smart /\ d.gen = gen /\ d.node = node BY <1>1
<1>5. [d EXCEPT !.smart = s].gen = gen /\ [d EXCEPT !.smart = s].node = node BY <1>3
<1> DEFINE x == [d EXCEPT !.status = s]
           y == [d EXCEPT !.smart = s]
<1>6. /\ x = [gen |-> gen, node |-> node, class |-> class, status |-> s, table |-> table,
               volumes |-> volumes, smart |-> smart]
      /\ y = [gen |-> gen, node |-> node, class |-> class, status |-> status, table |-> table,
               volumes |-> volumes, smart |-> s]
      /\ y.gen = gen /\ y.node = node
  BY <1>2, <1>3, <1>5
<1> HIDE DEF x, y
<1>7. Told(x) BY <1>1, <1>6 DEF Told
<1>8. VerdictMatchesTable(s) => Told(y) BY <1>6 DEF Told
<1>9. Object(y) = Object(d) BY <1>4, <1>6 DEF Object
<1> QED BY <1>1, <1>4, <1>7, <1>8, <1>9 DEF x, y

\* What update() makes of a status that tells no lie.
LEMMA UpdateTells ==
    ASSUME NEW status, VerdictMatchesTable(status), NEW answer, answer = NoAnswer \/ Answer(answer)
    PROVE  VerdictMatchesTable(update(status, answer))
<1>1. CASE answer = NoAnswer BY <1>1 DEF update
<1>2. CASE answer # NoAnswer BY <1>2, VerdictMatches
<1> QED BY <1>1, <1>2

\* A new device, and a new disk with what smartctl answered.
LEMMA DeviceTold ==
    ASSUME NEW node, NEW class, NEW status, NEW table, NEW volumes
    PROVE  /\ Told(Device(node, class, status, table, volumes))
           /\ \A answer : answer = NoAnswer \/ Answer(answer) => Told(DiskDevice(node, table, answer))
<1>1. VerdictMatchesTable(NoStatus) BY DEF NoStatus, VerdictMatchesTable
<1>2. Told(Device(node, class, status, table, volumes)) BY <1>1 DEF Device, Told
<1>3. ASSUME NEW answer, answer = NoAnswer \/ Answer(answer) PROVE Told(DiskDevice(node, table, answer))
  <2>1. VerdictMatchesTable(update(NoStatus, answer)) BY <1>1, <1>3, UpdateTells
  <2>2. Told(Device(node, "disk", "Active", table, {})) BY <1>1 DEF Device, Told
  <2> QED BY <2>1, <2>2, ToldExcept DEF DiskDevice
<1> QED BY <1>2, <1>3

\* What smartctl says of a disk.
LEMMA SmartctlAnswers ==
    ASSUME \A d \in DOMAIN disk : disk[d] \in Contents, NEW node, NEW runs
    PROVE  smartctl(node, runs) = NoAnswer \/ Answer(smartctl(node, runs))
BY ScanAssumption DEF smartctl

\* What scanDevice() finds is a list of at most one device.
LEMMA ScannedList ==
    ASSUME \A d \in DOMAIN disk : disk[d] \in Contents, NEW node, NEW tools, NEW detail
    PROVE  /\ ListOf(SetToSeq(ScannedDisk(node, tools)))
           /\ \E d : Told(d) /\ (ScannedArray(node, detail) = {} \/ ScannedArray(node, detail) = {d})
<1>1. /\ IsFiniteSet({}) /\ \A d : IsFiniteSet({d}) BY FS_EmptySet, FS_Singleton
<1>2. ListOf(SetToSeq(ScannedDisk(node, tools)))
  <2> DEFINE new == DiskDevice(node, TableOf(node, "disk", On(node), tools, TotalSectors),
                               smartctl(node, "smartctl" \in tools))
             S   == ScannedDisk(node, tools)
  <2>1. S = {} \/ S = {new} BY DEF ScannedDisk
  <2>2. Told(new)
    <3> DEFINE table  == TableOf(node, "disk", On(node), tools, TotalSectors)
               answer == smartctl(node, "smartctl" \in tools)
    <3>1. answer = NoAnswer \/ Answer(answer) BY SmartctlAnswers
    <3>2. new = DiskDevice(node, table, answer) OBVIOUS
    <3> HIDE DEF table, answer, new
    <3> QED BY <3>1, <3>2, DeviceTold
  <2> HIDE DEF S, new
  <2>3. IsFiniteSet(S) /\ \A d \in S : Told(d) BY <1>1, <2>1, <2>2
  <2>4. ListOf(SetToSeq(S)) BY ONLY <2>3, ListOfSet
  <2> QED BY <2>4 DEF S
<1>3. \E d : Told(d) /\ (ScannedArray(node, detail) = {} \/ ScannedArray(node, detail) = {d})
  <2> DEFINE table == TableOf(node, "raid", On(node), AllTools, getTotalChunk(detail))
             new == SoftwareRAID(node, "Active", table)
  <2>1. ScannedArray(node, detail) = {} \/ ScannedArray(node, detail) = {new} BY DEF ScannedArray
  <2>2. Told(new)
    <3>1. new = Device(node, "raid", "Active", table, {}) BY DEF SoftwareRAID
    <3> HIDE DEF table, new
    <3> QED BY <3>1, DeviceTold
  <2> HIDE DEF new, table
  <2> QED BY <2>1, <2>2
<1> QED BY <1>2, <1>3

\* The names of a finite set are listed by numbers from one on.
LEMMA NamesList ==
    ASSUME NEW S, IsFiniteSet(S)
    PROVE  \E n \in Nat : DOMAIN Names(S) = 1 .. n
<1>1. Cardinality(S) \in Nat BY FS_CardinalityType
<1> QED BY <1>1 DEF Names

--------------------------------------------------------------------------------
(* The scanner                                                             *)

ScanInv ==
    /\ scan = [phase |-> scan.phase, count |-> scan.count, todo |-> scan.todo, mdstat |-> scan.mdstat,
               conf |-> scan.conf, found |-> scan.found, sorted |-> scan.sorted, sure |-> scan.sure]
    /\ ListOf(list) /\ ListOf(scan.found)
    /\ scan.sorted \in Nat
    /\ scan.phase = "sort" => scan.sorted <= Len(list)
    /\ scan.phase \notin {"idle", "sort"} => scan.sorted = 0
    /\ IsFiniteSet(scan.conf)
    /\ \A d \in DOMAIN disk : disk[d] \in Contents
    /\ stack # <<>> => scan.phase \in {"idle", "operations"}
    /\ OperationsLive

\* The initial states.
LEMMA ScanStart == ScanInit => ScanInv
<1> SUFFICES ASSUME ScanInit PROVE ScanInv OBVIOUS
<1>1. /\ disk \in [Disks -> Contents] /\ list = <<>> /\ stack = <<>>
      /\ scan = [phase |-> "idle", count |-> 0, todo |-> <<>>, mdstat |-> <<>>, conf |-> {}, found |-> <<>>,
                 sorted |-> 0, sure |-> TRUE]
  BY DEF ScanInit, Idle
<1>2. /\ scan = [phase |-> scan.phase, count |-> scan.count, todo |-> scan.todo, mdstat |-> scan.mdstat,
                 conf |-> scan.conf, found |-> scan.found, sorted |-> scan.sorted, sure |-> scan.sure]
      /\ scan.phase = "idle" /\ scan.conf = {} /\ scan.found = <<>> /\ scan.sorted = 0
  BY <1>1
<1>3. ListOf(list) /\ ListOf(scan.found) BY <1>1, <1>2, ListOne
<1>4. IsFiniteSet(scan.conf) BY <1>2, FS_EmptySet
<1>5. OperationsLive BY <1>1 DEF OperationsLive
<1> QED BY <1>1, <1>2, <1>3, <1>4, <1>5 DEF ScanInv

\* A step of the scanner's thread that changes neither the list nor the stack.
LEMMA OnlyScan ==
    ASSUME ScanInv, UNCHANGED <<disk, list, stack>>,
           NEW phase, NEW count, NEW todo, NEW mdstat, NEW conf, NEW found, NEW sorted, NEW sure,
           scan' = [phase |-> phase, count |-> count, todo |-> todo, mdstat |-> mdstat, conf |-> conf,
                    found |-> found, sorted |-> sorted, sure |-> sure],
           ListOf(found), IsFiniteSet(conf), sorted = 0,
           stack = <<>> \/ phase \in {"idle", "operations"}
    PROVE  ScanInv'
<1>1. /\ scan' = [phase |-> scan'.phase, count |-> scan'.count, todo |-> scan'.todo, mdstat |-> scan'.mdstat,
                  conf |-> scan'.conf, found |-> scan'.found, sorted |-> scan'.sorted, sure |-> scan'.sure]
      /\ scan'.phase = phase /\ scan'.conf = conf /\ scan'.found = found /\ scan'.sorted = 0
  OBVIOUS
<1>2. ListOf(list) /\ Len(list) \in Nat /\ (\A d \in DOMAIN disk : disk[d] \in Contents) /\ OperationsLive
  BY ListElements DEF ScanInv
<1>3. OperationsLive' BY <1>2 DEF OperationsLive, Object
<1> QED BY <1>1, <1>2, <1>3 DEF ScanInv

\* The scanner's steps up to where it adds the devices to the list.
LEMMA Scanning ==
    ASSUME ScanInv,
           Start \/ ClearOperations \/ ListNodes \/ ScanDisk \/ ReadArrays \/ ScanArray \/ ListOthers \/ BeginSort
    PROVE  ScanInv'
<1>1. /\ scan = [phase |-> scan.phase, count |-> scan.count, todo |-> scan.todo, mdstat |-> scan.mdstat,
                 conf |-> scan.conf, found |-> scan.found, sorted |-> scan.sorted, sure |-> scan.sure]
      /\ ListOf(list) /\ ListOf(scan.found) /\ IsFiniteSet(scan.conf)
      /\ \A d \in DOMAIN disk : disk[d] \in Contents
      /\ scan.phase \notin {"idle", "sort"} => scan.sorted = 0
      /\ scan.phase \notin {"idle", "operations"} => stack = <<>>
  BY DEF ScanInv
<1>2. IsFiniteSet(Configured) /\ IsFiniteSet(Groups)
  <2>1. Configured \subseteq Disks \cup Arrays \cup Groups /\ Groups \subseteq Disks \cup Arrays \cup Groups
        /\ IsFiniteSet(Disks \cup Arrays \cup Groups)
    BY ScanAssumption
  <2> QED BY <2>1, FS_Subset
<1>3. CASE Start
  <2>1. /\ scan' = [phase |-> "operations", count |-> scan.count + 1, todo |-> <<>>, mdstat |-> <<>>, conf |-> {},
                    found |-> <<>>, sorted |-> 0, sure |-> TRUE]
        /\ UNCHANGED <<disk, list, stack>>
    BY <1>3 DEF Start, Idle, world
  <2>2. ListOf(<<>>) /\ IsFiniteSet({}) BY ListOne, FS_EmptySet
  <2> DEFINE none == <<>>
             no   == {}
             next == scan.count + 1
  <2>3. /\ scan' = [phase |-> "operations", count |-> next, todo |-> none, mdstat |-> none, conf |-> no,
                    found |-> none, sorted |-> 0, sure |-> TRUE]
        /\ ListOf(none) /\ IsFiniteSet(no) /\ "operations" \in {"idle", "operations"}
    BY <2>1, <2>2
  <2> HIDE DEF none, no, next
  <2> QED BY ONLY ScanInv, <2>1, <2>3, OnlyScan
<1>4. CASE ClearOperations
  <2>1. /\ scan.phase = "operations" /\ stack' = <<>> /\ UNCHANGED <<disk, list>>
        /\ scan' = [scan EXCEPT !.phase = "devices"]
    BY <1>4 DEF ClearOperations, world
  <2>2. /\ scan' = [phase |-> scan'.phase, count |-> scan'.count, todo |-> scan'.todo, mdstat |-> scan'.mdstat,
                    conf |-> scan'.conf, found |-> scan'.found, sorted |-> scan'.sorted, sure |-> scan'.sure]
        /\ scan'.phase = "devices" /\ scan'.conf = scan.conf /\ scan'.found = scan.found /\ scan'.sorted = scan.sorted
    BY <1>1, <2>1
  <2>3. OperationsLive' BY <2>1 DEF OperationsLive
  <2> QED BY <1>1, <2>1, <2>2, <2>3 DEF ScanInv
<1>5. CASE ListNodes
  <2>1. PICK answers \in BOOLEAN :
            scan' = [scan EXCEPT !.phase = "disks", !.sure = @ /\ answers,
                                 !.todo = IF answers THEN Names({d \in DOMAIN disk : ~disk[d].readOnly}) ELSE <<>>]
    BY <1>5 DEF ListNodes
  <2>2. scan.phase = "nodes" /\ UNCHANGED <<disk, list, stack>> BY <1>5 DEF ListNodes, world
  <2> DEFINE todo == IF answers THEN Names({d \in DOMAIN disk : ~disk[d].readOnly}) ELSE <<>>
             sure == scan.sure /\ answers
  <2>3. scan' = [scan EXCEPT !.phase = "disks", !.sure = sure, !.todo = todo] BY <2>1
  <2> HIDE DEF todo, sure
  <2>4. scan' = [phase |-> "disks", count |-> scan.count, todo |-> todo, mdstat |-> scan.mdstat, conf |-> scan.conf,
                 found |-> scan.found, sorted |-> scan.sorted, sure |-> sure]
    BY <1>1, <2>3
  <2>5. stack = <<>> /\ scan.sorted = 0 BY <1>1, <2>2
  <2> QED BY ONLY ScanInv, <1>1, <2>2, <2>4, <2>5, OnlyScan
<1>6. CASE ScanDisk
  <2>1. PICK tools \in {AllTools, AllTools \ {"udev"}, {"blockdev"}, {}} :
            scan' = [scan EXCEPT !.todo = Tail(@), !.found = @ \o SetToSeq(ScannedDisk(Head(scan.todo), tools)),
                                 !.sure = @ /\ {"blockdev", "udev"} \subseteq tools]
    BY <1>6 DEF ScanDisk
  <2>2. scan.phase = "disks" /\ UNCHANGED <<disk, list, stack>> BY <1>6 DEF ScanDisk, world
  <2> DEFINE todo  == Tail(scan.todo)
             new   == SetToSeq(ScannedDisk(Head(scan.todo), tools))
             found == scan.found \o new
             sure  == scan.sure /\ {"blockdev", "udev"} \subseteq tools
  <2>3. scan' = [scan EXCEPT !.todo = todo, !.found = found, !.sure = sure] BY <2>1
  <2>4. ListOf(new) BY <1>1, ScannedList
  <2> HIDE DEF todo, new, sure
  <2>5. ListOf(found) BY <1>1, <2>4, ListConcat
  <2> HIDE DEF found
  <2>6. scan' = [phase |-> scan.phase, count |-> scan.count, todo |-> todo, mdstat |-> scan.mdstat, conf |-> scan.conf,
                 found |-> found, sorted |-> scan.sorted, sure |-> sure]
    BY <1>1, <2>3
  <2>7. stack = <<>> /\ scan.sorted = 0 BY <1>1, <2>2
  <2> QED BY ONLY ScanInv, <1>1, <2>2, <2>5, <2>6, <2>7, OnlyScan
<1>7. CASE ReadArrays
  <2> DEFINE todo == Names({a \in Arrays : running[a] # "stopped"})
  <2>1. /\ scan.phase = "disks" /\ UNCHANGED <<disk, list, stack>>
        /\ scan' = [scan EXCEPT !.phase = "arrays", !.conf = Configured, !.mdstat = running, !.todo = todo]
    BY <1>7 DEF ReadArrays, world
  <2> HIDE DEF todo
  <2>2. scan' = [phase |-> "arrays", count |-> scan.count, todo |-> todo, mdstat |-> running, conf |-> Configured,
                 found |-> scan.found, sorted |-> scan.sorted, sure |-> scan.sure]
    BY <1>1, <2>1
  <2>3. stack = <<>> /\ scan.sorted = 0 BY <1>1, <2>1
  <2> QED BY ONLY ScanInv, <1>1, <1>2, <2>1, <2>2, <2>3, OnlyScan
<1>8. CASE ScanArray
  <2> DEFINE array           == Head(scan.todo)
             status(detail)  == Status(scan.mdstat[array], getRaidLevel(detail))
             scanned(detail) == {[d EXCEPT !.status = status(detail)] : d \in ScannedArray(array, detail)}
  <2>1. PICK detail \in BOOLEAN, again \in BOOLEAN :
            scan' = [scan EXCEPT
                !.todo = Tail(@), !.found = @ \o SetToSeq(scanned(detail)),
                !.conf = IF scanned(detail) = {} THEN @
                         ELSE {a \in @ : getUUID(a, again) # getUUID(array, detail)}]
    BY <1>8 DEF ScanArray
  <2>2. scan.phase = "arrays" /\ UNCHANGED <<disk, list, stack>> BY <1>8 DEF ScanArray, world
  <2> DEFINE todo  == Tail(scan.todo)
             new   == SetToSeq(scanned(detail))
             found == scan.found \o new
             conf  == IF scanned(detail) = {} THEN scan.conf
                      ELSE {a \in scan.conf : getUUID(a, again) # getUUID(array, detail)}
  <2>3. scan' = [scan EXCEPT !.todo = todo, !.found = found, !.conf = conf] BY <2>1
  <2>4. ListOf(new)
    <3> DEFINE S == scanned(detail)
    <3>1. PICK x : Told(x) /\ (ScannedArray(array, detail) = {} \/ ScannedArray(array, detail) = {x})
      <4> HIDE DEF array
      <4> QED BY <1>1, ScannedList
    <3>2. S = {} \/ S = {[x EXCEPT !.status = status(detail)]} BY <3>1
    <3>3. \A s : Told([x EXCEPT !.status = s]) BY <3>1, ToldExcept
    <3> DEFINE y == [x EXCEPT !.status = status(detail)]
    <3>4. Told(y) /\ (S = {} \/ S = {y}) BY <3>2, <3>3
    <3> HIDE DEF S, y
    <3>5. IsFiniteSet(S) /\ \A d \in S : Told(d)
      <4>1. /\ IsFiniteSet({}) /\ \A d : IsFiniteSet({d}) BY FS_EmptySet, FS_Singleton
      <4> QED BY <3>4, <4>1
    <3>6. ListOf(SetToSeq(S)) BY ONLY <3>5, ListOfSet
    <3> QED BY <3>6 DEF S
  <2>5. conf \subseteq scan.conf OBVIOUS
  <2> HIDE DEF todo, new, conf
  <2>6. IsFiniteSet(conf) BY <1>1, <2>5, FS_Subset
  <2>7. ListOf(found) BY <1>1, <2>4, ListConcat
  <2> HIDE DEF found
  <2>8. scan' = [phase |-> scan.phase, count |-> scan.count, todo |-> todo, mdstat |-> scan.mdstat, conf |-> conf,
                 found |-> found, sorted |-> scan.sorted, sure |-> scan.sure]
    BY <1>1, <2>3
  <2>9. stack = <<>> /\ scan.sorted = 0 BY <1>1, <2>2
  <2> QED BY ONLY ScanInv, <1>1, <2>2, <2>6, <2>7, <2>8, <2>9, OnlyScan
<1>9. CASE ListOthers
  <2> DEFINE others == Names(scan.conf)
             groups == Names(Groups)
             inactive == [i \in DOMAIN others |-> SoftwareRAID(others[i], "Inactive", NoTable)]
             volumes  == [i \in DOMAIN groups |-> LvmDevice(groups[i], getPVs(scan.found, groups[i]))]
             found    == scan.found \o inactive \o volumes
  <2>1. /\ scan.phase = "arrays" /\ UNCHANGED <<disk, list, stack>>
        /\ scan' = [scan EXCEPT !.phase = "add", !.found = found]
    BY <1>9 DEF ListOthers, world
  <2>2. PICK m \in Nat : DOMAIN others = 1 .. m BY <1>1, NamesList
  <2>3. PICK n \in Nat : DOMAIN groups = 1 .. n BY <1>2, NamesList
  <2> HIDE DEF others, groups
  <2>4. ListOf(inactive)
    <3>1. \A i \in DOMAIN others : Told(inactive[i]) BY DeviceTold DEF SoftwareRAID
    <3>2. inactive = [i \in 1 .. m |-> inactive[i]] BY <2>2
    <3> HIDE DEF inactive
    <3> QED BY ONLY <2>2, <3>1, <3>2, ListMade
  <2>5. ListOf(volumes)
    <3>1. \A i \in DOMAIN groups : Told(volumes[i]) BY DeviceTold DEF LvmDevice
    <3>2. volumes = [i \in 1 .. n |-> volumes[i]] BY <2>3
    <3> HIDE DEF volumes
    <3> QED BY ONLY <2>3, <3>1, <3>2, ListMade
  <2> HIDE DEF inactive, volumes
  <2>6. ListOf(found) BY <1>1, <2>4, <2>5, ListConcat
  <2> HIDE DEF found
  <2>7. scan' = [phase |-> "add", count |-> scan.count, todo |-> scan.todo, mdstat |-> scan.mdstat, conf |-> scan.conf,
                 found |-> found, sorted |-> scan.sorted, sure |-> scan.sure]
    BY <1>1, <2>1
  <2>8. stack = <<>> /\ scan.sorted = 0 BY <1>1, <2>1
  <2> QED BY ONLY ScanInv, <1>1, <2>1, <2>6, <2>7, <2>8, OnlyScan
<1>10. CASE BeginSort
  <2>1. /\ scan.phase = "add" /\ scan' = [scan EXCEPT !.phase = "sort"] /\ UNCHANGED <<disk, list, stack>>
    BY <1>10 DEF BeginSort, world
  <2>2. scan' = [phase |-> "sort", count |-> scan.count, todo |-> scan.todo, mdstat |-> scan.mdstat, conf |-> scan.conf,
                 found |-> scan.found, sorted |-> scan.sorted, sure |-> scan.sure]
    BY <1>1, <2>1
  <2>3. stack = <<>> /\ scan.sorted = 0 BY <1>1, <2>1
  <2> QED BY ONLY ScanInv, <1>1, <2>1, <2>2, <2>3, OnlyScan
<1> QED BY <1>3, <1>4, <1>5, <1>6, <1>7, <1>8, <1>9, <1>10,
      Start \/ ClearOperations \/ ListNodes \/ ScanDisk \/ ReadArrays \/ ScanArray \/ ListOthers \/ BeginSort

\* The scanner's steps on the list of devices.
LEMMA Listing ==
    ASSUME ScanInv, ClearDevices \/ AddDevice \/ SortDevices
    PROVE  ScanInv'
<1>1. /\ scan = [phase |-> scan.phase, count |-> scan.count, todo |-> scan.todo, mdstat |-> scan.mdstat,
                 conf |-> scan.conf, found |-> scan.found, sorted |-> scan.sorted, sure |-> scan.sure]
      /\ ListOf(list) /\ ListOf(scan.found) /\ IsFiniteSet(scan.conf) /\ scan.sorted \in Nat
      /\ \A d \in DOMAIN disk : disk[d] \in Contents
      /\ scan.phase \notin {"idle", "sort"} => scan.sorted = 0
      /\ scan.phase \notin {"idle", "operations"} => stack = <<>>
  BY DEF ScanInv
<1>2. CASE ClearDevices
  <2>1. /\ scan.phase = "devices" /\ list' = <<>> /\ UNCHANGED <<disk, stack>>
        /\ scan' = [scan EXCEPT !.phase = "nodes"]
    BY <1>2 DEF ClearDevices, world
  <2>2. /\ scan' = [phase |-> scan'.phase, count |-> scan'.count, todo |-> scan'.todo, mdstat |-> scan'.mdstat,
                    conf |-> scan'.conf, found |-> scan'.found, sorted |-> scan'.sorted, sure |-> scan'.sure]
        /\ scan'.phase = "nodes" /\ scan'.conf = scan.conf /\ scan'.found = scan.found /\ scan'.sorted = scan.sorted
    BY <1>1, <2>1
  <2>3. ListOf(list') BY <2>1, ListOne
  <2>4. stack' = <<>> /\ OperationsLive' BY <1>1, <2>1 DEF OperationsLive
  <2> QED BY <1>1, <2>1, <2>2, <2>3, <2>4 DEF ScanInv
<1>3. CASE AddDevice
  <2> DEFINE d == Head(scan.found)
             rest == Tail(scan.found)
  <2>1. /\ scan.phase = "add" /\ list' = Append(list, d) /\ UNCHANGED <<disk, stack>>
        /\ scan' = [scan EXCEPT !.found = rest]
        /\ Told(d) /\ ListOf(rest)
    BY <1>1, <1>3, ListTail DEF AddDevice, world
  <2> HIDE DEF d, rest
  <2>2. /\ scan' = [phase |-> scan'.phase, count |-> scan'.count, todo |-> scan'.todo, mdstat |-> scan'.mdstat,
                    conf |-> scan'.conf, found |-> scan'.found, sorted |-> scan'.sorted, sure |-> scan'.sure]
        /\ scan'.phase = "add" /\ scan'.conf = scan.conf /\ scan'.found = rest /\ scan'.sorted = scan.sorted
    BY <1>1, <2>1
  <2>3. ListOf(list') BY <1>1, <2>1, ListAppend
  <2>4. stack' = <<>> /\ OperationsLive' BY <1>1, <2>1 DEF OperationsLive
  <2> QED BY <1>1, <2>1, <2>2, <2>3, <2>4 DEF ScanInv
<1>4. CASE SortDevices
  <2>1. scan.phase = "sort" /\ UNCHANGED <<disk, stack>> /\ scan.sorted <= Len(list) /\ stack = <<>>
    BY <1>1, <1>4 DEF ScanInv, SortDevices, world
  <2>2. OperationsLive' BY <2>1 DEF OperationsLive
  <2>3. CASE scan.sorted = Len(list)
    <3>1. scan' = [scan EXCEPT !.phase = "idle"] /\ list' = list BY <1>4, <2>3 DEF SortDevices
    <3>2. /\ scan' = [phase |-> scan'.phase, count |-> scan'.count, todo |-> scan'.todo, mdstat |-> scan'.mdstat,
                      conf |-> scan'.conf, found |-> scan'.found, sorted |-> scan'.sorted, sure |-> scan'.sure]
          /\ scan'.phase = "idle" /\ scan'.conf = scan.conf /\ scan'.found = scan.found /\ scan'.sorted = scan.sorted
      BY <1>1, <3>1
    <3> QED BY <1>1, <2>1, <2>2, <3>1, <3>2 DEF ScanInv
  <2>4. CASE scan.sorted # Len(list)
    <3> DEFINE n     == scan.sorted
               front == SubSeq(list, 1, n)
               new   == Insert(front, list[n + 1])
               back  == SubSeq(list, n + 2, Len(list))
    <3>1. list' = new \o back /\ scan' = [scan EXCEPT !.sorted = n + 1] BY <1>4, <2>4 DEF SortDevices
    <3>2. /\ scan' = [phase |-> scan'.phase, count |-> scan'.count, todo |-> scan'.todo, mdstat |-> scan'.mdstat,
                      conf |-> scan'.conf, found |-> scan'.found, sorted |-> scan'.sorted, sure |-> scan'.sure]
          /\ scan'.phase = "sort" /\ scan'.conf = scan.conf /\ scan'.found = scan.found /\ scan'.sorted = n + 1
      BY <1>1, <2>1, <3>1
    <3>3. n \in Nat /\ Len(list) \in Nat /\ n < Len(list) /\ Told(list[n + 1])
      BY <1>1, <2>1, <2>4, ListElements
    <3> HIDE DEF n
    <3>4. ListOf(front) /\ Len(front) = n
      <4>1. n <= Len(list) /\ 1 \in Nat /\ 1 > 0 BY <3>3
      <4>2. ListOf(SubSeq(list, 1, n)) /\ Len(SubSeq(list, 1, n)) = IF 1 <= n THEN n - 1 + 1 ELSE 0
        BY <1>1, <3>3, <4>1, ListCut
      <4> QED BY <3>3, <4>2
    <3>5. ListOf(back) /\ Len(back) = Len(list) - n - 1
      <4>1. n + 2 \in Nat /\ n + 2 > 0 /\ Len(list) <= Len(list) BY <3>3
      <4>2. /\ ListOf(SubSeq(list, n + 2, Len(list)))
            /\ Len(SubSeq(list, n + 2, Len(list))) = IF n + 2 <= Len(list) THEN Len(list) - (n + 2) + 1 ELSE 0
        BY <1>1, <3>3, <4>1, ListCut
      <4> QED BY <3>3, <4>2
    <3> HIDE DEF front, back
    <3>6. ListOf(new) /\ Len(new) = n + 1 BY <3>3, <3>4, ListInsert
    <3> HIDE DEF new
    <3>7. ListOf(new \o back) /\ Len(new \o back) = Len(new) + Len(back) BY <3>5, <3>6, ListConcat
    <3>8. ListOf(list') /\ Len(list') = Len(list) BY SMTT(30), <3>1, <3>3, <3>5, <3>6, <3>7
    <3>9. scan'.sorted \in Nat /\ scan'.sorted <= Len(list') BY <3>2, <3>3, <3>8
    <3> QED BY <1>1, <2>1, <2>2, <3>2, <3>8, <3>9 DEF ScanInv
  <2> QED BY <2>3, <2>4
<1> QED BY <1>2, <1>3, <1>4, ClearDevices \/ AddDevice \/ SortDevices

\* What a front end does with the devices of the list.
LEMMA OnTheList ==
    ASSUME ScanInv, Push \/ Refresh
    PROVE  ScanInv'
<1>1. /\ ListOf(list) /\ ListOf(scan.found) /\ (\A d \in DOMAIN disk : disk[d] \in Contents) /\ OperationsLive
      /\ DOMAIN list = 1 .. Len(list) /\ Len(list) \in Nat /\ Range(list) = {list[i] : i \in 1 .. Len(list)}
  BY ListElements DEF ScanInv, Range
<1>2. CASE Push
  <2>1. PICK d \in Range(list) : /\ d.table # NoTable
                                 /\ \E p \in Range(d.table.parts) :
                                        stack' = <<Object(findDeviceForPartition(p.node))>>
    BY <1>2 DEF Push
  <2>2. PICK p \in Range(d.table.parts) : stack' = <<Object(findDeviceForPartition(p.node))>> BY <2>1
  <2>3. scan.phase = "idle" /\ UNCHANGED <<disk, list, scan>> BY <1>2 DEF Push, world
  <2> DEFINE node   == p.node
             having == {i \in DOMAIN list : Has(list[i], node)}
             first  == CHOOSE i \in having : \A j \in having : i <= j
             found  == findDeviceForPartition(node)
             object == Object(found)
  <2>4. PICK i \in 1 .. Len(list) : d = list[i] BY <1>1
  <2>5. Has(list[i], node) BY <2>1, <2>2, <2>4 DEF Has
  <2>6. having \subseteq Nat /\ having # {} /\ having \subseteq 1 .. Len(list)
    <3> HIDE DEF node
    <3> QED BY <1>1, <2>4, <2>5
  <2>7. first \in having
    <3> HIDE DEF having
    <3>1. \E k \in having : \A j \in having : k <= j BY <2>6, LeastNumber
    <3> QED BY <3>1
  <2>8. found = list[first] BY DEF findDeviceForPartition
  <2>9. found \in Range(list)
    <3> HIDE DEF first, found, having
    <3> QED BY <1>1, <2>6, <2>7, <2>8
  <2>10. stack' = <<object>> BY <2>2
  <2> HIDE DEF found
  <2>11. \E e \in Range(list) : object = Object(e) BY <2>9
  <2> HIDE DEF object
  <2>12. DOMAIN stack' = {1} /\ stack'[1] = object BY <2>10
  <2>13. OperationsLive' BY <2>3, <2>11, <2>12 DEF OperationsLive, Object
  <2> QED BY <1>1, <2>3, <2>13 DEF ScanInv
<1>3. CASE Refresh
  <2>1. PICK i \in DOMAIN list, runs \in BOOLEAN :
            list' = [list EXCEPT ![i].smart = update(@, smartctl(list[i].node, runs))]
    BY <1>3 DEF Refresh
  <2>2. scan.phase = "idle" /\ UNCHANGED <<disk, stack, scan>> BY <1>3 DEF Refresh, world
  <2> DEFINE answer == smartctl(list[i].node, runs)
             status == update(list[i].smart, answer)
             new    == [list[i] EXCEPT !.smart = status]
  <2>3. list' = [list EXCEPT ![i] = new] BY <2>1
  <2>4. answer = NoAnswer \/ Answer(answer) BY <1>1, SmartctlAnswers
  <2>5. Told(list[i]) BY <1>1, ListElements
  <2> HIDE DEF answer
  <2>6. VerdictMatchesTable(status)
    <3>1. VerdictMatchesTable(list[i].smart) BY <2>5, ToldExcept
    <3> QED BY <2>4, <3>1, UpdateTells
  <2> HIDE DEF status
  <2>7. Told(new) /\ Object(new) = Object(list[i]) BY <2>5, <2>6, ToldExcept
  <2> HIDE DEF new
  <2>8. ListOf(list') /\ DOMAIN list' = DOMAIN list /\ \A j \in DOMAIN list : list'[j] = IF j = i THEN new ELSE list[j]
    <3>1. \A j \in DOMAIN list : list'[j] = IF j = i THEN new ELSE list[j] BY <2>3
    <3>2. list' = [j \in 1 .. Len(list) |-> list'[j]] /\ DOMAIN list' = DOMAIN list BY <1>1, <2>3
    <3>3. \A j \in 1 .. Len(list) : Told(list'[j]) BY <1>1, <2>7, <3>1, ListElements
    <3>4. ListOf(list') BY ONLY <1>1, <3>2, <3>3, ListMade
    <3> QED BY <3>1, <3>2, <3>4
  <2>9. OperationsLive'
    <3> SUFFICES ASSUME NEW k \in DOMAIN stack PROVE \E d \in Range(list') : stack[k] = Object(d)
      BY <2>2 DEF OperationsLive, Object
    <3>1. PICK d \in Range(list) : stack[k] = Object(d) BY <1>1 DEF OperationsLive
    <3>2. PICK j \in DOMAIN list : d = list[j] BY <1>1
    <3>3. Object(list'[j]) = Object(d) BY <2>7, <2>8, <3>2
    <3>4. list'[j] \in Range(list') BY <2>8, <3>2 DEF Range
    <3> QED BY <3>1, <3>3, <3>4
  <2> QED BY <1>1, <2>2, <2>8, <2>9 DEF ScanInv
<1> QED BY <1>2, <1>3, Push \/ Refresh

\* Disks and arrays come and go, and disks wear.
LEMMA Changing ==
    ASSUME ScanInv, Unplug \/ Wear \/ Assemble \/ Stop
    PROVE  ScanInv'
<1>1. /\ UNCHANGED <<list, stack>> /\ scan' = [scan EXCEPT !.sure = FALSE]
  BY DEF Unplug, Wear, Assemble, Stop, Changed
<1>2. \A d \in DOMAIN disk' : disk'[d] \in Contents
  <2>1. \A d \in DOMAIN disk : disk[d] \in Contents BY DEF ScanInv
  <2>2. CASE Unplug BY <2>1, <2>2 DEF Unplug
  <2>3. CASE Wear BY <2>1, <2>3 DEF Wear
  <2>4. CASE Assemble \/ Stop BY <2>1, <2>4 DEF Assemble, Stop
  <2> QED BY <2>2, <2>3, <2>4, Unplug \/ Wear \/ Assemble \/ Stop
<1>3. /\ scan' = [phase |-> scan'.phase, count |-> scan'.count, todo |-> scan'.todo, mdstat |-> scan'.mdstat,
                  conf |-> scan'.conf, found |-> scan'.found, sorted |-> scan'.sorted, sure |-> scan'.sure]
      /\ scan'.phase = scan.phase /\ scan'.conf = scan.conf /\ scan'.found = scan.found /\ scan'.sorted = scan.sorted
  BY <1>1 DEF ScanInv
<1>4. OperationsLive' BY <1>1 DEF ScanInv, OperationsLive, Object
<1> QED BY <1>1, <1>2, <1>3, <1>4 DEF ScanInv

--------------------------------------------------------------------------------
(* The session                                                             *)

SessionInv == ScanInv /\ FstabInv

\* The initial states.
LEMMA SessionInit == Init => SessionInv
<1> SUFFICES ASSUME Init PROVE SessionInv OBVIOUS
<1>1. ScanInv BY ScanStart DEF Init
<1>2. FstabInv
  <2>1. fstab \in Files /\ editor = [phase |-> "closed", entries |-> <<>>, read |-> <<>>] BY DEF Init, FstabInit
  <2>2. FileOf(fstab)
    <3>1. /\ fstab \in Seq(Range(fstab))
          /\ \A i \in DOMAIN fstab : IsLine(fstab[i])
      BY <2>1, FstabAssumption DEF IsLine
    <3>2. \A e \in Range(fstab) : IsLine(e) BY <3>1 DEF Range
    <3> QED BY <3>1, <3>2 DEF FileOf
  <2>3. /\ editor.phase = "closed" /\ editor.entries = <<>> /\ editor.read = <<>>
        /\ editor = [phase |-> editor.phase, entries |-> editor.entries, read |-> editor.read]
    BY <2>1
  <2> QED BY <2>2, <2>3, EmptyFile DEF FstabInv, OthersKept
<1> QED BY <1>1, <1>2 DEF SessionInv

\* A step of the scanner, of a front end or of the world keeps the invariant.
LEMMA SessionStep == SessionInv /\ [Next]_vars => SessionInv'
<1> SUFFICES ASSUME SessionInv, [Next]_vars PROVE SessionInv' OBVIOUS
<1>1. ASSUME UNCHANGED fstabVars PROVE FstabInv'
  <2>1. fstab' = fstab /\ editor' = editor BY <1>1 DEF fstabVars
  <2> QED BY <2>1 DEF SessionInv, FstabInv, OthersKept
<1>2. ASSUME UNCHANGED scanVars PROVE ScanInv'
  <2>1. disk' = disk /\ list' = list /\ stack' = stack /\ scan' = scan BY <1>2 DEF scanVars
  <2> QED BY <2>1 DEF SessionInv, ScanInv, OperationsLive, Object
<1>3. CASE ScanNext /\ UNCHANGED fstabVars
  <2>1. ScanInv BY DEF SessionInv
  <2>2. ScanInv'
    <3>1. CASE Start \/ ClearOperations \/ ListNodes \/ ScanDisk \/ ReadArrays \/ ScanArray \/ ListOthers \/ BeginSort
      BY ONLY <2>1, <3>1, Scanning
    <3>2. CASE ClearDevices \/ AddDevice \/ SortDevices BY ONLY <2>1, <3>2, Listing
    <3>3. CASE Push \/ Refresh BY ONLY <2>1, <3>3, OnTheList
    <3>4. CASE Unplug \/ Wear \/ Assemble \/ Stop BY ONLY <2>1, <3>4, Changing
    <3> QED BY <1>3, <3>1, <3>2, <3>3, <3>4 DEF ScanNext, Scanner
  <2> QED BY <1>1, <1>3, <2>2 DEF SessionInv
<1>4. CASE FstabNext /\ UNCHANGED scanVars
  <2>1. FstabInv' BY <1>4, FstabStep DEF SessionInv
  <2> QED BY <1>2, <1>4, <2>1 DEF SessionInv
<1>5. CASE UNCHANGED vars
  <2>1. UNCHANGED scanVars /\ UNCHANGED fstabVars BY <1>5 DEF vars
  <2> QED BY <1>1, <1>2, <2>1 DEF SessionInv
<1> QED BY <1>3, <1>4, <1>5 DEF Next

\* What the list, the stack, the scanner, the file and the editor are like in every state of a session.
THEOREM InvariantHolds == Spec => []SessionInv
<1>1. Init => SessionInv BY SessionInit
<1>2. SessionInv /\ [Next]_vars => SessionInv' BY SessionStep
<1> QED BY <1>1, <1>2, PTL DEF Spec

\* After a save that the helper answered with success, every line of fstab that kpmcore understands
\* and that mounts something else than the edited partition is in its place, and none was added.
THEOREM OthersKeptHolds == Spec => []OthersKept
<1>1. SessionInv => OthersKept BY DEF SessionInv, FstabInv
<1> QED BY <1>1, InvariantHolds, PTL

\* No pending operation outlives the device it works on, however scans and pushes alternate.
THEOREM OperationsLiveHolds == Spec => []OperationsLive
<1>1. SessionInv => OperationsLive BY DEF SessionInv, ScanInv
<1> QED BY <1>1, InvariantHolds, PTL

\* Whatever smartctl answers for disks of at least 16 KiB, and however often, the verdict on each
\* disk of the list agrees with the attributes that are shown for it.
THEOREM SmartTellsHolds == Spec => []SmartTells
<1>1. SessionInv => SmartTells
  <2> SUFFICES ASSUME SessionInv, NEW d \in Range(list) PROVE VerdictMatchesTable(d.smart) BY DEF SmartTells
  <2>1. Told(d) BY ListElements DEF SessionInv, ScanInv
  <2> QED BY <2>1, ToldExcept
<1> QED BY <1>1, InvariantHolds, PTL
==============================================================================

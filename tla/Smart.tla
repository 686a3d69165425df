-------------------------------- MODULE Smart --------------------------------
(***************************************************************************)
(* What kpmcore makes of smartctl's answer for a disk: unit, value and     *)
(* assessment of each attribute, number of bad sectors, temperature, hours *)
(* of operation, and the overall assessment.  Times are in hours, those of *)
(* attributes 3 and 226 in milliseconds.                                   *)
(***************************************************************************)
EXTENDS Integers, FiniteSets

CONSTANTS NoAnswer,  \* smartctl does not run, cannot open the disk or does not know it
          Long       \* number of values of a 32 bit word

ASSUME SmartAssumption == Long \in Nat /\ Long > 65536

(* An answer is [passed, sectors, quirk, table]: SMART's own verdict, the   *)
(* number that setSectors() gets (user_capacity in bytes), the quirks of    *)
(* the model, and for each attribute's id its [value, worst, thresh, raw,   *)
(* prefailure].                                                             *)

\* The combinations of quirks in the database of models and firmwares.
quirkDatabase ==
    {{"9_MINUTES", "197_UNKNOWN", "198_UNKNOWN"}, {"9_SECONDS", "192_COUNT", "200_COUNT"},
     {"9_SECONDS", "192_COUNT", "200_COUNT", "201_COUNT"}, {"9_SECONDS"}, {"9_HALFMINUTES"},
     {"9_HALFMINUTES", "194_10XCELSIUS"}, {"9_MINUTES", "194_UNKNOWN"}, {"9_MINUTES"},
     {"9_MINUTES", "193_LOADUNLOAD"}, {"5_UNKNOWN"}, {"5_UNKNOWN", "190_UNKNOWN"},
     {"3_UNUSED", "4_UNUSED", "225_MB", "226_PERCENT", "227_PERCENT", "228_TIME", "232_PERCENT", "233_PERCENT"}}

u64log2(n) == IF n <= 1 THEN 0 ELSE CHOOSE r \in 1 .. 63 : 2 ^ r <= n /\ n < 2 ^ (r + 1)

\* What smartctl may answer for a disk of at least 16 KiB.
Attribute == [value : 0 .. 255, worst : 0 .. 255, thresh : 0 .. 255, raw : Nat, prefailure : BOOLEAN]
Answer(a) ==
    /\ a.passed \in BOOLEAN /\ a.sectors \in Nat /\ a.quirk \in quirkDatabase \cup {{}}
    /\ \A id \in DOMAIN a.table : a.table[id] \in Attribute
    /\ u64log2(a.sectors) \in 0 .. 63 /\ u64log2(a.sectors) * 1024 <= a.sectors

tableUnit(id) ==
    CASE id \in {3, 9, 222, 226, 240}      -> "Miliseconds"
      [] id \in {5, 187, 197, 198, 234}    -> "Sectors"
      [] id \in {190, 194, 231}            -> "Milikelvin"
      [] id \in {170, 232}                 -> "Percent"
      [] id \in {241, 242}                 -> "MB"
      [] id \in {1, 4, 7, 171, 172, 188, 189, 195, 196, 204, 205, 221, 223, 225, 227, 228, 250}
                \cup 10 .. 13 \cup 175 .. 184 \cup 191 .. 193 \cup 199 .. 202 -> "None"
      [] OTHER                             -> "Unknown"

\* What a quirk says of the unit of its attribute.
QuirkUnits ==
    {<<3, "3_UNUSED", "Unknown">>, <<4, "4_UNUSED", "Unknown">>, <<5, "5_UNKNOWN", "Unknown">>,
     <<9, "9_MINUTES", "Miliseconds">>, <<9, "9_SECONDS", "Miliseconds">>, <<9, "9_HALFMINUTES", "Miliseconds">>,
     <<190, "190_UNKNOWN", "Unknown">>, <<192, "192_COUNT", "None">>, <<194, "194_10XCELSIUS", "Milikelvin">>,
     <<194, "194_UNKNOWN", "Unknown">>, <<197, "197_UNKNOWN", "Unknown">>, <<198, "198_UNKNOWN", "Unknown">>,
     <<200, "200_COUNT", "None">>, <<201, "201_COUNT", "None">>, <<225, "225_MB", "MB">>,
     <<226, "226_PERCENT", "SmallPercent">>, <<227, "227_PERCENT", "SmallPercent">>,
     <<228, "228_TIME", "Miliseconds">>, <<232, "232_PERCENT", "Percent">>, <<233, "233_PERCENT", "Percent">>}

updateUnit(id, quirk) ==
    LET units == {u \in QuirkUnits : u[1] = id /\ u[2] \in quirk}
    IN  IF units = {} THEN tableUnit(id) ELSE (CHOOSE u \in units : TRUE)[3]

Short == 65536

\* makePretty(), which knows of no quirk: minutes and seconds count as hours.
makePretty(id, a, unit) ==
    IF unit = "Unknown" THEN 0
    ELSE
    CASE id = 3                       -> a.raw % Short
      [] id \in {5, 9, 197, 222, 240} -> a.raw % Long
      [] id \in {170, 232}            -> a.value
      [] id \in {190, 194, 231}       -> (a.raw % Short) * 1000 + 273150
      [] id = 228                     -> a.raw \div 60
      [] id \in {241, 242}            -> (a.raw * 65536 * 512) \div 1000000
      [] OTHER                        -> a.raw

Milikelvin(celsius) == celsius * 1000 + 273150
ThirtyYears         == 30 * 365 * 24
OneHour             == 60 * 60 * 1000

\* verifyAttribute(): a value that cannot be is of unknown unit, but is kept.  The other mark for
\* "no count", of 48 bits, is left out: only attributes that are counted nowhere have so many.
verifyAttribute(id, unit, pretty, sectors) ==
    LET Wrong ==
            \/ unit = "Miliseconds" /\ id \in {3, 226} /\ pretty \notin 1 .. OneHour
            \/ unit = "Miliseconds" /\ id \in {9, 222, 240} /\ pretty \notin 1 .. ThirtyYears
            \/ unit = "Milikelvin" /\ pretty \notin Milikelvin(-15) .. Milikelvin(100)
            \/ unit = "Sectors" /\ id # 234 /\ (pretty = Long - 1 \/ (sectors > 0 /\ pretty > sectors))
    IN  IF Wrong THEN "Unknown" ELSE unit

\* A SmartAttributeParsedData: validateValues() compares with a threshold that is one.
Valid(value) == value \in 1 .. 253
Parsed(answer, id) ==
    LET a      == answer.table[id]
        first  == updateUnit(id, answer.quirk)
        pretty == makePretty(id, a, first)
        unit   == verifyAttribute(id, first, pretty, answer.sectors)
        badNow == Valid(a.thresh) /\ Valid(a.value) /\ a.value <= a.thresh
        badInThePast == Valid(a.thresh) /\ Valid(a.worst) /\ a.worst <= a.thresh
    IN  [unit |-> unit, pretty |-> pretty, prefailure |-> a.prefailure,
         badNow |-> badNow, badInThePast |-> badInThePast, goodNowValid |-> Valid(a.thresh) /\ Valid(a.value),
         warn |-> badNow \/ badInThePast \/ (unit = "Sectors" /\ id \in {5, 197} /\ pretty > 0)]

\* getAssessment(), for the table of attributes: an old-age attribute is compared as it is.
getAssessment(a, parsed) ==
    LET compared  == a.prefailure \/ a.thresh # 254
        failed    == IF a.prefailure THEN parsed.badNow ELSE Valid(a.value) /\ a.value <= a.thresh
        hasFailed == IF a.prefailure THEN parsed.badInThePast ELSE Valid(a.worst) /\ a.worst <= a.thresh
    IN  IF compared /\ failed THEN "Failing"
        ELSE IF compared /\ hasFailed THEN "HasFailed"
        ELSE IF parsed.warn THEN "Warning" ELSE IF parsed.goodNowValid THEN "Good" ELSE "NotApplicable"

--------------------------------------------------------------------------------

\* The bad sectors are the values of two attributes, whatever their units.
updateBadSectors(parsed) ==
    LET Of(id) == IF id \in DOMAIN parsed THEN parsed[id].pretty ELSE 0 IN Of(5) + Of(197)

\* (mutant) The attributes that were bad are not looked at on a disk with bad sectors.
updateOverallSectorsFirst(answer, parsed, bad) ==
    LET Prefailing == {id \in DOMAIN parsed : parsed[id].prefailure}
    IN  IF ~answer.passed                                          THEN "Bad"
        ELSE IF bad >= u64log2(answer.sectors) * 1024              THEN "BadSectorsMany"
        ELSE IF bad > 0                                            THEN "BadSectors"
        ELSE IF \E id \in Prefailing : parsed[id].badInThePast     THEN "BadPast" ELSE "Good"

updateOverall(answer, parsed, bad) ==
    LET Prefailing == {id \in DOMAIN parsed : parsed[id].prefailure}
    IN  IF ~answer.passed                                          THEN "Bad"
        ELSE IF bad >= u64log2(answer.sectors) * 1024              THEN "BadSectorsMany"
        ELSE IF \E id \in Prefailing : parsed[id].badNow           THEN "BadNow"
        ELSE IF bad > 0                                            THEN "BadSectors"
        ELSE IF \E id \in Prefailing : parsed[id].badInThePast     THEN "BadPast" ELSE "Good"

\* The first of some attributes that is there with the unit, or nothing.
FirstWithUnit(parsed, ids, unit) ==
    LET usable == {i \in DOMAIN ids : ids[i] \in DOMAIN parsed /\ parsed[ids[i]].unit = unit}
    IN  IF usable = {} THEN 0 ELSE parsed[ids[CHOOSE i \in usable : \A j \in usable : i <= j]].pretty

updateTemperature(parsed) == FirstWithUnit(parsed, <<231, 194, 190>>, "Milikelvin")
updatePowerOn(parsed)     == FirstWithUnit(parsed, <<9, 233>>, "Miliseconds")
updatePowerCycle(parsed)  == FirstWithUnit(parsed, <<12>>, "None")

--------------------------------------------------------------------------------
NoStatus == [valid |-> FALSE]

\* SmartStatus::update(): without an answer the status stays what it was.
update(status, answer) ==
    IF answer = NoAnswer THEN status
    ELSE LET parsed == [id \in DOMAIN answer.table |-> Parsed(answer, id)]
             bad    == updateBadSectors(parsed)
         IN  [valid |-> TRUE, status |-> answer.passed, overall |-> updateOverall(answer, parsed, bad),
              badSectors |-> bad, temp |-> updateTemperature(parsed), poweredOn |-> updatePowerOn(parsed),
              powerCycles |-> updatePowerCycle(parsed),
              attributes |-> [id \in DOMAIN parsed |->
                  [prefailure |-> parsed[id].prefailure, unit |-> parsed[id].unit, value |-> parsed[id].pretty,
                   assessment |-> getAssessment(answer.table[id], parsed[id])]]]

--------------------------------------------------------------------------------
(* Properties of a status                                                  *)

(* The overall assessment and the table of attributes, computed apart from  *)
(* each other, agree: a disk that is shown as healthy has no pre-failure    *)
(* attribute that fails or has failed and none that warns of bad sectors,   *)
(* a disk used outside of its design has a failing attribute to show, and   *)
(* the temperature and the hours shown are those of an attribute that can   *)
(* be.  Nothing is said of "many bad sectors": two attributes of unknown    *)
(* unit may add up to it.                                                   *)
VerdictMatchesTable(s) ==
    LET Assessed(a) == {id \in DOMAIN s.attributes : s.attributes[id].prefailure /\ s.attributes[id].assessment = a}
        Warned      == {id \in DOMAIN s.attributes \cap {5, 197} :
                            s.attributes[id].unit = "Sectors" /\ s.attributes[id].value > 0}
    IN  s.valid =>
            /\ s.overall = "Good" => s.status /\ Assessed("Failing") \cup Assessed("HasFailed") \cup Warned = {}
            /\ s.overall = "BadPast" => Assessed("Failing") = {} /\ Assessed("HasFailed") # {} /\ Warned = {}
            /\ s.overall = "BadNow" => Assessed("Failing") # {}
            /\ s.overall = "BadSectors" => Warned # {} /\ Assessed("Failing") = {}
            /\ s.temp = 0 \/ s.temp \in Milikelvin(-15) .. Milikelvin(100)
            /\ s.poweredOn \in 0 .. ThirtyYears
==============================================================================

----------------------------- MODULE Interpreter -----------------------------
(***************************************************************************)
(* From raw captures to concentrations (uii/hub/interpret.py and, for NOX, *)
(* uii_analyzer/interpret_full.py): calibrations are fitted and stored,    *)
(* samples are read with the latest calibration of their module, and each  *)
(* value says what it may be used for.                                     *)
(*                                                                         *)
(* A detector reads a voltage that is missing, or of a sign and a power of *)
(* ten: the logarithm of a ratio of two is the difference of exponents.  A *)
(* slope and an intercept are kept as what they are made of, a value as a  *)
(* fraction, so that nothing is rounded.                                   *)
(***************************************************************************)
EXTENDS Integers, Sequences

CONSTANTS
  Pairs,     \* the readings <<i0, i1>> each capture pair may have
  Stds,      \* the concentrations a calibration may be asked for
  MaxFaults  \* bound: appends that fail

Volt == [read : BOOLEAN, sign : {-1, 0, 1}, exp : Int]

Names == {"diw", "std", "std_5x", "no2_diw", "no2_std", "single", "nox", "no2"}

ASSUME InterpreterAssumption ==
  /\ Pairs \in [Names -> SUBSET (Volt \X Volt)]
  /\ Stds \subseteq Int
  /\ MaxFaults \in Nat

VARIABLES
  analyte,  \* what the module is set up to measure
  cal,      \* the latest calibration of the module
  seen,     \* the observations made from the last result, in the order of the log
  about,    \* the analyte, the calibration and the quality of these
  faults

interpreterVars == <<analyte, cal, seen, about, faults>>

Core == {"NH4", "PO4"}
Analyte == Core \cup {"NOX"}

------------------------------------------------------------------------------
\* eps: what a denominator closer to zero counts as.
Eps == -12

\* Both readings are there and their ratio is positive.
Valid(p) ==
  /\ p[1].read /\ p[2].read
  /\ \/ p[1].sign = 1 /\ p[2].sign \in {0, 1}
     \/ p[1].sign = -1 /\ p[2].sign = -1

\* The logarithm of the ratio, the denominator held off zero with its sign kept.
Absorbance(p) ==
  p[1].exp - (IF p[2].sign = 0 \/ p[2].exp < Eps THEN Eps ELSE p[2].exp)

\* The curves of a calibration; NH4 and PO4 name theirs alike.
CurvesOf(a) == IF a \in Core THEN {"single"} ELSE {"nox", "nox_5x", "no2"}

\* The capture pairs a curve is fitted to.
DiwOf == [single |-> "diw", nox |-> "diw", nox_5x |-> "diw", no2 |-> "no2_diw"]
StdOf == [single |-> "std", nox |-> "std", nox_5x |-> "std_5x", no2 |-> "no2_std"]

\* What a run captures, each pair reading what it may.
Captures(names) ==
  {vin \in [names -> UNION {Pairs[n] : n \in names}] : \A n \in names : vin[n] \in Pairs[n]}

PairsOf(a) == {DiwOf[k] : k \in CurvesOf(a)} \cup {StdOf[k] : k \in CurvesOf(a)}

NoCurve == [std |-> 0, den |-> 0, diw |-> 0]

\* Mutant: the line goes through the standard from the wrong side.
Reversed(std, atStd, atDiw) ==
  [std |-> std, den |-> Absorbance(atDiw) - Absorbance(atStd), diw |-> Absorbance(atDiw)]

\* slope = std / den, intercept = slope * diw.
Line(std, atStd, atDiw) ==
  [std |-> std, den |-> Absorbance(atStd) - Absorbance(atDiw), diw |-> Absorbance(atDiw)]

Curve(std, atStd, atDiw) ==
  IF Valid(atStd) /\ Valid(atDiw) /\ Absorbance(atStd) # Absorbance(atDiw)
  THEN Line(std, atStd, atDiw)
  ELSE NoCurve

Fit(a, std, vin) == [k \in CurvesOf(a) |-> Curve(std, vin[StdOf[k]], vin[DiwOf[k]])]

\* Mutant: the error of the last curve is dropped.
LastUnchecked(a, std, vin) ==
  std <= 0 \/ \E k \in CurvesOf(a) \ {"no2"} : Fit(a, std, vin)[k] = NoCurve

\* Mutant: a standard of zero is let through.
ZeroStandard(a, std, vin) == std < 0 \/ \E k \in CurvesOf(a) : Fit(a, std, vin)[k] = NoCurve

\* Any error of any curve fails the calibration.
FitFails(a, std, vin) == std <= 0 \/ \E k \in CurvesOf(a) : Fit(a, std, vin)[k] = NoCurve

\* The 5x curve is not asked for.
Complete(a, fit) ==
  \A k \in CurvesOf(a) \ {"nox_5x"} : k \in DOMAIN fit /\ fit[k] # NoCurve

------------------------------------------------------------------------------
NoValue == [num |-> 0, den |-> 0]

\* slope * absorbance - intercept.
Value(curve, p) == [num |-> curve.std * (Absorbance(p) - curve.diw), den |-> curve.den]

Minus(v, w) == [num |-> v.num * w.den - w.num * v.den, den |-> v.den * w.den]
Negative(v) == v.num * v.den < 0

Channels(a) == IF a \in Core THEN <<a>> ELSE <<"nox", "no2", "no3">>

Nothing(a) == [k \in DOMAIN Channels(a) |-> [name |-> Channels(a)[k], value |-> NoValue]]

Reading(channels, error) == [channels |-> channels, error |-> error]

ReadSingle(a, fit, vin) ==
  IF Valid(vin.single)
  THEN Reading(<<[name |-> a, value |-> Value(fit.single, vin.single)]>>, FALSE)
  ELSE Reading(Nothing(a), TRUE)

\* Mutant: a negative difference is reported as it is.
DifferenceAsItIs(nox, no2) == [value |-> Minus(nox, no2), error |-> FALSE]

\* NO3 = NOX - NO2, of two results that are not negative and if it is not.
Nitrate(nox, no2) ==
  IF Negative(nox) \/ Negative(no2) \/ Negative(Minus(nox, no2))
  THEN [value |-> NoValue, error |-> TRUE]
  ELSE [value |-> Minus(nox, no2), error |-> FALSE]

ReadNox(fit, vin) ==
  IF Valid(vin.nox) /\ Valid(vin.no2)
  THEN LET nox == Value(fit.nox, vin.nox)
           no2 == Value(fit.no2, vin.no2)
           no3 == Nitrate(nox, no2)
       IN  Reading(<<[name |-> "nox", value |-> nox], [name |-> "no2", value |-> no2],
                     [name |-> "no3", value |-> no3.value]>>, no3.error)
  ELSE Reading(Nothing("NOX"), TRUE)

Read(a, fit, vin) == IF a \in Core THEN ReadSingle(a, fit, vin) ELSE ReadNox(fit, vin)

------------------------------------------------------------------------------
NoCal == [id |-> 0, analyte |-> "none", std |-> 0, vin |-> <<>>, fit |-> <<>>]
NoSample == [analyte |-> "none", cal |-> NoCal, use |-> "none"]

InterpreterInit ==
  /\ analyte \in Analyte
  /\ cal = NoCal
  /\ seen = <<>>
  /\ about = NoSample
  /\ faults = 0

\* The module restarts, set up for another analyte; its evidence stays.
Reconfigure ==
  /\ analyte' \in Analyte \ {analyte}
  /\ UNCHANGED <<cal, seen, about, faults>>

\* A calibrate command has succeeded: a calibration, or an event.
Calibrate ==
  /\ \E std \in Stds, vin \in Captures(PairsOf(analyte)) :
       cal' = IF FitFails(analyte, std, vin)
              THEN cal
              ELSE [id |-> 1, analyte |-> analyte, std |-> std, vin |-> vin,
                    fit |-> Fit(analyte, std, vin)]
  /\ seen' = <<>>
  /\ about' = NoSample
  /\ UNCHANGED <<analyte, faults>>

\* Mutant: a calibration is all that control asks for.
OnTrust(complete, reading) == IF complete THEN "control" ELSE "none"

\* The permitted use.
Use(complete, reading) ==
  IF ~complete THEN "none" ELSE IF reading.error THEN "reporting" ELSE "control"

SampleNames(a) == IF a \in Core THEN {"single"} ELSE {"nox", "no2"}

\* The latest calibration will do for this analyte.
Ready(a, c) == c # NoCal /\ Complete(a, c.fit)

ReadWith(a, c, vin) == IF Ready(a, c) THEN Read(a, c.fit, vin) ELSE Reading(Nothing(a), TRUE)

\* A sample command has succeeded: one observation for each channel, as far as
\* the appends go.
Sample ==
  /\ \E vin \in Captures(SampleNames(analyte)) :
       LET reading == ReadWith(analyte, cal, vin)
       IN  /\ about' = [analyte |-> analyte, cal |-> cal, use |-> Use(Ready(analyte, cal), reading)]
           /\ \/ seen' = reading.channels /\ UNCHANGED faults
              \/ /\ faults < MaxFaults /\ faults' = faults + 1
                 /\ \E n \in 0..(Len(reading.channels) - 1) :
                      seen' = SubSeq(reading.channels, 1, n)
  /\ UNCHANGED <<analyte, cal>>

InterpreterNext == Reconfigure \/ Calibrate \/ Sample

InterpreterSpec == InterpreterInit /\ [][InterpreterNext]_interpreterVars

------------------------------------------------------------------------------
(***************************************************************************)
(* Properties.                                                             *)
(***************************************************************************)
\* The types of the state: a calibration is of an analyte and of a standard it
\* may be asked for.
InterpreterTypeOK ==
  /\ analyte \in Analyte
  /\ cal # NoCal =>
       /\ cal.analyte \in Analyte /\ cal.std \in Stds
       /\ cal.vin \in Captures(PairsOf(cal.analyte))
  /\ faults \in 0..MaxFaults

\* A calibration is what was fitted to the pairs it names, without an error.
CalFitted ==
  cal # NoCal =>
    /\ cal.fit = Fit(cal.analyte, cal.std, cal.vin)
    /\ ~FitFails(cal.analyte, cal.std, cal.vin)

\* What was observed are the first channels of one reading with the calibration
\* that is in force, and their use is the use of that reading.
SeenWasRead ==
  IF about.analyte = "none"
  THEN about = NoSample /\ seen = <<>>
  ELSE /\ about.analyte \in Analyte /\ about.cal = cal
       /\ \E vin \in Captures(SampleNames(about.analyte)) :
            LET reading == ReadWith(about.analyte, cal, vin)
            IN  /\ about.use = Use(Ready(about.analyte, cal), reading)
                /\ \E n \in 0..Len(reading.channels) : seen = SubSeq(reading.channels, 1, n)

Observed(name) == {seen[k].value : k \in {j \in DOMAIN seen : seen[j].name = name}}

\* What a calibration says of the pairs it was fitted to: read with it, the
\* standard has the concentration it was said to have and the deionized water
\* none, on every curve.
StandardsReadBack ==
  cal # NoCal => \A k \in DOMAIN cal.fit :
    LET std == Value(cal.fit[k], cal.vin[StdOf[k]])
    IN  /\ std.den # 0 /\ std.num = cal.std * std.den
        /\ Value(cal.fit[k], cal.vin[DiwOf[k]]).num = 0

\* The scheduler's test of a calibration, without its age: complete for the
\* analyte it was made for, or any slope.
GateOpen == cal # NoCal /\ \E k \in DOMAIN cal.fit : cal.fit[k] # NoCurve

\* The scheduler and the interpreter test a calibration each in its way: while
\* the module measures what it was calibrated for, what one lets through the
\* other can use.
GateAgrees == GateOpen /\ cal.analyte = analyte => Complete(analyte, cal.fit)

\* A calibration is typed, true to what it was fitted to, and good for both who
\* test it.
CalibrationSound == InterpreterTypeOK /\ CalFitted /\ StandardsReadBack /\ GateAgrees

\* "fit for automated action" (interpret.py:14): whatever goes wrong in the
\* detector, in the calibration, with the sign of a result or between two
\* appends, a value for control is there and was read with a calibration of
\* all the curves it needs.
ControlHasValue ==
  about.use = "control" =>
    /\ about.cal # NoCal /\ Complete(about.analyte, about.cal.fit)
    /\ \A k \in DOMAIN seen : seen[k].value # NoValue

\* "NO3 = NOX - NO2, only when both are valid non-negative results"
\* (interpret_full.py:69): a nitrate value is never negative, and so are not
\* the two it was made from.
NitrateValid ==
  \A v \in Observed("no3") \ {NoValue} :
    /\ v.den # 0 /\ ~Negative(v)
    /\ \A w \in Observed("nox") \cup Observed("no2") : w # NoValue /\ ~Negative(w)

\* What a sample leaves on record was read as it says, and may be used as it says.
SampleSound == SeenWasRead /\ ControlHasValue /\ NitrateValid
==============================================================================

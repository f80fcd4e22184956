------------------------- MODULE CalibrationProfiles -------------------------
(***************************************************************************)
(* What a calibration profile makes of a spectrum, and the bounded cache   *)
(* of corrections in front of it: src/esw_dfl/sdr/calibration_store.py;    *)
(* and the same function as sdr_monitor/domain/calibration.py computes it. *)
(*                                                                         *)
(* Frequencies, corrections and uncertainties are integers, chosen so that *)
(* every interpolation is exact. A profile's signature and the settings of *)
(* the receiver are compared field by field in the code and as a whole     *)
(* here. A spectrum is a grid of frequencies with raw values of 0.         *)
(***************************************************************************)
EXTENDS Integers, Sequences, FiniteSets, SequencesExt

CONSTANTS
  Profiles,    \* [id, version, signature, points, start, stop]; start, stop: 0 = None
  Settings,    \* signatures the receiver may have
  NoSettings,  \* settings that are missing or have no device serial
  Grids,       \* sequences of frequencies
  Capacity     \* max_entries

Invalid == [status |-> "invalid", correction |-> 0, uncertainty |-> 0]

(* The explicit range of a profile, which may be wider or narrower than    *)
(* its points.                                                             *)
InRange(p, f) == (p.start = 0 \/ f >= p.start) /\ (p.stop = 0 \/ f <= p.stop)

(* The line through two neighbouring points, at f.                         *)
Between(left, right, f, status) ==
  LET At(a, b) == a + ((f - left.f) * (b - a)) \div (right.f - left.f)
  IN [status |-> status, correction |-> At(left.c, right.c), uncertainty |-> At(left.u, right.u)]

FirstAbove(points, f) == SelectInSeq(points, LAMBDA q : q.f > f)
FirstFrom(points, f) == SelectInSeq(points, LAMBDA q : q.f >= f)

Outside(points, f) == f < points[1].f \/ f > Last(points).f

Extrapolated(points, f) ==
  IF f < points[1].f
  THEN Between(points[1], points[2], f, "extrapolated")
  ELSE Between(points[Len(points) - 1], Last(points), f, "extrapolated")

(* CalibrationProfile.evaluate                                             *)
Evaluate(p, f, extrapolate) ==
  LET exact == SelectInSeq(p.points, LAMBDA q : q.f = f) IN
  CASE ~InRange(p, f) -> Invalid
    [] InRange(p, f) /\ exact # 0 ->
         [status |-> "calibrated", correction |-> p.points[exact].c, uncertainty |-> p.points[exact].u]
    [] InRange(p, f) /\ Outside(p.points, f) ->
         IF extrapolate THEN Extrapolated(p.points, f) ELSE Invalid
    [] OTHER ->
         LET right == FirstAbove(p.points, f)
         IN Between(p.points[right - 1], p.points[right], f, "interpolated")

(* evaluate of sdr_monitor: no explicit range, and the search the other    *)
(* way about.                                                              *)
MonitorEvaluate(p, f, extrapolate) ==
  IF Outside(p.points, f)
  THEN IF extrapolate THEN Extrapolated(p.points, f) ELSE Invalid
  ELSE LET right == FirstFrom(p.points, f) IN
       IF p.points[right].f = f
       THEN [status |-> "calibrated", correction |-> p.points[right].c, uncertainty |-> p.points[right].u]
       ELSE Between(p.points[right - 1], p.points[right], f, "interpolated")

(* A grid is as good as its worst frequency.                               *)
Worst(samples) ==
  LET seen == {samples[i].status : i \in DOMAIN samples} IN
  CASE "invalid" \in seen -> "invalid"
    [] "invalid" \notin seen /\ "extrapolated" \in seen -> "extrapolated"
    [] seen \cap {"invalid", "extrapolated"} = {} /\ "interpolated" \in seen -> "interpolated"
    [] OTHER -> "calibrated"

Prepared(p, samples) ==
  [id |-> p.id, version |-> p.version, status |-> Worst(samples),
   correction |-> [i \in DOMAIN samples |-> samples[i].correction],
   uncertainty |-> [i \in DOMAIN samples |-> samples[i].uncertainty]]

PrepareGrid(p, grid, extrapolate) ==
  Prepared(p, [i \in DOMAIN grid |-> Evaluate(p, grid[i], extrapolate)])

(* check_applicability: identity and settings before dBFS becomes dBm.     *)
Applies(p, settings) == settings # NoSettings /\ p.signature = settings

Raw(grid, status) ==
  [unit |-> "dBFS", status |-> status, correction |-> [i \in DOMAIN grid |-> 0], uncertainty |-> <<>>]
Corrected(prepared) ==
  [unit |-> "dBm", status |-> prepared.status, correction |-> prepared.correction,
   uncertainty |-> prepared.uncertainty]

MonitorApplied(p, settings, grid, extrapolate) ==
  LET prepared == Prepared(p, [i \in DOMAIN grid |-> MonitorEvaluate(p, grid[i], extrapolate)])
  IN IF Applies(p, settings) /\ prepared.status # "invalid" THEN Corrected(prepared) ELSE Raw(grid, "invalid")

-----------------------------------------------------------------------------
(* CalibrationApplier: the newest preparations, the oldest leaves first.   *)
VARIABLES
  cache,   \* _cache, in the order of insertion: [key, prepared]
  asked,   \* arguments of the last apply_calibration
  applied  \* what it returned
profileVars == <<cache, asked, applied>>

(* The code hashes the whole profile, the settings and the grid.           *)
KeyOf(a) == a

Requests ==
  [profile : Profiles, settings : Settings \cup {NoSettings}, grid : Grids, extrapolate : BOOLEAN]

Cached(key) == SelectSeq(cache, LAMBDA e : e.key = key)
Inserted(key, prepared) ==
  Append(IF Len(cache) >= Capacity THEN Tail(cache) ELSE cache, [key |-> key, prepared |-> prepared])

ProfilesInit == cache = <<>> /\ asked = <<>> /\ applied = <<>>

(* apply_calibration with an applier                                       *)
Apply(a) ==
  /\ asked' = a
  /\ \E hit \in {Cached(KeyOf(a))}, fresh \in {PrepareGrid(a.profile, a.grid, a.extrapolate)} :
       \/ /\ ~Applies(a.profile, a.settings)
          /\ cache' = cache /\ applied' = Raw(a.grid, "invalid")
       \/ /\ Applies(a.profile, a.settings) /\ hit # <<>>
          /\ cache' = cache /\ applied' = Corrected(hit[1].prepared)
       \/ /\ Applies(a.profile, a.settings) /\ hit = <<>> /\ fresh.status = "invalid"
          /\ cache' = cache /\ applied' = Raw(a.grid, "invalid")
       \/ /\ Applies(a.profile, a.settings) /\ hit = <<>> /\ fresh.status # "invalid"
          /\ cache' = Inserted(KeyOf(a), fresh) /\ applied' = Corrected(fresh)

Clear == cache' = <<>> /\ UNCHANGED <<asked, applied>>

(* One version of a profile, or every version (0).                         *)
Invalidate(id, version) ==
  /\ cache' = SelectSeq(cache, LAMBDA e :
                ~(e.prepared.id = id /\ (version = 0 \/ e.prepared.version = version)))
  /\ UNCHANGED <<asked, applied>>

ProfilesNext ==
  \/ \E a \in Requests : Apply(a)
  \/ Clear
  \/ \E p \in Profiles, all \in BOOLEAN : Invalidate(p.id, IF all THEN 0 ELSE p.version)

-----------------------------------------------------------------------------
(* The definition: a correction lies on the line through the two points    *)
(* next to the frequency, and is a point where there is one.               *)
Neighbours(p, f) ==
  LET n == Len(p.points)
      below == {i \in 1..n : p.points[i].f <= f}
      above == {i \in 1..n : p.points[i].f >= f}
  IN CASE below = {} -> <<1, 2>>
       [] above = {} -> <<n - 1, n>>
       [] OTHER -> <<Cardinality(below), n + 1 - Cardinality(above)>>

OnTheLine(p, f, correction) ==
  LET a == p.points[Neighbours(p, f)[1]]  b == p.points[Neighbours(p, f)[2]]
  IN IF a = b THEN correction = a.c ELSE (correction - a.c) * (b.f - a.f) = (f - a.f) * (b.c - a.c)

MayApply(a) ==
  /\ a.settings # NoSettings /\ a.profile.signature = a.settings
  /\ \A i \in DOMAIN a.grid :
       InRange(a.profile, a.grid[i]) /\ (a.extrapolate \/ ~Outside(a.profile.points, a.grid[i]))

(* A spectrum is labelled dBm exactly when the profile is for this         *)
(* receiver and reaches every frequency, or may be extrapolated to it; its *)
(* corrections are those of the profile that was asked for, whatever the   *)
(* cache still holds of other profiles, versions, grids and settings; and  *)
(* the program for monitoring computes the same.                           *)
CalibrationIsExact ==
  asked # <<>> =>
    /\ applied.unit = (IF MayApply(asked) THEN "dBm" ELSE "dBFS")
    /\ applied.unit = "dBm" =>
         \A i \in DOMAIN asked.grid : OnTheLine(asked.profile, asked.grid[i], applied.correction[i])
    /\ applied.unit = "dBm" /\ applied.status = "calibrated" =>
         \A i \in DOMAIN asked.grid : \E q \in Range(asked.profile.points) : q.f = asked.grid[i]
    /\ asked.profile.start = 0 /\ asked.profile.stop = 0 =>
         applied = MonitorApplied(asked.profile, asked.settings, asked.grid, asked.extrapolate)
=============================================================================

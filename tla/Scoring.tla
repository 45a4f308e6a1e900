------------------------------ MODULE Scoring --------------------------------
(***************************************************************************)
(* The verdict on a candidate (modules/ats/scoring.py): what the language  *)
(* model read in the resume against what the job asks for.  Scores are in  *)
(* tenths of a point, percentages in tenths of a percent; a tie is rounded *)
(* to the even neighbour, where the binary fraction of the code may go to  *)
(* the other one.                                                          *)
(***************************************************************************)
EXTENDS Integers, FiniteSets

LOCAL Least(a, b) == IF a < b THEN a ELSE b

Nearest(n, d) ==
    LET below == n \div d  twice == 2 * (n % d) IN
    IF twice < d \/ (twice = d /\ below % 2 = 0) THEN below ELSE below + 1

\* Seven tenths for required skills, two for experience, one for preferred skills.
MatchPct(found, job) ==
    LET required  == IF job.required = {} THEN 1 ELSE Cardinality(job.required)
        hits      == IF job.required = {} THEN 1 ELSE Cardinality(job.required \cap found.skills)
        preferred == IF job.preferred = {} THEN 1 ELSE Cardinality(job.preferred)
        extras    == Cardinality(job.preferred \cap found.skills)
        asked     == IF job.years <= 0 THEN 1 ELSE job.years
        served    == IF job.years <= 0 THEN 1 ELSE Least(found.years, job.years)
    IN Least(1000,
             Nearest(700 * hits * asked * preferred + 200 * served * required * preferred
                     + 100 * extras * required * asked,
                     required * asked * preferred))

\* In hundredths: 60 % of the model's score and 40 % of the match.
FinalScore(score, pct) == Nearest(60 * score + 4 * pct, 10)

Tiers == {"A", "B", "C", "D"}
TierOf(final) ==
    IF final >= 800 THEN "A" ELSE IF final >= 650 THEN "B"
    ELSE IF final >= 500 THEN "C" ELSE "D"
Shortlisted == {"A", "B"}

Verdict(found, job) == TierOf(FinalScore(found.score, MatchPct(found, job)))
==============================================================================

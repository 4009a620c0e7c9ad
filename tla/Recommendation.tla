--------------------------- MODULE Recommendation ---------------------------
(***************************************************************************)
(* From a valuation to FinSight's own rating, and the quality of the       *)
(* evidence behind it (app/reporting/report_data_builder.py).  Pure        *)
(* functions of what the tools have put on the research context.           *)
(*                                                                         *)
(* Percentages are in tenths and scores in hundredths, rounded down where  *)
(* the code keeps a float.  Left out: wording and the notes of "basis".    *)
(***************************************************************************)
EXTENDS Integers, Sequences

CONSTANTS
  Missing,  \* None and absent keys
  NaN       \* not a number, of which no comparison holds

\* BUY_THRESHOLD and SELL_THRESHOLD, in hundredths of a point of score.
BuyThreshold == 750
SellThreshold == -750

\* Percentiles 0, 5, ..., 100 of the reference readings, in tenths of a percent.
DcfUpsidePercentiles ==
  <<-2447, -1114, -941, -834, -749, -666, -573, -468, -373, -255,
    -135, -1, 158, 319, 541, 807, 1164, 1675, 2419, 4286, 10000>>
RelativePercentiles ==
  <<-1000, -1000, -884, -687, -563, -459, -368, -294, -246, -199,
    -158, -109, -68, -28, 23, 74, 133, 210, 301, 445, 992>>

\* np.interp between the breakpoints, clipped at both ends; the percentile is then
\* stretched from 0..100 to -100..100.
PercentileScore(reading, points) ==
  LET last == Len(points)
      width == 20000 \div (last - 1)
  IN  IF reading < points[1] THEN -10000
      ELSE IF reading >= points[last] THEN 10000
      ELSE LET i == CHOOSE j \in 1..(last - 1) : points[j] <= reading /\ reading < points[j + 1]
           IN  (i - 1) * width - 10000
                 + (width * (reading - points[i])) \div (points[i + 1] - points[i])

RatingFromScore(score) ==
  IF score >= BuyThreshold THEN "Buy" ELSE IF score <= SellThreshold THEN "Sell" ELSE "Hold"

\* A multiple 10% away from its own history is a signal.
NeutralBand == 100
SignalOf(versus) ==
  IF versus = NaN THEN "in-line"
  ELSE IF versus <= -NeutralBand THEN "cheap" ELSE IF versus >= NeutralBand THEN "expensive" ELSE "in-line"

\* What the valuation leaves: the upside of the DCF value over the price and the
\* multiple against its own history, each of them possibly missing.
DcfScore(valuation) == PercentileScore(valuation.upside, DcfUpsidePercentiles)
RelativeScore(valuation) == PercentileScore(-valuation.versus, RelativePercentiles)

\* DCF_WEIGHT is 0.8 and RELATIVE_WEIGHT 0.2; a multiple that is no number has no score.
CompositeScore(valuation) ==
  IF valuation.versus \in {Missing, NaN} THEN DcfScore(valuation)
  ELSE (8 * DcfScore(valuation) + 2 * RelativeScore(valuation)) \div 10

RatingSignal == [Buy |-> "cheap", Sell |-> "expensive"]

\* compute_signal_agreement
Disagrees(rating, valuation) ==
  /\ rating \in {"Buy", "Sell"} /\ valuation.versus # Missing
  /\ SignalOf(valuation.versus) # RatingSignal[rating]

\* _fallback_recommendation, when there is no DCF upside.
FallbackRating(valuation, labels) ==
  LET signal == SignalOf(valuation.versus)
  IN  IF signal = "cheap" /\ "Negative" \notin labels THEN "Buy"
      ELSE IF signal = "expensive" /\ "Positive" \notin labels THEN "Sell"
      ELSE "Hold"

\* derive_recommendation; labels are the two sentiments, of management and of the news.
HasUpside(valuation) == valuation.upside \notin {Missing, NaN}
DeriveRecommendation(valuation, labels) ==
  [rating |->
     IF HasUpside(valuation) THEN RatingFromScore(CompositeScore(valuation))
     ELSE IF valuation.versus # Missing THEN FallbackRating(valuation, labels)
     ELSE "Insufficient Data",
   dcfRating |->
     IF HasUpside(valuation) THEN RatingFromScore(DcfScore(valuation)) ELSE Missing,
   disagreement |->
     HasUpside(valuation) /\ Disagrees(RatingFromScore(DcfScore(valuation)), valuation)]

Calls == {"Buy", "Hold", "Sell"}
Ratings == Calls \cup {"Insufficient Data"}

-----------------------------------------------------------------------------
(* Evidence *)

QualityHigh == 70
QualityLow == 40
DisagreementPenalty == 15

\* derive_signal_quality: the label and the confidence, from the overall score of the
\* evaluation.  The penalty of a wide Monte Carlo interval is the same and left out.
SignalQuality(recommendation, score) ==
  LET confidence == IF recommendation.disagreement /\ score >= DisagreementPenalty
                    THEN score - DisagreementPenalty
                    ELSE IF recommendation.disagreement THEN 0 ELSE score
  IN  IF score = Missing THEN [label |-> "LOW", confidence |-> Missing]
      ELSE [label |-> IF confidence < QualityLow THEN "LOW"
                      ELSE IF confidence >= QualityHigh THEN "HIGH" ELSE "MEDIUM",
            confidence |-> confidence]
=============================================================================

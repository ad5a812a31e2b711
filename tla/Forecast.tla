------------------------------ MODULE Forecast ------------------------------
(***************************************************************************)
(* The projection of daily spend (apps/dashboard/lib/forecast.ts) over     *)
(* integers: a division rounds down where the code's floats do not, and    *)
(* the exponential curve, which only the chart shows, is left out.         *)
(***************************************************************************)
EXTENDS Queries

CONSTANTS
  Season,   (* SEASON, the period in days                                    *)
  History,  (* HISTORY_DAYS                                                  *)
  Horizon   (* HORIZON_DAYS                                                  *)

ASSUME ForecastAssumption == Season \in Nat \ {0} /\ Horizon \in Nat

Total(seq) == FoldLeft(LAMBDA sum, n : sum + n, 0, seq)

AtLeast0(n) == Max({0, n})

Indices(n) == [i \in 1..n |-> i - 1]

(* linearFit over x = 0, 1, ...: its slope is a / b, and its value at x.     *)
linearFit(ys) ==
  LET n  == Len(ys)
      xs == Indices(n)
      sumX == Total(xs)
      b == n * Total([i \in 1..n |-> xs[i] * xs[i]]) - sumX * sumX
      a == n * Total([i \in 1..n |-> xs[i] * ys[i]]) - sumX * Total(ys)
  IN  [x \in Nat |-> IF b = 0 THEN Total(ys) \div n
                     ELSE (Total(ys) * b + a * (n * x - sumX)) \div (n * b)]

HwAlpha == 35   (* per cent *)
HwBeta  == 10
HwGamma == 30

Blend(weight, new, old) == (weight * new + (100 - weight) * old) \div 100

SeasonOf(ys, s) == SubSeq(ys, s * Season + 1, (s + 1) * Season)

Offsets(ys) ==
  LET full == Len(ys) \div Season
      Mean(s) == Total(SeasonOf(ys, s)) \div Season
  IN  [i \in 1..Season |->
         Total([s \in 1..full |-> SeasonOf(ys, s - 1)[i] - Mean(s - 1)]) \div full]

smooth_NextDay(fit, y) ==
  LET si == ((Len(fit.inSample) + 1) % Season) + 1
      level == Blend(HwAlpha, y - fit.seasonals[si], fit.level + fit.trend)
  IN  [level     |-> level,
       trend     |-> Blend(HwBeta, level - fit.level, fit.trend),
       seasonals |-> [fit.seasonals EXCEPT ![si] = Blend(HwGamma, y - level, @)],
       inSample  |-> Append(fit.inSample, fit.level + fit.trend + fit.seasonals[si])]

smooth(fit, y) ==
  LET si == (Len(fit.inSample) % Season) + 1
      level == Blend(HwAlpha, y - fit.seasonals[si], fit.level + fit.trend)
  IN  [level     |-> level,
       trend     |-> Blend(HwBeta, level - fit.level, fit.trend),
       seasonals |-> [fit.seasonals EXCEPT ![si] = Blend(HwGamma, y - level, @)],
       inSample  |-> Append(fit.inSample, fit.level + fit.trend + fit.seasonals[si])]

(* Two full seasons at least: a sequence of one fit, or of none. *)
holtWinters(ys) ==
  IF Len(ys) < 2 * Season THEN <<>>
  ELSE << FoldLeft(smooth,
            [level |-> Total(SeasonOf(ys, 0)) \div Season,
             trend |-> (Total(SeasonOf(ys, 1)) - Total(SeasonOf(ys, 0))) \div (Season * Season),
             seasonals |-> Offsets(ys), inSample |-> <<>>], ys) >>

(* History as rows, then horizon days after the last of them, by the calendar *)
(* for their dates and by their place in the series for their values.        *)
pointsOf(history, ys, horizon, lin, hw) ==
  LET n == Len(history)
      seasonalAt(h) == IF hw = <<>> THEN <<>>
        ELSE <<AtLeast0(hw[1].level + h * hw[1].trend
                        + hw[1].seasonals[((n + h - 1) % Season) + 1])>>
  IN  [i \in 1..n |->
         [date |-> history[i].key, actual |-> <<ys[i]>>, linear |-> AtLeast0(lin[i - 1]),
          seasonal |-> IF hw = <<>> THEN <<>> ELSE <<AtLeast0(hw[1].inSample[i])>>]]
      \o
      [h \in 1..horizon |->
         [date |-> history[n].key + h, actual |-> <<>>,
          linear |-> AtLeast0(lin[n - 1 + h]), seasonal |-> seasonalAt(h)]]

ForecastPoints(history, horizon) ==
  LET ys == [i \in DOMAIN history |-> history[i].cost_usd]
  IN  IF history = <<>> THEN <<>>
      ELSE pointsOf(history, ys, horizon, linearFit(ys), holtWinters(ys))

monthEnd == toStartOfMonth(today) + MonthDays[MonthOf(today)] - 1

OrElse(option, value) == IF option = <<>> THEN value ELSE option[1]

(* The days of the current month: their cost, or what value projects.       *)
MonthTotal(points, value(_)) ==
  Total([i \in DOMAIN points |->
           IF points[i].date \in toStartOfMonth(today)..monthEnd
           THEN OrElse(points[i].actual, value(points[i])) ELSE 0])

Result(points, fitted) ==
  [points |-> points,
   monthEndEstimate |-> MonthTotal(points, LAMBDA p : p.linear),
   monthEndEstimateSeasonal |->
     IF fitted THEN <<MonthTotal(points, LAMBDA p : OrElse(p.seasonal, 0))>> ELSE <<>>]

buildForecast(history, horizon) ==
  Result(ForecastPoints(history, horizon), Len(history) >= 2 * Season)

(* The page's three figures. *)
ForecastCards(result) ==
  LET projected == SelectSeq(result.points, LAMBDA p : p.actual = <<>>)
  IN  [monthEnd |-> OrElse(result.monthEndEstimateSeasonal, result.monthEndEstimate),
       projectedTotal |-> Total([i \in DOMAIN projected |-> projected[i].linear]),
       points |-> result.points]

ForecastPage(org) ==
  ForecastCards(buildForecast(getDailyTotalsForForecast(org, History), Horizon))
=============================================================================

--------------------------- MODULE MarketHelpers ---------------------------
(***************************************************************************)
(* The candles of the price chart: terminal/chartHelpers.ts, and the merge *)
(* of polled candles into the chart (terminal/PriceChart.tsx).             *)
(*                                                                         *)
(* Prices are integers in one unit, times whole seconds; a candle's volume *)
(* is left out.                                                            *)
(***************************************************************************)
EXTENDS SeqHelpers

\* Rows without a time (negative here) are dropped, the others shifted to local time and
\* sorted by it; rows of one time keep their order.
ParseCandles(raw, offset) ==
    LET timed  == Kept(raw, {i \in DOMAIN raw : raw[i].time >= 0})
        before(i, j) == \/ timed[i].time < timed[j].time
                        \/ timed[i].time = timed[j].time /\ i < j
        place  == [i \in DOMAIN timed |-> 1 + Cardinality({j \in DOMAIN timed : before(j, i)})]
    IN  [p \in DOMAIN timed |->
            LET c == timed[CHOOSE i \in DOMAIN timed : place[i] = p]
            IN  [c EXCEPT !.time = c.time - offset]]

\* Mutant: a candle older than the last bar is taken for an update.
NeverStale(lastTime, time) ==
    IF lastTime = <<>> \/ time > lastTime[1] THEN "append" ELSE "update"

\* How a candle relates to the last time of a chart, which may have none yet.
CandleOp(lastTime, time) ==
    IF lastTime = <<>> \/ time > lastTime[1] THEN "append"
    ELSE IF time = lastTime[1] THEN "update" ELSE "stale"

\* A line needs a closing price, a candlestick all four.
Drawable(c, line) == c.close > 0 /\ (line \/ (c.open > 0 /\ c.high > 0 /\ c.low > 0))

DrawableOf(candles, line) == Kept(candles, {i \in DOMAIN candles : Drawable(candles[i], line)})

\* Fewer than two candlesticks make a line chart.
IsSparse(candles) == Len(DrawableOf(candles, FALSE)) < 2

\* The chart of a fetched series: of what can be drawn, while the time the next
\* candle is compared with is that of the last candle, drawn or not.
Drawn(parsed) ==
    [line |-> IsSparse(parsed), bars |-> DrawableOf(parsed, IsSparse(parsed)),
     lastTime |-> IF parsed = <<>> THEN <<>> ELSE <<Last(parsed).time>>]

\* series.update of the chart library rewrites the last bar or appends one.
UpdateSeries(bars, c) ==
    IF bars # <<>> /\ Last(bars).time = c.time THEN Append(Front(bars), c) ELSE Append(bars, c)

\* A polled candle: a chart without candles is fetched anew instead.
Merged(chart, c) ==
    IF \/ chart.lastTime = <<>>
       \/ CandleOp(chart.lastTime, c.time) = "stale"
       \/ ~Drawable(c, chart.line)
    THEN chart
    ELSE [chart EXCEPT !.bars = UpdateSeries(@, c), !.lastTime = <<c.time>>]

\* A chart after the candles polled since it was fetched.
ChartAfter(parsed, live) ==
    LET chart[n \in 0..Len(live)] ==
            IF n = 0 THEN Drawn(parsed) ELSE Merged(chart[n - 1], live[n])
    IN  chart[Len(live)]
=============================================================================

----------------------------- MODULE ShippingFee -----------------------------
(***************************************************************************)
(* The delivery fee in dong, as order-service computes it and as the       *)
(* checkout page computes it again.  A distance is in metres and a         *)
(* multiplier in percent, so every product is a whole number before it is  *)
(* rounded.                                                                *)
(***************************************************************************)
EXTENDS Integers

BaseFee == 10000
PerKmRate == 3000
MinFee == 8000
MaxFee == 80000

(* Math.round of n / d.                                                    *)
Round(n, d) == (2 * n + d) \div (2 * d)

RushHours == {[start |-> 7, end |-> 9], [start |-> 17, end |-> 19]}

RushMultiplier(hour) ==
  IF \E w \in RushHours : w.start <= hour /\ hour < w.end THEN 150 ELSE 100

(* What the weather service reports, and what it adds: a storm, rain or    *)
(* drizzle, then snow, then fog, then a temperature out of range.  A look- *)
(* up that fails counts as fine.                                           *)
Weather == [condition : {"wet", "snow", "fog", "clear"}, extreme : BOOLEAN]
Fine == [condition |-> "clear", extreme |-> FALSE]

WeatherMultiplier(w) ==
  CASE w.condition = "wet" -> 130
    [] w.condition = "snow" -> 150
    [] w.condition = "fog" -> 110
    [] w.condition = "clear" -> IF w.extreme THEN 115 ELSE 100

Clamped(fee) ==
  IF fee > MaxFee THEN MaxFee ELSE IF fee < MinFee THEN MinFee ELSE fee

DistanceFee(metres) == Round(metres * PerKmRate, 1000)

(* The surcharges multiply one after the other, each rounded.              *)
Surcharged(metres, rush, weather) ==
  Round(Round((BaseFee + DistanceFee(metres)) * rush, 100) * weather, 100)

(* calculateShippingFee of the page: the distance as the crow flies.       *)
PageFee(crow, hour, w) ==
  Clamped(Surcharged(crow, RushMultiplier(hour), WeatherMultiplier(w)))

(* calculateFee of the service: the distance by road, and as the crow      *)
(* flies when the router does not answer (a distance below 0).             *)
ServiceFee(road, crow, hour, w) ==
  PageFee(IF road < 0 THEN crow ELSE road, hour, w)
=============================================================================

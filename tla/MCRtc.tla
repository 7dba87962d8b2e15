-------------------------------- MODULE MCRtc -------------------------------
(* The first and the last day of each February and of each year from 1970  *)
(* to 2099, and one dialogue or two, of a few touches.                     *)
EXTENDS Rtc

MCStartDays ==
  {JulianDay(y, m[1], m[2]) :
     y \in 1970 .. 2099, m \in {<<1, 2>>, <<2, 28>>, <<3, 1>>, <<12, 31>>}}
MCOpenDays == {JulianDay(2017, 5, 27), JulianDay(2000, 2, 28), JulianDay(2100, 1, 1)}
=============================================================================

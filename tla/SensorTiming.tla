---------------------------- MODULE SensorTiming ----------------------------
(***************************************************************************)
(* The timing of the LUX1310 image sensor (lib/lux1310-sensor.c, behind    *)
(* the wrappers of lib/sensor.c).  A caller chooses a geometry, a frame    *)
(* period and an exposure within the constraints the library returns, and  *)
(* the library turns them into registers that count clocks.  No program of *)
(* the repository calls this part of the library: the caller is external.  *)
(*                                                                         *)
(* Requests are in nanoseconds, 64 bits wide in the code.  The timing      *)
(* generator runs at 100 MHz, 10 ns a clock; the sensor at 90 MHz.         *)
(***************************************************************************)
EXTENDS Integers

CONSTANTS
  Geometries,  (* geometries a caller asks for                              *)
  Spares,      (* by how many ns its period exceeds the shortest one        *)
  Shares,      (* which part, in percent, of the exposure range it asks for *)
  AskedGains,  (* analog gains it asks for, in dB                           *)
  Levels       (* darkest ADC level seen by a gain calibration              *)

ASSUME SensorAssumption ==
  /\ Geometries \subseteq [hres : Nat, vres : Nat, hoffset : Nat, voffset : Nat]
  /\ Spares \subseteq Nat
  /\ Shares \subseteq 0 .. 100
  /\ AskedGains \subseteq Nat
  /\ Levels \subseteq 0 .. 4095

VARIABLE sensor  (* registers of the sensor and of its timing generator *)

HRES_INCREMENT == 16
BLACK_COLS == 32
ABN_DELAY == 26
Overhead == 125  (* t_tx + t_fovf + t_fovb clocks in every frame *)

Gains == {0, 6, 12, 18, 24}

WaveTables ==
  {[read_delay |-> 80, start_delay |-> 25], [read_delay |-> 39, start_delay |-> 30],
   [read_delay |-> 30, start_delay |-> 29], [read_delay |-> 25, start_delay |-> 27],
   [read_delay |-> 20, start_delay |-> 25]}

MIN_WAVETABLE == 20

valid_resolution(g) ==
  /\ g.hres \in 336 .. 1280 /\ g.hres % HRES_INCREMENT = 0 /\ g.hoffset % HRES_INCREMENT = 0
  /\ g.vres \in 96 .. 1024 /\ g.vres % 2 = 0 /\ g.voffset % 2 = 0

-----------------------------------------------------------------------------
(* Clocks to read a row: its pixels and the blanking, or the wave table.   *)
RowClocks(g, wavelen) ==
  LET read == g.hres \div HRES_INCREMENT + 2
  IN  IF read >= wavelen + 3 THEN read ELSE wavelen + 3

(* Bug variant: the three clocks after the wave table are forgotten.       *)
MinPeriodShortRow(g, wavelen) ==
  LET read == g.hres \div HRES_INCREMENT + 2
  IN  (IF read >= wavelen THEN read ELSE wavelen) * g.vres + Overhead

lux1310_min_period(g, wavelen) == RowClocks(g, wavelen) * g.vres + Overhead

(* The constraints of a geometry, in ns.                                   *)
t_min_period(g) == 10 * lux1310_min_period(g, MIN_WAVETABLE)
t_min_exposure(g) == 10 * RowClocks(g, MIN_WAVETABLE)
t_exposure_delay == 10 * ABN_DELAY
image_sensor_max_exposure(period) == (period * 360) \div 360 - t_exposure_delay

(* The longest wave table that the frame has room for, or the shortest.    *)
WaveTableFor(g, t_frame) ==
  CHOOSE w \in WaveTables :
    /\ w.read_delay = MIN_WAVETABLE \/ t_frame >= lux1310_min_period(g, w.read_delay)
    /\ \A v \in WaveTables :
         v.read_delay > w.read_delay => t_frame < lux1310_min_period(g, v.read_delay)

(* ADC offsets: set_gain writes magnitude and sign, with the sign set for  *)
(* every offset that is not zero; cal_gain writes eleven bits of two's     *)
(* complement, and the same number to the calibration file.                *)
Magnitude(x) == IF x < 0 THEN -x ELSE x
SignMagnitude(x) == IF x = 0 THEN 0 ELSE 1024 + (Magnitude(x) % 1024)

(* Half the way down to level 30; the division is unsigned, so that a      *)
(* negative number is rounded down.                                        *)
Calibration(level) ==
  IF level <= 30 THEN (30 - level) \div 2
  ELSE IF level - 29 > 2046 THEN -1023 ELSE -((level - 29) \div 2)

-----------------------------------------------------------------------------
(* After lux1310_init.  sized, timed and exposed are the geometries that   *)
(* the resolution, the period and the exposure were last set for: history  *)
(* variables.  The generator's line registers are not written by it.       *)
Nothing == [hres |-> 0, vres |-> 0, hoffset |-> 0, voffset |-> 0]

SensorInit ==
  sensor = [x_start |-> 0, x_end |-> 0, y_start |-> 0, y_end |-> 0,
            wavetab |-> 80, start_delay |-> 0, line_period |-> 0,
            frame_period |-> 400000, int_time |-> 390000, gain |-> 0, offset |-> 0,
            sized |-> Nothing, timed |-> Nothing, exposed |-> Nothing, period |-> 0,
            calfile |-> 0]

SetResolution(g) ==
  /\ valid_resolution(g)
  /\ sensor' = [sensor EXCEPT !.x_start = BLACK_COLS + g.hoffset,
                              !.x_end = BLACK_COLS + g.hoffset + g.hres - 1,
                              !.y_start = g.voffset, !.y_end = g.voffset + g.vres - 1,
                              !.sized = g]

SetPeriod(g, ns) ==
  LET t_frame == (ns + 9) \div 10
      w       == WaveTableFor(g, t_frame)
  IN  /\ valid_resolution(g)
      /\ ns >= t_min_period(g)
      /\ sensor' = [sensor EXCEPT !.frame_period = t_frame,
                                  !.wavetab = w.read_delay, !.start_delay = w.start_delay,
                                  !.line_period = RowClocks(g, w.read_delay) - 1,
                                  !.timed = g, !.exposed = Nothing, !.period = ns]

(* The exposure is rounded to whole rows, counted in sensor clocks.        *)
IntegrationTime(g, wavelen, ns) ==
  LET t_line     == RowClocks(g, wavelen)
      t_exposure == (9 * ns + 50) \div 100
      exp_lines  == (t_exposure + t_line \div 2) \div t_line
  IN  ((ABN_DELAY + t_line * exp_lines) * 10) \div 9

SetExposure(g, ns) ==
  /\ g = sensor.timed
  /\ g # Nothing
  /\ ns \in t_min_exposure(g) .. image_sensor_max_exposure(sensor.period)
  /\ sensor' = [sensor EXCEPT !.int_time = IntegrationTime(g, sensor.wavetab, ns),
                              !.exposed = g]

(* A gain that is not in the table changes nothing.                        *)
SetGain(gain, calfile) ==
  /\ gain \in Gains
  /\ sensor' = [sensor EXCEPT !.gain = gain,
                              !.offset = SignMagnitude(IF calfile THEN sensor.calfile ELSE 0)]

CalGain(level) ==
  sensor' = [sensor EXCEPT !.offset = Calibration(level) % 2048, !.calfile = Calibration(level)]

SensorNext ==
  \/ \E g \in Geometries :
       \/ SetResolution(g)
       \/ \E spare \in Spares : SetPeriod(g, t_min_period(g) + spare)
       \/ \E share \in Shares :
            LET least == t_min_exposure(g)
                most  == image_sensor_max_exposure(sensor.period)
            IN  SetExposure(g, least + ((most - least) * share) \div 100)
  \/ \E gain \in AskedGains, calfile \in BOOLEAN : SetGain(gain, calfile)
  \/ \E level \in Levels : CalGain(level)

SensorSpec == SensorInit /\ [][SensorNext]_sensor

-----------------------------------------------------------------------------
(* The readout of the rows the sensor was told to read fits in the period  *)
(* the timing generator was told to keep, whichever wave table was chosen. *)
ReadoutFits ==
  sensor.sized = sensor.timed /\ sensor.timed # Nothing =>
    (sensor.y_end - sensor.y_start + 1) * (sensor.line_period + 1) + Overhead
      <= sensor.frame_period

(* An exposure within the constraints outlasts the frame by no more than   *)
(* the rounding to whole rows and the start delay in the slower clock: half *)
(* a row and four sensor clocks.                                           *)
ExposureFits ==
  sensor.exposed # Nothing =>
    9 * (sensor.int_time - sensor.frame_period) <= 10 * ((sensor.line_period + 1) \div 2 + 4)

(* The timing that is programmed can be kept by the sensor.                *)
FrameFits == ReadoutFits /\ ExposureFits
=============================================================================

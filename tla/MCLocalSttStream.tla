--------------------------- MODULE MCLocalSttStream ---------------------------
(* LocalSttStream on small instances. *)
EXTENDS LocalSttStream

Config(interim, interval, byAudio, window, maxBuffer, autoFinal, cycles) ==
  [interim |-> interim, interval |-> interval, byAudio |-> byAudio, window |-> window,
   maxBuffer |-> maxBuffer, autoFinal |-> autoFinal, cycles |-> cycles]

(* A partial for every chunk, on the full buffer or on its last unit. *)
FullWindow  == Config(TRUE, 1, FALSE, 3, 3, FALSE, 2)
ShortWindow == Config(TRUE, 1, FALSE, 1, 3, FALSE, 2)
(* A partial for every two units of audio; no partials. *)
EveryTwo    == Config(TRUE, 2, TRUE, 3, 3, FALSE, 2)
NoPartials  == Config(FALSE, 1, FALSE, 3, 3, FALSE, 2)
(* Final on the second partial in a row with the same text. *)
AutoFinal   == Config(TRUE, 1, FALSE, 2, 3, TRUE, 2)

RollingConfigs == {FullWindow, ShortWindow, EveryTwo, NoPartials, AutoFinal}
BasicConfigs   == {FullWindow}
ReuseConfigs   == {FullWindow, AutoFinal}

OneSize  == {1}
TwoSizes == {1, 2}
===============================================================================

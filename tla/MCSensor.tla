------------------------------ MODULE MCSensor ------------------------------
(* Three readings: a negative temperature, and two with nothing in common, *)
(* so that a pair made of halves is none of them.                          *)
EXTENDS Am2320

MCReadings == {<<-5, 400>>, <<250, 605>>, <<257, 38>>}
=============================================================================

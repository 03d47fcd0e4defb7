----------------------------- MODULE MCWeather -----------------------------
(* Small instances of Weather for TLC. *)
EXTENDS Weather
=============================================================================

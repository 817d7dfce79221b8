------------------------------ MODULE MCTelemetry ------------------------------
(* Two processes, four lines in the channel, one viewer; a reconnect is a  *)
(* disconnect and a connect, so that one key covers the three.             *)
EXTENDS Telemetry
================================================================================

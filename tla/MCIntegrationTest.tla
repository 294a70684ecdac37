-------------------------- MODULE MCIntegrationTest --------------------------
(* IntegrationTest for TLC. *)
EXTENDS IntegrationTest

MCBody == {"HandshakeInit", "Handshake", "Control", "Sensor",
           "Reset", "Error", "SensorRequest"}
==============================================================================

------------------------------ MODULE MCHalPort ------------------------------
(* A small instance of HalPort: both chips, both systems, ports that hang  *)
(* up and ports that do not.                                               *)
EXTENDS HalPort

MCPorts    == [chip: Chips, os: Systems, hangsUp: BOOLEAN]
MCBootTime == [m \in Modes |-> IF m = "bootloader" THEN 1 ELSE 2]
=============================================================================

------------------------------ MODULE MCMemory ------------------------------
(* A heap of 18 units (72 bytes on a 32-bit machine), and a ring buffer of 4 bytes. *)
EXTENDS Memory

MCDatas == {<<0>>, <<1, 0>>, <<0, 1, 1>>, <<1, 0, 0, 1>>, <<0, 1, 0, 0, 1>>}
=============================================================================

----------------------------- MODULE MCSaveFile -----------------------------
(* A save memory of three bytes. *)
EXTENDS SaveFile

\* One byte, two that wrap around the end, and the whole memory.
TransfersMC == {<<0, 1>>, <<2, 2>>, <<1, 3>>}
=============================================================================

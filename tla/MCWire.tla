------------------------------- MODULE MCWire -------------------------------
(* An instance of Wire for TLC, scaled down to words of four bits.  Payloads *)
(* are those of DP_IDCODE, AP_DRW_READ, DP_ABORT and AP_DRW_WRITE.           *)
EXTENDS Wire

MCWords    == {<<1, 1, 1, 1>>, <<1, 0, 0, 0>>}
MCPayloads == {<<0, 1, 0, 0>>, <<1, 1, 1, 1>>, <<0, 0, 0, 0>>, <<1, 0, 1, 1>>}
=============================================================================

----------------------------- MODULE AudioTestsMC ------------------------------
(* Files of one and of two channels; the formats are 8, 16 and 24 bits.           *)
EXTENDS AudioTests

MCFiles == [channels : {1, 2}, frames : {0, 5}, format : {1, 2, 3}]
================================================================================

------------------------------ MODULE MCDataPath ------------------------------
(* Values for model-checking DataPath. *)
EXTENDS DataPath, TLC

CONSTANTS h1, h2, k1, k2, t1

OneTunnel == h1 :> k1
================================================================================

----------------------------- MODULE MCRaceCell -----------------------------
(* RaceCell on small sets of threads, with the words of OnceBool.          *)
EXTENDS OnceBool, TLC

CONSTANTS t1, t2, t3
=============================================================================

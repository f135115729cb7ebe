------------------------- MODULE MCElectrumListener -------------------------
(* A consumer that watches a few scripts.                                  *)
EXTENDS ElectrumListener
=============================================================================

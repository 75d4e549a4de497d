---------------------------- MODULE MCNasExport ----------------------------
(* Instances of NasExport for TLC; the values are in the cfg. *)
EXTENDS NasExport, TLC

\* Jobs are interchangeable (every property of the run is a safety property).
ExporterSymmetry == Permutations(Exporters)
=============================================================================

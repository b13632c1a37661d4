------------------------- MODULE MCInstallerPipeline -------------------------
(* A small instance of InstallerPipeline for TLC.                           *)
EXTENDS InstallerPipeline, TLC


=============================================================================

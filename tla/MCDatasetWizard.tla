--------------------------- MODULE MCDatasetWizard --------------------------
(* Instance of DatasetWizard for TLC. *)
EXTENDS DatasetWizard
=============================================================================

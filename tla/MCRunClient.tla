---------------------------- MODULE MCRunClient ----------------------------
(* Small instances of RunClient, and of the PanelRun it extends, for TLC.  *)
EXTENDS RunClient, TLC

=============================================================================

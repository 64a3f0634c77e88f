-------------------------- MODULE MCScenarioClient --------------------------
(* Small instances of ScenarioClient for TLC.                              *)
EXTENDS ScenarioClient

CONSTANTS i1, i2

(* Three requests of one process, or two of different processes.           *)
MCServings == {<<i1, i1, i1>>, <<i1, i2>>}

(* One request.                                                            *)
MCOne == {<<i1>>}
=============================================================================

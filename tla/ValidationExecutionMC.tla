----------------------- MODULE ValidationExecutionMC -----------------------
(***************************************************************************)
(* Requests for model checking: the gates which the blueprints of this     *)
(* repository require (blueprints/*/blueprint.json): a Python project in   *)
(* its four combinations, Go, CMake; and a catalog that asks for compose   *)
(* gates alone.                                                            *)
(***************************************************************************)
EXTENDS ValidationExecution

MCRequests ==
  LET project == ToSet(QualityGates \o HttpGates)
      database == ToSet(DatabaseGates)
  IN  { project, project \cup database, project \cup ImageGates,
        project \cup database \cup ImageGates \cup ComposeGates,
        {"pytest"} \cup ComposeGates, ToSet(GoGates), ToSet(CMakeGates) }
=============================================================================

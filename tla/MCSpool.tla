------------------------------ MODULE MCSpool -------------------------------
(* Constants for model-checking Spool. *)
EXTENDS Spool

\* One check that fires, fires in a form AlertLoop refuses, or resolves.
OneCheck ==
    {[key |-> "disk", says |-> "firing", valid |-> TRUE],
     [key |-> "disk", says |-> "firing", valid |-> FALSE],
     [key |-> "disk", says |-> "resolved", valid |-> TRUE]}
=============================================================================

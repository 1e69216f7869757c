---------------------------- MODULE MCLuaDriver ----------------------------
(* The driver on the example workflows. *)
EXTENDS WorkflowTyping, ExampleWorkflows

AllWorkflows == DOMAIN ExampleBodies

(* Read line by line, the scripts give every call inputs that are known and *)
(* agree, and use nothing their own mode does not bind.                     *)
ASSUME ExamplesAssumption ==
  \A w \in AllWorkflows :
    /\ Typing(ExampleBodies[w], KnownIn(ExampleBodies[w]))
    /\ Needs(ExampleBodies[w]) \subseteq Bound[ExampleMode[w]]

(* Each example, run as its own config.yml says, keeps to the objects its  *)
(* mode binds: config.yml and functions.lua of every example agree with    *)
(* the block of main.cpp that runs them.                                   *)
ExamplesSupported ==
  cfg.enabled = {ExampleMode[cfg.workflow]} => exit # "undefined"
=============================================================================

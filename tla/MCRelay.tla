------------------------------ MODULE MCRelay ------------------------------
(***************************************************************************)
(* Instances of Relay for TLC: the chains the repository builds.           *)
(* TimeoutProvider and Cache wrap providers, hook and sink wrap what       *)
(* dsl.Runner gets from them, and Runtime.Generate puts a hook around a    *)
(* pipeline.                                                               *)
(***************************************************************************)
EXTENDS Relay

Wrapped == {<<"timeout", "sink">>, <<"hook", "sink">>}
Cached == {<<"timeout", "cache">>, <<"cache", "timeout">>}
Piped == {<<"processor", "processor", "hook">>}

\* One wrapper alone.
MCTimeout == {<<"timeout">>}
MCCache == {<<"cache">>}

MCChains == Wrapped \cup Cached \cup Piped

=============================================================================

---------------------------- MODULE MCCaptureLoop ---------------------------
(***************************************************************************)
(* TLC instance of CaptureLoop: two directories and two scripts that       *)
(* compete for two ports, and captures of up to MaxBlocks blocks with two  *)
(* link types, one of them not supported.                                  *)
(***************************************************************************)
EXTENDS CaptureLoop

Lua(path, ports) == [path |-> path, lua |-> TRUE, ports |-> ports]

MCPluginDirs ==
    << {Lua(1, {443}), Lua(2, {443, 8443}), [path |-> 3, lua |-> FALSE, ports |-> {443}]},
       None, {Lua(1, {443})} >>
MCScripts == << Lua(2, {8443}), Lua(1, {8443}) >>

\* Every combination of the options that main validates; after that a rotation by
\* time is like one by count, and a file output goes with rotation.
MCClis ==
    {c \in Cli : /\ c.rotate_seconds => c.rotate_count
                 /\ c.keylog = (c.output = "prefix")
                 /\ c.rotate_count = (c.output = "prefix")
                 /\ c.output = "prefix" => c.packet_log # "-"}
=============================================================================

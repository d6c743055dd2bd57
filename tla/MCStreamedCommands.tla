------------------------- MODULE MCStreamedCommands -------------------------
(* Values for TLC: a media command reads two files.                        *)
EXTENDS StreamedCommands

CONSTANTS a, b

MCPaths      == {a, b}
MCMediaLocks == <<a, b>>
=============================================================================

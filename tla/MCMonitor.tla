----------------------------- MODULE MCMonitor -------------------------------
(***************************************************************************)
(* Monitor over a buffer of six characters, so that lines of three         *)
(* arguments can be typed and overlong lines are frequent, with command    *)
(* names of which one is a prefix of another; the shortest is "backtrace".  *)
(***************************************************************************)
EXTENDS Monitor

CONSTANTS h, b, sp, tab, lf

MCPrintable  == {h, b, sp}
MCNewlines   == {lf}
MCControls   == {tab}
MCWHITESPACE == {sp}
MCCommands   == << <<h, b>>, <<h>>, <<b>> >>
MCBacktrace  == 2
=============================================================================

---------------------------- MODULE MCHistoryFile ----------------------------
(***************************************************************************)
(* HistoryFile with three commands, one of which begins like another: what *)
(* is left of a line that is torn may be a line that was written.          *)
(***************************************************************************)
EXTENDS HistoryFile

MCCommands == {<<"l", "s">>, <<"l">>, <<"h">>}

=============================================================================

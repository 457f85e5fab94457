--------------------------- MODULE MCCmdLineBuffer ---------------------------
(* Instances of CmdLineBuffer: two letters, a few commands and histories.  *)
EXTENDS CmdLineBuffer

\* "history 1", "history -c" and a command that asks for a key
MCRecallLine == <<2>>
MCForgetLine == <<2, 2>>
MCAskLine == <<2, 1>>

\* The history of a new account, and one with two lines.
MCFileHistory == {<<>>, << <<1>>, <<1, 2>> >>}

\* Two commands that part after their first letter, and one that stands alone.
MCCommands == {<<1, 1, 2>>, <<1, 2>>, <<2, 2>>}

\* States that differ only in the size of the allocation, or in what is on a
\* screen that is known to be apart from the buffer, go on alike: neither is
\* read before it is set again.
EditView ==
  <<text, pos, history, index, state, listing, waiting, upset,
    IF upset THEN <<>> ELSE screen>>

=============================================================================

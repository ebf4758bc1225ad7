----------------------------- MODULE MCConsole -----------------------------
(***************************************************************************)
(* A small console: a ring of three slots, lines of two characters and     *)
(* their end, commands of one argument.  A letter typed also ends an       *)
(* escape sequence, and the commands are words of it.                      *)
(***************************************************************************)
EXTENDS Console

MCSends ==
    [key |-> {"CR", "BS", "^C", "ESC", "CTRL", "3", " "}, esc |-> {"[", "O", "CR"},
     csi |-> {"A", "B", "C", "D", "3"}, tail |-> {"H", "F", "~", "CR"}]

MCCommands == {<<"3">>, <<"3", "3">>}
NoCommands == {}
=============================================================================

----------------------------- MODULE MCConnection -----------------------------
(* Instances of Connection for TLC.                                        *)
EXTENDS Connection

Line(text) == <<text>>

(* The reply to a GET of an empty value has an empty object in it.         *)
MCTable ==
  Line("get") :> [kind |-> "inline", count |-> 0, reply |-> <<1, 0, 2>>]
  @@ Line("set") :> [kind |-> "bulk", count |-> 2, reply |-> <<1>>]
  @@ Line("quit") :> [kind |-> "quit", count |-> 0, reply |-> <<1>>]

Request(line, data) == [line |-> line, data |-> data]

Get == Request(Line("get"), <<>>)
(* The data looks like the end of a line and a command.                    *)
Set == Request(Line("set"), <<"lf", "get">>)
Quit == Request(Line("quit"), <<>>)
Unknown == Request(Line("foo"), <<>>)
LongLine == Request(<<"foo", "foo", "foo">>, <<>>)
BlankLine == Request(<<>>, <<>>)

AllRequests == {Get, Set, Quit, Unknown, LongLine, BlankLine}
WithBlanks == {Get, BlankLine}
=============================================================================

---------------------------- MODULE MCCommandParser ----------------------------
(* CommandParser for TLC: arrays with an empty argument, and between them  *)
(* a line that fails, one with quotes, and replies                         *)
EXTENDS CommandParser

CONSTANTS get, odd

Get == Array(<<<<get>>, <<>>>>)
Wrong == Line(<<Word(<<odd>>)>>, Crlf)
QuotedLine == Line(<<Word(<<get>>), Quoted(<<odd, " ">>)>>, <<Mark("\n")>>)
Others == {Wrong, QuotedLine, Status("O", "K"), BulkReply(<<get>>), NilReply}
Mixed == {<<x, Get, y, Get, x, Get, y>> : x \in Others, y \in {Wrong, QuotedLine, NilReply}}
Wrongs == {Wrong.args}
=============================================================================

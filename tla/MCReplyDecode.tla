--------------------------- MODULE MCReplyDecode ---------------------------
(* Up to two rows of up to two cells, or two names, and every damage to the  *)
(* text they are rendered as.                                                *)
EXTENDS ReplyDecode, TLC

MCStrings == {"rows", "cells", "row_id", "truncated", "x", "y"}
MCNumbers == ("1" :> 1) @@ ("2" :> 2)
MCWords == {"true", "false", "null"}

Cell(column, value) == [column |-> column, value |-> value]

CellLists == { << >>, <<Cell("1", <<"2">>)>>,
               <<Cell("1", <<"lbrace", "rows", "colon", "lbracket", "null", "rbracket", "rbrace">>),
                 Cell("2", <<"y">>)>> }

RowLists == {<< >>} \cup {<<a>> : a \in CellLists} \cup {<<a, b>> : a, b \in CellLists}
NameLists == {<< >>, <<"x">>, <<"x", "y">>}

MCReplies ==
    [rows : RowLists, names : {<< >>}, truncated : BOOLEAN, first : BOOLEAN,
     rowId : {"first", "last", "none"}]
    \cup [rows : {<< >>}, names : NameLists, truncated : {FALSE}, first : {FALSE},
          rowId : {"none"}]
=============================================================================

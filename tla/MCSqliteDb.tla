------------------------------- MODULE MCSqliteDb --------------------------------
(* For SqliteDb: texts of one and two statements.                             *)
EXTENDS SqliteDb

SomeTexts == {<<"rows">>, <<"write", "rows">>, <<"comment">>}
=============================================================================

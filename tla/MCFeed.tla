-------------------------------- MODULE MCFeed --------------------------------
(* Feeds for TLC: labels that begin alike, among them two that no reader    *)
(* knows, and documents with what a parser may write.                       *)
EXTENDS Feed

MCLetters == {"<", "/", ">", " ", "a", "b", "c", "d", "h", "o", "t", "v", "x",
              "1", "2", "3", "4", "5", "6", "7", "8"}
MCRoot == <<"d", "t">>
MCTree == <<"v", "a">>
MCCode == <<"c", "o">>
MCTime == <<"t">>
MCPrice == <<"c", "a">>
MCClock == {<<"h">>}

Other == <<"c", "v">>   \* begins as Code and Price do

Plain(code) == <<<<MCCode, <<code>>>>, <<MCTime, <<"h">>>>, <<MCPrice, <<"1">>>>>>

(* The element that is ignored has the tags of a value inside.              *)
Nested == <<<<Other, <<"x", "<", "c", "o", ">", "2", "<", "/", "c", "o", ">">>>>,
            <<MCCode, <<"3">>>>, <<MCTime, <<"h">>>>>>

NoCode == <<<<MCTime, <<"h">>>>>>
TwoCodes == <<<<MCCode, <<"4">>>>, <<MCCode, <<"5">>>>, <<MCTime, <<"h">>>>>>
Yesterday == <<<<MCCode, <<"6">>>>, <<MCTime, <<"d">>>>>>

(* A value with a tag in its text.                                          *)
Marked == <<<<MCCode, <<"7", "<", "b", ">", "8", "<", "/", "b", ">">>>>, <<MCTime, <<"h">>>>>>

MCDocuments == {<<Plain("1"), Nested>>, <<NoCode, TwoCodes, Marked>>, <<Yesterday>>, <<>>}
MCPieces == {1, 2, 30}
=============================================================================

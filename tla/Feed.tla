--------------------------------- MODULE Feed ---------------------------------
(***************************************************************************)
(* A feed as a whole: the children it forks and reaps (Children), and what *)
(* main does with what the parser writes: each read takes a piece of it to *)
(* the reader (XmlReader), until the parser's end of the pipe is closed.   *)
(* The parser may die before it has written all.                           *)
(* Source: src/feeder/Feeder.cc.                                           *)
(***************************************************************************)
EXTENDS Children, XmlReader

CONSTANTS
  Documents,   \* what parsers write: values, each of elements <<label, text>>
  Space,       \* what they write before a value
  Closed,      \* no pipe of a parser is open
  Pieces       \* bound: letters a read returns, if there are as many (4096)

ASSUME FeedAssumption ==
  /\ Space \in Letters
  /\ Documents \subseteq Seq(Seq(Seq(Letters) \X Seq(Letters))) /\ Closed \notin Documents
  /\ Pieces \subseteq Nat \ {0}

VARIABLES
  doc,        \* what the running feed's parser writes
  written,    \* letters of it the parser writes before it ends
  consumed,   \* letters read
  reader      \* xmlReader

stream == <<doc, written, consumed, reader>>
feedVars == <<childrenVars, stream>>

NoReader == NewReader(Root)

-----------------------------------------------------------------------------
(* The text of a document: a letter before each value, as parsers write.    *)

Element(label, body) == <<"<">> \o Tag(label) \o body \o <<"<", "/">> \o Tag(label)

ValueText(value) ==
  <<Space>> \o Element(Tree, FlattenSeq([i \in DOMAIN value |-> Element(value[i][1], value[i][2])]))
Values(d) == FlattenSeq([i \in DOMAIN d |-> ValueText(d[i])])

TextOf == [d \in Documents |-> Element(Root, Values(d))]

TextSize(d) == Len(TextOf[d])

(* Where the i-th value ends.                                               *)
EndOf(d, i) == Len(<<"<">> \o Tag(Root)) + Len(Values(SubSeq(d, 1, i)))

(* The values that insert_value should have been given after n letters.     *)
ValuesOf(d, n) ==
  LET ended == {i \in DOMAIN d : EndOf(d, i) <= n}
  IN  FlattenSeq([i \in 1..Cardinality(ended) |-> Given(d[i])])

-----------------------------------------------------------------------------
FeedInit == ChildrenInit /\ doc = Closed /\ written = 0 /\ consumed = 0 /\ reader = NoReader

(* The parser is forked: its pipe is open, the reader is a new one.         *)
Open ==
  /\ ForkParser
  /\ doc' \in Documents /\ written' = TextSize(doc')
  /\ consumed' = 0 /\ reader' = NoReader

Close == doc' = Closed /\ written' = 0 /\ consumed' = 0 /\ reader' = NoReader

(* read returns n letters.                                                  *)
ReadPiece(n) ==
  /\ main = "reading" /\ ~handler /\ consumed + n <= written
  /\ consumed' = consumed + n
  /\ reader' = Read(reader, SubSeq(TextOf[doc], consumed + 1, consumed')).reader
  /\ UNCHANGED <<childrenVars, doc, written>>

(* Of what was not read, the parser had written nothing or all: that it had *)
(* written some of it is as if that had been read before.                   *)
ParserEnds ==
  /\ ParserExits
  /\ written' \in {consumed, written}
  /\ UNCHANGED <<doc, consumed, reader>>

EndOfFile == consumed = written /\ ReadEnds /\ Close

ReadError == ReadFails /\ Close

(* What Children does without the pipe.                                     *)
Elsewhere(A) == A /\ UNCHANGED stream

FeedNext ==
  \/ Open \/ ParserEnds \/ EndOfFile \/ ReadError
  \/ \E n \in Pieces : ReadPiece(n)
  \/ Elsewhere(Exec) \/ Elsewhere(ForkWget) \/ Elsewhere(PipeFails) \/ Elsewhere(ForkParserFails)
  \/ Elsewhere(MainReaps) \/ Elsewhere(MainHasNone) \/ Elsewhere(Handler) \/ Elsewhere(ChildExits)

(* main and the handler run on; a read returns when there is something to   *)
(* read, or the parser is gone.  Nothing makes a child end.                 *)
FeedSpec ==
  /\ FeedInit /\ [][FeedNext]_feedVars
  /\ WF_feedVars(Open \/ Elsewhere(PipeFails \/ ForkParserFails))
  /\ WF_feedVars(EndOfFile \/ \E n \in Pieces : ReadPiece(n))
  /\ WF_feedVars(Elsewhere(MainReaps)) /\ WF_feedVars(Elsewhere(MainHasNone))
  /\ WF_feedVars(Elsewhere(Handler))

-----------------------------------------------------------------------------
(* Properties.                                                              *)

TagLength == Max({Len(l) : l \in {Root, Tree, Code, Time, Price}}) + 3

(* What a reader keeps of the text is its end, and no longer than a tag     *)
(* that is not finished, unless it is a value that is not.                  *)
Keeps(r) ==
  /\ r.state \in {NULL, LOOKING, VALUE, TREE, DONE}
  /\ r.offset \in 0..Len(r.buffer) /\ r.ign_deep >= 0
  /\ Len(r.buffer) < TagLength \/ r.state = VALUE
  /\ IsSuffix(r.buffer, SubSeq(TextOf[doc], 1, consumed))

(* Types; a pipe is open while main reads, and the readers keep no more     *)
(* than they must.                                                          *)
FeedTypeOK ==
  /\ ChildrenTypeOK
  /\ doc = Closed <=> main # "reading"
  /\ doc = Closed => consumed = 0 /\ written = 0 /\ reader = NoReader
  /\ doc # Closed =>
       /\ doc \in Documents /\ consumed \in 0..written /\ written <= TextSize(doc)
       /\ Keeps(reader)
       /\ reader.state = TREE => Keeps(reader.cur_tree)

(* The pieces make no difference: the values given to insert_value are at   *)
(* any moment those of the text that was read, each once and in order,      *)
(* though tags, values and labels with the same beginning are cut anywhere, *)
(* elements nobody knows are between them, and the parser may die.          *)
Whole == INSTANCE WholeReader WITH read <- consumed, given <- reader.given, Size <- TextSize

ReadsWhole == Whole!Spec
=============================================================================

------------------------------- MODULE XmlReader -------------------------------
(***************************************************************************)
(* The reader of the parsers' XML: it is given the text in pieces of any   *)
(* size, keeps of each what is not finished, a tag or a value, and lets a  *)
(* reader of its own read each tree.  There are two: the reader of the     *)
(* data, that has trees only, and the one of a value, that has values only.*)
(* Source: src/ccltor/utils/XmlReader.cc, src/feeder/XmlReaderData.cc,     *)
(* src/feeder/XmlReaderValue.cc.                                           *)
(*                                                                         *)
(* A text is a sequence of letters; what is between tags is one letter.    *)
(* Price stands for name, price, volume and capital, none of which a value *)
(* must have.  The hints by which labels are skipped are left out: labels  *)
(* of another first letter do not match.                                   *)
(***************************************************************************)
EXTENDS Integers, Sequences, SequencesExt, FiniteSetsExt

CONSTANTS
  Letters,
  Root, Tree,          \* DATA_ROOT_LABEL, VALUE_ROOT_LABEL: sequences of letters
  Code, Time, Price,   \* labels of value_labels
  Clock,               \* texts that are read as hh:mm
  Missing              \* no price: 0

ASSUME ReaderAssumption ==
  /\ {"<", "/", ">"} \subseteq Letters
  /\ {Root, Tree, Code, Time, Price} \subseteq Seq(Letters \ {"<", ">"}) /\ Root # Tree

(* The states; the odd ones up to 3 are those of a label that is cut off.   *)
NULL == 0
LOOKING == 2
VALUE == 4
TREE == 5
DONE == 6
Partial(s) == s \in {1, 3}

NewReader(root) ==
  [root |-> root, state |-> NULL, ign_deep |-> 0, offset |-> 0, buffer |-> <<>>,
   cur_value |-> <<>>, cur_tree |-> <<>>, values |-> <<>>, count |-> 0, given |-> <<>>]

(* match_tree of the data makes a reader that is inside its root already.   *)
SubReader == [NewReader(Tree) EXCEPT !.state = LOOKING]

(* The labels of match_value and match_tree of a reader.                    *)
ValueLabels(r) == IF r.root = Root THEN {} ELSE {Code, Time, Price}
TreeLabels(r) == IF r.root = Root THEN {Tree} ELSE {}

(* XmlReaderValue::done: a value with one code and one time of today is     *)
(* given to insert_value.                                                   *)
Texts(values, label) ==
  LET of(v) == v[1] = label IN [i \in DOMAIN SelectSeq(values, of) |-> SelectSeq(values, of)[i][2]]
Given(values) ==
  LET codes == Texts(values, Code)
      times == Texts(values, Time)
      prices == Texts(values, Price)
  IN  IF Len(codes) # 1 \/ Len(times) # 1 \/ times[1] \notin Clock THEN <<>>
      ELSE <<[code |-> codes[1], time |-> times[1],
              price |-> IF Len(prices) = 1 THEN prices[1] ELSE Missing]>>

-----------------------------------------------------------------------------
(* match_string.                                                            *)

Rest(r) == SubSeq(r.buffer, r.offset + 1, Len(r.buffer))
Tag(label) == label \o <<">">>

Matches(r, label) == IsPrefix(Tag(label), Rest(r))
CutOff(r, labels) == \E l \in labels : IsStrictPrefix(Rest(r), Tag(l))

(* state |= 1.                                                              *)
Cut(r) == [r EXCEPT !.state = IF Partial(@) THEN @ ELSE @ + 1]

After(r, label) == [r EXCEPT !.offset = @ + Len(Tag(label))]

-----------------------------------------------------------------------------
(* A turn of read's loop: the reader, offs_shrink, the bytes used, and      *)
(* whether it goes on.                                                      *)

Turn(r, shrink, used) == [reader |-> r, shrink |-> shrink, used |-> used, ends |-> FALSE]
End(r, shrink, used) == [reader |-> r, shrink |-> shrink, used |-> used, ends |-> TRUE]

Letter(r) == r.buffer[r.offset + 1]

(* NULL: the root is looked for.                                            *)
InNull(r) ==
  IF Matches(r, r.root) THEN [After(r, r.root) EXCEPT !.state = LOOKING]
  ELSE IF CutOff(r, {r.root}) THEN Cut(r) ELSE r

(* LOOKING, at an end tag: the root's, and done is called, or one that is   *)
(* passed over.                                                             *)
InEnd(r) ==
  IF Matches(r, r.root)
    THEN [After(r, r.root) EXCEPT !.state = DONE, !.given = @ \o Given(r.values)]
  ELSE IF CutOff(r, {r.root}) THEN Cut(r) ELSE r

(* LOOKING, at a start tag.                                                 *)
InStart(r) ==
  LET value == {l \in ValueLabels(r) : Matches(r, l)}
      tree == {l \in TreeLabels(r) : Matches(r, l)}
  IN  IF value # {}
        THEN LET l == CHOOSE x \in value : TRUE
             IN  [After(r, l) EXCEPT !.state = VALUE, !.cur_value = l]
      ELSE IF tree # {}
        THEN [After(r, Tree) EXCEPT !.state = TREE, !.cur_tree = SubReader, !.count = @ + 1]
      ELSE IF CutOff(r, ValueLabels(r) \cup TreeLabels(r)) THEN Cut(r)
      ELSE [r EXCEPT !.ign_deep = 1]

(* Faulty variant: an end tag cut off after its slash is left there.        *)
InLookingKept(r, shrink, used) ==
  IF Letter(r) = "/"
    THEN LET s == [r EXCEPT !.offset = @ + 1]
         IN  IF s.offset >= Len(s.buffer) THEN End(r, shrink, used)
             ELSE Turn(InEnd(s), shrink, used)
    ELSE LET s == InStart(r)
         IN  Turn(s, IF s.state = VALUE THEN s.offset ELSE shrink, used)

(* LOOKING: an end tag whose name has not come goes back to its "<".  A     *)
(* value's text is kept from its first letter on.                           *)
InLooking(r, shrink, used) ==
  IF Letter(r) = "/"
    THEN LET s == [r EXCEPT !.offset = @ + 1]
         IN  IF s.offset >= Len(s.buffer)
               THEN End([s EXCEPT !.offset = @ - 2], shrink, used)
               ELSE Turn(InEnd(s), shrink, used)
    ELSE LET s == InStart(r)
         IN  Turn(s, IF s.state = VALUE THEN s.offset ELSE shrink, used)

(* Faulty variant: after a value its text is still kept.                    *)
InValueKept(r, shrink, used) ==
  IF Letter(r) = "/"
    THEN Turn([r EXCEPT !.values = Append(@, <<r.cur_value, SubSeq(r.buffer, shrink + 1, r.offset - 1)>>),
                        !.state = LOOKING],
              shrink, used)
    ELSE Turn([r EXCEPT !.ign_deep = 1], shrink, used)

(* VALUE: the text up to the end tag, whatever the tag's name.              *)
InValue(r, shrink, used) ==
  IF Letter(r) = "/"
    THEN Turn([r EXCEPT !.values = Append(@, <<r.cur_value, SubSeq(r.buffer, shrink + 1, r.offset - 1)>>),
                        !.state = LOOKING],
              -1, used)
    ELSE Turn([r EXCEPT !.ign_deep = 1], shrink, used)

(* The next "<", or the end of the buffer.                                  *)
NextTag(r) ==
  LET tags == {p \in r.offset..(Len(r.buffer) - 1) : r.buffer[p + 1] = "<"}
  IN  IF tags = {} THEN Len(r.buffer) ELSE Min(tags)

(* Inside an element that is ignored each tag goes in or out.               *)
Ignore(r) == [r EXCEPT !.ign_deep = IF Letter(r) = "/" THEN @ - 1 ELSE @ + 1]

Look(r, shrink, used) ==
  LET at == NextTag(r)
      s == [r EXCEPT !.offset = at + 1]
  IN  IF at + 1 >= Len(r.buffer) THEN End([r EXCEPT !.offset = at], shrink, used)
      ELSE IF r.ign_deep > 0 THEN Turn(Ignore(s), shrink, used)
      ELSE CASE r.state = NULL -> Turn(InNull(s), shrink, used)
             [] r.state = LOOKING -> InLooking(s, shrink, used)
             [] r.state = VALUE -> InValue(s, shrink, used)

(* A label that was cut off goes back to its "<".                           *)
BackToTag(r) ==
  [r EXCEPT !.offset = Max({p \in 0..r.offset : r.buffer[p + 1] = "<"}), !.state = @ - 1]

-----------------------------------------------------------------------------
(* read: what is between two turns is a step of its loop; at its end what   *)
(* is finished is erased.                                                   *)

Shrink(t) ==
  LET at == IF t.shrink < 0 THEN t.reader.offset ELSE t.shrink
  IN  [reader |-> [t.reader EXCEPT !.buffer = SubSeq(@, at + 1, Len(@)), !.offset = @ - at],
       used |-> t.used]

First(r, piece) ==
  Turn([r EXCEPT !.buffer = @ \o piece], IF r.state = VALUE THEN 0 ELSE -1, Len(piece))

Over(t) == t.ends \/ t.reader.offset >= Len(t.reader.buffer)

(* The quantified t, here and below, has TLC evaluate a turn once.          *)
Result(turns, n) == CHOOSE result \in {Shrink(t) : t \in {turns[n]}} : TRUE

(* The body of the loop where there are no trees; old is the buffer's       *)
(* length before the piece.                                                 *)
ValueBody(t, old) ==
  LET r == t.reader
  IN  CASE r.state = DONE -> End([r EXCEPT !.offset = Len(r.buffer)], t.shrink, r.offset - old)
        [] Partial(r.state) -> End(BackToTag(r), t.shrink, t.used)
        [] OTHER -> Look(r, t.shrink, t.used)

ValueTurn(t, old) == IF Over(t) THEN t ELSE ValueBody(t, old)

(* read of a value: each turn but the last uses letters, so that there are  *)
(* no more turns than letters.                                              *)
ReadValue(r, piece) ==
  LET old == Len(r.buffer)
      most == old + Len(piece)
      turns[n \in 0..most] ==
        IF n = 0 THEN First(r, piece)
        ELSE CHOOSE next \in {ValueTurn(t, old) : t \in {turns[n - 1]}} : TRUE
  IN  Result(turns, most)

(* The rest goes to the reader of the tree, which says how much it used:    *)
(* all of it, when it goes on or has just ended with it.                    *)
InTree(r, shrink, used) ==
  LET sub == ReadValue(r.cur_tree, Rest(r))
      s == [r EXCEPT !.given = @ \o (IF r.cur_tree.state = DONE THEN <<>> ELSE sub.reader.given)]
  IN  IF sub.used = Len(Rest(r))
        THEN End([s EXCEPT !.cur_tree = sub.reader, !.offset = Len(s.buffer)], shrink, used)
        ELSE Turn([s EXCEPT !.state = LOOKING, !.cur_tree = <<>>,
                             !.offset = IF sub.used > 0 THEN @ + sub.used ELSE @], shrink, used)

Body(t, old) ==
  IF t.reader.state = TREE THEN InTree(t.reader, t.shrink, t.used) ELSE ValueBody(t, old)

DataTurn(t, old) == IF Over(t) THEN t ELSE Body(t, old)

(* read of the data: the turn that ends a tree need not use letters.        *)
Read(r, piece) ==
  LET old == Len(r.buffer)
      most == 2 * (old + Len(piece))
      turns[n \in 0..most] ==
        IF n = 0 THEN First(r, piece)
        ELSE CHOOSE next \in {DataTurn(t, old) : t \in {turns[n - 1]}} : TRUE
  IN  Result(turns, most)
=============================================================================

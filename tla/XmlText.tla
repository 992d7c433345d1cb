------------------------------ MODULE XmlText ------------------------------
(***************************************************************************)
(* Texts and the XML that carries them.  A text is a sequence of           *)
(* characters: an ASCII character is a string of one letter, any other     *)
(* character is a longer string (such as "BOM" or "wide").  A document is  *)
(* a sequence of tokens, which are pairs <<kind, string>>: a character, an *)
(* entity, an opening or a closing tag, or what no document should have.   *)
(* An attribute is written like an element whose name begins with "@".     *)
(***************************************************************************)
EXTENDS Integers, SequencesExt

Texts == Seq(STRING)

Kinds == {"char", "&", "<", "</", "<?", "byte"}

Documents == Seq(Kinds \X STRING)

Digits == {"0", "1", "2", "3", "4", "5", "6", "7", "8", "9"}

DigitChars == <<"0", "1", "2", "3", "4", "5", "6", "7", "8", "9">>

DigitValue == [c \in Digits |-> CHOOSE d \in 0 .. 9 : DigitChars[d + 1] = c]

\* Rust's Display of an integer.
DecimalDigits[n \in Nat] ==
  IF n < 10 THEN <<DigitChars[n + 1]>>
  ELSE Append(DecimalDigits[n \div 10], DigitChars[(n % 10) + 1])

Decimal(n) == IF n < 0 THEN <<"-">> \o DecimalDigits[-n] ELSE DecimalDigits[n]

Uppers == {"A", "B", "C", "D", "E", "F", "G", "H", "I", "J", "K", "L", "M",
           "N", "O", "P", "Q", "R", "S", "T", "U", "V", "W", "X", "Y", "Z"}

AllDigits(text) == ToSet(text) \subseteq Digits

\* Rust's str::split: one piece more than there are separators.
Split(text, separator) ==
  FoldLeft(LAMBDA pieces, c :
             IF c = separator THEN Append(pieces, <<>>)
             ELSE [pieces EXCEPT ![Len(pieces)] = Append(@, c)],
           <<<<>>>>, text)

-----------------------------------------------------------------------------
(* Writing *)

Character(c) == <<"char", c>>

TextEntities == [c \in {"&", "<", ">"} |->
                   CASE c = "&" -> "amp" [] c = "<" -> "lt" [] c = ">" -> "gt"]

AttributeEntities == [c \in {"&", "<", ">", "\"", "'"} |->
                        CASE c = "\"" -> "quot" [] c = "'" -> "apos"
                          [] OTHER -> TextEntities[c]]

Escaped(text, entities) ==
  [i \in DOMAIN text |->
     IF text[i] \in DOMAIN entities THEN <<"&", entities[text[i]]>> ELSE Character(text[i])]

\* push_escaped of f0401.rs, push_attribute_escaped of wire.rs.
PushEscaped(text) == Escaped(text, AttributeEntities)

\* push_text_escaped of wire.rs.
PushTextEscaped(text) == Escaped(text, TextEntities)

Element(tag, content) == <<<<"<", tag>>>> \o content \o <<<<"</", tag>>>>

-----------------------------------------------------------------------------
(* Reading: any XML parser on the side of the platform.                    *)

EntityText == [amp |-> "&", lt |-> "<", gt |-> ">", quot |-> "\"", apos |-> "'"]

Node(tag) == [tag |-> tag, children |-> <<>>, text |-> <<>>]

\* The innermost open element gets a character, or an element that is closed.
GetsChar(open, c)      == [open EXCEPT ![Len(open)].text = Append(@, c)]
GetsChild(open, child) == [open EXCEPT ![Len(open)].children = Append(@, child)]

\* One token, to a reader with these open elements; none left is an error.
ReadToken(open, token) ==
  IF open = <<>> THEN <<>>
  ELSE CASE token[1] = "<" -> Append(open, Node(token[2]))
         [] token[1] = "</" /\ Len(open) > 1 /\ token[2] = Last(open).tag ->
              GetsChild(Front(open), Last(open))
         [] token[1] = "&" /\ token[2] \in DOMAIN EntityText ->
              GetsChar(open, EntityText[token[2]])
         [] token[1] = "char" /\ token[2] \notin {"<", "&"} -> GetsChar(open, token[2])
         [] OTHER -> <<>>

\* The open elements after all the tokens; an error stays one.
Reading(open, tokens) ==
  LET after[i \in 0 .. Len(tokens)] ==
        IF i = 0 THEN open ELSE ReadToken(after[i - 1], tokens[i])
  IN  IF open = <<>> THEN <<>> ELSE after[Len(tokens)]

\* A document is read in pieces of 32 tokens, which keeps the recursion flat.
Piece(tokens, k) ==
  SubSeq(tokens, 32 * k - 31, IF 32 * k < Len(tokens) THEN 32 * k ELSE Len(tokens))

ReadAll(tokens) ==
  LET after[k \in 0 .. (Len(tokens) + 31) \div 32] ==
        IF k = 0 THEN <<Node("")>> ELSE Reading(after[k - 1], Piece(tokens, k))
  IN  after[(Len(tokens) + 31) \div 32]

\* The elements of a document; none if it is not well-formed.
ReadXml(tokens) ==
  LET open == ReadAll(tokens)
  IN  IF Len(open) = 1 THEN open[1].children ELSE <<>>

\* The first child of a node by that name.
HasChild(node, tag) == \E i \in DOMAIN node.children : node.children[i].tag = tag
Child(node, tag) ==
  node.children[CHOOSE i \in DOMAIN node.children :
                  /\ node.children[i].tag = tag
                  /\ \A j \in 1 .. i - 1 : node.children[j].tag # tag]
=============================================================================

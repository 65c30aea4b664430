----------------------------- MODULE TextCodec -----------------------------
(***************************************************************************)
(* Decoding one line (src/protocol/TextCodec.cpp), token by token: the     *)
(* line is a sequence of words and blanks, the cursor takes the next word, *)
(* and each word is parsed as the field its place stands for.  A blank is  *)
(* a space or a tab; a word is a number, a number with something after it, *)
(* or a text.                                                              *)
(***************************************************************************)
EXTENDS Integers, Sequences, FiniteSetsExt, SequencesExt

CONSTANTS
  NumberLimit,  \* 2^64: numbers are parsed to 64 bits
  MaxLength,    \* max_message_length
  Lines         \* the lines that are read: [text |-> ..., cr |-> ...]

(* What a line is made of: between two words there is a blank.             *)
Blank == [kind |-> "blank"]
Text(t) == [kind |-> "text", text |-> t]
Number(n) == [kind |-> "number", value |-> n]
NumberAndMore(n) == [kind |-> "mixed", value |-> n]

Token ==
  [kind : {"blank"}] \cup [kind : {"text"}, text : STRING]
    \cup [kind : {"number", "mixed"}, value : Nat]

Line ==
  {l \in [text : Seq(Token), cr : BOOLEAN] :
     \A i \in 2 .. Len(l.text) : Blank \in {l.text[i - 1], l.text[i]}}

ASSUME CodecAssumption ==
  /\ NumberLimit \in Nat \ {0} /\ MaxLength \in Nat
  /\ Lines \subseteq Line

VARIABLES
  line,     \* the line, as it was read
  cursor,   \* remaining_ of the token cursor
  kind,     \* the message type, or "none" before it is read
  fields,   \* the values of the fields read so far
  result    \* the result, or Pending

vars == <<line, cursor, kind, fields, result>>

-----------------------------------------------------------------------------

Pending == [type |-> "Pending"]
NoId == 0
NoValue == [none |-> TRUE]
Value(v) == [none |-> FALSE, value |-> v]

Rejected(id, reason) ==
  [type |-> "Rejected", client_order_id |-> id, reason |-> reason]

(* skip_whitespace, then the word at the front and what follows it.        *)
Skipped(text) ==
  LET words == {i \in DOMAIN text : text[i] # Blank}
  IN  IF words = {} THEN <<>> ELSE SubSeq(text, Min(words), Len(text))

(* Mutant: what does not fit is taken for the largest number.             *)
ParseSaturating(word) ==
  IF word.kind = "number" THEN Value(Min({word.value, NumberLimit - 1})) ELSE NoValue

(* from_chars over the whole token.                                        *)
ParseUnsigned(word) ==
  IF word.kind = "number" /\ word.value < NumberLimit
  THEN Value(word.value)
  ELSE NoValue

(* Zero is refused together with what is no number.                        *)
ParsePositive(word) ==
  IF ParseUnsigned(word) = Value(0) THEN NoValue ELSE ParseUnsigned(word)

ParseOneOf(word, texts) ==
  IF word.kind = "text" /\ word.text \in texts THEN Value(word.text) ELSE NoValue

NewOrderFields ==
  <<"client_order_id", "symbol", "side", "order_type", "tif", "price", "quantity">>
CancelOrderFields == <<"client_order_id", "symbol">>
FieldsOf(k) == IF k = "N" THEN NewOrderFields ELSE CancelOrderFields

Parse(field, word) ==
  CASE field \in {"client_order_id", "price", "quantity"} -> ParsePositive(word)
    [] field = "symbol" -> Value(word)
    [] field = "side" -> ParseOneOf(word, {"B", "S"})
    [] field = "order_type" -> ParseOneOf(word, {"L", "M"})
    [] field = "tif" -> ParseOneOf(word, {"GFD", "IOC", "FOK"})

ReasonFor(field) ==
  CASE field = "price" -> "InvalidPrice"
    [] field = "quantity" -> "InvalidQuantity"
    [] OTHER -> "InvalidMessage"

(* Mutant: a new order's id is given back as well.                         *)
RejectedIdOfAny == IF fields # <<>> THEN fields[1] ELSE NoId

(* A cancel that is refused after its id has been read gives the id back.  *)
RejectedId ==
  IF kind = "C" /\ fields # <<>> THEN fields[1] ELSE NoId

-----------------------------------------------------------------------------

Init ==
  /\ line \in Lines
  /\ cursor = line.text
  /\ kind = "none"
  /\ fields = <<>>
  /\ result = Pending

Refuse(id, reason) ==
  /\ result' = Rejected(id, reason)
  /\ UNCHANGED <<line, cursor, kind, fields>>

Length == Len(line.text) + (IF line.cr THEN 1 ELSE 0)

(* decode, up to the message type.  A carriage return at the end counts    *)
(* for the length and is then taken off; any other is part of a word.      *)
RefuseTooLong ==
  /\ result = Pending /\ kind = "none"
  /\ Length > MaxLength
  /\ Refuse(NoId, "InvalidMessage")

ReadType ==
  /\ result = Pending /\ kind = "none"
  /\ Length <= MaxLength
  /\ LET rest == Skipped(cursor)
     IN  IF rest = <<>> \/ Head(rest) \notin {Text("N"), Text("C")}
         THEN Refuse(NoId, "InvalidMessage")
         ELSE /\ kind' = Head(rest).text
              /\ cursor' = Tail(rest)
              /\ UNCHANGED <<line, fields, result>>

(* Mutant: a missing word is taken for a wrong value of its field.         *)
ReadFieldNamingMissing ==
  /\ result = Pending /\ kind # "none"
  /\ Len(fields) < Len(FieldsOf(kind))
  /\ LET field == FieldsOf(kind)[Len(fields) + 1]
         rest == Skipped(cursor)
     IN  IF rest = <<>> \/ Parse(field, Head(rest)) = NoValue
         THEN Refuse(RejectedId, ReasonFor(field))
         ELSE /\ fields' = Append(fields, Parse(field, Head(rest)).value)
              /\ cursor' = Tail(rest)
              /\ UNCHANGED <<line, kind, result>>

(* decode_new_order and decode_cancel_order: one field.                    *)
ReadField ==
  /\ result = Pending /\ kind # "none"
  /\ Len(fields) < Len(FieldsOf(kind))
  /\ LET field == FieldsOf(kind)[Len(fields) + 1]
         rest == Skipped(cursor)
     IN  IF rest = <<>>
         THEN Refuse(RejectedId, "InvalidMessage")
         ELSE IF Parse(field, Head(rest)) = NoValue
         THEN Refuse(RejectedId, ReasonFor(field))
         ELSE /\ fields' = Append(fields, Parse(field, Head(rest)).value)
              /\ cursor' = Tail(rest)
              /\ UNCHANGED <<line, kind, result>>

(* The end: nothing but blanks may follow.                                 *)
Finish ==
  /\ result = Pending /\ kind # "none"
  /\ Len(fields) = Len(FieldsOf(kind))
  /\ IF Skipped(cursor) # <<>>
     THEN Refuse(RejectedId, "InvalidMessage")
     ELSE /\ result' = [type |-> kind, fields |-> fields]
          /\ UNCHANGED <<line, cursor, kind, fields>>

Next == RefuseTooLong \/ ReadType \/ ReadField \/ Finish

Spec == Init /\ [][Next]_vars

-----------------------------------------------------------------------------
(* The lines of the protocol, said without a cursor. *)

(* The words among the first tokens of a text, by their number.            *)
WordsAmong(text) ==
  LET among[i \in 0 .. Len(text)] ==
        IF i = 0 THEN <<>>
        ELSE IF text[i] = Blank THEN among[i - 1]
        ELSE Append(among[i - 1], text[i])
  IN  among

Words == WordsAmong(line.text)[Len(line.text)]

Positive == {Number(n) : n \in 1 .. NumberLimit - 1}
Texts(ts) == {Text(t) : t \in ts}

(* What the n-th word of a new order may be, the second word of a cancel   *)
(* being that of a new order; any word is a symbol.                        *)
NewOrderWord(n, w) ==
  CASE n = 1 -> w = Text("N")
    [] n \in {2, 7, 8} -> w \in Positive
    [] n = 3 -> TRUE
    [] n = 4 -> w \in Texts({"B", "S"})
    [] n = 5 -> w \in Texts({"L", "M"})
    [] n = 6 -> w \in Texts({"GFD", "IOC", "FOK"})
    [] OTHER -> FALSE

StartsNewOrder(n) == Len(Words) >= n /\ \A i \in 1 .. n : NewOrderWord(i, Words[i])
StartsCancel == Len(Words) >= 2 /\ Words[1] = Text("C") /\ Words[2] \in Positive

NewOrderLine == StartsNewOrder(8) /\ Len(Words) = 8
CancelLine == StartsCancel /\ Len(Words) = 3

Decoded == result.type \in {"N", "C"}
Refused == result.type = "Rejected"

(* A line becomes a request exactly if it is one, however it is spaced and *)
(* with or without a carriage return; each field has the value of its own  *)
(* word (TextCodec.cpp:64-82, :124-244, :258-300).                         *)
DecodesTheProtocol ==
  /\ Decoded => Length <= MaxLength /\ (NewOrderLine \/ CancelLine)
  /\ Refused => Length > MaxLength \/ ~(NewOrderLine \/ CancelLine)
  /\ Decoded =>
       \A i \in DOMAIN result.fields :
         LET w == Words[i + 1]
         IN  result.fields[i] = IF i = 2 THEN w
                                ELSE IF w.kind = "number" THEN w.value
                                ELSE w.text

(* The reason is that of the first fault of the line: a bad price or       *)
(* quantity is named only in a new order that is right up to there, and    *)
(* whatever may be wrong behind it (TextCodec.cpp:178-204).                *)
FirstFaultNamed ==
  Refused /\ Length <= MaxLength =>
    /\ result.reason = "InvalidPrice" <=>
         StartsNewOrder(6) /\ Len(Words) >= 7 /\ ~StartsNewOrder(7)
    /\ result.reason = "InvalidQuantity" <=>
         StartsNewOrder(7) /\ Len(Words) >= 8 /\ ~StartsNewOrder(8)

(* A refusal names a client order id exactly for a cancel that names it    *)
(* itself; so the reply to a new order that cannot be read is never taken  *)
(* for the reply to another one (TextCodec.cpp:127-204, :234-236).         *)
RefusalsTraceable ==
  Refused =>
    result.client_order_id =
      IF StartsCancel /\ Length <= MaxLength THEN Words[2].value ELSE NoId

(* How far the cursor is, and what it has passed.                          *)
Position == Len(line.text) - Len(cursor)
WordsRead == WordsAmong(line.text)[Position]

(* The words read are the type and the fields, each right in its place.    *)
ReadingInOrder ==
  /\ line \in Line
  /\ Position \in 0 .. Len(line.text)
  /\ cursor = SubSeq(line.text, Position + 1, Len(line.text))
  /\ kind = "none" => fields = <<>> /\ WordsRead = <<>> /\ ~Decoded
  /\ kind # "none" =>
       /\ kind \in {"N", "C"} /\ Length <= MaxLength
       /\ Len(WordsRead) = Len(fields) + 1 /\ WordsRead[1] = Text(kind)
       /\ Len(fields) <= Len(FieldsOf(kind))
       /\ \A i \in DOMAIN fields :
            Parse(FieldsOf(kind)[i], WordsRead[i + 1]) = Value(fields[i])

(* The conjunction that is inductive; module TextCodec_proofs proves it.   *)
CodecInv ==
  /\ ReadingInOrder
  /\ DecodesTheProtocol /\ FirstFaultNamed /\ RefusalsTraceable

=============================================================================

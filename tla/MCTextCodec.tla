---------------------------- MODULE MCTextCodec ----------------------------
(* The lines TLC has the codec read: the words of a new order and of a     *)
(* cancel, each in its place right or wrong in every way that matters,     *)
(* ending early or going on too long, closely or widely spaced.            *)
EXTENDS TextCodec

Wrong == Text("x")
Numbers == {Number(0), Number(1), Number(7), Number(8), NumberAndMore(1)}

NewOrders ==
  {<<Text("N"), id, Text("AAPL"), side, type, tif, price, quantity>> :
     id \in Numbers, side \in Texts({"B", "S", "x"}),
     type \in Texts({"L", "M", "x"}), tif \in Texts({"GFD", "IOC", "FOK", "x"}),
     price \in Numbers, quantity \in Numbers}

Cancels ==
  {<<type, id, symbol>> :
     type \in {Text("C"), Wrong}, id \in Numbers, symbol \in {Text("AAPL"), Number(2)}}

Sentences ==
  NewOrders \cup Cancels
    \cup {Append(w, Wrong) : w \in Cancels \cup {n \in NewOrders : n[2] = Number(1)}}
    \cup {SubSeq(w, 1, Min({n, Len(w)})) : n \in 0 .. 7, w \in
            Cancels \cup {m \in NewOrders : m[2] = Number(1) /\ m[8] = Number(1)}}

Close(words) ==
  [i \in 1 .. 2 * Len(words) - 1 |-> IF i % 2 = 1 THEN words[(i + 1) \div 2] ELSE Blank]
Wide(words) ==
  [i \in 1 .. 2 * Len(words) + 1 |-> IF i % 2 = 0 THEN words[i \div 2] ELSE Blank]

MCLines ==
  {[text |-> Close(w), cr |-> cr] : w \in Sentences, cr \in BOOLEAN}
    \cup {[text |-> Wide(w), cr |-> cr] :
            w \in {s \in Sentences : s = <<>> \/ s[Len(s)] # Number(7)}, cr \in BOOLEAN}
=============================================================================

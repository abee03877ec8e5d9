------------------------------ MODULE MCLibrary ------------------------------
(* Twelve cells of three values; values of two cells, chunks of four.       *)
EXTENDS Library

Image(cells) == [a \in 0..11 |-> cells[a + 1]]
Three == {0, 1, 2}
Target == {Image(<<0, 1, 2, 1, 0, 1, 2, 1, 0, 1, 2, 0>>),
           Image(<<2, 1, 1, 0, -1, 0, 1, 1, 2, 2, 1, 2>>)}

On(kind, args) == [kind |-> kind, args |-> args]
Asked ==
    {On("read", [base |-> a, size |-> n]) : a \in {2, 11}, n \in {0, 2, 7}}
      \cup {On("read_string", [base |-> 2, size |-> n, needsNul |-> b]) :
              n \in {0, 3}, b \in BOOLEAN}
      \cup {On("write_string", [base |-> 5, size |-> n, text |-> t]) :
              n \in {2, 3}, t \in {<<>>, <<1, 2>>}}
      \cup {On("verify", [base |-> a, value |-> <<2, 1>>, attempts |-> n]) :
              a \in {3, 5}, n \in {0, 2}}
      \cup {On("resolve", [base |-> 1, offsets |-> o]) : o \in {<<>>, <<1>>, <<0, 1, 11>>}}
      \cup {On("read_offsets", [base |-> 3, offsets |-> <<5, 1, 10>>, size |-> 1])}
      \cup {On("write_offsets", [base |-> 3, offsets |-> o, value |-> <<2, 1>>]) :
              o \in {<<3, 0, 5>>, <<8, 3>>}}

First(start, range, type, align, max) ==
    [start |-> start, range |-> range, type |-> type, target |-> 3, upper |-> 6,
     align |-> align, max |-> max, tolerance |-> 0]
Scanned == {First(3, 8, "range", 1, 9), First(2, 7, "exact", 2, 9),
            First(3, 8, "unknown_initial", 1, 2), First(0, 4, "exact", 1, 9),
            First(4, 8, "exact", 1, 9), First(2, 7, "exact", 3, 9)}

Refined ==
    {[comparison |-> c, target |-> 3, upper |-> IF c = "between" THEN 6 ELSE 3,
      tolerance |-> 0, max |-> 9] :
        c \in {"equal", "changed", "unchanged", "increased", "decreased",
               "greater_than", "less_than", "between"}}
      \cup {[comparison |-> "changed", target |-> 0, upper |-> 0, tolerance |-> 1, max |-> n] : n \in {0, 2}}

Signed(start, length, text, max) ==
    [start |-> start, length |-> length, signature |-> text, max |-> max]
Patterns == {Signed(0, 8, <<"0","1"," ","?","?">>, 5), Signed(1, 8, <<"?"," ","0","1">>, 2),
             Signed(0, 9, <<"0","1">>, 5), Signed(0, 4, <<"0","1"," ","?"," ","?">>, 5),
             Signed(0, 4, <<"0","x">>, 5), Signed(3, 1, <<"?","?"," ","?","?">>, 5)}
=============================================================================

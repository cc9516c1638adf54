----------------------------- MODULE MCCatalog -----------------------------
EXTENDS Catalog

\* f4 is a copy of f1; a and b are a burst, which c has no time stamp to join.
MCFiles == {"f1", "f2", "f3", "f4"}
MCHash == [f1 |-> "a", f2 |-> "b", f3 |-> "c", f4 |-> "a"]
MCUnreadable == {}
MCBadThumb == {"c"}
MCCamera == [a |-> "X", b |-> "X", c |-> "X"]
MCStamp == [a |-> 0, b |-> 2, c |-> -1]
MCMusiq == [a |-> 3, b |-> 1, c |-> 5]
MCManiqa == [a |-> 2, b |-> 1, c |-> 4]
MCAesthetic == [a |-> 4, b |-> 4, c |-> 2]
MCFaceCount == [a |-> 2, b |-> 1, c |-> 0]
=============================================================================

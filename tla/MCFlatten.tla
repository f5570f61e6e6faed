----------------------------- MODULE MCFlatten ------------------------------
(***************************************************************************)
(* Every archive of at most three entries, over the names a and b, one     *)
(* level deep, and every kind of whiteout, link and unsafe path.           *)
(***************************************************************************)
EXTENDS Flatten

CONSTANT Bad    \* whether an archive may hold a header that cannot be read

Plain(s) == [n |-> s, wh |-> FALSE]
Wh(s) == [n |-> s, wh |-> TRUE]
A == Plain("a")
B == Plain("b")

Item(kind, parts) == [kind |-> kind, x |-> FALSE, absolute |-> FALSE, parts |-> parts]
Items ==
    {Item("dir", <<A>>), Item("file", <<A>>), Item("file", <<A, B>>), Item("dir", <<A, B>>),
     Item("file", <<B>>), Item("link", <<Plain("l")>>),
     Item("file", <<Wh("a")>>), Item("file", <<A, Wh("b")>>), Item("file", <<A, Wh("opq")>>),
     Item("file", <<A, Wh("")>>), Item("file", <<A, Wh(".")>>), Item("file", <<A, Wh("..")>>),
     Item("file", <<Wh("..")>>), Item("file", <<Wh("opq")>>), Item("file", <<Wh("l")>>),
     Item("file", <<Plain("."), A, Plain("."), B>>), Item("dir", <<Plain(".")>>),
     Item("file", <<A, Plain(".."), B>>), [Item("file", <<A>>) EXCEPT !.absolute = TRUE],
     [Item("file", <<B>>) EXCEPT !.x = TRUE]}
    \cup (IF Bad THEN {Item("bad", <<>>)} ELSE {})

AllImages == {[readable |-> TRUE, entries |-> s] : s \in BoundedSeq(Items, 3)}
             \cup {[readable |-> FALSE, entries |-> <<>>]}

File == [kind |-> "file", by |-> 0, x |-> FALSE, meta |-> "raw"]
Root == {<<>>}
AllDests ==
    {[p \in {} |-> Directory], [p \in Root |-> Directory],
     [p \in Root \cup {<<A>>, <<A, B>>} |-> IF p = <<A, B>> THEN File ELSE Directory],
     [p \in Root \cup {<<B>>} |-> IF p = <<B>> THEN File ELSE Directory]}
=============================================================================

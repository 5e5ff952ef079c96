-------------------------------- MODULE Rings --------------------------------
(* The kernel's circular lists, as sequences that begin at the header.       *)
EXTENDS Naturals, Sequences

Members(s)  == {s[i] : i \in DOMAIN s}
Distinct(s) == \A i, j \in DOMAIN s : s[i] = s[j] => i = j

\* _List_Ring_Add_Ahead: the new node becomes the header.
AddAhead(s, x) == <<x>> \o s
\* _list_ring_next: the header moves on, the old header is now last.
Rotated(s) == Tail(s) \o <<Head(s)>>
\* _List_Ring_Del
Without(s, x) == LET i == CHOOSE j \in DOMAIN s : s[j] = x
                 IN  SubSeq(s, 1, i - 1) \o SubSeq(s, i + 1, Len(s))
=============================================================================

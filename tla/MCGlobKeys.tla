------------------------------ MODULE MCGlobKeys ------------------------------
(* Patterns and keys for TLC, over the characters a, b, c and ].           *)
EXTENDS GlobKeys

la == 97
lb == 98
lc == 99

MCKeys == (BoundedSeq({la, lb}, 3) \ {<<>>})
            \cup {<<lc>>, <<la, lc>>, <<Close>>, <<lb, Close>>}

MCItems ==
  {Single, Many, Literal(One(la)), Literal(One(lb)), Literal(Escaped(Close)),
   Literal(Escaped(la)), Class(FALSE, <<One(la), One(lb)>>),
   Class(TRUE, <<One(la)>>), Class(FALSE, <<FromTo(la, lb)>>),
   Class(TRUE, <<FromTo(lc, lb), Escaped(Close)>>),
   Class(FALSE, <<Escaped(Close), FromTo(lb, la)>>)}
=============================================================================

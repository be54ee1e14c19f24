-------------------------------- MODULE Lists --------------------------------
(* The list comprehension with a condition, [x for x in s if ...], with which *)
(* the code filters its trial plan and the rows of a page.                    *)
EXTENDS Integers, Sequences

\* The elements of s at the positions of good, in their order.
Kept(s, good) ==
    LET upTo[n \in 0 .. Len(s)] ==
            IF n = 0 THEN <<>>
            ELSE IF n \in good THEN Append(upTo[n - 1], s[n]) ELSE upTo[n - 1]
    IN  upTo[Len(s)]
===============================================================================

------------------------------ MODULE Filtering -------------------------------
(***************************************************************************)
(* What a list comprehension with a condition keeps of a list: the new     *)
(* listings of a page, the messages of a batch that go on, the tasks that  *)
(* have not been done.                                                     *)
(***************************************************************************)
EXTENDS Integers, Sequences

\* s less the elements that are in T, in their order.
Without(s, T) ==
    LET kept[n \in 0..Len(s)] ==
            IF n = 0 THEN <<>>
            ELSE IF s[n] \in T THEN kept[n - 1] ELSE Append(kept[n - 1], s[n])
    IN kept[Len(s)]
===============================================================================

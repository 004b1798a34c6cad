---------------------------- MODULE MCSafeOutput ----------------------------
(* Constants for model checking SafeOutput. *)
EXTENDS SafeOutput

Rec(raw, payload, size, is_dir) ==
  [raw |-> raw, payload |-> payload, size |-> size, is_dir |-> is_dir]

\* Two archives that carry "a/b", one of them as "a//./b"; a file "a" that
\* collides with the directory; a directory entry; two names that are refused.
MCMember == {Rec(<<"a", "b">>, "p", 1, FALSE),
             Rec(<<"a", "", ".", "b">>, "q", 1, FALSE),
             Rec(<<"a">>, "r", 0, FALSE),
             Rec(<<"a">>, "", 0, TRUE),
             Rec(<<"..", "a">>, "s", 1, FALSE),
             Rec(<<"", "a">>, "s", 1, FALSE)}
MCName == {"a", "b"}

\* One inode will do for the next: nothing depends on which it is.
MCFresh(S) == IF S = {} THEN {} ELSE {CHOOSE i \in S : TRUE}
=============================================================================

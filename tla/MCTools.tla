------------------------------- MODULE MCTools -------------------------------
(* A model-checking instance of Tools.  Paths have up to two segments, or     *)
(* three with a "..", so that they lead out of the workspace and back, below  *)
(* a file, and to one file by several ways.  One text is within the limit,    *)
(* and one is cut within a character.                                         *)
EXTENDS Tools

MCNames == {"a", "user"}

MCRelative ==
  UNION {[1 .. n -> Names \cup {"..", "."}] : n \in 1 .. 2}
    \cup {s \in [1 .. 3 -> Names \cup {".."}] : \E i \in 1 .. 3 : s[i] = ".."}

MCTexts   == {<<1, 2>>, <<2, 4, 1>>}
MCTouched == {<<"home", "user", "a">>, <<"home", "a">>}

==============================================================================

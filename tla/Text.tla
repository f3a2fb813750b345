-------------------------------- MODULE Text --------------------------------
(* Text as the registration code sees it: a value as it was written is a   *)
(* word with or without blanks around it, and strings.TrimSpace drops      *)
(* those. Words are numbers, in the order slices.Sort gives them; 0 is the *)
(* empty string, and SpacedWords have blanks inside.                       *)
EXTENDS Naturals

CONSTANT SpacedWords

ASSUME TextAssumption == SpacedWords \subseteq Nat \ {0}

Texts == [word : Nat, padded : BOOLEAN]

Empty == 0

Plain(w) == [word |-> w, padded |-> FALSE]
Padded(w) == [word |-> w, padded |-> TRUE]

Trim(t) == t.word

Blank(t) == t.word = Empty

HasSpace(w) == w \in SpacedWords
=============================================================================

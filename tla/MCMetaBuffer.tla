---------------------------- MODULE MCMetaBuffer ----------------------------
(* Small instances of MetaBuffer for TLC.                                  *)
EXTENDS MetaBuffer, TLC

CONSTANTS b1, b2, b3, b4, line, mark

(* One primitive of one word and one of two.  Need leaves no slack: with   *)
(* buffers this small the slack of the hout routines would waste them.     *)
MCBuf3  == {b1, b2, b3}
MCBuf4  == {b1, b2, b3, b4}
MCPrim  == {line, mark}
MCOne   == {line}
MCWords == [p \in {line, mark} |-> IF p = line THEN 1 ELSE 2]
MCWordsOne == [p \in {line} |-> 1]
MCPlain == << >>
MCColored == <<<<line, 1>>>>
Symm3   == Permutations(MCBuf3)
Symm4   == Permutations(MCBuf4)
=============================================================================

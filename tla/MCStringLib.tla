---------------------------- MODULE MCStringLib ------------------------------
(***************************************************************************)
(* A memory of five bytes: every content over '\0' and two characters, one *)
(* of them above 127, for the functions that copy and compare; texts of up *)
(* to four characters out of a blank, the signs and digits for strtol.     *)
(***************************************************************************)
EXTENDS StringLib

MCChars    == {0, 97, 200}
MCNumeric  == {0, 32, 43, 45, 48, 56, 70, 88, 97, 120}
MCByte     == MCChars \cup MCNumeric
MCMemories == [Addr -> MCChars]
MCTexts    == {m \in [Addr -> MCNumeric] : m[MemSize - 1] = NUL}
MCBases    == {0, 8, 10, 16}
=============================================================================

---------------------------- MODULE MCReassembly ----------------------------
(***************************************************************************)
(* Small instances of Reassembly for TLC.                                  *)
(***************************************************************************)
EXTENDS ReassemblyProps

\* The header word of a fragment, with or without the end mark in bit 8.
Word(sseq, pseq, end) == sseq * 1024 + pseq * 2 + end * 256

\* Four consecutive fragments of one SSEQ, the last with the end mark; of another the first
\* and the one with the highest PSEQ there is.
MCWordsOrder ==
  {Word(1, p, 0) : p \in 0..2} \cup {Word(1, 3, 1), Word(2, 0, 0), Word(2, 127, 0)}

\* An SDU of two fragments.
MCWordsEnd == {Word(1, 0, 0), Word(1, 1, 1)}

\* The first fragments of two SSEQs, and one with the highest PSEQ there is.
MCWordsSessions ==
  {Word(1, 0, 0), Word(2, 0, 0), Word(2, 127, 0)}
=============================================================================

----------------------------- MODULE ZstdFormat -----------------------------
(***************************************************************************)
(* What a zstd decoder promises: a frame grows by plain bytes, and by the  *)
(* literals of a block between which its sequences repeat what is a        *)
(* certain offset back in the frame; offsets may be taken from the three   *)
(* recent ones; and a refusal leaves no output.  How literals and          *)
(* sequences are coded is left open.                                       *)
(***************************************************************************)
EXTENDS Integers, Sequences, SequencesExt

CONSTANTS Bytes  \* what the output is made of

VARIABLES
  finished,   \* the frames that were decoded
  output,     \* what was decoded of the next one
  literals, sequences,  \* of the block, not yet used
  recent,     \* the three recent offsets, the latest first
  verdict     \* "open", "done" or "refused"

block == <<literals, sequences>>
vars == <<finished, output, literals, sequences, recent, verdict>>

-----------------------------------------------------------------------------
(* n bytes that repeat the last offset ones of d.                          *)
Repeat(d, offset, n) == [i \in 1 .. n |-> d[Len(d) - offset + 1 + ((i - 1) % offset)]]

(* The offset of a code: one of the recent ones up to 3.  Without literals *)
(* the latest would continue the match before, and the names move up.      *)
Offset(r, ll, code) ==
  IF code > 3 THEN code - 3 ELSE IF ll > 0 THEN r[code] ELSE (Tail(r) \o <<r[1] - 1>>)[code]

(* An offset that is used moves to the front.                              *)
Place(ll, code) == IF ll > 0 THEN code ELSE code + 1
Used(r, ll, code) ==
  <<Offset(r, ll, code)>>
    \o (IF Place(ll, code) <= 3 THEN RemoveAt(r, Place(ll, code)) ELSE Front(r))

(* A sequence with ll literals may follow d.                               *)
Allowed(d, r, ll, code) == Offset(r, ll, code) \in 1 .. Len(d) + ll

-----------------------------------------------------------------------------
Init ==
  /\ finished = <<>> /\ output = <<>> /\ literals = <<>> /\ sequences = <<>>
  /\ recent = <<1, 4, 8>> /\ verdict = "open"

BetweenBlocks == verdict = "open" /\ literals = <<>> /\ sequences = <<>>

PlainBytes ==
  /\ BetweenBlocks
  /\ output' \in Seq(Bytes) /\ IsPrefix(output, output')
  /\ UNCHANGED <<finished, block, recent, verdict>>

ReadLiterals ==
  /\ BetweenBlocks
  /\ literals' \in Seq(Bytes)
  /\ UNCHANGED <<finished, output, sequences, recent, verdict>>

ReadSequences ==
  /\ verdict = "open" /\ sequences = <<>>
  /\ sequences' \in Seq([ll : Nat, ol : Nat \ {0}, ml : Nat \ {0}])
  /\ UNCHANGED <<finished, output, literals, recent, verdict>>

Sequence ==
  /\ verdict = "open" /\ sequences # <<>>
  /\ LET s == Head(sequences)
         d == output \o SubSeq(literals, 1, s.ll)
     IN  /\ s.ll <= Len(literals) /\ Allowed(output, recent, s.ll, s.ol)
         /\ output' = d \o Repeat(d, Offset(recent, s.ll, s.ol), s.ml)
         /\ literals' = SubSeq(literals, s.ll + 1, Len(literals))
         /\ recent' = Used(recent, s.ll, s.ol)
  /\ sequences' = Tail(sequences)
  /\ UNCHANGED <<finished, verdict>>

LastLiterals ==
  /\ verdict = "open" /\ sequences = <<>>
  /\ output' = output \o literals /\ literals' = <<>>
  /\ UNCHANGED <<finished, sequences, recent, verdict>>

FinishFrame ==
  /\ BetweenBlocks
  /\ finished' = finished \o output /\ output' = <<>> /\ recent' = <<1, 4, 8>>
  /\ UNCHANGED <<block, verdict>>

Accept ==
  /\ BetweenBlocks /\ output = <<>> /\ verdict' = "done"
  /\ UNCHANGED <<finished, output, block, recent>>

Refuse ==
  /\ verdict = "open" /\ verdict' = "refused"
  /\ finished' = <<>> /\ output' = <<>> /\ literals' = <<>> /\ sequences' = <<>>
  /\ recent' = <<1, 4, 8>>

Next ==
  \/ PlainBytes \/ ReadLiterals \/ ReadSequences \/ Sequence \/ LastLiterals
  \/ FinishFrame \/ Accept \/ Refuse

Spec == Init /\ [][Next]_vars

=============================================================================

--------------------------- MODULE TokenSequence ----------------------------
(* What a token buffer promises its users, the preprocessor and the parser:  *)
(* a sequence that grows and shrinks at its end, and that can be appended to *)
(* another one, which empties it.                                            *)
EXTENDS Naturals, Sequences

CONSTANTS
  Buffer,      \* the buffers
  Token        \* the tokens

VARIABLES
  seq,         \* the tokens of each buffer
  spoiled      \* buffers that may only be released

SequenceInit == seq = [b \in Buffer |-> <<>>] /\ spoiled = {}

Append1(b, t) ==
  /\ b \notin spoiled
  /\ seq' = [seq EXCEPT ![b] = Append(@, t)]
  /\ UNCHANGED spoiled

DropLast(b) ==
  /\ b \notin spoiled
  /\ seq[b] # <<>>
  /\ seq' = [seq EXCEPT ![b] = SubSeq(@, 1, Len(@) - 1)]
  /\ UNCHANGED spoiled

Concat(d, s) ==
  /\ {d, s} \cap spoiled = {}
  /\ seq' = [seq EXCEPT ![d] = @ \o seq[s], ![s] = <<>>]
  /\ UNCHANGED spoiled

\* A failure moves some tokens and leaves the source of no use.
ConcatFails(d, s) ==
  /\ {d, s} \cap spoiled = {}
  /\ \E n \in 0 .. Len(seq[s]) :
       seq' = [seq EXCEPT ![d] = @ \o SubSeq(seq[s], 1, n), ![s] = <<>>]
  /\ spoiled' = spoiled \cup {s}

\* Copying may stop in the middle.
CopyUpTo(d, s, n) ==
  /\ {d, s} \cap spoiled = {}
  /\ seq' = [seq EXCEPT ![d] = @ \o SubSeq(seq[s], 1, n)]
  /\ UNCHANGED spoiled

Release(b) ==
  /\ seq' = [seq EXCEPT ![b] = <<>>]
  /\ spoiled' = spoiled \ {b}

SequenceNext ==
  \/ \E b \in Buffer : DropLast(b) \/ Release(b) \/ \E t \in Token : Append1(b, t)
  \/ \E d, s \in Buffer : d # s /\ \/ Concat(d, s) \/ ConcatFails(d, s)
                                   \/ \E n \in 0 .. Len(seq[s]) : CopyUpTo(d, s, n)

SequenceSpec == SequenceInit /\ [][SequenceNext]_<<seq, spoiled>>
=============================================================================

----------------------------- MODULE TokenBuffer ----------------------------
(* The token buffers of source/lexer/token_buffer.c: chunks of tokens in a   *)
(* hash tree that is keyed by the index of a chunk's first token.  Tokens    *)
(* are appended and popped at the end; kefir_token_buffer_insert moves the   *)
(* chunks of one buffer to another, merging small ones, and                  *)
(* kefir_token_buffer_copy appends the tokens of one to another.             *)
(*                                                                           *)
(* The tree is the ordered map that HashTree is shown to be; the allocation  *)
(* of its first node, which it does not test, is taken to succeed.           *)
EXTENDS Integers, Sequences, FiniteSetsExt, PowersOfTwo

CONSTANTS
  Buffer,              \* the buffers
  Token,               \* the tokens
  INIT_CHUNK_CAPACITY, \* 32
  MAX_CHUNK_LENGTH,    \* 4096
  Arriving,            \* for each buffer, the tokens that may be appended at each index
  MaxLength,           \* bound on the length of a buffer
  MayFail              \* whether allocations may fail

ASSUME CapacityAssumption ==
  /\ INIT_CHUNK_CAPACITY \in Nat /\ PowerOf2(INIT_CHUNK_CAPACITY)
  /\ MAX_CHUNK_LENGTH \in Nat /\ PowerOf2(MAX_CHUNK_LENGTH)
  /\ INIT_CHUNK_CAPACITY <= MAX_CHUNK_LENGTH
ASSUME ArrivingAssumption == \A b \in Buffer : Arriving[b] \in Seq(SUBSET Token)

VARIABLES
  chunks,    \* for each buffer, its chunks by start index
  length,    \* buffer->length
  bufferOp,  \* the insertion or the copy in progress
  spoiled    \* buffers whose chunks were moved away by an insertion that failed

bufferVars == <<chunks, length, bufferOp, spoiled>>

NoChunk == [capacity |-> 0, content |-> <<>>]
NoChunks == [k \in {} |-> NoChunk]
NoOp == [what |-> "none"]

LastKey(ch) == Max(DOMAIN ch)
Put(ch, k, c) == [x \in DOMAIN ch \cup {k} |-> IF x = k THEN c ELSE ch[x]]

\* kefir_token_buffer_at finds the chunk by its lower bound.
TokenAt(ch, i) ==
  LET k == Max({x \in DOMAIN ch : x <= i}) IN ch[k].content[i - k + 1]

-----------------------------------------------------------------------------
(* One token *)

NeedsChunk(ch) == DOMAIN ch # {} => Len(ch[LastKey(ch)].content) >= MAX_CHUNK_LENGTH

Grown(c) == IF Len(c.content) = c.capacity THEN [c EXCEPT !.capacity = @ * 2] ELSE c

\* Mutant: a full chunk is not made larger.
EnsureCapacityLate(ch, len) ==
  IF NeedsChunk(ch) THEN Put(ch, len, [capacity |-> INIT_CHUNK_CAPACITY, content |-> <<>>]) ELSE ch

EnsureCapacity(ch, len) ==
  IF NeedsChunk(ch) THEN Put(ch, len, [capacity |-> INIT_CHUNK_CAPACITY, content |-> <<>>])
  ELSE Put(ch, LastKey(ch), Grown(ch[LastKey(ch)]))

Emplaced(ch, len, t) ==
  LET room == EnsureCapacity(ch, len)
  IN [room EXCEPT ![LastKey(room)].content = Append(@, t)]

\* The chunk to which a token goes must be made or made larger.
Allocates(ch) ==
  ~NeedsChunk(ch) => Len(ch[LastKey(ch)].content) = ch[LastKey(ch)].capacity

Popped(ch) ==
  LET k    == LastKey(ch)
      left == Len(ch[k].content) - 1
  IN IF left = 0 THEN [x \in DOMAIN ch \ {k} |-> ch[x]]
     ELSE [ch EXCEPT ![k].content = SubSeq(@, 1, left)]

BufferInit ==
  /\ chunks = [b \in Buffer |-> NoChunks]
  /\ length = [b \in Buffer |-> 0]
  /\ bufferOp = NoOp
  /\ spoiled = {}

Usable(b) == bufferOp = NoOp /\ b \notin spoiled

Emplace(b) ==
  /\ Usable(b)
  /\ length[b] < Len(Arriving[b]) /\ length[b] < MaxLength
  /\ \E t \in Arriving[b][length[b] + 1] : chunks' = [chunks EXCEPT ![b] = Emplaced(@, length[b], t)]
  /\ length' = [length EXCEPT ![b] = @ + 1]
  /\ UNCHANGED <<bufferOp, spoiled>>

Pop(b) ==
  /\ Usable(b)
  /\ length[b] > 0
  /\ chunks' = [chunks EXCEPT ![b] = Popped(@)]
  /\ length' = [length EXCEPT ![b] = @ - 1]
  /\ UNCHANGED <<bufferOp, spoiled>>

\* kefir_token_buffer_reset and kefir_token_buffer_free.  A buffer may still point
\* to a chunk that realloc has freed, capacity 0: it is then freed twice, which is
\* undefined.  Either the program ends there, and nothing happens any more, or it
\* goes on with an empty buffer.
Reset(b) ==
  /\ bufferOp = NoOp
  /\ chunks' = [chunks EXCEPT ![b] = NoChunks]
  /\ length' = [length EXCEPT ![b] = 0]
  /\ spoiled' = spoiled \ {b}
  /\ UNCHANGED bufferOp

-----------------------------------------------------------------------------
(* kefir_token_buffer_copy *)

BeginCopy(d, s) ==
  /\ Usable(d) /\ Usable(s)
  /\ length[d] + length[s] <= MaxLength
  /\ bufferOp' = [what |-> "copy", dst |-> d, src |-> s, before |-> length[d]]
  /\ UNCHANGED <<chunks, length, spoiled>>

\* Tokens that have reached the destination since the call.
Arrived == length[bufferOp.dst] - bufferOp.before

CopyToken ==
  /\ bufferOp.what = "copy"
  /\ Arrived < length[bufferOp.src]
  /\ chunks' = [chunks EXCEPT ![bufferOp.dst] =
                  Emplaced(@, length[bufferOp.dst], TokenAt(chunks[bufferOp.src], Arrived))]
  /\ length' = [length EXCEPT ![bufferOp.dst] = @ + 1]
  /\ UNCHANGED <<bufferOp, spoiled>>

\* All tokens are copied, or memory runs out.
EndCopy ==
  /\ bufferOp.what = "copy"
  /\ Arrived = length[bufferOp.src] \/ (MayFail /\ Allocates(chunks[bufferOp.dst]))
  /\ bufferOp' = NoOp
  /\ UNCHANGED <<chunks, length, spoiled>>

-----------------------------------------------------------------------------
(* kefir_token_buffer_insert *)

\* The smallest power of two that is not below n.
RoundCapacityUp(n) == IF n <= 1 THEN n ELSE Min({p \in n .. 2 * n - 1 : PowerOf2(p)})

BeginInsert(d, s) ==
  /\ Usable(d) /\ Usable(s)
  /\ length[d] + length[s] <= MaxLength
  /\ bufferOp' = [what |-> "insert", dst |-> d, src |-> s, next |-> DOMAIN chunks[s], before |-> length[d]]
  /\ UNCHANGED <<chunks, length, spoiled>>

Fits(last, c) == Len(last.content) + Len(c.content) < MAX_CHUNK_LENGTH

\* Mutant: the tokens of the chunk are put in front.
MergedInFront(last, c) ==
  [capacity |-> RoundCapacityUp(Len(last.content) + Len(c.content)),
   content  |-> c.content \o last.content]

Merged(last, c) ==
  [capacity |-> IF Len(last.content) + Len(c.content) > last.capacity
                THEN RoundCapacityUp(Len(last.content) + Len(c.content)) ELSE last.capacity,
   content  |-> last.content \o c.content]

Shrunk(c) == [c EXCEPT !.capacity = RoundCapacityUp(Len(c.content))]

Mergeable(d, c) == DOMAIN d # {} /\ Fits(d[LastKey(d)], c)

\* The chunks d of length len once the chunk c is moved there.
Moved(d, len, c) ==
  IF Mergeable(d, c) THEN Put(d, LastKey(d), Merged(d[LastKey(d)], c))
  ELSE Put(d, len, Shrunk(c))

NextChunk(keys) == Min(keys)

\* One turn of the loop, without a failure.
MoveChunk ==
  /\ bufferOp.what = "insert" /\ bufferOp.next # {}
  /\ LET k == NextChunk(bufferOp.next)
         c == chunks[bufferOp.src][k]
     IN /\ chunks' = [chunks EXCEPT ![bufferOp.src][k] = NoChunk,
                                    ![bufferOp.dst] = Moved(@, length[bufferOp.dst], c)]
        /\ length' = [length EXCEPT ![bufferOp.dst] = @ + Len(c.content)]
        /\ bufferOp' = [bufferOp EXCEPT !.next = @ \ {k}]
  /\ UNCHANGED spoiled

\* A chunk cannot be made larger, cannot be made smaller, or cannot get a node
\* in the tree; in the last case it may have been freed by realloc already.
MoveFails ==
  /\ MayFail
  /\ bufferOp.what = "insert" /\ bufferOp.next # {}
  /\ LET k == NextChunk(bufferOp.next)
         c == chunks[bufferOp.src][k]
         d == chunks[bufferOp.dst]
     IN \/ /\ Mergeable(d, c) => Len(d[LastKey(d)].content) + Len(c.content) > d[LastKey(d)].capacity
           /\ UNCHANGED chunks
        \/ /\ ~Mergeable(d, c) /\ Len(c.content) < c.capacity
           /\ chunks' = [chunks EXCEPT ![bufferOp.src][k].capacity = 0]
  /\ spoiled' = spoiled \cup {bufferOp.src}
  /\ bufferOp' = NoOp
  /\ UNCHANGED length

EndInsert ==
  /\ bufferOp.what = "insert" /\ bufferOp.next = {}
  /\ chunks' = [chunks EXCEPT ![bufferOp.src] = NoChunks]
  /\ length' = [length EXCEPT ![bufferOp.src] = 0]
  /\ bufferOp' = NoOp
  /\ UNCHANGED spoiled

BufferNext ==
  \/ \E b \in Buffer : Emplace(b) \/ Pop(b) \/ Reset(b)
  \/ \E d, s \in Buffer : d # s /\ (BeginInsert(d, s) \/ BeginCopy(d, s))
  \/ CopyToken \/ EndCopy
  \/ MoveChunk \/ MoveFails \/ EndInsert

BufferSpec == BufferInit /\ [][BufferNext]_bufferVars
-----------------------------------------------------------------------------
(* Properties *)

\* Buffers whose chunks are all in place.
Whole == {b \in Buffer \ spoiled : ~(bufferOp.what = "insert" /\ bufferOp.src = b)}

\* Whatever was appended, popped, copied, merged or moved: no chunk of a buffer
\* is empty, and none is longer than its memory, which is a power of two that
\* does not exceed MAX_CHUNK_LENGTH, so that doubling it reaches the bound exactly.
ChunksFit ==
  \A b \in Whole : \A k \in DOMAIN chunks[b] :
    LET c == chunks[b][k]
    IN /\ 0 < Len(c.content) /\ Len(c.content) <= c.capacity
       /\ PowerOf2(c.capacity) /\ c.capacity <= MAX_CHUNK_LENGTH

\* What kefir_token_buffer_at answers for the first n indices.
Tokens(ch, n) == [i \in 1 .. n |-> TokenAt(ch, i - 1)]

\* The tokens of a buffer as its users see them: an insertion and a copy take
\* effect when they return.  Until then the tokens of a buffer that is inserted
\* are in part those that have reached the other one.
Visible(b) ==
  IF b \in spoiled THEN <<>>
  ELSE IF bufferOp # NoOp /\ b = bufferOp.dst THEN Tokens(chunks[b], bufferOp.before)
  ELSE IF bufferOp.what = "insert" /\ b = bufferOp.src
       THEN [i \in 1 .. length[b] |->
               IF i <= Arrived THEN TokenAt(chunks[bufferOp.dst], bufferOp.before + i - 1)
               ELSE TokenAt(chunks[b], i - 1)]
  ELSE Tokens(chunks[b], length[b])

Sequence == INSTANCE TokenSequence WITH seq <- [b \in Buffer |-> Visible(b)]

\* Token buffers implement sequences: no token is lost, doubled or moved by closing,
\* merging and splitting chunks, nor by an allocation that fails in the middle of an
\* insertion or of a copy.
TokensAreSequence == Sequence!SequenceSpec
=============================================================================

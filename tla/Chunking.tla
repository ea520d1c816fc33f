------------------------------ MODULE Chunking ------------------------------
(***************************************************************************)
(* From a parsed document to the batches of text an LLM is asked about:    *)
(* the chunkers of the ingest, and the batching of the graph extractor.    *)
(* A text is a sequence of characters.  Blank and Newline are what the     *)
(* code looks for; every other character is a number of its own, so that a *)
(* character can be followed through every cut.                            *)
(***************************************************************************)
EXTENDS Integers, Sequences, SequencesExt

CONSTANTS
  MaxChars,       \* settings.chunk_max_chars
  MaxBatchChars,  \* cfg.graph_extractor.max_batch_chars
  ChunksPerGroup  \* cfg.graph_extractor.chunks_per_group

\* From 3 characters on a cut is never at the start of a text.
ASSUME ChunkingAssumption ==
  /\ MaxChars \in Nat /\ MaxChars >= 3
  /\ MaxBatchChars \in Nat \ {0} /\ ChunksPerGroup \in Nat \ {0}

Blank   == 0
Newline == -1
Break   == <<Newline, Newline>>

IsBlank(c)  == c \in {Blank, Newline}
Chars(t)    == ToSet(t) \ {Blank, Newline}
Drop(t, n)  == SubSeq(t, n + 1, Len(t))
Take(t, n)  == SubSeq(t, 1, n)

Strip(t) ==
  LET ink == {i \in DOMAIN t : ~IsBlank(t[i])}
  IN  IF ink = {} THEN <<>> ELSE SubSeq(t, Min(ink), Max(ink))

\* Where a character is last, 0 when it is nowhere.
RFind(t, c) == Max({0} \cup {i \in DOMAIN t : t[i] = c})

Join(parts, joiner) ==
  FoldLeft(LAMBDA acc, p : IF acc = <<>> THEN p ELSE acc \o joiner \o p,
           <<>>, parts)

\* Where str.split finds a separator, which is made of newlines: from the
\* left, without overlaps.
Joints(t, sep) ==
  {i \in 1..(Len(t) - Len(sep) + 1) :
     /\ SubSeq(t, i, i + Len(sep) - 1) = sep
     /\ LET before == Max({0} \cup {j \in 1..(i - 1) : t[j] # Newline})
        IN  (i - 1 - before) % Len(sep) = 0}

-----------------------------------------------------------------------------
(* The chunkers.                                                           *)

\* Where a window is cut: behind its last line, else its last word, unless
\* that leaves less than a third.
Cut(window) ==
  LET third   == MaxChars \div 3
      line == RFind(window, Newline) - 1
      word == RFind(window, Blank) - 1
  IN  IF line >= third THEN line ELSE IF word >= third THEN word ELSE MaxChars

\* Where the first piece of a text ends.
PieceEnd(rest) ==
  IF Len(rest) <= MaxChars THEN Len(rest) ELSE Cut(Take(rest, MaxChars))

\* A text comes in stripped, so that lstrip leaves the rest stripped too.
SplitOversized(text) ==
  LET pieces[rest \in Seq(Int)] ==
        IF rest = <<>> THEN <<>>
        ELSE LET piece == Strip(Take(rest, PieceEnd(rest)))
             IN  (IF piece = <<>> THEN <<>> ELSE <<piece>>)
                   \o pieces[Strip(Drop(rest, PieceEnd(rest)))]
  IN  IF Len(text) <= MaxChars THEN <<text>> ELSE pieces[text]

Role == {"heading", "caption", "image", "table", "paragraph"}

\* A box goes by its role.  A caption waits for the image that comes next and
\* is given up for anything else but a heading; an image's caption is one
\* chunk, whatever its length.  own is the caption the image box has itself.
Boxed(acc, box) ==
  CASE box.role = "caption" -> [acc EXCEPT !.pending = box.text]
    [] box.role = "heading" -> acc
    [] box.role = "image" ->
         LET caption == IF box.text # <<>> THEN box.text ELSE acc.pending
         IN  [pending |-> <<>>,
              chunks  |-> IF caption = <<>> THEN acc.chunks
                          ELSE Append(acc.chunks, caption)]
    [] OTHER ->
         [pending |-> <<>>,
          chunks  |-> IF box.text = <<>> THEN acc.chunks
                      ELSE acc.chunks \o SplitOversized(box.text)]

ChunkFromPymupdfJson(boxes) ==
  FoldLeft(Boxed, [pending |-> <<>>, chunks |-> <<>>], boxes).chunks

\* A block goes by its type: a caption there is an image's text.
Blocked(chunks, block) ==
  IF block.role = "heading" \/ block.text = <<>> THEN chunks
  ELSE chunks \o SplitOversized(block.text)

ChunkFromBlocks(blocks) == FoldLeft(Blocked, <<>>, blocks)

-----------------------------------------------------------------------------
(* The graph extractor's batches.                                          *)

\* A newline between two visible characters goes, and so does a blank behind a
\* blank; the ends are stripped.  Control characters and TeX remains are no
\* part of a text here.
Dropped(t, i) ==
  \/ /\ t[i] = Newline /\ i > 1 /\ i < Len(t)
     /\ ~IsBlank(t[i - 1]) /\ ~IsBlank(t[i + 1])
  \/ t[i] = Blank /\ i > 1 /\ t[i - 1] = Blank

Sanitize(t) ==
  Strip(FoldLeftDomain(
    LAMBDA acc, i : IF Dropped(t, i) THEN acc ELSE Append(acc, t[i]), <<>>, t))

\* Lines without a text are left out, and a full group is closed.
Grouped(acc, line) ==
  LET current == Append(acc.current, line)
  IN  IF Strip(line) = <<>> THEN acc
      ELSE IF Len(current) >= ChunksPerGroup
      THEN [groups |-> Append(acc.groups, current), current |-> <<>>]
      ELSE [acc EXCEPT !.current = current]

SplitChunkLineGroups(lines) ==
  LET end == FoldLeft(Grouped, [groups |-> <<>>, current |-> <<>>], lines)
  IN  IF end.current = <<>> THEN end.groups
      ELSE Append(end.groups, end.current)

\* The budget counts the texts and not the breaks between them.
Batched(acc, text) ==
  IF text = <<>> THEN acc
  ELSE IF acc.parts # <<>> /\ acc.total + Len(text) > MaxBatchChars
  THEN [batches |-> Append(acc.batches, Join(acc.parts, Break)),
        parts |-> <<text>>, total |-> Len(text)]
  ELSE [acc EXCEPT !.parts = Append(@, text), !.total = @ + Len(text)]

SplitChunkBatches(lines) ==
  LET end == FoldLeft(LAMBDA acc, t : Batched(acc, Sanitize(t)),
                      [batches |-> <<>>, parts |-> <<>>, total |-> 0], lines)
  IN  IF end.parts = <<>> THEN end.batches
      ELSE Append(end.batches, Join(end.parts, Break))

Nothing == <<<<>>, <<>>>>

\* The right part starts one character late.
SplitPastTheJoint(t, sep, mid) ==
  LET past(i) == i - 1 + Len(sep)
      off(i)  == IF past(i) > mid THEN past(i) - mid ELSE mid - past(i)
      best    == CHOOSE i \in Joints(t, sep) :
                   \A j \in Joints(t, sep) :
                     off(i) < off(j) \/ (off(i) = off(j) /\ i <= j)
  IN IF Joints(t, sep) = {} THEN Nothing
     ELSE <<Strip(Take(t, best - 1)), Strip(Drop(t, past(best) + 1))>>

\* Cut in two at the joint that ends nearest to the middle, the first such.
SplitJoinedParts(t, sep, mid) ==
  LET past(i) == i - 1 + Len(sep)
      off(i)  == IF past(i) > mid THEN past(i) - mid ELSE mid - past(i)
      best    == CHOOSE i \in Joints(t, sep) :
                   \A j \in Joints(t, sep) :
                     off(i) < off(j) \/ (off(i) = off(j) /\ i <= j)
  IN IF Joints(t, sep) = {} THEN Nothing
     ELSE <<Strip(Take(t, best - 1)), Strip(Drop(t, past(best)))>>

Whole(halves) == halves[1] # <<>> /\ halves[2] # <<>>

SplitTextHalf(t) ==
  <<Strip(Take(t, Len(t) \div 2)), Strip(Drop(t, Len(t) \div 2))>>

\* At a break, else at a line, else in the middle: a text that gets there has
\* no break left to look for.
SplitBatchText(text) ==
  LET t       == Strip(text)
      byBreak == SplitJoinedParts(t, Break, Len(t) \div 2)
      byLine  == SplitJoinedParts(t, <<Newline>>, Len(t) \div 2)
  IN IF Whole(byBreak) THEN byBreak
     ELSE IF Whole(byLine) THEN byLine ELSE SplitTextHalf(t)
=============================================================================

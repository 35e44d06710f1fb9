---------------------------- MODULE Tokenization ----------------------------
(***************************************************************************)
(* Encoding of text, tokenizer/bpe.py: special tokens are cut out, the     *)
(* rest is split into chunks, and the bytes of a chunk are joined pair by  *)
(* pair, the merge learnt first going first; chunks are remembered.        *)
(*                                                                         *)
(* Abstractions: a token id is the bytes it spells, a special id its text; *)
(* the renaming of bytes to printable characters is one to one and left    *)
(* out.  Characters are letters, spaces or signs: digits and underscores,  *)
(* kinds of their own, split as signs do; contractions and other white     *)
(* space are left out.                                                     *)
(***************************************************************************)
EXTENDS Integers, SequencesExt

CONSTANTS
  Utf8,                 (* character |-> its bytes                          *)
  Spaces, Letters,      (* kinds of characters; the others are signs        *)
  Specials,             (* texts of the special tokens                      *)
  Merges,               (* pairs of pieces, in the order they were learnt   *)
  Pieces,               (* the vocabulary                                   *)
  Texts,                (* inputs                                           *)
  MaxEncodings          (* bound: calls of encode()                         *)

ASSUME TokenizationAssumption ==
  /\ MaxEncodings \in Nat
  /\ \A c \in DOMAIN Utf8 : \A i \in DOMAIN Utf8[c] : <<Utf8[c][i]>> \in Pieces

VARIABLES
  pieceCache,           (* Tokenizer._cache                                 *)
  encoded,              (* the last call: [text, allowed, ids]              *)
  encodings             (* calls so far                                     *)

tokenizationVars == <<pieceCache, encoded, encodings>>

Bytes(chars) == FlattenSeq([i \in DOMAIN chars |-> Utf8[chars[i]]])

(***************************************************************************)
(* _special_re.split(): parts that are special tokens and parts between    *)
(* them.  The first match goes first; where several special tokens begin,  *)
(* the longest is taken.                                                   *)
(***************************************************************************)
SpecialAt(chars, i) ==
  {s \in Specials : i + Len(s) - 1 <= Len(chars) /\ SubSeq(chars, i, i + Len(s) - 1) = s}

SplitSpecials[chars \in Seq(DOMAIN Utf8)] ==
  LET found == {i \in DOMAIN chars : SpecialAt(chars, i) # {}}
  IN IF chars = <<>> THEN <<>>
     ELSE IF found = {} THEN <<chars>>
     ELSE LET i == CHOOSE i \in found : \A j \in found : i <= j
              s == CHOOSE s \in SpecialAt(chars, i) : \A t \in SpecialAt(chars, i) : Len(t) <= Len(s)
              rest == SplitSpecials[SubSeq(chars, i + Len(s), Len(chars))]
          IN IF i = 1 THEN <<s>> \o rest ELSE <<SubSeq(chars, 1, i - 1), s>> \o rest

(***************************************************************************)
(* _SPLIT_RE.findall(): runs of one kind, each with the space before it;   *)
(* the other spaces of a run stay together.                                *)
(***************************************************************************)
Kind(c) == IF c \in Spaces THEN "space" ELSE IF c \in Letters THEN "letter" ELSE "sign"

Boundary(chars, i) ==
  IF Kind(chars[i]) # "space" THEN Kind(chars[i + 1]) # Kind(chars[i])
  ELSE Kind(chars[i + 1]) = "space" /\ i + 2 <= Len(chars) /\ Kind(chars[i + 2]) # "space"

Chunks(chars) ==
  LET Grown(chunks, i) ==
        IF i = 1 \/ Boundary(chars, i - 1) THEN Append(chunks, <<chars[i]>>)
        ELSE Append(Front(chunks), Append(Last(chunks), chars[i]))
  IN FoldLeft(Grown, <<>>, [i \in DOMAIN chars |-> i])

(* One round of _bpe(): every occurrence of a pair, from the left          *)
Join(word, pair) ==
  FoldLeft(LAMBDA out, piece :
             IF out # <<>> /\ <<Last(out), piece>> = pair
             THEN Append(Front(out), pair[1] \o pair[2]) ELSE Append(out, piece),
           <<>>, word)

Mergeable(word) ==
  {r \in DOMAIN Merges : \E i \in 1..(Len(word) - 1) : Merges[r] = <<word[i], word[i + 1]>>}

(* mutant: the merge learnt last                                           *)
LearntLast(ranks) == CHOOSE r \in ranks : \A q \in ranks : q <= r

(* The pair of the lowest rank                                             *)
LearntFirst(ranks) == CHOOSE r \in ranks : \A q \in ranks : r <= q

Words == Seq(Seq(UNION {ToSet(Utf8[c]) : c \in DOMAIN Utf8}))

Bpe[word \in Words] ==
  IF Mergeable(word) = {} THEN word ELSE Bpe[Join(word, Merges[LearntFirst(Mergeable(word))])]

(* _bpe() of a chunk, from the cache if it is there                        *)
PiecesOf(bytes) ==
  IF bytes \in DOMAIN pieceCache THEN pieceCache[bytes] ELSE Bpe[[i \in DOMAIN bytes |-> <<bytes[i]>>]]

(* _encode_ordinary(): a piece the vocabulary lacks is spelt byte by byte  *)
Ids(piece) == IF piece \in Pieces THEN <<piece>> ELSE [i \in DOMAIN piece |-> <<piece[i]>>]

ChunkBytes(chars) == LET chunks == Chunks(chars) IN [i \in DOMAIN chunks |-> Bytes(chunks[i])]

EncodeOrdinary(chars) ==
  LET chunks == ChunkBytes(chars)
      pieces == FlattenSeq([i \in DOMAIN chunks |-> PiecesOf(chunks[i])])
  IN FlattenSeq([i \in DOMAIN pieces |-> Ids(pieces[i])])

Parts(chars, allowed) ==
  IF allowed THEN SplitSpecials[chars] ELSE IF chars = <<>> THEN <<>> ELSE <<chars>>

TokenizationInit ==
  /\ pieceCache = <<>> /\ encodings = 0
  /\ encoded = [text |-> <<>>, allowed |-> TRUE, ids |-> <<>>]

(* encode(text, allowed_special)                                           *)
Encode(chars, allowed) ==
  LET parts == Parts(chars, allowed)
      special == {i \in DOMAIN parts : allowed /\ parts[i] \in Specials}
      chunks == UNION {ToSet(ChunkBytes(parts[i])) : i \in DOMAIN parts \ special}
  IN /\ encodings < MaxEncodings
     /\ encodings' = encodings + 1
     /\ encoded' = [text |-> chars, allowed |-> allowed,
                    ids |-> FlattenSeq([i \in DOMAIN parts |->
                              IF i \in special THEN <<Bytes(parts[i])>> ELSE EncodeOrdinary(parts[i])])]
     /\ pieceCache' = [bytes \in DOMAIN pieceCache \cup chunks |-> PiecesOf(bytes)]

TokenizationNext == \E chars \in Texts, allowed \in BOOLEAN : Encode(chars, allowed)

TokenizationSpec == TokenizationInit /\ [][TokenizationNext]_tokenizationVars

-----------------------------------------------------------------------------
(* The merges of a chunk, each applied once, in the order they were learnt *)
OneByOne(bytes) == FoldLeft(Join, [i \in DOMAIN bytes |-> <<bytes[i]>>], Merges)

(* Whatever was encoded before, the ids spell the text, byte for byte;     *)
(* between special tokens they are what the merges, applied one by one in  *)
(* the order of the training, make of every chunk; no special token is     *)
(* left in a text where they are allowed, and none is made where not.      *)
EncodingExact ==
  LET chars == encoded.text
      parts == Parts(chars, encoded.allowed)
      Expected(part) ==
        IF encoded.allowed /\ part \in Specials THEN <<Bytes(part)>>
        ELSE LET chunks == ChunkBytes(part)
                 pieces == FlattenSeq([i \in DOMAIN chunks |-> OneByOne(chunks[i])])
             IN FlattenSeq([i \in DOMAIN pieces |-> Ids(pieces[i])])
  IN /\ FlattenSeq(encoded.ids) = Bytes(chars)
     /\ encoded.ids = FlattenSeq([i \in DOMAIN parts |-> Expected(parts[i])])
     /\ encoded.allowed =>
          \A i \in DOMAIN parts : parts[i] \in Specials \/ \A j \in DOMAIN parts[i] : SpecialAt(parts[i], j) = {}
=============================================================================

--------------------------- MODULE StreamAssembly ---------------------------
(***************************************************************************)
(* Streaming of one request, inference/stream.py over the incremental      *)
(* decoding of tokenizer/bpe.py: token ids in, text out, cut at the first  *)
(* stop string.                                                            *)
(*                                                                         *)
(* Abstractions: a character is one byte, which stands for itself, or the  *)
(* character "wide" of two, three or four: "lead2", "lead3" or "lead4" and *)
(* one, two or three times "cont".  "?" is the replacement character.      *)
(***************************************************************************)
EXTENDS Integers, SequencesExt

CONSTANTS
  Vocabulary,           (* token |-> its bytes; <<"special">> is not shown   *)
  StopLists,            (* values cfg.stop may have                         *)
  Lookback,             (* of the decoder, in tokens                        *)
  MaxPushed             (* bound: tokens of a request                       *)

(* No token is empty, special tokens have no other bytes, and none of them *)
(* spells the replacement character; empty stop strings are left out.      *)
ASSUME StreamAssumption ==
  /\ Lookback \in Nat /\ Lookback > 6 /\ MaxPushed \in Nat
  /\ \A t \in DOMAIN Vocabulary :
       /\ Vocabulary[t] \in Seq(ToSet(Vocabulary[t])) \ {<<>>}
       /\ "?" \notin ToSet(Vocabulary[t])
       /\ "special" \in ToSet(Vocabulary[t]) => Vocabulary[t] = <<"special">>
  /\ \A list \in StopLists :
       /\ list \in Seq(ToSet(list))
       /\ \A stop \in ToSet(list) : stop \in Seq(ToSet(stop)) \ {<<>>}

VARIABLES
  stops, tokenIds, decodedUpto, text, buffer, triggered, streaming

streamVars == <<stops, tokenIds, decodedUpto, text, buffer, triggered, streaming>>

(***************************************************************************)
(* Tokenizer.decode(): the bytes since the last special token are decoded  *)
(* together; a character that is cut short is replaced by one "?", and so  *)
(* is each byte that continues none.                                       *)
(***************************************************************************)
Missing == [lead2 |-> 1, lead3 |-> 2, lead4 |-> 3]

DecodeByte(decoded, byte) ==
  LET before == IF decoded.open > 0 THEN Append(decoded.text, "?") ELSE decoded.text
  IN CASE byte \in DOMAIN Missing -> [text |-> before, open |-> Missing[byte]]
       [] byte = "cont" /\ decoded.open > 1 -> [decoded EXCEPT !.open = @ - 1]
       [] byte = "cont" /\ decoded.open = 1 -> [text |-> Append(decoded.text, "wide"), open |-> 0]
       [] byte = "special" -> [text |-> before, open |-> 0]
       [] OTHER -> [text |-> Append(before, IF byte = "cont" THEN "?" ELSE byte), open |-> 0]

DecodeToken(decoded, bytes) ==
  LET upTo[i \in 0..Len(bytes)] == IF i = 0 THEN decoded ELSE DecodeByte(upTo[i - 1], bytes[i])
  IN upTo[Len(bytes)]

Decoded(ids) ==
  LET upTo[i \in 0..Len(ids)] ==
        IF i = 0 THEN [text |-> <<>>, open |-> 0] ELSE DecodeToken(upTo[i - 1], Vocabulary[ids[i]])
  IN upTo[Len(ids)]

Decode(ids) ==
  LET decoded == Decoded(ids) IN IF decoded.open > 0 THEN Append(decoded.text, "?") ELSE decoded.text

(* rstrip() of replacement characters                                      *)
RStrip(chars) ==
  LET ends == {n \in 0..Len(chars) : n > 0 => chars[n] # "?"}
  IN SubSeq(chars, 1, CHOOSE n \in ends : \A m \in ends : m <= n)

(* mutant: only the new text is stripped                                   *)
DecodeIncrementalOneSide(ids, upto) ==
  LET window == IF upto > Lookback THEN upto - Lookback ELSE 0
      before == Decode(SubSeq(ids, window + 1, upto))
      after == RStrip(Decode(SubSeq(ids, window + 1, Len(ids))))
  IN IF Len(after) <= Len(before) THEN <<>> ELSE SubSeq(after, Len(before) + 1, Len(after))

(* decode_incremental(): the lengths are compared, not the texts           *)
DecodeIncremental(ids, upto) ==
  LET window == IF upto > Lookback THEN upto - Lookback ELSE 0
      before == RStrip(Decode(SubSeq(ids, window + 1, upto)))
      after == RStrip(Decode(SubSeq(ids, window + 1, Len(ids))))
  IN IF Len(after) <= Len(before) THEN <<>> ELSE SubSeq(after, Len(before) + 1, Len(after))

(* Where a stop string begins in a text                                    *)
Finds(chars, stop) ==
  {i \in 1..(Len(chars) - Len(stop) + 1) : SubSeq(chars, i, i + Len(stop) - 1) = stop}

(* _longest_partial_suffix(): what may still become a stop string          *)
LongestPartialSuffix(chars) ==
  LET held == {n \in 0..Len(chars) :
                 \E k \in DOMAIN stops :
                   n < Len(stops[k]) /\ IsPrefix(SubSeq(chars, Len(chars) - n + 1, Len(chars)), stops[k])}
  IN CHOOSE n \in held : \A m \in held : m <= n

(* feed(): the stop string that begins earliest, the first of the list     *)
(* among those that begin there                                            *)
FeedChecker(piece) ==
  LET chars == buffer \o piece
      found == {f \in (DOMAIN chars) \X (DOMAIN stops) : f[1] \in Finds(chars, stops[f[2]])}
      hold == LongestPartialSuffix(chars)
  IN IF stops = <<>> THEN text' = text \o piece /\ UNCHANGED <<buffer, triggered>>
     ELSE IF found # {}
     THEN LET first == CHOOSE f \in found : \A g \in found :
                         f[1] < g[1] \/ (f[1] = g[1] /\ f[2] <= g[2])
          IN /\ text' = text \o SubSeq(chars, 1, first[1] - 1)
             /\ buffer' = <<>> /\ triggered' = stops[first[2]]
     ELSE /\ text' = text \o SubSeq(chars, 1, Len(chars) - hold)
          /\ buffer' = SubSeq(chars, Len(chars) - hold + 1, Len(chars))
          /\ UNCHANGED triggered

StreamInit ==
  /\ stops \in StopLists
  /\ tokenIds = <<>> /\ decodedUpto = 0 /\ text = <<>> /\ buffer = <<>> /\ triggered = <<>>
  /\ streaming = TRUE

(* push(); the request ends when a stop string is found                    *)
Push(id) ==
  LET ids == Append(tokenIds, id)
      piece == DecodeIncremental(ids, decodedUpto)
  IN /\ streaming
     /\ Len(tokenIds) < MaxPushed
     /\ tokenIds' = ids /\ decodedUpto' = Len(ids)
     /\ IF piece = <<>> THEN UNCHANGED <<text, buffer, triggered>> ELSE FeedChecker(piece)
     /\ streaming' = (triggered' = <<>>)
     /\ UNCHANGED stops

(* finalize(), for a stop token or the length: what was held is flushed    *)
Finalize ==
  /\ streaming
  /\ streaming' = FALSE
  /\ text' = text \o buffer
  /\ buffer' = <<>>
  /\ UNCHANGED <<stops, tokenIds, decodedUpto, triggered>>

StreamNext ==
  \/ \E id \in DOMAIN Vocabulary : Push(id)
  \/ Finalize

StreamSpec == StreamInit /\ [][StreamNext]_streamVars

-----------------------------------------------------------------------------
(* Nothing is replaced but a last character that is not finished: no       *)
(* special token splits a character                                        *)
WellFormed == "?" \notin ToSet(Decoded(tokenIds).text)

(* Nor are there special tokens in a row, as many as the window can have   *)
(* between the end of a character that it begins within and one of four    *)
(* tokens that is not finished: two, for the lookback of eight             *)
Undrowned ==
  LET special == {i \in DOMAIN tokenIds : Vocabulary[tokenIds[i]] = <<"special">>}
  IN \A i \in DOMAIN tokenIds : ~((i..(i + Lookback - 7)) \subseteq special)

(* However the text is split into tokens, the client gets the text of the  *)
(* whole sequence, in order, each character once: all of it, but for an    *)
(* unfinished character, once the stream ends; or what precedes the stop   *)
(* string that was completed.  No stop string is ever sent, nor any part   *)
(* of it that was still open, and nothing else is held back.               *)
StreamExact ==
  LET whole == RStrip(Decode(tokenIds))
  IN WellFormed /\ Undrowned =>
       /\ IF triggered = <<>> THEN text \o buffer = whole ELSE IsPrefix(text \o triggered, whole)
       /\ triggered = <<>> => \A k \in DOMAIN stops : Finds(whole, stops[k]) = {}
       /\ \A k \in DOMAIN stops : Finds(text, stops[k]) = {}
       /\ streaming => \/ buffer = <<>>
                       \/ \E k \in DOMAIN stops : buffer # stops[k] /\ IsPrefix(buffer, stops[k])
=============================================================================

------------------------------- MODULE Framing -------------------------------
(***************************************************************************)
(* KESP framing: where commands begin and end in a stream of bytes that    *)
(* arrives, or was written, only up to some byte.  The same layout is used *)
(* on the wire (parser.py, CommandParser) and in the append-only file      *)
(* (aof.py): a line "A<n>" and, for each of n strings, a line "S<length>"  *)
(* and so many bytes with a newline behind them; or a plain line.          *)
(*                                                                         *)
(* A byte is its position.  A frame is the places where its parts end:     *)
(*   "line"    the newline of a header or of a plain line: nobody knows    *)
(*             how far away it is before it is there                       *)
(*   "bytes"   the newline behind a string whose length was announced      *)
(*   "junk"    the byte at which what was sent can be seen to be no frame: *)
(*             a wrong sigil, a bad number, a line or a length past limits *)
(***************************************************************************)
EXTENDS Naturals, Sequences, FiniteSetsExt

Part(end, kind) == [end |-> end, kind |-> kind]

\* A frame of n strings laid out from position at: headers of two bytes, and
\* strings of the given lengths, each with its newline.
Framed(at, lengths) ==
  LET header[i \in 0..Len(lengths)] ==
        IF i = 0 THEN at + 2 ELSE header[i - 1] + 2 + lengths[i] + 1
  IN <<Part(at + 2, "line")>> \o
     [k \in 1..(2 * Len(lengths)) |->
        LET i == (k + 1) \div 2
        IN IF k % 2 = 1 THEN Part(header[i - 1] + 2, "line")
           ELSE Part(header[i], "bytes")]

\* A plain line of n bytes and its newline; alone, the newline is a blank.
Line(at, n) == <<Part(at + n + 1, "line")>>

\* An array header, and one byte that cannot stand behind it.
Garbled(at) == <<Part(at + 2, "line"), Part(at + 3, "junk")>>

End(parts) == parts[Len(parts)].end

\* _parse_frame, when total bytes are there: malformed, incomplete or whole.
Malformed(parts, total) ==
  \E k \in DOMAIN parts : parts[k].kind = "junk" /\ parts[k].end <= total

\* Mutant of Whole: the last newline need not be there.
WholeEarly(parts, total) == End(parts) <= total + 1 /\ ~Malformed(parts, total)

Whole(parts, total) == End(parts) <= total /\ ~Malformed(parts, total)

\* Mutant of Hint: the newline behind an announced string is counted twice.
HintFar(parts, total) ==
  LET cut == CHOOSE k \in DOMAIN parts :
               /\ parts[k].end > total
               /\ \A j \in 1..(k - 1) : parts[j].end <= total
  IN IF parts[cut].kind = "bytes" THEN parts[cut].end + 1 ELSE total + 1

\* hint[0] of an incomplete frame: how many bytes must be there before a
\* parse can get further.  A line may end with the very next byte.
Hint(parts, total) ==
  LET cut == CHOOSE k \in DOMAIN parts :
               /\ parts[k].end > total
               /\ \A j \in 1..(k - 1) : parts[j].end <= total
  IN IF parts[cut].kind = "bytes" THEN parts[cut].end ELSE total + 1

(***************************************************************************)
(* parse_buffer over a sequence of frames that follow each other, each     *)
(* with its parts and whether it is blank, from position pos, with the     *)
(* bytes up to total there: whole blank frames are skipped; then comes a   *)
(* command, something malformed, a frame that is not all there, or nothing.*)
(***************************************************************************)
StartOf(frames, i) == IF i = 1 THEN 0 ELSE End(frames[i - 1].parts)

ParseBuffer(frames, pos, total) ==
  LET stops == {i \in DOMAIN frames :
                  /\ End(frames[i].parts) > pos
                  /\ ~(frames[i].blank /\ Whole(frames[i].parts, total))}
      i == Min(stops)
      parts == frames[i].parts
      Result(verdict, at, need) ==
        [verdict |-> verdict, frame |-> i, pos |-> at, need |-> need]
  IN IF stops = {} \/ total <= StartOf(frames, i)
     THEN [verdict |-> "nothing", frame |-> 0, pos |-> total, need |-> 0]
     ELSE IF Malformed(parts, total) THEN Result("malformed", total, 0)
     ELSE IF Whole(parts, total) THEN Result("command", End(parts), 0)
     ELSE Result("incomplete", StartOf(frames, i),
                 Hint(parts, total) - StartOf(frames, i))
=============================================================================

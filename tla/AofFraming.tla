------------------------------ MODULE AofFraming ------------------------------
(***************************************************************************)
(* The bytes of the append-only file (aof.py), and what is done about a    *)
(* file that ends badly (store.py, _aof_records and _repair_aof): records  *)
(* are appended, a crash cuts the last of them short, or the file is       *)
(* damaged, and the server starts again.                                   *)
(*                                                                         *)
(* Of the bytes there are the sigils, the newline, the digits and some     *)
(* others.  A token is a sequence of bytes and a record one of tokens.  A  *)
(* legacy line is one token here: splitting it at spaces, and the UTF-8 in *)
(* tokens, are left out.                                                   *)
(***************************************************************************)
EXTENDS Integers, Sequences, SequencesExt, FiniteSetsExt

CONSTANTS
  MaxHeaderLine,  \* MAX_HEADER_LINE
  OldFiles,       \* files that older versions left
  LogRecords,     \* records that get logged
  Bytes,          \* the bytes there are
  MaxFile,        \* bound: bytes in the file
  MaxKills        \* bound: crashes

VARIABLES
  file,    \* the bytes of the file
  kept,    \* history: the records that were read when the server started
  recent,  \* history: the records logged since
  open,    \* the server runs
  kills,   \* crashes so far
  glued,   \* history: it was started on a legacy line without its newline
  damage   \* history: "none", "now" (since the server stopped) or "past"

fileVars == <<file, kept, recent, open, kills, glued, damage>>

NL == "nl"
Digits == <<"0", "1", "2", "3", "4", "5", "6", "7", "8", "9">>
Letters == {"A", "S", "x"}

-----------------------------------------------------------------------------
(***************************************************************************)
(* Writing and reading.                                                    *)
(***************************************************************************)

\* b"%d" of a number: its last digit is what is left of it by ten, and so on.
Numeral(n) ==
  LET tenths[k \in Nat] == IF k = 0 THEN n ELSE tenths[k - 1] \div 10
      size == Min({k \in 1..(n + 1) : tenths[k] = 0})
  IN [i \in 1..size |-> Digits[(tenths[size - i] % 10) + 1]]

HeaderLine(sigil, n) == <<sigil>> \o Numeral(n) \o <<NL>>

\* encode_record
EncodeToken(token) == HeaderLine("S", Len(token)) \o token \o <<NL>>

Encode(record) ==
  HeaderLine("A", Len(record))
    \o FlattenSeq([i \in DOMAIN record |-> EncodeToken(record[i])])

EncodeLog(log) == FlattenSeq([i \in DOMAIN log |-> Encode(log[i])])

NoCount == -1

\* _count: a decimal number without leading zeros, or NoCount.
Count(field) ==
  IF field = <<>> \/ ~Range(field) \subseteq Range(Digits)
     \/ (Len(field) > 1 /\ field[1] = "0")
  THEN NoCount
  ELSE FoldLeft(LAMBDA n, d : 10 * n + (CHOOSE i \in DOMAIN Digits : Digits[i] = d) - 1,
                0, field)

Failed(verdict) == [verdict |-> verdict, n |-> 0, next |-> 0, tokens |-> <<>>]

\* buf.find: the first newline behind pos bytes, or 0.
Newline(buf, pos) ==
  LET hits == {i \in (pos + 1)..Len(buf) : buf[i] = NL}
  IN IF hits = {} THEN 0 ELSE Min(hits)

\* A header line behind pos bytes that ends at nl, if that is not 0: its
\* number, and the bytes up to its end.
HeaderTo(buf, pos, nl) ==
  LET size == IF nl = 0 THEN Len(buf) - pos ELSE nl - 1 - pos
      n == Count(SubSeq(buf, pos + 2, nl - 1))
  IN IF size > MaxHeaderLine THEN Failed("corrupt")
     ELSE IF nl = 0 THEN Failed("torn")
     ELSE IF n = NoCount THEN Failed("corrupt")
     ELSE [Failed("ok") EXCEPT !.n = n, !.next = nl]

Header(buf, pos) == HeaderTo(buf, pos, Newline(buf, pos))

\* The string that a header announces, and the newline behind it.
Announced(buf, header, newlineIsThere) ==
  LET end == header.next + header.n
  IN IF header.verdict # "ok" THEN header
     ELSE IF end > Len(buf) THEN Failed("torn")
     ELSE IF newlineIsThere /\ end = Len(buf) THEN Failed("torn")
     ELSE IF newlineIsThere /\ buf[end + 1] # NL THEN Failed("corrupt")
     ELSE [verdict |-> "ok", n |-> header.n, next |-> end + 1,
           tokens |-> <<SubSeq(buf, header.next + 1, end)>>]

\* Mutant of StringAt: the newline behind a string is not waited for.
StringAtEarly(buf, cursor) ==
  IF cursor >= Len(buf) THEN Failed("torn")
  ELSE IF buf[cursor + 1] # "S" THEN Failed("corrupt")
  ELSE Announced(buf, Header(buf, cursor), FALSE)

\* One string of a record, behind cursor bytes.
StringAt(buf, cursor) ==
  IF cursor >= Len(buf) THEN Failed("torn")
  ELSE IF buf[cursor + 1] # "S" THEN Failed("corrupt")
  ELSE Announced(buf, Header(buf, cursor), TRUE)

\* One more string of a record; or why there is none.
Joined(sofar, string) ==
  IF string.verdict # "ok" THEN string
  ELSE [string EXCEPT !.tokens = sofar.tokens \o @]

NextString(buf, sofar) ==
  IF sofar.verdict # "ok" THEN sofar
  ELSE Joined(sofar, StringAt(buf, sofar.next))

\* The strings that the header of a record announces.
StringsOf(buf, header) ==
  LET upTo[k \in Nat] == IF k = 0 THEN header ELSE NextString(buf, upTo[k - 1])
  IN upTo[header.n]

\* The record behind pos bytes: all its strings, or why not.
FramedAt(buf, pos) == StringsOf(buf, Header(buf, pos))

\* A legacy line: up to its newline, or to the end of the file.
LineAt(buf, pos) ==
  LET nl == Newline(buf, pos)
      end == IF nl = 0 THEN Len(buf) ELSE nl - 1
      line == SubSeq(buf, pos + 1, end)
  IN [verdict |-> "ok", n |-> 0, next |-> IF nl = 0 THEN Len(buf) ELSE nl,
      tokens |-> IF line = <<>> THEN <<>> ELSE <<line>>]

\* One turn of the loop of scan.
UnitAt(buf, pos) ==
  IF buf[pos + 1] # "A" THEN LineAt(buf, pos)
  ELSE IF pos + 1 = Len(buf) THEN Failed("torn")
  ELSE IF buf[pos + 2] \in Letters THEN LineAt(buf, pos)
  ELSE FramedAt(buf, pos)

\* The records from a unit on, if it is good, and those behind it.
Unfolded(unit, rest) ==
  IF unit.tokens = <<>> THEN rest
  ELSE [rest EXCEPT !.records = <<unit.tokens>> \o @]

\* scan: the records, where the last good one ends, and how it came to stop.
Scan(buf) ==
  LET stop(pos, status) == [records |-> <<>>, goodEnd |-> pos, status |-> status]
      from[pos \in Nat] ==
        IF pos >= Len(buf) THEN stop(pos, "ok")
        ELSE LET unit == UnitAt(buf, pos)
             IN IF unit.verdict # "ok" THEN stop(pos, unit.verdict)
                ELSE Unfolded(unit, from[unit.next])
  IN from[0]

\* Mutant of Repair: only a file that is malformed is cut back.
RepairCorruptOnly(buf) ==
  LET s == Scan(buf)
  IN IF s.status = "corrupt" THEN SubSeq(buf, 1, s.goodEnd) ELSE buf

\* _aof_records at its end, _repair_aof: the file is cut back to its last good
\* record.
Repair(buf) ==
  LET s == Scan(buf)
  IN IF s.status = "ok" THEN buf ELSE SubSeq(buf, 1, s.goodEnd)

-----------------------------------------------------------------------------
\* A header line is never longer than MAX_HEADER_LINE.
Fits(n) == Len(Numeral(n)) < MaxHeaderLine

\* Old files are not damaged; a record has at least the name of its command.
ASSUME AofFramingAssumption ==
  /\ MaxHeaderLine \in Nat
  /\ Letters \union Range(Digits) \union {NL} \subseteq Bytes
  /\ \A old \in OldFiles : old \in Seq(Bytes) /\ Scan(old).status # "corrupt"
  /\ \A record \in LogRecords :
       /\ record \in Seq(Seq(Bytes)) /\ record # <<>> /\ Fits(Len(record))
       /\ \A i \in DOMAIN record : Fits(Len(record[i]))

-----------------------------------------------------------------------------
(***************************************************************************)
(* The life of a file.                                                     *)
(***************************************************************************)
InitFile ==
  /\ file \in OldFiles
  /\ kept = Scan(file).records
  /\ recent = <<>>
  /\ open = FALSE
  /\ kills = 0
  /\ glued = FALSE
  /\ damage = "none"

\* The server starts: recover_from_aof reads the file and repairs it.
OpenFile ==
  /\ ~open
  /\ open' = TRUE
  /\ file' = Repair(file)
  /\ glued' = (file' # <<>> /\ file'[Len(file')] # NL)
  /\ kept' = Scan(file).records
  /\ recent' = <<>>
  /\ damage' = IF damage = "now" THEN "past" ELSE damage
  /\ UNCHANGED kills

\* _log_operation
LogRecord(record) ==
  /\ open /\ Len(file \o Encode(record)) <= MaxFile
  /\ file' = file \o Encode(record)
  /\ recent' = Append(recent, record)
  /\ UNCHANGED <<kept, open, kills, glued, damage>>

\* The server is killed: of what was written since it started, the first bytes
\* are in the file.
CutFile ==
  /\ open /\ kills < MaxKills
  /\ open' = FALSE
  /\ kills' = kills + 1
  /\ \E lost \in 0..Len(EncodeLog(recent)) :
       LET whole == {k \in 0..Len(recent) :
                       Len(EncodeLog(SubSeq(recent, 1, k))) + lost <= Len(EncodeLog(recent))}
       IN /\ file' = SubSeq(file, 1, Len(file) - lost)
          /\ recent' = SubSeq(recent, 1, Max(whole))
  /\ UNCHANGED <<kept, glued, damage>>

\* A byte of the file is not what was written, once.
DamageFile ==
  /\ ~open /\ damage = "none"
  /\ damage' = "now"
  /\ \E i \in DOMAIN file, b \in Bytes : file' = [file EXCEPT ![i] = b]
  /\ UNCHANGED <<kept, recent, open, kills, glued>>

FileNext ==
  \/ OpenFile \/ CutFile \/ DamageFile
  \/ \E record \in LogRecords : LogRecord(record)

FileSpec == InitFile /\ [][FileNext]_fileVars

-----------------------------------------------------------------------------
\* A crash cuts the log anywhere.  Every record that is all there is read, and
\* nothing else is, whatever the bytes in its tokens look like; and a file
\* with a record cut short is torn, never corrupt (scan).
TornTailsAreCut ==
  ~open /\ ~glued /\ damage # "now" =>
    /\ Scan(file).records = kept \o recent
    /\ Scan(file).status \in {"ok", "torn"}

\* "Cut back to its last good record so later appends are never stranded
\* behind it" (_aof_records): while the server runs, the file reads, to its
\* end, as what was read from it and what was logged since, whatever was in it
\* before; unless that ended with a legacy line that had been cut short.
LogReadsBack ==
  open /\ ~glued => Scan(file).status = "ok" /\ Scan(file).records = kept \o recent
=============================================================================

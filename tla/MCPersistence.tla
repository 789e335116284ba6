---------------------------- MODULE MCPersistence ----------------------------
(***************************************************************************)
(* Three machines that share no state, in one run: the store and its log,  *)
(* the bytes of the log, and a sorted set.  A behaviour is about one of    *)
(* them, so their states add up and do not multiply.                       *)
(***************************************************************************)
EXTENDS Persistence, AofFraming, SkipList, TLC
CONSTANTS x, y, one, two

VARIABLE about

MCVars == <<vars, fileVars, zset, about>>

MCInit ==
  /\ Init /\ InitFile /\ InitZset
  /\ about \in {"store", "file", "zset"}
  /\ about # "file" => file = <<>>

StoreStep ==
  /\ about = "store" /\ Next
  /\ UNCHANGED <<fileVars, zset, about>>

FileStep ==
  /\ about = "file" /\ FileNext
  /\ UNCHANGED <<vars, zset, about>>

ZsetStep ==
  /\ about = "zset" /\ ZsetNext
  /\ UNCHANGED <<vars, fileVars, about>>

MCSpec == MCInit /\ [][StoreStep \/ FileStep \/ ZsetStep]_MCVars

Symmetry == Permutations(Keys) \union Permutations(Values)

\* Tokens that look like headers, that hold a newline, and an empty one.
MCRecords == {<<<<"A", "1">>>>, <<<<NL, "S">>, <<>>>>, <<<<"x">>>>}

\* Legacy lines, the last of them cut short.
MCOldFiles == {<<>>, <<"x", NL>>, <<"A", "x", NL, "x">>}

MCBytes == Letters \union Range(Digits) \union {NL}
=============================================================================

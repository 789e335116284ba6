--------------------------- MODULE MCFollowerNode ---------------------------
EXTENDS FollowerNode
CONSTANTS r1, w1

Frame(parts, what, count, size, adds) ==
  [parts |-> parts, blank |-> what = "blank", what |-> what, count |-> count,
   size |-> size, adds |-> adds]

Baseline(at) == Frame(Framed(at, <<2>>), "baseline", 0, 2, 0)
Cmd(at, adds) == Frame(Framed(at, <<1>>), "command", 0, 1, adds)
Tx(at, n) == Frame(Framed(at, <<>>), "tx", n, 1, 0)
Blank(at) == Frame(Line(at, 0), "blank", 0, 0, 0)
Bad(at) == Frame(Garbled(at), "command", 0, 1, 0)

Base == Baseline(0)
B == End(Base.parts)
C == End(Cmd(0, 0).parts)
H == End(Tx(0, 2).parts)

\* A good stream: a command, a blank, a transaction of two commands with a
\* blank inside.
Good == <<Base, Blank(B), Tx(B + 1, 2), Cmd(B + 1 + H, 0), Blank(B + 1 + H + C), Cmd(B + 2 + H + C, 0)>>

\* A transaction with a transaction inside, one that is announced wrongly,
\* one that is too large, and bytes that are no frame.
Nested == <<Base, Tx(B, 2), Tx(B + H, 2), Cmd(B + 2 * H, 0), Cmd(B + 2 * H + C, 0)>>
Misnumbered == <<Base, Cmd(B, 0), Tx(B + C, 0), Cmd(B + C + H, 0)>>
TooLarge == <<Base, Tx(B, 3), Cmd(B + H, 0), Cmd(B + H + C, 0), Cmd(B + H + 2 * C, 0)>>
Broken == <<Base, Cmd(B, 0), Bad(B + C), Cmd(B + C + 3, 0)>>
NoBaseline == <<Cmd(0, 0), Cmd(C, 0)>>

\* A command on a line of its own, while clients of this node are at work.
Short == <<Frame(Line(0, 1), "baseline", 0, 1, 0), Frame(Line(2, 1), "command", 0, 1, 1)>>

MCScripts == {Good, Nested, Misnumbered, TooLarge, Broken, NoBaseline, Short}
MCWatched == {Short}
=============================================================================

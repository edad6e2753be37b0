---------------------------- MODULE CliHistory ----------------------------
(***************************************************************************)
(* The command history of the embedded CLI (lib/embedded-cli/               *)
(* embedded_cli.cpp): the items lie in one buffer of bytes, newest first,   *)
(* each ended by a NUL.  What lies behind the last item is left over.       *)
(* A history is a record [buf, count, current]; a command is a sequence of  *)
(* characters, none of them NUL.                                            *)
(***************************************************************************)
EXTENDS Integers, Sequences, FiniteSets, SequencesExt

CONSTANTS
  HistorySize,   \* bufferSize, CLI_HISTORY_SIZE: 32
  NUL            \* '\0'

ASSUME HistoryAssumption == HistorySize \in Nat \ {0}

EmptyHistory == [buf |-> [i \in 0..HistorySize - 1 |-> NUL], count |-> 0, current |-> 0]

\* getTokenPosition: where the n-th item begins.
Start(buf, n) ==
  IF n = 1 THEN 0
  ELSE CHOOSE i \in DOMAIN buf \ {0} :
         buf[i - 1] = NUL /\ Cardinality({j \in 0..i - 1 : buf[j] = NUL}) = n - 1

\* strlen of the string that begins at i
StringLength(buf, i) == CHOOSE n \in 0..HistorySize : buf[i + n] = NUL /\ \A j \in 0..n - 1 : buf[i + j] # NUL

\* historyGet
ItemAt(h, n) ==
  LET i == Start(h.buf, n) IN [j \in 1..StringLength(h.buf, i) |-> h.buf[i + j - 1]]

\* memmove(&buf[to], &buf[from], n), past the end too if it comes to that
Move(buf, to, from, n) ==
  [i \in DOMAIN buf \cup to..to + n - 1 |-> IF i \in to..to + n - 1 THEN buf[i - to + from] ELSE buf[i]]

\* historyRemove: everything behind the item moves down, unless it is the last.
HistoryRemove(h, str) ==
  LET found == {n \in 1..h.count : ItemAt(h, n) = str}
      item == Min(found)
      start == Start(h.buf, item)
  IN IF found = {} THEN h
     ELSE IF item = h.count THEN [h EXCEPT !.count = @ - 1]
     ELSE [h EXCEPT !.count = @ - 1,
                    !.buf = Move(@, start, start + Len(str) + 1, HistorySize - (start + Len(str) + 1))]

\* The bytes that the first n items take up.
UsedSize(h, n) ==
  IF n = 0 THEN 0 ELSE Start(h.buf, n) + StringLength(h.buf, Start(h.buf, n)) + 1

\* Seeded variant: the NUL that ends the new item is not counted.
FitsWithoutEnd(h, n, len) == HistorySize - UsedSize(h, n) >= len

Fits(h, n, len) == HistorySize - UsedSize(h, n) >= len + 1

\* historyPut: the oldest items go until the new one fits.
HistoryPut(h, str) ==
  LET len == Len(str)
      rest == HistoryRemove(h, str)
      kept == Max({0} \cup {n \in 1..rest.count : Fits(rest, n, len)})
      moved == Move(rest.buf, len + 1, 0, UsedSize(rest, kept))
  IN IF HistorySize < len + 1 THEN h
     ELSE [h EXCEPT !.count = kept + 1,
                    !.buf = [i \in DOMAIN moved |->
                               IF i < len THEN str[i + 1] ELSE IF i = len THEN NUL ELSE moved[i]]]

Items(h) == [n \in 1..h.count |-> ItemAt(h, n)]

-----------------------------------------------------------------------------
(* What a user expects of the history *)

\* The bytes of the first n commands, each with its end.
Bytes(commands, n) == Cardinality(UNION {{i} \X (0..Len(commands[i])) : i \in 1..n})

Without(commands, str) ==
  IF str \in ToSet(commands) THEN RemoveAt(commands, CHOOSE i \in DOMAIN commands : commands[i] = str) ELSE commands

\* The latest commands, each once, as many as the buffer takes.
Remember(commands, str) ==
  LET all == <<str>> \o Without(commands, str)
  IN IF Len(str) + 1 > HistorySize THEN commands
     ELSE SubSeq(all, 1, Max({n \in 1..Len(all) : Bytes(all, n) <= HistorySize}))
=============================================================================

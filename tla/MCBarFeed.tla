----------------------------- MODULE MCBarFeed ------------------------------
EXTENDS BarFeed

(* Months of 4 units; the range asked, 6..10, starts inside the month 1    *)
(* and ends inside the month 2, whose files may hold ticks outside of it.  *)
MCTicks(times, levels) == [ts : times, price : levels]
UpTo(n, ticks) == UNION {[1..k -> ticks] : k \in 0..n}
Sorted(n, ticks) == {s \in UpTo(n, ticks) : Monotone(s)}

Apart(n, ticks) ==
  {s \in [1..n -> ticks] : \A i \in 2..n : s[i - 1].ts < s[i].ts}

OfMonth(s, m) == SelectSeq(s, LAMBDA t : Month(t.ts) = m)
FileOf(format, records) == [format |-> format, records |-> records]
Split(s, format) == [m \in {1, 2} |-> FileOf(format, OfMonth(s, m))]

(* Sound files; a text file for the second month; a month without a file;  *)
(* a first or a last month that goes back in time; a malformed line.       *)
Fallback(s) == [Split(s, "binary") EXCEPT ![2].format = "text"]
Missing(s, m) == [Split(s, "binary") EXCEPT ![m] = FileOf("none", <<>>)]
Broken(s) == (1 :> FileOf("binary", s)) @@ (2 :> FileOf("binary", <<[ts |-> 9, price |-> 1]>>))
BrokenLast(s) == (1 :> FileOf("binary", <<[ts |-> 7, price |-> 1]>>)) @@ (2 :> FileOf("binary", s))
Unreadable(s) == (1 :> FileOf("text", <<Malformed>> \o s))

MCStores ==
  {Split(s, "binary") : s \in Sorted(3, MCTicks(6..10, 1..3))}
    \cup {Split(s, "binary") : s \in Apart(4, MCTicks(6..10, {1, 3}))}
    \cup {Split(s, "binary") : s \in Apart(5, MCTicks(6..10, {1, 3}))}
    \cup {Split(s, "binary") : s \in Sorted(3, MCTicks(5..11, {1}))}
    \cup {Fallback(s) : s \in Sorted(2, MCTicks(5..11, {1, 3}))}
    \cup {Missing(s, m) : s \in Sorted(2, MCTicks(5..11, {1})), m \in {1, 2}}
    \cup {Broken(s) : s \in UpTo(3, MCTicks(6..8, {1}))}
    \cup {BrokenLast(s) : s \in UpTo(3, MCTicks(8..11, {1}))}
    \cup {Unreadable(s) : s \in Sorted(2, MCTicks(5..11, {1}))}

HistoryBar(ts) == [ts |-> ts, open |-> 2, high |-> 3, low |-> 1, close |-> 2,
                   volume |-> 1, ended |-> TRUE]

(* None, one bar, and those of an analyser that is not the first: the      *)
(* market's buffer still holds bars of a shorter timeframe before its own. *)
MCHistories == {<<>>, <<HistoryBar(4)>>, <<HistoryBar(3), HistoryBar(5), HistoryBar(4)>>}

MCNoHistory == {<<>>}

MCTextStores == {Split(s, "text") : s \in Sorted(2, MCTicks(5..11, {1}))}
=============================================================================

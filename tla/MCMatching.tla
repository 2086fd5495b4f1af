------------------------------ MODULE MCMatching ------------------------------
(***************************************************************************)
(* Four intents and every subset of seven edges between them, on top of    *)
(* edge intents that add, prefer and block: graphs of up to six cycles     *)
(* that overlap, up to the length the live board asks for; three ways to   *)
(* score; one intent that takes no cycle of more than three; runs in which *)
(* every offer has a value, or all but one to which an edge intent leads.  *)
(***************************************************************************)
EXTENDS Matching, TLC

MCWantSets ==
  SUBSET {<<1, 2>>, <<2, 1>>, <<2, 3>>, <<3, 1>>, <<3, 4>>, <<4, 1>>, <<4, 3>>}
MCRowSets ==
  {{Row(1, 3, "prefer", TRUE), Row(2, 3, "block", FALSE)},
   {Row(3, 1, "block", TRUE), Row(3, 1, "prefer", TRUE), Row(2, 4, "allow", TRUE)}}
MCLengthLimit == [i \in 1..4 |-> IF i = 4 THEN 3 ELSE 4]

MCIdOf(c) == FoldLeft(LAMBDA acc, i : (7 * acc + 3 * i) % 1009, Len(c), c)

\* Long cycles first; by a mixture in which some score nothing; all the same.
MCScoreOf(k, c) ==
  CASE k = 1 -> Len(c)
    [] k = 2 -> (c[1] + 2 * c[2] + Len(c)) % 4
    [] k = 3 -> 1
=============================================================================

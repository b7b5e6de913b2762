------------------------------- MODULE History -------------------------------
(***************************************************************************)
(* The directory .vibeguard/history: files named after the moment of their *)
(* report, read by every run for its comparison, written and pruned at its *)
(* end.  No lock protects it.  An entry is the set of fingerprints its     *)
(* report leaves open, or Torn while it is half written or after a crash.  *)
(***************************************************************************)
EXTENDS Naturals, FiniteSets, Sequences

CONSTANTS
  Fingerprints,
  Keep,        \* [history] keep; 0 prunes nothing
  None, Torn

ASSUME HistoryAssumption ==
  Keep \in Nat /\ None # Torn /\ None \notin Nat /\ \A open \in SUBSET Fingerprints : open # None /\ open # Torn

VARIABLES
  entries,     \* file name -> open fingerprints, or Torn
  created      \* history: the names of the files created, in that order

(* <<t, 0>> is the plain timestamp t, <<t, i>> the same with the suffix    *)
(* "-i".  As strings, "-" is before ".", so the plain name sorts last.     *)
(* MaxSuffix is a bound: one more run of a moment chooses no name.  From   *)
(* "-10" on, the names of a moment would sort in another order.            *)
MaxSuffix == 9
Names == Nat \X (0..MaxSuffix)
Before(m, n) ==
  \/ m[1] < n[1]
  \/ m[1] = n[1] /\ m[2] # 0 /\ (n[2] = 0 \/ m[2] < n[2])

Newest(names) == CHOOSE n \in names : \A m \in names \ {n} : Before(m, n)

(* The first name at this moment that is not taken.                        *)
Free(t, i) == i \in 0..MaxSuffix /\ <<t, i>> \notin DOMAIN entries
FreeName(t) ==
  <<t, CHOOSE i \in 0..MaxSuffix : Free(t, i) /\ \A j \in 0..(i - 1) : ~Free(t, j)>>

(* Mutant of StaleNames: one entry too few is kept.                         *)
StaleNamesOneMore ==
  {n \in DOMAIN entries :
     Keep > 0 /\ Cardinality({m \in DOMAIN entries : Before(n, m)}) + 1 >= Keep}

(* history_files(root)[:-keep]                                             *)
StaleNames ==
  {n \in DOMAIN entries :
     Keep > 0 /\ Cardinality({m \in DOMAIN entries : Before(n, m)}) >= Keep}

Readable(names) == {n \in names \cap DOMAIN entries : entries[n] # Torn}

(* regression_diff against the readable ones of the listed files.          *)
Diff(open, names) ==
  LET valid == Readable(names)
      previous == entries[Newest(valid)]
      older == UNION {entries[n] : n \in valid \ {Newest(valid)}}
  IN IF valid = {} THEN None
     ELSE [new |-> (open \ previous) \ older, regressed |-> (open \cap older) \ previous,
           unchanged |-> open \cap previous, resolved |-> previous \ open]
=============================================================================

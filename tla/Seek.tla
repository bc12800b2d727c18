-------------------------------- MODULE Seek --------------------------------
(***************************************************************************)
(* t_file::f_seek of im/basic_dictionary.cc: the binary search for a line  *)
(* of a file that is not divided into lines of one length.  It compares    *)
(* the line after the middle of what is left, and once there is none goes  *)
(* over what is left line by line.  A position is the number of bytes      *)
(* before it.                                                              *)
(***************************************************************************)
EXTENDS Integers, Sequences

CONSTANTS
  NewLine,
  Searches,      \* a file, the range to search from..to-1, by what
  Equal(_, _),   \* f_equal and f_greater of what is searched by, for the
  Greater(_, _), \* line at a position
  Stop(_, _)     \* where f_equal stops reading

VARIABLES
  search, \* the arguments
  low,    \* a_f
  high,   \* a_l
  at      \* where the search is

seekVars == <<search, low, high, at>>

(* f_skip, then ftell. *)
Ends(s, p, q) ==
  q \in p + 1..Len(s.file) /\ s.file[q] = NewLine /\ \A r \in p + 1..q - 1 : s.file[r] # NewLine

Skip(s, p) ==
  IF \E q \in p + 1..Len(s.file) : Ends(s, p, q)
  THEN CHOOSE q \in p + 1..Len(s.file) : Ends(s, p, q)
  ELSE Len(s.file)

(* The lines of the range. *)
Lines(s) ==
  {p \in s.from..s.to - 1 : p = s.from \/ (p \in 1..Len(s.file) /\ s.file[p] = NewLine)}

(* The lines are in the order of the comparison: the one that is sought    *)
(* comes after those that are not greater and before those that are.       *)
Ordered(s) ==
  \A p \in Lines(s) : Equal(s, p) =>
    /\ ~Greater(s, p)
    /\ \A q \in Lines(s) : q # p => (Greater(s, q) <=> p < q)

(* A line is compared without reading beyond it. *)
Stops(s) ==
  \A p \in Lines(s) : Stop(s, p) \in Nat /\ p <= Stop(s, p) /\ Stop(s, p) < Skip(s, p)

ASSUME SeekAssumption ==
  \A s \in Searches :
    /\ s.file \in Seq(Nat) /\ s.from \in Nat /\ s.to \in 0..Len(s.file)
    /\ Ordered(s) /\ Stops(s)

Start(s) ==
  /\ search' = s
  /\ low' = s.from /\ high' = s.to
  /\ at' = "halving"

(* A mutant: gives up where it should go over what is left. *)
HalveOnly ==
  /\ at = "halving" /\ low < high
  /\ \E i \in {Skip(search, (low + high) \div 2)} :
       \/ i >= high /\ at' = "absent" /\ UNCHANGED <<low, high>>
       \/ i < high /\ Greater(search, i) /\ high' = i /\ UNCHANGED <<low, at>>
       \/ i < high /\ ~Greater(search, i) /\ low' = i /\ UNCHANGED <<high, at>>
  /\ UNCHANGED search

(* A mutant: i > high, which i = high stops. *)
HalveBeyond ==
  /\ at = "halving" /\ low < high
  /\ \E i \in {Skip(search, (low + high) \div 2)} :
       \/ i > high /\ at' = "scanning" /\ UNCHANGED <<low, high>>
       \/ i <= high /\ (i = high \/ Greater(search, i)) /\ high' = i /\ UNCHANGED <<low, at>>
       \/ i < high /\ ~Greater(search, i) /\ low' = i /\ UNCHANGED <<high, at>>
  /\ UNCHANGED search

Halve ==
  /\ at = "halving" /\ low < high
  /\ \E i \in {Skip(search, (low + high) \div 2)} :
       \/ i >= high /\ at' = "scanning" /\ UNCHANGED <<low, high>>
       \/ i < high /\ Greater(search, i) /\ high' = i /\ UNCHANGED <<low, at>>
       \/ i < high /\ ~Greater(search, i) /\ low' = i /\ UNCHANGED <<high, at>>
  /\ UNCHANGED search

Scan ==
  /\ at = "scanning" /\ low < high
  /\ \/ Equal(search, low) /\ at' = "found" /\ UNCHANGED low
     \/ /\ ~Equal(search, low)
        /\ low' = Skip(search, Stop(search, low)) /\ UNCHANGED at
  /\ UNCHANGED <<search, high>>

GiveUp ==
  /\ at \in {"halving", "scanning"} /\ low >= high
  /\ at' = "absent"
  /\ UNCHANGED <<search, low, high>>

SeekStep == Halve \/ Scan \/ GiveUp

SeekTypeOK ==
  /\ search \in Searches
  /\ low \in Nat /\ high \in Nat
  /\ at \in {"halving", "scanning", "found", "absent"}

SeekInit == search \in Searches /\ low = search.from /\ high = search.to /\ at = "halving"

SeekNext == SeekStep \/ \E s \in Searches : Start(s)

SeekSpec == SeekInit /\ [][SeekNext]_seekVars

-----------------------------------------------------------------------------
(* The search ends at the line that is sought, wherever it lies and however *)
(* long the lines are, and fails only if there is none.                    *)
Finds ==
  /\ at = "found" => low \in Lines(search) /\ Equal(search, low)
  /\ at = "absent" => \A p \in Lines(search) : ~Equal(search, p)

(* What is left always has it: low is the start of a line. *)
Kept ==
  /\ low \in Lines(search) \/ low >= high
  /\ high <= search.to
  /\ \A p \in Lines(search) : Equal(search, p) => low <= p /\ p < high

(* Every step of a search leaves less of the range than it found, or ends  *)
(* one of its two loops: it cannot go on for ever.                         *)
Shrinks ==
  [][SeekStep => \/ at' = at /\ high' - low' < high - low
                 \/ at = "halving" /\ at' = "scanning"
                 \/ at' \in {"found", "absent"}]_seekVars
=============================================================================

----------------------------- MODULE SeekProofs -----------------------------
(***************************************************************************)
(* The binary search of a dictionary is right for every file, range and    *)
(* comparison that puts the lines in an order, whatever their lengths.     *)
(***************************************************************************)
EXTENDS Seek, WellFoundedInduction, TLAPS

(* Where the search is, and what is left. *)
SeekInv ==
  /\ SeekTypeOK
  /\ Kept
  /\ at = "found" => low < high /\ Equal(search, low)
  /\ at = "absent" => low >= high

(* Numbers that are not below 0 have a least one.                          *)
LEMMA LeastExists ==
  ASSUME NEW S \in SUBSET Nat, S # {}
  PROVE  \E n \in S : \A m \in S : n <= m
<1>. DEFINE R == {ss \in Nat \X Nat : ss[1] < ss[2]}
<1>1. IsWellFoundedOn(R, Nat)
  BY NatLessThanWellFounded DEF OpToRel
<1>2. \A m, n \in Nat : m < n => <<m, n>> \in R
  OBVIOUS
<1>. HIDE DEF R
<1>3. PICK n \in S : \A m \in S : ~(<<m, n>> \in R)
  BY <1>1, WFMin
<1>4. \A m \in S : ~(m < n)
  BY <1>2, <1>3
<1>. QED
  BY <1>4

(* A search, and a position in it. *)
LEMMA SearchFacts ==
  ASSUME NEW s \in Searches
  PROVE  /\ Len(s.file) \in Nat /\ s.from \in Nat /\ s.to \in Nat
         /\ s.to <= Len(s.file)
         /\ Ordered(s) /\ Stops(s)
<1>1. s.file \in Seq(Nat)
  BY SeekAssumption
<1>2. Len(s.file) \in Nat
  BY <1>1
<1>. QED
  BY <1>2, SeekAssumption

(* f_skip stops behind the next end of a line, or at the end of the file.  *)
LEMMA SkipFacts ==
  ASSUME NEW s \in Searches, NEW p \in Nat
  PROVE  \/ /\ Skip(s, p) = Len(s.file)
            /\ \A q \in p + 1..Len(s.file) : s.file[q] # NewLine
         \/ /\ Skip(s, p) \in p + 1..Len(s.file)
            /\ s.file[Skip(s, p)] = NewLine
            /\ \A r \in p + 1..Skip(s, p) - 1 : s.file[r] # NewLine
<1>. DEFINE N == {q \in p + 1..Len(s.file) : s.file[q] = NewLine}
<1>0. Len(s.file) \in Nat
  BY SearchFacts
<1>1. CASE N = {}
  <2>1. ~\E q \in p + 1..Len(s.file) : Ends(s, p, q)
    BY <1>1 DEF Ends
  <2>. QED
    BY <1>1, <2>1 DEF Skip
<1>2. CASE N # {}
  <2>1. N \in SUBSET Nat
    BY <1>0
  <2>2. PICK n \in N : \A m \in N : n <= m
    BY <1>2, <2>1, LeastExists
  <2>3. Ends(s, p, n)
    BY <1>0, <2>2 DEF Ends
  <2>4. Skip(s, p) \in p + 1..Len(s.file) /\ Ends(s, p, Skip(s, p))
    BY <2>3 DEF Skip, Ends
  <2>. QED
    BY <2>4 DEF Ends
<1>. QED
  BY <1>1, <1>2

(* The same, without the cases.                                            *)
LEMMA SkipLeaps ==
  ASSUME NEW s \in Searches, NEW p \in Nat
  PROVE  /\ Skip(s, p) \in Nat
         /\ p < Len(s.file) => p < Skip(s, p)
         /\ Skip(s, p) < Len(s.file) => s.file[Skip(s, p)] = NewLine
         /\ \A r \in p + 1..Skip(s, p) - 1 : s.file[r] # NewLine
<1>0. Len(s.file) \in Nat
  BY SearchFacts
<1>. QED
  BY <1>0, SkipFacts

(* From within a line, the same line is next. *)
LEMMA SkipWithin ==
  ASSUME NEW s \in Searches, NEW p \in Nat, NEW q \in Nat, p <= q, q < Skip(s, p)
  PROVE  Skip(s, q) = Skip(s, p)
<1>0. Len(s.file) \in Nat
  BY SearchFacts
<1>1. CASE \A r \in p + 1..Len(s.file) : s.file[r] # NewLine
  <2>1. \A r \in q + 1..Len(s.file) : s.file[r] # NewLine
    BY <1>0, <1>1
  <2>2. Skip(s, p) = Len(s.file)
    BY <1>0, <1>1, SkipFacts
  <2>3. Skip(s, q) = Len(s.file)
    BY <1>0, <2>1, SkipFacts
  <2>. QED
    BY <2>2, <2>3
<1>2. CASE ~\A r \in p + 1..Len(s.file) : s.file[r] # NewLine
  <2>. DEFINE a == Skip(s, p)
              b == Skip(s, q)
  <2>1. /\ a \in p + 1..Len(s.file) /\ s.file[a] = NewLine
        /\ \A r \in p + 1..a - 1 : s.file[r] # NewLine
    BY <1>2, SkipFacts
  <2>2. a \in q + 1..Len(s.file)
    BY <1>0, <2>1
  <2>3. /\ b \in q + 1..Len(s.file) /\ s.file[b] = NewLine
        /\ \A r \in q + 1..b - 1 : s.file[r] # NewLine
    BY <2>1, <2>2, SkipFacts
  <2>4. b \in p + 1..Len(s.file)
    BY <1>0, <2>3
  <2>5. ~(b < a)
    BY <1>0, <2>1, <2>3, <2>4
  <2>6. ~(a < b)
    BY <1>0, <2>1, <2>2, <2>3
  <2>. QED
    BY <1>0, <2>1, <2>3, <2>5, <2>6
<1>. QED
  BY <1>1, <1>2

(* Where a line ends another begins, unless the range does. *)
LEMMA SkipIsLine ==
  ASSUME NEW s \in Searches, NEW p \in Nat, s.from <= p, Skip(s, p) < s.to
  PROVE  Skip(s, p) \in Lines(s)
<1>1. /\ Len(s.file) \in Nat /\ s.from \in Nat /\ s.to \in Nat /\ s.to <= Len(s.file)
  BY SearchFacts
<1>. DEFINE i == Skip(s, p)
<1>2. i \in Nat /\ (p < Len(s.file) => p < i) /\ (i < Len(s.file) => s.file[i] = NewLine)
  BY SkipLeaps
<1>3. i < Len(s.file) /\ s.file[i] = NewLine
  BY <1>1, <1>2
<1>4. p < i
  <2>1. CASE p < Len(s.file)
    BY <1>2, <2>1
  <2>2. CASE ~(p < Len(s.file))
    <3>1. i = Len(s.file)
      BY <1>1, <2>2, SkipFacts
    <3>. QED
      BY <1>1, <1>3, <3>1
  <2>. QED
    BY <2>1, <2>2
<1>5. i \in s.from..s.to - 1 /\ i \in 1..Len(s.file)
  BY <1>1, <1>2, <1>3, <1>4
<1>. QED
  BY <1>3, <1>5 DEF Lines

-----------------------------------------------------------------------------
(* A step of the halving. *)
LEMMA HalveKeeps ==
  ASSUME SeekInv, Halve
  PROVE  SeekInv'
<1>1. /\ search \in Searches /\ search' = search
      /\ low \in Nat /\ high \in Nat /\ low < high /\ at = "halving"
  BY DEF SeekInv, SeekTypeOK, Halve
<1>. DEFINE s == search
            mid == (low + high) \div 2
            i == Skip(search, (low + high) \div 2)
<1>2. mid \in Nat /\ low <= mid /\ mid < high
  BY <1>1
<1>3. /\ Len(s.file) \in Nat /\ s.from \in Nat /\ s.to \in Nat /\ s.to <= Len(s.file)
      /\ Ordered(s)
  BY <1>1, SearchFacts
<1>4. /\ low \in Lines(s) /\ high <= s.to
      /\ \A p \in Lines(s) : Equal(s, p) => low <= p /\ p < high
  BY <1>1 DEF SeekInv, Kept
<1>5. s.from <= low
  BY <1>1, <1>3, <1>4 DEF Lines
<1>6. i \in Nat /\ mid < i
  <2>1. mid < Len(s.file)
    BY <1>1, <1>2, <1>3, <1>4
  <2>. QED
    BY <1>1, <1>2, <2>1, SkipLeaps
<1>7. i < high => i \in Lines(s)
  <2>1. s.from <= mid
    BY <1>1, <1>2, <1>3, <1>5
  <2>2. i < high => i < s.to
    BY <1>1, <1>3, <1>4, <1>6
  <2>. QED
    BY <1>1, <1>2, <2>1, <2>2, SkipIsLine
<1>8. CASE i >= high /\ at' = "scanning" /\ UNCHANGED <<low, high>>
  BY <1>1, <1>8 DEF SeekInv, SeekTypeOK, Kept
<1>9. CASE i < high /\ Greater(search, i) /\ high' = i /\ UNCHANGED <<low, at>>
  <2>1. \A p \in Lines(s) : Equal(s, p) => p < i
    BY <1>3, <1>7, <1>9 DEF Ordered
  <2>. QED
    BY <1>1, <1>3, <1>4, <1>6, <1>9, <2>1 DEF SeekInv, SeekTypeOK, Kept
<1>10. CASE i < high /\ ~Greater(search, i) /\ low' = i /\ UNCHANGED <<high, at>>
  <2>1. \A p \in Lines(s) : p \in Nat
    BY <1>3 DEF Lines
  <2>2. \A p \in Lines(s) : Equal(s, p) => i = p \/ ~(p < i)
    BY <1>3, <1>7, <1>10 DEF Ordered
  <2>3. \A p \in Lines(s) : Equal(s, p) => i <= p
    BY <1>6, <2>1, <2>2
  <2>. QED
    BY <1>1, <1>4, <1>6, <1>7, <1>10, <2>3 DEF SeekInv, SeekTypeOK, Kept
<1>. QED
  BY <1>8, <1>9, <1>10 DEF Halve

(* A line that is not the one is passed, however much of it was read. *)
LEMMA ScanKeeps ==
  ASSUME SeekInv, Scan
  PROVE  SeekInv'
<1>1. /\ search \in Searches /\ search' = search /\ high' = high
      /\ low \in Nat /\ high \in Nat /\ low < high /\ at = "scanning"
  BY DEF SeekInv, SeekTypeOK, Scan
<1>. DEFINE s == search
            i == Skip(search, low)
<1>2. /\ Len(s.file) \in Nat /\ s.from \in Nat /\ s.to \in Nat /\ s.to <= Len(s.file)
      /\ Stops(s)
  BY <1>1, SearchFacts
<1>3. /\ low \in Lines(s) /\ high <= s.to
      /\ \A p \in Lines(s) : Equal(s, p) => low <= p /\ p < high
  BY <1>1 DEF SeekInv, Kept
<1>4. CASE Equal(search, low) /\ at' = "found" /\ UNCHANGED low
  BY <1>1, <1>4 DEF SeekInv, SeekTypeOK, Kept
<1>5. CASE /\ ~Equal(search, low)
           /\ low' = Skip(search, Stop(search, low)) /\ UNCHANGED at
  <2>1. Stop(s, low) \in Nat /\ low <= Stop(s, low) /\ Stop(s, low) < Skip(s, low)
    BY <1>2, <1>3 DEF Stops
  <2>2. low' = i
    BY <1>1, <1>5, <2>1, SkipWithin
  <2>3. /\ i \in Nat /\ \A r \in low + 1..i - 1 : s.file[r] # NewLine
    BY <1>1, SkipLeaps
  <2>4. s.from <= low
    BY <1>1, <1>2, <1>3 DEF Lines
  <2>5. i \in Lines(s) \/ i >= high
    <3>1. i < high => i < s.to
      BY <1>1, <1>2, <1>3, <2>3
    <3>. QED
      BY <1>1, <2>3, <2>4, <3>1, SkipIsLine
  <2>6. \A p \in Lines(s) : Equal(s, p) => i <= p /\ p < high
    <3>. SUFFICES ASSUME NEW p \in Lines(s), Equal(s, p) PROVE i <= p /\ p < high
      OBVIOUS
    <3>1. p \in Nat /\ low <= p /\ p < high /\ p # low
      BY <1>2, <1>3, <1>5 DEF Lines
    <3>2. s.file[p] = NewLine
      BY <1>1, <1>2, <2>4, <3>1 DEF Lines
    <3>3. p \notin low + 1..i - 1
      BY <2>3, <3>2
    <3>. QED
      BY <1>1, <2>3, <3>1, <3>3
  <2>. QED
    BY <1>1, <1>3, <1>5, <2>2, <2>3, <2>5, <2>6 DEF SeekInv, SeekTypeOK, Kept
<1>. QED
  BY <1>4, <1>5 DEF Scan

(* The search ends when nothing is left.                                   *)
LEMMA GiveUpKeeps ==
  ASSUME SeekInv, GiveUp
  PROVE  SeekInv'
BY DEF SeekInv, SeekTypeOK, Kept, GiveUp

(* All of the range is left when a search starts. *)
LEMMA WholeIsKept ==
  ASSUME NEW s \in Searches
  PROVE  /\ s.from \in Nat /\ s.to \in Nat
         /\ s.from \in Lines(s) \/ s.from >= s.to
         /\ \A p \in Lines(s) : s.from <= p /\ p < s.to
<1>1. s.from \in Nat /\ s.to \in Nat
  BY SearchFacts
<1>. QED
  BY <1>1 DEF Lines

(* A search starts with all of its range.                                  *)
LEMMA StartKeeps ==
  ASSUME NEW s \in Searches, Start(s)
  PROVE  SeekInv'
<1>1. search' = s /\ low' = s.from /\ high' = s.to /\ at' = "halving"
  BY DEF Start
<1>. QED
  BY <1>1, WholeIsKept DEF SeekInv, SeekTypeOK, Kept

-----------------------------------------------------------------------------
(* What is left of the range decides what is found.                        *)
LEMMA SeekInvImplies ==
  ASSUME SeekInv
  PROVE  Finds
<1>1. search \in Searches /\ low \in Nat /\ high \in Nat
  BY DEF SeekInv, SeekTypeOK
<1>2. \A p \in Lines(search) : p \in Int
  <2>1. search.from \in Nat /\ search.to \in Nat
    BY <1>1, SearchFacts
  <2>. QED
    BY <2>1 DEF Lines
<1>3. at = "found" => low \in Lines(search) /\ Equal(search, low)
  BY <1>1 DEF SeekInv, Kept
<1>4. at = "absent" => \A p \in Lines(search) : ~Equal(search, p)
  BY <1>1, <1>2 DEF SeekInv, Kept
<1>. QED
  BY <1>3, <1>4 DEF Finds

(* What is left of the range has the line that is sought.                  *)
LEMMA SeekInvariant == SeekSpec => []SeekInv
<1>1. SeekInit => SeekInv
  BY WholeIsKept DEF SeekInit, SeekInv, SeekTypeOK, Kept
<1>2. SeekInv /\ [SeekNext]_seekVars => SeekInv'
  <2>. SUFFICES ASSUME SeekInv, [SeekNext]_seekVars
                PROVE  SeekInv'
    OBVIOUS
  <2>1. CASE UNCHANGED seekVars
    BY <2>1 DEF seekVars, SeekInv, SeekTypeOK, Kept
  <2>2. CASE Halve
    BY <2>2, HalveKeeps
  <2>3. CASE Scan
    BY <2>3, ScanKeeps
  <2>4. CASE GiveUp
    BY <2>4, GiveUpKeeps
  <2>5. CASE \E s \in Searches : Start(s)
    BY <2>5, StartKeeps
  <2>. QED
    BY <2>1, <2>2, <2>3, <2>4, <2>5 DEF SeekNext, SeekStep
<1>. QED
  BY <1>1, <1>2, PTL DEF SeekSpec

(* t_file::f_seek of basic_dictionary.cc: a search that ends has found the *)
(* line if there is one, and there is none if it fails, for every file     *)
(* whose lines are in the order of the comparison.                         *)
THEOREM SeekCorrect == SeekSpec => []Finds
<1>1. SeekInv => Finds
  BY SeekInvImplies
<1>. QED
  BY <1>1, SeekInvariant, PTL

-----------------------------------------------------------------------------
(* Going on means going on with less. *)
LEMMA HalveShrinks ==
  ASSUME SeekInv, Halve
  PROVE  \/ at' = at /\ high' - low' < high - low
         \/ at = "halving" /\ at' = "scanning"
<1>1. /\ search \in Searches
      /\ low \in Nat /\ high \in Nat /\ low < high /\ high <= search.to
  BY DEF SeekInv, SeekTypeOK, Kept, Halve
<1>2. Len(search.file) \in Nat /\ search.to \in Nat /\ search.to <= Len(search.file)
  BY <1>1, SearchFacts
<1>. DEFINE mid == (low + high) \div 2
            i == Skip(search, mid)
<1>3. mid \in Nat /\ low <= mid /\ mid < high
  BY <1>1
<1>4. mid < Len(search.file)
  BY <1>1, <1>2, <1>3
<1>5. i \in Nat /\ mid < i
  BY <1>1, <1>3, <1>4, SkipLeaps
<1>6. \/ at = "halving" /\ at' = "scanning"
      \/ i < high /\ high' = i /\ UNCHANGED <<low, at>>
      \/ i < high /\ low' = i /\ UNCHANGED <<high, at>>
  BY DEF Halve
<1>. QED
  BY <1>1, <1>3, <1>5, <1>6

(* A line that is passed is no longer left.                                *)
LEMMA ScanShrinks ==
  ASSUME SeekInv, Scan
  PROVE  \/ at' = at /\ high' - low' < high - low
         \/ at' \in {"found", "absent"}
<1>1. /\ search \in Searches
      /\ low \in Nat /\ high \in Nat /\ low < high /\ high <= search.to
      /\ low \in Lines(search)
  BY DEF SeekInv, SeekTypeOK, Kept, Scan
<1>2. /\ Len(search.file) \in Nat /\ search.to \in Nat /\ search.to <= Len(search.file)
      /\ Stops(search)
  BY <1>1, SearchFacts
<1>3. Stop(search, low) \in Nat /\ low <= Stop(search, low)
      /\ Stop(search, low) < Skip(search, low)
  BY <1>1, <1>2 DEF Stops
<1>4. Skip(search, Stop(search, low)) = Skip(search, low)
  BY <1>1, <1>3, SkipWithin
<1>5. low < Len(search.file)
  BY <1>1, <1>2
<1>6. Skip(search, low) \in Nat /\ low < Skip(search, low)
  BY <1>1, <1>5, SkipLeaps
<1>7. /\ high' = high
      /\ at' = "found" \/ (low' = Skip(search, Stop(search, low)) /\ at' = at)
  BY DEF Scan
<1>. QED
  BY <1>1, <1>4, <1>6, <1>7

(* The loops of t_file::f_seek end, wherever the middle of what is left    *)
(* falls: neither is ever left with as much to search as before.           *)
THEOREM SeekEnds == SeekSpec => Shrinks
<1>1. SeekInv /\ [SeekNext]_seekVars =>
        [SeekStep => \/ at' = at /\ high' - low' < high - low
                     \/ at = "halving" /\ at' = "scanning"
                     \/ at' \in {"found", "absent"}]_seekVars
  <2>. SUFFICES ASSUME SeekInv, SeekStep
                PROVE  \/ at' = at /\ high' - low' < high - low
                       \/ at = "halving" /\ at' = "scanning"
                       \/ at' \in {"found", "absent"}
    OBVIOUS
  <2>1. CASE Halve
    BY <2>1, HalveShrinks
  <2>2. CASE Scan
    BY <2>2, ScanShrinks
  <2>3. CASE GiveUp
    BY <2>3 DEF GiveUp
  <2>. QED
    BY <2>1, <2>2, <2>3 DEF SeekStep
<1>2. SeekSpec => []SeekInv
  BY SeekInvariant
<1>. QED
  BY <1>1, <1>2, PTL DEF SeekSpec, Shrinks
=============================================================================

------------------------ MODULE AccessLogCollectorProofs ------------------------
(***************************************************************************)
(* The access log, for any number of tasks, lines, restarts of the kernel  *)
(* and clearings, and for any limits: what has been counted is not counted *)
(* again, the offset passes no line unread, the table stays within its     *)
(* limit, and what the console shows fits together.                        *)
(***************************************************************************)
EXTENDS AccessLogCollector, SequenceTheorems, FiniteSetTheorems, TLAPS
-----------------------------------------------------------------------------
(* Finite sets and the rows that are inserted.                             *)

LEMMA RangeIsFinite ==
  ASSUME NEW S, NEW seq \in Seq(S)
  PROVE  IsFiniteSet(Range(seq)) /\ Range(seq) \subseteq S
<1>1. Len(seq) \in Nat /\ DOMAIN seq = 1..Len(seq) /\ \A i \in DOMAIN seq : seq[i] \in S
  BY LenProperties, ElementOfSeq
<1>2. IsFiniteSet(1..Len(seq))
  BY <1>1, FS_Interval
<1>3. [i \in 1..Len(seq) |-> seq[i]] \in Surjection(1..Len(seq), Range(seq))
  BY <1>1 DEF Surjection, Range
<1> QED
  BY <1>1, <1>2, <1>3, FS_Surjection DEF Range

LEMMA TableTyped ==
  ASSUME TypeOK, IsFiniteSet(rows)
  PROVE  Table \subseteq Rows /\ Table \subseteq rows /\ IsFiniteSet(Table)
<1>1. Table \subseteq rows
  BY DEF Table, PruneOwnDns
<1> QED
  BY <1>1, FS_Subset DEF TypeOK

LEMMA FreshTyped ==
  ASSUME NEW lines \in Seq(Lines), NEW source
  PROVE  /\ Fresh(lines, source) \subseteq Lines /\ IsFiniteSet(Fresh(lines, source))
         /\ Fresh(lines, source) \subseteq Range(lines)
         /\ \A l \in Fresh(lines, source) : l.key \in Keys
<1>1. Fresh(lines, source) \subseteq Range(lines) /\ \A l \in Fresh(lines, source) : l.key \in Keys
  BY DEF Fresh, IsEvent
<1> QED
  BY <1>1, RangeIsFinite, FS_Subset

LEMMA RaisedTyped ==
  ASSUME NEW count \in Nat, NEW by \in Nat
  PROVE  Raised(count, by) \in Nat
  BY BoundsAssumption DEF Raised

\* A finite set of numbers that is not empty has a greatest one: a smallest part without
\* one would have one but for any of its elements.
LEMMA Greatest ==
  ASSUME NEW S \in SUBSET Nat, IsFiniteSet(S), S # {}
  PROVE  \E m \in S : \A n \in S : n <= m
<1> DEFINE Bad == {T \in SUBSET S : T # {} /\ ~\E m \in T : \A n \in T : n <= m}
<1> SUFFICES ASSUME S \in Bad PROVE FALSE
  OBVIOUS
<1>1. Bad \subseteq FiniteSubsetsOf(S)
  BY FS_FiniteSubsetsOfFinite
<1>2. PICK T \in Bad : \A U \in Bad : ~(<<U, T>> \in StrictSubsetOrdering(S))
  <2> HIDE DEF Bad
  <2> QED
    BY <1>1, FS_StrictSubsetOrderingWellFounded, WFMin
<1>3. PICK x \in T : TRUE
  OBVIOUS
<1>4. \E y \in T : y # x
  <2> SUFFICES ASSUME \A y \in T : y = x PROVE FALSE
    OBVIOUS
  <2> QED
    BY <1>3
<1>5. (T \ {x}) \notin Bad
  <2>1. <<T \ {x}, T>> \in StrictSubsetOrdering(S)
    BY <1>3 DEF StrictSubsetOrdering
  <2> QED
    BY <1>2, <2>1
<1>6. PICK m \in T \ {x} : \A n \in T \ {x} : n <= m
  BY <1>4, <1>5
<1>7. m \in Nat /\ x \in Nat /\ T \subseteq Nat
  BY <1>3
<1>8. \A n \in T : n <= IF m <= x THEN x ELSE m
  <2> SUFFICES ASSUME NEW n \in T PROVE n <= IF m <= x THEN x ELSE m
    OBVIOUS
  <2> CASE n = x
    BY <1>7
  <2> CASE n # x
    <3>1. n <= m /\ n \in Nat
      BY <1>6, <1>7
    <3> QED
      BY <3>1, <1>7
  <2> QED
    OBVIOUS
<1> QED
  BY <1>3, <1>6, <1>8

LEMMA HighestId ==
  ASSUME NEW rs \in SUBSET Rows, IsFiniteSet(rs), rs # {}
  PROVE  Max({r.id : r \in rs}) \in Nat /\ \A r \in rs : r.id <= Max({s.id : s \in rs})
<1> DEFINE ids == {r.id : r \in rs}
<1>1. ids \in SUBSET Nat /\ ids # {}
  BY DEF Rows
<1>2. IsFiniteSet(ids)
  <2>1. [r \in rs |-> r.id] \in Surjection(rs, ids)
    BY DEF Surjection
  <2> HIDE DEF ids
  <2> QED
    BY <2>1, FS_Surjection
<1>3. Max(ids) \in ids /\ \A n \in ids : n <= Max(ids)
  <2> HIDE DEF ids
  <2>1. PICK m \in ids : \A n \in ids : m >= n
    BY <1>1, <1>2, Greatest
  <2> QED
    BY <2>1 DEF Max
<1> QED
  BY <1>1, <1>3

LEMMA LastIdTyped ==
  ASSUME TypeOK, IsFiniteSet(rows)
  PROVE  LastId \in Nat /\ \A r \in Table : r.id <= LastId
<1>1. Table \subseteq Rows /\ IsFiniteSet(Table)
  BY TableTyped
<1>2. CASE Table = {}
  BY <1>2 DEF LastId
<1>3. CASE Table # {}
  BY <1>1, <1>3, HighestId DEF LastId
<1> QED
  BY <1>2, <1>3

\* The first lines of some.
LEMMA FirstOf ==
  ASSUME NEW lines \in Seq(Lines), NEW n \in 0..Len(lines)
  PROVE  /\ SubSeq(lines, 1, n) \in Seq(Lines)
         /\ DOMAIN SubSeq(lines, 1, n) \subseteq DOMAIN lines
         /\ \A k \in DOMAIN SubSeq(lines, 1, n) : SubSeq(lines, 1, n)[k] = lines[k]
<1>1. Len(lines) \in Nat /\ DOMAIN lines = 1..Len(lines)
  BY LenProperties
<1>2. n \in Int /\ 1 \in Int /\ \A i \in 1..n : lines[i] \in Lines /\ i \in DOMAIN lines
  <2>1. \A i \in 1..n : i \in 1..Len(lines)
    BY <1>1
  <2> QED
    BY <1>1, <2>1, ElementOfSeq
<1> DEFINE part == SubSeq(lines, 1, n)
<1>3. /\ part \in Seq(Lines)
      /\ Len(part) = IF 1 <= n THEN n - 1 + 1 ELSE 0
      /\ \A i \in 1 .. n - 1 + 1 : part[i] = lines[1 + i - 1]
  BY <1>2, SubSeqProperties
<1>4. n \in Nat /\ Len(part) = n
  BY <1>1, <1>3
<1>5. DOMAIN part = 1..n
  BY <1>3, <1>4, LenProperties
<1> HIDE DEF part
<1>6. \A k \in 1..n : k \in 1 .. n - 1 + 1 /\ lines[1 + k - 1] = lines[k]
  BY <1>4
<1>7. \A k \in DOMAIN part : part[k] = lines[k] /\ k \in DOMAIN lines
  BY <1>2, <1>3, <1>5, <1>6
<1> USE DEF part
<1> QED
  BY <1>3, <1>7

LEMMA TimeTyped ==
  ASSUME TypeOK, NEW line \in Lines, NEW source
  PROVE  TimeOf(line, source) \in 0..MaxClock
  BY DEF TypeOK, TimeOf, Lines

LEMMA InsertLinesTyped ==
  ASSUME TypeOK, IsFiniteSet(rows), NEW lines \in Seq(Lines), NEW source \in {"file", "stream"}
  PROVE  InsertLines(lines, source) \subseteq Rows /\ IsFiniteSet(InsertLines(lines, source))
<1> DEFINE fresh == Fresh(lines, source)
           unlike == {line \in fresh : Recent(line, source) = {}}
           like(line) == {other \in unlike : /\ other.key = line.key
                                             /\ TimeOf(other, source) = TimeOf(line, source)}
           first == {line \in unlike : \A other \in like(line) : line.n <= other.n}
           counts(r) == {l \in fresh : r \in Recent(l, source)}
           raised(r) == [r EXCEPT !.count = Raised(@, Cardinality(counts(r)))]
           row(line) == [id |-> LastId + line.n, hash |-> <<source, line.n>>, key |-> line.key,
                         at |-> TimeOf(line, source),
                         count |-> Raised(0, Cardinality(like(line)))]
           old == {raised(r) : r \in Table}
           new == {row(line) : line \in first}
<1>1. InsertLines(lines, source) = old \cup new
  BY DEF InsertLines
<1>2. fresh \subseteq Lines /\ IsFiniteSet(fresh) /\ \A l \in fresh : l.key \in Keys
  BY FreshTyped
<1>3. Table \subseteq Rows /\ IsFiniteSet(Table)
  BY TableTyped
<1>4. \A r : Cardinality(counts(r)) \in Nat
  <2> TAKE r
  <2>1. counts(r) \subseteq fresh
    OBVIOUS
  <2> QED
    BY <1>2, <2>1, FS_Subset, FS_CardinalityType
<1>5. \A line : Cardinality(like(line)) \in Nat
  <2> TAKE line
  <2>1. like(line) \subseteq fresh
    OBVIOUS
  <2> QED
    BY <1>2, <2>1, FS_Subset, FS_CardinalityType
<1>6. first \subseteq fresh /\ IsFiniteSet(first)
  <2>1. first \subseteq fresh
    OBVIOUS
  <2> QED
    BY <1>2, <2>1, FS_Subset
<1>7. old \subseteq Rows
  <2> SUFFICES ASSUME NEW r \in Table PROVE raised(r) \in Rows
    OBVIOUS
  <2>1. r \in Rows /\ r.count \in Nat
    BY <1>3 DEF Rows
  <2>2. Raised(r.count, Cardinality(counts(r))) \in Nat
    BY <1>4, <2>1, RaisedTyped
  <2> HIDE DEF counts
  <2> QED
    BY <2>1, <2>2 DEF Rows
<1>8. new \subseteq Rows
  <2> SUFFICES ASSUME NEW line \in first PROVE row(line) \in Rows
    OBVIOUS
  <2>1. line \in Lines /\ line.key \in Keys
    BY <1>2, <1>6
  <2>2. Raised(0, Cardinality(like(line))) \in Nat
    BY <1>5, RaisedTyped
  <2>3. TimeOf(line, source) \in 0..MaxClock
    BY <2>1, TimeTyped
  <2>4. LastId + line.n \in Nat /\ line.n \in 1..MaxLines
    BY <2>1, LastIdTyped DEF Lines
  <2>5. <<source, line.n>> \in Hashes /\ line.key \in RowKeys
    BY <2>1, <2>4 DEF Hashes, LineHashes, RowKeys
  <2> HIDE DEF like
  <2> QED
    BY <2>2, <2>3, <2>4, <2>5 DEF Rows
<1>9. IsFiniteSet(old)
  <2>1. [r \in Table |-> raised(r)] \in Surjection(Table, old)
    <3> HIDE DEF raised
    <3> QED
      BY DEF Surjection
  <2> HIDE DEF old
  <2> QED
    BY <1>3, <2>1, FS_Surjection
<1>10. IsFiniteSet(new)
  <2>1. [line \in first |-> row(line)] \in Surjection(first, new)
    <3> HIDE DEF row, first
    <3> QED
      BY DEF Surjection
  <2> HIDE DEF new, first
  <2> QED
    BY <1>6, <2>1, FS_Surjection
<1>11. IsFiniteSet(old \cup new)
  BY <1>9, <1>10, FS_Union
<1> QED
  BY <1>1, <1>7, <1>8, <1>11

\* Rows keep their ids, and each new one gets an id of its own.
LEMMA InsertLinesHolds ==
  ASSUME TypeOK, IsFiniteSet(rows), NEW lines \in Seq(Lines), NEW source \in {"file", "stream"},
         \A r \in rows : r.at <= clock,
         \A r, s \in rows : r.id = s.id => r = s,
         \A k \in DOMAIN lines : lines[k].at <= clock,
         \A i, k \in DOMAIN lines : i < k => lines[i].n < lines[k].n
  PROVE  /\ \A r \in InsertLines(lines, source) : r.at <= clock
         /\ \A r, s \in InsertLines(lines, source) : r.id = s.id => r = s
<1> DEFINE fresh == Fresh(lines, source)
           unlike == {line \in fresh : Recent(line, source) = {}}
           like(line) == {other \in unlike : /\ other.key = line.key
                                             /\ TimeOf(other, source) = TimeOf(line, source)}
           first == {line \in unlike : \A other \in like(line) : line.n <= other.n}
           counts(r) == {l \in fresh : r \in Recent(l, source)}
           raised(r) == [r EXCEPT !.count = Raised(@, Cardinality(counts(r)))]
           row(line) == [id |-> LastId + line.n, hash |-> <<source, line.n>>, key |-> line.key,
                         at |-> TimeOf(line, source),
                         count |-> Raised(0, Cardinality(like(line)))]
           old == {raised(r) : r \in Table}
           new == {row(line) : line \in first}
<1>1. InsertLines(lines, source) = old \cup new
  BY DEF InsertLines
<1>2. first \subseteq Range(lines) /\ Range(lines) \subseteq Lines
  <2>1. first \subseteq fresh
    OBVIOUS
  <2> QED
    BY <2>1, FreshTyped, RangeIsFinite
<1>3. Table \subseteq Rows /\ Table \subseteq rows
  BY TableTyped
<1>4. LastId \in Nat /\ \A r \in Table : r.id <= LastId
  BY LastIdTyped
<1>5. DOMAIN lines = 1..Len(lines) /\ Len(lines) \in Nat
  BY LenProperties
<1>6. \A l, m \in Range(lines) : l.n = m.n => l = m
  <2> SUFFICES ASSUME NEW i \in DOMAIN lines, NEW k \in DOMAIN lines, lines[i].n = lines[k].n
               PROVE  lines[i] = lines[k]
    BY DEF Range
  <2>1. lines[i].n \in Nat /\ lines[k].n \in Nat
    <3>1. lines[i] \in Lines /\ lines[k] \in Lines
      BY <1>5, ElementOfSeq
    <3> QED
      BY <3>1 DEF Lines
  <2>2. ~(i < k) /\ ~(k < i)
    BY <2>1
  <2>3. i \in Nat /\ k \in Nat
    BY <1>5
  <2> QED
    BY <2>2, <2>3
<1>7. \A r \in Table : raised(r).id = r.id /\ raised(r).at = r.at
  BY <1>3 DEF Rows
<1>8. \A line \in first : line.n \in Nat \ {0} /\ row(line).id = LastId + line.n
  BY <1>2 DEF Lines
<1>9. \A r \in InsertLines(lines, source) : r.at <= clock
  <2>1. \A r \in old : r.at <= clock
    <3> SUFFICES ASSUME NEW r \in Table PROVE raised(r).at <= clock
      OBVIOUS
    <3> QED
      BY <1>3, <1>7
  <2>2. \A r \in new : r.at <= clock
    <3> SUFFICES ASSUME NEW line \in first PROVE row(line).at <= clock
      OBVIOUS
    <3>1. PICK k \in DOMAIN lines : line = lines[k]
      BY <1>2 DEF Range
    <3>2. TimeOf(line, source) <= clock
      BY <3>1 DEF TimeOf, TypeOK
    <3> QED
      BY <3>2
  <2> QED
    BY <1>1, <2>1, <2>2
<1>10. \A r, s \in InsertLines(lines, source) : r.id = s.id => r = s
  <2>1. \A r, s \in old : r.id = s.id => r = s
    <3> SUFFICES ASSUME NEW r \in Table, NEW s \in Table, raised(r).id = raised(s).id
                 PROVE  raised(r) = raised(s)
      <4> HIDE DEF raised
      <4> QED
        OBVIOUS
    <3>1. r = s
      BY <1>3, <1>7
    <3> QED
      BY <3>1
  <2>2. \A r, s \in new : r.id = s.id => r = s
    <3> SUFFICES ASSUME NEW l \in first, NEW m \in first, row(l).id = row(m).id
                 PROVE  row(l) = row(m)
      <4> HIDE DEF row
      <4> QED
        OBVIOUS
    <3>1. l.n = m.n
      BY <1>4, <1>8
    <3>2. l = m
      BY <1>2, <1>6, <3>1
    <3> QED
      BY <3>2
  <2>3. \A r \in old, s \in new : r.id # s.id
    <3> SUFFICES ASSUME NEW r \in Table, NEW l \in first PROVE raised(r).id # row(l).id
      OBVIOUS
    <3>1. r.id \in Nat /\ r.id <= LastId /\ raised(r).id = r.id
      BY <1>3, <1>4, <1>7 DEF Rows
    <3>2. row(l).id = LastId + l.n /\ l.n \in Nat \ {0}
      BY <1>8
    <3> HIDE DEF row, raised
    <3> QED
      BY <1>4, <3>1, <3>2
  <2> HIDE DEF old, new
  <2> QED
    BY <1>1, <2>1, <2>2, <2>3
<1> QED
  BY <1>9, <1>10

LEMMA InsertConnectionsTyped ==
  ASSUME TypeOK, IsFiniteSet(rows), NEW open \in Listings,
         \A i \in DOMAIN open : open[i].start <= clock
  PROVE  /\ InsertConnections(open) \subseteq Rows /\ IsFiniteSet(InsertConnections(open))
         /\ (\A r \in rows : r.at <= clock) => \A r \in InsertConnections(open) : r.at <= clock
         /\ (\A r, s \in rows : r.id = s.id => r = s) =>
              \A r, s \in InsertConnections(open) : r.id = s.id => r = s
<1> DEFINE listed == {n \in DOMAIN open : \A r \in Table : r.hash # <<"connection", open[n]>>}
           row(i) == [id |-> LastId + i, hash |-> <<"connection", open[i]>>, key |-> KeyOf(open[i]),
                      at |-> open[i].start, count |-> 1]
           new == {row(i) : i \in listed}
<1>1. InsertConnections(open) = Table \cup new
  BY DEF InsertConnections
<1>2. PICK n \in Nat : open \in [1..n -> Connections]
  <2>1. Cardinality(Connections) \in Nat
    BY ConnectionsAssumption, FS_CardinalityType
  <2> QED
    BY <2>1 DEF Listings
<1>3. Table \subseteq Rows /\ Table \subseteq rows /\ IsFiniteSet(Table)
  BY TableTyped
<1>4. LastId \in Nat /\ \A r \in Table : r.id <= LastId
  BY LastIdTyped
<1>5. IsFiniteSet(new)
  <2>1. listed \subseteq 1..n /\ IsFiniteSet(1..n)
    BY <1>2, FS_Interval
  <2>2. IsFiniteSet(listed)
    BY <2>1, FS_Subset
  <2>3. [i \in listed |-> row(i)] \in Surjection(listed, new)
    <3> HIDE DEF row, listed
    <3> QED
      BY DEF Surjection
  <2> HIDE DEF new, listed
  <2> QED
    BY <2>2, <2>3, FS_Surjection
<1>6. \A i \in listed : open[i] \in Connections /\ i \in 1..n
  BY <1>2
<1>7. \A i \in listed : row(i) \in Rows /\ row(i).at <= clock /\ row(i).id = LastId + i
  <2> TAKE i \in listed
  <2>1. open[i] \in Connections /\ i \in 1..n /\ i \in DOMAIN open
    BY <1>2, <1>6
  <2>2. open[i].start \in 0..MaxClock /\ open[i].start <= clock
    <3>1. open[i].start \in Nat /\ open[i].start <= clock /\ clock \in 0..MaxClock
      BY <2>1, ConnectionsAssumption DEF TypeOK
    <3>2. MaxClock \in Nat
      BY BoundsAssumption
    <3> QED
      BY <3>1, <3>2
  <2>3. <<"connection", open[i]>> \in Hashes /\ KeyOf(open[i]) \in RowKeys
    BY <2>1 DEF Hashes, RowKeys
  <2>4. LastId + i \in Nat
    BY <1>4, <2>1
  <2> QED
    BY <2>2, <2>3, <2>4 DEF Rows
<1>8. IsFiniteSet(Table \cup new)
  BY <1>3, <1>5, FS_Union
<1>9. ASSUME \A r, s \in rows : r.id = s.id => r = s
      PROVE  \A r, s \in Table \cup new : r.id = s.id => r = s
  <2>1. \A r, s \in new : r.id = s.id => r = s
    <3> SUFFICES ASSUME NEW i \in listed, NEW k \in listed, row(i).id = row(k).id
                 PROVE  row(i) = row(k)
      <4> HIDE DEF row
      <4> QED
        OBVIOUS
    <3>1. LastId + i = LastId + k
      OBVIOUS
    <3>2. i \in Nat /\ k \in Nat
      <4>1. i \in 1..n /\ k \in 1..n
        BY <1>6
      <4> QED
        BY <4>1
    <3> HIDE DEF row, listed
    <3>3. LastId \in Nat
      BY <1>4
    <3>4. i = k
      BY <3>1, <3>2, <3>3
    <3> QED
      BY <3>4
  <2>2. \A r \in Table, s \in new : r.id # s.id
    <3> SUFFICES ASSUME NEW r \in Table, NEW i \in listed PROVE r.id # row(i).id
      OBVIOUS
    <3>1. r.id \in Nat /\ r.id <= LastId /\ i \in 1..n /\ row(i).id = LastId + i
      BY <1>3, <1>4, <1>6, <1>7 DEF Rows
    <3> HIDE DEF row
    <3> QED
      BY <1>4, <3>1
  <2> HIDE DEF new
  <2> QED
    BY <1>3, <1>9, <2>1, <2>2
<1>10. \A r \in new : r \in Rows /\ r.at <= clock
  <2> SUFFICES ASSUME NEW r \in new PROVE r \in Rows /\ r.at <= clock
    OBVIOUS
  <2> HIDE DEF row, listed
  <2> QED
    BY <1>7
<1> HIDE DEF new
<1> QED
  BY <1>1, <1>3, <1>8, <1>9, <1>10

-----------------------------------------------------------------------------
(* The retention.                                                          *)

\* A set of numbers that is not empty has a least one.
LEMMA Least ==
  ASSUME NEW S \in SUBSET Nat, S # {}
  PROVE  \E m \in S : \A n \in S : m <= n
<1>1. PICK m \in S : \A n \in S : ~(<<n, m>> \in OpToRel(<, Nat))
  BY NatLessThanWellFounded, WFMin
<1>2. \A n \in S : ~(n < m)
  BY <1>1 DEF OpToRel
<1> QED
  BY <1>2

LEMMA CleanupKeeps ==
  ASSUME NEW rs, IsFiniteSet(rs)
  PROVE  CleanupRetention(rs) \subseteq rs /\ IsFiniteSet(CleanupRetention(rs))
<1>1. CleanupRetention(rs) \subseteq rs
  BY DEF CleanupRetention, PruneOwnDns
<1> QED
  BY <1>1, FS_Subset

\* Of rows that are not alike in time and id, one is the oldest.
LEMMA OldestExists ==
  ASSUME NEW rs \in SUBSET Rows, rs # {}, \A r, s \in rs : r.id = s.id => r = s
  PROVE  \E o \in rs : \A r \in rs : r # o => Newer(r, o)
<1>0. MaxClock \in Nat
  BY BoundsAssumption
<1>1. \A r \in rs : r.at \in Nat /\ r.id \in Nat
  BY <1>0 DEF Rows
<1>2. PICK a \in rs : \A r \in rs : a.at <= r.at
  <2> DEFINE times == {r.at : r \in rs}
  <2>1. PICK m \in times : \A n \in times : m <= n
    <3>1. times \in SUBSET Nat /\ times # {}
      BY <1>1
    <3> HIDE DEF times
    <3> QED
      BY <3>1, Least
  <2> QED
    BY <2>1
<1> DEFINE A == {r \in rs : r.at = a.at}
<1>3. PICK o \in A : \A r \in A : o.id <= r.id
  <2> DEFINE ids == {r.id : r \in A}
  <2>1. PICK m \in ids : \A n \in ids : m <= n
    <3>1. ids \in SUBSET Nat /\ ids # {}
      BY <1>1, <1>2
    <3> HIDE DEF ids
    <3> QED
      BY <3>1, Least
  <2> QED
    BY <2>1
<1>4. SUFFICES ASSUME NEW r \in rs, r # o PROVE Newer(r, o)
  BY <1>3
<1>5. r.at \in Nat /\ r.id \in Nat /\ o \in rs /\ o.at = a.at /\ o.id \in Nat /\ o.at \in Nat
  BY <1>1, <1>3
<1>6. r.id # o.id /\ o.at <= r.at
  BY <1>2, <1>4, <1>5
<1>7. r.at = o.at => o.id <= r.id
  BY <1>3, <1>5
<1> QED
  BY <1>5, <1>6, <1>7 DEF Newer

LEMMA CleanupBounds ==
  ASSUME NEW rs \in SUBSET Rows, IsFiniteSet(rs), \A r, s \in rs : r.id = s.id => r = s
  PROVE  Cardinality(CleanupRetention(rs)) <= MaxRows
<1> DEFINE K == CleanupRetention(rs)
           kept == {r \in PruneOwnDns(rs) :
                      retention > 0 => r.at >= clock - retention * TicksPerDay}
           newer(o) == {other \in kept : Newer(other, o)}
<1>1. K = {r \in kept : Cardinality(newer(r)) < MaxRows}
  BY DEF CleanupRetention
<1>2. MaxRows \in Nat
  BY LimitsAssumption
<1>3. CASE K = {}
  BY <1>2, <1>3, FS_EmptySet
<1>4. CASE K # {}
  <2>1. K \in SUBSET Rows /\ \A r, s \in K : r.id = s.id => r = s
    BY CleanupKeeps
  <2>2. PICK o \in K : \A r \in K : r # o => Newer(r, o)
    <3> HIDE DEF K
    <3> QED
      BY <1>4, <2>1, OldestExists
  <2>3. IsFiniteSet(newer(o)) /\ Cardinality(newer(o)) < MaxRows
    <3>1. newer(o) \subseteq rs
      BY DEF PruneOwnDns
    <3> QED
      BY <1>1, <2>2, <3>1, FS_Subset
  <2>4. K \subseteq newer(o) \cup {o}
    BY <1>1, <2>2
  <2>5. IsFiniteSet(newer(o) \cup {o}) /\ Cardinality(newer(o) \cup {o}) <= Cardinality(newer(o)) + 1
    <3> HIDE DEF newer
    <3>1. Cardinality(newer(o)) \in Nat
      BY <2>3, FS_CardinalityType
    <3>2. /\ IsFiniteSet(newer(o) \cup {o})
          /\ Cardinality(newer(o) \cup {o}) =
               IF o \in newer(o) THEN Cardinality(newer(o)) ELSE Cardinality(newer(o)) + 1
      BY <2>3, FS_AddElement
    <3> QED
      BY <3>1, <3>2
  <2>6. Cardinality(K) <= Cardinality(newer(o) \cup {o}) /\ IsFiniteSet(K)
    <3> HIDE DEF K, newer
    <3> QED
      BY <2>4, <2>5, FS_Subset
  <2>7. Cardinality(K) \in Nat /\ Cardinality(newer(o)) \in Nat /\ Cardinality(newer(o) \cup {o}) \in Nat
    <3> HIDE DEF K, newer
    <3> QED
      BY <2>3, <2>5, <2>6, FS_CardinalityType
  <2> HIDE DEF K, newer
  <2>8. Cardinality(K) <= MaxRows
    BY <1>2, <2>3, <2>5, <2>6, <2>7
  <2> QED
    BY <2>8 DEF K
<1> QED
  BY <1>3, <1>4

-----------------------------------------------------------------------------
(* Types.                                                                  *)

\* Lines are numbered as they are written, and the table is finite.
Sized == Len(log) <= written /\ IsFiniteSet(rows)

Typed == TypeOK /\ Sized

LEMMA JobsTyped ==
  /\ Idle \in Jobs
  /\ \A place \in Places : Goes(place) \in Jobs
  /\ \A j \in Jobs, place \in Places : [j EXCEPT !.at = place] \in Jobs
<1>1. 0 \in 0..MaxLines /\ 0 \in Nat
  BY BoundsAssumption
<1>2. << >> \in Seq(Lines)
  BY EmptySeq
<1>3. Idle \in Jobs
  BY <1>1, <1>2 DEF Idle, Jobs, Places
<1>4. \A j \in Jobs, place \in Places : [j EXCEPT !.at = place] \in Jobs
  BY DEF Jobs
<1> QED
  BY <1>3, <1>4 DEF Goes

LEMMA InitTyped == Init => Typed
<1> SUFFICES ASSUME Init PROVE Typed
  OBVIOUS
<1>1. << >> \in Seq(Lines) /\ Len(<< >>) = 0
  BY EmptySeq
<1>2. 0 \in 0..MaxLines /\ 0 \in 0..MaxClock
  BY BoundsAssumption
<1>3. rows \subseteq Rows /\ IsFiniteSet(rows)
  <2>1. <<"connection", OwnDns>> \in Hashes /\ OwnDns \in RowKeys
    BY DEF Hashes, RowKeys
  <2>2. [id |-> 1, hash |-> <<"connection", OwnDns>>, key |-> OwnDns, at |-> 0, count |-> 1] \in Rows
    BY <1>2, <2>1 DEF Rows
  <2> QED
    BY <2>2, FS_Singleton DEF Init
<1>4. job \in [Tasks -> Jobs]
  BY JobsTyped DEF Init
<1>5. counted \in [LineHashes -> 0..2] /\ emptied \in [log : Nat, offset : Nat]
  BY DEF Init
<1>6. lock \in Tasks \cup {NoOne} /\ passed \subseteq 1..MaxLines /\ events \in Nat
  BY DEF Init
<1>7. logging \in BOOLEAN /\ overlapped \in BOOLEAN
  BY Zenon DEF Init
<1>8. clock \in 0..MaxClock /\ unmarked \subseteq 1..MaxLines /\ uncleaned \in Int
  BY DEF Init
<1> QED
  BY <1>1, <1>2, <1>3, <1>4, <1>5, <1>6, <1>7, <1>8 DEF Init, Typed, TypeOK, Sized

\* A task takes hold of the file.
LEMMA OpenLogTyped ==
  ASSUME Typed, NEW p \in Tasks, NEW place \in Places,
         NEW back \in {"idle", "stream", "connections"}, OpenLog(p, place, back)
  PROVE  /\ job' \in [Tasks -> Jobs] /\ overlapped' \in BOOLEAN
         /\ UNCHANGED <<written, emptied, counted, passed, unmarked, uncleaned>>
<1>1. Len(log) \in 0..MaxLines /\ emptied.log \in Nat
  BY BoundsAssumption, LenProperties DEF Typed, TypeOK, Sized
<1>2. [Idle EXCEPT !.at = place, !.back = back, !.len = Len(log), !.epoch = emptied.log] \in Jobs
  BY <1>1, JobsTyped DEF Jobs
<1>3. job' \in [Tasks -> Jobs]
  BY <1>2 DEF OpenLog, Typed, TypeOK
<1>4. overlapped' \in BOOLEAN
  BY Zenon DEF OpenLog, Typed, TypeOK
<1> QED
  BY <1>3, <1>4 DEF OpenLog

LEMMA GoToTyped ==
  ASSUME Typed, NEW p \in Tasks, NEW place \in Places
  PROVE  /\ GoTo(p, place) => job' \in [Tasks -> Jobs]
         /\ GoBack(p) => job' \in [Tasks -> Jobs]
         /\ GiveUp(p) => job' \in [Tasks -> Jobs]
         /\ [job EXCEPT ![p] = Goes(place)] \in [Tasks -> Jobs]
<1>1. job \in [Tasks -> Jobs] /\ job[p] \in Jobs
  BY DEF Typed, TypeOK
<1>2. job[p].back \in Places /\ "idle" \in Places
  BY <1>1 DEF Jobs, Places
<1>3. Goes(job[p].back) \in Jobs /\ Goes("idle") \in Jobs /\ Goes(place) \in Jobs
  BY <1>2, JobsTyped
<1>4. [job[p] EXCEPT !.at = place] \in Jobs
  BY <1>1, JobsTyped
<1> QED
  BY <1>1, <1>3, <1>4 DEF GoTo, GoBack, GiveUp

LEMMA JobFields ==
  ASSUME Typed, NEW p \in Tasks
  PROVE  /\ job[p] \in Jobs /\ job[p].lines \in Seq(Lines) /\ job[p].len \in 0..MaxLines
         /\ job[p].end \in 0..MaxLines /\ job[p].epoch \in Nat
         /\ job[p].back \in {"idle", "stream", "connections"} /\ job[p].at \in Places
  BY DEF Typed, TypeOK, Jobs

LEMMA StoreLinesTyped ==
  ASSUME Typed, NEW lines \in Seq(Lines), NEW source \in {"file", "stream"}
  PROVE  /\ CountLines(lines, source) \in [LineHashes -> 0..2]
         /\ InsertLines(lines, source) \subseteq Rows
         /\ IsFiniteSet(InsertLines(lines, source))
         /\ CleanupRetention(InsertLines(lines, source)) \subseteq Rows
         /\ IsFiniteSet(CleanupRetention(InsertLines(lines, source)))
<1>1. CountLines(lines, source) \in [LineHashes -> 0..2]
  BY DEF CountLines, Typed, TypeOK
<1>2. InsertLines(lines, source) \subseteq Rows /\ IsFiniteSet(InsertLines(lines, source))
  BY InsertLinesTyped DEF Typed, Sized
<1>3. /\ CleanupRetention(InsertLines(lines, source)) \subseteq InsertLines(lines, source)
      /\ IsFiniteSet(CleanupRetention(InsertLines(lines, source)))
  BY <1>2, CleanupKeeps
<1> QED
  BY <1>1, <1>2, <1>3

LEMMA StoredTyped ==
  ASSUME Typed, NEW p \in Tasks, StoreLines(p)
  PROVE  /\ rows' \subseteq Rows /\ IsFiniteSet(rows')
         /\ counted' \in [LineHashes -> 0..2] /\ uncleaned' \in Int
<1>1. job[p].lines \in Seq(Lines)
  BY JobFields
<1>2. Table \subseteq Rows /\ IsFiniteSet(Table) /\ uncleaned \in Int
  BY TableTyped DEF Typed, Sized, TypeOK
<1> QED
  BY <1>1, <1>2, StoreLinesTyped DEF StoreLines, AddClean

\* Rows are added, and the table cleaned up or not.
LEMMA AddedTyped ==
  ASSUME Typed, NEW rs \in SUBSET Rows, IsFiniteSet(rs), AddClean(rs) \/ AddOnly(rs)
  PROVE  rows' \subseteq Rows /\ IsFiniteSet(rows') /\ uncleaned' \in Int
<1>1. IsFiniteSet(Table) /\ uncleaned \in Int
  BY TableTyped DEF Typed, Sized, TypeOK
<1>2. Cardinality(Table) \in Nat /\ Cardinality(rs) \in Nat
  BY <1>1, FS_CardinalityType
<1> QED
  BY <1>1, <1>2, CleanupKeeps DEF AddClean, AddOnly

LEMMA UnmarkedTyped ==
  ASSUME Typed, NEW lines \in Seq(Lines), Unmarked(lines)
  PROVE  unmarked' \subseteq 1..MaxLines
<1>1. Range(lines) \subseteq Lines
  BY RangeIsFinite
<1> QED
  BY <1>1 DEF Unmarked, Lines, Typed, TypeOK

\* What is read of the log, and how far that reaches.
LEMMA ReadLinesReads ==
  ASSUME Typed, NEW p \in Tasks, ReadLines(p)
  PROVE  LET j == job[p]
             known == IF offset <= j.len THEN offset ELSE 0
             start == IF j.len - known > LogLimit THEN j.len - LogLimit ELSE known IN
         /\ known \in Nat /\ start \in Nat /\ start >= known
         /\ \/ /\ job'[p].at = "store" /\ job'[p].end = Len(log) /\ start < Len(log)
               /\ job'[p].epoch = IF known = 0 THEN emptied.log ELSE emptied.offset
               /\ job'[p].lines \in Seq(Lines)
               /\ \A k \in DOMAIN job'[p].lines : \E i \in DOMAIN log :
                    i > start /\ job'[p].lines[k] = log[i]
               /\ \A k, m \in DOMAIN job'[p].lines : k < m =>
                    \E a, b \in DOMAIN log :
                      a < b /\ job'[p].lines[k] = log[a] /\ job'[p].lines[m] = log[b]
               /\ job'[p].len = job[p].len /\ job'[p].back = job[p].back
            \/ GoTo(p, "prune")
            \/ GoBack(p)
         /\ \A q \in Tasks : q # p => job'[q] = job[q]
         /\ job' \in [Tasks -> Jobs]
         /\ passed' \subseteq 1..MaxLines
<1> DEFINE j == job[p]
           known == IF offset <= j.len THEN offset ELSE 0
           long == j.len - known > LogLimit
           start == IF long THEN j.len - LogLimit ELSE known
           end == IF Len(log) > start THEN Len(log) ELSE start
           from == start + (IF long THEN 2 ELSE 1)
           read == [job EXCEPT ![p].at = "store", ![p].end = end,
                      ![p].epoch = IF known = 0 THEN emptied.log ELSE emptied.offset,
                      ![p].lines = SubSeq(log, from, end)]
<1>1. /\ job \in [Tasks -> Jobs] /\ j \in Jobs /\ j.len \in Nat /\ offset \in Nat
      /\ log \in Seq(Lines) /\ Len(log) \in Nat /\ DOMAIN log = 1..Len(log)
      /\ Len(log) \in 0..MaxLines /\ emptied.log \in Nat /\ emptied.offset \in Nat
  <2>1. j \in Jobs /\ j.len \in 0..MaxLines /\ MaxLines \in Nat
    BY JobFields, BoundsAssumption
  <2>2. log \in Seq(Lines) /\ Len(log) \in Nat /\ DOMAIN log = 1..Len(log) /\ Len(log) <= written
    BY LenProperties DEF Typed, TypeOK, Sized
  <2> QED
    BY <2>1, <2>2 DEF Typed, TypeOK
<1>2. LogLimit \in Nat \ {0}
  BY LimitsAssumption
<1>3. known \in Nat /\ start \in Nat /\ start >= known
  BY <1>1, <1>2
<1>4. passed' \subseteq 1..MaxLines
  <2>1. passed' = passed \cup {log[i].n : i \in known + 1 .. Len(log)}
    BY DEF ReadLines
  <2>2. \A i \in known + 1 .. Len(log) : log[i] \in Lines
    <3> TAKE i \in known + 1 .. Len(log)
    <3>1. i \in 1..Len(log)
      BY <1>1, <1>3
    <3> QED
      BY <1>1, <3>1, ElementOfSeq
  <2>3. {log[i].n : i \in known + 1 .. Len(log)} \subseteq 1..MaxLines
    <3> HIDE DEF known
    <3> QED
      BY <2>2 DEF Lines
  <2> QED
    BY <2>1, <2>3 DEF Typed, TypeOK
<1>5. CASE end > start
  <2>1. job' = read
    BY <1>5 DEF ReadLines
  <2>2. end = Len(log) /\ start < Len(log)
    <3>1. start \in Nat /\ Len(log) \in Nat
      BY <1>1, <1>3
    <3>2. end > start /\ end = IF Len(log) > start THEN Len(log) ELSE start
      BY <1>5
    <3> HIDE DEF start, end
    <3> QED
      BY <3>1, <3>2
  <2>3. from \in Nat /\ from >= 1 /\ from > start
    BY <1>3
  <2> HIDE DEF from
  <2>4. \A i \in from .. Len(log) : log[i] \in Lines /\ i \in DOMAIN log /\ i > start
    <3> TAKE i \in from .. Len(log)
    <3>1. i \in 1..Len(log) /\ i > start
      BY <1>1, <1>3, <2>3
    <3> QED
      BY <1>1, <3>1, ElementOfSeq
  <2> DEFINE part == SubSeq(log, from, Len(log))
  <2>5. /\ part \in Seq(Lines)
        /\ Len(part) = IF from <= Len(log) THEN Len(log) - from + 1 ELSE 0
        /\ \A i \in 1 .. Len(log) - from + 1 : part[i] = log[from + i - 1]
    <3>1. from \in Int /\ Len(log) \in Int
      BY <1>1, <2>3
    <3>2. \A i \in from .. Len(log) : log[i] \in Lines
      BY <2>4
    <3> QED
      BY <3>1, <3>2, SubSeqProperties
  <2>6. DOMAIN part = 1..Len(part) /\ Len(part) \in Nat
    BY <2>5, LenProperties
  <2>7. \A k \in DOMAIN part : from + k - 1 \in from .. Len(log) /\ part[k] = log[from + k - 1]
    <3> SUFFICES ASSUME NEW k \in DOMAIN part
                 PROVE  from + k - 1 \in from .. Len(log) /\ part[k] = log[from + k - 1]
      OBVIOUS
    <3> HIDE DEF part
    <3>1. k \in 1 .. Len(log) - from + 1
      BY <1>1, <2>3, <2>5, <2>6
    <3>2. k \in Int /\ from \in Int /\ Len(log) \in Int
      BY <1>1, <2>3, <2>6
    <3>3. from + k - 1 \in from .. Len(log)
      BY <3>1, <3>2
    <3> QED
      BY <2>5, <3>1, <3>3
  <2>8. \A k \in DOMAIN part : \E i \in DOMAIN log : i > start /\ part[k] = log[i]
    <3> HIDE DEF part, start
    <3> QED
      BY <2>4, <2>7
  <2>9. \A k, m \in DOMAIN part : k < m =>
          \E a, b \in DOMAIN log : a < b /\ part[k] = log[a] /\ part[m] = log[b]
    <3> SUFFICES ASSUME NEW k \in DOMAIN part, NEW m \in DOMAIN part, k < m
                 PROVE  \E a, b \in DOMAIN log : a < b /\ part[k] = log[a] /\ part[m] = log[b]
      OBVIOUS
    <3> HIDE DEF part, start
    <3>1. k \in Nat /\ m \in Nat
      BY <2>6
    <3>2. from + k - 1 < from + m - 1
      BY <2>3, <3>1
    <3> QED
      BY <2>4, <2>7, <3>2
  <2> DEFINE new == [j EXCEPT !.at = "store", !.end = Len(log),
                       !.epoch = IF known = 0 THEN emptied.log ELSE emptied.offset,
                       !.lines = part]
  <2>10. job' = [job EXCEPT ![p] = new]
    <3> DEFINE epoch == IF known = 0 THEN emptied.log ELSE emptied.offset
    <3>1. job' = [job EXCEPT ![p].at = "store", ![p].end = Len(log), ![p].epoch = epoch,
                             ![p].lines = part]
      BY <2>1, <2>2
    <3> HIDE DEF part, known, start, from, epoch
    <3>2. job' = [job EXCEPT ![p] = [j EXCEPT !.at = "store", !.end = Len(log),
                                              !.epoch = epoch, !.lines = part]]
      BY <1>1, <3>1
    <3> USE DEF epoch
    <3> QED
      BY <3>2
  <2> HIDE DEF part, known, start, from
  <2>11. new \in Jobs
    <3> DEFINE epoch == IF known = 0 THEN emptied.log ELSE emptied.offset
    <3>1. epoch \in Nat /\ "store" \in Places /\ Len(log) \in 0..MaxLines /\ part \in Seq(Lines)
      BY <1>1, <2>5 DEF Places, InFile
    <3> HIDE DEF epoch
    <3>2. [j EXCEPT !.at = "store", !.end = Len(log), !.epoch = epoch, !.lines = part] \in Jobs
      BY <1>1, <3>1 DEF Jobs
    <3> USE DEF epoch
    <3> QED
      BY <3>2
  <2>12. job' \in [Tasks -> Jobs] /\ job'[p] = new /\ \A q \in Tasks : q # p => job'[q] = job[q]
    <3> HIDE DEF new
    <3> QED
      BY <1>1, <2>10, <2>11
  <2>13. /\ new.at = "store" /\ new.end = Len(log) /\ new.lines = part /\ new.len = j.len
         /\ new.back = j.back
         /\ new.epoch = IF known = 0 THEN emptied.log ELSE emptied.offset
    BY <1>1 DEF Jobs
  <2> HIDE DEF new
  <2> USE DEF known, start
  <2> QED
    BY <1>3, <1>4, <2>2, <2>5, <2>8, <2>9, <2>12, <2>13
<1>6. CASE ~(end > start)
  <2>1. GoTo(p, "prune") \/ GoBack(p)
    BY <1>6 DEF ReadLines
  <2>2. job' \in [Tasks -> Jobs]
    BY <2>1, GoToTyped DEF Places, InFile
  <2>3. \A q \in Tasks : q # p => job'[q] = job[q]
    BY <1>1, <2>1 DEF GoTo, GoBack
  <2> QED
    BY <1>3, <1>4, <2>1, <2>2, <2>3
<1> QED
  BY <1>5, <1>6

LEMMA TypedStep ==
  ASSUME Typed, [Next]_vars
  PROVE  Typed'
<1> USE DEF Sized
<1>0. /\ log \in Seq(Lines) /\ stream \in Seq(Lines) /\ rows \subseteq Rows
      /\ offset \in 0..MaxLines /\ logging \in BOOLEAN /\ retention \in Retentions
      /\ lock \in Tasks \cup {NoOne} /\ job \in [Tasks -> Jobs] /\ clock \in 0..MaxClock
      /\ written \in 0..MaxLines /\ emptied \in [log : Nat, offset : Nat]
      /\ counted \in [LineHashes -> 0..2] /\ passed \subseteq 1..MaxLines
      /\ overlapped \in BOOLEAN /\ events \in Nat
      /\ unmarked \subseteq 1..MaxLines /\ uncleaned \in Int
      /\ Len(log) <= written /\ IsFiniteSet(rows) /\ Len(log) \in Nat
      /\ MaxLines \in Nat /\ MaxClock \in Nat /\ MaxEvents \in Nat
  BY LenProperties, BoundsAssumption DEF Typed, TypeOK
<1>1. /\ << >> \in Seq(Lines) /\ Len(<< >>) = 0
      /\ [emptied EXCEPT !.log = @ + 1] \in [log : Nat, offset : Nat]
  BY <1>0, EmptySeq
<1>2. Happens => events' \in Nat
  BY <1>0 DEF Happens
<1>3. Table \subseteq Rows /\ IsFiniteSet(Table)
  BY <1>0, TableTyped DEF Typed
<1>4. Collector \in Tasks /\ \A q \in Commands : q \in Tasks
  BY DEF Tasks
<1>5. \A p \in Tasks : job[p] \in Jobs
  BY <1>0
<1>10. CASE UNCHANGED vars
  BY <1>10, <1>0 DEF Typed, TypeOK, vars, data, observers
<1>11. ASSUME NEW key \in Keys \cup {Noise}, WriteLine(key) PROVE Typed'
  <2> DEFINE line == [n |-> written + 1, key |-> key, at |-> clock, on |-> logging]
  <2>1. written' = written + 1 /\ written < MaxLines /\ log' = Append(log, line)
        /\ stream' = IF Connected THEN Append(stream, line) ELSE stream
    BY <1>11 DEF WriteLine
  <2>2. line \in Lines
    BY <1>0, <2>1 DEF Lines
  <2> HIDE DEF line
  <2>3. log' \in Seq(Lines) /\ Len(log') = Len(log) + 1 /\ stream' \in Seq(Lines)
    BY <1>0, <2>1, <2>2, AppendProperties
  <2>4. written' \in 0..MaxLines /\ Len(log') <= written'
    BY <1>0, <2>1, <2>3
  <2> QED
    BY <1>0, <1>11, <2>3, <2>4 DEF WriteLine, Typed, TypeOK
<1>12. CASE StartKernel
  BY <1>0, <1>1, <1>2, <1>12 DEF StartKernel, Typed, TypeOK
<1>13. CASE Tick
  <2>1. clock' \in 0..MaxClock
    BY <1>0, <1>13 DEF Tick
  <2> QED
    BY <1>0, <1>2, <1>13, <2>1 DEF Tick, Typed, TypeOK, observers
<1>14. CASE ToggleLogging
  <2>1. logging' \in BOOLEAN
    BY <1>14, Zenon DEF ToggleLogging
  <2> QED
    BY <1>0, <1>2, <1>14, <2>1 DEF ToggleLogging, Typed, TypeOK, observers
<1>15. CASE ClearAccessLogs
  <2>1. rows' \subseteq Rows /\ IsFiniteSet(rows')
    BY <1>15, FS_EmptySet DEF ClearAccessLogs
  <2> QED
    BY <1>0, <1>2, <1>15, <2>1 DEF ClearAccessLogs, Typed, TypeOK, observers
<1>16. CASE LookAtLog
  BY <1>0, <1>3, <1>16 DEF LookAtLog, Typed, TypeOK, observers
<1>17. ASSUME NEW p \in Tasks, ReadLines(p) PROVE Typed'
  <2>1. job' \in [Tasks -> Jobs] /\ passed' \subseteq 1..MaxLines
    BY <1>17, ReadLinesReads
  <2> QED
    BY <1>0, <1>17, <2>1 DEF ReadLines, Typed, TypeOK, data
<1>18. ASSUME NEW p \in Tasks, Store(p) PROVE Typed'
  <2>1. /\ rows' \subseteq Rows /\ IsFiniteSet(rows') /\ counted' \in [LineHashes -> 0..2]
        /\ uncleaned' \in Int
    BY <1>18, StoredTyped DEF Store
  <2>2. job' \in [Tasks -> Jobs]
    BY <1>18, GoToTyped DEF Store, Places
  <2>3. offset' \in 0..MaxLines /\ emptied' \in [log : Nat, offset : Nat]
    BY <1>0, <1>18, JobFields DEF Store
  <2> QED
    BY <1>0, <1>18, <2>1, <2>2, <2>3 DEF Store, Typed, TypeOK
<1>19. ASSUME NEW p \in Tasks, StoreAndPrune(p) PROVE Typed'
  <2>1. /\ rows' \subseteq Rows /\ IsFiniteSet(rows') /\ counted' \in [LineHashes -> 0..2]
        /\ uncleaned' \in Int
    BY <1>19, StoredTyped DEF StoreAndPrune
  <2>2. job' \in [Tasks -> Jobs]
    BY <1>19, GoToTyped DEF StoreAndPrune, Places, InFile
  <2>3. log' = << >> /\ emptied' \in [log : Nat, offset : Nat]
    BY <1>1, <1>19 DEF StoreAndPrune, Empties
  <2>4. lock' \in Tasks \cup {NoOne}
    BY <1>19 DEF StoreAndPrune
  <2>5. UNCHANGED <<stream, offset, logging, retention, clock, written, passed, overlapped,
                    unmarked, events>>
    BY <1>19 DEF StoreAndPrune
  <2>6. overlapped' \in BOOLEAN /\ logging' \in BOOLEAN
    BY <1>0, <2>5, Zenon
  <2>7. Sized'
    <3>1. Len(log') = 0 /\ written' \in Nat
      BY <1>0, <1>1, <2>3, <2>5
    <3> QED
      BY <2>1, <3>1
  <2>8. log' \in Seq(Lines)
    BY <1>1, <2>3
  <2> QED
    BY <1>0, <2>1, <2>2, <2>3, <2>4, <2>5, <2>6, <2>7, <2>8 DEF Typed, TypeOK
<1>20. ASSUME NEW p \in Tasks, StoreAndFail(p) PROVE Typed'
  <2>1. /\ rows' \subseteq Rows /\ IsFiniteSet(rows') /\ counted' \in [LineHashes -> 0..2]
        /\ uncleaned' \in Int
    BY <1>20, StoredTyped DEF StoreAndFail
  <2>2. job' \in [Tasks -> Jobs]
    BY <1>20, GoToTyped DEF StoreAndFail, Places
  <2>3. unmarked' \subseteq 1..MaxLines
    BY <1>20, JobFields, UnmarkedTyped DEF StoreAndFail
  <2> QED
    BY <1>0, <1>2, <1>20, <2>1, <2>2, <2>3 DEF StoreAndFail, Typed, TypeOK
<1>35. ASSUME NEW p \in Tasks, StoreBreaksOff(p) PROVE Typed'
  <2>1. PICK n \in 0..Len(job[p].lines) :
          /\ Happens /\ AddOnly(InsertLines(SubSeq(job[p].lines, 1, n), "file"))
          /\ counted' = CountLines(SubSeq(job[p].lines, 1, n), "file")
          /\ Unmarked(SubSeq(job[p].lines, 1, n)) /\ GiveUp(p)
    BY <1>35 DEF StoreBreaksOff
  <2>2. SubSeq(job[p].lines, 1, n) \in Seq(Lines)
    BY JobFields, FirstOf
  <2>3. /\ InsertLines(SubSeq(job[p].lines, 1, n), "file") \subseteq Rows
        /\ IsFiniteSet(InsertLines(SubSeq(job[p].lines, 1, n), "file"))
        /\ counted' \in [LineHashes -> 0..2]
    BY <2>1, <2>2, StoreLinesTyped
  <2>4. rows' \subseteq Rows /\ IsFiniteSet(rows') /\ uncleaned' \in Int
    BY <2>1, <2>3, AddedTyped
  <2>5. unmarked' \subseteq 1..MaxLines
    BY <2>1, <2>2, UnmarkedTyped
  <2>6. job' \in [Tasks -> Jobs]
    BY <2>1, GoToTyped DEF Places
  <2>7. UNCHANGED <<log, stream, offset, logging, retention, lock, clock, written, emptied,
                    passed, overlapped>>
    BY <1>35 DEF StoreBreaksOff
  <2> QED
    BY <1>0, <1>2, <2>1, <2>3, <2>4, <2>5, <2>6, <2>7 DEF Typed, TypeOK
<1>36. CASE FilterBlocks
  <2> DEFINE id == 1 + (IF rows = {} THEN 0 ELSE Max({r.id : r \in rows}))
             row == [id |-> id, hash |-> <<"filter", events'>>, key |-> Blocked,
                     at |-> clock, count |-> 1]
  <2>1. rows' = rows \cup {row} /\ uncleaned' = uncleaned + 1 /\ events' \in Nat
    BY <1>2, <1>36 DEF FilterBlocks
  <2>2. id \in Nat
    <3>1. rows # {} => Max({r.id : r \in rows}) \in Nat
      BY <1>0, HighestId
    <3> QED
      BY <3>1
  <2>3. <<"filter", events'>> \in Hashes /\ Blocked \in RowKeys
    BY <2>1 DEF Hashes, RowKeys
  <2> HIDE DEF id
  <2>4. row \in Rows
    BY <1>0, <2>2, <2>3 DEF Rows
  <2> HIDE DEF row
  <2>5. rows' \subseteq Rows /\ IsFiniteSet(rows') /\ uncleaned' \in Int
    BY <1>0, <2>1, <2>4, FS_AddElement
  <2> QED
    BY <1>0, <1>36, <2>1, <2>5 DEF FilterBlocks, Typed, TypeOK
<1>37. CASE Crash
  <2>1. job' \in [Tasks -> Jobs]
    BY <1>37, JobsTyped DEF Crash
  <2> QED
    BY <1>0, <1>1, <1>2, <1>37, <2>1 DEF Crash, Typed, TypeOK, observers
<1>21. ASSUME NEW p \in Tasks, EmptyLongLog(p) PROVE Typed'
  <2>1. job' \in [Tasks -> Jobs]
    BY <1>21, GoToTyped DEF EmptyLongLog, Places, InFile
  <2>2. /\ log' \in Seq(Lines) /\ Len(log') <= written /\ emptied' \in [log : Nat, offset : Nat]
        /\ events' \in Nat
    <3>1. \/ Empties /\ UNCHANGED events
          \/ Happens /\ UNCHANGED <<log, emptied>>
      BY <1>21 DEF EmptyLongLog
    <3>2. UNCHANGED written
      BY <1>21 DEF EmptyLongLog
    <3>3. CASE Empties /\ UNCHANGED events
      BY <1>0, <1>1, <3>2, <3>3 DEF Empties
    <3>4. CASE Happens /\ UNCHANGED <<log, emptied>>
      BY <1>0, <1>2, <3>2, <3>4
    <3> QED
      BY <3>1, <3>3, <3>4
  <2>3. overlapped' \in BOOLEAN
    BY <1>0, <1>21, Zenon DEF EmptyLongLog
  <2> QED
    BY <1>0, <1>21, <2>1, <2>2, <2>3 DEF EmptyLongLog, Typed, TypeOK
<1>22. ASSUME NEW p \in Tasks, ResetOffset(p) PROVE Typed'
  <2>1. job' \in [Tasks -> Jobs]
    BY <1>22, GoToTyped DEF ResetOffset, Places
  <2>2. offset' \in 0..MaxLines /\ emptied' \in [log : Nat, offset : Nat]
    BY <1>0, <1>22 DEF ResetOffset
  <2> QED
    BY <1>0, <1>22, <2>1, <2>2 DEF ResetOffset, Typed, TypeOK
<1>23. ASSUME NEW p \in Tasks, AskForLogs(p) PROVE Typed'
  <2>1. job' \in [Tasks -> Jobs] /\ overlapped' \in BOOLEAN /\ UNCHANGED <<written, emptied, counted, passed, unmarked, uncleaned>>
    BY <1>23, OpenLogTyped DEF AskForLogs, Places, InFile
  <2> QED
    BY <1>0, <1>2, <1>23, <2>1 DEF AskForLogs, Typed, TypeOK, data
<1>24. ASSUME NEW p \in Tasks, ControllerIsSilent(p) PROVE Typed'
  <2>1. job' \in [Tasks -> Jobs]
    BY <1>0, <1>24, JobsTyped DEF ControllerIsSilent
  <2> QED
    BY <1>0, <1>24, <2>1 DEF ControllerIsSilent, Typed, TypeOK, data, observers
<1>25. ASSUME NEW p \in Tasks, NEW open \in Listings, StoreConnections(p, open) PROVE Typed'
  <2>1. job' \in [Tasks -> Jobs]
    BY <1>0, <1>25, JobsTyped DEF StoreConnections
  <2>2. InsertConnections(open) \subseteq Rows /\ IsFiniteSet(InsertConnections(open))
    BY <1>25, InsertConnectionsTyped DEF StoreConnections, Typed
  <2>3. rows' \subseteq Rows /\ IsFiniteSet(rows') /\ uncleaned' \in Int
    BY <1>25, <2>2, AddedTyped DEF StoreConnections
  <2>4. events' \in Nat
    BY <1>0, <1>2, <1>25 DEF StoreConnections
  <2> QED
    BY <1>0, <1>25, <2>1, <2>3, <2>4 DEF StoreConnections, Typed, TypeOK
<1>26. CASE ControllerFails
  <2>1. job' \in [Tasks -> Jobs] /\ overlapped' \in BOOLEAN /\ UNCHANGED <<written, emptied, counted, passed, unmarked, uncleaned>>
    BY <1>4, <1>26, OpenLogTyped DEF ControllerFails, Places, InFile
  <2> QED
    BY <1>0, <1>26, <2>1 DEF ControllerFails, Typed, TypeOK, data
<1>27. CASE Connect
  <2>1. job' \in [Tasks -> Jobs] /\ overlapped' \in BOOLEAN /\ UNCHANGED <<written, emptied, counted, passed, unmarked, uncleaned>>
    <3>1. CASE logging
      BY <1>4, <1>27, <3>1, OpenLogTyped DEF Connect, Places, InFile
    <3>2. CASE ~logging
      <4>1. job' = [job EXCEPT ![Collector] = Goes("stream")] /\ UNCHANGED observers
        BY <1>27, <3>2 DEF Connect
      <4> QED
        BY <1>0, <1>4, <4>1, GoToTyped DEF Places, observers
    <3> QED
      BY <3>1, <3>2
  <2> QED
    BY <1>0, <1>27, <2>1 DEF Connect, Typed, TypeOK, data
<1>28. CASE MarkToEnd
  <2>1. job' \in [Tasks -> Jobs]
    BY <1>4, <1>28, GoToTyped DEF MarkToEnd, Places
  <2>2. offset' \in 0..MaxLines /\ emptied' \in [log : Nat, offset : Nat]
    BY <1>0, <1>4, <1>28, JobFields DEF MarkToEnd
  <2>3. passed' \subseteq 1..MaxLines
    <3>1. \A i \in DOMAIN log : log[i] \in Lines
      BY <1>0, LenProperties, ElementOfSeq
    <3>2. {log[i].n : i \in DOMAIN log \cap 1..job[Collector].len} \subseteq 1..MaxLines
      BY <3>1 DEF Lines
    <3> QED
      BY <1>0, <1>28, <3>2 DEF MarkToEnd
  <2> QED
    BY <1>0, <1>28, <2>1, <2>2, <2>3 DEF MarkToEnd, Typed, TypeOK
<1>29. CASE MarkLongLog
  <2>1. job' \in [Tasks -> Jobs]
    BY <1>4, <1>29, GoToTyped DEF MarkLongLog, Places, InFile
  <2> QED
    BY <1>0, <1>29, <2>1 DEF MarkLongLog, Typed, TypeOK, data, observers
<1>30. CASE TakeLine
  <2>1. Head(stream) \in Lines /\ stream' \in Seq(Lines)
    BY <1>0, <1>30, HeadTailProperties DEF TakeLine
  <2>2. <<Head(stream)>> \in Seq(Lines)
    BY <2>1
  <2>3. [Idle EXCEPT !.at = "insert", !.lines = <<Head(stream)>>] \in Jobs
    BY <2>2, JobsTyped DEF Jobs, Places
  <2>4. job' \in [Tasks -> Jobs]
    BY <1>0, <1>4, <1>30, <2>3 DEF TakeLine
  <2> QED
    BY <1>0, <1>30, <2>1, <2>4 DEF TakeLine, Typed, TypeOK, observers
<1>31. CASE InsertLine
  <2>1. job' \in [Tasks -> Jobs]
    BY <1>4, <1>31, GoToTyped DEF InsertLine, Places
  <2> DEFINE lines == job[Collector].lines
  <2>2. lines \in Seq(Lines)
    BY <1>4, JobFields
  <2>3. /\ InsertLines(lines, "stream") \subseteq Rows /\ IsFiniteSet(InsertLines(lines, "stream"))
        /\ CountLines(lines, "stream") \in [LineHashes -> 0..2]
    BY <2>2, StoreLinesTyped
  <2>4. \/ /\ AddClean(InsertLines(lines, "stream")) \/ AddOnly(InsertLines(lines, "stream"))
           /\ counted' = CountLines(lines, "stream")
        \/ rows' = Table /\ UNCHANGED <<counted, uncleaned>>
        \/ UNCHANGED <<rows, counted, uncleaned>>
    BY <1>31 DEF InsertLine
  <2>5. rows' \subseteq Rows /\ IsFiniteSet(rows') /\ uncleaned' \in Int
    BY <1>0, <1>3, <2>3, <2>4, AddedTyped
  <2>6. counted' \in [LineHashes -> 0..2] /\ events' \in Nat
    BY <1>0, <1>2, <1>31, <2>3, <2>4 DEF InsertLine
  <2> QED
    BY <1>0, <1>31, <2>1, <2>5, <2>6 DEF InsertLine, Typed, TypeOK
<1>32. ASSUME NEW back \in {"idle", "stream"}, VisitFile(back)
       PROVE  /\ job' \in [Tasks -> Jobs] /\ overlapped' \in BOOLEAN
              /\ UNCHANGED <<written, emptied, counted, passed, unmarked, uncleaned>>
  <2>1. CASE logging \/ Len(log) > LogLimit
    <3>1. OpenLog(Collector, IF logging THEN "read" ELSE "prune", back)
      BY <1>32, <2>1 DEF VisitFile
    <3>2. (IF logging THEN "read" ELSE "prune") \in Places
      BY DEF Places, InFile
    <3> QED
      BY <1>4, <3>1, <3>2, OpenLogTyped
  <2>2. CASE ~(logging \/ Len(log) > LogLimit)
    BY <1>0, <1>4, <1>32, <2>2, GoToTyped DEF VisitFile, Places, observers
  <2> QED
    BY <2>1, <2>2
<1>33. CASE VisitFileInStream
  BY <1>0, <1>32, <1>33 DEF VisitFileInStream, Typed, TypeOK, data
<1>34. CASE StreamEnds
  BY <1>0, <1>1, <1>32, <1>34 DEF StreamEnds, Typed, TypeOK
<1> QED
  BY <1>10, <1>11, <1>12, <1>13, <1>14, <1>15, <1>16, <1>17, <1>18, <1>19, <1>20, <1>21, <1>22,
     <1>23, <1>24, <1>25, <1>26, <1>27, <1>28, <1>29, <1>30, <1>31, <1>33, <1>34, <1>35, <1>36,
     <1>37 DEF Next, AtFile

\* Types: lines, rows and what the tasks have measured and read stay what they are said
\* to be, whatever the kernel, the user and the tasks do.
THEOREM TypeCorrect == Spec => []TypeOK
<1>1. Init => Typed
  BY InitTyped
<1>2. Typed /\ [Next]_vars => Typed'
  BY TypedStep
<1>3. Typed => TypeOK
  BY DEF Typed
<1> QED
  BY <1>1, <1>2, <1>3, PTL DEF Spec

-----------------------------------------------------------------------------
(* Where a step takes a task.                                              *)

Others(p) == \A q \in Tasks : q # p => job'[q] = job[q]

\* The application dies: every task ends.
LEMMA Dying ==
  ASSUME Crash
  PROVE  /\ \A q \in Tasks : /\ job'[q].at = "idle" /\ job'[q].lines = << >>
                             /\ job'[q].epoch = 0 /\ job'[q].len = 0
         /\ stream' = << >>
         /\ UNCHANGED <<log, rows, offset, clock>> /\ UNCHANGED observers
  BY DEF Crash, Idle

\* A task leaves the file, or never was at it.
Leaves(p) ==
  /\ Others(p)
  /\ job'[p].at \in {"idle", "stream", "connections"}
  /\ job'[p].lines = << >> /\ job'[p].epoch = 0

Moves(p, place) ==
  /\ Others(p)
  /\ job'[p].at = place
  /\ job'[p].lines = job[p].lines /\ job'[p].epoch = job[p].epoch
  /\ job'[p].len = job[p].len /\ job'[p].end = job[p].end

Opens(p, place) ==
  /\ Others(p)
  /\ job'[p].at = place /\ job'[p].lines = << >>
  /\ job'[p].epoch = emptied.log /\ job'[p].len = Len(log)
  /\ overlapped' = (overlapped \/ \E q \in Tasks \ {p} : Busy(q))
  /\ UNCHANGED <<written, emptied, counted, passed, unmarked, uncleaned>>

LEMMA GoesTo ==
  ASSUME NEW place
  PROVE  Goes(place).at = place /\ Goes(place).lines = << >> /\ Goes(place).epoch = 0
  BY DEF Goes, Idle

LEMMA Leaving ==
  ASSUME Typed, NEW p \in Tasks,
         \/ GoBack(p) \/ GiveUp(p) \/ job' = [job EXCEPT ![p] = Idle]
         \/ \E place \in {"idle", "stream"} : job' = [job EXCEPT ![p] = Goes(place)]
  PROVE  Leaves(p)
<1>1. job \in [Tasks -> Jobs] /\ job[p].back \in {"idle", "stream", "connections"}
  BY JobFields DEF Typed, TypeOK
<1>2. Idle.at \in {"idle", "stream", "connections"} /\ Idle.lines = << >> /\ Idle.epoch = 0
  BY DEF Idle
<1>3. PICK j : /\ job' = [job EXCEPT ![p] = j] /\ j.at \in {"idle", "stream", "connections"}
               /\ j.lines = << >> /\ j.epoch = 0
  <2>1. CASE GoBack(p)
    BY <1>1, <2>1, GoesTo DEF GoBack
  <2>2. CASE GiveUp(p)
    BY <1>1, <2>2, GoesTo DEF GiveUp
  <2>3. CASE job' = [job EXCEPT ![p] = Idle]
    BY <1>2, <2>3
  <2>4. CASE \E place \in {"idle", "stream"} : job' = [job EXCEPT ![p] = Goes(place)]
    <3>1. PICK place \in {"idle", "stream"} : job' = [job EXCEPT ![p] = Goes(place)]
      BY <2>4
    <3>2. Goes(place).at \in {"idle", "stream", "connections"}
      BY GoesTo
    <3> QED
      BY <3>1, <3>2, GoesTo
  <2> QED
    BY <2>1, <2>2, <2>3, <2>4
<1> QED
  BY <1>1, <1>3 DEF Leaves, Others

LEMMA Moving ==
  ASSUME Typed, NEW p \in Tasks, NEW place, GoTo(p, place)
  PROVE  Moves(p, place)
<1>1. job \in [Tasks -> Jobs] /\ job[p] \in Jobs
  BY JobFields DEF Typed, TypeOK
<1>2. job' = [job EXCEPT ![p] = [job[p] EXCEPT !.at = place]]
  BY <1>1 DEF GoTo
<1>3. job'[p] = [job[p] EXCEPT !.at = place] /\ \A q \in Tasks : q # p => job'[q] = job[q]
  BY <1>1, <1>2
<1> QED
  BY <1>1, <1>3 DEF Moves, Others, Jobs

LEMMA Opening ==
  ASSUME Typed, NEW p \in Tasks, NEW place, NEW back, OpenLog(p, place, back)
  PROVE  Opens(p, place)
<1>1. job \in [Tasks -> Jobs]
  BY DEF Typed, TypeOK
<1> DEFINE j == [Idle EXCEPT !.at = place, !.back = back, !.len = Len(log), !.epoch = emptied.log]
<1>2. j.at = place /\ j.lines = << >> /\ j.epoch = emptied.log /\ j.len = Len(log)
  BY DEF Idle
<1>3. job'[p] = j /\ \A q \in Tasks : q # p => job'[q] = job[q]
  <2>1. job' = [job EXCEPT ![p] = j]
    BY DEF OpenLog
  <2> HIDE DEF j
  <2> QED
    BY <1>1, <2>1
<1> HIDE DEF j
<1> QED
  BY <1>2, <1>3 DEF Opens, Others, OpenLog

LEMMA Visiting ==
  ASSUME Typed, NEW back \in {"idle", "stream"}, VisitFile(back)
  PROVE  \/ Opens(Collector, "read") \/ Opens(Collector, "prune")
         \/ /\ Leaves(Collector)
            /\ UNCHANGED <<written, emptied, counted, passed, overlapped, unmarked, uncleaned>>
<1>1. Collector \in Tasks
  BY DEF Tasks
<1>2. CASE logging
  <2>1. OpenLog(Collector, "read", back)
    BY <1>2 DEF VisitFile
  <2> QED
    BY <1>1, <2>1, Opening
<1>3. CASE ~logging /\ Len(log) > LogLimit
  <2>1. OpenLog(Collector, "prune", back)
    BY <1>3 DEF VisitFile
  <2> QED
    BY <1>1, <2>1, Opening
<1>4. CASE ~logging /\ ~(Len(log) > LogLimit)
  <2>1. job' = [job EXCEPT ![Collector] = Goes(back)]
    BY <1>4 DEF VisitFile
  <2>2. Leaves(Collector)
    BY <1>1, <2>1, Leaving
  <2> QED
    BY <1>4, <2>2 DEF VisitFile, observers
<1> QED
  BY <1>2, <1>3, <1>4

LEMMA Connecting ==
  ASSUME Typed, Connect
  PROVE  \/ Opens(Collector, "mark")
         \/ Leaves(Collector) /\ UNCHANGED observers
<1>1. Collector \in Tasks
  BY DEF Tasks
<1>2. CASE logging
  BY <1>1, <1>2, Opening DEF Connect
<1>3. CASE ~logging
  <2>1. job' = [job EXCEPT ![Collector] = Goes("stream")]
    BY <1>3 DEF Connect
  <2> QED
    BY <1>1, <1>3, <2>1, Leaving DEF Connect
<1> QED
  BY <1>2, <1>3

LEMMA Taking ==
  ASSUME Typed, TakeLine
  PROVE  \/ job' = job
         \/ /\ Others(Collector) /\ job'[Collector].at = "insert"
            /\ job'[Collector].lines = <<Head(stream)>> /\ job'[Collector].epoch = 0
<1>1. job \in [Tasks -> Jobs] /\ Collector \in Tasks
  BY DEF Typed, TypeOK, Tasks
<1>2. CASE logging
  <2> DEFINE j == [Idle EXCEPT !.at = "insert", !.lines = <<Head(stream)>>]
  <2>1. job' = [job EXCEPT ![Collector] = j]
    BY <1>2 DEF TakeLine
  <2>2. j.at = "insert" /\ j.lines = <<Head(stream)>> /\ j.epoch = 0
    BY DEF Idle
  <2> HIDE DEF j
  <2>3. job'[Collector] = j /\ Others(Collector)
    BY <1>1, <2>1 DEF Others
  <2> QED
    BY <2>2, <2>3
<1>3. CASE ~logging
  BY <1>3 DEF TakeLine
<1> QED
  BY <1>2, <1>3

-----------------------------------------------------------------------------
(* Lines are numbered as they are written.                                 *)

Ascending(lines) ==
  /\ \A i \in DOMAIN lines : lines[i].n <= written /\ lines[i].at <= clock
  /\ \A i, k \in DOMAIN lines : i < k => lines[i].n < lines[k].n

Numbered == Ascending(log) /\ Ascending(stream) /\ \A p \in Tasks : Ascending(job[p].lines)

LEMMA NoneAscends == DOMAIN << >> = {}
  OBVIOUS

LEMMA InitNumbered == Init => Numbered
<1> SUFFICES ASSUME Init PROVE Numbered
  OBVIOUS
<1>1. \A p \in Tasks : job[p].lines = << >>
  BY DEF Init, Idle
<1>2. log = << >> /\ stream = << >>
  BY DEF Init
<1> QED
  BY <1>1, <1>2, NoneAscends DEF Numbered, Ascending

LEMMA AppendAscends ==
  ASSUME NEW lines \in Seq(Lines), NEW line \in Lines, Ascending(lines), written \in Nat,
         line.n = written + 1, line.at <= clock, written' = written + 1, clock' = clock
  PROVE  Ascending(Append(lines, line))'
<1> DEFINE new == Append(lines, line)
<1>1. /\ DOMAIN lines = 1..Len(lines) /\ Len(lines) \in Nat
      /\ new \in Seq(Lines) /\ Len(new) = Len(lines) + 1
      /\ \A i \in 1..Len(lines) : new[i] = lines[i] /\ new[Len(lines) + 1] = line
  BY LenProperties, AppendProperties
<1>2. DOMAIN new = 1 .. Len(lines) + 1 /\ new[Len(lines) + 1] = line
  BY <1>1, LenProperties, AppendProperties
<1> HIDE DEF new
<1>3. \A i \in DOMAIN lines : lines[i].n \in Nat /\ lines[i].n <= written /\ lines[i].at <= clock
  <2>1. \A i \in DOMAIN lines : lines[i] \in Lines
    BY <1>1, ElementOfSeq
  <2> QED
    BY <2>1 DEF Ascending, Lines
<1>4. \A i \in DOMAIN new : \/ i \in DOMAIN lines /\ new[i] = lines[i]
                            \/ i = Len(lines) + 1 /\ new[i] = line
  BY <1>1, <1>2
<1>5. \A i \in DOMAIN new : new[i].n <= written' /\ new[i].at <= clock'
  <2> SUFFICES ASSUME NEW i \in DOMAIN new PROVE new[i].n <= written' /\ new[i].at <= clock'
    OBVIOUS
  <2>1. CASE i \in DOMAIN lines /\ new[i] = lines[i]
    <3>1. lines[i].n \in Nat /\ lines[i].n <= written /\ lines[i].at <= clock
      BY <1>3, <2>1
    <3> QED
      BY <2>1, <3>1
  <2> QED
    BY <1>4, <2>1
<1>6. \A i, k \in DOMAIN new : i < k => new[i].n < new[k].n
  <2> SUFFICES ASSUME NEW i \in DOMAIN new, NEW k \in DOMAIN new, i < k
               PROVE  new[i].n < new[k].n
    OBVIOUS
  <2>1. i \in DOMAIN lines /\ new[i] = lines[i] /\ lines[i].n \in Nat /\ lines[i].n <= written
    BY <1>1, <1>2, <1>3
  <2>2. CASE k = Len(lines) + 1
    BY <1>2, <2>1, <2>2
  <2>3. CASE k \in DOMAIN lines /\ new[k] = lines[k]
    BY <2>1, <2>3 DEF Ascending
  <2> QED
    BY <1>4, <2>2, <2>3
<1> QED
  BY <1>5, <1>6 DEF Ascending, new

LEMMA StillAscends ==
  ASSUME NEW lines \in Seq(Lines), Ascending(lines), clock \in Nat, clock' \in Nat,
         clock <= clock', UNCHANGED written
  PROVE  Ascending(lines)'
<1>1. DOMAIN lines = 1..Len(lines) /\ \A i \in DOMAIN lines : lines[i] \in Lines
  BY LenProperties, ElementOfSeq
<1>2. MaxClock \in Nat
  BY BoundsAssumption
<1>3. \A i \in DOMAIN lines : lines[i].at \in Nat
  BY <1>1, <1>2 DEF Lines
<1> QED
  BY <1>3 DEF Ascending

\* Steps that write no line and leave what tasks have read.
LEMMA NumberedRemains ==
  ASSUME Typed, Numbered, UNCHANGED <<written, clock>>,
         log' = log \/ log' = << >>, stream' = stream \/ stream' = << >>,
         \A q \in Tasks : job'[q].lines = job[q].lines \/ job'[q].lines = << >>
  PROVE  Numbered'
<1>1. Ascending(log)'
  BY NoneAscends DEF Numbered, Ascending
<1>2. Ascending(stream)'
  BY NoneAscends DEF Numbered, Ascending
<1>3. \A q \in Tasks : Ascending(job[q].lines)'
  BY NoneAscends DEF Numbered, Ascending
<1> QED
  BY <1>1, <1>2, <1>3 DEF Numbered

LEMMA NumberedStep ==
  ASSUME Typed, Numbered, [Next]_vars
  PROVE  Numbered'
<1>0. /\ log \in Seq(Lines) /\ stream \in Seq(Lines) /\ written \in Nat /\ clock \in Nat
      /\ clock \in 0..MaxClock /\ MaxClock \in Nat /\ written \in 0..MaxLines /\ MaxLines \in Nat
      /\ \A p \in Tasks : job[p].lines \in Seq(Lines)
  BY BoundsAssumption, JobFields DEF Typed, TypeOK
<1>1. Collector \in Tasks
  BY DEF Tasks
<1>2. \A p \in Tasks, place \in Places : Moves(p, place) \/ Opens(p, place) \/ Leaves(p) =>
        \A q \in Tasks : job'[q].lines = job[q].lines \/ job'[q].lines = << >>
  BY DEF Moves, Opens, Leaves, Others
<1>3. {"prune", "zero", "stuck", "read", "mark"} \subseteq Places
  BY DEF Places, InFile
<1>10. CASE UNCHANGED vars
  BY <1>10, NumberedRemains DEF vars, data, observers
<1>11. ASSUME NEW key \in Keys \cup {Noise}, WriteLine(key) PROVE Numbered'
  <2> DEFINE line == [n |-> written + 1, key |-> key, at |-> clock, on |-> logging]
  <2>1. /\ written' = written + 1 /\ written < MaxLines /\ log' = Append(log, line)
        /\ stream' = IF Connected THEN Append(stream, line) ELSE stream
        /\ UNCHANGED <<clock, job>>
    BY <1>11 DEF WriteLine
  <2>2. line \in Lines /\ line.n = written + 1 /\ line.at = clock
    BY <1>0, <2>1 DEF Lines, Typed, TypeOK
  <2> HIDE DEF line
  <2>3. \A lines \in Seq(Lines) : Ascending(lines) =>
          /\ \A i \in DOMAIN lines : lines[i].n <= written' /\ lines[i].at <= clock'
          /\ \A i, k \in DOMAIN lines : i < k => lines[i].n < lines[k].n
    <3> SUFFICES ASSUME NEW lines \in Seq(Lines), Ascending(lines), NEW i \in DOMAIN lines
                 PROVE  lines[i].n <= written' /\ lines[i].at <= clock'
      BY DEF Ascending
    <3>1. lines[i].n \in Nat /\ lines[i].n <= written /\ lines[i].at <= clock
      <4>1. lines[i] \in Lines
        BY LenProperties, ElementOfSeq
      <4> QED
        BY <4>1 DEF Ascending, Lines
    <3> QED
      BY <1>0, <2>1, <3>1
  <2>4. Ascending(log)'
    BY <1>0, <2>1, <2>2, AppendAscends DEF Numbered
  <2>5. Ascending(stream)'
    <3>1. CASE Connected
      BY <1>0, <2>1, <2>2, <3>1, AppendAscends DEF Numbered
    <3>2. CASE ~Connected
      <4>1. stream' = stream
        BY <2>1, <3>2
      <4> QED
        BY <1>0, <2>3, <4>1 DEF Numbered, Ascending
    <3> QED
      BY <3>1, <3>2
  <2>6. \A p \in Tasks : Ascending(job[p].lines)'
    <3> SUFFICES ASSUME NEW p \in Tasks PROVE Ascending(job[p].lines)'
      OBVIOUS
    <3>1. job'[p].lines = job[p].lines /\ job[p].lines \in Seq(Lines) /\ Ascending(job[p].lines)
      BY <1>0, <2>1 DEF Numbered
    <3> QED
      BY <2>3, <3>1 DEF Ascending
  <2> QED
    BY <2>4, <2>5, <2>6 DEF Numbered
<1>12. CASE Tick
  <2>1. clock' = clock + 1 /\ clock' \in Nat /\ clock <= clock' /\ UNCHANGED <<written, log, stream, job>>
    BY <1>0, <1>12 DEF Tick, observers
  <2>2. \A lines \in Seq(Lines) : Ascending(lines) =>
          /\ \A i \in DOMAIN lines : lines[i].n <= written' /\ lines[i].at <= clock'
          /\ \A i, k \in DOMAIN lines : i < k => lines[i].n < lines[k].n
    <3> SUFFICES ASSUME NEW lines \in Seq(Lines), Ascending(lines), NEW i \in DOMAIN lines
                 PROVE  lines[i].n <= written' /\ lines[i].at <= clock'
      BY DEF Ascending
    <3>1. lines[i].at \in Nat /\ lines[i].n <= written /\ lines[i].at <= clock
      <4>1. lines[i] \in Lines
        BY LenProperties, ElementOfSeq
      <4> QED
        BY <1>0, <4>1 DEF Ascending, Lines
    <3> QED
      BY <1>0, <2>1, <3>1
  <2>3. Ascending(log)' /\ Ascending(stream)'
    BY <1>0, <2>1, <2>2 DEF Numbered, Ascending
  <2>4. \A p \in Tasks : Ascending(job[p].lines)'
    <3> SUFFICES ASSUME NEW p \in Tasks PROVE Ascending(job[p].lines)'
      OBVIOUS
    <3>1. job'[p].lines = job[p].lines /\ job[p].lines \in Seq(Lines) /\ Ascending(job[p].lines)
      BY <1>0, <2>1 DEF Numbered
    <3> QED
      BY <2>2, <3>1 DEF Ascending
  <2> QED
    BY <2>3, <2>4 DEF Numbered
<1>13. CASE StartKernel \/ ToggleLogging \/ ClearAccessLogs \/ LookAtLog \/ FilterBlocks
  BY <1>13, NumberedRemains
     DEF StartKernel, ToggleLogging, ClearAccessLogs, LookAtLog, FilterBlocks, observers
<1>29. CASE Crash
  BY <1>29, Dying, NumberedRemains DEF observers
<1>14. ASSUME NEW p \in Tasks, ReadLines(p) PROVE Numbered'
  <2>1. UNCHANGED <<log, stream, written, clock>>
    BY <1>14 DEF ReadLines, data
  <2>2. Ascending(log)' /\ Ascending(stream)'
    BY <2>1 DEF Numbered, Ascending
  <2>3. \A q \in Tasks : q # p => Ascending(job[q].lines)'
    <3>1. \A q \in Tasks : q # p => job'[q] = job[q]
      BY <1>14, ReadLinesReads
    <3> QED
      BY <2>1, <3>1 DEF Numbered, Ascending
  <2>4. Ascending(job[p].lines)'
    <3>1. CASE /\ \A k \in DOMAIN job'[p].lines : \E i \in DOMAIN log : job'[p].lines[k] = log[i]
               /\ \A k, m \in DOMAIN job'[p].lines : k < m =>
                    \E a, b \in DOMAIN log :
                      a < b /\ job'[p].lines[k] = log[a] /\ job'[p].lines[m] = log[b]
      <4>1. \A k \in DOMAIN job'[p].lines :
              job'[p].lines[k].n <= written /\ job'[p].lines[k].at <= clock
        BY <3>1 DEF Numbered, Ascending
      <4>2. \A k, m \in DOMAIN job'[p].lines : k < m => job'[p].lines[k].n < job'[p].lines[m].n
        BY <3>1 DEF Numbered, Ascending
      <4> QED
        BY <2>1, <4>1, <4>2 DEF Ascending
    <3>2. CASE GoTo(p, "prune") \/ GoBack(p)
      <4>1. job'[p].lines = job[p].lines \/ job'[p].lines = << >>
        BY <1>2, <1>3, <3>2, Moving, Leaving
      <4> QED
        BY <2>1, <4>1, NoneAscends DEF Numbered, Ascending
    <3> QED
      BY <1>14, <3>1, <3>2, ReadLinesReads
  <2> QED
    BY <2>2, <2>3, <2>4 DEF Numbered
<1>15. ASSUME NEW p \in Tasks, Store(p) \/ StoreAndFail(p) \/ StoreBreaksOff(p) PROVE Numbered'
  <2>1. Leaves(p) /\ UNCHANGED <<log, stream, written, clock>>
    BY <1>15, Leaving DEF Store, StoreAndFail, StoreBreaksOff
  <2> QED
    BY <1>2, <1>3, <2>1, NumberedRemains
<1>16. ASSUME NEW p \in Tasks, StoreAndPrune(p) PROVE Numbered'
  <2>1. Moves(p, "stuck") /\ log' = << >> /\ UNCHANGED <<stream, written, clock>>
    BY <1>16, Moving DEF StoreAndPrune, Empties
  <2> QED
    BY <1>2, <1>3, <2>1, NumberedRemains
<1>17. ASSUME NEW p \in Tasks, EmptyLongLog(p) PROVE Numbered'
  <2>1. Moves(p, "zero") \/ Leaves(p)
    BY <1>17, Moving, Leaving DEF EmptyLongLog
  <2>2. (log' = log \/ log' = << >>) /\ UNCHANGED <<stream, written, clock>>
    BY <1>17 DEF EmptyLongLog, Empties
  <2> QED
    BY <1>2, <1>3, <2>1, <2>2, NumberedRemains
<1>18. ASSUME NEW p \in Tasks, ResetOffset(p) PROVE Numbered'
  <2>1. Leaves(p) /\ UNCHANGED <<log, stream, written, clock>>
    BY <1>18, Leaving DEF ResetOffset
  <2> QED
    BY <1>2, <1>3, <2>1, NumberedRemains
<1>19. ASSUME NEW p \in Tasks, AskForLogs(p) PROVE Numbered'
  <2>1. Opens(p, "read") /\ UNCHANGED <<log, stream, written, clock>>
    BY <1>19, Opening DEF AskForLogs, data, Opens
  <2> QED
    BY <1>2, <1>3, <2>1, NumberedRemains
<1>20. ASSUME NEW p \in Tasks, ControllerIsSilent(p) PROVE Numbered'
  <2>1. Leaves(p) /\ UNCHANGED <<log, stream, written, clock>>
    BY <1>20, Leaving DEF ControllerIsSilent, data, observers
  <2> QED
    BY <1>2, <1>3, <2>1, NumberedRemains
<1>21. ASSUME NEW p \in Tasks, NEW open \in Listings, StoreConnections(p, open) PROVE Numbered'
  <2>1. Leaves(p) /\ UNCHANGED <<log, stream, written, clock>>
    BY <1>21, Leaving DEF StoreConnections, observers
  <2> QED
    BY <1>2, <1>3, <2>1, NumberedRemains
<1>22. CASE ControllerFails
  <2>1. Opens(Collector, "read") /\ UNCHANGED <<log, stream, written, clock>>
    BY <1>1, <1>22, Opening DEF ControllerFails, data, Opens
  <2> QED
    BY <1>1, <1>2, <1>3, <2>1, NumberedRemains
<1>23. CASE Connect
  <2>1. Opens(Collector, "mark") \/ Leaves(Collector)
    BY <1>23, Connecting
  <2>2. UNCHANGED <<log, stream, written, clock>>
    BY <1>23, Connecting DEF Connect, data, Opens, observers
  <2> QED
    BY <1>1, <1>2, <1>3, <2>1, <2>2, NumberedRemains
<1>24. CASE MarkToEnd
  <2>1. Leaves(Collector) /\ UNCHANGED <<log, stream, written, clock>>
    BY <1>1, <1>24, Leaving DEF MarkToEnd
  <2> QED
    BY <1>1, <1>2, <1>3, <2>1, NumberedRemains
<1>25. CASE MarkLongLog
  <2>1. Moves(Collector, "prune") /\ UNCHANGED <<log, stream, written, clock>>
    BY <1>1, <1>25, Moving DEF MarkLongLog, data, observers
  <2> QED
    BY <1>1, <1>2, <1>3, <2>1, NumberedRemains
<1>26. CASE TakeLine
  <2>1. stream # << >> /\ stream' = Tail(stream) /\ UNCHANGED <<log, written, clock>>
    BY <1>26 DEF TakeLine, observers
  <2>2. Len(stream) \in Nat /\ DOMAIN stream = 1..Len(stream) /\ Len(stream) # 0
    BY <1>0, <2>1, LenProperties, EmptySeq
  <2>3. /\ DOMAIN stream' = 1 .. Len(stream) - 1
        /\ \A i \in DOMAIN stream' : stream'[i] = stream[i + 1] /\ i + 1 \in DOMAIN stream /\ i \in Nat
    <3>1. Tail(stream) \in Seq(Lines) /\ Len(Tail(stream)) = Len(stream) - 1
      BY <1>0, <2>1, HeadTailProperties
    <3>2. DOMAIN Tail(stream) = 1 .. Len(stream) - 1
      BY <3>1, LenProperties
    <3> QED
      BY <1>0, <2>1, <2>2, <3>1, <3>2, HeadTailProperties
  <2>4. Ascending(stream)'
    <3>1. \A i \in DOMAIN stream' : stream'[i].n <= written /\ stream'[i].at <= clock
      BY <2>3 DEF Numbered, Ascending
    <3>2. \A i, k \in DOMAIN stream' : i < k => stream'[i].n < stream'[k].n
      <4> SUFFICES ASSUME NEW i \in DOMAIN stream', NEW k \in DOMAIN stream', i < k
                   PROVE  stream'[i].n < stream'[k].n
        OBVIOUS
      <4>1. i + 1 < k + 1 /\ i + 1 \in DOMAIN stream /\ k + 1 \in DOMAIN stream
        BY <2>3
      <4>2. stream[i + 1].n < stream[k + 1].n
        BY <4>1 DEF Numbered, Ascending
      <4> QED
        BY <2>3, <4>2
    <3> QED
      BY <2>1, <3>1, <3>2 DEF Ascending
  <2>5. Ascending(log)'
    BY <2>1 DEF Numbered, Ascending
  <2>6. \A q \in Tasks : Ascending(job[q].lines)'
    <3>1. CASE job' = job
      BY <2>1, <3>1 DEF Numbered, Ascending
    <3>2. CASE Others(Collector) /\ job'[Collector].lines = <<Head(stream)>>
      <4>1. Head(stream) = stream[1] /\ 1 \in DOMAIN stream
        BY <1>0, <2>2
      <4>2. DOMAIN <<Head(stream)>> = {1} /\ <<Head(stream)>>[1] = stream[1]
        BY <4>1
      <4>3. Ascending(job[Collector].lines)'
        BY <2>1, <3>2, <4>1, <4>2 DEF Numbered, Ascending
      <4>4. \A q \in Tasks : q # Collector => Ascending(job[q].lines)'
        BY <2>1, <3>2 DEF Others, Numbered, Ascending
      <4> QED
        BY <4>3, <4>4
    <3> QED
      BY <1>26, <3>1, <3>2, Taking
  <2> QED
    BY <2>4, <2>5, <2>6 DEF Numbered
<1>27. CASE InsertLine
  <2>1. Leaves(Collector) /\ UNCHANGED <<log, stream, written, clock>>
    BY <1>1, <1>27, Leaving DEF InsertLine
  <2> QED
    BY <1>1, <1>2, <1>3, <2>1, NumberedRemains
<1>28. CASE VisitFileInStream \/ StreamEnds
  <2>1. Opens(Collector, "read") \/ Opens(Collector, "prune") \/ Leaves(Collector)
    BY <1>28, Visiting DEF VisitFileInStream, StreamEnds
  <2>2. (stream' = stream \/ stream' = << >>) /\ UNCHANGED <<log, clock>>
    BY <1>28 DEF VisitFileInStream, StreamEnds, data
  <2>3. UNCHANGED written
    BY <1>28, Visiting DEF VisitFileInStream, StreamEnds, Opens
  <2> QED
    BY <1>1, <1>2, <1>3, <2>1, <2>2, <2>3, NumberedRemains
<1> QED
  BY <1>10, <1>11, <1>12, <1>13, <1>14, <1>15, <1>16, <1>17, <1>18, <1>19, <1>20, <1>21, <1>22,
     <1>23, <1>24, <1>25, <1>26, <1>27, <1>28, <1>29 DEF Next, AtFile

-----------------------------------------------------------------------------
(* The offset.                                                             *)

\* What a task has measured or read since the log was last emptied is still in it, and
\* what it is about to move the offset past has been read.
InHand(p) ==
  /\ job[p].epoch <= emptied.log
  /\ job[p].epoch = emptied.log =>
       /\ job[p].at = "mark" => job[p].len <= Len(log)
       /\ job[p].at = "store" =>
            /\ job[p].end <= Len(log)
            /\ \A i \in 1..job[p].end : log[i].n \in passed

PassedInv ==
  /\ emptied.offset <= emptied.log
  /\ \A p \in Tasks : InHand(p)
  /\ OffsetPassesReadLines

LEMMA InitPassed == Init => PassedInv
<1> SUFFICES ASSUME Init PROVE PassedInv
  OBVIOUS
<1>1. emptied.offset = 0 /\ emptied.log = 0 /\ offset = 0 /\ log = << >> /\ Len(log) = 0
  BY DEF Init
<1>2. \A p \in Tasks : job[p].epoch = 0 /\ job[p].at = "idle"
  BY DEF Init, Idle
<1>3. OffsetPassesReadLines
  BY <1>1 DEF OffsetPassesReadLines
<1>4. \A p \in Tasks : InHand(p)
  BY <1>1, <1>2 DEF InHand
<1> QED
  BY <1>1, <1>3, <1>4 DEF PassedInv

\* The log grows at most, and nobody moves the offset or reads.
LEMMA PassedGrows ==
  ASSUME Typed, PassedInv, UNCHANGED <<offset, emptied>>, passed \subseteq passed',
         Len(log') \in Nat, Len(log) <= Len(log'), \A i \in 1..Len(log) : log'[i] = log[i],
         \A q \in Tasks :
           \/ job'[q] = job[q]
           \/ /\ job'[q].epoch <= emptied.log /\ job'[q].at # "store"
              /\ job'[q].at = "mark" => job'[q].len <= Len(log)
              /\ job'[q].len \in Nat
  PROVE  PassedInv'
<1>1. Len(log) \in Nat /\ offset \in Nat
  BY LenProperties, BoundsAssumption DEF Typed, TypeOK
<1>2. OffsetPassesReadLines'
  <2> SUFFICES ASSUME emptied.offset = emptied.log
               PROVE  offset <= Len(log') /\ \A i \in 1..offset : log'[i].n \in passed'
    BY DEF OffsetPassesReadLines
  <2>1. offset <= Len(log) /\ \A i \in 1..offset : log[i].n \in passed
    BY DEF PassedInv, OffsetPassesReadLines
  <2> QED
    BY <1>1, <2>1
<1>3. ASSUME NEW q \in Tasks PROVE InHand(q)'
  <2>1. job[q].len \in Nat /\ job[q].end \in Nat
    BY JobFields, BoundsAssumption
  <2>2. CASE job'[q] = job[q]
    BY <1>1, <2>1, <2>2 DEF PassedInv, InHand
  <2>3. CASE /\ job'[q].epoch <= emptied.log /\ job'[q].at # "store"
             /\ job'[q].at = "mark" => job'[q].len <= Len(log)
             /\ job'[q].len \in Nat
    BY <1>1, <2>3 DEF InHand
  <2> QED
    BY <2>2, <2>3
<1> QED
  BY <1>2, <1>3 DEF PassedInv

\* The log is emptied: what anybody has measured or read before is of an earlier one.
LEMMA PassedRestarts ==
  ASSUME Typed, PassedInv, emptied' = [emptied EXCEPT !.log = @ + 1],
         \A q \in Tasks : job'[q].epoch = job[q].epoch
  PROVE  PassedInv'
<1>1. emptied.log \in Nat /\ emptied.offset \in Nat /\ \A q \in Tasks : job[q].epoch \in Nat
  BY JobFields DEF Typed, TypeOK
<1>2. emptied'.log = emptied.log + 1 /\ emptied'.offset = emptied.offset
  BY DEF Typed, TypeOK
<1>3. emptied'.offset < emptied'.log
  BY <1>1, <1>2 DEF PassedInv
<1>4. \A q \in Tasks : job'[q].epoch < emptied'.log
  BY <1>1, <1>2 DEF PassedInv, InHand
<1> QED
  BY <1>1, <1>2, <1>3, <1>4 DEF PassedInv, InHand, OffsetPassesReadLines

LEMMA PassedStep ==
  ASSUME Typed, Typed', PassedInv, [Next]_vars
  PROVE  PassedInv'
<1>0. /\ log \in Seq(Lines) /\ Len(log) \in Nat /\ DOMAIN log = 1..Len(log)
      /\ Len(log') \in Nat /\ offset \in Nat /\ emptied.log \in Nat /\ emptied.offset \in Nat
      /\ emptied \in [log : Nat, offset : Nat]
      /\ \A p \in Tasks : /\ job[p].len \in Nat /\ job[p].end \in Nat /\ job[p].epoch \in Nat
                          /\ job'[p].len \in Nat
  <2>1. log \in Seq(Lines) /\ log' \in Seq(Lines) /\ job' \in [Tasks -> Jobs]
    BY DEF Typed, TypeOK
  <2>2. \A p \in Tasks : job'[p].len \in 0..MaxLines /\ MaxLines \in Nat
    BY <2>1, BoundsAssumption DEF Jobs
  <2>3. \A p \in Tasks : job[p].len \in Nat /\ job[p].end \in Nat /\ job[p].epoch \in Nat
    BY <2>2, JobFields
  <2>4. Len(log) \in Nat /\ DOMAIN log = 1..Len(log) /\ Len(log') \in Nat
    BY <2>1, LenProperties
  <2>5. offset \in Nat /\ emptied \in [log : Nat, offset : Nat]
    BY BoundsAssumption DEF Typed, TypeOK
  <2> QED
    BY <2>1, <2>2, <2>3, <2>4, <2>5
<1>1. Collector \in Tasks
  BY DEF Tasks
<1>2. ASSUME NEW p \in Tasks, UNCHANGED <<offset, emptied, log, passed>>,
             Leaves(p) \/ Opens(p, "read") \/ Opens(p, "prune") \/ Opens(p, "mark")
               \/ Moves(p, "prune") \/ Moves(p, "zero")
      PROVE  PassedInv'
  <2>1. \A q \in Tasks :
           \/ job'[q] = job[q]
           \/ /\ job'[q].epoch <= emptied.log /\ job'[q].at # "store"
              /\ job'[q].at = "mark" => job'[q].len <= Len(log)
              /\ job'[q].len \in Nat
    <3> TAKE q \in Tasks
    <3>1. CASE q # p
      BY <1>2, <3>1 DEF Leaves, Opens, Moves, Others
    <3>2. CASE q = p
      <4>1. job[p].epoch <= emptied.log /\ job'[p].len \in Nat
        BY <1>0 DEF PassedInv, InHand
      <4> QED
        BY <1>0, <1>2, <3>2, <4>1 DEF Leaves, Opens, Moves
    <3> QED
      BY <3>1, <3>2
  <2> QED
    BY <1>0, <1>2, <2>1, PassedGrows
<1>3. ASSUME UNCHANGED <<offset, emptied, log, passed, job>> PROVE PassedInv'
  BY <1>0, <1>3, PassedGrows
<1>10. CASE UNCHANGED vars
  BY <1>3, <1>10 DEF vars, data, observers
<1>11. ASSUME NEW key \in Keys \cup {Noise}, WriteLine(key) PROVE PassedInv'
  <2> DEFINE line == [n |-> written + 1, key |-> key, at |-> clock, on |-> logging]
  <2>1. log' = Append(log, line) /\ UNCHANGED <<offset, emptied, passed, job>>
    BY <1>11 DEF WriteLine
  <2>2. line \in Lines
    BY <1>11 DEF WriteLine, Lines, Typed, TypeOK
  <2> HIDE DEF line
  <2>3. Len(log') = Len(log) + 1 /\ \A i \in 1..Len(log) : log'[i] = log[i]
    BY <1>0, <2>1, <2>2, AppendProperties
  <2> QED
    BY <1>0, <2>1, <2>3, PassedGrows
<1>12. CASE StartKernel
  BY <1>12, PassedRestarts DEF StartKernel
<1>13. CASE Tick \/ ToggleLogging \/ ClearAccessLogs \/ LookAtLog \/ FilterBlocks
  BY <1>3, <1>13 DEF Tick, ToggleLogging, ClearAccessLogs, LookAtLog, FilterBlocks, observers
<1>30. CASE Crash
  <2>1. \A q \in Tasks : /\ job'[q].epoch <= emptied.log /\ job'[q].at # "store"
                          /\ job'[q].at # "mark" /\ job'[q].len \in Nat
    BY <1>0, <1>30, Dying
  <2>2. UNCHANGED <<log, offset, emptied, passed>>
    BY <1>30, Dying DEF observers
  <2> QED
    BY <1>0, <2>1, <2>2, PassedGrows
<1>14. ASSUME NEW p \in Tasks, ReadLines(p) PROVE PassedInv'
  <2> DEFINE known == IF offset <= job[p].len THEN offset ELSE 0
             start == IF job[p].len - known > LogLimit THEN job[p].len - LogLimit ELSE known
  <2>1. /\ passed' = passed \cup {log[i].n : i \in known + 1 .. Len(log)}
        /\ UNCHANGED <<log, offset, emptied>>
    BY <1>14 DEF ReadLines, data
  <2>2. \A q \in Tasks : q # p => job'[q] = job[q]
    BY <1>14, ReadLinesReads
  <2>3. CASE GoTo(p, "prune") \/ GoBack(p)
    <3>1. job'[p].epoch <= emptied.log /\ job'[p].at # "store" /\ job'[p].at # "mark"
      BY <1>0, <2>3, Moving, Leaving DEF Moves, Leaves, PassedInv, InHand
    <3>2. \A q \in Tasks :
             \/ job'[q] = job[q]
             \/ /\ job'[q].epoch <= emptied.log /\ job'[q].at # "store"
                /\ job'[q].at = "mark" => job'[q].len <= Len(log)
                /\ job'[q].len \in Nat
      BY <1>0, <2>2, <3>1
    <3> QED
      BY <1>0, <2>1, <3>2, PassedGrows
  <2>4. CASE /\ job'[p].at = "store" /\ job'[p].end = Len(log) /\ start < Len(log)
             /\ job'[p].epoch = IF known = 0 THEN emptied.log ELSE emptied.offset
    <3>1. known \in Nat
      BY <1>0
    <3>2. OffsetPassesReadLines'
      BY <2>1 DEF PassedInv, OffsetPassesReadLines
    <3>3. InHand(p)'
      <4>1. job'[p].epoch <= emptied'.log
        BY <1>0, <2>1, <2>4 DEF PassedInv
      <4>2. ASSUME job'[p].epoch = emptied.log, NEW i \in 1..Len(log) PROVE log[i].n \in passed'
        <5>1. CASE i > known
          <6>1. i \in known + 1 .. Len(log)
            BY <1>0, <3>1, <5>1
          <6> QED
            BY <2>1, <6>1
        <5>2. CASE i <= known
          <6>1. known # 0 /\ known = offset /\ emptied.offset = emptied.log
            BY <2>4, <4>2, <5>2
          <6>2. i \in 1..offset
            BY <1>0, <5>2, <6>1
          <6> QED
            BY <2>1, <6>1, <6>2 DEF PassedInv, OffsetPassesReadLines
        <5> QED
          BY <3>1, <5>1, <5>2
      <4> QED
        BY <1>0, <2>1, <2>4, <4>1, <4>2 DEF InHand
    <3>4. \A q \in Tasks : q # p => InHand(q)'
      BY <2>1, <2>2 DEF PassedInv, InHand
    <3> QED
      BY <2>1, <3>2, <3>3, <3>4 DEF PassedInv
  <2> QED
    BY <1>14, <2>3, <2>4, ReadLinesReads
<1>15. ASSUME NEW p \in Tasks, Store(p) PROVE PassedInv'
  <2>1. /\ offset' = job[p].end /\ emptied' = [emptied EXCEPT !.offset = job[p].epoch]
        /\ job[p].at = "store" /\ UNCHANGED <<log, passed>> /\ Leaves(p)
    BY <1>15, Leaving DEF Store
  <2>2. emptied'.offset = job[p].epoch /\ emptied'.log = emptied.log
    BY <1>0, <2>1
  <2>3. OffsetPassesReadLines'
    BY <2>1, <2>2 DEF PassedInv, InHand, OffsetPassesReadLines
  <2>4. \A q \in Tasks : InHand(q)'
    BY <1>0, <2>1, <2>2 DEF PassedInv, InHand, Leaves, Others
  <2> QED
    BY <2>2, <2>3, <2>4 DEF PassedInv, InHand
<1>16. ASSUME NEW p \in Tasks, StoreAndPrune(p) PROVE PassedInv'
  <2>1. Moves(p, "stuck") /\ emptied' = [emptied EXCEPT !.log = @ + 1]
    BY <1>16, Moving DEF StoreAndPrune, Empties
  <2> QED
    BY <2>1, PassedRestarts DEF Moves, Others
<1>17. ASSUME NEW p \in Tasks, StoreAndFail(p) \/ StoreBreaksOff(p) PROVE PassedInv'
  <2>1. Leaves(p) /\ UNCHANGED <<offset, emptied, log, passed>>
    BY <1>17, Leaving DEF StoreAndFail, StoreBreaksOff
  <2> QED
    BY <1>2, <2>1
<1>18. ASSUME NEW p \in Tasks, EmptyLongLog(p) PROVE PassedInv'
  <2>1. CASE Empties /\ GoTo(p, "zero")
    <3>1. Moves(p, "zero") /\ emptied' = [emptied EXCEPT !.log = @ + 1]
      BY <2>1, Moving DEF Empties
    <3> QED
      BY <3>1, PassedRestarts DEF Moves, Others
  <2>2. CASE GiveUp(p) /\ UNCHANGED <<log, emptied>>
    BY <1>2, <1>18, <2>2, Leaving DEF EmptyLongLog
  <2> QED
    BY <1>18, <2>1, <2>2 DEF EmptyLongLog
<1>19. ASSUME NEW p \in Tasks, ResetOffset(p) PROVE PassedInv'
  <2>1. /\ offset' = 0 /\ emptied' = [emptied EXCEPT !.offset = emptied.log]
        /\ UNCHANGED <<log, passed>> /\ Leaves(p)
    BY <1>19, Leaving DEF ResetOffset
  <2>2. emptied'.offset = emptied.log /\ emptied'.log = emptied.log
    BY <1>0, <2>1
  <2>3. OffsetPassesReadLines'
    BY <1>0, <2>1, <2>2 DEF OffsetPassesReadLines
  <2>4. \A q \in Tasks : InHand(q)'
    BY <1>0, <2>1, <2>2 DEF PassedInv, InHand, Leaves, Others
  <2> QED
    BY <1>0, <2>2, <2>3, <2>4 DEF PassedInv
<1>20. ASSUME NEW p \in Tasks, AskForLogs(p) PROVE PassedInv'
  <2>1. Opens(p, "read") /\ UNCHANGED <<log, offset>>
    BY <1>20, Opening DEF AskForLogs, data
  <2> QED
    BY <1>2, <2>1 DEF Opens
<1>21. ASSUME NEW p \in Tasks, ControllerIsSilent(p) PROVE PassedInv'
  <2>1. Leaves(p)
    BY <1>21, Leaving DEF ControllerIsSilent
  <2> QED
    BY <1>2, <1>21, <2>1 DEF ControllerIsSilent, data, observers
<1>22. ASSUME NEW p \in Tasks, NEW open \in Listings, StoreConnections(p, open) PROVE PassedInv'
  <2>1. Leaves(p)
    BY <1>22, Leaving DEF StoreConnections
  <2> QED
    BY <1>2, <1>22, <2>1 DEF StoreConnections, observers
<1>23. CASE ControllerFails
  <2>1. Opens(Collector, "read") /\ UNCHANGED <<log, offset>>
    BY <1>1, <1>23, Opening DEF ControllerFails, data
  <2> QED
    BY <1>1, <1>2, <2>1 DEF Opens
<1>24. CASE Connect
  <2>1. Opens(Collector, "mark") \/ (Leaves(Collector) /\ UNCHANGED observers)
    BY <1>24, Connecting
  <2>2. UNCHANGED <<log, offset>>
    BY <1>24 DEF Connect, data
  <2> QED
    BY <1>1, <1>2, <2>1, <2>2 DEF Opens, observers
<1>25. CASE MarkToEnd
  <2> DEFINE j == job[Collector]
  <2>1. /\ offset' = j.len /\ emptied' = [emptied EXCEPT !.offset = j.epoch] /\ j.at = "mark"
        /\ passed' = passed \cup {log[i].n : i \in DOMAIN log \cap 1..j.len}
        /\ UNCHANGED log /\ Leaves(Collector)
    BY <1>1, <1>25, Leaving DEF MarkToEnd
  <2>2. emptied'.offset = j.epoch /\ emptied'.log = emptied.log
    BY <1>0, <2>1
  <2>3. j.len \in Nat /\ InHand(Collector)
    BY <1>0, <1>1 DEF PassedInv
  <2>4. OffsetPassesReadLines'
    <3> SUFFICES ASSUME j.epoch = emptied.log
                 PROVE  j.len <= Len(log) /\ \A i \in 1..j.len : log[i].n \in passed'
      BY <2>1, <2>2 DEF OffsetPassesReadLines
    <3>1. j.len <= Len(log)
      BY <2>1, <2>3 DEF InHand
    <3>2. \A i \in 1..j.len : i \in DOMAIN log \cap 1..j.len
      BY <1>0, <2>3, <3>1
    <3> QED
      BY <2>1, <3>1, <3>2
  <2>5. \A q \in Tasks : InHand(q)'
    BY <1>0, <2>1, <2>2 DEF PassedInv, InHand, Leaves, Others
  <2> QED
    BY <2>2, <2>3, <2>4, <2>5 DEF PassedInv, InHand
<1>26. CASE MarkLongLog
  <2>1. Moves(Collector, "prune")
    BY <1>1, <1>26, Moving DEF MarkLongLog
  <2> QED
    BY <1>1, <1>2, <1>26, <2>1 DEF MarkLongLog, data, observers
<1>27. CASE TakeLine
  <2>1. UNCHANGED <<offset, emptied, log, passed>>
    BY <1>27 DEF TakeLine, observers
  <2>2. \A q \in Tasks :
           \/ job'[q] = job[q]
           \/ /\ job'[q].epoch <= emptied.log /\ job'[q].at # "store"
              /\ job'[q].at = "mark" => job'[q].len <= Len(log)
              /\ job'[q].len \in Nat
    BY <1>0, <1>27, Taking DEF Others
  <2> QED
    BY <1>0, <2>1, <2>2, PassedGrows
<1>28. CASE InsertLine
  <2>1. Leaves(Collector)
    BY <1>1, <1>28, Leaving DEF InsertLine
  <2> QED
    BY <1>1, <1>2, <1>28, <2>1 DEF InsertLine
<1>29. CASE VisitFileInStream \/ StreamEnds
  <2>1. \/ Opens(Collector, "read") \/ Opens(Collector, "prune")
        \/ Leaves(Collector) /\ UNCHANGED <<emptied, passed>>
    BY <1>29, Visiting DEF VisitFileInStream, StreamEnds
  <2>2. UNCHANGED <<log, offset>>
    BY <1>29 DEF VisitFileInStream, StreamEnds, data
  <2> QED
    BY <1>1, <1>2, <2>1, <2>2 DEF Opens
<1> QED
  BY <1>10, <1>11, <1>12, <1>13, <1>14, <1>15, <1>16, <1>17, <1>18, <1>19, <1>20, <1>21, <1>22,
     <1>23, <1>24, <1>25, <1>26, <1>27, <1>28, <1>29, <1>30 DEF Next, AtFile

\* While nobody has emptied the log since the offset was measured, the offset passes only
\* lines that were read or left to the stream, whatever the number of tasks at the file.
THEOREM NothingPassedUnread == Spec => []OffsetPassesReadLines
<1>1. Init => Typed /\ PassedInv
  BY InitTyped, InitPassed
<1>2. Typed /\ PassedInv /\ [Next]_vars => (Typed /\ PassedInv)'
  BY TypedStep, PassedStep
<1>3. PassedInv => OffsetPassesReadLines
  BY DEF PassedInv
<1> QED
  BY <1>1, <1>2, <1>3, PTL DEF Spec

-----------------------------------------------------------------------------
(* Counting.                                                               *)

LEMMA LineNumbers ==
  ASSUME NEW lines \in Seq(Lines)
  PROVE  \A k \in DOMAIN lines : lines[k] \in Lines /\ lines[k].n \in 1..MaxLines
<1>1. \A k \in DOMAIN lines : lines[k] \in Lines
  BY LenProperties, ElementOfSeq
<1> QED
  BY <1>1 DEF Lines

LEMMA CountsLines ==
  ASSUME Typed, NEW lines \in Seq(Lines), NEW source \in {"file", "stream"},
         counted' = CountLines(lines, source)
  PROVE  /\ \A h \in LineHashes : counted'[h] \in Nat /\ counted[h] \in Nat
         /\ \A h \in LineHashes : h[1] # source => counted'[h] = counted[h]
         /\ \A n \in 1..MaxLines :
              \/ counted'[<<source, n>>] = counted[<<source, n>>]
              \/ /\ counted'[<<source, n>>] = counted[<<source, n>>] + 1
                 /\ \E k \in DOMAIN lines : lines[k].n = n
<1> DEFINE hashes == {<<source, line.n>> : line \in Fresh(lines, source)}
<1>1. counted \in [LineHashes -> 0..2]
  BY DEF Typed, TypeOK
<1>2. \A h \in LineHashes :
        counted'[h] = IF h \in hashes /\ counted[h] < 2 THEN counted[h] + 1 ELSE counted[h]
  BY <1>1 DEF CountLines
<1>3. \A h \in hashes : h[1] = source /\ \E k \in DOMAIN lines : lines[k].n = h[2]
  BY FreshTyped DEF Range
<1> HIDE DEF hashes
<1>4. \A h \in LineHashes : counted[h] \in Nat
  BY <1>1
<1>5. \A h \in LineHashes : counted'[h] \in Nat
  BY <1>2, <1>4
<1>6. \A h \in LineHashes : h[1] # source => counted'[h] = counted[h]
  BY <1>2, <1>3
<1>7. ASSUME NEW n \in 1..MaxLines
      PROVE  \/ counted'[<<source, n>>] = counted[<<source, n>>]
             \/ /\ counted'[<<source, n>>] = counted[<<source, n>>] + 1
                /\ \E k \in DOMAIN lines : lines[k].n = n
  <2>1. <<source, n>> \in LineHashes /\ <<source, n>>[2] = n
    BY DEF LineHashes
  <2>2. CASE <<source, n>> \in hashes
    BY <1>2, <1>3, <2>1, <2>2
  <2>3. CASE <<source, n>> \notin hashes
    BY <1>2, <2>1, <2>3
  <2> QED
    BY <2>2, <2>3
<1> QED
  BY <1>4, <1>5, <1>6, <1>7

\* Lines of the log that have been counted, by a reading that moved the offset.
CountedInLog ==
  {i \in DOMAIN log : counted[<<"file", log[i].n>>] > 0 /\ log[i].n \notin unmarked}

\* The file is one task's at a time.
Alone == \A p, q \in Tasks : Busy(p) /\ Busy(q) => p = q

\* What the task at the file has measured reaches past every counted line, and what it has
\* read has not been counted.
HoldsFile(p) ==
  /\ job[p].at \in {"read", "mark"} =>
       (CountedInLog # {} => offset <= job[p].len /\ job[p].len <= Len(log))
  /\ job[p].at = "store" =>
       /\ \A k \in DOMAIN job[p].lines :
            counted[<<"file", job[p].lines[k].n>>] = 0 \/ job[p].lines[k].n \in unmarked
       /\ \A i \in CountedInLog : i <= job[p].end /\ job[p].end <= Len(log)
       /\ \A i \in DOMAIN log, k \in DOMAIN job[p].lines :
            log[i].n = job[p].lines[k].n => i <= job[p].end /\ job[p].end <= Len(log)
  /\ job[p].at = "zero" => CountedInLog = {}

FileCounted ==
  /\ Alone
  /\ \A n \in 1..MaxLines : counted[<<"file", n>>] <= 1 \/ n \in unmarked
  /\ \A n \in 1..MaxLines : counted[<<"file", n>>] > 0 => n <= written
  /\ \A i \in CountedInLog : i <= offset /\ offset <= Len(log)
  /\ \A p \in Tasks : HoldsFile(p)

FileInv == ~overlapped => FileCounted

LEMMA InitFile == Init => FileInv
<1> SUFFICES ASSUME Init PROVE FileCounted
  BY DEF FileInv
<1>1. \A p \in Tasks : job[p].at = "idle"
  BY DEF Init, Idle
<1>2. \A n \in 1..MaxLines : counted[<<"file", n>>] = 0
  BY DEF Init, LineHashes
<1>3. CountedInLog = {}
  BY NoneAscends DEF CountedInLog, Init
<1>4. Alone
  BY <1>1 DEF Alone, Busy, InFile
<1> QED
  BY <1>1, <1>2, <1>3, <1>4 DEF FileCounted, HoldsFile

LEMMA StaysAlone ==
  ASSUME Alone, NEW p \in Tasks, Others(p),
         Busy(p) \/ job'[p].at \notin InFile \/ \A q \in Tasks \ {p} : ~Busy(q)
  PROVE  Alone'
  BY DEF Alone, Others, Busy

LEMMA NobodyElse ==
  ASSUME Alone, NEW p \in Tasks, Busy(p), Others(p), NEW q \in Tasks, q # p
  PROVE  job'[q].at \notin {"read", "mark", "store", "zero"}
  BY DEF Alone, Others, Busy, InFile

\* The file and what has been counted of it stay, and a task that comes to the file
\* measures it.
LEMMA FileRemains ==
  ASSUME Typed, FileCounted, UNCHANGED <<log, offset, written, unmarked>>,
         \A n \in 1..MaxLines : counted'[<<"file", n>>] = counted[<<"file", n>>],
         Alone',
         \A q \in Tasks :
           \/ job'[q] = job[q]
           \/ job'[q].at \notin {"read", "mark", "store", "zero"}
           \/ job'[q].at \in {"read", "mark"} /\ job'[q].len = Len(log)
  PROVE  FileCounted'
<1>1. \A i \in DOMAIN log : log[i].n \in 1..MaxLines
  BY LineNumbers DEF Typed, TypeOK
<1>2. CountedInLog' = CountedInLog
  BY <1>1 DEF CountedInLog
<1>3. Len(log) \in Nat
  BY LenProperties DEF Typed, TypeOK
<1>4. ASSUME NEW q \in Tasks PROVE HoldsFile(q)'
  <2>1. CASE job'[q] = job[q]
    <3>1. \A k \in DOMAIN job[q].lines : job[q].lines[k].n \in 1..MaxLines
      BY JobFields, LineNumbers
    <3>2. HoldsFile(q)
      BY DEF FileCounted
    <3> QED
      BY <1>2, <2>1, <3>1, <3>2 DEF HoldsFile
  <2>2. CASE job'[q].at \notin {"read", "mark", "store", "zero"}
    BY <2>2 DEF HoldsFile
  <2>3. CASE job'[q].at \in {"read", "mark"} /\ job'[q].len = Len(log)
    <3>1. CountedInLog # {} => offset <= Len(log)
      BY DEF FileCounted
    <3> QED
      BY <1>2, <1>3, <2>3, <3>1 DEF HoldsFile
  <2> QED
    BY <2>1, <2>2, <2>3
<1> QED
  BY <1>2, <1>4 DEF FileCounted

\* An empty log holds no counted line.
LEMMA FileRestarts ==
  ASSUME Typed, FileCounted, log' = << >>, UNCHANGED <<written, counted, unmarked>>, Alone',
         \A q \in Tasks : job'[q] = job[q] \/ job'[q].at # "store"
  PROVE  FileCounted'
<1>1. CountedInLog' = {} /\ DOMAIN log' = {}
  BY NoneAscends DEF CountedInLog
<1>2. \A q \in Tasks : HoldsFile(q)'
  BY <1>1 DEF FileCounted, HoldsFile
<1> QED
  BY <1>1, <1>2 DEF FileCounted

\* A task stores what it has read.
LEMMA FileStored ==
  ASSUME Typed, Numbered, FileCounted, NEW p \in Tasks, job[p].at = "store",
         counted' = CountLines(job[p].lines, "file"), UNCHANGED <<written, unmarked>>, Others(p),
         job'[p].at \notin {"read", "mark", "store", "zero"},
         \/ log' = log /\ offset' = job[p].end
         \/ log' = << >>
  PROVE  FileCounted'
<1>1. /\ job[p].lines \in Seq(Lines) /\ job[p].end \in Nat
      /\ \A k \in DOMAIN job[p].lines : job[p].lines[k].n \in 1..MaxLines
      /\ \A i \in DOMAIN log : log[i].n \in 1..MaxLines
  <2>1. job[p].lines \in Seq(Lines) /\ job[p].end \in 0..MaxLines /\ MaxLines \in Nat
    BY JobFields, BoundsAssumption
  <2>2. log \in Seq(Lines)
    BY DEF Typed, TypeOK
  <2> QED
    BY <2>1, <2>2, LineNumbers
<1>2. \A n \in 1..MaxLines :
        /\ counted[<<"file", n>>] \in Nat /\ counted'[<<"file", n>>] \in Nat
        /\ \/ counted'[<<"file", n>>] = counted[<<"file", n>>]
           \/ /\ counted'[<<"file", n>>] = counted[<<"file", n>>] + 1
              /\ \E k \in DOMAIN job[p].lines : job[p].lines[k].n = n
  <2>1. \A n \in 1..MaxLines : <<"file", n>> \in LineHashes
    BY DEF LineHashes
  <2> QED
    BY <1>1, <2>1, CountsLines
<1>3. Busy(p) /\ HoldsFile(p)
  BY DEF Busy, InFile, FileCounted
<1>4. Alone'
  BY <1>3, StaysAlone DEF FileCounted
<1>5. ASSUME NEW n \in 1..MaxLines PROVE counted'[<<"file", n>>] <= 1 \/ n \in unmarked'
  <2>1. CASE counted'[<<"file", n>>] = counted[<<"file", n>>]
    BY <2>1 DEF FileCounted
  <2>2. CASE /\ counted'[<<"file", n>>] = counted[<<"file", n>>] + 1
             /\ \E k \in DOMAIN job[p].lines : job[p].lines[k].n = n
    <3>1. counted[<<"file", n>>] = 0 \/ n \in unmarked
      BY <1>3, <2>2 DEF HoldsFile
    <3> QED
      BY <2>2, <3>1
  <2> QED
    BY <1>2, <2>1, <2>2
<1>6. \A n \in 1..MaxLines : counted'[<<"file", n>>] > 0 => n <= written'
  BY <1>2 DEF FileCounted, Numbered, Ascending
<1>7. \A i \in CountedInLog' : i <= offset' /\ offset' <= Len(log')
  <2>1. CASE log' = << >>
    BY <2>1, NoneAscends DEF CountedInLog
  <2>2. CASE log' = log /\ offset' = job[p].end
    <3> SUFFICES ASSUME NEW i \in DOMAIN log, counted'[<<"file", log[i].n>>] > 0,
                        log[i].n \notin unmarked
                 PROVE  i <= job[p].end /\ job[p].end <= Len(log)
      BY <2>2 DEF CountedInLog
    <3>1. CASE counted'[<<"file", log[i].n>>] = counted[<<"file", log[i].n>>]
      BY <1>3, <3>1 DEF HoldsFile, CountedInLog
    <3>2. CASE \E k \in DOMAIN job[p].lines : job[p].lines[k].n = log[i].n
      BY <1>3, <3>2 DEF HoldsFile
    <3> QED
      BY <1>1, <1>2, <3>1, <3>2
  <2> QED
    BY <2>1, <2>2
<1>8. \A q \in Tasks : HoldsFile(q)'
  <2>1. \A q \in Tasks : job'[q].at \notin {"read", "mark", "store", "zero"}
    BY <1>3, NobodyElse DEF FileCounted
  <2> QED
    BY <2>1 DEF HoldsFile
<1> QED
  BY <1>4, <1>5, <1>6, <1>7, <1>8 DEF FileCounted

\* A task stores what it has read, or the first of it, and leaves the offset where it was.
LEMMA FileStoredOnly ==
  ASSUME Typed, Numbered, FileCounted, NEW p \in Tasks, job[p].at = "store",
         NEW lines \in Seq(Lines), NEW n \in 0..Len(job[p].lines),
         lines = job[p].lines \/ lines = SubSeq(job[p].lines, 1, n),
         counted' = CountLines(lines, "file"), Unmarked(lines), Leaves(p),
         UNCHANGED <<log, offset, written>>
  PROVE  FileCounted'
<1>1. /\ job[p].lines \in Seq(Lines)
      /\ \A k \in DOMAIN job[p].lines : job[p].lines[k].n \in 1..MaxLines
      /\ \A i \in DOMAIN log : log[i].n \in 1..MaxLines
  BY JobFields, LineNumbers DEF Typed, TypeOK
<1>2. /\ DOMAIN lines \subseteq DOMAIN job[p].lines
      /\ \A k \in DOMAIN lines : lines[k] = job[p].lines[k]
  BY <1>1, FirstOf
<1>3. \A k \in DOMAIN lines : lines[k].n \in unmarked' /\ lines[k].n <= written
  BY <1>2 DEF Unmarked, Range, Numbered, Ascending
<1>4. unmarked \subseteq unmarked'
  BY DEF Unmarked
<1>5. \A m \in 1..MaxLines :
        \/ counted'[<<"file", m>>] = counted[<<"file", m>>]
        \/ m \in unmarked' /\ m <= written
  BY <1>3, CountsLines
<1>6. CountedInLog' \subseteq CountedInLog
  BY <1>1, <1>4, <1>5 DEF CountedInLog
<1>7. Busy(p) /\ Others(p)
  BY DEF Busy, InFile, Leaves
<1>8. Alone'
  BY <1>7, StaysAlone DEF FileCounted
<1>9. \A q \in Tasks : HoldsFile(q)'
  <2>1. \A q \in Tasks : job'[q].at \notin {"read", "mark", "store", "zero"}
    BY <1>7, NobodyElse DEF FileCounted, Leaves
  <2> QED
    BY <2>1 DEF HoldsFile
<1>10. \A m \in 1..MaxLines : counted'[<<"file", m>>] <= 1 \/ m \in unmarked'
  BY <1>4, <1>5 DEF FileCounted
<1>11. \A m \in 1..MaxLines : counted'[<<"file", m>>] > 0 => m <= written'
  BY <1>5 DEF FileCounted
<1>12. \A i \in CountedInLog' : i <= offset' /\ offset' <= Len(log')
  BY <1>6 DEF FileCounted
<1> QED
  BY <1>8, <1>9, <1>10, <1>11, <1>12 DEF FileCounted

LEMMA FileStep ==
  ASSUME Typed, Typed', Numbered, FileInv, [Next]_vars
  PROVE  FileInv'
<1> SUFFICES ASSUME ~overlapped' PROVE FileCounted'
  BY DEF FileInv
<1>0. /\ log \in Seq(Lines) /\ Len(log) \in Nat /\ DOMAIN log = 1..Len(log)
      /\ offset \in Nat /\ MaxLines \in Nat /\ written \in Nat
      /\ \A p \in Tasks : job[p].len \in Nat /\ job[p].end \in Nat
      /\ \A i \in DOMAIN log : log[i].n \in 1..MaxLines
  <2>1. log \in Seq(Lines) /\ offset \in 0..MaxLines /\ written \in 0..MaxLines /\ MaxLines \in Nat
    BY BoundsAssumption DEF Typed, TypeOK
  <2>2. \A p \in Tasks : job[p].len \in 0..MaxLines /\ job[p].end \in 0..MaxLines
    BY JobFields
  <2> QED
    BY <2>1, <2>2, LenProperties, LineNumbers
<1>1. Collector \in Tasks
  BY DEF Tasks
<1>2. ASSUME ~overlapped, NEW p \in Tasks, UNCHANGED <<log, offset, written, counted, unmarked>>,
             \/ Leaves(p)
             \/ \E place \in {"read", "prune", "mark"} : Opens(p, place)
             \/ Busy(p) /\ Moves(p, "prune")
      PROVE  FileCounted'
  <2>1. FileCounted /\ Alone
    BY <1>2 DEF FileInv, FileCounted
  <2>2. Others(p)
    BY <1>2 DEF Leaves, Opens, Moves
  <2>3. Busy(p) \/ job'[p].at \notin InFile \/ \A q \in Tasks \ {p} : ~Busy(q)
    BY <1>2 DEF Leaves, Opens, InFile
  <2>4. Alone'
    BY <2>1, <2>2, <2>3, StaysAlone
  <2>5. \A q \in Tasks :
           \/ job'[q] = job[q]
           \/ job'[q].at \notin {"read", "mark", "store", "zero"}
           \/ job'[q].at \in {"read", "mark"} /\ job'[q].len = Len(log)
    BY <1>2, <2>2 DEF Others, Leaves, Opens, Moves
  <2> QED
    BY <1>2, <2>1, <2>4, <2>5, FileRemains
<1>3. ASSUME UNCHANGED <<log, offset, written, counted, job, overlapped, unmarked>> PROVE FileCounted'
  <2>1. FileCounted
    BY <1>3 DEF FileInv
  <2>2. Alone'
    BY <1>3, <2>1 DEF FileCounted, Alone, Busy
  <2> QED
    BY <1>3, <2>1, <2>2, FileRemains
<1>10. CASE UNCHANGED vars
  BY <1>3, <1>10 DEF vars, data, observers
<1>11. ASSUME NEW key \in Keys \cup {Noise}, WriteLine(key) PROVE FileCounted'
  <2> DEFINE line == [n |-> written + 1, key |-> key, at |-> clock, on |-> logging]
  <2>1. /\ log' = Append(log, line) /\ written' = written + 1
        /\ UNCHANGED <<offset, counted, job, overlapped, unmarked>>
    BY <1>11 DEF WriteLine
  <2>2. line \in Lines /\ line.n = written + 1 /\ written + 1 \in 1..MaxLines
    BY <1>0, <1>11 DEF WriteLine, Lines, Typed, TypeOK
  <2> HIDE DEF line
  <2>3. /\ Len(log') = Len(log) + 1 /\ \A i \in 1..Len(log) : log'[i] = log[i]
        /\ DOMAIN log' = 1 .. Len(log) + 1 /\ log'[Len(log) + 1] = line
    <3>1. Append(log, line) \in Seq(Lines) /\ Len(Append(log, line)) = Len(log) + 1
      BY <1>0, <2>2, AppendProperties
    <3> QED
      BY <1>0, <2>1, <2>2, <3>1, LenProperties, AppendProperties
  <2>4. FileCounted
    BY <2>1 DEF FileInv
  <2>5. ~(counted[<<"file", written + 1>>] > 0)
    BY <1>0, <2>2, <2>4 DEF FileCounted
  <2>6. CountedInLog' = CountedInLog
    <3>1. \A i \in DOMAIN log' : i \in DOMAIN log \/ i = Len(log) + 1
      BY <1>0, <2>3
    <3>2. \A i \in DOMAIN log : i \in DOMAIN log' /\ log'[i].n = log[i].n
      BY <1>0, <2>3
    <3> QED
      BY <2>1, <2>2, <2>3, <2>5, <3>1, <3>2 DEF CountedInLog
  <2>7. \A i \in CountedInLog' : i <= offset' /\ offset' <= Len(log')
    BY <1>0, <2>1, <2>3, <2>4, <2>6 DEF FileCounted
  <2>8. \A n \in 1..MaxLines : counted'[<<"file", n>>] > 0 => n <= written'
    BY <1>0, <2>1, <2>4 DEF FileCounted
  <2>9. ASSUME NEW q \in Tasks PROVE HoldsFile(q)'
    <3>1. HoldsFile(q) /\ job[q].len \in Nat /\ job[q].end \in Nat
      BY <1>0, <2>4 DEF FileCounted
    <3>2. job[q].at \in {"read", "mark"} =>
            (CountedInLog' # {} => offset <= job[q].len /\ job[q].len <= Len(log'))
      BY <1>0, <2>3, <2>6, <3>1 DEF HoldsFile
    <3>3. ASSUME job[q].at = "store"
          PROVE  /\ \A i \in CountedInLog' : i <= job[q].end /\ job[q].end <= Len(log')
                 /\ \A i \in DOMAIN log', k \in DOMAIN job[q].lines :
                      log'[i].n = job[q].lines[k].n => i <= job[q].end /\ job[q].end <= Len(log')
      <4>1. \A i \in CountedInLog' : i <= job[q].end /\ job[q].end <= Len(log')
        BY <1>0, <2>3, <2>6, <3>1, <3>3 DEF HoldsFile
      <4>2. ASSUME NEW i \in DOMAIN log', NEW k \in DOMAIN job[q].lines,
                   log'[i].n = job[q].lines[k].n
            PROVE  i <= job[q].end /\ job[q].end <= Len(log')
        <5>1. job[q].lines[k].n \in Nat /\ job[q].lines[k].n <= written
          BY <1>0, JobFields, LineNumbers DEF Numbered, Ascending
        <5>2. i # Len(log) + 1
          BY <1>0, <2>2, <2>3, <4>2, <5>1
        <5>3. i \in DOMAIN log /\ log[i].n = job[q].lines[k].n
          BY <1>0, <2>3, <4>2, <5>2
        <5>4. i <= job[q].end /\ job[q].end <= Len(log)
          BY <3>1, <3>3, <5>3 DEF HoldsFile
        <5> QED
          BY <1>0, <2>3, <3>1, <5>4
      <4> QED
        BY <4>1, <4>2
    <3> QED
      BY <2>1, <2>6, <3>1, <3>2, <3>3 DEF HoldsFile
  <2>10. Alone'
    BY <2>1, <2>4 DEF FileCounted, Alone, Busy
  <2> QED
    BY <2>1, <2>4, <2>7, <2>8, <2>9, <2>10 DEF FileCounted
<1>12. CASE StartKernel
  <2>1. log' = << >> /\ UNCHANGED <<written, counted, job, overlapped, unmarked>>
    BY <1>12 DEF StartKernel
  <2>2. FileCounted /\ Alone'
    BY <2>1 DEF FileInv, FileCounted, Alone, Busy
  <2> QED
    BY <2>1, <2>2, FileRestarts
<1>13. CASE Tick \/ ToggleLogging \/ ClearAccessLogs \/ LookAtLog \/ FilterBlocks
  BY <1>3, <1>13 DEF Tick, ToggleLogging, ClearAccessLogs, LookAtLog, FilterBlocks, observers
<1>30. CASE Crash
  <2>1. \A q \in Tasks : job'[q].at = "idle"
    BY <1>30, Dying
  <2>2. UNCHANGED <<log, offset, written, counted, overlapped, unmarked>>
    BY <1>30, Dying DEF observers
  <2>3. FileCounted
    BY <2>2 DEF FileInv
  <2>4. Alone'
    BY <2>1 DEF Alone, Busy, InFile
  <2> QED
    BY <2>1, <2>2, <2>3, <2>4, FileRemains
<1>14. ASSUME NEW p \in Tasks, ReadLines(p) PROVE FileCounted'
  <2> DEFINE known == IF offset <= job[p].len THEN offset ELSE 0
             start == IF job[p].len - known > LogLimit THEN job[p].len - LogLimit ELSE known
  <2>1. UNCHANGED <<log, offset, written, counted, overlapped, unmarked>> /\ job[p].at = "read"
    BY <1>14 DEF ReadLines, data
  <2>2. FileCounted /\ Busy(p) /\ ~overlapped
    BY <2>1 DEF FileInv, Busy, InFile
  <2>3. Others(p)
    BY <1>14, ReadLinesReads DEF Others
  <2>4. CASE GoTo(p, "prune") \/ GoBack(p)
    BY <1>2, <2>1, <2>2, <2>4, Moving, Leaving
  <2>5. CASE /\ job'[p].at = "store" /\ job'[p].end = Len(log) /\ start >= known /\ start \in Nat
             /\ \A k \in DOMAIN job'[p].lines : \E i \in DOMAIN log :
                  i > start /\ job'[p].lines[k] = log[i]
    <3>1. CountedInLog' = CountedInLog
      BY <2>1 DEF CountedInLog
    <3>2. Alone'
      BY <2>2, <2>3, StaysAlone DEF FileCounted
    <3>3. \A i \in DOMAIN log : i <= Len(log)
      BY <1>0
    <3>4. ASSUME NEW k \in DOMAIN job'[p].lines
          PROVE  \/ counted'[<<"file", job'[p].lines[k].n>>] = 0
                 \/ job'[p].lines[k].n \in unmarked'
      <4>1. PICK i \in DOMAIN log : i > start /\ job'[p].lines[k] = log[i]
        BY <2>5
      <4>2. i \notin CountedInLog
        <5> SUFFICES ASSUME i \in CountedInLog PROVE FALSE
          OBVIOUS
        <5>1. offset <= job[p].len /\ i <= offset
          BY <2>1, <2>2 DEF FileCounted, HoldsFile
        <5>2. known = offset
          BY <5>1
        <5> HIDE DEF known, start
        <5> QED
          BY <1>0, <2>5, <4>1, <5>1, <5>2
      <4>3. counted[<<"file", log[i].n>>] \in Nat
        <5>1. <<"file", log[i].n>> \in LineHashes
          BY <1>0 DEF LineHashes
        <5>2. counted[<<"file", log[i].n>>] \in 0..2
          BY <5>1 DEF Typed, TypeOK
        <5> QED
          BY <5>2
      <4>4. ~(counted[<<"file", log[i].n>>] > 0) \/ log[i].n \in unmarked
        BY <4>2 DEF CountedInLog
      <4>5. counted[<<"file", log[i].n>>] = 0 \/ log[i].n \in unmarked
        BY <4>3, <4>4
      <4> QED
        BY <2>1, <4>1, <4>5
    <3>5. HoldsFile(p)'
      <4>1. \A i \in DOMAIN log : i <= job'[p].end /\ job'[p].end <= Len(log)
        BY <1>0, <2>5, <3>3
      <4>2. CountedInLog \subseteq DOMAIN log
        BY DEF CountedInLog
      <4> HIDE DEF start
      <4> QED
        BY <2>1, <2>5, <3>1, <3>4, <4>1, <4>2 DEF HoldsFile
    <3>6. \A q \in Tasks : q # p => HoldsFile(q)'
      BY <2>2, <2>3, NobodyElse DEF FileCounted, HoldsFile
    <3> QED
      BY <2>1, <2>2, <3>1, <3>2, <3>5, <3>6 DEF FileCounted
  <2> QED
    BY <1>14, <2>4, <2>5, ReadLinesReads
<1>15. ASSUME NEW p \in Tasks, Store(p) PROVE FileCounted'
  <2>1. /\ job[p].at = "store" /\ counted' = CountLines(job[p].lines, "file")
        /\ offset' = job[p].end /\ UNCHANGED <<log, written, overlapped, unmarked>> /\ Leaves(p)
    BY <1>15, Leaving DEF Store, StoreLines
  <2> QED
    BY <2>1, FileStored DEF FileInv, Leaves
<1>16. ASSUME NEW p \in Tasks, StoreAndPrune(p) PROVE FileCounted'
  <2>1. /\ job[p].at = "store" /\ counted' = CountLines(job[p].lines, "file")
        /\ log' = << >> /\ UNCHANGED <<written, overlapped, unmarked>> /\ Moves(p, "stuck")
    BY <1>16, Moving DEF StoreAndPrune, StoreLines, Empties
  <2> QED
    BY <2>1, FileStored DEF FileInv, Moves
<1>17. ASSUME NEW p \in Tasks, StoreAndFail(p) PROVE FileCounted'
  <2>1. /\ job[p].at = "store" /\ counted' = CountLines(job[p].lines, "file")
        /\ Unmarked(job[p].lines) /\ UNCHANGED <<log, offset, written, overlapped>> /\ Leaves(p)
    BY <1>17, Leaving DEF StoreAndFail, StoreLines
  <2>2. job[p].lines \in Seq(Lines) /\ 0 \in 0..Len(job[p].lines)
    BY JobFields, LenProperties
  <2> QED
    BY <2>1, <2>2, FileStoredOnly DEF FileInv
<1>31. ASSUME NEW p \in Tasks, StoreBreaksOff(p) PROVE FileCounted'
  <2>1. PICK n \in 0..Len(job[p].lines) :
          /\ counted' = CountLines(SubSeq(job[p].lines, 1, n), "file")
          /\ Unmarked(SubSeq(job[p].lines, 1, n)) /\ GiveUp(p) /\ job[p].at = "store"
          /\ UNCHANGED <<log, offset, written, overlapped>>
    BY <1>31 DEF StoreBreaksOff
  <2>2. SubSeq(job[p].lines, 1, n) \in Seq(Lines) /\ Leaves(p)
    BY <2>1, JobFields, FirstOf, Leaving
  <2> QED
    BY <2>1, <2>2, FileStoredOnly DEF FileInv
<1>18. ASSUME NEW p \in Tasks, EmptyLongLog(p) PROVE FileCounted'
  <2>1. job[p].at = "prune" /\ UNCHANGED <<offset, overlapped, written, counted, unmarked>>
    BY <1>18 DEF EmptyLongLog
  <2>2. FileCounted /\ Busy(p)
    BY <2>1 DEF FileInv, Busy, InFile
  <2>3. CASE Empties /\ GoTo(p, "zero")
    <3>1. Moves(p, "zero") /\ log' = << >>
      BY <2>3, Moving DEF Empties
    <3>2. Alone'
      BY <2>2, <3>1, StaysAlone DEF FileCounted, Moves
    <3> QED
      BY <2>1, <2>2, <3>1, <3>2, FileRestarts DEF Moves, Others
  <2>4. CASE GiveUp(p) /\ UNCHANGED <<log, emptied>>
    BY <1>2, <2>1, <2>4, Leaving
  <2> QED
    BY <1>18, <2>3, <2>4 DEF EmptyLongLog
<1>19. ASSUME NEW p \in Tasks, ResetOffset(p) PROVE FileCounted'
  <2>1. /\ job[p].at = "zero" /\ UNCHANGED <<log, written, counted, overlapped, unmarked>> /\ Leaves(p)
    BY <1>19, Leaving DEF ResetOffset
  <2>2. FileCounted /\ Busy(p)
    BY <2>1 DEF FileInv, Busy, InFile
  <2>3. CountedInLog' = {}
    BY <2>1, <2>2 DEF FileCounted, HoldsFile, CountedInLog
  <2>4. Alone' /\ \A q \in Tasks : job'[q].at \notin {"read", "mark", "store", "zero"}
    BY <2>1, <2>2, StaysAlone, NobodyElse DEF FileCounted, Leaves
  <2> QED
    BY <2>1, <2>2, <2>3, <2>4 DEF FileCounted, HoldsFile
<1>20. ASSUME NEW p \in Tasks, AskForLogs(p) PROVE FileCounted'
  <2>1. Opens(p, "read") /\ UNCHANGED <<log, offset, written, counted, unmarked>> /\ ~overlapped
    BY <1>20, Opening DEF AskForLogs, data, Opens
  <2> QED
    BY <1>2, <2>1
<1>21. ASSUME NEW p \in Tasks, ControllerIsSilent(p) PROVE FileCounted'
  <2>1. Leaves(p) /\ UNCHANGED <<log, offset, written, counted, overlapped, unmarked>>
    BY <1>21, Leaving DEF ControllerIsSilent, data, observers
  <2> QED
    BY <1>2, <2>1
<1>22. ASSUME NEW p \in Tasks, NEW open \in Listings, StoreConnections(p, open) PROVE FileCounted'
  <2>1. Leaves(p) /\ UNCHANGED <<log, offset, written, counted, overlapped, unmarked>>
    BY <1>22, Leaving DEF StoreConnections, observers
  <2> QED
    BY <1>2, <2>1
<1>23. CASE ControllerFails
  <2>1. Opens(Collector, "read") /\ UNCHANGED <<log, offset, written, counted, unmarked>> /\ ~overlapped
    BY <1>1, <1>23, Opening DEF ControllerFails, data, Opens
  <2> QED
    BY <1>1, <1>2, <2>1
<1>24. CASE Connect
  <2>1. Opens(Collector, "mark") \/ (Leaves(Collector) /\ UNCHANGED observers)
    BY <1>24, Connecting
  <2>2. UNCHANGED <<log, offset, written, counted, unmarked>> /\ ~overlapped
    <3>1. CASE Opens(Collector, "mark")
      BY <1>24, <3>1 DEF Connect, data, Opens
    <3>2. CASE UNCHANGED observers
      BY <1>24, <3>2 DEF Connect, data, observers
    <3> QED
      BY <2>1, <3>1, <3>2
  <2> QED
    BY <1>1, <1>2, <2>1, <2>2
<1>25. CASE MarkToEnd
  <2>1. /\ job[Collector].at = "mark" /\ offset' = job[Collector].len /\ Leaves(Collector)
        /\ UNCHANGED <<log, written, counted, overlapped, unmarked>>
    BY <1>1, <1>25, Leaving DEF MarkToEnd
  <2>2. FileCounted /\ Busy(Collector)
    BY <2>1 DEF FileInv, Busy, InFile
  <2>3. CountedInLog' = CountedInLog
    BY <2>1 DEF CountedInLog
  <2>4. \A i \in CountedInLog : i <= offset' /\ offset' <= Len(log)
    <3> SUFFICES ASSUME NEW i \in CountedInLog
                 PROVE  i <= job[Collector].len /\ job[Collector].len <= Len(log)
      BY <2>1
    <3>1. i <= offset /\ i \in Nat
      BY <1>0, <2>2 DEF FileCounted, CountedInLog
    <3>2. offset <= job[Collector].len /\ job[Collector].len <= Len(log)
      BY <1>1, <2>1, <2>2 DEF FileCounted, HoldsFile
    <3> QED
      BY <1>0, <1>1, <3>1, <3>2
  <2>5. Alone' /\ \A q \in Tasks : job'[q].at \notin {"read", "mark", "store", "zero"}
    BY <1>1, <2>1, <2>2, StaysAlone, NobodyElse DEF FileCounted, Leaves
  <2> QED
    BY <2>1, <2>2, <2>3, <2>4, <2>5 DEF FileCounted, HoldsFile
<1>26. CASE MarkLongLog
  <2>1. /\ Moves(Collector, "prune") /\ Busy(Collector)
        /\ UNCHANGED <<log, offset, written, counted, overlapped, unmarked>>
    BY <1>1, <1>26, Moving DEF MarkLongLog, data, observers, Busy, InFile
  <2> QED
    BY <1>1, <1>2, <2>1
<1>27. CASE TakeLine
  <2>1. UNCHANGED <<log, offset, written, counted, overlapped, unmarked>> /\ job[Collector].at = "stream"
    BY <1>27 DEF TakeLine, observers
  <2>2. CASE job' = job
    BY <1>3, <2>1, <2>2
  <2>3. CASE Others(Collector) /\ job'[Collector].at = "insert"
    <3>1. FileCounted
      BY <2>1 DEF FileInv
    <3>2. Alone'
      BY <1>1, <2>3, <3>1, StaysAlone DEF FileCounted, InFile
    <3>3. \A q \in Tasks :
             \/ job'[q] = job[q]
             \/ job'[q].at \notin {"read", "mark", "store", "zero"}
      BY <2>3 DEF Others
    <3> QED
      BY <2>1, <3>1, <3>2, <3>3, FileRemains
  <2> QED
    BY <1>27, <2>2, <2>3, Taking
<1>28. CASE InsertLine
  <2>1. Leaves(Collector) /\ UNCHANGED <<log, offset, written, overlapped, unmarked>>
    BY <1>1, <1>28, Leaving DEF InsertLine
  <2>2. \A n \in 1..MaxLines : counted'[<<"file", n>>] = counted[<<"file", n>>]
    <3>1. counted' = counted \/ counted' = CountLines(job[Collector].lines, "stream")
      BY <1>28 DEF InsertLine
    <3>2. \A n \in 1..MaxLines : <<"file", n>> \in LineHashes /\ <<"file", n>>[1] # "stream"
      BY DEF LineHashes
    <3>3. job[Collector].lines \in Seq(Lines)
      BY <1>1, JobFields
    <3> QED
      BY <3>1, <3>2, <3>3, CountsLines
  <2>3. FileCounted
    BY <2>1 DEF FileInv
  <2>4. Alone'
    BY <1>1, <2>1, <2>3, StaysAlone DEF FileCounted, Leaves, InFile
  <2> QED
    BY <2>1, <2>2, <2>3, <2>4, FileRemains DEF Leaves, Others
<1>29. CASE VisitFileInStream \/ StreamEnds
  <2>1. \/ Opens(Collector, "read") \/ Opens(Collector, "prune")
        \/ Leaves(Collector) /\ UNCHANGED <<written, counted, overlapped, unmarked>>
    BY <1>29, Visiting DEF VisitFileInStream, StreamEnds
  <2>2. UNCHANGED <<log, offset, written, counted, unmarked>> /\ ~overlapped
    <3>1. UNCHANGED <<log, offset>>
      BY <1>29 DEF VisitFileInStream, StreamEnds, data
    <3>2. CASE Opens(Collector, "read") \/ Opens(Collector, "prune")
      BY <3>1, <3>2 DEF Opens
    <3>3. CASE UNCHANGED <<written, counted, overlapped, unmarked>>
      BY <3>1, <3>3
    <3> QED
      BY <2>1, <3>2, <3>3
  <2> QED
    BY <1>1, <1>2, <2>1, <2>2
<1> QED
  BY <1>10, <1>11, <1>12, <1>13, <1>14, <1>15, <1>16, <1>17, <1>18, <1>19, <1>20, <1>21, <1>22,
     <1>23, <1>24, <1>25, <1>26, <1>27, <1>28, <1>29, <1>30, <1>31 DEF Next, AtFile

\* A line of the stream is counted after it has been taken, and only then.
StreamInv ==
  /\ \A n \in 1..MaxLines : counted[<<"stream", n>>] <= 1
  /\ \A n \in 1..MaxLines : counted[<<"stream", n>>] > 0 => n <= written
  /\ \A i \in DOMAIN stream : counted[<<"stream", stream[i].n>>] = 0
  /\ job[Collector].at = "insert" =>
       \A k \in DOMAIN job[Collector].lines :
         /\ counted[<<"stream", job[Collector].lines[k].n>>] = 0
         /\ \A i \in DOMAIN stream : stream[i].n # job[Collector].lines[k].n

LEMMA InitStream == Init => StreamInv
<1> SUFFICES ASSUME Init PROVE StreamInv
  OBVIOUS
<1>1. \A n \in 1..MaxLines : counted[<<"stream", n>>] = 0
  BY DEF Init, LineHashes
<1>2. job[Collector].at = "idle" /\ stream = << >>
  BY DEF Init, Idle, Tasks
<1> QED
  BY <1>1, <1>2, NoneAscends DEF StreamInv

\* Nothing is written or taken, and no line of the stream is counted.
LEMMA StreamRemains ==
  ASSUME Typed, StreamInv, UNCHANGED written, stream' = stream \/ stream' = << >>,
         \A n \in 1..MaxLines : counted'[<<"stream", n>>] = counted[<<"stream", n>>],
         job'[Collector] = job[Collector] \/ job'[Collector].at # "insert"
  PROVE  StreamInv'
<1>1. \A i \in DOMAIN stream : stream[i].n \in 1..MaxLines
  BY LineNumbers DEF Typed, TypeOK
<1>2. \A k \in DOMAIN job[Collector].lines : job[Collector].lines[k].n \in 1..MaxLines
  BY JobFields, LineNumbers DEF Tasks
<1>3. \A i \in DOMAIN stream' : i \in DOMAIN stream /\ stream'[i] = stream[i]
  BY NoneAscends
<1>4. \A i \in DOMAIN stream' : counted'[<<"stream", stream'[i].n>>] = 0
  BY <1>1, <1>3 DEF StreamInv
<1>5. job'[Collector].at = "insert" =>
        \A k \in DOMAIN job'[Collector].lines :
          /\ counted'[<<"stream", job'[Collector].lines[k].n>>] = 0
          /\ \A i \in DOMAIN stream' : stream'[i].n # job'[Collector].lines[k].n
  BY <1>2, <1>3 DEF StreamInv
<1> QED
  BY <1>4, <1>5 DEF StreamInv

LEMMA StreamStep ==
  ASSUME Typed, Numbered, StreamInv, [Next]_vars
  PROVE  StreamInv'
<1>0. /\ stream \in Seq(Lines) /\ Len(stream) \in Nat /\ DOMAIN stream = 1..Len(stream)
      /\ written \in Nat /\ MaxLines \in Nat
      /\ \A i \in DOMAIN stream : stream[i].n \in 1..MaxLines
  BY BoundsAssumption, LenProperties, LineNumbers DEF Typed, TypeOK
<1>1. Collector \in Tasks
  BY DEF Tasks
<1>2. /\ job[Collector].lines \in Seq(Lines)
      /\ \A k \in DOMAIN job[Collector].lines : job[Collector].lines[k].n \in 1..MaxLines
  BY <1>1, JobFields, LineNumbers
<1>3. ASSUME NEW p \in Tasks,
             \/ Leaves(p)
             \/ \E place \in {"read", "prune", "mark"} : Opens(p, place)
             \/ \E place \in {"prune", "zero", "stuck"} : Moves(p, place)
      PROVE  job'[Collector] = job[Collector] \/ job'[Collector].at # "insert"
  BY <1>1, <1>3 DEF Leaves, Opens, Moves, Others
<1>4. ASSUME NEW lines \in Seq(Lines), counted' = CountLines(lines, "file")
      PROVE  \A n \in 1..MaxLines : counted'[<<"stream", n>>] = counted[<<"stream", n>>]
  <2>1. \A n \in 1..MaxLines : <<"stream", n>> \in LineHashes /\ <<"stream", n>>[1] # "file"
    BY DEF LineHashes
  <2> QED
    BY <1>4, <2>1, CountsLines
<1>5. \A p \in Tasks : job[p].lines \in Seq(Lines)
  BY JobFields
<1>10. CASE UNCHANGED vars
  BY <1>10, StreamRemains DEF vars, data, observers
<1>11. ASSUME NEW key \in Keys \cup {Noise}, WriteLine(key) PROVE StreamInv'
  <2> DEFINE line == [n |-> written + 1, key |-> key, at |-> clock, on |-> logging]
  <2>1. /\ stream' = (IF Connected THEN Append(stream, line) ELSE stream) /\ written' = written + 1
        /\ UNCHANGED <<counted, job>>
    BY <1>11 DEF WriteLine
  <2>2. line \in Lines /\ line.n = written + 1 /\ written + 1 \in 1..MaxLines
    BY <1>0, <1>11 DEF WriteLine, Lines, Typed, TypeOK
  <2> HIDE DEF line
  <2>3. \A i \in DOMAIN stream' : \/ i \in DOMAIN stream /\ stream'[i] = stream[i]
                                  \/ stream'[i].n = written + 1
    <3>1. CASE Connected
      <4>1. Append(stream, line) \in Seq(Lines) /\ Len(Append(stream, line)) = Len(stream) + 1
        BY <1>0, <2>2, AppendProperties
      <4>2. DOMAIN stream' = 1 .. Len(stream) + 1
        BY <2>1, <3>1, <4>1, LenProperties
      <4>3. \A i \in 1..Len(stream) : stream'[i] = stream[i]
        BY <1>0, <2>1, <2>2, <3>1, AppendProperties
      <4>4. stream'[Len(stream) + 1] = line
        BY <1>0, <2>1, <2>2, <3>1, AppendProperties
      <4> QED
        BY <1>0, <2>2, <4>2, <4>3, <4>4
    <3>2. CASE ~Connected
      BY <2>1, <3>2
    <3> QED
      BY <3>1, <3>2
  <2>4. counted[<<"stream", written + 1>>] = 0
    <3>1. counted[<<"stream", written + 1>>] \in Nat
      <4>1. <<"stream", written + 1>> \in LineHashes
        BY <2>2 DEF LineHashes
      <4>2. counted[<<"stream", written + 1>>] \in 0..2
        BY <4>1 DEF Typed, TypeOK
      <4> QED
        BY <4>2
    <3>2. ~(counted[<<"stream", written + 1>>] > 0)
      BY <1>0, <2>2 DEF StreamInv
    <3> QED
      BY <3>1, <3>2
  <2>5. \A i \in DOMAIN stream' : counted'[<<"stream", stream'[i].n>>] = 0
    BY <2>1, <2>3, <2>4 DEF StreamInv
  <2>6. \A k \in DOMAIN job[Collector].lines : job[Collector].lines[k].n <= written
    BY <1>1 DEF Numbered, Ascending
  <2>7. job[Collector].at = "insert" =>
          \A k \in DOMAIN job[Collector].lines, i \in DOMAIN stream' :
            stream'[i].n # job[Collector].lines[k].n
    <3> SUFFICES ASSUME job[Collector].at = "insert",
                        NEW k \in DOMAIN job[Collector].lines, NEW i \in DOMAIN stream'
                 PROVE  stream'[i].n # job[Collector].lines[k].n
      OBVIOUS
    <3>1. CASE i \in DOMAIN stream /\ stream'[i] = stream[i]
      BY <3>1 DEF StreamInv
    <3>2. CASE stream'[i].n = written + 1
      <4>1. job[Collector].lines[k].n \in Nat /\ job[Collector].lines[k].n <= written
        BY <1>0, <1>2, <2>6
      <4> QED
        BY <1>0, <3>2, <4>1
    <3> QED
      BY <2>3, <3>1, <3>2
  <2>8. \A n \in 1..MaxLines : counted'[<<"stream", n>>] > 0 => n <= written'
    BY <1>0, <2>1 DEF StreamInv
  <2> QED
    BY <2>1, <2>5, <2>7, <2>8 DEF StreamInv
<1>12. CASE StartKernel \/ Tick \/ ToggleLogging \/ ClearAccessLogs \/ LookAtLog \/ FilterBlocks
  BY <1>12, StreamRemains
     DEF StartKernel, Tick, ToggleLogging, ClearAccessLogs, LookAtLog, FilterBlocks, observers
<1>27. CASE Crash
  BY <1>1, <1>27, Dying, StreamRemains DEF observers
<1>13. ASSUME NEW p \in Tasks, ReadLines(p) PROVE StreamInv'
  <2>1. UNCHANGED <<stream, written, counted>>
    BY <1>13 DEF ReadLines, data
  <2>2. job'[Collector] = job[Collector] \/ job'[Collector].at # "insert"
    <3>1. job'[p].at = "store" \/ GoTo(p, "prune") \/ GoBack(p)
      BY <1>13, ReadLinesReads
    <3>2. \A q \in Tasks : q # p => job'[q] = job[q]
      BY <1>13, ReadLinesReads
    <3>3. CASE job'[p].at = "store"
      BY <1>1, <3>2, <3>3
    <3>4. CASE GoTo(p, "prune") \/ GoBack(p)
      BY <1>3, <3>4, Moving, Leaving
    <3> QED
      BY <3>1, <3>3, <3>4
  <2> QED
    BY <2>1, <2>2, StreamRemains
<1>14. ASSUME NEW p \in Tasks, Store(p) \/ StoreAndFail(p) PROVE StreamInv'
  <2>1. /\ Leaves(p) /\ counted' = CountLines(job[p].lines, "file")
        /\ UNCHANGED <<stream, written>>
    BY <1>14, Leaving DEF Store, StoreAndFail, StoreLines
  <2> QED
    BY <1>3, <1>4, <1>5, <2>1, StreamRemains
<1>28. ASSUME NEW p \in Tasks, StoreBreaksOff(p) PROVE StreamInv'
  <2>1. PICK n \in 0..Len(job[p].lines) :
          counted' = CountLines(SubSeq(job[p].lines, 1, n), "file") /\ GiveUp(p)
    BY <1>28 DEF StoreBreaksOff
  <2>2. Leaves(p) /\ UNCHANGED <<stream, written>>
    BY <1>28, <2>1, Leaving DEF StoreBreaksOff
  <2>3. SubSeq(job[p].lines, 1, n) \in Seq(Lines)
    BY <1>5, FirstOf
  <2> QED
    BY <1>3, <1>4, <2>1, <2>2, <2>3, StreamRemains
<1>15. ASSUME NEW p \in Tasks, StoreAndPrune(p) PROVE StreamInv'
  <2>1. /\ Moves(p, "stuck") /\ counted' = CountLines(job[p].lines, "file")
        /\ UNCHANGED <<stream, written>>
    BY <1>15, Moving DEF StoreAndPrune, StoreLines
  <2> QED
    BY <1>3, <1>4, <1>5, <2>1, StreamRemains
<1>16. ASSUME NEW p \in Tasks, EmptyLongLog(p) PROVE StreamInv'
  <2>1. Moves(p, "zero") \/ Leaves(p)
    BY <1>16, Moving, Leaving DEF EmptyLongLog
  <2>2. UNCHANGED <<stream, written, counted>>
    BY <1>16 DEF EmptyLongLog
  <2> QED
    BY <1>3, <2>1, <2>2, StreamRemains
<1>17. ASSUME NEW p \in Tasks, ResetOffset(p) \/ ControllerIsSilent(p) PROVE StreamInv'
  <2>1. Leaves(p) /\ UNCHANGED <<stream, written, counted>>
    BY <1>17, Leaving DEF ResetOffset, ControllerIsSilent, data, observers
  <2> QED
    BY <1>3, <2>1, StreamRemains
<1>18. ASSUME NEW p \in Tasks, AskForLogs(p) PROVE StreamInv'
  <2>1. Opens(p, "read") /\ UNCHANGED <<stream, written, counted>>
    BY <1>18, Opening DEF AskForLogs, data, Opens
  <2> QED
    BY <1>3, <2>1, StreamRemains
<1>19. ASSUME NEW p \in Tasks, NEW open \in Listings, StoreConnections(p, open) PROVE StreamInv'
  <2>1. Leaves(p) /\ UNCHANGED <<stream, written, counted>>
    BY <1>19, Leaving DEF StoreConnections, observers
  <2> QED
    BY <1>3, <2>1, StreamRemains
<1>20. CASE ControllerFails
  <2>1. Opens(Collector, "read") /\ UNCHANGED <<stream, written, counted>>
    BY <1>1, <1>20, Opening DEF ControllerFails, data, Opens
  <2> QED
    BY <1>1, <1>3, <2>1, StreamRemains
<1>21. CASE Connect
  <2>1. Opens(Collector, "mark") \/ (Leaves(Collector) /\ UNCHANGED observers)
    BY <1>21, Connecting
  <2>2. UNCHANGED <<stream, written, counted>>
    BY <1>21, <2>1 DEF Connect, data, Opens, observers
  <2> QED
    BY <1>1, <1>3, <2>1, <2>2, StreamRemains
<1>22. CASE MarkToEnd
  <2>1. Leaves(Collector) /\ UNCHANGED <<stream, written, counted>>
    BY <1>1, <1>22, Leaving DEF MarkToEnd
  <2> QED
    BY <1>1, <1>3, <2>1, StreamRemains
<1>23. CASE MarkLongLog
  <2>1. Moves(Collector, "prune") /\ UNCHANGED <<stream, written, counted>>
    BY <1>1, <1>23, Moving DEF MarkLongLog, data, observers
  <2> QED
    BY <1>1, <1>3, <2>1, StreamRemains
<1>24. CASE TakeLine
  <2>1. /\ stream # << >> /\ stream' = Tail(stream) /\ UNCHANGED <<written, counted>>
        /\ job[Collector].at = "stream"
    BY <1>24 DEF TakeLine, observers
  <2>2. Len(stream) # 0 /\ 1 \in DOMAIN stream /\ Head(stream) = stream[1]
    BY <1>0, <2>1, EmptySeq
  <2>3. /\ DOMAIN stream' = 1 .. Len(stream) - 1
        /\ \A i \in DOMAIN stream' : stream'[i] = stream[i + 1] /\ i + 1 \in DOMAIN stream /\ 1 < i + 1
    <3>1. Tail(stream) \in Seq(Lines) /\ Len(Tail(stream)) = Len(stream) - 1
      BY <1>0, <2>1, HeadTailProperties
    <3>2. DOMAIN Tail(stream) = 1 .. Len(stream) - 1
      BY <3>1, LenProperties
    <3> QED
      BY <1>0, <2>1, <2>2, <3>1, <3>2, HeadTailProperties
  <2>4. \A i \in DOMAIN stream' : counted'[<<"stream", stream'[i].n>>] = 0
    BY <2>1, <2>3 DEF StreamInv
  <2>5. job'[Collector].at = "insert" =>
          \A k \in DOMAIN job'[Collector].lines :
            /\ counted'[<<"stream", job'[Collector].lines[k].n>>] = 0
            /\ \A i \in DOMAIN stream' : stream'[i].n # job'[Collector].lines[k].n
    <3>1. CASE job' = job
      BY <2>1, <3>1
    <3>2. CASE job'[Collector].lines = <<Head(stream)>>
      <4>1. DOMAIN job'[Collector].lines = {1} /\ job'[Collector].lines[1] = stream[1]
        BY <2>2, <3>2
      <4>2. counted'[<<"stream", stream[1].n>>] = 0
        BY <2>1, <2>2 DEF StreamInv
      <4>3. \A i \in DOMAIN stream' : stream[1].n < stream'[i].n
        BY <2>2, <2>3 DEF Numbered, Ascending
      <4>4. \A i \in DOMAIN stream' : stream'[i].n # stream[1].n
        BY <1>0, <2>2, <2>3, <4>3
      <4> QED
        BY <4>1, <4>2, <4>4
    <3> QED
      BY <1>24, <3>1, <3>2, Taking
  <2> QED
    BY <2>1, <2>4, <2>5 DEF StreamInv
<1>25. CASE InsertLine
  <2> DEFINE lines == job[Collector].lines
  <2>1. Leaves(Collector) /\ UNCHANGED <<stream, written>> /\ job[Collector].at = "insert"
    BY <1>1, <1>25, Leaving DEF InsertLine
  <2>2. CASE counted' = counted
    BY <1>1, <1>3, <2>1, <2>2, StreamRemains
  <2>3. CASE counted' = CountLines(lines, "stream")
    <3>1. \A n \in 1..MaxLines :
            \/ counted'[<<"stream", n>>] = counted[<<"stream", n>>]
            \/ /\ counted'[<<"stream", n>>] = counted[<<"stream", n>>] + 1
               /\ \E k \in DOMAIN lines : lines[k].n = n
      BY <1>2, <2>3, CountsLines
    <3>2. \A k \in DOMAIN lines :
            /\ counted[<<"stream", lines[k].n>>] = 0
            /\ \A i \in DOMAIN stream : stream[i].n # lines[k].n
      BY <2>1 DEF StreamInv
    <3>3. \A n \in 1..MaxLines : counted'[<<"stream", n>>] <= 1
      <4> TAKE n \in 1..MaxLines
      <4>1. CASE counted'[<<"stream", n>>] = counted[<<"stream", n>>]
        BY <4>1 DEF StreamInv
      <4>2. CASE /\ counted'[<<"stream", n>>] = counted[<<"stream", n>>] + 1
                 /\ \E k \in DOMAIN lines : lines[k].n = n
        <5>1. counted[<<"stream", n>>] = 0
          BY <3>2, <4>2
        <5> QED
          BY <4>2, <5>1
      <4> QED
        BY <3>1, <4>1, <4>2
    <3>4. \A n \in 1..MaxLines : counted'[<<"stream", n>>] > 0 => n <= written'
      <4>1. \A k \in DOMAIN lines : lines[k].n <= written
        BY <1>1 DEF Numbered, Ascending
      <4> QED
        BY <2>1, <3>1, <4>1 DEF StreamInv
    <3>5. \A i \in DOMAIN stream : counted'[<<"stream", stream[i].n>>] = 0
      <4> TAKE i \in DOMAIN stream
      <4>1. stream[i].n \in 1..MaxLines /\ counted[<<"stream", stream[i].n>>] = 0
        BY <1>0 DEF StreamInv
      <4>2. ~\E k \in DOMAIN lines : lines[k].n = stream[i].n
        BY <3>2
      <4> QED
        BY <3>1, <4>1, <4>2
    <3> QED
      BY <2>1, <3>3, <3>4, <3>5 DEF StreamInv, Leaves
  <2> QED
    BY <1>25, <2>2, <2>3 DEF InsertLine
<1>26. CASE VisitFileInStream \/ StreamEnds
  <2>1. \/ Opens(Collector, "read") \/ Opens(Collector, "prune")
        \/ Leaves(Collector) /\ UNCHANGED <<written, counted>>
    BY <1>26, Visiting DEF VisitFileInStream, StreamEnds
  <2>2. stream' = stream \/ stream' = << >>
    BY <1>26 DEF VisitFileInStream, StreamEnds, data
  <2>3. UNCHANGED <<written, counted>>
    BY <2>1 DEF Opens
  <2> QED
    BY <1>1, <1>3, <2>1, <2>2, <2>3, StreamRemains
<1> QED
  BY <1>10, <1>11, <1>12, <1>13, <1>14, <1>15, <1>16, <1>17, <1>18, <1>19, <1>20, <1>21, <1>22,
     <1>23, <1>24, <1>25, <1>26, <1>27, <1>28 DEF Next, AtFile

\* However often the log is emptied, the kernel restarted, the table cleared and the
\* application killed, no line of the stream is counted twice, and of the file, as long as
\* one task is at it at a time, only lines of a reading that stored them and then failed to
\* move the offset.
THEOREM LinesCountedOnce == Spec => []CountedOnce
<1> DEFINE Inv == Typed /\ Numbered /\ FileInv /\ StreamInv
<1>1. Init => Inv
  BY InitTyped, InitNumbered, InitFile, InitStream
<1>2. Inv /\ [Next]_vars => Inv'
  BY TypedStep, NumberedStep, FileStep, StreamStep
<1>3. Inv => CountedOnce
  <2> SUFFICES ASSUME Inv, ~overlapped, NEW h \in LineHashes
               PROVE  counted[h] <= 1 \/ (h[1] = "file" /\ h[2] \in unmarked)
    BY DEF CountedOnce
  <2>1. PICK n \in 1..MaxLines : h = <<"stream", n>> \/ h = <<"file", n>>
    BY DEF LineHashes
  <2> QED
    BY <2>1 DEF StreamInv, FileInv, FileCounted
<1> QED
  BY <1>1, <1>2, <1>3, PTL DEF Spec

-----------------------------------------------------------------------------
(* The table.                                                              *)

\* A row is one by its id, and not of the future.
RowsHold ==
  /\ \A r \in rows : r.at <= clock
  /\ \A r, s \in rows : r.id = s.id => r = s

TableInv == RowsHold /\ TableIsBounded

LEMMA InitTable == Init => TableInv
<1> SUFFICES ASSUME Init PROVE TableInv
  OBVIOUS
<1> DEFINE row == [id |-> 1, hash |-> <<"connection", OwnDns>>, key |-> OwnDns, at |-> 0,
                   count |-> 1]
<1>1. rows = {row} /\ clock \in Nat /\ uncleaned = 0
  BY BoundsAssumption DEF Init
<1>2. row.at = 0
  OBVIOUS
<1> HIDE DEF row
<1>3. Cardinality(rows) = 1
  BY <1>1, FS_Singleton
<1>4. 1 <= MaxRows
  BY LimitsAssumption
<1> QED
  BY <1>1, <1>2, <1>3, <1>4, LimitsAssumption DEF TableInv, RowsHold, TableIsBounded

\* Rows go, and time passes.
LEMMA TableRemains ==
  ASSUME Typed, TableInv, rows' \subseteq rows, clock' \in Nat, clock <= clock',
         UNCHANGED uncleaned
  PROVE  TableInv'
<1>1. \A r \in rows : r.at \in Nat /\ r.at <= clock
  BY BoundsAssumption DEF Typed, TypeOK, Rows, TableInv, RowsHold
<1>2. clock \in Nat
  BY BoundsAssumption DEF Typed, TypeOK
<1>3. RowsHold'
  BY <1>1, <1>2 DEF TableInv, RowsHold
<1>4. Cardinality(rows') <= Cardinality(rows) /\ IsFiniteSet(rows')
  BY FS_Subset DEF Typed, Sized
<1>5. /\ Cardinality(rows) \in Nat /\ Cardinality(rows') \in Nat /\ MaxRows \in Nat
      /\ uncleaned \in Int
  BY <1>4, FS_CardinalityType, LimitsAssumption DEF Typed, TypeOK, Sized
<1>6. TableIsBounded'
  BY <1>4, <1>5 DEF TableInv, TableIsBounded
<1> QED
  BY <1>3, <1>6 DEF TableInv

\* Rows are added, and those of days gone and the oldest go, or nothing goes.
LEMMA TableFilled ==
  ASSUME Typed, TableInv, NEW rs \in SUBSET Rows, IsFiniteSet(rs),
         \A r \in rs : r.at <= clock, \A r, s \in rs : r.id = s.id => r = s,
         AddClean(rs) \/ AddOnly(rs), UNCHANGED clock
  PROVE  TableInv'
<1>1. CASE AddClean(rs)
  <2>1. rows' \subseteq rs /\ uncleaned' = 0
    BY <1>1, CleanupKeeps DEF AddClean
  <2>2. Cardinality(rows') <= MaxRows /\ MaxRows \in Nat
    BY <1>1, CleanupBounds, LimitsAssumption DEF AddClean
  <2> QED
    BY <2>1, <2>2 DEF TableInv, RowsHold, TableIsBounded
<1>2. CASE AddOnly(rs)
  <2>1. rows' = rs /\ uncleaned' = uncleaned + (Cardinality(rs) - Cardinality(Table))
    BY <1>2 DEF AddOnly
  <2>2. Cardinality(Table) <= Cardinality(rows) /\ IsFiniteSet(Table)
    BY TableTyped, FS_Subset DEF Typed, Sized
  <2>3. /\ Cardinality(Table) \in Nat /\ Cardinality(rows) \in Nat /\ Cardinality(rs) \in Nat
        /\ MaxRows \in Nat /\ uncleaned \in Int
    BY <2>2, FS_CardinalityType, LimitsAssumption DEF Typed, TypeOK, Sized
  <2>4. Cardinality(rows) <= MaxRows + uncleaned
    BY DEF TableInv, TableIsBounded
  <2>5. TableIsBounded'
    BY <2>1, <2>2, <2>3, <2>4 DEF TableIsBounded
  <2> QED
    BY <2>1, <2>5 DEF TableInv, RowsHold
<1> QED
  BY <1>1, <1>2

LEMMA TableInserted ==
  ASSUME Typed, TableInv, NEW lines \in Seq(Lines), NEW source \in {"file", "stream"},
         \A k \in DOMAIN lines : lines[k].at <= clock,
         \A i, k \in DOMAIN lines : i < k => lines[i].n < lines[k].n,
         AddClean(InsertLines(lines, source)) \/ AddOnly(InsertLines(lines, source)),
         UNCHANGED clock
  PROVE  TableInv'
<1>1. InsertLines(lines, source) \subseteq Rows /\ IsFiniteSet(InsertLines(lines, source))
  BY InsertLinesTyped DEF Typed, Sized
<1>2. /\ \A r \in InsertLines(lines, source) : r.at <= clock
      /\ \A r, s \in InsertLines(lines, source) : r.id = s.id => r = s
  BY InsertLinesHolds DEF Typed, Sized, TableInv, RowsHold
<1> QED
  BY <1>1, <1>2, TableFilled

\* The DNS filter adds one row.
LEMMA TableBlocks ==
  ASSUME Typed, Typed', TableInv, FilterBlocks
  PROVE  TableInv'
<1> DEFINE top == IF rows = {} THEN 0 ELSE Max({r.id : r \in rows})
           row == [id |-> 1 + top, hash |-> <<"filter", events'>>, key |-> Blocked,
                   at |-> clock, count |-> 1]
<1>1. rows' = rows \cup {row} /\ uncleaned' = uncleaned + 1 /\ UNCHANGED clock
  BY DEF FilterBlocks
<1>2. rows \subseteq Rows /\ IsFiniteSet(rows) /\ clock \in Nat /\ uncleaned \in Int
  BY BoundsAssumption DEF Typed, TypeOK, Sized
<1>3. top \in Nat /\ \A r \in rows : r.id <= top
  <2>1. CASE rows = {}
    BY <2>1
  <2>2. CASE rows # {}
    BY <1>2, <2>2, HighestId
  <2> QED
    BY <2>1, <2>2
<1>4. row.id = 1 + top /\ row.at = clock
  OBVIOUS
<1> HIDE DEF top, row
<1>5. \A r \in rows : r.id \in Nat /\ r.id # row.id
  <2>1. \A r \in rows : r.id \in Nat
    BY <1>2 DEF Rows
  <2> QED
    BY <1>3, <1>4, <2>1
<1>6. RowsHold'
  BY <1>1, <1>2, <1>4, <1>5 DEF TableInv, RowsHold
<1>7. Cardinality(rows') <= Cardinality(rows) + 1
  <2>1. Cardinality(rows) \in Nat
    BY <1>2, FS_CardinalityType
  <2>2. Cardinality(rows \cup {row})
          = IF row \in rows THEN Cardinality(rows) ELSE Cardinality(rows) + 1
    BY <1>2, FS_AddElement
  <2> QED
    BY <1>1, <2>1, <2>2
<1>8. Cardinality(rows) \in Nat /\ Cardinality(rows') \in Nat /\ MaxRows \in Nat
  BY <1>2, FS_CardinalityType, LimitsAssumption DEF Typed, Sized
<1>9. TableIsBounded'
  BY <1>1, <1>2, <1>7, <1>8 DEF TableInv, TableIsBounded
<1> QED
  BY <1>6, <1>9 DEF TableInv

LEMMA TableStep ==
  ASSUME Typed, Typed', Numbered, TableInv, [Next]_vars
  PROVE  TableInv'
<1>0. clock \in Nat /\ clock' \in Nat /\ Collector \in Tasks
  BY BoundsAssumption DEF Typed, TypeOK, Tasks
<1>1. Table \subseteq rows
  BY TableTyped DEF Typed, Sized
<1>2. ASSUME UNCHANGED <<rows, clock, uncleaned>> PROVE TableInv'
  BY <1>0, <1>2, TableRemains
<1>3. ASSUME NEW p \in Tasks
      PROVE  /\ job[p].lines \in Seq(Lines)
             /\ \A k \in DOMAIN job[p].lines : job[p].lines[k].at <= clock
             /\ \A i, k \in DOMAIN job[p].lines : i < k => job[p].lines[i].n < job[p].lines[k].n
  BY JobFields DEF Numbered, Ascending
<1>4. ASSUME NEW p \in Tasks, StoreLines(p), UNCHANGED clock PROVE TableInv'
  <2>1. CASE rows' = Table /\ UNCHANGED uncleaned
    BY <1>0, <1>1, <1>4, <2>1, TableRemains
  <2>2. CASE AddClean(InsertLines(job[p].lines, "file"))
    BY <1>3, <1>4, <2>2, TableInserted
  <2> QED
    BY <1>4, <2>1, <2>2 DEF StoreLines
<1>10. CASE UNCHANGED vars
  BY <1>2, <1>10 DEF vars, data, observers
<1>11. ASSUME NEW key \in Keys \cup {Noise}, WriteLine(key) PROVE TableInv'
  BY <1>2, <1>11 DEF WriteLine
<1>12. CASE StartKernel \/ ToggleLogging \/ Crash
  BY <1>2, <1>12 DEF StartKernel, ToggleLogging, Crash, observers
<1>13. CASE Tick
  BY <1>0, <1>13, TableRemains DEF Tick, observers
<1>14. CASE ClearAccessLogs
  BY <1>0, <1>14, TableRemains DEF ClearAccessLogs, observers
<1>15. CASE LookAtLog
  BY <1>0, <1>1, <1>15, TableRemains DEF LookAtLog, observers
<1>16. ASSUME NEW p \in Tasks, Store(p) \/ StoreAndPrune(p) \/ StoreAndFail(p) PROVE TableInv'
  BY <1>4, <1>16 DEF Store, StoreAndPrune, StoreAndFail
<1>21. ASSUME NEW p \in Tasks, StoreBreaksOff(p) PROVE TableInv'
  <2>1. PICK n \in 0..Len(job[p].lines) : AddOnly(InsertLines(SubSeq(job[p].lines, 1, n), "file"))
    BY <1>21 DEF StoreBreaksOff
  <2>2. UNCHANGED clock
    BY <1>21 DEF StoreBreaksOff
  <2> DEFINE lines == SubSeq(job[p].lines, 1, n)
  <2>3. /\ lines \in Seq(Lines)
        /\ \A k \in DOMAIN lines : k \in DOMAIN job[p].lines /\ lines[k] = job[p].lines[k]
    BY <1>3, FirstOf
  <2>4. AddOnly(InsertLines(lines, "file"))
    BY <2>1
  <2> HIDE DEF lines
  <2>5. /\ \A k \in DOMAIN lines : lines[k].at <= clock
        /\ \A i, k \in DOMAIN lines : i < k => lines[i].n < lines[k].n
    BY <1>3, <2>3
  <2> QED
    BY <2>2, <2>3, <2>4, <2>5, TableInserted
<1>17. ASSUME NEW p \in Tasks,
              \/ ReadLines(p) \/ EmptyLongLog(p) \/ ResetOffset(p) \/ ControllerIsSilent(p)
       PROVE  TableInv'
  BY <1>2, <1>17 DEF ReadLines, EmptyLongLog, ResetOffset, ControllerIsSilent, data, observers
<1>22. ASSUME NEW p \in Tasks, AskForLogs(p) PROVE TableInv'
  BY <1>2, <1>22 DEF AskForLogs, OpenLog, data
<1>18. ASSUME NEW p \in Tasks, NEW open \in Listings, StoreConnections(p, open) PROVE TableInv'
  <2>1. /\ \A i \in DOMAIN open : open[i].start <= clock
        /\ AddClean(InsertConnections(open)) \/ AddOnly(InsertConnections(open))
        /\ UNCHANGED clock
    BY <1>18 DEF StoreConnections
  <2>2. /\ InsertConnections(open) \subseteq Rows /\ IsFiniteSet(InsertConnections(open))
        /\ \A r \in InsertConnections(open) : r.at <= clock
        /\ \A r, s \in InsertConnections(open) : r.id = s.id => r = s
    BY <2>1, InsertConnectionsTyped DEF Typed, Sized, TableInv, RowsHold
  <2> QED
    BY <2>1, <2>2, TableFilled
<1>19. CASE MarkToEnd \/ MarkLongLog \/ TakeLine
  BY <1>2, <1>19 DEF MarkToEnd, MarkLongLog, TakeLine, data, observers
<1>23. CASE ControllerFails \/ Connect
  BY <1>2, <1>23 DEF ControllerFails, Connect, OpenLog, data, observers
<1>24. CASE VisitFileInStream \/ StreamEnds
  BY <1>2, <1>24 DEF VisitFileInStream, StreamEnds, VisitFile, OpenLog, data, observers
<1>25. CASE FilterBlocks
  BY <1>25, TableBlocks
<1>20. CASE InsertLine
  <2>1. UNCHANGED clock
    BY <1>20 DEF InsertLine
  <2>2. CASE UNCHANGED <<rows, uncleaned>>
    BY <1>2, <2>1, <2>2
  <2>3. CASE rows' = Table /\ UNCHANGED uncleaned
    BY <1>0, <1>1, <2>1, <2>3, TableRemains
  <2>4. CASE \/ AddClean(InsertLines(job[Collector].lines, "stream"))
             \/ AddOnly(InsertLines(job[Collector].lines, "stream"))
    BY <1>0, <1>3, <2>1, <2>4, TableInserted
  <2> QED
    BY <1>20, <2>2, <2>3, <2>4 DEF InsertLine
<1> QED
  BY <1>10, <1>11, <1>12, <1>13, <1>14, <1>15, <1>16, <1>17, <1>18, <1>19, <1>20,
     <1>21, <1>22, <1>23, <1>24, <1>25 DEF Next, AtFile

\* Whoever fills the table, and with whatever, it holds no more rows than its limit and
\* what was added to it, by the DNS filter or by what failed, since the last cleanup.
THEOREM TableStaysBounded == Spec => []TableIsBounded
<1> DEFINE Inv == Typed /\ Numbered /\ TableInv
<1>1. Init => Inv
  BY InitTyped, InitNumbered, InitTable
<1>2. Inv /\ [Next]_vars => Inv'
  BY TypedStep, NumberedStep, TableStep
<1>3. Inv => TableIsBounded
  BY DEF TableInv
<1> QED
  BY <1>1, <1>2, <1>3, PTL DEF Spec

-----------------------------------------------------------------------------
(* Sums.                                                                   *)

Pairs(f) == UNION {{x} \X (1..f[x]) : x \in DOMAIN f}

LEMMA PairsAre ==
  ASSUME NEW S, NEW f \in [S -> Nat], IsFiniteSet(S)
  PROVE  /\ Total(f) = Cardinality(Pairs(f)) /\ IsFiniteSet(Pairs(f)) /\ Total(f) \in Nat
         /\ \A z : z \in Pairs(f) <=> \E x \in S : \E k \in 1..f[x] : z = <<x, k>>
<1> DEFINE parts == {{x} \X (1..f[x]) : x \in S}
<1>1. Pairs(f) = UNION parts
  BY DEF Pairs
<1>2. \A T \in parts : IsFiniteSet(T)
  <2> SUFFICES ASSUME NEW x \in S PROVE IsFiniteSet({x} \X (1..f[x]))
    OBVIOUS
  <2>1. 0 \in Int /\ 1 \in Int /\ f[x] \in Int
    <3> HIDE DEF parts
    <3>1. f[x] \in Nat
      OBVIOUS
    <3> QED
      BY <3>1
  <2>2. IsFiniteSet({x}) /\ IsFiniteSet(1..f[x])
    BY <2>1, FS_Singleton, FS_Interval
  <2> QED
    BY <2>2, FS_Product
<1>3. IsFiniteSet(parts)
  <2>1. [x \in S |-> {x} \X (1..f[x])] \in Surjection(S, parts)
    BY DEF Surjection
  <2> HIDE DEF parts
  <2> QED
    BY <2>1, FS_Surjection
<1>4. IsFiniteSet(Pairs(f))
  <2> HIDE DEF parts
  <2> QED
    BY <1>1, <1>2, <1>3, FS_UNION
<1>5. ASSUME NEW z PROVE z \in Pairs(f) <=> \E x \in S : \E k \in 1..f[x] : z = <<x, k>>
  <2>1. z \in Pairs(f) <=> \E x \in S : z \in {x} \X (1..f[x])
    BY <1>1
  <2>2. \A x : z \in {x} \X (1..f[x]) <=> \E k \in 1..f[x] : z = <<x, k>>
    OBVIOUS
  <2> QED
    BY <2>1, <2>2
<1>6. Total(f) = Cardinality(Pairs(f))
  BY DEF Total, Pairs
<1> QED
  BY <1>4, <1>5, <1>6, FS_CardinalityType

\* A sum is the same in any order.
LEMMA TotalReordered ==
  ASSUME NEW S, IsFiniteSet(S), NEW f \in [S -> Nat], NEW T, IsFiniteSet(T),
         NEW g \in Bijection(T, S)
  PROVE  Total([t \in T |-> f[g[t]]]) = Total(f)
<1> DEFINE h == [t \in T |-> f[g[t]]]
           map == [z \in Pairs(h) |-> <<g[z[1]], z[2]>>]
<1>1. /\ \A t \in T : g[t] \in S
      /\ \A t, u \in T : g[t] = g[u] => t = u
      /\ \A x \in S : \E t \in T : g[t] = x
  BY DEF Bijection, Injection, Surjection, IsInjective
<1>2. h \in [T -> Nat] /\ \A t \in T : h[t] = f[g[t]]
  BY <1>1
<1> HIDE DEF h
<1>3. /\ Total(h) = Cardinality(Pairs(h)) /\ IsFiniteSet(Pairs(h))
      /\ \A z : z \in Pairs(h) <=> \E x \in T : \E k \in 1..h[x] : z = <<x, k>>
  BY <1>2, PairsAre
<1>4. /\ Total(f) = Cardinality(Pairs(f)) /\ IsFiniteSet(Pairs(f))
      /\ \A z : z \in Pairs(f) <=> \E x \in S : \E k \in 1..f[x] : z = <<x, k>>
  BY PairsAre
<1>5. map \in [Pairs(h) -> Pairs(f)]
  <2> SUFFICES ASSUME NEW z \in Pairs(h) PROVE <<g[z[1]], z[2]>> \in Pairs(f)
    OBVIOUS
  <2>1. PICK t \in T : \E k \in 1..h[t] : z = <<t, k>>
    BY <1>3
  <2>2. PICK k \in 1..h[t] : z = <<t, k>>
    BY <2>1
  <2>3. k \in 1..f[g[t]] /\ g[t] \in S /\ z[1] = t /\ z[2] = k
    BY <1>1, <1>2, <2>2
  <2> QED
    BY <1>4, <2>3
<1>6. ASSUME NEW y \in Pairs(h), NEW z \in Pairs(h), map[y] = map[z] PROVE y = z
  <2>1. PICK t \in T : \E k \in 1..h[t] : y = <<t, k>>
    BY <1>3
  <2>2. PICK u \in T : \E k \in 1..h[u] : z = <<u, k>>
    BY <1>3
  <2>3. g[y[1]] = g[z[1]] /\ y[2] = z[2]
    BY <1>6
  <2> QED
    BY <1>1, <2>1, <2>2, <2>3
<1>7. ASSUME NEW z \in Pairs(f) PROVE \E y \in Pairs(h) : map[y] = z
  <2>1. PICK x \in S : \E k \in 1..f[x] : z = <<x, k>>
    BY <1>4
  <2>2. PICK k \in 1..f[x] : z = <<x, k>>
    BY <2>1
  <2>3. PICK t \in T : g[t] = x
    BY <1>1
  <2>4. <<t, k>> \in Pairs(h)
    BY <1>2, <1>3, <2>2, <2>3
  <2>5. map[<<t, k>>] = z
    BY <2>2, <2>3, <2>4
  <2> QED
    BY <2>4, <2>5
<1>8. map \in Bijection(Pairs(h), Pairs(f))
  <2> HIDE DEF map
  <2> QED
    BY <1>5, <1>6, <1>7 DEF Bijection, Injection, Surjection, IsInjective
<1>9. ExistsBijection(Pairs(h), Pairs(f))
  BY <1>8 DEF ExistsBijection
<1>10. Total(h) = Total(f)
  BY <1>3, <1>4, <1>9, FS_Bijection
<1> QED
  BY <1>10 DEF h

\* Sums of parts that have nothing in common make no more than the whole.
LEMMA TotalOfParts ==
  ASSUME NEW S, IsFiniteSet(S), NEW f \in [S -> Nat], NEW I, IsFiniteSet(I),
         NEW part \in [I -> SUBSET S],
         \A a, b \in I : a # b => part[a] \cap part[b] = {}
  PROVE  Total([a \in I |-> Total([x \in part[a] |-> f[x]])]) <= Total(f)
<1> DEFINE of(a) == [x \in part[a] |-> f[x]]
           sums == [a \in I |-> Total(of(a))]
           count(a) == CHOOSE b : b \in Bijection(1..Cardinality(Pairs(of(a))), Pairs(of(a)))
           map == [z \in Pairs(sums) |-> count(z[1])[z[2]]]
<1>1. ASSUME NEW a \in I
      PROVE  /\ Total(of(a)) = Cardinality(Pairs(of(a))) /\ IsFiniteSet(Pairs(of(a)))
             /\ Total(of(a)) \in Nat
             /\ \A z : z \in Pairs(of(a)) <=> \E x \in part[a] : \E k \in 1..f[x] : z = <<x, k>>
  <2>1. part[a] \subseteq S /\ IsFiniteSet(part[a])
    BY FS_Subset
  <2>2. of(a) \in [part[a] -> Nat] /\ \A x \in part[a] : of(a)[x] = f[x]
    BY <2>1
  <2> HIDE DEF of
  <2>3. /\ Total(of(a)) = Cardinality(Pairs(of(a))) /\ IsFiniteSet(Pairs(of(a)))
        /\ Total(of(a)) \in Nat
        /\ \A z : z \in Pairs(of(a)) <=> \E x \in part[a] : \E k \in 1..of(a)[x] : z = <<x, k>>
    BY <2>1, <2>2, PairsAre
  <2>4. \A x \in part[a] : of(a)[x] = f[x]
    BY <2>2
  <2> QED
    BY <2>3, <2>4
<1>2. /\ Total(f) = Cardinality(Pairs(f)) /\ IsFiniteSet(Pairs(f))
      /\ \A z : z \in Pairs(f) <=> \E x \in S : \E k \in 1..f[x] : z = <<x, k>>
  BY PairsAre
<1> HIDE DEF of
<1>3. sums \in [I -> Nat] /\ \A a \in I : sums[a] = Total(of(a))
  BY <1>1
<1> HIDE DEF sums
<1>4. /\ Total(sums) = Cardinality(Pairs(sums))
      /\ \A z : z \in Pairs(sums) <=> \E x \in I : \E k \in 1..sums[x] : z = <<x, k>>
  BY <1>3, PairsAre
<1>5. ASSUME NEW a \in I
      PROVE  count(a) \in Bijection(1..sums[a], Pairs(of(a)))
  <2>1. ExistsBijection(1..Cardinality(Pairs(of(a))), Pairs(of(a)))
    BY <1>1, FS_CardinalityType
  <2>2. count(a) \in Bijection(1..Cardinality(Pairs(of(a))), Pairs(of(a)))
    BY <2>1 DEF ExistsBijection
  <2> QED
    BY <1>1, <1>3, <2>2
<1> HIDE DEF count
<1>6. ASSUME NEW z \in Pairs(sums)
      PROVE  /\ z[1] \in I /\ z[2] \in 1..sums[z[1]] /\ z = <<z[1], z[2]>>
             /\ map[z] = count(z[1])[z[2]] /\ map[z] \in Pairs(of(z[1]))
  <2>1. PICK a \in I : \E k \in 1..sums[a] : z = <<a, k>>
    BY <1>4
  <2>2. z[1] = a /\ z[2] \in 1..sums[a] /\ z = <<z[1], z[2]>>
    BY <2>1
  <2>3. map[z] = count(z[1])[z[2]]
    OBVIOUS
  <2>4. count(a)[z[2]] \in Pairs(of(a))
    BY <1>5, <2>2 DEF Bijection, Injection, IsInjective
  <2> QED
    BY <2>2, <2>3, <2>4
<1>7. ASSUME NEW a \in I, NEW z \in Pairs(of(a)) PROVE z \in Pairs(f) /\ z[1] \in part[a]
  <2>1. PICK x \in part[a] : \E k \in 1..f[x] : z = <<x, k>>
    BY <1>1
  <2>2. x \in S /\ z[1] = x
    BY <2>1
  <2> QED
    BY <1>2, <2>1, <2>2
<1>8. map \in Injection(Pairs(sums), Pairs(f))
  <2>1. map \in [Pairs(sums) -> Pairs(f)]
    BY <1>6, <1>7
  <2>2. ASSUME NEW y \in Pairs(sums), NEW z \in Pairs(sums), map[y] = map[z] PROVE y = z
    <3>1. map[y][1] \in part[y[1]] /\ map[y][1] \in part[z[1]]
      BY <1>6, <1>7, <2>2
    <3>2. y[1] = z[1]
      BY <1>6, <3>1
    <3>3. count(y[1])[y[2]] = count(y[1])[z[2]]
      BY <1>6, <2>2, <3>2
    <3>4. /\ y[1] \in I /\ y[2] \in 1..sums[y[1]] /\ z[2] \in 1..sums[y[1]]
          /\ count(y[1]) \in Injection(1..sums[y[1]], Pairs(of(y[1])))
      BY <1>5, <1>6, <3>2 DEF Bijection
    <3>5. y[2] = z[2]
      <4> DEFINE c == count(y[1])
                 D == 1..sums[y[1]]
      <4>1. c \in Injection(D, Pairs(of(y[1]))) /\ y[2] \in D /\ z[2] \in D /\ c[y[2]] = c[z[2]]
        BY <3>3, <3>4
      <4> HIDE DEF c, D
      <4> QED
        BY <4>1 DEF Injection, IsInjective
    <3> QED
      BY <1>6, <3>2, <3>5
  <2> HIDE DEF map
  <2> QED
    BY <2>1, <2>2 DEF Injection, IsInjective
<1>9. Total(sums) <= Total(f)
  <2> HIDE DEF map
  <2> QED
    BY <1>2, <1>4, <1>8, FS_Injection
<1> QED
  BY <1>9 DEF sums, of

-----------------------------------------------------------------------------
(* What the console shows.                                                 *)

\* An order of rows: what is newer comes first, and ids tell rows of one time apart.
LEMMA NewerOrders ==
  ASSUME NEW a \in Rows, NEW b \in Rows, NEW c \in Rows
  PROVE  /\ ~Newer(a, a)
         /\ Newer(a, b) /\ Newer(b, c) => Newer(a, c)
         /\ Newer(a, b) => a.at >= b.at
         /\ a.id # b.id => Newer(a, b) \/ Newer(b, a)
<1>1. /\ a.at \in Int /\ b.at \in Int /\ c.at \in Int
      /\ a.id \in Int /\ b.id \in Int /\ c.id \in Int
  BY BoundsAssumption DEF Rows
<1> QED
  BY <1>1 DEF Newer

\* Rows that are told apart by their ids.
Ordered(S) == S \subseteq Rows /\ IsFiniteSet(S) /\ \A r, s \in S : r.id = s.id => r = s

NewerThan(S, r) == {other \in S : Newer(other, r)}
Place(S, r) == 1 + Cardinality(NewerThan(S, r))

LEMMA NewerCounted ==
  ASSUME NEW S, Ordered(S), NEW r \in S, NEW s \in S
  PROVE  /\ Place(S, r) \in 1..Cardinality(S)
         /\ Newer(r, s) => Place(S, r) < Place(S, s)
<1>1. /\ NewerThan(S, r) \in SUBSET S /\ NewerThan(S, s) \in SUBSET S
      /\ r \notin NewerThan(S, r) /\ r \in S /\ S \subseteq Rows /\ IsFiniteSet(S)
  BY NewerOrders DEF NewerThan, Ordered
<1>2. /\ IsFiniteSet(NewerThan(S, r)) /\ IsFiniteSet(NewerThan(S, s))
      /\ Cardinality(NewerThan(S, r)) <= Cardinality(S)
      /\ Cardinality(NewerThan(S, r)) # Cardinality(S)
  BY <1>1, FS_Subset
<1>3. /\ Cardinality(S) \in Nat /\ Cardinality(NewerThan(S, r)) \in Nat
      /\ Cardinality(NewerThan(S, s)) \in Nat
  BY <1>1, <1>2, FS_CardinalityType
<1>4. Place(S, r) \in 1..Cardinality(S)
  BY <1>2, <1>3 DEF Place
<1>5. ASSUME Newer(r, s) PROVE Place(S, r) < Place(S, s)
  <2>1. NewerThan(S, r) \in SUBSET NewerThan(S, s)
    BY <1>1, <1>5, NewerOrders DEF NewerThan
  <2>2. r \in NewerThan(S, s)
    BY <1>5 DEF NewerThan
  <2>3. /\ Cardinality(NewerThan(S, r)) <= Cardinality(NewerThan(S, s))
        /\ Cardinality(NewerThan(S, r)) # Cardinality(NewerThan(S, s))
    BY <1>1, <1>2, <2>1, <2>2, FS_Subset
  <2> QED
    BY <1>3, <2>3 DEF Place
<1> QED
  BY <1>4, <1>5

LEMMA PlacesDiffer ==
  ASSUME NEW S, Ordered(S), NEW r \in S, NEW s \in S, Place(S, r) = Place(S, s)
  PROVE  r = s
<1>1. Place(S, r) \in Int
  BY FS_CardinalityType, NewerCounted DEF Ordered
<1>2. ~Newer(r, s) /\ ~Newer(s, r)
  BY <1>1, NewerCounted
<1>3. r.id = s.id
  BY <1>2, NewerOrders DEF Ordered
<1> QED
  BY <1>3 DEF Ordered

\* Every place is taken.
LEMMA PlacesTaken ==
  ASSUME NEW S, Ordered(S)
  PROVE  \A n \in 1..Cardinality(S) : \E r \in S : Place(S, r) = n
<1> DEFINE f == [r \in S |-> Place(S, r)]
<1>1. Cardinality(S) \in Nat
  BY FS_CardinalityType DEF Ordered
<1>2. f \in [S -> 1..Cardinality(S)]
  BY NewerCounted
<1>4. \A r, s \in S : f[r] = f[s] => r = s
  BY PlacesDiffer
<1>5. f \in Injection(S, 1..Cardinality(S))
  <2> HIDE DEF f
  <2> QED
    BY <1>2, <1>4 DEF Injection, IsInjective
<1>6. IsFiniteSet(1..Cardinality(S)) /\ Cardinality(1..Cardinality(S)) = Cardinality(S)
  BY <1>1, FS_Interval
<1>7. f \in Surjection(S, 1..Cardinality(S))
  <2> HIDE DEF f
  <2> QED
    BY <1>5, <1>6, FS_Injection
<1>8. \A n \in 1..Cardinality(S) : \E r \in S : f[r] = n
  <2> HIDE DEF f
  <2> QED
    BY <1>7 DEF Surjection
<1> QED
  BY <1>8

\* A list of rows by place has each of them once, the newest first.
LEMMA ListedOnce ==
  ASSUME NEW S, Ordered(S)
  PROVE  LET list == [n \in 1..Cardinality(S) |-> CHOOSE r \in S : Place(S, r) = n] IN
         /\ list \in Bijection(1..Cardinality(S), S)
         /\ \A i, j \in 1..Cardinality(S) : i < j => list[i].at >= list[j].at
<1> DEFINE D == 1..Cardinality(S)
           list == [n \in D |-> CHOOSE r \in S : Place(S, r) = n]
<1>1. \A n \in D : list[n] \in S /\ Place(S, list[n]) = n
  <2> SUFFICES ASSUME NEW n \in D
               PROVE  LET r == CHOOSE r \in S : Place(S, r) = n IN r \in S /\ Place(S, r) = n
    OBVIOUS
  <2>1. \E r \in S : Place(S, r) = n
    BY PlacesTaken
  <2> QED
    BY <2>1
<1>2. list \in [D -> S]
  BY <1>1
<1> HIDE DEF list
<1>3. \A r, s \in S : Place(S, r) = Place(S, s) => r = s
  BY PlacesDiffer
<1>4. \A i, j \in D : list[i] = list[j] => i = j
  BY <1>1
<1>5. \A r \in S : \E i \in D : list[i] = r
  <2> SUFFICES ASSUME NEW r \in S PROVE \E i \in D : list[i] = r
    OBVIOUS
  <2>1. Place(S, r) \in D
    BY NewerCounted
  <2>2. list[Place(S, r)] = r
    BY <1>1, <1>3, <2>1
  <2> QED
    BY <2>1, <2>2
<1>6. list \in Bijection(D, S)
  <2> HIDE DEF D
  <2> QED
    BY <1>2, <1>4, <1>5 DEF Bijection, Injection, Surjection, IsInjective
<1>7. ASSUME NEW i \in D, NEW j \in D, i < j PROVE list[i].at >= list[j].at
  <2>1. /\ list[i] \in S /\ Place(S, list[i]) = i
        /\ list[j] \in S /\ Place(S, list[j]) = j
    BY <1>1
  <2>2. i \in Int /\ j \in Int
    OBVIOUS
  <2>3. list[i] # list[j] /\ ~Newer(list[j], list[i])
    BY <1>7, <2>1, <2>2, NewerCounted
  <2>4. list[i] \in Rows /\ list[j] \in Rows /\ list[i].id # list[j].id
    BY <2>1, <2>3 DEF Ordered
  <2>5. Newer(list[i], list[j])
    BY <2>3, <2>4, NewerOrders
  <2> QED
    BY <2>4, <2>5, NewerOrders
<1> QED
  BY <1>6, <1>7 DEF list

\* A time before now is of today if it is not before the day began.
LEMMA DayBegins ==
  ASSUME NEW at \in Nat, NEW now \in Nat, at <= now
  PROVE  /\ at >= Day(now) * TicksPerDay <=> Day(at) = Day(now)
         /\ Day(at) \in Int /\ Day(now) \in Int
<1>1. TicksPerDay \in Nat /\ TicksPerDay > 0
  BY LimitsAssumption
<1> DEFINE T == TicksPerDay
           p == Day(at)
           q == Day(now)
<1>2. /\ p \in Int /\ p * T <= at /\ at < (p + 1) * T
      /\ q \in Int /\ q * T <= now /\ now < (q + 1) * T
  BY <1>1 DEF Day
<1> HIDE DEF p, q, T
<1>3. T \in Int /\ T > 0
  BY <1>1 DEF T
<1>4. \A x, y \in Int : x * T < y * T => x < y
  BY <1>3
<1>5. p * T \in Int /\ q * T \in Int /\ (p + 1) * T \in Int /\ (q + 1) * T \in Int
  BY <1>2, <1>3
<1>6. ASSUME at >= q * T PROVE p = q
  <2>1. q * T < (p + 1) * T /\ p * T < (q + 1) * T
    BY <1>2, <1>5, <1>6
  <2>2. q < p + 1 /\ p < q + 1
    BY <1>2, <1>4, <2>1
  <2> QED
    BY <1>2, <2>2
<1>7. ASSUME p = q PROVE at >= q * T
  BY <1>2, <1>5, <1>7
<1> QED
  BY <1>2, <1>6, <1>7 DEF p, q, T

LEMMA ShownOrdered ==
  ASSUME Typed, TableInv, NEW decisions
  PROVE  /\ Ordered(Shown(decisions)) /\ Shown(decisions) \subseteq Table
         /\ Cardinality(Shown(decisions)) <= Cardinality(rows)
         /\ Cardinality(rows) \in Nat /\ Cardinality(Shown(decisions)) \in Nat
<1>1. /\ Table \subseteq rows /\ rows \subseteq Rows /\ IsFiniteSet(rows)
  BY TableTyped DEF Typed, TypeOK, Sized
<1>2. Shown(decisions) \in SUBSET rows /\ Shown(decisions) \subseteq Table
  BY <1>1 DEF Shown
<1>3. /\ IsFiniteSet(Shown(decisions))
      /\ Cardinality(Shown(decisions)) <= Cardinality(rows)
  BY <1>1, <1>2, FS_Subset
<1>4. Cardinality(rows) \in Nat /\ Cardinality(Shown(decisions)) \in Nat
  BY <1>1, <1>3, FS_CardinalityType
<1>5. Ordered(Shown(decisions))
  BY <1>1, <1>2, <1>3 DEF Ordered, TableInv, RowsHold
<1> QED
  BY <1>2, <1>3, <1>4, <1>5

LEMMA ViewsFit ==
  ASSUME Typed, TableInv
  PROVE  ViewsAgree
<1> SUFFICES
      ASSUME NEW decisions \in SUBSET Decisions
      PROVE  LET list == ListAccessLogs(decisions, Cardinality(rows))
                 stats == AccessLogStats(decisions)
                 daily == AccessLogDailyStats(decisions) IN
             /\ stats.total = Total([n \in DOMAIN list |-> list[n].count])
             /\ stats.today = daily[0]
             /\ Total(daily) <= stats.total
             /\ \A i \in DOMAIN list : list[i].key # OwnDns
             /\ \A i, j \in DOMAIN list : i < j => list[i].at >= list[j].at
  BY DEF ViewsAgree
<1> DEFINE S == Shown(decisions)
           D == 1..Cardinality(S)
           list == [n \in D |-> CHOOSE r \in S : Place(S, r) = n]
           count == [r \in S |-> r.count]
           days == 0..ShownDays - 1
           part == [ago \in days |-> {r \in S : Day(r.at) = Day(clock) - ago}]
<1>1. /\ Ordered(S) /\ S \subseteq Table /\ Cardinality(S) <= Cardinality(rows)
      /\ Cardinality(rows) \in Nat /\ Cardinality(S) \in Nat
  BY ShownOrdered
<1>2. ListAccessLogs(decisions, Cardinality(rows)) = list
  <2>1. (IF Cardinality(rows) < Cardinality(S) THEN Cardinality(rows) ELSE Cardinality(S))
          = Cardinality(S)
    BY <1>1
  <2> QED
    BY <2>1 DEF ListAccessLogs, Place, NewerThan
<1>3. /\ list \in Bijection(D, S)
      /\ \A i, j \in D : i < j => list[i].at >= list[j].at
  BY <1>1, ListedOnce
<1> HIDE DEF list
<1>4. DOMAIN list = D /\ \A n \in D : list[n] \in S
  BY <1>3 DEF Bijection, Injection
<1>5. \A r \in S : /\ r.key # OwnDns /\ r.count \in Nat
                   /\ r.at \in Nat /\ r.at <= clock
  <2>1. S \subseteq rows /\ rows \subseteq Rows
    BY <1>1, TableTyped DEF Typed, TypeOK, Sized
  <2>2. \A r \in S : r.key # OwnDns
    BY <1>1 DEF Table, PruneOwnDns
  <2>3. \A r \in S : r.at <= clock
    BY <2>1 DEF TableInv, RowsHold
  <2> QED
    BY <2>1, <2>2, <2>3, BoundsAssumption DEF Rows
<1>6. IsFiniteSet(S) /\ IsFiniteSet(D) /\ count \in [S -> Nat]
  BY <1>1, <1>5, FS_Interval DEF Ordered
<1>7. Total(count) = Total([n \in D |-> list[n].count])
  <2>1. Total([n \in D |-> count[list[n]]]) = Total(count)
    <3> HIDE DEF count, S, D
    <3> QED
      BY <1>3, <1>6, TotalReordered
  <2>2. [n \in D |-> count[list[n]]] = [n \in D |-> list[n].count]
    BY <1>4
  <2> QED
    BY <2>1, <2>2
<1>8. AccessLogStats(decisions).total = Total(count)
  BY DEF AccessLogStats, Counts
<1>9. clock \in Nat
  BY BoundsAssumption DEF Typed, TypeOK
<1>10. AccessLogStats(decisions).today = AccessLogDailyStats(decisions)[0]
  <2>1. 0 \in days
    BY LimitsAssumption
  <2>2. \A r \in S : r.at >= Day(clock) * TicksPerDay <=> Day(r.at) = Day(clock) - 0
    <3> SUFFICES ASSUME NEW r \in S
                 PROVE  r.at >= Day(clock) * TicksPerDay <=> Day(r.at) = Day(clock) - 0
      OBVIOUS
    <3>1. /\ r.at >= Day(clock) * TicksPerDay <=> Day(r.at) = Day(clock)
          /\ Day(clock) \in Int
      BY <1>5, <1>9, DayBegins
    <3> QED
      BY <3>1
  <2>3. {r \in S : r.at >= Day(clock) * TicksPerDay} = {r \in S : Day(r.at) = Day(clock) - 0}
    BY <2>2
  <2> QED
    BY <2>1, <2>3 DEF AccessLogStats, AccessLogDailyStats
<1>11. Total(AccessLogDailyStats(decisions)) <= Total(count)
  <2>1. part \in [days -> SUBSET S]
    OBVIOUS
  <2>2. ASSUME NEW a \in days, NEW b \in days, a # b PROVE part[a] \cap part[b] = {}
    <3>1. Day(clock) \in Int /\ a \in Int /\ b \in Int
      BY <1>9, DayBegins
    <3>2. Day(clock) - a # Day(clock) - b
      BY <2>2, <3>1
    <3> QED
      BY <3>2
  <2>3. IsFiniteSet(days)
    <3>1. 0 \in Int /\ ShownDays - 1 \in Int
      BY LimitsAssumption
    <3> QED
      BY <3>1, FS_Interval
  <2>4. Total([a \in days |-> Total([x \in part[a] |-> count[x]])]) <= Total(count)
    <3> HIDE DEF count, S, days, part
    <3> QED
      BY <1>6, <2>1, <2>2, <2>3, TotalOfParts
  <2>5. \A a \in days : [x \in part[a] |-> count[x]] = [x \in part[a] |-> x.count]
    BY <2>1
  <2>6. AccessLogDailyStats(decisions) = [a \in days |-> Total([x \in part[a] |-> count[x]])]
    BY <2>5 DEF AccessLogDailyStats, Counts
  <2> QED
    BY <2>4, <2>6
<1> QED
  BY <1>2, <1>3, <1>4, <1>5, <1>7, <1>8, <1>10, <1>11

\* What the console shows at a time fits together, in every state, for any number of
\* rows and any times: the list has every access the counter counts, in order, today's
\* number is that of the chart's last day, and the days make no more than the whole.
THEOREM ViewsFitTogether == Spec => []ViewsAgree
<1> DEFINE Inv == Typed /\ Numbered /\ TableInv
<1>1. Init => Inv
  BY InitTyped, InitNumbered, InitTable
<1>2. Inv /\ [Next]_vars => Inv'
  BY TypedStep, NumberedStep, TableStep
<1>3. Inv => ViewsAgree
  BY ViewsFit
<1> QED
  BY <1>1, <1>2, <1>3, PTL DEF Spec
=================================================================================

-------------------------- MODULE IncidentStoreProofs --------------------------
(***************************************************************************)
(* What Load gives back and that the store implements RecordLog, for any      *)
(* number of investigations and readers.                                     *)
(***************************************************************************)
EXTENDS IncidentStore, SequenceTheorems, TLAPS

\* Nothing disturbed the record at p so far.
Clear(p) == ~Disturbed(p)

-------------------------------------------------------------------------------
(* Lines and cells. *)

\* A record is a sequence of lines, its meta line first.
LEMMA RecordType ==
  ASSUME NEW s \in Savers
  PROVE  /\ Record(s) \in Seq(Lines) /\ Len(Record(s)) = NumObs(s) + 2
         /\ NumObs(s) \in Nat
         /\ \A n \in 1..Len(Record(s)) : Record(s)[n].kind = "meta" => Record(s)[n] = Meta(s)
<1>1. NumObs(s) \in Nat
  BY ActorAssumption
<1>2. DOMAIN Record(s) = 1..NumObs(s) + 2
  BY DEF Record
<1>3. \A n \in DOMAIN Record(s) : Record(s)[n] \in Lines
  <2>1. \A n \in DOMAIN Record(s) : Record(s)[n] \in {Record(s)[m] : m \in DOMAIN Record(s)}
    OBVIOUS
  <2> QED BY <2>1 DEF Lines
<1>4. Record(s) \in Seq(Lines) /\ Len(Record(s)) = NumObs(s) + 2
  <2>1. Record(s) = [n \in 1..NumObs(s) + 2 |-> Record(s)[n]]
    BY DEF Record
  <2> HIDE DEF Record
  <2> QED BY <1>1, <1>2, <1>3, <2>1
<1>5. \A n \in 1..NumObs(s) + 2 : Record(s)[n].kind = "meta" => Record(s)[n] = Meta(s)
  BY DEF Record, Meta, Observation, Result
<1> QED BY <1>1, <1>4, <1>5

\* The cells of some lines, one by one.
LEMMA CellsType ==
  ASSUME NEW lines \in Seq(Lines)
  PROVE  /\ Cells(lines) \in Seq(Cell) /\ Len(Cells(lines)) = 2 * Len(lines)
         /\ \A n \in 1..Len(lines) :
              /\ Cells(lines)[2 * n - 1] = [line |-> lines[n], part |-> "head"]
              /\ Cells(lines)[2 * n] = [line |-> lines[n], part |-> "tail"]
<1>1. ASSUME NEW k \in 1..2 * Len(lines)
      PROVE  /\ (k + 1) \div 2 \in 1..Len(lines)
             /\ lines[(k + 1) \div 2] \in Lines
             /\ Cells(lines)[k] \in Cell
  <2>1. (k + 1) \div 2 \in 1..Len(lines)
    OBVIOUS
  <2>2. lines[(k + 1) \div 2] \in Lines
    BY <2>1
  <2>3. Cells(lines)[k] = [line |-> lines[(k + 1) \div 2],
                           part |-> IF k % 2 = 1 THEN "head" ELSE "tail"]
    BY DEF Cells
  <2> QED BY <2>1, <2>2, <2>3 DEF Cell
<1>2. Cells(lines) \in Seq(Cell) /\ Len(Cells(lines)) = 2 * Len(lines)
  BY <1>1 DEF Cells
<1>3. ASSUME NEW n \in 1..Len(lines)
      PROVE  /\ Cells(lines)[2 * n - 1] = [line |-> lines[n], part |-> "head"]
             /\ Cells(lines)[2 * n] = [line |-> lines[n], part |-> "tail"]
  <2>1. /\ 2 * n - 1 \in 1..2 * Len(lines) /\ (2 * n - 1) % 2 = 1
        /\ (2 * n - 1 + 1) \div 2 = n
        /\ 2 * n \in 1..2 * Len(lines) /\ (2 * n) % 2 = 0
        /\ (2 * n + 1) \div 2 = n
    OBVIOUS
  <2> QED BY <2>1 DEF Cells
<1> QED BY <1>2, <1>3

\* The lines of some cells.
LEMMA LinesInType ==
  ASSUME NEW cells \in Seq(Cell)
  PROVE  /\ LinesIn(cells) \in Seq(Lines) /\ Len(LinesIn(cells)) = Len(cells) \div 2
         /\ \A n \in 1..Len(cells) \div 2 : LinesIn(cells)[n] = cells[2 * n].line
<1>1. ASSUME NEW n \in 1..Len(cells) \div 2
      PROVE  cells[2 * n].line \in Lines
  <2>1. 2 * n \in 1..Len(cells)
    OBVIOUS
  <2>2. cells[2 * n] \in Cell
    BY <2>1
  <2> QED BY <2>2 DEF Cell
<1>2. Len(cells) \div 2 \in Nat
  OBVIOUS
<1> QED BY <1>1, <1>2 DEF LinesIn

\* Lines that are written and read back are the same lines.
LEMMA LinesOfCells ==
  ASSUME NEW lines \in Seq(Lines)
  PROVE  LinesIn(Cells(lines)) = lines /\ Whole(Cells(lines))
<1>1. LinesIn(Cells(lines)) \in Seq(Lines) /\ Len(LinesIn(Cells(lines))) = Len(lines)
  <2>1. Cells(lines) \in Seq(Cell) /\ Len(Cells(lines)) \div 2 = Len(lines)
    BY CellsType
  <2> QED BY <2>1, LinesInType
<1>2. ASSUME NEW n \in 1..Len(lines) PROVE LinesIn(Cells(lines))[n] = lines[n]
  <2>1. /\ Cells(lines) \in Seq(Cell) /\ n \in 1..Len(Cells(lines)) \div 2
        /\ Cells(lines)[2 * n] = [line |-> lines[n], part |-> "tail"]
    <3>1. Cells(lines) \in Seq(Cell) /\ Len(Cells(lines)) = 2 * Len(lines)
      BY CellsType
    <3>2. Cells(lines)[2 * n] = [line |-> lines[n], part |-> "tail"]
      BY CellsType
    <3>3. (2 * Len(lines)) \div 2 = Len(lines)
      OBVIOUS
    <3> QED BY <3>1, <3>2, <3>3
  <2>2. LinesIn(Cells(lines))[n] = Cells(lines)[2 * n].line
    BY <2>1, LinesInType
  <2> QED BY <2>1, <2>2
<1>3. LinesIn(Cells(lines)) = lines
  BY <1>1, <1>2, SeqEqual
<1> QED BY <1>3 DEF Whole

\* The whole lines of a record that is cut anywhere are its first lines.
LEMMA LinesOfCut ==
  ASSUME NEW lines \in Seq(Lines), NEW n \in 0..Len(Cells(lines))
  PROVE  /\ SubSeq(Cells(lines), 1, n) \in Seq(Cell)
         /\ Len(SubSeq(Cells(lines), 1, n)) = n
         /\ n \div 2 \in 0..Len(lines)
         /\ LinesIn(SubSeq(Cells(lines), 1, n)) = SubSeq(lines, 1, n \div 2)
<1> DEFINE cut == SubSeq(Cells(lines), 1, n)
<1>1. /\ Cells(lines) \in Seq(Cell) /\ n \in 0..2 * Len(lines)
      /\ \A m \in 1..Len(lines) : Cells(lines)[2 * m].line = lines[m]
  <2>1. \A m \in 1..Len(lines) : Cells(lines)[2 * m] = [line |-> lines[m], part |-> "tail"]
    BY CellsType
  <2>2. Cells(lines) \in Seq(Cell) /\ Len(Cells(lines)) = 2 * Len(lines)
    BY CellsType
  <2>3. n \in 0..2 * Len(lines)
    BY <2>2
  <2>4. ASSUME NEW m \in 1..Len(lines) PROVE Cells(lines)[2 * m].line = lines[m]
    <3>1. Cells(lines)[2 * m] = [line |-> lines[m], part |-> "tail"]
      BY <2>1
    <3> QED BY <3>1
  <2> QED BY <2>2, <2>3, <2>4
<1>2. /\ cut \in Seq(Cell) /\ Len(cut) = n
      /\ \A k \in 1..n : cut[k] = Cells(lines)[k]
  BY <1>1, SubSeqProperties
<1>3. n \div 2 \in 0..Len(lines)
  BY <1>1
<1>4. /\ SubSeq(lines, 1, n \div 2) \in Seq(Lines)
      /\ Len(SubSeq(lines, 1, n \div 2)) = n \div 2
      /\ \A m \in 1..n \div 2 : SubSeq(lines, 1, n \div 2)[m] = lines[m]
  BY <1>3, SubSeqProperties
<1> HIDE DEF cut
<1>5. \A m \in 1..n \div 2 : LinesIn(cut)[m] = lines[m]
  <2>1. ASSUME NEW m \in 1..n \div 2 PROVE LinesIn(cut)[m] = lines[m]
    <3>1. 2 * m \in 1..n /\ m \in 1..Len(lines)
      BY <1>3
    <3> QED BY <3>1, <1>1, <1>2, LinesInType
  <2> QED BY <2>1
<1>6. LinesIn(cut) = SubSeq(lines, 1, n \div 2)
  <2>1. LinesIn(cut) \in Seq(Lines) /\ Len(LinesIn(cut)) = n \div 2
    BY <1>2, LinesInType
  <2> QED BY <1>4, <1>5, <2>1, SeqEqual
<1> QED BY <1>2, <1>3, <1>6 DEF cut

\* A write at the end of a cut record cuts it later.
LEMMA WriteOn ==
  ASSUME NEW cells \in Seq(Cell), NEW n \in 0..Len(cells), NEW m \in n + 1..Len(cells)
  PROVE  Written(SubSeq(cells, 1, n), n, SubSeq(cells, n + 1, m)) = SubSeq(cells, 1, m)
<1> DEFINE old == SubSeq(cells, 1, n)
           new == SubSeq(cells, n + 1, m)
           cut == SubSeq(cells, 1, m)
<1>1. /\ old \in Seq(Cell) /\ Len(old) = n /\ \A k \in 1..n : old[k] = cells[k]
      /\ new \in Seq(Cell) /\ Len(new) = m - n
      /\ \A k \in 1..m - n : new[k] = cells[n + k]
      /\ cut = [k \in 1..m |-> cells[k]]
  <2>1. old = [k \in 1..n |-> cells[k]]
    OBVIOUS
  <2>2. new = [k \in 1..m - n |-> cells[n + k]]
    OBVIOUS
  <2>3. cut = [k \in 1..m |-> cells[k]]
    OBVIOUS
  <2>4. \A k \in 1..m - n : cells[n + k] \in Cell
    OBVIOUS
  <2>5. \A k \in 1..n : cells[k] \in Cell
    OBVIOUS
  <2> HIDE DEF old, new, cut
  <2> QED BY <2>1, <2>2, <2>3, <2>4, <2>5
<1> HIDE DEF old, new, cut
<1>2. Written(old, n, new) = [k \in 1..m |-> cells[k]]
  <2>1. n + Len(new) = m /\ (IF n + Len(new) > Len(old) THEN n + Len(new) ELSE Len(old)) = m
    BY <1>1
  <2>2. \A k \in 1..m : (IF k \in n + 1..m THEN new[k - n]
                         ELSE IF k <= Len(old) THEN old[k] ELSE Hole) = cells[k]
    BY <1>1
  <2> QED BY <2>1, <2>2 DEF Written
<1> QED BY <1>1, <1>2 DEF old, new, cut

\* Wherever something is written, a file stays a sequence of cells.
LEMMA WrittenType ==
  ASSUME NEW cells \in Seq(Cell), NEW at \in Nat, NEW new \in Seq(Cell)
  PROVE  Written(cells, at, new) \in Seq(Cell)
<1>1. Hole \in Cell
  BY DEF Hole, Cell, Lines
<1> DEFINE end == IF at + Len(new) > Len(cells) THEN at + Len(new) ELSE Len(cells)
<1>2. end \in Nat
  OBVIOUS
<1>3. \A k \in 1..end : (IF k \in at + 1..at + Len(new) THEN new[k - at]
                         ELSE IF k <= Len(cells) THEN cells[k] ELSE Hole) \in Cell
  BY <1>1
<1> QED BY <1>2, <1>3 DEF Written

\* A line appended to whole lines is one more line.
LEMMA AppendLine ==
  ASSUME NEW cells \in Seq(Cell), Whole(cells), NEW l \in Lines
  PROVE  /\ cells \o Cells(<<l>>) \in Seq(Cell)
         /\ Whole(cells \o Cells(<<l>>))
         /\ LinesIn(cells \o Cells(<<l>>)) = Append(LinesIn(cells), l)
<1> DEFINE lines == LinesIn(cells)
           more == Append(lines, l)
<1>1. lines \in Seq(Lines) /\ cells = Cells(lines)
  BY LinesInType DEF Whole
<1> HIDE DEF lines
<1>2. /\ more \in Seq(Lines) /\ Len(more) = Len(lines) + 1
      /\ \A n \in 1..Len(lines) : more[n] = lines[n]
      /\ more[Len(lines) + 1] = l
  BY <1>1, AppendProperties
<1>3. <<l>> \in Seq(Lines) /\ Len(<<l>>) = 1 /\ <<l>>[1] = l
  OBVIOUS
<1>4. cells \o Cells(<<l>>) = Cells(more)
  <2> DEFINE tail == Cells(<<l>>)
             all == Cells(more)
  <2>1. /\ tail \in Seq(Cell) /\ Len(tail) = 2
        /\ tail[1] = [line |-> l, part |-> "head"]
        /\ tail[2] = [line |-> l, part |-> "tail"]
    <3>1. /\ tail \in Seq(Cell) /\ Len(tail) = 2
          /\ tail[2 * 1 - 1] = [line |-> l, part |-> "head"]
          /\ tail[2 * 1] = [line |-> l, part |-> "tail"]
      <4> DEFINE one == <<l>>
      <4>1. one \in Seq(Lines) /\ Len(one) = 1 /\ one[1] = l /\ 1 \in 1..Len(one)
        BY <1>3
      <4> HIDE DEF one
      <4>2. /\ Cells(one) \in Seq(Cell) /\ Len(Cells(one)) = 2
            /\ Cells(one)[2 * 1 - 1] = [line |-> l, part |-> "head"]
            /\ Cells(one)[2 * 1] = [line |-> l, part |-> "tail"]
        <5>1. \A n \in 1..Len(one) :
                 /\ Cells(one)[2 * n - 1] = [line |-> one[n], part |-> "head"]
                 /\ Cells(one)[2 * n] = [line |-> one[n], part |-> "tail"]
          BY <4>1, CellsType
        <5>2. Cells(one) \in Seq(Cell) /\ Len(Cells(one)) = 2 * Len(one)
          BY <4>1, CellsType
        <5>3. 2 * Len(one) = 2
          BY <4>1
        <5> QED BY <4>1, <5>1, <5>2, <5>3, Zenon
      <4> QED BY <4>2 DEF one
    <3> QED BY <3>1
  <2>2. /\ all \in Seq(Cell) /\ Len(all) = 2 * Len(lines) + 2
        /\ all[2 * Len(lines) + 1] = [line |-> l, part |-> "head"]
        /\ all[2 * Len(lines) + 2] = [line |-> l, part |-> "tail"]
    <3>1. /\ all \in Seq(Cell) /\ Len(all) = 2 * (Len(lines) + 1)
          /\ all[2 * (Len(lines) + 1) - 1] = [line |-> more[Len(lines) + 1], part |-> "head"]
          /\ all[2 * (Len(lines) + 1)] = [line |-> more[Len(lines) + 1], part |-> "tail"]
      <4>1. Len(lines) + 1 \in 1..Len(more)
        BY <1>1, <1>2
      <4> HIDE DEF more
      <4> QED BY <1>2, <4>1, CellsType
    <3>2. /\ 2 * (Len(lines) + 1) = 2 * Len(lines) + 2
          /\ 2 * (Len(lines) + 1) - 1 = 2 * Len(lines) + 1
      BY <1>1
    <3> HIDE DEF all, more
    <3> QED BY <1>2, <3>1, <3>2
  <2>3. ASSUME NEW k \in 1..2 * Len(lines) PROVE all[k] = cells[k]
    <3>1. (k + 1) \div 2 \in 1..Len(lines)
      BY <1>1
    <3>2. more[(k + 1) \div 2] = lines[(k + 1) \div 2]
      BY <1>2, <3>1
    <3>3. k \in 1..2 * Len(more)
      BY <1>1, <1>2
    <3> HIDE DEF more
    <3> QED BY <1>1, <3>2, <3>3 DEF Cells
  <2>4. cells \in Seq(Cell) /\ Len(cells) = 2 * Len(lines)
    BY <1>1, CellsType
  <2> HIDE DEF tail, all, more
  <2>5. /\ cells \o tail \in Seq(Cell) /\ Len(cells \o tail) = 2 * Len(lines) + 2
        /\ \A k \in 1..2 * Len(lines) : (cells \o tail)[k] = cells[k]
        /\ (cells \o tail)[2 * Len(lines) + 1] = tail[1]
        /\ (cells \o tail)[2 * Len(lines) + 2] = tail[2]
    <3>1. Len(lines) \in Nat
      BY <1>1
    <3>2. /\ cells \o tail \in Seq(Cell)
          /\ Len(cells \o tail) = Len(cells) + Len(tail)
          /\ \A k \in 1..Len(cells) + Len(tail) :
               (cells \o tail)[k] = IF k <= Len(cells) THEN cells[k] ELSE tail[k - Len(cells)]
      BY <2>1, <2>4, ConcatProperties
    <3>3. /\ 2 * Len(lines) \in Nat /\ Len(cells) = 2 * Len(lines) /\ Len(tail) = 2
      BY <2>1, <2>4, <3>1
    <3> DEFINE len == 2 * Len(lines)
    <3> HIDE DEF len
    <3>4. len \in Nat /\ Len(cells) = len /\ Len(tail) = 2
      BY <3>3 DEF len
    <3>5. /\ Len(cells \o tail) = len + 2
          /\ \A k \in 1..len : (cells \o tail)[k] = cells[k]
          /\ (cells \o tail)[len + 1] = tail[1]
          /\ (cells \o tail)[len + 2] = tail[2]
      BY <3>2, <3>4
    <3> QED BY <3>2, <3>5 DEF len
  <2>6. ASSUME NEW k \in 1..2 * Len(lines) + 2 PROVE (cells \o tail)[k] = all[k]
    <3>1. Len(lines) \in Nat
      BY <1>1
    <3>2. k \in 1..2 * Len(lines) \/ k = 2 * Len(lines) + 1 \/ k = 2 * Len(lines) + 2
      BY <3>1
    <3> QED BY <2>1, <2>2, <2>3, <2>5, <3>2
  <2>7. cells \o tail = all
    BY <2>2, <2>5, <2>6, SeqEqual
  <2> QED BY <2>7 DEF tail, all
<1>5. Cells(more) \in Seq(Cell)
  BY <1>2, CellsType
<1> QED BY <1>2, <1>4, <1>5, LinesOfCells DEF lines

\* A line appended to a torn one leaves torn lines.
LEMMA TornStaysTorn ==
  ASSUME NEW cells \in Seq(Cell), NEW l \in Lines, Whole(cells \o Cells(<<l>>))
  PROVE  Whole(cells)
<1> DEFINE tail == Cells(<<l>>)
           all == cells \o tail
           lines == LinesIn(all)
           some == LinesIn(cells)
<1>1. tail \in Seq(Cell) /\ Len(tail) = 2
  <2>1. <<l>> \in Seq(Lines) /\ Len(<<l>>) = 1
    OBVIOUS
  <2>2. Cells(<<l>>) \in Seq(Cell) /\ Len(Cells(<<l>>)) = 2 * Len(<<l>>)
    BY <2>1, CellsType
  <2> QED BY <2>1, <2>2
<1> HIDE DEF tail
<1>2. /\ all \in Seq(Cell) /\ Len(all) = Len(cells) + 2 /\ Len(cells) \in Nat
      /\ \A k \in 1..Len(cells) : all[k] = cells[k]
  <2>1. Len(cells) \in Nat
    OBVIOUS
  <2>2. /\ all \in Seq(Cell)
        /\ Len(all) = Len(cells) + Len(tail)
        /\ \A k \in 1..Len(cells) + Len(tail) :
             all[k] = IF k <= Len(cells) THEN cells[k] ELSE tail[k - Len(cells)]
    BY <1>1, ConcatProperties
  <2> QED BY <1>1, <2>1, <2>2
<1>3. all = Cells(lines)
  BY DEF Whole, tail
<1> HIDE DEF all
<1>4. /\ lines \in Seq(Lines) /\ Len(lines) = Len(all) \div 2
      /\ \A n \in 1..Len(all) \div 2 : lines[n] = all[2 * n].line
      /\ some \in Seq(Lines) /\ Len(some) = Len(cells) \div 2
      /\ \A n \in 1..Len(cells) \div 2 : some[n] = cells[2 * n].line
  BY <1>2, LinesInType
<1>5. Len(all) = 2 * Len(lines)
  BY <1>3, <1>4, CellsType
<1> HIDE DEF lines, some
<1>6. Len(cells) = 2 * Len(some) /\ Len(lines) = Len(some) + 1
  BY <1>2, <1>4, <1>5
<1>7. ASSUME NEW n \in 1..Len(some) PROVE some[n] = lines[n]
  <2>1. n \in 1..Len(cells) \div 2 /\ n \in 1..Len(all) \div 2 /\ 2 * n \in 1..Len(cells)
    BY <1>2, <1>4, <1>6
  <2> QED BY <1>2, <1>4, <2>1
<1>8. ASSUME NEW k \in 1..Len(cells) PROVE Cells(some)[k] = cells[k]
  <2>1. /\ k \in 1..2 * Len(some) /\ k \in 1..2 * Len(lines)
        /\ (k + 1) \div 2 \in 1..Len(some)
    BY <1>2, <1>4, <1>6
  <2>2. Cells(some)[k] = [line |-> some[(k + 1) \div 2],
                          part |-> IF k % 2 = 1 THEN "head" ELSE "tail"]
    BY <2>1 DEF Cells
  <2>3. Cells(lines)[k] = [line |-> lines[(k + 1) \div 2],
                           part |-> IF k % 2 = 1 THEN "head" ELSE "tail"]
    BY <2>1 DEF Cells
  <2> QED BY <1>2, <1>3, <1>7, <2>1, <2>2, <2>3
<1>9. Cells(some) \in Seq(Cell) /\ Len(Cells(some)) = Len(cells)
  BY <1>4, <1>6, CellsType
<1>10. cells = Cells(some)
  BY <1>8, <1>9, SeqEqual
<1> QED BY <1>10 DEF Whole, some

\* A line ends at an even cell: no lines are no cells.
LEMMA NoCells == Whole(<<>>) /\ LinesIn(<<>>) = <<>> /\ <<>> \in Seq(Cell)
<1>1. <<>> \in Seq(Lines) /\ Len(<<>>) = 0 /\ <<>> \in Seq(Cell)
  BY EmptySeq
<1>2. Cells(<<>>) \in Seq(Cell) /\ Len(Cells(<<>>)) = 0
  <2>1. Cells(<<>>) \in Seq(Cell) /\ Len(Cells(<<>>)) = 2 * Len(<<>>)
    BY <1>1, CellsType
  <2> QED BY <1>1, <2>1
<1>3. Cells(<<>>) = <<>>
  BY <1>1, <1>2, EmptySeq
<1> QED BY <1>1, <1>3, LinesOfCells

\* A longer cut begins with a shorter one.
LEMMA CutGrows ==
  ASSUME NEW S, NEW cells \in Seq(S), NEW n \in 0..Len(cells), NEW m \in n..Len(cells)
  PROVE  IsPrefix(SubSeq(cells, 1, n), SubSeq(cells, 1, m))
<1>1. /\ SubSeq(cells, 1, n) = [k \in 1..n |-> cells[k]]
      /\ SubSeq(cells, 1, m) = [k \in 1..m |-> cells[k]]
  OBVIOUS
<1>2. /\ Len(SubSeq(cells, 1, n)) = n /\ Len(SubSeq(cells, 1, m)) = m
  OBVIOUS
<1> DEFINE short == SubSeq(cells, 1, n)
           long == SubSeq(cells, 1, m)
<1>3. /\ short \in Seq(S) /\ long \in Seq(S)
      /\ \A k \in 1..n : short[k] = cells[k] /\ long[k] = cells[k]
  BY SubSeqProperties
<1> HIDE DEF short, long
<1>4. SubSeq(short, 1, n) = SubSeq(long, 1, n)
  <2>1. SubSeq(short, 1, n) = [k \in 1..n |-> short[k]]
    BY <1>2, <1>3 DEF short
  <2>2. SubSeq(long, 1, n) = [k \in 1..n |-> long[k]]
    BY <1>2, <1>3 DEF long
  <2> QED BY <1>3, <2>1, <2>2
<1> QED BY <1>2, <1>4 DEF IsPrefix, short, long

\* A file begins with what it was before something was appended.
LEMMA ConcatGrows ==
  ASSUME NEW S, NEW old \in Seq(S), NEW more \in Seq(S)
  PROVE  IsPrefix(old, old \o more)
<1> DEFINE all == old \o more
           n == Len(old)
<1>1. /\ all \in Seq(S) /\ Len(all) = n + Len(more) /\ n \in Nat /\ Len(more) \in Nat
      /\ \A k \in 1..n : all[k] = old[k]
  BY ConcatProperties
<1> HIDE DEF all
<1>2. SubSeq(old, 1, n) = [k \in 1..n |-> old[k]]
  OBVIOUS
<1>3. SubSeq(all, 1, n) = [k \in 1..n |-> all[k]]
  BY <1>1
<1> QED BY <1>1, <1>2, <1>3 DEF IsPrefix, all

\* What has been read of a file is the beginning of it when it has grown.
LEMMA PrefixStays ==
  ASSUME NEW S, NEW old \in Seq(S), NEW new \in Seq(S), IsPrefix(old, new),
         NEW part \in Seq(S), Len(part) <= Len(old), part = SubSeq(old, 1, Len(part))
  PROVE  Len(part) <= Len(new) /\ part = SubSeq(new, 1, Len(part))
<1> DEFINE n == Len(part)
           m == Len(old)
<1>1. n \in Nat /\ m \in Nat /\ n <= m /\ m <= Len(new) /\ Len(new) \in Nat
  BY DEF IsPrefix
<1>2. \A k \in 1..m : old[k] = new[k]
  <2>1. SubSeq(old, 1, m) = [k \in 1..m |-> old[k]]
    OBVIOUS
  <2>2. SubSeq(new, 1, m) = [k \in 1..m |-> new[k]]
    BY <1>1
  <2> QED BY <2>1, <2>2 DEF IsPrefix
<1>3. SubSeq(old, 1, n) = [k \in 1..n |-> old[k]] /\ SubSeq(new, 1, n) = [k \in 1..n |-> new[k]]
  BY <1>1
<1> QED BY <1>1, <1>2, <1>3

\* One more audit line leaves the record that the lines yield.
LEMMA YieldsAfterAudit ==
  ASSUME NEW lines \in Seq(Lines), NEW record \in Seq(Lines), Yields(lines, record),
         NEW r \in Readers
  PROVE  Yields(Append(lines, AuditOf(r)), record)
<1> DEFINE more == Append(lines, AuditOf(r))
<1>1. AuditOf(r) \in Lines /\ AuditOf(r).kind = "audit"
  BY DEF Lines, AuditOf
<1>2. /\ more \in Seq(Lines) /\ Len(more) = Len(lines) + 1 /\ Len(lines) \in Nat
      /\ \A k \in 1..Len(lines) : more[k] = lines[k]
      /\ more[Len(lines) + 1] = AuditOf(r)
  BY <1>1, AppendProperties
<1> HIDE DEF more
<1>3. Len(record) \in Nat /\ Len(record) <= Len(lines)
  BY DEF Yields, IsPrefix
<1>4. SubSeq(more, 1, Len(record)) = SubSeq(lines, 1, Len(record))
  <2>1. SubSeq(more, 1, Len(record)) = [k \in 1..Len(record) |-> more[k]]
    BY <1>2, <1>3
  <2>2. SubSeq(lines, 1, Len(record)) = [k \in 1..Len(record) |-> lines[k]]
    BY <1>3
  <2> QED BY <1>2, <1>3, <2>1, <2>2
<1>5. \A n \in Len(record) + 1..Len(more) : more[n].kind = "audit"
  BY <1>1, <1>2, <1>3 DEF Yields
<1> QED BY <1>2, <1>3, <1>4, <1>5 DEF Yields, IsPrefix, more

\* A record yields itself.
LEMMA YieldsItself ==
  ASSUME NEW S, NEW lines \in Seq(S)
  PROVE  Yields(lines, lines) /\ SubSeq(lines, 1, Len(lines)) = lines
<1>1. SubSeq(lines, 1, Len(lines)) = lines
  OBVIOUS
<1>2. Len(lines) \in Nat
  OBVIOUS
<1> QED BY <1>1, <1>2 DEF Yields, IsPrefix

-------------------------------------------------------------------------------
(* The inductive invariant. *)

\* A saver has an ID from Build on, with the slug of its name.
Named ==
  \A s \in Savers :
    /\ id[s] = NoID <=> save[s] = "start"
    /\ id[s] # NoID => id[s][2] = slug(s)

\* What is open, or was, exists.
Openable ==
  /\ \A s \in Savers : save[s] \in {"open", "saved"} => files[id[s]] \in Seq(Cell)
  /\ \A p \in Outside : files[p] \in Seq(Cell)
  /\ \A r \in Readers : path[r] # NoPath => files[path[r]] \in Seq(Cell)
  /\ \A r \in Readers : load[r] \in {"open", "act"} => path[r] # NoPath

\* A reader opens a path once and appends its line last.
InOrder ==
  \A r \in Readers :
    /\ load[r] = "start" => path[r] = NoPath
    /\ audited[r] # "no" => load[r] = "done" /\ path[r] # NoPath

TInv == TypeOK /\ Named /\ Openable /\ InOrder

\* A record in the store is there because its investigation opened it.
Owned ==
  \A p \in Ids : files[p] # NoFile /\ Clear(p) =>
    \E s \in Savers : id[s] = p /\ save[s] # "built"

\* The record of an investigation: not there yet, cut at the offset of its writer, whole
\* and followed by audit lines, or left by a dead writer and then no more than a beginning
\* that loads.
RecordOf(s) ==
  \/ save[s] = "built" /\ files[id[s]] = NoFile /\ offset[s] = 0
  \/ save[s] = "open" /\ files[id[s]] = SubSeq(Cells(Record(s)), 1, offset[s])
  \/ /\ save[s] = "saved"
     /\ Whole(files[id[s]]) /\ Yields(LinesIn(files[id[s]]), Record(s))
  \/ /\ save[s] \in {"failed", "killed"}
     /\ files[id[s]] # NoFile /\ Whole(files[id[s]]) =>
          \E n \in 0..Len(Record(s)) :
            Yields(LinesIn(files[id[s]]), SubSeq(Record(s), 1, n))

Contents ==
  /\ \A s \in Savers : id[s] # NoID /\ Clear(id[s]) => RecordOf(s)
  /\ \A s \in Savers : save[s] = "start" => offset[s] = 0

\* What a reader has read is the beginning of the file as it stands.
ReadSoFar(r) ==
  got[r] = SubSeq(files[path[r]], 1, Len(got[r])) /\ Len(got[r]) <= Len(files[path[r]])

Reading ==
  \A r \in Readers :
    /\ load[r] = "start" => got[r] = <<>> /\ asked[r] = NoSaver
    /\ load[r] = "open" /\ Clear(path[r]) => ReadSoFar(r)
    /\ asked[r] \in Savers => save[asked[r]] = "saved" /\ path[r] = id[asked[r]]

SInv == Owned /\ Contents /\ Reading /\ LoadsWhatWasSaved /\ LoadIsAPrefix

IInv == TInv /\ SInv

-------------------------------------------------------------------------------
(* Types. *)

\* A reader that appends an audit line does so at a path of the model.
LEMMA AuditPathType ==
  ASSUME NEW p \in Paths
  PROVE  auditPath(p) \in Paths
<1>1. CASE p \in Outside
  BY <1>1 DEF Paths
<1>2. CASE p \notin Outside
  BY <1>2 DEF auditPath
<1> QED BY <1>1, <1>2

LEMMA InitTypes == Init => TInv
<1> SUFFICES ASSUME Init PROVE TInv
  OBVIOUS
<1>1. Cells(OutsideLines) \in Seq(Cell)
  BY StoreAssumption, CellsType
<1>2. \A s \in Savers : Len(Cells(Record(s))) \in Nat
  <2>1. ASSUME NEW s \in Savers PROVE Len(Cells(Record(s))) \in Nat
    <3>1. Cells(Record(s)) \in Seq(Cell)
      BY RecordType, CellsType
    <3> QED BY <3>1
  <2> QED BY <2>1
<1>3. TypeOK
  BY <1>1, <1>2, ActorAssumption DEF Init, TypeOK
<1>4. Named
  BY DEF Init, Named
<1>5. Openable /\ InOrder
  BY <1>1 DEF Init, Openable, InOrder, Paths
<1> QED BY <1>3, <1>4, <1>5 DEF TInv

\* What Save does keeps the types, and no file goes away.
LEMMA SaverTypes ==
  ASSUME TInv, NEW s \in Savers, Saver(s)
  PROVE  TInv' /\ \A p \in Paths : files[p] \in Seq(Cell) => files'[p] \in Seq(Cell)
<1> USE DEF TInv
<1>1. UNCHANGED <<now, readers>>
  BY DEF Saver, Build, OpenToSave, OpenFails, Write, WriteFails, SaveReturns, Killed
<1>2. /\ files' \in [Paths -> Seq(Cell) \cup {NoFile}]
      /\ \A p \in Paths : files[p] \in Seq(Cell) => files'[p] \in Seq(Cell)
  <2>1. CASE OpenToSave(s)
    <3>1. files' = [files EXCEPT ![id[s]] = <<>>] /\ <<>> \in Seq(Cell)
      BY <2>1, EmptySeq DEF OpenToSave
    <3>2. files \in [Paths -> Seq(Cell) \cup {NoFile}]
      BY DEF TypeOK
    <3> QED BY <3>1, <3>2, Zenon
  <2>2. CASE Write(s)
    <3>1. files \in [Paths -> Seq(Cell) \cup {NoFile}] /\ files[id[s]] \in Seq(Cell)
      BY <2>2 DEF TypeOK, Openable, Write
    <3>2. /\ Cells(Record(s)) \in Seq(Cell) /\ offset[s] \in Nat
      BY RecordType, CellsType DEF TypeOK
    <3>3. PICK upTo \in offset[s] + 1..Len(Cells(Record(s))) :
            files' = [files EXCEPT ![id[s]] =
                        Written(@, offset[s], SubSeq(Cells(Record(s)), offset[s] + 1, upTo))]
      BY <2>2 DEF Write
    <3>4. SubSeq(Cells(Record(s)), offset[s] + 1, upTo) \in Seq(Cell)
      BY <3>2, SubSeqProperties
    <3>5. PICK new \in Seq(Cell) : files' = [files EXCEPT ![id[s]] = new]
      BY <3>1, <3>2, <3>3, <3>4, WrittenType
    <3> QED BY <3>1, <3>5, Zenon
  <2>3. CASE UNCHANGED files
    BY <2>3 DEF TypeOK
  <2> QED BY <2>1, <2>2, <2>3
        DEF Saver, Build, OpenFails, WriteFails, SaveReturns, Killed
<1>3. /\ save' \in [Savers -> {"start", "built", "open", "saved", "failed", "killed"}]
      /\ \A t \in Savers : save'[t] \in {"open", "saved"} =>
            save[t] \in {"open", "saved"} \/ (t = s /\ OpenToSave(s))
  BY DEF TypeOK, Saver, Build, OpenToSave, OpenFails, Write, WriteFails, SaveReturns, Killed
<1>4. /\ id' \in [Savers -> Ids \cup {NoID}]
      /\ \A t \in Savers : id'[t] = NoID <=> save'[t] = "start"
      /\ \A t \in Savers : id'[t] # NoID => id'[t][2] = slug(t)
      /\ \A t \in Savers : save[t] # "start" => id'[t] = id[t]
  <2>1. CASE Build(s)
    <3>1. <<now, slug(s)>> \in Ids /\ <<now, slug(s)>> # NoID
      BY StoreAssumption DEF TypeOK, Ids, Paths
    <3> QED BY <2>1, <3>1 DEF Build, TypeOK, Named
  <2>2. CASE ~Build(s)
    BY <2>2 DEF TypeOK, Named, Saver, OpenToSave, OpenFails, Write, WriteFails, SaveReturns, Killed
  <2> QED BY <2>1, <2>2
<1>5. offset' \in [Savers -> Nat] /\ \A t \in Savers : offset'[t] <= Len(Cells(Record(t)))
  <2>1. CASE Write(s)
    <3>1. PICK upTo \in offset[s] + 1..Len(Cells(Record(s))) :
            offset' = [offset EXCEPT ![s] = upTo]
      BY <2>1 DEF Write
    <3>2. offset[s] \in Nat /\ upTo \in Nat /\ upTo <= Len(Cells(Record(s)))
      BY <3>1, RecordType, CellsType DEF TypeOK
    <3> QED BY <3>1, <3>2 DEF TypeOK
  <2>2. CASE UNCHANGED offset
    BY <2>2 DEF TypeOK
  <2> QED BY <2>1, <2>2
        DEF Saver, Build, OpenToSave, OpenFails, WriteFails, SaveReturns, Killed
<1>6. TypeOK'
  BY <1>1, <1>2, <1>3, <1>4, <1>5 DEF TypeOK, readers
<1>7. Openable'
  <2>1. ASSUME NEW t \in Savers, save'[t] \in {"open", "saved"}
        PROVE  files'[id'[t]] \in Seq(Cell)
    <3>1. CASE save[t] \in {"open", "saved"}
      <4>1. id'[t] = id[t] /\ id[t] \in Paths /\ files[id[t]] \in Seq(Cell)
        BY <1>4, <3>1 DEF TypeOK, Named, Openable, Paths
      <4> QED BY <1>2, <4>1
    <3>2. CASE t = s /\ OpenToSave(s)
      <4>1. id'[s] = id[s] /\ id[s] \in Paths /\ files'[id[s]] = <<>>
        BY <3>2 DEF OpenToSave, TypeOK, Named, Paths
      <4> QED BY <3>2, <4>1, EmptySeq
    <3> QED BY <1>3, <2>1, <3>1, <3>2
  <2>2. \A p \in Outside : files'[p] \in Seq(Cell)
    BY <1>2 DEF Openable, Paths
  <2>3. \A r \in Readers : path[r] # NoPath => files'[path[r]] \in Seq(Cell)
    BY <1>2 DEF Openable, TypeOK
  <2> QED BY <1>1, <2>1, <2>2, <2>3 DEF Openable, readers
<1>8. InOrder'
  BY <1>1 DEF InOrder, readers
<1> QED BY <1>2, <1>4, <1>6, <1>7, <1>8 DEF Named

\* What Load and AppendAudit do keeps the types, and no file goes away.
LEMMA ReaderTypes ==
  ASSUME TInv, NEW r \in Readers, Reader(r)
  PROVE  TInv' /\ \A p \in Paths : files[p] \in Seq(Cell) => files'[p] \in Seq(Cell)
<1> USE DEF TInv
<1>1. UNCHANGED <<now, savers>>
  BY DEF Reader, RefusePath, OpenPrinted, OpenListed, Read, LoadReturns, AppendAudit, NoAudit
<1>2. /\ files' \in [Paths -> Seq(Cell) \cup {NoFile}]
      /\ \A p \in Paths : files[p] \in Seq(Cell) => files'[p] \in Seq(Cell)
  <2>1. CASE AppendAudit(r)
    <3>1. path[r] \in Paths
      BY <2>1 DEF AppendAudit, TypeOK, Openable
    <3>2. PICK p \in Paths :
            files' = [files EXCEPT ![p] =
                        (IF @ = NoFile THEN <<>> ELSE @) \o Cells(<<AuditOf(r)>>)]
      BY <2>1, <3>1, AuditPathType DEF AppendAudit
    <3>3. Cells(<<AuditOf(r)>>) \in Seq(Cell)
      <4>1. <<AuditOf(r)>> \in Seq(Lines)
        BY DEF Lines
      <4> QED BY <4>1, CellsType
    <3>4. (IF files[p] = NoFile THEN <<>> ELSE files[p]) \in Seq(Cell)
      BY EmptySeq DEF TypeOK
    <3>5. PICK new \in Seq(Cell) : files' = [files EXCEPT ![p] = new]
      BY <3>2, <3>3, <3>4, ConcatProperties DEF TypeOK
    <3> QED BY <3>5, Zenon DEF TypeOK
  <2>2. CASE UNCHANGED files
    BY <2>2 DEF TypeOK
  <2> QED BY <2>1, <2>2 DEF Reader, RefusePath, OpenPrinted, OpenListed, Read, LoadReturns, NoAudit
<1>3. /\ path' \in [Readers -> Paths \cup {NoPath}]
      /\ \A q \in Readers : path'[q] # NoPath =>
            path'[q] \in Paths /\ files[path'[q]] \in Seq(Cell)
      /\ \A q \in Readers : path[q] # NoPath => path'[q] # NoPath
  <2>1. CASE OpenPrinted(r)
    <3>1. PICK s \in Savers : save[s] = "saved" /\ path' = [path EXCEPT ![r] = id[s]]
      BY <2>1 DEF OpenPrinted
    <3>2. id[s] \in Ids /\ files[id[s]] \in Seq(Cell)
      BY <3>1 DEF TypeOK, Named, Openable
    <3>3. id[s] \in Paths /\ id[s] # NoPath
      BY <3>2, StoreAssumption DEF Paths
    <3> QED BY <3>1, <3>2, <3>3 DEF TypeOK, Openable
  <2>2. CASE OpenListed(r)
    <3>1. PICK p \in List \cup Outside : path' = [path EXCEPT ![r] = p]
      BY <2>2 DEF OpenListed
    <3>2. p \in Paths /\ files[p] \in Seq(Cell)
      BY <3>1 DEF List, Paths, TypeOK, Openable
    <3>3. p # NoPath
      BY <3>2, StoreAssumption
    <3> QED BY <3>1, <3>2, <3>3 DEF TypeOK, Openable
  <2>3. CASE UNCHANGED path
    BY <2>3 DEF TypeOK, Openable
  <2> QED BY <2>1, <2>2, <2>3 DEF Reader, RefusePath, Read, LoadReturns, AppendAudit, NoAudit
<1>4. load' \in [Readers -> {"start", "open", "act", "done"}]
  BY DEF TypeOK, Reader, RefusePath, OpenPrinted, OpenListed, Read, LoadReturns, AppendAudit, NoAudit
<1>5. asked' \in [Readers -> Savers \cup {NoSaver}]
  BY DEF TypeOK, Reader, RefusePath, OpenPrinted, OpenListed, Read, LoadReturns, AppendAudit, NoAudit
<1>6. got' \in [Readers -> Seq(Cell)]
  <2>1. CASE Read(r)
    <3>1. PICK upTo \in Len(got[r]) + 1..Len(files[path[r]]) :
            got' = [got EXCEPT ![r] = @ \o SubSeq(files[path[r]], Len(@) + 1, upTo)]
      BY <2>1 DEF Read
    <3>2. got[r] \in Seq(Cell) /\ files[path[r]] \in Seq(Cell)
      BY <2>1 DEF Read, TypeOK, Openable
    <3>3. SubSeq(files[path[r]], Len(got[r]) + 1, upTo) \in Seq(Cell)
      BY <3>1, <3>2, SubSeqProperties
    <3>4. PICK new \in Seq(Cell) : got' = [got EXCEPT ![r] = new]
      BY <3>1, <3>2, <3>3, ConcatProperties DEF TypeOK
    <3> QED BY <3>4, Zenon DEF TypeOK
  <2>2. CASE UNCHANGED got
    BY <2>2 DEF TypeOK
  <2> QED BY <2>1, <2>2
        DEF Reader, RefusePath, OpenPrinted, OpenListed, LoadReturns, AppendAudit, NoAudit
<1>7. /\ answer' \in [Readers -> Seq(Lines) \cup {NoAnswer, Failed}]
      /\ \A q \in Readers : load'[q] \in {"act", "done"} <=> answer'[q] # NoAnswer
  <2>1. CASE LoadReturns(r)
    <3>1. PICK got1 \in Seq(Lines) \cup {Failed} :
            /\ answer' = [answer EXCEPT ![r] = got1]
            /\ \E place \in {"act", "done"} : load' = [load EXCEPT ![r] = place]
      <4>1. LinesIn(got[r]) \in Seq(Lines)
        BY LinesInType DEF TypeOK
      <4> QED BY <2>1, <4>1 DEF LoadReturns
    <3>2. got1 # NoAnswer
      BY StoreAssumption
    <3> QED BY <3>1, <3>2, Zenon DEF TypeOK
  <2>2. CASE RefusePath(r)
    <3>1. Failed # NoAnswer
      BY StoreAssumption
    <3> QED BY <2>2, <3>1, Zenon DEF RefusePath, TypeOK
  <2>3. CASE ~LoadReturns(r) /\ ~RefusePath(r)
    BY <2>3 DEF TypeOK, Reader, OpenPrinted, OpenListed, Read, AppendAudit, NoAudit
  <2> QED BY <2>1, <2>2, <2>3
<1>10. audited' \in [Readers -> {"no", "early", "late"}]
  BY DEF TypeOK, Reader, RefusePath, OpenPrinted, OpenListed, Read, LoadReturns, AppendAudit,
     Audits, NoAudit
<1>8. TypeOK'
  BY <1>1, <1>2, <1>3, <1>4, <1>5, <1>6, <1>7, <1>10 DEF TypeOK, savers
<1>9. Openable'
  <2>1. \A s \in Savers : save[s] \in {"open", "saved"} => files'[id[s]] \in Seq(Cell)
    BY <1>2 DEF Openable, TypeOK, Named, Paths
  <2>2. \A p \in Outside : files'[p] \in Seq(Cell)
    BY <1>2 DEF Openable, Paths
  <2>3. \A q \in Readers : path'[q] # NoPath => files'[path'[q]] \in Seq(Cell)
    BY <1>2, <1>3
  <2>4. \A q \in Readers : load'[q] \in {"open", "act"} => path'[q] # NoPath
    <3>1. CASE OpenPrinted(r) \/ OpenListed(r)
      <4>1. PICK p \in Paths : path' = [path EXCEPT ![r] = p]
        BY <3>1 DEF OpenPrinted, OpenListed, List, Paths, TypeOK, Named
      <4>2. p # NoPath
        BY StoreAssumption
      <4> QED BY <3>1, <4>1, <4>2 DEF OpenPrinted, OpenListed, TypeOK, Openable
    <3>2. CASE ~(OpenPrinted(r) \/ OpenListed(r))
      <4>1. \A q \in Readers : load'[q] \in {"open", "act"} => load[q] \in {"open", "act"}
        BY <3>2 DEF TypeOK, Reader, RefusePath, Read, LoadReturns, AppendAudit, NoAudit
      <4> QED BY <1>3, <4>1 DEF Openable
    <3> QED BY <3>1, <3>2
  <2> QED BY <1>1, <2>1, <2>2, <2>3, <2>4 DEF Openable, savers
<1>11. InOrder'
  <2>1. \A q \in Readers \ {r} : load'[q] = load[q] /\ path'[q] = path[q] /\ audited'[q] = audited[q]
    BY DEF TypeOK, Reader, RefusePath, OpenPrinted, OpenListed, Read, LoadReturns, AppendAudit,
       Audits, NoAudit
  <2>2. load'[r] # "start" /\ (audited'[r] # "no" => load'[r] = "done" /\ path[r] # NoPath)
    <3>1. CASE AppendAudit(r)
      BY <3>1 DEF AppendAudit, TypeOK, Openable
    <3>2. CASE ~AppendAudit(r)
      BY <3>2 DEF TypeOK, InOrder, Reader, RefusePath, OpenPrinted, OpenListed, Read,
         LoadReturns, NoAudit
    <3> QED BY <3>1, <3>2
  <2> QED BY <1>3, <2>1, <2>2 DEF InOrder
<1> QED BY <1>1, <1>2, <1>8, <1>9, <1>11 DEF Named, savers

\* Every step keeps the types, and no file goes away.
LEMMA NextTypes ==
  ASSUME TInv, [Next]_vars
  PROVE  TInv' /\ \A p \in Paths : files[p] \in Seq(Cell) => files'[p] \in Seq(Cell)
<1>1. CASE Tick
  <2>1. now' \in 0..MaxClock
    BY <1>1, ActorAssumption DEF Tick, TInv, TypeOK
  <2> QED BY <1>1, <2>1 DEF Tick, TInv, TypeOK, Named, Openable, InOrder, savers, readers
<1>2. CASE UNCHANGED vars
  BY <1>2 DEF vars, TInv, TypeOK, Named, Openable, InOrder
<1>3. CASE \E s \in Savers : Saver(s)
  BY <1>3, SaverTypes
<1>4. CASE \E r \in Readers : Reader(r)
  BY <1>4, ReaderTypes
<1> QED BY <1>1, <1>2, <1>3, <1>4 DEF Next

-------------------------------------------------------------------------------
(* Safety. *)

\* A file that is there only grows at its end.
FilesGrow ==
  \A p \in Paths : files[p] \in Seq(Cell) /\ Clear(p)' =>
    files'[p] \in Seq(Cell) /\ IsPrefix(files[p], files'[p])

LEMMA UnchangedGrows ==
  ASSUME NEW old \in Seq(Cell)
  PROVE  IsPrefix(old, old)
BY DEF IsPrefix

\* Of a path that nothing disturbed, one saver at most writes the record.
LEMMA OneWriter ==
  ASSUME TInv, NEW s \in Savers, NEW t \in Savers, id[s] # NoID, id[t] = id[s], Clear(id[s])
  PROVE  s = t
<1>1. id[s] \in Ids /\ id[s][2] = slug(s) /\ id[t][2] = slug(t)
  BY DEF TInv, TypeOK, Named
<1> QED BY <1>1 DEF Clear, Disturbed, Clash

\* An ID is given once.
LEMMA IdsStay ==
  ASSUME TInv, [Next]_vars
  PROVE  \A s \in Savers : id[s] # NoID => id'[s] = id[s]
<1>1. CASE \E t \in Savers : Saver(t)
  <2>1. PICK t \in Savers : Saver(t)
    BY <1>1
  <2>2. CASE Build(t)
    BY <2>2 DEF Build, TInv, TypeOK, Named
  <2>3. CASE ~Build(t)
    BY <2>1, <2>3 DEF Saver, OpenToSave, OpenFails, Write, WriteFails, SaveReturns, Killed
  <2> QED BY <2>2, <2>3
<1>2. CASE \E r \in Readers : Reader(r)
  BY <1>2 DEF Reader, RefusePath, OpenPrinted, OpenListed, Read, LoadReturns, AppendAudit,
              NoAudit, savers
<1>3. CASE Tick \/ UNCHANGED vars
  BY <1>3 DEF Tick, vars, savers
<1> QED BY <1>1, <1>2, <1>3 DEF Next

\* An audit line that came early is not forgotten.
LEMMA AuditsStay ==
  ASSUME TInv, [Next]_vars, NEW r \in Readers, audited[r] # "no"
  PROVE  audited'[r] = audited[r] /\ path'[r] = path[r]
<1>1. load[r] = "done"
  BY DEF TInv, InOrder
<1>2. CASE \E q \in Readers : Reader(q)
  <2>1. PICK q \in Readers : Reader(q)
    BY <1>2
  <2>2. q # r
    BY <1>1, <2>1 DEF Reader, RefusePath, OpenPrinted, OpenListed, Read, LoadReturns, AppendAudit,
       NoAudit
  <2> QED BY <2>1, <2>2 DEF TInv, TypeOK, Reader, RefusePath, OpenPrinted, OpenListed, Read,
          LoadReturns, AppendAudit, Audits, NoAudit
<1>3. CASE (\E s \in Savers : Saver(s)) \/ Tick \/ UNCHANGED vars
  BY <1>3 DEF Saver, Build, OpenToSave, OpenFails, Write, WriteFails, SaveReturns, Killed, Tick,
     vars, readers
<1> QED BY <1>2, <1>3 DEF Next

\* What is disturbed stays disturbed.
LEMMA StaysDisturbed ==
  ASSUME TInv, [Next]_vars, NEW p \in Paths, Disturbed(p)
  PROVE  Disturbed(p)'
<1>1. CASE Clash(p)
  <2>1. p # NoID
    BY StoreAssumption
  <2> QED BY <1>1, <2>1, IdsStay DEF Clash, Disturbed
<1>2. CASE \E r \in Readers : audited[r] = "early" /\ auditPath(path[r]) = p
  BY <1>2, AuditsStay DEF Disturbed
<1> QED BY <1>1, <1>2 DEF Disturbed

LEMMA InitSafe == Init => SInv
<1> SUFFICES ASSUME Init PROVE SInv
  OBVIOUS
<1>1. Owned
  BY StoreAssumption DEF Init, Owned, Paths
<1>2. Contents
  BY DEF Init, Contents
<1>3. Reading
  BY ActorAssumption DEF Init, Reading
<1>4. LoadsWhatWasSaved /\ LoadIsAPrefix
  BY ActorAssumption DEF Init, LoadsWhatWasSaved, LoadIsAPrefix, Loaded
<1> QED BY <1>1, <1>2, <1>3, <1>4 DEF SInv

\* While files grow, what a reader has read of one stays the beginning of it.
LEMMA ReadKeeps ==
  ASSUME TInv, [Next]_vars, SInv, FilesGrow, NEW r \in Readers, load[r] = "open",
         NEW p \in Paths, p = path[r], Clear(p)'
  PROVE  got[r] = SubSeq(files'[p], 1, Len(got[r])) /\ Len(got[r]) <= Len(files'[p])
<1>1. files[p] \in Seq(Cell) /\ got[r] \in Seq(Cell)
  BY StoreAssumption DEF TInv, TypeOK, Openable
<1>2. Clear(p)
  BY StaysDisturbed DEF Clear
<1>3. got[r] = SubSeq(files[p], 1, Len(got[r])) /\ Len(got[r]) <= Len(files[p])
  BY <1>2 DEF SInv, Reading, ReadSoFar
<1>4. files'[p] \in Seq(Cell) /\ IsPrefix(files[p], files'[p])
  BY <1>1 DEF FilesGrow
<1> QED BY <1>1, <1>3, <1>4, PrefixStays

\* While files grow and nobody reads on, what the readers have is as good as before.
LEMMA ReadersKeep ==
  ASSUME TInv, TInv', [Next]_vars, SInv, FilesGrow, UNCHANGED readers,
         \A s \in Savers : save[s] = "saved" => save'[s] = "saved"
  PROVE  Reading' /\ LoadsWhatWasSaved' /\ LoadIsAPrefix'
<1>0. UNCHANGED <<load, asked, path, got, answer, audited>>
  BY DEF readers
<1>1. ASSUME NEW r \in Readers, load[r] = "open", NEW p \in Paths, p = path[r], Clear(p)'
      PROVE  ReadSoFar(r)'
  <2>1. got[r] = SubSeq(files'[p], 1, Len(got[r])) /\ Len(got[r]) <= Len(files'[p])
    BY <1>1, ReadKeeps
  <2> QED BY <1>0, <1>1, <2>1 DEF ReadSoFar
<1>2. \A r \in Readers : asked[r] \in Savers =>
        save'[asked[r]] = "saved" /\ path[r] = id'[asked[r]]
  BY IdsStay DEF SInv, Reading, TInv, Named
<1>3. Reading'
  <2>1. ASSUME NEW r \in Readers, load[r] = "open", Clear(path[r])' PROVE ReadSoFar(r)'
    <3>1. PICK p \in Paths : p = path[r]
      BY <2>1 DEF TInv, TypeOK, Openable
    <3>2. Clear(p)'
      BY <1>0, <2>1, <3>1 DEF Clear, Disturbed, Clash
    <3> QED BY <1>1, <2>1, <3>1, <3>2
  <2> QED BY <1>0, <1>2, <2>1 DEF SInv, Reading
<1>4. ASSUME NEW r \in Readers, path[r] \in Paths, ~Disturbed(path[r])' PROVE ~Disturbed(path[r])
  <2>1. PICK p \in Paths : p = path[r]
    BY <1>4
  <2>2. ~Disturbed(p)'
    BY <1>0, <1>4, <2>1 DEF Disturbed, Clash
  <2> QED BY <2>1, <2>2, StaysDisturbed
<1>5. LoadsWhatWasSaved'
  <2>1. ASSUME NEW r \in Readers, asked[r] \in Savers \ Newer, answer[r] # NoAnswer,
               ~Disturbed(path[r])'
        PROVE  Loaded(r) /\ Yields(answer[r], Record(asked[r]))
    <3>1. path[r] \in Paths
      BY <2>1 DEF SInv, Reading, TInv, TypeOK, Named, Paths
    <3> QED BY <1>4, <2>1, <3>1 DEF SInv, LoadsWhatWasSaved
  <2> QED BY <1>0, <2>1 DEF LoadsWhatWasSaved, Loaded, Disturbed, Clash
<1>6. LoadIsAPrefix'
  <2>1. ASSUME NEW r \in Readers, Loaded(r), path[r] \in Ids, ~Disturbed(path[r])'
        PROVE  \E s \in Savers : \E n \in 0..Len(Record(s)) :
                 id'[s] = path[r] /\ Yields(answer[r], SubSeq(Record(s), 1, n))
    <3>1. path[r] \in Paths /\ path[r] # NoID
      BY <2>1, StoreAssumption DEF Paths
    <3>2. PICK s \in Savers : \E n \in 0..Len(Record(s)) :
            id[s] = path[r] /\ Yields(answer[r], SubSeq(Record(s), 1, n))
      BY <1>4, <2>1, <3>1 DEF SInv, LoadIsAPrefix
    <3> QED BY <3>1, <3>2, IdsStay
  <2> QED BY <1>0, <2>1 DEF LoadIsAPrefix, Loaded, Disturbed, Clash
<1> QED BY <1>3, <1>5, <1>6

LEMMA SaverSafe ==
  ASSUME TInv, TInv', SInv, [Next]_vars, NEW s \in Savers, Saver(s)
  PROVE  SInv' /\ FilesGrow
<1>1. /\ UNCHANGED <<now, readers>>
      /\ \A t \in Savers \ {s} : save'[t] = save[t] /\ id'[t] = id[t] /\ offset'[t] = offset[t]
  BY DEF TInv, TypeOK, Saver, Build, OpenToSave, OpenFails, Write, WriteFails, SaveReturns, Killed
<1>2. files \in [Paths -> Seq(Cell) \cup {NoFile}] /\ files' \in [Paths -> Seq(Cell) \cup {NoFile}]
  BY DEF TInv, TypeOK
<1>3. Cells(Record(s)) \in Seq(Cell) /\ Record(s) \in Seq(Lines) /\ offset[s] \in Nat
      /\ offset[s] <= Len(Cells(Record(s)))
  BY RecordType, CellsType DEF TInv, TypeOK
<1>4. /\ id[s] = NoID <=> save[s] = "start"
      /\ id[s] # NoID => id[s] \in Ids /\ id[s] \in Paths
      /\ id[s] # NoID /\ Clear(id[s]) => RecordOf(s)
  BY DEF TInv, TypeOK, Named, SInv, Contents, Paths
<1>5. \A p \in Paths \ {id[s]} : files'[p] = files[p]
  BY <1>2 DEF Saver, Build, OpenToSave, OpenFails, Write, WriteFails, SaveReturns, Killed
<1>6. \A p \in Paths : Clear(p)' => Clear(p)
  BY StaysDisturbed DEF Clear
<1>7. CASE Build(s)
  <2>1. /\ UNCHANGED files /\ id[s] = NoID /\ save'[s] = "built" /\ offset'[s] = 0
        /\ id'[s] = <<now, slug(s)>> /\ id'[s] \in Ids /\ id'[s] \in Paths
        /\ id'[s][2] = slug(s)
    BY <1>4, <1>7 DEF Build, TInv, TypeOK, SInv, Contents, Ids, Paths
  <2>2. ASSUME Clear(id[s])' PROVE files[id'[s]] = NoFile
    <3>1. SUFFICES ASSUME files[id'[s]] # NoFile PROVE FALSE
      OBVIOUS
    <3>2. PICK p \in Ids : p = id'[s]
      BY <2>1
    <3>3. p \in Paths /\ Clear(p)' /\ Clear(p)
      BY <1>6, <2>1, <2>2, <3>2
    <3>4. PICK t \in Savers : id[t] = p /\ save[t] # "built"
      BY <3>1, <3>2, <3>3 DEF SInv, Owned
    <3>5. id[t] # NoID /\ t # s
      BY <2>1, <3>2, <3>4, StoreAssumption DEF Paths
    <3>6. id'[t] = p /\ slug(t) = slug(s)
      BY <1>1, <2>1, <3>2, <3>4, <3>5 DEF TInv, Named
    <3>7. Clash(p)'
      BY <3>2, <3>5, <3>6 DEF Clash, Ids
    <3> QED BY <3>3, <3>7 DEF Clear, Disturbed
  <2>3. FilesGrow
    BY <1>2, <2>1, UnchangedGrows DEF FilesGrow
  <2>4. Owned'
    <3>1. ASSUME NEW p \in Ids, files[p] # NoFile, Clear(p)'
          PROVE  \E t \in Savers \ {s} : id'[t] = p /\ save'[t] # "built"
      <4>1. p \in Paths /\ p # NoID /\ Clear(p)
        BY <1>6, <3>1, StoreAssumption DEF Paths
      <4>2. PICK t \in Savers : id[t] = p /\ save[t] # "built"
        BY <3>1, <4>1 DEF SInv, Owned
      <4> QED BY <1>1, <2>1, <4>1, <4>2
    <3>2. \A p \in Ids : files[p] # NoFile /\ Clear(p)' =>
            \E t \in Savers : id'[t] = p /\ save'[t] # "built"
      BY <3>1
    <3> QED BY <2>1, <3>2 DEF Owned, Ids, Clear, Disturbed, Clash
  <2>5. Contents'
    <3>1. ASSUME NEW t \in Savers, id'[t] # NoID, Clear(id[t])' PROVE RecordOf(t)'
      <4>1. CASE t = s
        BY <2>1, <2>2, <3>1, <4>1 DEF RecordOf
      <4>2. CASE t # s
        <5>1. id'[t] = id[t] /\ id[t] \in Paths
          BY <1>1, <3>1, <4>2 DEF TInv, TypeOK, Paths
        <5>2. PICK p \in Paths : p = id[t] /\ p = id'[t]
          BY <5>1
        <5>3. Clear(p)' /\ Clear(p)
          BY <1>6, <3>1, <5>2 DEF Clear
        <5>4. RecordOf(t)
          BY <3>1, <5>1, <5>2, <5>3 DEF SInv, Contents
        <5> QED BY <1>1, <2>1, <4>2, <5>1, <5>4 DEF RecordOf
      <4> QED BY <4>1, <4>2
    <3>2. \A t \in Savers : save'[t] = "start" => offset'[t] = 0
      BY <1>1, <2>1 DEF SInv, Contents
    <3> QED BY <3>1, <3>2 DEF Contents
  <2>6. \A t \in Savers : save[t] = "saved" => save'[t] = "saved"
    BY <1>1, <1>7 DEF Build
  <2> QED BY <1>1, <2>3, <2>4, <2>5, <2>6, ReadersKeep DEF SInv
<1>8. CASE ~Build(s)
  <2>1. /\ UNCHANGED id /\ save[s] \in {"built", "open"} /\ id[s] \in Ids /\ id[s] \in Paths
        /\ id[s] # NoID /\ save'[s] \in {"open", "saved", "failed", "killed"}
    BY <1>4, <1>8, StoreAssumption
       DEF Saver, OpenToSave, OpenFails, Write, WriteFails, SaveReturns, Killed, TInv, TypeOK
  <2>2. ASSUME Clear(id[s])
        PROVE  /\ RecordOf(s)'
               /\ files[id[s]] \in Seq(Cell) => IsPrefix(files[id[s]], files'[id[s]])
    <3>0. RecordOf(s)
      BY <1>4, <2>1, <2>2
    <3>1. CASE OpenToSave(s)
      <4>1. /\ files'[id[s]] = <<>> /\ files[id[s]] = NoFile /\ offset'[s] = 0 /\ save'[s] = "open"
        BY <1>2, <2>1, <3>0, <3>1 DEF OpenToSave, RecordOf, TInv, TypeOK
      <4>2. SubSeq(Cells(Record(s)), 1, 0) = <<>>
        BY <1>3, SubSeqEmpty
      <4> QED BY <2>1, <3>1, <4>1, <4>2, StoreAssumption DEF RecordOf
    <3>2. CASE Write(s)
      <4>1. PICK upTo \in offset[s] + 1..Len(Cells(Record(s))) :
              /\ files' = [files EXCEPT ![id[s]] =
                             Written(@, offset[s], SubSeq(Cells(Record(s)), offset[s] + 1, upTo))]
              /\ offset' = [offset EXCEPT ![s] = upTo]
        BY <3>2 DEF Write
      <4>2. files[id[s]] = SubSeq(Cells(Record(s)), 1, offset[s]) /\ save'[s] = "open"
        BY <3>0, <3>2 DEF Write, RecordOf
      <4>3. files'[id[s]] = SubSeq(Cells(Record(s)), 1, upTo) /\ offset'[s] = upTo
        <5>1. offset[s] \in 0..Len(Cells(Record(s)))
          BY <1>3
        <5>2. Written(files[id[s]], offset[s], SubSeq(Cells(Record(s)), offset[s] + 1, upTo))
                = SubSeq(Cells(Record(s)), 1, upTo)
          BY <1>3, <4>2, <5>1, WriteOn
        <5> QED BY <1>2, <2>1, <4>1, <5>2 DEF TInv, TypeOK
      <4>4. IsPrefix(files[id[s]], files'[id[s]])
        <5>1. offset[s] \in 0..Len(Cells(Record(s))) /\ upTo \in offset[s]..Len(Cells(Record(s)))
          BY <1>3
        <5> QED BY <1>3, <4>2, <4>3, <5>1, CutGrows
      <4> QED BY <2>1, <4>2, <4>3, <4>4 DEF RecordOf
    <3>3. CASE SaveReturns(s)
      <4>1. /\ files[id[s]] = SubSeq(Cells(Record(s)), 1, Len(Cells(Record(s))))
            /\ UNCHANGED <<files, offset>> /\ save'[s] = "saved"
        BY <3>0, <3>3 DEF SaveReturns, RecordOf, TInv, TypeOK
      <4>2. files[id[s]] = Cells(Record(s))
        BY <1>3, <4>1, YieldsItself
      <4>3. Whole(files[id[s]]) /\ Yields(LinesIn(files[id[s]]), Record(s))
        BY <1>3, <4>2, LinesOfCells, YieldsItself
      <4> QED BY <2>1, <4>1, <4>3, UnchangedGrows DEF RecordOf
    <3>4. CASE OpenFails(s) \/ WriteFails(s) \/ Killed(s)
      <4>1. UNCHANGED <<files, offset>> /\ save'[s] \in {"failed", "killed"}
        BY <3>4 DEF OpenFails, WriteFails, Killed, TInv, TypeOK
      <4>2. /\ files[id[s]] = NoFile \/ files[id[s]] = SubSeq(Cells(Record(s)), 1, offset[s])
        BY <2>1, <3>0 DEF RecordOf
      <4>3. ASSUME files[id[s]] # NoFile
            PROVE  \E n \in 0..Len(Record(s)) :
                     Yields(LinesIn(files[id[s]]), SubSeq(Record(s), 1, n))
        <5>1. offset[s] \in 0..Len(Cells(Record(s)))
          BY <1>3
        <5>2. /\ offset[s] \div 2 \in 0..Len(Record(s))
              /\ LinesIn(files[id[s]]) = SubSeq(Record(s), 1, offset[s] \div 2)
          BY <1>3, <4>2, <4>3, <5>1, LinesOfCut
        <5>3. SubSeq(Record(s), 1, offset[s] \div 2) \in Seq(Lines)
          BY <1>3, <5>2, SubSeqProperties
        <5> QED BY <5>2, <5>3, YieldsItself
      <4> QED BY <2>1, <4>1, <4>3, UnchangedGrows DEF RecordOf
    <3> QED BY <1>8, <3>1, <3>2, <3>3, <3>4 DEF Saver
  <2>3. FilesGrow
    <3>1. files[id[s]] \in Seq(Cell) => files'[id[s]] \in Seq(Cell)
      BY <2>1, SaverTypes
    <3>2. ASSUME NEW p \in Paths, files[p] \in Seq(Cell), Clear(p)'
          PROVE  files'[p] \in Seq(Cell) /\ IsPrefix(files[p], files'[p])
      <4>1. CASE p = id[s]
        BY <1>6, <2>2, <3>1, <3>2, <4>1
      <4>2. CASE p # id[s]
        BY <1>5, <3>2, <4>2, UnchangedGrows
      <4> QED BY <4>1, <4>2
    <3> QED BY <3>2 DEF FilesGrow
  <2>4. \A p : Clear(p)' <=> Clear(p)
    BY <1>1, <2>1 DEF readers, Clear, Disturbed, Clash
  <2>5. Owned'
    <3>1. ASSUME NEW p \in Ids, files'[p] # NoFile, Clear(p)
          PROVE  \E t \in Savers : id'[t] = p /\ save'[t] # "built"
      <4>1. CASE p = id[s]
        BY <2>1, <4>1
      <4>2. CASE p # id[s]
        <5>1. files[p] # NoFile
          BY <1>5, <3>1, <4>2 DEF Paths
        <5>2. PICK t \in Savers : id[t] = p /\ save[t] # "built"
          BY <3>1, <5>1 DEF SInv, Owned
        <5> QED BY <1>1, <2>1, <4>2, <5>2
      <4> QED BY <4>1, <4>2
    <3> QED BY <2>4, <3>1 DEF Owned, Ids
  <2>6. Contents'
    <3>1. ASSUME NEW t \in Savers, id[t] # NoID, Clear(id[t]) PROVE RecordOf(t)'
      <4>1. CASE t = s
        BY <2>2, <3>1, <4>1
      <4>2. CASE t # s
        <5>1. id[t] # id[s] /\ id[t] \in Paths
          BY <3>1, <4>2, OneWriter DEF TInv, TypeOK, Paths
        <5>2. files'[id[t]] = files[id[t]]
          BY <1>5, <5>1
        <5>3. RecordOf(t)
          BY <3>1 DEF SInv, Contents
        <5> QED BY <1>1, <2>1, <4>2, <5>2, <5>3 DEF RecordOf
      <4> QED BY <4>1, <4>2
    <3>2. ASSUME NEW t \in Savers, id'[t] # NoID, Clear(id[t])' PROVE RecordOf(t)'
      <4>1. id'[t] = id[t] /\ Clear(id[t])
        BY <1>1, <2>1, <3>2 DEF readers, Clear, Disturbed, Clash
      <4> QED BY <3>1, <3>2, <4>1
    <3>3. \A t \in Savers : save'[t] = "start" => offset'[t] = 0
      BY <1>1, <2>1 DEF SInv, Contents
    <3> QED BY <3>2, <3>3 DEF Contents
  <2>7. \A t \in Savers : save[t] = "saved" => save'[t] = "saved"
    BY <1>1, <2>1
  <2> QED BY <1>1, <2>3, <2>5, <2>6, <2>7, ReadersKeep DEF SInv
<1> QED BY <1>7, <1>8

\* AppendAudit adds a line behind what is there, and leaves what a record yields unless
\* it comes while the record is being written.
LEMMA AuditAppends ==
  ASSUME TInv, TInv', SInv, [Next]_vars, NEW r \in Readers, AppendAudit(r)
  PROVE  FilesGrow /\ Contents' /\ Owned'
<1>1. path[r] \in Paths /\ path[r] # NoPath
  BY StoreAssumption DEF AppendAudit, TInv, TypeOK, Openable
<1>2. PICK p \in Paths : p = auditPath(path[r])
  BY <1>1, AuditPathType
<1> DEFINE old == IF files[p] = NoFile THEN <<>> ELSE files[p]
           new == old \o Cells(<<AuditOf(r)>>)
<1>3. UNCHANGED <<savers, path>> /\ audited'[r] = IF Unfinished(p) THEN "early" ELSE "late"
  BY <1>2 DEF AppendAudit, Audits, TInv, TypeOK
<1>4. files' = [files EXCEPT ![p] = new]
  BY <1>2 DEF AppendAudit
<1>5. files'[p] = new /\ \A q \in Paths \ {p} : files'[q] = files[q]
  <2> HIDE DEF new
  <2> QED BY <1>2, <1>4 DEF TInv, TypeOK
<1>6. AuditOf(r) \in Lines /\ <<AuditOf(r)>> \in Seq(Lines)
  BY DEF Lines
<1>7. Cells(<<AuditOf(r)>>) \in Seq(Cell)
  BY <1>6, CellsType
<1>8. old \in Seq(Cell) /\ (files[p] # NoFile => files[p] = old)
  <2> QED BY <1>2, EmptySeq DEF TInv, TypeOK
<1>9. new \in Seq(Cell) /\ IsPrefix(old, new)
  <2> HIDE DEF old
  <2> QED BY <1>7, <1>8, ConcatGrows, ConcatProperties
<1>10. ASSUME Whole(new)
       PROVE  Whole(old) /\ LinesIn(new) = Append(LinesIn(old), AuditOf(r))
  <2> HIDE DEF old
  <2> QED BY <1>6, <1>8, <1>10, TornStaysTorn, AppendLine
<1>11. ASSUME Whole(old)
       PROVE  Whole(new) /\ LinesIn(new) = Append(LinesIn(old), AuditOf(r))
  <2> HIDE DEF old
  <2> QED BY <1>6, <1>8, <1>11, AppendLine
<1>12. \A q \in Paths : Clear(q)' => Clear(q)
  BY StaysDisturbed DEF Clear
<1>13. ASSUME Clear(p)', p \in Ids
       PROVE  \E t \in Savers : id[t] = p /\ save[t] \in {"saved", "failed", "killed"}
  <2>1. audited'[r] # "early"
    BY <1>2, <1>3, <1>13 DEF Clear, Disturbed
  <2>2. ~Unfinished(p)
    BY <1>3, <2>1
  <2>3. PICK t \in Savers : id[t] = p /\ save[t] \notin {"built", "open"}
    BY <1>13, <2>2 DEF Unfinished
  <2>4. p # NoID
    BY <1>2, StoreAssumption
  <2> QED BY <2>3, <2>4 DEF TInv, TypeOK, Named
<1> HIDE DEF old, new
<1>14. FilesGrow
  <2>1. ASSUME NEW q \in Paths, files[q] \in Seq(Cell)
        PROVE  files'[q] \in Seq(Cell) /\ IsPrefix(files[q], files'[q])
    <3>1. CASE q = p
      BY <1>5, <1>8, <1>9, <2>1, <3>1, StoreAssumption
    <3>2. CASE q # p
      BY <1>5, <2>1, <3>2, UnchangedGrows
    <3> QED BY <3>1, <3>2
  <2> QED BY <2>1 DEF FilesGrow
<1>15. Owned'
  <2>1. ASSUME NEW q \in Ids, files'[q] # NoFile, Clear(q)'
        PROVE  \E s \in Savers : id[s] = q /\ save[s] # "built"
    <3>1. CASE q = p
      BY <1>13, <2>1, <3>1
    <3>2. CASE q # p
      BY <1>5, <1>12, <2>1, <3>2 DEF SInv, Owned, Paths
    <3> QED BY <3>1, <3>2
  <2> QED BY <1>3, <2>1 DEF Owned, Ids, savers
<1>16. Contents'
  <2>1. ASSUME NEW s \in Savers, id[s] = p, p \in Ids, Clear(p)' PROVE RecordOf(s)'
    <3>1. save[s] \in {"saved", "failed", "killed"} /\ Clear(p)
      <4>1. PICK t \in Savers : id[t] = p /\ save[t] \in {"saved", "failed", "killed"}
        BY <1>13, <2>1
      <4>2. Clear(p) /\ p # NoID
        BY <1>2, <1>12, <2>1, StoreAssumption
      <4>3. s = t
        BY <2>1, <4>1, <4>2, OneWriter
      <4> QED BY <4>1, <4>2, <4>3
    <3>2. RecordOf(s) /\ Record(s) \in Seq(Lines)
      BY <1>2, <2>1, <3>1, StoreAssumption, RecordType DEF SInv, Contents
    <3>3. CASE save[s] = "saved"
      <4>1. Whole(files[p]) /\ Yields(LinesIn(files[p]), Record(s)) /\ files[p] \in Seq(Cell)
        BY <2>1, <3>2, <3>3 DEF RecordOf, TInv, Openable
      <4>2. files[p] = old /\ LinesIn(old) \in Seq(Lines)
        BY <1>8, <4>1, StoreAssumption, LinesInType
      <4>3. Whole(new) /\ Yields(LinesIn(new), Record(s))
        BY <1>11, <3>2, <4>1, <4>2, YieldsAfterAudit
      <4> QED BY <1>3, <1>5, <2>1, <3>3, <4>3 DEF RecordOf, savers
    <3>4. CASE save[s] \in {"failed", "killed"}
      <4>1. ASSUME Whole(new)
            PROVE  \E n \in 0..Len(Record(s)) : Yields(LinesIn(new), SubSeq(Record(s), 1, n))
        <5>1. Whole(old) /\ LinesIn(old) \in Seq(Lines)
          BY <1>8, <1>10, <4>1, LinesInType
        <5>2. PICK n \in 0..Len(Record(s)) : Yields(LinesIn(old), SubSeq(Record(s), 1, n))
          <6>1. CASE files[p] = NoFile
            <7>1. LinesIn(old) = <<>>
              BY <6>1, NoCells DEF old
            <7>2. SubSeq(Record(s), 1, 0) = <<>> /\ 0 \in 0..Len(Record(s))
              BY <3>2, SubSeqEmpty
            <7>3. Yields(<<>>, <<>>)
              <8>1. <<>> \in Seq(Lines)
                BY EmptySeq
              <8> QED BY <8>1, YieldsItself
            <7> QED BY <7>1, <7>2, <7>3
          <6>2. CASE files[p] # NoFile
            BY <1>8, <2>1, <3>2, <3>4, <5>1, <6>2 DEF RecordOf
          <6> QED BY <6>1, <6>2
        <5>3. SubSeq(Record(s), 1, n) \in Seq(Lines)
          BY <3>2, SubSeqProperties
        <5> QED BY <1>10, <4>1, <5>1, <5>2, <5>3, YieldsAfterAudit
      <4> QED BY <1>3, <1>5, <2>1, <3>4, <4>1 DEF RecordOf, savers
    <3> QED BY <3>1, <3>3, <3>4
  <2>2. ASSUME NEW s \in Savers, id[s] # NoID, id[s] # p, Clear(id[s]) PROVE RecordOf(s)'
    <3>1. files'[id[s]] = files[id[s]]
      BY <1>5, <2>2 DEF TInv, TypeOK, Paths
    <3> QED BY <1>3, <2>2, <3>1 DEF SInv, Contents, RecordOf, savers
  <2>3. ASSUME NEW s \in Savers, id'[s] # NoID, Clear(id[s])' PROVE RecordOf(s)'
    <3>1. PICK q \in Ids : q = id[s]
      BY <1>3, <2>3 DEF TInv, TypeOK, savers
    <3>2. q = id'[s] /\ Clear(q)'
      BY <1>3, <2>3, <3>1 DEF savers, Clear
    <3>3. Clear(q)
      BY <1>12, <3>1, <3>2 DEF Paths
    <3> QED BY <1>3, <2>1, <2>2, <2>3, <3>1, <3>2, <3>3 DEF savers
  <2>4. \A s \in Savers : save'[s] = "start" => offset'[s] = 0
    BY <1>3 DEF SInv, Contents, savers
  <2> QED BY <2>3, <2>4 DEF Contents
<1> QED BY <1>14, <1>15, <1>16

\* A reader that is through has read the file as it stands.
LEMMA ReadAll ==
  ASSUME TInv, SInv, NEW r \in Readers, load[r] = "open", Len(got[r]) >= Len(files[path[r]]),
         Clear(path[r])
  PROVE  got[r] = files[path[r]] /\ files[path[r]] \in Seq(Cell) /\ files[path[r]] # NoFile
<1>1. files[path[r]] \in Seq(Cell) /\ got[r] \in Seq(Cell)
  BY DEF TInv, TypeOK, Openable
<1>2. got[r] = SubSeq(files[path[r]], 1, Len(got[r])) /\ Len(got[r]) <= Len(files[path[r]])
  BY DEF SInv, Reading, ReadSoFar
<1>3. Len(got[r]) = Len(files[path[r]])
  BY <1>1, <1>2
<1>4. SubSeq(files[path[r]], 1, Len(files[path[r]])) = files[path[r]]
  BY <1>1, YieldsItself
<1> QED BY <1>1, <1>2, <1>3, <1>4, StoreAssumption

\* What a Load of a saved record gives back.
LEMMA SavedLoads ==
  ASSUME TInv, SInv, NEW r \in Readers, LoadReturns(r), asked[r] \in Savers \ Newer,
         Clear(path[r])
  PROVE  /\ answer'[r] = LinesIn(files[path[r]])
         /\ Yields(answer'[r], Record(asked[r]))
<1> DEFINE s == asked[r]
           lines == LinesIn(files[path[r]])
<1>1. got[r] = files[path[r]] /\ files[path[r]] \in Seq(Cell)
  BY ReadAll DEF LoadReturns
<1>2. save[s] = "saved" /\ path[r] = id[s] /\ id[s] # NoID
  BY DEF SInv, Reading, TInv, Named
<1>3. Whole(files[path[r]]) /\ Yields(lines, Record(s))
  BY <1>2 DEF SInv, Contents, RecordOf
<1>4. ~Unsupported(lines)
  <2>1. SUFFICES ASSUME NEW n \in DOMAIN lines, NEW t \in Newer, lines[n] = Meta(t) PROVE FALSE
    BY DEF Unsupported
  <2>2. lines[n].kind = "meta"
    BY <2>1 DEF Meta
  <2>3. lines \in Seq(Lines) /\ Record(s) \in Seq(Lines)
    BY <1>1, LinesInType, RecordType
  <2> HIDE DEF lines
  <2>4. n \in 1..Len(Record(s)) /\ lines[n] = Record(s)[n]
    <3>1. n \in 1..Len(lines) /\ Len(Record(s)) \in Nat /\ Len(Record(s)) <= Len(lines)
      BY <1>3, <2>3 DEF Yields, IsPrefix
    <3>2. n \notin Len(Record(s)) + 1..Len(lines)
      BY <1>3, <2>2 DEF Yields
    <3>3. SubSeq(Record(s), 1, Len(Record(s))) = [k \in 1..Len(Record(s)) |-> Record(s)[k]]
      BY <2>3
    <3>4. SubSeq(lines, 1, Len(Record(s))) = [k \in 1..Len(Record(s)) |-> lines[k]]
      BY <2>3, <3>1
    <3> QED BY <1>3, <3>1, <3>2, <3>3, <3>4 DEF Yields, IsPrefix
  <2>5. lines[n] = Meta(s)
    BY <2>2, <2>4, RecordType
  <2>6. s = t
    BY <2>1, <2>5 DEF Meta
  <2> QED BY <2>6
<1>5. answer'[r] = lines
  BY <1>1, <1>3, <1>4 DEF LoadReturns, TInv, TypeOK
<1> QED BY <1>3, <1>5

\* What a Load of any record in the store gives back, if it is not an error.
LEMMA PrefixLoads ==
  ASSUME TInv, SInv, NEW r \in Readers, LoadReturns(r), path[r] \in Ids, answer'[r] # Failed,
         Clear(path[r])
  PROVE  \E s \in Savers : \E n \in 0..Len(Record(s)) :
           id[s] = path[r] /\ Yields(answer'[r], SubSeq(Record(s), 1, n))
<1>1. got[r] = files[path[r]] /\ files[path[r]] \in Seq(Cell) /\ files[path[r]] # NoFile
  BY ReadAll DEF LoadReturns
<1>2. Whole(files[path[r]]) /\ answer'[r] = LinesIn(files[path[r]])
  BY <1>1 DEF LoadReturns, TInv, TypeOK
<1>3. PICK s \in Savers : id[s] = path[r]
  BY <1>1 DEF SInv, Owned
<1>4. RecordOf(s)
  BY <1>3, StoreAssumption DEF SInv, Contents, Paths
<1>5. Record(s) \in Seq(Lines) /\ Len(Record(s)) \in Nat
  BY RecordType
<1>6. CASE files[id[s]] = SubSeq(Cells(Record(s)), 1, offset[s])
  <2>1. offset[s] \in 0..Len(Cells(Record(s)))
    <3>1. Cells(Record(s)) \in Seq(Cell)
      BY <1>5, CellsType
    <3> QED BY <3>1 DEF TInv, TypeOK
  <2>2. /\ offset[s] \div 2 \in 0..Len(Record(s))
        /\ answer'[r] = SubSeq(Record(s), 1, offset[s] \div 2)
    BY <1>2, <1>3, <1>5, <1>6, <2>1, LinesOfCut
  <2>3. SubSeq(Record(s), 1, offset[s] \div 2) \in Seq(Lines)
    BY <1>5, <2>2, SubSeqProperties
  <2>4. Yields(answer'[r], SubSeq(Record(s), 1, offset[s] \div 2))
    BY <2>2, <2>3, YieldsItself
  <2> QED BY <1>3, <2>2, <2>4
<1>7. CASE Yields(LinesIn(files[id[s]]), Record(s))
  <2>1. SubSeq(Record(s), 1, Len(Record(s))) = Record(s) /\ Len(Record(s)) \in 0..Len(Record(s))
    BY <1>5, YieldsItself
  <2> QED BY <1>2, <1>3, <1>7, <2>1
<1> QED BY <1>1, <1>2, <1>3, <1>4, <1>6, <1>7 DEF RecordOf

LEMMA ReaderSafe ==
  ASSUME TInv, TInv', SInv, [Next]_vars, NEW r \in Readers, Reader(r)
  PROVE  SInv' /\ FilesGrow
<1>1. /\ UNCHANGED <<now, savers>>
      /\ \A q \in Readers \ {r} :
           load'[q] = load[q] /\ asked'[q] = asked[q] /\ path'[q] = path[q]
           /\ got'[q] = got[q] /\ answer'[q] = answer[q]
  BY DEF TInv, TypeOK, Reader, RefusePath, OpenPrinted, OpenListed, Read, LoadReturns, AppendAudit,
         NoAudit
<1>2. \A q \in Paths : Clear(q)' => Clear(q)
  BY StaysDisturbed DEF Clear
<1>3. FilesGrow /\ Contents' /\ Owned'
  <2>1. CASE AppendAudit(r)
    BY <2>1, AuditAppends
  <2>2. CASE UNCHANGED files
    <3>1. FilesGrow
      BY <2>2, UnchangedGrows DEF FilesGrow
    <3>2. Owned'
      <4>1. ASSUME NEW q \in Ids, files[q] # NoFile, Clear(q)'
            PROVE  \E s \in Savers : id[s] = q /\ save[s] # "built"
        BY <1>2, <4>1 DEF SInv, Owned, Paths
      <4> QED BY <1>1, <2>2, <4>1 DEF Owned, Ids, savers
    <3>3. Contents'
      <4>1. ASSUME NEW s \in Savers, id'[s] # NoID, Clear(id[s])' PROVE RecordOf(s)'
        <5>1. PICK q \in Ids : q = id[s]
          BY <1>1, <4>1 DEF TInv, TypeOK, savers
        <5>2. Clear(q)' /\ q \in Paths
          BY <1>1, <4>1, <5>1 DEF savers, Clear, Paths
        <5>3. RecordOf(s)
          BY <1>1, <1>2, <4>1, <5>1, <5>2 DEF SInv, Contents, savers
        <5> QED BY <1>1, <2>2, <5>3 DEF RecordOf, savers
      <4>2. \A s \in Savers : save'[s] = "start" => offset'[s] = 0
        BY <1>1 DEF SInv, Contents, savers
      <4> QED BY <4>1, <4>2 DEF Contents
    <3> QED BY <3>1, <3>2, <3>3
  <2> QED BY <2>1, <2>2 DEF Reader, RefusePath, OpenPrinted, OpenListed, Read, LoadReturns, NoAudit
<1>4. ASSUME NEW q \in Readers \ {r}, load[q] = "open", Clear(path[q])' PROVE ReadSoFar(q)'
  <2>1. PICK p \in Paths : p = path[q]
    BY <1>4, StoreAssumption DEF TInv, TypeOK, Openable
  <2>2. p = path'[q] /\ Clear(p)'
    BY <1>1, <1>4, <2>1 DEF Clear
  <2>3. got[q] = SubSeq(files'[p], 1, Len(got[q])) /\ Len(got[q]) <= Len(files'[p])
    BY <1>3, <1>4, <2>1, <2>2, ReadKeeps
  <2> QED BY <1>1, <2>1, <2>2, <2>3 DEF ReadSoFar
<1>5. /\ load'[r] # "start"
      /\ load'[r] = "open" /\ Clear(path[r])' => ReadSoFar(r)'
      /\ asked'[r] \in Savers => save'[asked'[r]] = "saved" /\ path'[r] = id'[asked'[r]]
  <2>1. CASE OpenPrinted(r) \/ OpenListed(r)
    <3>1. got'[r] = <<>> /\ load'[r] = "open" /\ load[r] = "start" /\ asked[r] = NoSaver
      BY <2>1 DEF OpenPrinted, OpenListed, TInv, TypeOK, SInv, Reading
    <3>2. files'[path'[r]] \in Seq(Cell)
      BY <3>1 DEF TInv, Openable
    <3>3. <<>> = SubSeq(files'[path'[r]], 1, 0) /\ 0 <= Len(files'[path'[r]]) /\ Len(<<>>) = 0
      BY <3>2, SubSeqEmpty
    <3>4. CASE OpenPrinted(r)
      <4>1. PICK s \in Savers :
              save[s] = "saved" /\ asked' = [asked EXCEPT ![r] = s] /\ path' = [path EXCEPT ![r] = id[s]]
        BY <3>4 DEF OpenPrinted
      <4>2. asked'[r] = s /\ path'[r] = id[s]
        BY <4>1 DEF TInv, TypeOK
      <4> QED BY <1>1, <3>1, <3>3, <4>1, <4>2 DEF savers, ReadSoFar
    <3>5. CASE OpenListed(r)
      <4>1. asked'[r] = NoSaver
        BY <3>1, <3>5 DEF OpenListed
      <4> QED BY <3>1, <3>3, <4>1, ActorAssumption DEF ReadSoFar
    <3> QED BY <2>1, <3>4, <3>5
  <2>2. CASE Read(r)
    <3>1. PICK upTo \in Len(got[r]) + 1..Len(files[path[r]]) :
            got' = [got EXCEPT ![r] = @ \o SubSeq(files[path[r]], Len(@) + 1, upTo)]
      BY <2>2 DEF Read
    <3>2. UNCHANGED <<files, savers, load, asked, path>> /\ load[r] = "open"
      BY <2>2 DEF Read
    <3>3. files[path[r]] \in Seq(Cell) /\ got[r] \in Seq(Cell)
      BY <3>2 DEF TInv, TypeOK, Openable
    <3>4. ASSUME Clear(path[r])' PROVE ReadSoFar(r)'
      <4>1. PICK p \in Paths : p = path[r]
        BY <3>2, StoreAssumption DEF TInv, TypeOK, Openable
      <4>2. Clear(p)
        <5>1. Clear(p)'
          BY <3>2, <3>4, <4>1 DEF Clear
        <5> QED BY <1>2, <5>1
      <4>3. got[r] = SubSeq(files[path[r]], 1, Len(got[r])) /\ Len(got[r]) <= Len(files[path[r]])
        BY <3>2, <4>1, <4>2 DEF SInv, Reading, ReadSoFar
      <4>4. got[r] \o SubSeq(files[path[r]], Len(got[r]) + 1, upTo) = SubSeq(files[path[r]], 1, upTo)
        <5> DEFINE n == Len(got[r])
                   file == files[path[r]]
        <5>1. n \in 0..Len(file) /\ upTo \in n + 1..Len(file) /\ Len(file) \in Nat
          BY <3>3, <4>3
        <5> HIDE DEF n, file
        <5>2. SubSeq(file, 1, n) \o SubSeq(file, n + 1, upTo) = SubSeq(file, 1, upTo)
          BY <3>3, <5>1, ConcatAdjacentSubSeq DEF file
        <5> QED BY <4>3, <5>2 DEF n, file
      <4>5. got'[r] = SubSeq(files[path[r]], 1, upTo)
        BY <3>1, <4>4 DEF TInv, TypeOK
      <4>6. upTo \in 1..Len(files[path[r]])
        BY <3>3
      <4>7. Len(got'[r]) = upTo
        BY <3>3, <4>5, <4>6, SubSeqProperties
      <4> QED BY <3>2, <4>5, <4>6, <4>7 DEF ReadSoFar
    <3> QED BY <3>2, <3>4 DEF SInv, Reading, savers
  <2>3. CASE RefusePath(r) \/ LoadReturns(r) \/ AppendAudit(r) \/ NoAudit(r)
    <3>1. UNCHANGED <<savers, asked, path>> /\ load'[r] \in {"act", "done"}
      BY <2>3 DEF RefusePath, LoadReturns, AppendAudit, NoAudit, TInv, TypeOK
    <3> QED BY <3>1 DEF SInv, Reading, savers
  <2> QED BY <2>1, <2>2, <2>3 DEF Reader
<1>6. Reading'
  <2>1. ASSUME NEW q \in Readers, q # r
        PROVE  /\ load'[q] = "start" => got'[q] = <<>> /\ asked'[q] = NoSaver
               /\ load'[q] = "open" /\ Clear(path[q])' => ReadSoFar(q)'
               /\ asked'[q] \in Savers => save'[asked'[q]] = "saved" /\ path'[q] = id'[asked'[q]]
    BY <1>1, <1>4, <2>1 DEF SInv, Reading, savers
  <2>2. ASSUME NEW q \in Readers
        PROVE  /\ load'[q] = "start" => got'[q] = <<>> /\ asked'[q] = NoSaver
               /\ load'[q] = "open" /\ Clear(path[q])' => ReadSoFar(q)'
               /\ asked'[q] \in Savers => save'[asked'[q]] = "saved" /\ path'[q] = id'[asked'[q]]
    BY <1>5, <2>1
  <2> QED BY <2>2 DEF Reading
<1>7. ASSUME NEW q \in Readers
      PROVE  \/ answer'[q] = answer[q]
                /\ (answer[q] # NoAnswer => asked'[q] = asked[q] /\ path'[q] = path[q])
             \/ q = r /\ LoadReturns(r) /\ asked'[r] = asked[r] /\ path'[r] = path[r]
             \/ q = r /\ answer'[r] = Failed /\ asked'[r] \notin Savers
  <2>1. CASE RefusePath(r)
    BY <1>1, <2>1, ActorAssumption DEF RefusePath, SInv, Reading, TInv, TypeOK
  <2>2. CASE OpenPrinted(r) \/ OpenListed(r)
    BY <1>1, <2>2 DEF OpenPrinted, OpenListed, TInv, TypeOK
  <2>3. CASE Read(r) \/ AppendAudit(r) \/ NoAudit(r)
    BY <2>3 DEF Read, AppendAudit, NoAudit
  <2>4. CASE LoadReturns(r)
    BY <1>1, <2>4 DEF LoadReturns
  <2> QED BY <2>1, <2>2, <2>3, <2>4 DEF Reader
<1>8. ASSUME NEW q \in Readers, path[q] \in Paths, path'[q] = path[q], ~Disturbed(path[q])'
      PROVE  Clear(path[q])
  <2>1. PICK p \in Paths : p = path[q]
    BY <1>8
  <2>2. Clear(p)'
    BY <1>8, <2>1 DEF Clear
  <2> QED BY <1>2, <2>1, <2>2
<1>9. LoadsWhatWasSaved'
  <2>1. ASSUME NEW q \in Readers, asked'[q] \in Savers \ Newer, answer'[q] # NoAnswer,
               ~Disturbed(path[q])'
        PROVE  Loaded(q)' /\ Yields(answer'[q], Record(asked'[q]))
    <3>1. CASE answer'[q] = answer[q] /\ asked'[q] = asked[q] /\ path'[q] = path[q]
      <4>1. path[q] \in Paths
        BY <2>1, <3>1 DEF SInv, Reading, TInv, TypeOK, Named, Paths
      <4> QED BY <1>8, <2>1, <3>1, <4>1 DEF SInv, LoadsWhatWasSaved, Loaded, Clear
    <3>2. CASE q = r /\ LoadReturns(r) /\ asked'[r] = asked[r] /\ path'[r] = path[r]
      <4>0. Clear(path[r])
        <5>1. path[r] \in Paths
          BY <3>2 DEF LoadReturns, TInv, TypeOK, Openable
        <5> QED BY <1>8, <2>1, <3>2, <5>1
      <4>1. answer'[r] = LinesIn(files[path[r]]) /\ Yields(answer'[r], Record(asked[r]))
        BY <2>1, <3>2, <4>0, SavedLoads
      <4>2. answer'[r] \in Seq(Lines)
        <5>1. files[path[r]] \in Seq(Cell)
          BY <3>2, <4>0, ReadAll DEF LoadReturns
        <5> QED BY <4>1, <5>1, LinesInType
      <4> QED BY <3>2, <4>1, <4>2, StoreAssumption DEF Loaded
    <3> QED BY <1>7, <2>1, <3>1, <3>2
  <2> QED BY <2>1 DEF LoadsWhatWasSaved
<1>10. LoadIsAPrefix'
  <2>1. ASSUME NEW q \in Readers, Loaded(q)', path'[q] \in Ids, ~Disturbed(path[q])'
        PROVE  \E s \in Savers : \E n \in 0..Len(Record(s)) :
                 id'[s] = path'[q] /\ Yields(answer'[q], SubSeq(Record(s), 1, n))
    <3>1. CASE answer'[q] = answer[q] /\ path'[q] = path[q]
      <4>1. path[q] \in Paths
        BY <2>1, <3>1 DEF Paths
      <4> QED BY <1>1, <1>8, <2>1, <3>1, <4>1 DEF SInv, LoadIsAPrefix, Loaded, savers, Clear
    <3>2. CASE q = r /\ LoadReturns(r) /\ path'[r] = path[r]
      <4>1. path[r] \in Paths
        BY <2>1, <3>2 DEF Paths
      <4>2. Clear(path[r])
        BY <1>8, <2>1, <3>2, <4>1
      <4> QED BY <1>1, <2>1, <3>2, <4>2, PrefixLoads DEF Loaded, savers
    <3> QED BY <1>7, <2>1, <3>1, <3>2 DEF Loaded
  <2> QED BY <2>1 DEF LoadIsAPrefix, Ids
<1> QED BY <1>3, <1>6, <1>9, <1>10 DEF SInv

\* Every step keeps the invariant, and an undisturbed file only grows.
LEMMA NextSafe ==
  ASSUME TInv, SInv, [Next]_vars
  PROVE  SInv' /\ FilesGrow
<1>1. TInv'
  BY NextTypes
<1>2. CASE \E s \in Savers : Saver(s)
  BY <1>1, <1>2, SaverSafe
<1>3. CASE \E r \in Readers : Reader(r)
  BY <1>1, <1>3, ReaderSafe
<1>4. CASE Tick \/ UNCHANGED vars
  <2>1. UNCHANGED <<files, savers, readers>>
    BY <1>4 DEF Tick, vars, savers, readers
  <2>2. FilesGrow
    BY <2>1, UnchangedGrows DEF FilesGrow
  <2>3. Owned' /\ Contents'
    BY <2>1 DEF SInv, Owned, Contents, RecordOf, Clear, Disturbed, Clash, Ids, savers, readers
  <2>4. Reading' /\ LoadsWhatWasSaved' /\ LoadIsAPrefix'
    <3>1. UNCHANGED readers /\ UNCHANGED <<save, id>>
      BY <2>1 DEF savers
    <3> QED BY <1>1, <2>2, <3>1, ReadersKeep
  <2> QED BY <2>2, <2>3, <2>4 DEF SInv
<1> QED BY <1>2, <1>3, <1>4 DEF Next

\* Every variable keeps its type, whatever IDs collide.
THEOREM TypeCorrect == Spec => []TypeOK
<1>1. Init => TInv
  BY InitTypes
<1>2. TInv /\ [Next]_vars => TInv'
  BY NextTypes
<1>3. TInv => TypeOK
  BY DEF TInv
<1> QED BY <1>1, <1>2, <1>3, PTL DEF Spec

\* The invariant holds in every state.
LEMMA Invariance == Spec => []IInv
<1>1. Init => IInv
  BY InitTypes, InitSafe DEF IInv
<1>2. IInv /\ [Next]_vars => IInv'
  BY NextTypes, NextSafe DEF IInv
<1> QED BY <1>1, <1>2, PTL DEF Spec

\* docs/api.md:76-78, for any number of investigations and readers, of whatever names and
\* in whatever seconds: a Load of what Save returned gives that record back, unless
\* another investigation of the same name in the same second, or an audit line that came
\* while it was being written, disturbed that very record.
THEOREM SavedRecordsLoad == Spec => []LoadsWhatWasSaved
<1>1. IInv => LoadsWhatWasSaved
  BY DEF IInv, SInv
<1> QED BY <1>1, Invariance, PTL

\* Whatever is written, cut or killed meanwhile, a record that loads is the beginning of
\* one investigation, with the same exception.
THEOREM LoadsAreUnmixed == Spec => []LoadIsAPrefix
<1>1. IInv => LoadIsAPrefix
  BY DEF IInv, SInv
<1> QED BY <1>1, Invariance, PTL

-------------------------------------------------------------------------------
(* The store implements RecordLog. *)

\* The lines of the record at p.
logAt(p) == IF files[p] = NoFile THEN <<>> ELSE LinesIn(files[p])

\* The paths where something went wrong.
disturbedOnes == {p \in Paths : Disturbed(p)}

LEMMA LinesGrow ==
  ASSUME NEW old \in Seq(Cell), NEW new \in Seq(Cell), IsPrefix(old, new)
  PROVE  IsPrefix(LinesIn(old), LinesIn(new))
<1> DEFINE n == Len(old) \div 2
           short == LinesIn(old)
           long == LinesIn(new)
<1>1. /\ Len(old) \in Nat /\ Len(new) \in Nat /\ Len(old) <= Len(new)
      /\ \A k \in 1..Len(old) : old[k] = new[k]
  <2>1. Len(old) \in Nat /\ Len(new) \in Nat /\ Len(old) <= Len(new)
    BY DEF IsPrefix
  <2>2. SubSeq(old, 1, Len(old)) = [k \in 1..Len(old) |-> old[k]]
    OBVIOUS
  <2>3. SubSeq(new, 1, Len(old)) = [k \in 1..Len(old) |-> new[k]]
    BY <2>1
  <2> QED BY <2>1, <2>2, <2>3 DEF IsPrefix
<1>2. n \in Nat /\ n <= Len(new) \div 2 /\ \A k \in 1..n : 2 * k \in 1..Len(old)
  BY <1>1
<1>3. /\ short \in Seq(Lines) /\ Len(short) = n /\ long \in Seq(Lines)
      /\ Len(long) = Len(new) \div 2
  BY LinesInType
<1>4. ASSUME NEW k \in 1..n PROVE short[k] = long[k]
  <2>1. k \in 1..Len(new) \div 2
    BY <1>1, <1>2
  <2>2. short[k] = old[2 * k].line /\ long[k] = new[2 * k].line
    BY <2>1, LinesInType
  <2> QED BY <1>1, <1>2, <2>2
<1> HIDE DEF short, long, n
<1>5. SubSeq(short, 1, n) = [k \in 1..n |-> short[k]]
  BY <1>3
<1>6. SubSeq(long, 1, n) = [k \in 1..n |-> long[k]]
  BY <1>2, <1>3
<1> QED BY <1>2, <1>3, <1>4, <1>5, <1>6 DEF IsPrefix, short, long

\* A step that writes at most one file, and disturbs no other, grows at most one log.
LEMMA OneLogGrows ==
  ASSUME TInv, TInv', [Next]_vars, FilesGrow, NEW p \in Paths, UNCHANGED <<path, answer>>,
         \A q \in Paths \ {p} : files'[q] = files[q] /\ (Disturbed(q)' => Disturbed(q))
  PROVE  Log!Grow(p)
<1> DEFINE log == [q \in Paths |-> logAt(q)]
           more == [q \in Paths |-> logAt(q)']
<1>1. files[p] \in Seq(Cell) \cup {NoFile} /\ files'[p] \in Seq(Cell) \cup {NoFile}
  BY DEF TInv, TypeOK
<1>2. logAt(p)' \in Seq(Lines)
  BY <1>1, LinesInType, EmptySeq DEF logAt
<1>3. ASSUME Clear(p)' PROVE IsPrefix(logAt(p), logAt(p)')
  <2>1. CASE files[p] = NoFile
    <3>1. logAt(p) = <<>>
      BY <2>1 DEF logAt
    <3>2. Len(logAt(p)') \in Nat /\ SubSeq(logAt(p)', 1, 0) = <<>> /\ SubSeq(<<>>, 1, 0) = <<>>
      BY <1>2, SubSeqEmpty
    <3>3. Len(<<>>) = 0
      OBVIOUS
    <3> QED BY <3>1, <3>2, <3>3 DEF IsPrefix
  <2>2. CASE files[p] # NoFile
    <3>1. files'[p] \in Seq(Cell) /\ IsPrefix(files[p], files'[p])
      BY <1>1, <1>3, <2>2 DEF FilesGrow
    <3>2. files'[p] # NoFile
      BY <3>1, StoreAssumption
    <3> QED BY <1>1, <2>2, <3>1, <3>2, LinesGrow DEF logAt
  <2> QED BY <2>1, <2>2
<1>4. more = [log EXCEPT ![p] = more[p]]
  <2>1. \A q \in Paths \ {p} : logAt(q)' = logAt(q)
    BY DEF logAt
  <2> QED BY <2>1
<1>5. log[p] = logAt(p) /\ more[p] = logAt(p)'
  OBVIOUS
<1>6. more[p] \in Seq(Lines) /\ more = [log EXCEPT ![p] = more[p]]
      /\ (Clear(p)' => IsPrefix(log[p], more[p]))
  BY <1>2, <1>3, <1>4, <1>5, Zenon
<1>7. disturbedOnes' \in {disturbedOnes, disturbedOnes \cup {p}}
  <2>1. \A q \in Paths : Disturbed(q) => Disturbed(q)'
    BY StaysDisturbed
  <2>2. ASSUME NEW q \in Paths \ {p} PROVE Disturbed(q)' <=> Disturbed(q)
    BY <2>1
  <2>3. \A q : q \in disturbedOnes' <=> q \in Paths /\ Disturbed(q)'
    BY DEF disturbedOnes, Paths, Ids, auditPath
  <2>4. \A q : q \in disturbedOnes <=> q \in Paths /\ Disturbed(q)
    BY DEF disturbedOnes
  <2>5. CASE Disturbed(p)'
    <3>1. disturbedOnes' = disturbedOnes \cup {p}
      BY <2>2, <2>3, <2>4, <2>5
    <3> QED BY <3>1
  <2>6. CASE ~Disturbed(p)'
    <3>1. disturbedOnes' = disturbedOnes
      BY <2>1, <2>2, <2>3, <2>4, <2>6
    <3> QED BY <3>1
  <2> QED BY <2>5, <2>6
<1>8. p \in disturbedOnes' \/ IsPrefix(log[p], more[p])
  BY <1>6 DEF disturbedOnes, Clear
<1> QED BY <1>6, <1>7, <1>8, Zenon DEF Log!Grow, Log!IsPrefix, IsPrefix, logAt, disturbedOnes

\* Every step of the store is a step of the log, or none.
LEMMA StepsOfTheLog ==
  ASSUME TInv, SInv, [Next]_vars
  PROVE  [Log!Next]_(Log!vars)
<1>1. TInv' /\ SInv' /\ FilesGrow
  BY NextTypes, NextSafe
<1>2. ASSUME UNCHANGED <<files, path, answer, id, audited>> PROVE UNCHANGED Log!vars
  BY <1>2 DEF Log!vars, Disturbed, Clash, Ids
<1>3. ASSUME NEW s \in Savers, Saver(s) PROVE [Log!Next]_(Log!vars)
  <2>0. UNCHANGED <<path, answer, audited>>
    BY <1>3 DEF Saver, Build, OpenToSave, OpenFails, Write, WriteFails, SaveReturns, Killed, readers
  <2>1. CASE OpenToSave(s) \/ Write(s)
    <3>1. id[s] \in Paths /\ UNCHANGED id
      BY <2>1 DEF OpenToSave, Write, TInv, TypeOK, Named, Paths
    <3>2. \A q \in Paths \ {id[s]} : files'[q] = files[q] /\ (Disturbed(q)' => Disturbed(q))
      BY <2>0, <2>1, <3>1 DEF OpenToSave, Write, TInv, TypeOK, Disturbed, Clash, Ids
    <3> QED BY <1>1, <2>0, <3>1, <3>2, OneLogGrows DEF Log!Next
  <2>2. CASE Build(s)
    <3>1. PICK p \in Paths : p = <<now, slug(s)>>
      <4>1. <<now, slug(s)>> \in Ids
        BY DEF TInv, TypeOK, Ids
      <4> QED BY <4>1 DEF Paths
    <3>2. id' = [id EXCEPT ![s] = p] /\ UNCHANGED files
      BY <2>2, <3>1 DEF Build
    <3>3. ASSUME NEW q \in Paths \ {p}, Disturbed(q)' PROVE Disturbed(q)
      <4>1. CASE Clash(q)'
        <5>1. PICK t \in Savers, u \in Savers :
                t # u /\ id'[t] = q /\ id'[u] = q /\ slug(t) = slug(u) /\ q \in Ids
          BY <4>1 DEF Clash, Ids
        <5>2. t # s /\ u # s
          BY <3>2, <5>1 DEF TInv, TypeOK
        <5> QED BY <3>2, <5>1, <5>2 DEF TInv, TypeOK, Clash, Disturbed
      <4>2. CASE ~Clash(q)'
        BY <2>0, <3>3, <4>2 DEF Disturbed
      <4> QED BY <4>1, <4>2
    <3> QED BY <1>1, <2>0, <3>2, <3>3, OneLogGrows DEF Log!Next
  <2>3. CASE ~(OpenToSave(s) \/ Write(s) \/ Build(s))
    BY <1>2, <1>3, <2>0, <2>3 DEF Saver, OpenFails, WriteFails, SaveReturns, Killed
  <2> QED BY <2>1, <2>2, <2>3
<1>4. ASSUME NEW r \in Readers, Reader(r) PROVE [Log!Next]_(Log!vars)
  <2>0. UNCHANGED id
    BY <1>4 DEF Reader, RefusePath, OpenPrinted, OpenListed, Read, LoadReturns, AppendAudit,
       NoAudit, savers
  <2>1. CASE AppendAudit(r)
    <3>1. PICK p \in Paths : p = auditPath(path[r])
      BY <2>1, AuditPathType, StoreAssumption DEF AppendAudit, TInv, TypeOK, Openable
    <3>2. UNCHANGED <<path, answer>> /\ \A t \in Readers \ {r} : audited'[t] = audited[t]
      BY <2>1 DEF AppendAudit, Audits, TInv, TypeOK
    <3>3. \A q \in Paths \ {p} : files'[q] = files[q]
      BY <2>1, <3>1 DEF AppendAudit, TInv, TypeOK
    <3>4. \A q \in Paths \ {p} : Disturbed(q)' => Disturbed(q)
      BY <2>0, <3>1, <3>2 DEF Disturbed, Clash, Ids
    <3> QED BY <1>1, <3>2, <3>3, <3>4, OneLogGrows DEF Log!Next
  <2>2. CASE LoadReturns(r)
    <3>1. path[r] \in Paths /\ answer[r] = NoAnswer /\ UNCHANGED <<files, path, audited>>
      BY <2>2, StoreAssumption DEF LoadReturns, TInv, TypeOK, Openable
    <3>2. UNCHANGED disturbedOnes
      BY <2>0, <3>1 DEF disturbedOnes, Disturbed, Clash, Ids
    <3>3. answer' = [answer EXCEPT ![r] = answer'[r]]
          /\ answer'[r] \in {Failed, LinesIn(got[r])}
      BY <2>2 DEF LoadReturns, TInv, TypeOK
    <3>4. \/ answer'[r] = Failed
          \/ path[r] \in Paths \ disturbedOnes /\ answer'[r] = logAt(path[r])
          \/ path[r] \in disturbedOnes /\ answer'[r] \in Seq(Lines)
      <4>1. CASE Clear(path[r])
        <5>1. got[r] = files[path[r]] /\ files[path[r]] # NoFile
          BY <2>2, <4>1, ReadAll DEF LoadReturns
        <5> QED BY <3>1, <3>3, <4>1, <5>1 DEF logAt, Clear, disturbedOnes
      <4>2. CASE ~Clear(path[r])
        <5>1. LinesIn(got[r]) \in Seq(Lines)
          BY LinesInType DEF TInv, TypeOK
        <5> QED BY <3>1, <3>3, <4>2, <5>1 DEF Clear, disturbedOnes
      <4> QED BY <4>1, <4>2
    <3>5. UNCHANGED [p \in Paths |-> IF files[p] = NoFile THEN <<>> ELSE LinesIn(files[p])]
      BY <3>1 DEF LinesIn
    <3>6. Log!Answer(r)
      BY <3>1, <3>2, <3>3, <3>4, <3>5 DEF Log!Answer, logAt, disturbedOnes
    <3> QED BY <3>6 DEF Log!Next
  <2>3. CASE RefusePath(r)
    <3>1. answer[r] = NoAnswer /\ UNCHANGED <<files, path, audited>>
          /\ answer' = [answer EXCEPT ![r] = Failed] /\ answer'[r] = Failed
      BY <2>3 DEF RefusePath, TInv, TypeOK
    <3>2. UNCHANGED disturbedOnes
      BY <2>0, <3>1 DEF disturbedOnes, Disturbed, Clash, Ids
    <3>3. UNCHANGED [p \in Paths |-> IF files[p] = NoFile THEN <<>> ELSE LinesIn(files[p])]
      BY <3>1 DEF LinesIn
    <3>4. Log!Answer(r)
      BY <3>1, <3>2, <3>3 DEF Log!Answer, disturbedOnes
    <3> QED BY <3>4 DEF Log!Next
  <2>4. CASE OpenPrinted(r) \/ OpenListed(r)
    <3>1. path[r] = NoPath /\ UNCHANGED <<files, answer, audited>>
      BY <2>4 DEF OpenPrinted, OpenListed, TInv, InOrder
    <3>2. PICK p \in Paths : path' = [path EXCEPT ![r] = p]
      BY <2>4 DEF OpenPrinted, OpenListed, List, Paths, TInv, TypeOK, Named
    <3>3. UNCHANGED disturbedOnes
      <4>1. \A q \in Readers : audited[q] # "no" => path'[q] = path[q]
        BY AuditsStay
      <4>2. \A q \in Paths : Disturbed(q)' <=> Disturbed(q)
        BY <2>0, <3>1, <4>1 DEF Disturbed, Clash, Ids
      <4> QED BY <4>2 DEF disturbedOnes, Paths, Ids, auditPath
    <3>4. UNCHANGED [q \in Paths |-> IF files[q] = NoFile THEN <<>> ELSE LinesIn(files[q])]
      BY <3>1 DEF LinesIn
    <3>5. Log!Open(r)
      BY <3>1, <3>2, <3>3, <3>4 DEF Log!Open, disturbedOnes
    <3> QED BY <3>5 DEF Log!Next
  <2>5. CASE Read(r) \/ NoAudit(r)
    BY <1>2, <2>0, <2>5 DEF Read, NoAudit
  <2> QED BY <1>4, <2>1, <2>2, <2>3, <2>4, <2>5 DEF Reader
<1>5. CASE Tick \/ UNCHANGED vars
  BY <1>2, <1>5 DEF Tick, vars, savers, readers
<1> QED BY <1>3, <1>4, <1>5 DEF Next

\* record.go:1, for any number of investigations and readers, of whatever names and in
\* whatever seconds: the files are append-only logs, and a Load gives one state of one log
\* or an error; the disturbed ones excepted, and they leave the others alone.
THEOREM StoreKeepsLogs == Spec => KeepsLog
<1>1. Init => Log!Init
  <2> SUFFICES ASSUME Init PROVE Log!Init
    OBVIOUS
  <2>1. \A p \in Paths : logAt(p) \in Seq(Lines)
    BY InitTypes, LinesInType, EmptySeq DEF logAt, TInv, TypeOK
  <2>2. disturbedOnes = {}
    <3>1. \A p \in Paths : ~Clash(p)
      BY StoreAssumption DEF Init, Clash, Paths
    <3> QED BY <3>1 DEF Init, disturbedOnes, Disturbed
  <2> QED BY <2>1, <2>2 DEF Log!Init, Init, logAt, disturbedOnes
<1>2. IInv /\ [Next]_vars => [Log!Next]_(Log!vars)
  BY StepsOfTheLog DEF IInv
<1> QED BY <1>1, <1>2, Invariance, PTL DEF Spec, KeepsLog, Log!Spec

===============================================================================

-------------------------- MODULE FetchLineProofs --------------------------
(***************************************************************************)
(* read_config and fetch_line_fields, whatever the file: the parser stays  *)
(* in its buffer, although it writes into the line it is reading; what it  *)
(* leaves there are the fields the line means; and the rules made of them  *)
(* are those of the file.                                                  *)
(*                                                                         *)
(* The argument: when i characters are read, the buffer below j holds one  *)
(* character or NUL for each of them that is written, in their order       *)
(* (Stored, Place), n counts the separators written (Numbered), and quo    *)
(* and esc say whether the next one is inside quotes or escaped (Scanned). *)
(* Every turn of the loop keeps this (TurnScanned).  At the end, counting  *)
(* what was written gives back each field (StringMeans, FieldsInRow).      *)
(***************************************************************************)
EXTENDS FetchLine, FiniteSetTheorems, TLAPS

\* The number of characters in front of the NUL of the buffer.
Size == IF lineno = 0 THEN 0 ELSE Len(conf[lineno])

\* What LineTypeOK says, by parts.
ControlOK ==
    /\ conf \in Seq(Lines) /\ lineno \in 0..Len(conf)
    /\ fpc \in {"scan", "fetched"} => lineno > 0
    /\ n \in Nat /\ esc \in BOOLEAN /\ quo \in BOOLEAN
    /\ tmp \in Int /\ fpc \in {"fgets", "scan", "fetched", "done", "abort"}
Ahead ==
    fpc = "scan" => line[Size] = NUL /\ \A k \in i..(Size - 1) : line[k] = conf[lineno][k + 1]
BufferOK == line \in [0..Size -> Char \cup {NUL}] /\ i \in 0..Size /\ j \in 0..i /\ Ahead

LEMMA LineTypeParts == LineTypeOK <=> ControlOK /\ BufferOK
BY DEF LineTypeOK, ControlOK, BufferOK, Ahead, Size
LEMMA LineTypeNextParts == LineTypeOK' <=> ControlOK' /\ BufferOK'
BY DEF LineTypeOK, ControlOK, BufferOK, Ahead, Size

\* A line read so far is one of the file, without a NUL in it.
LEMMA LineFacts ==
    ASSUME ControlOK, lineno > 0
    PROVE  /\ conf[lineno] \in Seq(Char) /\ Size = Len(conf[lineno]) /\ Size \in Nat
           /\ \A k \in 1..Size : conf[lineno][k] \in Char
<1>1. lineno \in 1..Len(conf) /\ Len(conf) \in Nat
  BY DEF ControlOK
<1>2. conf[lineno] \in Lines
  BY <1>1 DEF ControlOK
<1>3. conf[lineno] \in Seq(Char)
  BY <1>2 DEF Lines
<1> QED
  BY <1>1, <1>3 DEF Size

LEMMA FetchInitTyped == FetchInit => LineTypeOK
<1> SUFFICES ASSUME NEW c \in Configs, FetchStart(c) PROVE LineTypeOK
  BY DEF FetchInit
<1>1. c \in Seq(Lines)
  BY ConfigsAssumption
<1>2. conf = c /\ lineno = 0 /\ n = 0 /\ esc = FALSE /\ quo = FALSE /\ tmp = 0 /\ fpc = "fgets"
      /\ line = [k \in {0} |-> NUL] /\ i = 0 /\ j = 0
  BY DEF FetchStart
<1>3. line \in [0..0 -> Char \cup {NUL}]
  <2>1. 0..0 = {0} /\ NUL \in Char \cup {NUL}
    OBVIOUS
  <2> QED
    BY <1>2, <2>1
<1>4. ControlOK
  <2>1. conf \in Seq(Lines) /\ lineno \in 0..Len(conf)
    BY <1>1, <1>2
  <2>2. /\ fpc \in {"scan", "fetched"} => lineno > 0
        /\ fpc \in {"fgets", "scan", "fetched", "done", "abort"}
    BY <1>2
  <2>3. n \in Nat /\ tmp \in Int
    BY <1>2
  <2>4. esc \in BOOLEAN /\ quo \in BOOLEAN
    BY <1>2
  <2> QED
    BY <2>1, <2>2, <2>3, <2>4 DEF ControlOK
<1>5. BufferOK
  BY <1>2, <1>3 DEF BufferOK, Ahead, Size
<1> QED
  BY <1>4, <1>5, LineTypeParts

\* One turn of the loop that goes on to the next character, and writes at j or
\* not: what is ahead of the new position is still what fgets put there.
LEMMA TurnStaysInLine ==
    ASSUME ControlOK, BufferOK, Loops, line[i] # NUL,
           i' = i + 1, j' \in {j, j + 1},
           line' = line \/ \E c \in Char \cup {NUL} : line' = [line EXCEPT ![j] = c],
           n' \in Nat, esc' \in BOOLEAN, quo' \in BOOLEAN
    PROVE  LineTypeOK'
<1>1. fpc = "scan" /\ fpc' = "scan" /\ conf' = conf /\ lineno' = lineno /\ tmp' = tmp
  BY DEF Loops, Goes
<1>2. lineno > 0 /\ Size' = Size /\ Size \in Nat
  <2>1. lineno > 0
    BY <1>1 DEF ControlOK
  <2> QED
    BY <1>1, <2>1, LineFacts DEF Size
<1>3. i \in 0..Size /\ j \in 0..i /\ line \in [0..Size -> Char \cup {NUL}] /\ line[Size] = NUL
      /\ \A k \in i..(Size - 1) : line[k] = conf[lineno][k + 1]
  BY <1>1 DEF BufferOK, Ahead
<1>4. i < Size
  BY <1>2, <1>3
<1>5. i' \in 0..Size /\ j' \in 0..i'
  BY <1>2, <1>3, <1>4
<1>6. line' \in [0..Size -> Char \cup {NUL}] /\ \A k \in (i + 1)..Size : line'[k] = line[k]
  <2>1. CASE line' = line
    BY <1>2, <1>3, <2>1
  <2>2. CASE \E c \in Char \cup {NUL} : line' = [line EXCEPT ![j] = c]
    <3>1. PICK c \in Char \cup {NUL} : line' = [line EXCEPT ![j] = c]
      BY <2>2
    <3>2. line' \in [0..Size -> Char \cup {NUL}]
      BY <1>3, <3>1
    <3>3. \A k \in (i + 1)..Size : k # j /\ k \in 0..Size
      BY <1>2, <1>3
    <3> QED
      BY <1>3, <3>1, <3>2, <3>3
  <2> QED
    BY <2>1, <2>2
<1>7. line'[Size] = NUL /\ \A k \in (i + 1)..(Size - 1) : line'[k] = conf[lineno][k + 1]
  BY <1>2, <1>3, <1>4, <1>6
<1>8. BufferOK'
  BY <1>1, <1>2, <1>5, <1>6, <1>7 DEF BufferOK, Ahead
<1>9. ControlOK'
  BY <1>1 DEF ControlOK
<1> QED
  BY <1>8, <1>9, LineTypeNextParts

\* A step that leaves the positions alone, and writes at j at most a NUL.
LEMMA StopStaysInLine ==
    ASSUME ControlOK, BufferOK, Goes, \E r \in Int : Return(r),
           line' = line \/ line' = [line EXCEPT ![j] = NUL],
           UNCHANGED <<i, j, n, esc, quo>>
    PROVE  LineTypeOK'
<1>1. conf' = conf /\ lineno' = lineno /\ fpc = "scan" /\ fpc' = "fetched" /\ tmp' \in Int
  BY DEF Goes, Return
<1>2. Size' = Size /\ lineno > 0
  BY <1>1 DEF Size, ControlOK
<1>3. line' \in [0..Size -> Char \cup {NUL}]
  BY DEF BufferOK
<1>4. ControlOK'
  BY <1>1, <1>2 DEF ControlOK
<1>5. BufferOK'
  BY <1>1, <1>2, <1>3 DEF BufferOK, Ahead
<1> QED
  BY <1>4, <1>5, LineTypeNextParts

LEMMA FetchNextTyped == LineTypeOK /\ [FetchNext]_fetchVars => LineTypeOK'
<1> SUFFICES ASSUME LineTypeOK, [FetchNext]_fetchVars PROVE LineTypeOK'
  OBVIOUS
<1>0. ControlOK /\ BufferOK
  BY LineTypeParts
<1>c. fpc = "scan" => i \in 0..Size /\ line[i] \in Char \cup {NUL} /\ lineno > 0 /\ Size \in Nat
  BY <1>0, LineFacts DEF BufferOK, ControlOK
<1>1. CASE ReadLine
  <2>1. conf' = conf /\ lineno' = lineno + 1 /\ lineno' \in 1..Len(conf) /\ Len(conf) \in Nat
    BY <1>0, <1>1 DEF ReadLine, ControlOK
  <2>2. ControlOK'
    <3>1. conf' \in Seq(Lines) /\ lineno' \in 0..Len(conf') /\ lineno' > 0
      BY <1>0, <2>1 DEF ControlOK
    <3>2. fpc' = "scan" /\ tmp' = tmp /\ n' = 0 /\ esc' = FALSE /\ quo' = FALSE
      BY <1>1 DEF ReadLine
    <3>3. tmp \in Int
      BY <1>0 DEF ControlOK
    <3> QED
      BY <3>1, <3>2, <3>3 DEF ControlOK
  <2>3. conf[lineno'] \in Lines
    BY <1>0, <2>1 DEF ControlOK
  <2>4. conf[lineno'] \in Seq(Char)
    BY <2>3 DEF Lines
  <2>5. Size' = Len(conf[lineno']) /\ Size' \in Nat
    BY <2>1, <2>4 DEF Size
  <2>6. line' = [k \in 0..Size' |-> IF k < Size' THEN conf[lineno'][k + 1] ELSE NUL]
    BY <1>1, <2>5 DEF ReadLine
  <2>7. line' \in [0..Size' -> Char \cup {NUL}]
    <3>1. NUL \in Char \cup {NUL}
      OBVIOUS
    <3>2. \A k \in 0..Size' : k < Size' => conf[lineno'][k + 1] \in Char \cup {NUL}
      BY <2>4, <2>5
    <3> QED
      BY <2>6, <3>1, <3>2
  <2>8. line'[Size'] = NUL /\ \A k \in 0..(Size' - 1) : line'[k] = conf'[lineno'][k + 1]
    BY <2>1, <2>5, <2>6
  <2>9. BufferOK'
    <3>1. i' = 0 /\ j' = 0
      BY <1>1 DEF ReadLine
    <3> QED
      BY <2>5, <2>7, <2>8, <3>1 DEF BufferOK, Ahead
  <2> QED
    BY <2>2, <2>9, LineTypeNextParts
<1>2. CASE EndOfFile
  BY <1>0, <1>2, LineTypeNextParts DEF EndOfFile, ControlOK, BufferOK, Ahead, Size
<1>3. CASE FetchEnds
  <2>1. Goes /\ UNCHANGED <<i, j, n, esc, quo>> /\ n \in Int
    BY <1>0, <1>3 DEF FetchEnds, ControlOK
  <2>2. (Return(-1) \/ Return(n)) /\ (line' = line \/ line' = [line EXCEPT ![j] = NUL])
    BY <1>3 DEF FetchEnds
  <2> QED
    BY <1>0, <2>1, <2>2, StopStaysInLine
<1>4. CASE Separator
  <2>0. n \in Nat
    BY <1>0 DEF ControlOK
  <2>1. Loops /\ line[i] # NUL /\ n' \in Nat /\ i' = i + 1 /\ UNCHANGED <<esc, quo>>
    <3>1. Loops /\ line[i] \in Blank /\ i' = i + 1 /\ UNCHANGED <<esc, quo>>
      BY <1>4 DEF Separator
    <3>2. line[i] # NUL
      BY <3>1 DEF Blank, NUL
    <3>3. n' = n \/ n' = n + 1
      BY <1>4 DEF Separator
    <3> QED
      BY <2>0, <3>1, <3>2, <3>3
  <2>2. j' \in {j, j + 1} /\ (line' = line \/ line' = [line EXCEPT ![j] = NUL])
    BY <1>4 DEF Separator
  <2>3. NUL \in Char \cup {NUL}
    OBVIOUS
  <2> QED
    BY <1>0, <2>1, <2>2, <2>3, TurnStaysInLine DEF ControlOK
<1>5. CASE QuotedText
  <2>1. Loops /\ Copy /\ line[i] # NUL /\ UNCHANGED <<n, esc, quo>>
    BY <1>5 DEF QuotedText, Blank, NUL
  <2> QED
    BY <1>0, <1>c, <2>1, TurnStaysInLine DEF ControlOK, Copy, Loops, Goes
<1>6. CASE Quote
  <2>1. Loops /\ (Copy \/ Skip) /\ line[i] # NUL /\ n' = n /\ esc' \in BOOLEAN /\ quo' \in BOOLEAN
    BY <1>0, <1>6 DEF Quote, NUL, ControlOK
  <2> QED
    BY <1>0, <1>c, <2>1, TurnStaysInLine DEF ControlOK, Copy, Skip, Loops, Goes
<1>7. CASE StrayBackslash
  BY <1>0, <1>7, StopStaysInLine DEF StrayBackslash
<1>8. CASE Backslash
  <2>1. Loops /\ (Copy \/ Skip) /\ line[i] # NUL /\ n' = n /\ esc' \in BOOLEAN /\ quo' = quo
    BY <1>0, <1>8 DEF Backslash, NUL, ControlOK
  <2> QED
    BY <1>0, <1>c, <2>1, TurnStaysInLine DEF ControlOK, Copy, Skip, Loops, Goes
<1>9. CASE Ordinary
  <2>1. Loops /\ Copy /\ line[i] # NUL /\ n' \in Nat /\ esc' \in BOOLEAN /\ quo' = quo
    BY <1>0, <1>9 DEF Ordinary, ControlOK
  <2> QED
    BY <1>0, <1>c, <2>1, TurnStaysInLine DEF ControlOK, Copy, Loops, Goes
<1>10. CASE MakeRule \/ IgnoreLine \/ ConfigAbort
  <2>1. ReadRest /\ fpc' \in {"fgets", "abort"}
    BY <1>10 DEF MakeRule, IgnoreLine, ConfigAbort
  <2> QED
    BY <1>0, <2>1, LineTypeNextParts DEF ReadRest, ControlOK, BufferOK, Ahead, Size
<1>11. CASE UNCHANGED fetchVars
  BY <1>0, <1>11, LineTypeNextParts DEF fetchVars, ControlOK, BufferOK, Ahead, Size
<1> QED
  BY <1>1, <1>2, <1>3, <1>4, <1>5, <1>6, <1>7, <1>8, <1>9, <1>10, <1>11 DEF FetchNext

\* The parser never leaves its line, for any pkgadd.conf: it writes behind the
\* place it reads at, and what it has still to read is as fgets left it.
THEOREM ParserStaysInLine == FetchSpec => []LineTypeOK
<1> QED
  BY FetchInitTyped, FetchNextTyped, PTL DEF FetchSpec

-----------------------------------------------------------------------------
(* Counting: the m-th of a finite set of numbers.                          *)

UpTo(S, k) == {h \in S : h <= k}

LEMMA UpToCounts ==
    ASSUME NEW S, IsFiniteSet(S), NEW k
    PROVE  /\ IsFiniteSet(UpTo(S, k)) /\ Cardinality(UpTo(S, k)) \in Nat
           /\ Cardinality(UpTo(S, k)) <= Cardinality(S) /\ Cardinality(S) \in Nat
<1>1. UpTo(S, k) \in SUBSET S
  BY DEF UpTo
<1> QED
  BY <1>1, FS_Subset, FS_CardinalityType

\* One more element.
LEMMA OneMore ==
    ASSUME NEW S, IsFiniteSet(S), NEW x, x \notin S
    PROVE  /\ IsFiniteSet(S \cup {x}) /\ Cardinality(S \cup {x}) = Cardinality(S) + 1
           /\ Cardinality(S) \in Nat
BY FS_AddElement, FS_CardinalityType

LEMMA SmallerSet ==
    ASSUME NEW S, IsFiniteSet(S), NEW T, T \subseteq S, NEW x \in S, x \notin T
    PROVE  IsFiniteSet(T) /\ Cardinality(T) < Cardinality(S) /\ Cardinality(T) \in Nat /\ Cardinality(S) \in Nat
<1>1. T \in SUBSET S /\ T # S
  OBVIOUS
<1>2. IsFiniteSet(T) /\ Cardinality(T) <= Cardinality(S) /\ Cardinality(T) # Cardinality(S)
  BY <1>1, FS_Subset
<1>3. Cardinality(T) \in Nat /\ Cardinality(S) \in Nat
  BY <1>2, FS_CardinalityType
<1> QED
  BY <1>2, <1>3

LEMMA RankGrows ==
    ASSUME NEW S \in SUBSET Int, IsFiniteSet(S), NEW k \in S, NEW m \in S, k < m
    PROVE  Cardinality(UpTo(S, k)) < Cardinality(UpTo(S, m))
<1>1. k \in Int /\ m \in Int /\ \A h \in S : h \in Int
  OBVIOUS
<1>2. m <= m /\ ~(m <= k) /\ \A h \in S : h <= k => h <= m
  BY <1>1
<1>3. UpTo(S, k) \subseteq UpTo(S, m) /\ m \in UpTo(S, m) /\ m \notin UpTo(S, k)
  BY <1>1, <1>2 DEF UpTo
<1> QED
  BY <1>3, UpToCounts, SmallerSet

LEMMA RankOnce ==
    ASSUME NEW S \in SUBSET Int, IsFiniteSet(S), NEW k \in S, NEW m \in S,
           Cardinality(UpTo(S, k)) = Cardinality(UpTo(S, m))
    PROVE  k = m
<1>1. ~(k < m) /\ ~(m < k)
  BY RankGrows, UpToCounts
<1> QED
  BY <1>1

LEMMA RankBounds ==
    ASSUME NEW S \in SUBSET Int, IsFiniteSet(S), NEW k \in S
    PROVE  Cardinality(UpTo(S, k)) \in 1..Cardinality(S)
<1>1. k \in UpTo(S, k)
  BY DEF UpTo
<1>2. Cardinality(UpTo(S, k)) # 0
  BY <1>1, UpToCounts, FS_EmptySet
<1> QED
  BY <1>2, UpToCounts

\* Every rank is somebody's.
LEMMA RankTaken ==
    ASSUME NEW S \in SUBSET Int, IsFiniteSet(S), NEW m \in 1..Cardinality(S)
    PROVE  \E k \in S : Cardinality(UpTo(S, k)) = m
<1> DEFINE N == 1..Cardinality(S)
           f == [k \in S |-> Cardinality(UpTo(S, k))]
<1>1. f \in [S -> N]
  BY RankBounds
<1>2. \A k, h \in S : f[k] = f[h] => k = h
  BY RankOnce
<1>3. IsFiniteSet(N) /\ Cardinality(N) = Cardinality(S)
  <2>1. Cardinality(S) \in Nat
    BY FS_CardinalityType
  <2> QED
    BY <2>1, FS_Interval
<1>4. \A x \in N : \E k \in S : f[k] = x
  <2> HIDE DEF f, N
  <2>1. f \in Injection(S, N)
    BY <1>1, <1>2 DEF Injection, IsInjective
  <2>2. f \in Surjection(S, N)
    BY <1>3, <2>1, FS_Injection
  <2> QED
    BY <2>2 DEF Surjection
<1> QED
  BY <1>4

LEMMA NthIs ==
    ASSUME NEW S \in SUBSET Int, IsFiniteSet(S), NEW m \in 1..Cardinality(S)
    PROVE  Nth(S, m) \in S /\ Cardinality(UpTo(S, Nth(S, m))) = m
<1>1. \E k \in S : Cardinality(UpTo(S, k)) = m
  BY RankTaken
<1>2. \E k \in S : Cardinality({h \in S : h <= k}) = m
  BY <1>1 DEF UpTo
<1>3. Nth(S, m) \in S /\ Cardinality({h \in S : h <= Nth(S, m)}) = m
  BY <1>2 DEF Nth
<1> QED
  BY <1>3 DEF UpTo

LEMMA NthOf ==
    ASSUME NEW S \in SUBSET Int, IsFiniteSet(S), NEW k \in S
    PROVE  Nth(S, Cardinality(UpTo(S, k))) = k
<1>1. Cardinality(UpTo(S, k)) \in 1..Cardinality(S)
  BY RankBounds
<1> QED
  <2> PICK m \in 1..Cardinality(S) : m = Cardinality(UpTo(S, k))
    BY <1>1
  <2>1. Nth(S, m) \in S /\ Cardinality(UpTo(S, Nth(S, m))) = Cardinality(UpTo(S, k))
    BY NthIs
  <2>2. Nth(S, m) = k
    BY <2>1, RankOnce
  <2> QED
    BY <2>2

\* A greater element comes last, and the others stay where they are.
LEMMA NthLast ==
    ASSUME NEW S \in SUBSET Int, IsFiniteSet(S), NEW x \in Int, \A h \in S : h < x
    PROVE  /\ IsFiniteSet(S \cup {x}) /\ Cardinality(S \cup {x}) = Cardinality(S) + 1
           /\ Nth(S \cup {x}, Cardinality(S) + 1) = x
           /\ \A m \in 1..Cardinality(S) : Nth(S \cup {x}, m) = Nth(S, m)
<1> DEFINE T == S \cup {x}
<1>1. IsFiniteSet(T) /\ Cardinality(T) = Cardinality(S) + 1 /\ T \in SUBSET Int /\ Cardinality(S) \in Nat
  <2>1. x \notin S
    OBVIOUS
  <2> QED
    BY <2>1, OneMore
<1>2. UpTo(T, x) = T /\ \A k \in S : UpTo(T, k) = UpTo(S, k)
  <2>1. \A h \in T : h <= x
    OBVIOUS
  <2>2. \A k \in S : ~(x <= k)
    OBVIOUS
  <2> QED
    BY <2>1, <2>2 DEF UpTo
<1>3. Nth(T, Cardinality(S) + 1) = x
  <2>1. x \in T
    OBVIOUS
  <2> HIDE DEF T
  <2> QED
    BY <1>1, <1>2, <2>1, NthOf
<1>4. ASSUME NEW m \in 1..Cardinality(S)
      PROVE  Nth(T, m) = Nth(S, m)
  <2>1. Nth(S, m) \in S /\ Cardinality(UpTo(S, Nth(S, m))) = m
    BY NthIs
  <2>2. Nth(S, m) \in T /\ Cardinality(UpTo(T, Nth(S, m))) = m
    BY <1>2, <2>1
  <2> HIDE DEF T
  <2> QED
    BY <1>1, <2>2, NthOf
<1> QED
  BY <1>1, <1>3, <1>4

LEMMA Least ==
    ASSUME NEW S \in SUBSET Int, IsFiniteSet(S), S # {}
    PROVE  \E k \in S : \A h \in S : k <= h
<1>1. Cardinality(S) \in Nat /\ Cardinality(S) # 0
  BY FS_CardinalityType, FS_EmptySet
<1>2. PICK k \in S : Cardinality(UpTo(S, k)) = 1
  BY <1>1, RankTaken
<1>3. ASSUME NEW h \in S, ~(k <= h)
      PROVE  FALSE
  <2>1. h < k
    BY <1>3
  <2>2. Cardinality(UpTo(S, h)) < 1
    BY <1>2, <2>1, RankGrows
  <2>3. Cardinality(UpTo(S, h)) \in 1..Cardinality(S)
    BY RankBounds
  <2> QED
    BY <2>2, <2>3
<1> QED
  BY <1>3

LEMMA Greatest ==
    ASSUME NEW S \in SUBSET Int, IsFiniteSet(S), S # {}
    PROVE  \E k \in S : \A h \in S : h <= k
<1>1. Cardinality(S) \in Nat /\ Cardinality(S) # 0
  BY FS_CardinalityType, FS_EmptySet
<1>2. PICK k \in S : Cardinality(UpTo(S, k)) = Cardinality(S)
  BY <1>1, RankTaken
<1>3. ASSUME NEW h \in S, ~(h <= k)
      PROVE  FALSE
  <2>1. k < h
    BY <1>3
  <2>2. Cardinality(S) < Cardinality(UpTo(S, h))
    BY <1>2, <2>1, RankGrows
  <2>3. Cardinality(UpTo(S, h)) \in 1..Cardinality(S)
    BY RankBounds
  <2> QED
    BY <1>1, <2>2, <2>3
<1> QED
  BY <1>3

\* A set and one that begins behind it.
LEMMA TwoParts ==
    ASSUME NEW S, IsFiniteSet(S), NEW T, IsFiniteSet(T), S \cap T = {}
    PROVE  /\ IsFiniteSet(S \cup T)
           /\ Cardinality(S \cup T) = Cardinality(S) + Cardinality(T)
           /\ Cardinality(S) \in Nat /\ Cardinality(T) \in Nat
<1>1. Cardinality(S) \in Nat /\ Cardinality(T) \in Nat /\ Cardinality({}) = 0
  BY FS_CardinalityType, FS_EmptySet
<1>2. IsFiniteSet(S \cup T) /\ Cardinality(S \cup T) = Cardinality(S) + Cardinality(T) - Cardinality(S \cap T)
  BY FS_Union
<1>3. Cardinality(S \cap T) = 0
  BY <1>1
<1>4. Cardinality(S \cup T) = Cardinality(S) + Cardinality(T)
  BY <1>1, <1>2, <1>3
<1> QED
  BY <1>1, <1>2, <1>4

-----------------------------------------------------------------------------
(* Backslashes and quotes, from one character to the next.                 *)

LEMMA Alternates ==
    ASSUME NEW c \in Nat
    PROVE  (c + 1) % 2 = 1 <=> c % 2 # 1
OBVIOUS

LEMMA FiniteUpTo ==
    ASSUME NEW k \in Nat, NEW S, S \subseteq 1..k
    PROVE  IsFiniteSet(S) /\ Cardinality(S) \in Nat /\ S \in SUBSET Int
<1>1. IsFiniteSet(1..k)
  BY FS_Interval
<1>2. IsFiniteSet(S)
  BY <1>1, FS_Subset
<1> QED
  BY <1>2, FS_CardinalityType

LEMMA EscapedFirst == ASSUME NEW t PROVE ~Escaped(t, 1) /\ ~Inside(t, 1)
<1>1. Backslashes(t, 1) = {} /\ Quotes(t, 1) = {}
  BY DEF Backslashes, Quotes
<1>2. Cardinality({}) = 0 /\ 0 % 2 = 0
  BY FS_EmptySet
<1> QED
  BY <1>1, <1>2 DEF Escaped, Inside

LEMMA EscapedNext ==
    ASSUME NEW t, NEW k \in Nat, k >= 1
    PROVE  Escaped(t, k + 1) <=> t[k] = "\\" /\ ~Escaped(t, k)
<1> DEFINE B == Backslashes(t, k)
<1>1. IsFiniteSet(B) /\ Cardinality(B) \in Nat /\ k \notin B
  <2>1. B \subseteq 1..k /\ k \notin B
    BY DEF Backslashes
  <2> QED
    BY <2>1, FiniteUpTo
<1>2. CASE t[k] = "\\"
  <2>1. Backslashes(t, k + 1) = B \cup {k}
    BY <1>2 DEF Backslashes
  <2>2. Cardinality(Backslashes(t, k + 1)) = Cardinality(B) + 1
    BY <1>1, <2>1, OneMore
  <2> HIDE DEF B
  <2>3. Escaped(t, k + 1) <=> Cardinality(B) % 2 # 1
    BY <1>1, <2>2, Alternates DEF Escaped
  <2> QED
    BY <1>2, <2>3 DEF Escaped, B
<1>3. CASE t[k] # "\\"
  <2>1. Backslashes(t, k + 1) = {}
    BY <1>3 DEF Backslashes
  <2>2. Cardinality({}) = 0 /\ 0 % 2 = 0
    BY FS_EmptySet
  <2> QED
    BY <1>3, <2>1, <2>2 DEF Escaped
<1> QED
  BY <1>2, <1>3

LEMMA InsideNext ==
    ASSUME NEW t, NEW k \in Nat, k >= 1
    PROVE  Inside(t, k + 1) <=> (Inside(t, k) <=> ~Flips(t, k))
<1> DEFINE Q == Quotes(t, k)
<1>1. IsFiniteSet(Q) /\ Cardinality(Q) \in Nat /\ k \notin Q
  <2>1. Q \subseteq 1..k /\ k \notin Q
    BY DEF Quotes
  <2> QED
    BY <2>1, FiniteUpTo
<1>2. CASE Flips(t, k)
  <2>1. Quotes(t, k + 1) = Q \cup {k}
    BY <1>2 DEF Quotes
  <2>2. Cardinality(Quotes(t, k + 1)) = Cardinality(Q) + 1
    BY <1>1, <2>1, OneMore
  <2> HIDE DEF Q
  <2>3. Inside(t, k + 1) <=> Cardinality(Q) % 2 # 1
    BY <1>1, <2>2, Alternates DEF Inside
  <2> QED
    BY <1>2, <2>3 DEF Inside, Q
<1>3. CASE ~Flips(t, k)
  <2>1. Quotes(t, k + 1) = Q
    BY <1>3 DEF Quotes
  <2> QED
    BY <1>3, <2>1 DEF Inside
<1> QED
  BY <1>2, <1>3

-----------------------------------------------------------------------------
(* What a line of the file leaves in the buffer, character by character.   *)

\* The turn at a character writes it, or the NUL behind a field, or nothing.
IsText(t, k) == ~IsSep(t, k) /\ ~IsMark(t, k)
EndsField(t, k) == IsSep(t, k) /\ k + 1 \in FieldStarts(t)
Writes(t, k) == IsText(t, k) \/ EndsField(t, k)
Put(t, k) == IF IsSep(t, k) THEN NUL ELSE t[k]
Written(t, m) == {k \in 1..m : Writes(t, k)}
Place(t, k) == Cardinality(Written(t, k - 1))

\* The first field is counted at its first letter, the others where the one
\* before ends.
IsLetter(c) == c \notin Blank \cup {NUL, "\n", "#", "\"", "\\"}
Ended(t, m) == {k \in 1..m : EndsField(t, k)}
HasLetter(t, m) == \E k \in 1..m : IsLetter(t[k]) /\ Ended(t, k - 1) = {}

IsStop(c) == c \in {"#", "\n"}
IsNewline(c) == c = "\n"
IsSlash(c) == c = "\\"
Passed(t, k) == ~IsNewline(t[k]) /\ (~Inside(t, k) => ~IsStop(t[k]) /\ ~IsSlash(t[k]))
Read(t, m) == \A k \in 1..m : Passed(t, k)
Stored(t) ==
    j = Cardinality(Written(t, i)) /\ \A k \in Written(t, i) : line[Place(t, k)] = Put(t, k)
Numbered(t) == n = Cardinality(Ended(t, i)) + IF HasLetter(t, i) THEN 1 ELSE 0

Scanned(t) ==
    /\ Read(t, i) /\ Stored(t) /\ Numbered(t)
    /\ quo <=> Inside(t, i + 1)
    /\ esc <=> Escaped(t, i + 1)
Finished(t) ==
    /\ Read(t, i) /\ Stored(t) /\ Numbered(t) /\ line[j] = NUL
    /\ ~Inside(t, i + 1) /\ (i = Len(t) \/ IsStop(t[i + 1]))
Readable(t) == ~EscapedBlank(t) /\ ~BlankAtEnd(t)
ParserOK ==
    /\ LineTypeOK
    /\ fpc = "scan" /\ Readable(conf[lineno]) => Scanned(conf[lineno])
    /\ fpc = "fetched" /\ Readable(conf[lineno]) =>
           \/ tmp = -1 /\ IsBroken(conf[lineno])
           \/ tmp = n /\ Finished(conf[lineno])

LEMMA WrittenCounts ==
    ASSUME NEW t, NEW m \in Nat
    PROVE  /\ IsFiniteSet(Written(t, m)) /\ Cardinality(Written(t, m)) \in Nat
           /\ IsFiniteSet(Ended(t, m)) /\ Cardinality(Ended(t, m)) \in Nat
           /\ Written(t, m) \in SUBSET Int /\ Ended(t, m) \in SUBSET Int
<1>1. Written(t, m) \subseteq 1..m /\ Ended(t, m) \subseteq 1..m
  BY DEF Written, Ended
<1> QED
  BY <1>1, FiniteUpTo

LEMMA WrittenNext ==
    ASSUME NEW t, NEW m \in Nat
    PROVE  /\ Written(t, m + 1) = IF Writes(t, m + 1) THEN Written(t, m) \cup {m + 1} ELSE Written(t, m)
           /\ Ended(t, m + 1) = IF EndsField(t, m + 1) THEN Ended(t, m) \cup {m + 1} ELSE Ended(t, m)
           /\ m + 1 \notin Written(t, m) /\ m + 1 \notin Ended(t, m)
<1>1. 1..(m + 1) = (1..m) \cup {m + 1} /\ m + 1 \notin 1..m
  OBVIOUS
<1> QED
  BY <1>1 DEF Written, Ended

LEMMA WrittenFirst == ASSUME NEW t PROVE Written(t, 0) = {} /\ Ended(t, 0) = {} /\ ~HasLetter(t, 0)
<1>1. 1..0 = {}
  OBVIOUS
<1> QED
  BY <1>1 DEF Written, Ended, HasLetter

LEMMA PlaceBelow ==
    ASSUME NEW t, NEW m \in Nat, NEW k \in Written(t, m)
    PROVE  Place(t, k) \in Nat /\ Place(t, k) < Cardinality(Written(t, m))
<1>1. k \in 1..m /\ k - 1 \in Nat
  BY DEF Written
<1>2. Written(t, k - 1) \subseteq Written(t, m) /\ k \notin Written(t, k - 1)
  BY <1>1 DEF Written
<1> QED
  BY <1>1, <1>2, WrittenCounts, SmallerSet DEF Place

\* What was written stays: the next character goes behind it.
LEMMA StoredNext ==
    ASSUME NEW t, i \in Nat, Stored(t), i' = i + 1,
           line \in [0..Size -> Char \cup {NUL}], j \in 0..Size,
           IF Writes(t, i + 1) THEN line' = [line EXCEPT ![j] = Put(t, i + 1)] /\ j' = j + 1
                               ELSE line' = line /\ j' = j
    PROVE  Stored(t)'
<1> DEFINE W == Written(t, i)
           k == i + 1
<1>1. j = Cardinality(W) /\ (\A h \in W : line[Place(t, h)] = Put(t, h) /\ Place(t, h) \in Nat /\ Place(t, h) < j)
  BY PlaceBelow DEF Stored
<1>2. Place(t, k) = j
  BY <1>1 DEF Place
<1>3. CASE Writes(t, k)
  <2>1. Written(t, k) = W \cup {k} /\ Cardinality(Written(t, k)) = Cardinality(W) + 1
    BY <1>3, WrittenNext, WrittenCounts, OneMore
  <2>2. line' = [line EXCEPT ![j] = Put(t, k)] /\ j' = j + 1
    BY <1>3
  <2>3. line'[j] = Put(t, k) /\ \A p \in Nat : p < j => line'[p] = line[p]
    BY <2>2
  <2> HIDE DEF W, k
  <2>4. \A h \in Written(t, k) : line'[Place(t, h)] = Put(t, h)
    BY <1>1, <1>2, <2>1, <2>3
  <2>5. i' = k
    BY DEF k
  <2>6. j' = Cardinality(Written(t, k))
    BY <1>1, <2>1, <2>2
  <2> QED
    BY <2>4, <2>5, <2>6 DEF Stored, Written, Place, Put
<1>4. CASE ~Writes(t, k)
  <2>1. Written(t, k) = W
    BY <1>4, WrittenNext
  <2>2. line' = line /\ j' = j
    BY <1>4
  <2>3. Written(t, i') = W
    BY <2>1
  <2> HIDE DEF W
  <2> QED
    BY <1>1, <2>2, <2>3 DEF Stored
<1> QED
  BY <1>3, <1>4

LEMMA NumberedNext ==
    ASSUME NEW t, i \in Nat, n \in Nat, Numbered(t), i' = i + 1,
           EndsField(t, i + 1) => ~IsLetter(t[i + 1]),
           n' = IF EndsField(t, i + 1) THEN n + 1 ELSE IF IsLetter(t[i + 1]) /\ n = 0 THEN 1 ELSE n
    PROVE  Numbered(t)'
<1> DEFINE k == i + 1
           E == Ended(t, i)
           c == Cardinality(E)
<1>1. c \in Nat /\ IsFiniteSet(E) /\ (c = 0 <=> E = {}) /\ k \notin E
  BY WrittenCounts, WrittenNext, FS_EmptySet
<1>2. n = c + IF HasLetter(t, i) THEN 1 ELSE 0
  BY DEF Numbered
<1>3. HasLetter(t, k) <=> HasLetter(t, i) \/ (IsLetter(t[k]) /\ E = {})
  <2>1. \A h : h \in 1..k <=> h \in 1..i \/ h = k
    OBVIOUS
  <2>2. k - 1 = i
    OBVIOUS
  <2> HIDE DEF k
  <2> QED
    BY <2>1, <2>2 DEF HasLetter
<1>4. CASE EndsField(t, k)
  <2>1. Ended(t, k) = E \cup {k}
    BY <1>4, WrittenNext
  <2>2. Cardinality(Ended(t, k)) = c + 1
    BY <1>1, <2>1, OneMore
  <2>3. HasLetter(t, k) <=> HasLetter(t, i)
    BY <1>3, <1>4
  <2>4. n' = n + 1 /\ i' = k
    BY <1>4
  <2> HIDE DEF c, k
  <2> QED
    BY <1>1, <1>2, <2>2, <2>3, <2>4 DEF Numbered
<1>5. CASE ~EndsField(t, k)
  <2>1. Ended(t, k) = E
    BY <1>5, WrittenNext
  <2>2. n' = (IF IsLetter(t[k]) /\ n = 0 THEN 1 ELSE n) /\ i' = k
    BY <1>5
  <2>3. Cardinality(Ended(t, k)) = c
    BY <2>1
  <2> HIDE DEF c, k
  <2>4. n' = c + IF HasLetter(t, k) THEN 1 ELSE 0
    BY <1>1, <1>2, <1>3, <2>2
  <2> QED
    BY <2>2, <2>3, <2>4 DEF Numbered
<1> QED
  BY <1>4, <1>5

\* What has been read escapes nothing outside of quotes.
LEMMA EscapedInside ==
    ASSUME NEW t, NEW m \in Nat, Read(t, m), Escaped(t, m + 1)
    PROVE  Inside(t, m + 1)
<1>1. m # 0
  BY EscapedFirst
<1>2. m \in 1..m /\ m >= 1
  BY <1>1
<1>3. t[m] = "\\" /\ Passed(t, m)
  BY <1>2, EscapedNext DEF Read
<1>4. Inside(t, m) /\ ~Flips(t, m)
  BY <1>3 DEF Passed, IsSlash, Flips
<1> QED
  BY <1>2, <1>4, InsideNext

\* The turn at a character, by what it does to the buffer and the flags.
Turn(t) ==
    /\ Passed(t, i + 1) /\ i' = i + 1
    /\ quo' <=> (quo <=> ~Flips(t, i + 1))
    /\ esc' <=> IsSlash(t[i + 1]) /\ ~esc
    /\ IF Writes(t, i + 1) THEN line' = [line EXCEPT ![j] = Put(t, i + 1)] /\ j' = j + 1
                           ELSE line' = line /\ j' = j
    /\ EndsField(t, i + 1) => ~IsLetter(t[i + 1])
    /\ n' = IF EndsField(t, i + 1) THEN n + 1 ELSE IF IsLetter(t[i + 1]) /\ n = 0 THEN 1 ELSE n

LEMMA TurnScanned ==
    ASSUME NEW t, LineTypeOK, Scanned(t), Turn(t)
    PROVE  Scanned(t)'
<1>1. i \in Nat /\ n \in Nat /\ j \in 0..Size /\ line \in [0..Size -> Char \cup {NUL}] /\ i + 1 \in Nat /\ i + 1 >= 1
  BY LineTypeParts DEF ControlOK, BufferOK, Size
<1>2. /\ Read(t, i) /\ Stored(t) /\ Numbered(t)
      /\ quo <=> Inside(t, i + 1)
      /\ esc <=> Escaped(t, i + 1)
  BY DEF Scanned
<1>3. /\ Passed(t, i + 1) /\ i' = i + 1
      /\ quo' <=> (quo <=> ~Flips(t, i + 1))
      /\ esc' <=> IsSlash(t[i + 1]) /\ ~esc
  BY DEF Turn
<1>4. Stored(t)'
  BY <1>1, <1>2, StoredNext DEF Turn
<1>5. Numbered(t)'
  BY <1>1, <1>2, NumberedNext DEF Turn
<1>6. Read(t, i + 1)
  <2>1. \A k \in 1..(i + 1) : k \in 1..i \/ k = i + 1
    BY <1>1
  <2> QED
    BY <1>2, <1>3, <2>1 DEF Read
<1>7. quo' <=> Inside(t, (i + 1) + 1)
  BY <1>1, <1>2, <1>3, InsideNext
<1>8. esc' <=> Escaped(t, (i + 1) + 1)
  BY <1>1, <1>2, <1>3, EscapedNext DEF IsSlash
<1>9. Read(t, i)' /\ (quo' <=> Inside(t, i + 1)') /\ (esc' <=> Escaped(t, i + 1)')
  <2>1. i' = i + 1
    BY <1>3
  <2>2. Read(t, i')
    BY <1>6, <2>1
  <2>3. quo' <=> Inside(t, i' + 1)
    BY <1>7, <2>1
  <2>4. esc' <=> Escaped(t, i' + 1)
    BY <1>8, <2>1
  <2> QED
    BY <2>2, <2>3, <2>4 DEF Read, Passed, Inside, Quotes, Flips, Escaped, Backslashes
<1> QED
  BY <1>4, <1>5, <1>9 DEF Scanned

\* While the parser scans, the character it reads is that of the line.
LEMMA AtCharacter ==
    ASSUME LineTypeOK, fpc = "scan", NEW t, t = conf[lineno]
    PROVE  /\ t \in Seq(Char) /\ Size = Len(t) /\ Len(t) \in Nat /\ i \in 0..Len(t)
           /\ n \in Nat /\ j \in 0..Len(t) /\ esc \in BOOLEAN /\ quo \in BOOLEAN
           /\ line[i] = NUL => i = Len(t)
           /\ line[i] # NUL => i < Len(t) /\ line[i] = t[i + 1] /\ i + 1 \in 1..Len(t)
           /\ i + 1 < Len(t) => line[i + 1] = t[i + 2]
           /\ i + 1 = Len(t) => line[i + 1] = NUL
           /\ \A k \in 1..Len(t) : t[k] # NUL /\ (t[k] = "\n" => k = Len(t))
<1>1. ControlOK /\ BufferOK /\ lineno > 0
  BY LineTypeParts DEF ControlOK
<1>2. /\ t \in Seq(Char) /\ Size = Len(t) /\ Len(t) \in Nat /\ \A k \in 1..Len(t) : t[k] \in Char
  BY <1>1, LineFacts
<1>3. \A k \in 1..Len(t) : t[k] # NUL
  BY <1>2, CharAssumption
<1>4. \A k \in 1..Len(t) : t[k] = "\n" => k = Len(t)
  <2>1. lineno \in 1..Len(conf) /\ conf \in Seq(Lines)
    BY <1>1 DEF ControlOK
  <2>2. t \in Lines
    BY <2>1
  <2> QED
    BY <2>2 DEF Lines
<1>5. i \in 0..Len(t) /\ j \in 0..i /\ line[Len(t)] = NUL /\ \A k \in i..(Len(t) - 1) : line[k] = t[k + 1]
  BY <1>1, <1>2 DEF BufferOK, Ahead
<1>6. i < Len(t) => i \in i..(Len(t) - 1) /\ i + 1 \in 1..Len(t) /\ line[i] = t[i + 1]
  BY <1>2, <1>5
<1>7. line[i] = NUL => i = Len(t)
  BY <1>3, <1>5, <1>6
<1>8. line[i] # NUL => i < Len(t)
  BY <1>2, <1>5
<1>9. i + 1 < Len(t) => line[i + 1] = t[i + 2]
  <2>1. i + 1 < Len(t) => i + 1 \in i..(Len(t) - 1) /\ (i + 1) + 1 = i + 2
    BY <1>2, <1>5
  <2> QED
    BY <1>5, <2>1
<1>10. n \in Nat /\ esc \in BOOLEAN /\ quo \in BOOLEAN /\ j \in 0..Len(t)
  BY <1>1, <1>2, <1>5 DEF ControlOK
<1> QED
  BY <1>2, <1>3, <1>4, <1>5, <1>6, <1>7, <1>8, <1>9, <1>10

IsBlank(c) == c \in Blank
IsQuote(c) == c = "\""

\* No character is two things.
LEMMA Kinds ==
    ASSUME NEW c
    PROVE  /\ IsBlank(c) => ~IsQuote(c) /\ ~IsSlash(c) /\ ~IsStop(c) /\ ~IsLetter(c) /\ ~IsNewline(c) /\ c # NUL
           /\ IsQuote(c) => ~IsSlash(c) /\ ~IsStop(c) /\ ~IsLetter(c) /\ ~IsNewline(c) /\ c # NUL
           /\ IsSlash(c) => ~IsStop(c) /\ ~IsLetter(c) /\ ~IsNewline(c) /\ c # NUL
           /\ IsLetter(c) => ~IsStop(c) /\ ~IsNewline(c) /\ c # NUL
           /\ IsNewline(c) => IsStop(c) /\ c # NUL
           /\ IsStop(c) => c # NUL
BY DEF IsBlank, IsQuote, IsSlash, IsStop, IsLetter, IsNewline, Blank, NUL

LEMMA MeaningOfKinds ==
    ASSUME NEW t, NEW k
    PROVE  /\ Flips(t, k) <=> IsQuote(t[k]) /\ ~Escaped(t, k)
           /\ IsSep(t, k) <=> ~Inside(t, k) /\ IsBlank(t[k])
           /\ IsMark(t, k) <=> (IsQuote(t[k]) \/ IsSlash(t[k])) /\ ~Escaped(t, k)
BY DEF Flips, IsSep, IsMark, IsQuote, IsBlank, IsSlash

LEMMA OrdinaryTurns ==
    ASSUME LineTypeOK, NEW t, t = conf[lineno], Scanned(t), Ordinary
    PROVE  Turn(t)
<1> DEFINE k == i + 1
           c == t[k]
<1>1. fpc = "scan" /\ Copy /\ quo' = quo /\ esc' = FALSE /\ n' = IF n = 0 THEN 1 ELSE n
  BY DEF Ordinary, Loops, Goes
<1>2. IsLetter(line[i])
  BY DEF Ordinary, IsLetter
<1>3. IsLetter(c) /\ line[i] = c
  BY <1>1, <1>2, AtCharacter, Kinds
<1>4. ~IsBlank(c) /\ ~IsQuote(c) /\ ~IsSlash(c) /\ ~IsStop(c) /\ ~IsNewline(c)
  BY <1>3, Kinds
<1>5. ~IsSep(t, k) /\ ~IsMark(t, k) /\ ~Flips(t, k)
  BY <1>4, MeaningOfKinds
<1>6. Writes(t, k) /\ Put(t, k) = c /\ ~EndsField(t, k)
  BY <1>5 DEF Writes, IsText, EndsField, Put
<1>7. Passed(t, k)
  BY <1>4 DEF Passed
<1> QED
  BY <1>1, <1>3, <1>4, <1>5, <1>6, <1>7 DEF Turn, Copy

\* How the flags of the parser tell what a character means.
LEMMA FlagsTell ==
    ASSUME LineTypeOK, NEW t, Scanned(t), fpc = "scan"
    PROVE  /\ quo <=> Inside(t, i + 1)
           /\ esc <=> Escaped(t, i + 1)
           /\ esc => quo
           /\ i \in Nat /\ i + 1 \in Nat
<1>1. i \in Nat /\ i + 1 \in Nat
  BY LineTypeParts DEF BufferOK, Size, ControlOK
<1>2. Read(t, i) /\ (quo <=> Inside(t, i + 1)) /\ (esc <=> Escaped(t, i + 1))
  BY DEF Scanned
<1> QED
  BY <1>1, <1>2, EscapedInside

LEMMA BackslashTurns ==
    ASSUME LineTypeOK, NEW t, t = conf[lineno], Scanned(t), Backslash
    PROVE  Turn(t)
<1> DEFINE k == i + 1
           c == t[k]
<1>1. fpc = "scan" /\ quo /\ (IF esc THEN Copy ELSE Skip) /\ quo' = quo /\ (esc' <=> ~esc) /\ n' = n
  BY DEF Backslash, Loops, Goes
<1>2. IsSlash(line[i])
  BY DEF Backslash, IsSlash
<1>3. IsSlash(c) /\ line[i] = c
  BY <1>1, <1>2, AtCharacter, Kinds
<1>4. ~IsBlank(c) /\ ~IsQuote(c) /\ ~IsLetter(c) /\ ~IsNewline(c)
  BY <1>3, Kinds
<1>5. Inside(t, k) /\ (esc <=> Escaped(t, k))
  BY <1>1, FlagsTell
<1>6. ~IsSep(t, k) /\ (IsMark(t, k) <=> ~esc) /\ ~Flips(t, k)
  BY <1>3, <1>4, <1>5, MeaningOfKinds
<1>7. (Writes(t, k) <=> esc) /\ Put(t, k) = c /\ ~EndsField(t, k)
  BY <1>6 DEF Writes, IsText, EndsField, Put
<1>8. Passed(t, k)
  BY <1>4, <1>5 DEF Passed
<1> QED
  BY <1>1, <1>3, <1>4, <1>6, <1>7, <1>8 DEF Turn, Copy, Skip

LEMMA QuoteTurns ==
    ASSUME LineTypeOK, NEW t, t = conf[lineno], Scanned(t), Quote
    PROVE  Turn(t)
<1> DEFINE k == i + 1
           c == t[k]
<1>1. /\ fpc = "scan" /\ n' = n
      /\ \/ quo /\ esc /\ esc' = FALSE /\ Copy /\ quo' = quo
         \/ ~(quo /\ esc) /\ quo' = ~quo /\ Skip /\ esc' = esc
  BY DEF Quote, Loops, Goes
<1>2. IsQuote(line[i])
  BY DEF Quote, IsQuote
<1>3. IsQuote(c) /\ line[i] = c
  BY <1>1, <1>2, AtCharacter, Kinds
<1>4. ~IsBlank(c) /\ ~IsSlash(c) /\ ~IsLetter(c) /\ ~IsNewline(c) /\ ~IsStop(c)
  BY <1>3, Kinds
<1>5. (esc <=> Escaped(t, k)) /\ (esc => quo) /\ esc \in BOOLEAN /\ quo \in BOOLEAN
  BY <1>1, FlagsTell, AtCharacter
<1>6. ~IsSep(t, k) /\ (IsMark(t, k) <=> ~esc) /\ (Flips(t, k) <=> ~esc)
  BY <1>3, <1>4, <1>5, MeaningOfKinds
<1>7. (Writes(t, k) <=> esc) /\ Put(t, k) = c /\ ~EndsField(t, k)
  BY <1>6 DEF Writes, IsText, EndsField, Put
<1>8. Passed(t, k)
  BY <1>4 DEF Passed
<1>9. CASE esc
  <2>1. quo /\ esc' = FALSE /\ Copy /\ quo' = quo
    BY <1>1, <1>5, <1>9
  <2> QED
    BY <1>1, <1>3, <1>4, <1>6, <1>7, <1>8, <1>9, <2>1 DEF Turn, Copy
<1>10. CASE ~esc
  <2>1. quo' = ~quo /\ Skip /\ esc' = esc
    BY <1>1, <1>10
  <2> QED
    BY <1>1, <1>3, <1>4, <1>6, <1>7, <1>8, <1>10, <2>1 DEF Turn, Skip
<1> QED
  BY <1>9, <1>10

LEMMA QuotedTextTurns ==
    ASSUME LineTypeOK, NEW t, t = conf[lineno], Scanned(t), ~EscapedBlank(t), QuotedText
    PROVE  Turn(t)
<1> DEFINE k == i + 1
           c == t[k]
<1>1. fpc = "scan" /\ quo /\ Copy /\ quo' = quo /\ esc' = esc /\ n' = n
  BY DEF QuotedText, Loops, Goes
<1>2. line[i] \in Blank \cup {"#"} /\ line[i] # NUL /\ (IsBlank(line[i]) \/ (IsStop(line[i]) /\ ~IsNewline(line[i])))
  BY DEF QuotedText, IsBlank, IsStop, IsNewline, Blank, NUL
<1>3. k \in 1..Len(t) /\ line[i] = c
  BY <1>1, <1>2, AtCharacter
<1>4. ~IsQuote(c) /\ ~IsSlash(c) /\ ~IsLetter(c) /\ ~IsNewline(c)
  BY <1>2, <1>3, Kinds
<1>5. Inside(t, k) /\ (esc <=> Escaped(t, k))
  BY <1>1, FlagsTell
<1>6. ~esc
  BY <1>2, <1>3, <1>5 DEF EscapedBlank
<1>7. ~IsSep(t, k) /\ ~IsMark(t, k) /\ ~Flips(t, k)
  BY <1>4, <1>5, MeaningOfKinds
<1>8. Writes(t, k) /\ Put(t, k) = c /\ ~EndsField(t, k)
  BY <1>7 DEF Writes, IsText, EndsField, Put
<1>9. Passed(t, k)
  BY <1>4, <1>5 DEF Passed
<1> QED
  BY <1>1, <1>3, <1>4, <1>6, <1>7, <1>8, <1>9 DEF Turn, Copy

\* Whatever was read belongs to the body of the line.
LEMMA ReadIsBody ==
    ASSUME NEW t, Len(t) \in Nat, NEW m \in 0..Len(t), Read(t, m)
    PROVE  /\ 1..m \subseteq Body(t)
           /\ m + 1 \in Body(t) <=> m + 1 <= Len(t) /\ (Inside(t, m + 1) \/ ~IsStop(t[m + 1]))
           /\ \A k \in Body(t) : k <= m \/ m + 1 \in Body(t)
<1>1. \A k \in 1..m : ~Inside(t, k) => t[k] \notin {"#", "\n"}
  BY DEF Read, Passed, IsStop
<1>2. 1..m \subseteq Body(t)
  <2>1. ASSUME NEW k \in 1..m PROVE k \in 1..Len(t) /\ \A h \in 1..k : h \in 1..m
    OBVIOUS
  <2> QED
    BY <1>1, <2>1 DEF Body
<1>3. m + 1 \in Body(t) <=> m + 1 \in 1..Len(t) /\ (~Inside(t, m + 1) => t[m + 1] \notin {"#", "\n"})
  <2>1. \A h \in 1..(m + 1) : h \in 1..m \/ h = m + 1
    OBVIOUS
  <2>2. m + 1 \in 1..(m + 1)
    OBVIOUS
  <2> QED
    BY <1>1, <2>1, <2>2 DEF Body
<1>4. ASSUME NEW k \in Body(t), ~(k <= m)
      PROVE  m + 1 \in Body(t)
  <2>1. k \in 1..Len(t) /\ \A h \in 1..k : ~Inside(t, h) => t[h] \notin {"#", "\n"}
    BY DEF Body
  <2>2. m + 1 \in 1..k /\ m + 1 \in 1..Len(t)
    BY <1>4, <2>1
  <2> QED
    BY <1>3, <2>1, <2>2
<1> QED
  BY <1>2, <1>3, <1>4 DEF IsStop

LEMMA SeparatorTurns ==
    ASSUME LineTypeOK, NEW t, t = conf[lineno], Scanned(t), ~BlankAtEnd(t), Separator
    PROVE  Turn(t)
<1> DEFINE k == i + 1
           c == t[k]
           more == line[i + 1] \notin Blank \cup {"\n", "#"}
<1>1. /\ fpc = "scan" /\ ~quo /\ i' = i + 1 /\ quo' = quo /\ esc' = esc
      /\ IF ~more THEN UNCHANGED <<n, line, j>>
         ELSE n' = n + 1 /\ line' = [line EXCEPT ![j] = NUL] /\ j' = j + 1
  BY DEF Separator, Loops, Goes
<1>2. IsBlank(line[i])
  BY DEF Separator, IsBlank
<1>3. IsBlank(c) /\ line[i] = c /\ k \in 1..Len(t) /\ Len(t) \in Nat /\ i \in 0..Len(t)
  BY <1>1, <1>2, AtCharacter, Kinds
<1>4. ~IsQuote(c) /\ ~IsSlash(c) /\ ~IsLetter(c) /\ ~IsNewline(c) /\ ~IsStop(c)
  BY <1>3, Kinds
<1>5. ~Inside(t, k) /\ (esc <=> Escaped(t, k)) /\ ~esc /\ k \in Nat /\ k >= 1
  BY <1>1, <1>3, FlagsTell
<1>6. IsSep(t, k) /\ ~Flips(t, k)
  BY <1>3, <1>4, <1>5, MeaningOfKinds
<1>7. ~Inside(t, k + 1)
  BY <1>5, <1>6, InsideNext
<1>8. Passed(t, k) /\ Read(t, i)
  BY <1>4 DEF Passed, Scanned
<1>9. Read(t, k)
  <2>1. \A h \in 1..k : h \in 1..i \/ h = k
    BY <1>3
  <2> QED
    BY <1>8, <2>1 DEF Read
<1>10. k < Len(t)
  <2>1. k # Len(t)
    <3>1. SUFFICES ASSUME k = Len(t) PROVE FALSE
      OBVIOUS
    <3>2. Len(t) \in Body(t)
      BY <1>3, <1>9, <3>1, ReadIsBody
    <3>3. IsSep(t, Len(t)) /\ Len(t) > 0
      BY <1>3, <1>6, <3>1
    <3> QED
      BY <3>2, <3>3 DEF BlankAtEnd
  <2> QED
    BY <1>3, <2>1
<1>11. line[i + 1] = t[k + 1]
  <2>1. i + 1 < Len(t) /\ k + 1 = i + 2
    BY <1>3, <1>10
  <2>2. line[i + 1] = t[i + 2]
    BY <1>1, <2>1, AtCharacter
  <2> QED
    BY <2>1, <2>2
<1>12. more <=> ~IsBlank(t[k + 1]) /\ ~IsStop(t[k + 1])
  BY <1>11 DEF IsBlank, IsStop
<1>13. k + 1 \in Body(t) <=> ~IsStop(t[k + 1])
  BY <1>3, <1>7, <1>9, <1>10, ReadIsBody
<1>14. IsSep(t, k + 1) <=> IsBlank(t[k + 1])
  BY <1>7, MeaningOfKinds
<1>15. k + 1 \in FieldStarts(t) <=> more
  <2>1. (k + 1) - 1 = k
    BY <1>5
  <2> HIDE DEF k, more
  <2> QED
    BY <1>6, <1>12, <1>13, <1>14, <2>1 DEF FieldStarts
<1>16. (Writes(t, k) <=> more) /\ Put(t, k) = NUL /\ (EndsField(t, k) <=> more)
  BY <1>6, <1>15 DEF Writes, IsText, EndsField, Put
<1> HIDE DEF more
<1> QED
  BY <1>1, <1>4, <1>5, <1>6, <1>8, <1>16 DEF Turn

LEMMA BodyStops ==
    ASSUME NEW t, Len(t) \in Nat, NEW m \in 0..Len(t), Read(t, m), m + 1 \notin Body(t)
    PROVE  Body(t) = 1..m /\ Cardinality(Body(t)) = m
<1>1. 1..m \subseteq Body(t) /\ \A k \in Body(t) : k <= m
  BY ReadIsBody
<1>2. Body(t) \subseteq 1..Len(t)
  BY DEF Body
<1>3. Body(t) = 1..m
  <2>1. \A k \in Body(t) : k \in 1..m
    BY <1>1, <1>2
  <2> QED
    BY <1>1, <2>1
<1>4. Cardinality(1..m) = m
  <2>1. 1 \in Int /\ m \in Int /\ (IF 1 > m THEN 0 ELSE m - 1 + 1) = m
    OBVIOUS
  <2> QED
    BY <2>1, FS_Interval
<1> QED
  BY <1>3, <1>4

\* The parser reports a line in which quotes are left open ...
LEMMA OpenQuotesBreak ==
    ASSUME LineTypeOK, NEW t, t = conf[lineno], Scanned(t), FetchEnds, quo
    PROVE  IsBroken(t)
<1>1. fpc = "scan" /\ (line[i] = NUL \/ IsNewline(line[i]))
  BY DEF FetchEnds, Goes, IsNewline
<1>2. Len(t) \in Nat /\ i \in 0..Len(t) /\ Inside(t, i + 1) /\ Read(t, i) /\ Body(t) \subseteq 1..Len(t)
  BY <1>1, AtCharacter, FlagsTell DEF Scanned, Body
<1>3. CASE line[i] = NUL
  <2>1. i = Len(t)
    BY <1>1, <1>3, AtCharacter
  <2>2. i + 1 \notin Body(t)
    BY <1>2, <2>1
  <2>3. Cardinality(Body(t)) = i
    BY <1>2, <2>2, BodyStops
  <2> QED
    BY <1>2, <2>3 DEF IsBroken
<1>4. CASE IsNewline(line[i])
  <2>1. line[i] # NUL
    BY <1>4, Kinds
  <2>2. line[i] = t[i + 1] /\ i + 1 \in 1..Len(t)
    BY <1>1, <2>1, AtCharacter
  <2>3. IsNewline(t[i + 1]) /\ i + 1 = Len(t)
    BY <1>1, <1>4, <2>2, AtCharacter DEF IsNewline
  <2>4. i + 1 \in Nat /\ i + 1 >= 1 /\ ~Flips(t, i + 1)
    BY <1>2, <2>3, Kinds, MeaningOfKinds
  <2>5. Inside(t, (i + 1) + 1)
    BY <1>2, <2>4, InsideNext
  <2>6. i + 1 \in Body(t) /\ 1..i \subseteq Body(t)
    BY <1>2, <2>2, ReadIsBody
  <2>7. Body(t) = 1..(i + 1)
    <3>1. \A k \in 1..(i + 1) : k \in 1..i \/ k = i + 1
      BY <1>2
    <3>2. \A k \in Body(t) : k \in 1..(i + 1)
      BY <1>2, <2>3
    <3> QED
      BY <2>6, <3>1, <3>2
  <2>8. Cardinality(1..(i + 1)) = i + 1
    <3>1. 1 \in Int /\ i + 1 \in Int /\ (IF 1 > i + 1 THEN 0 ELSE (i + 1) - 1 + 1) = i + 1
      BY <2>4
    <3> QED
      BY <3>1, FS_Interval
  <2> QED
    BY <2>5, <2>7, <2>8 DEF IsBroken
<1> QED
  BY <1>1, <1>3, <1>4

\* ... or in which there is a backslash outside of them.
LEMMA BackslashBreaks ==
    ASSUME LineTypeOK, NEW t, t = conf[lineno], Scanned(t), StrayBackslash
    PROVE  IsBroken(t)
<1>1. fpc = "scan" /\ ~quo /\ IsSlash(line[i])
  BY DEF StrayBackslash, Goes, IsSlash
<1>2. i + 1 \in 1..Len(t) /\ IsSlash(t[i + 1])
  <2>1. line[i] # NUL
    BY <1>1, Kinds
  <2>2. i + 1 \in 1..Len(t) /\ line[i] = t[i + 1]
    BY <1>1, <2>1, AtCharacter
  <2> QED
    BY <1>1, <2>2
<1>3. ~Inside(t, i + 1) /\ Read(t, i) /\ i \in 0..Len(t) /\ Len(t) \in Nat
  BY <1>1, FlagsTell, AtCharacter DEF Scanned
<1>4. ~IsStop(t[i + 1])
  BY <1>2, Kinds
<1>5. i + 1 \in Body(t)
  BY <1>2, <1>3, <1>4, ReadIsBody
<1> QED
  BY <1>2, <1>3, <1>5 DEF IsBroken, IsSlash

LEMMA EndsFinished ==
    ASSUME LineTypeOK, NEW t, t = conf[lineno], Scanned(t), FetchEnds, ~quo
    PROVE  tmp' = n' /\ Finished(t)'
<1>1. /\ fpc = "scan" /\ (line[i] = NUL \/ IsStop(line[i]))
      /\ tmp' = n /\ line' = [line EXCEPT ![j] = NUL] /\ i' = i /\ j' = j /\ n' = n
  BY DEF FetchEnds, Goes, Return, IsStop
<1>2. /\ Len(t) \in Nat /\ i \in 0..Len(t) /\ j \in 0..Len(t) /\ i \in Nat
      /\ line \in [0..Len(t) -> Char \cup {NUL}] /\ Size = Len(t)
  BY <1>1, AtCharacter, LineTypeParts DEF BufferOK
<1>3. ~Inside(t, i + 1) /\ Read(t, i) /\ Stored(t) /\ Numbered(t)
  BY <1>1, FlagsTell DEF Scanned
<1>4. i = Len(t) \/ IsStop(t[i + 1])
  BY <1>1, AtCharacter
<1>5. line'[j] = NUL /\ \A p \in Nat : p < j => line'[p] = line[p]
  BY <1>1, <1>2
<1>6. j = Cardinality(Written(t, i)) /\ \A k \in Written(t, i) : line'[Place(t, k)] = Put(t, k)
  BY <1>2, <1>3, <1>5, PlaceBelow DEF Stored
<1>7. Stored(t)'
  BY <1>1, <1>6 DEF Stored, Written, Place, Put
<1>8. Read(t, i') /\ ~Inside(t, i' + 1) /\ (i' = Len(t) \/ IsStop(t[i' + 1])) /\ line'[j'] = NUL
  BY <1>1, <1>3, <1>4, <1>5
<1>9. Numbered(t)'
  BY <1>1, <1>3 DEF Numbered
<1> QED
  BY <1>1, <1>7, <1>8, <1>9 DEF Finished

LEMMA TurnKeeps ==
    ASSUME ParserOK, LineTypeOK', Loops, NEW t, t = conf[lineno], Readable(t), Turn(t)
    PROVE  ParserOK'
<1>1. fpc = "scan" /\ fpc' = "scan" /\ t = conf'[lineno']
  BY DEF Loops, Goes
<1>2. LineTypeOK /\ Scanned(t)
  BY <1>1 DEF ParserOK
<1>3. Scanned(t)'
  BY <1>2, TurnScanned
<1> QED
  BY <1>1, <1>3 DEF ParserOK

LEMMA ParserNext == ParserOK /\ [FetchNext]_fetchVars => ParserOK'
<1> SUFFICES ASSUME ParserOK, [FetchNext]_fetchVars PROVE ParserOK'
  OBVIOUS
<1>0. LineTypeOK /\ LineTypeOK'
  BY FetchNextTyped DEF ParserOK
<1>1. CASE ReadLine
  <2> PICK t : t = conf'[lineno']
    OBVIOUS
  <2>1. i' = 0 /\ j' = 0 /\ n' = 0 /\ esc' = FALSE /\ quo' = FALSE /\ fpc' = "scan"
    BY <1>1 DEF ReadLine
  <2>2. Written(t, 0) = {} /\ Ended(t, 0) = {} /\ ~HasLetter(t, 0) /\ Cardinality({}) = 0
    BY WrittenFirst, FS_EmptySet
  <2>3. Stored(t)'
    <3>1. j' = Cardinality(Written(t, i')) /\ Written(t, i') = {}
      BY <2>1, <2>2
    <3> QED
      BY <3>1 DEF Stored, Written
  <2>4. Numbered(t)'
    <3>1. n' = Cardinality(Ended(t, i')) + IF HasLetter(t, i') THEN 1 ELSE 0
      BY <2>1, <2>2
    <3> QED
      BY <3>1 DEF Numbered
  <2>5. Read(t, i') /\ ~Inside(t, i' + 1) /\ ~Escaped(t, i' + 1)
    <3>1. 1..0 = {} /\ 0 + 1 = 1
      OBVIOUS
    <3> QED
      BY <2>1, <3>1, EscapedFirst DEF Read
  <2>6. Scanned(t)'
    BY <2>1, <2>3, <2>4, <2>5 DEF Scanned
  <2> QED
    BY <1>0, <2>1, <2>6 DEF ParserOK
<1>2. CASE EndOfFile \/ MakeRule \/ IgnoreLine \/ ConfigAbort
  BY <1>0, <1>2 DEF EndOfFile, MakeRule, IgnoreLine, ConfigAbort, ParserOK
<1>3. CASE FetchEnds \/ StrayBackslash
  <2> PICK t : t = conf[lineno]
    OBVIOUS
  <2>1. fpc = "scan" /\ fpc' = "fetched" /\ t = conf'[lineno']
    BY <1>3 DEF FetchEnds, StrayBackslash, Goes, Return
  <2>2. ASSUME Readable(t)
        PROVE  (tmp' = -1 /\ IsBroken(t)) \/ (tmp' = n' /\ Finished(t)')
    <3>1. Scanned(t)
      BY <2>1, <2>2 DEF ParserOK
    <3>2. CASE FetchEnds /\ ~quo
      BY <1>0, <3>1, <3>2, EndsFinished
    <3>3. CASE FetchEnds /\ quo
      <4>1. tmp' = -1
        BY <3>3 DEF FetchEnds, Return
      <4> QED
        BY <1>0, <3>1, <3>3, <4>1, OpenQuotesBreak
    <3>4. CASE StrayBackslash
      <4>1. tmp' = -1
        BY <3>4 DEF StrayBackslash, Return
      <4> QED
        BY <1>0, <3>1, <3>4, <4>1, BackslashBreaks
    <3> QED
      BY <1>3, <3>2, <3>3, <3>4
  <2> QED
    BY <1>0, <2>1, <2>2 DEF ParserOK
<1>4. CASE Separator \/ QuotedText \/ Quote \/ Backslash \/ Ordinary
  <2> PICK t : t = conf[lineno]
    OBVIOUS
  <2>1. Loops /\ fpc = "scan" /\ fpc' = "scan" /\ t = conf'[lineno']
    BY <1>4 DEF Separator, QuotedText, Quote, Backslash, Ordinary, Loops, Goes
  <2>2. CASE ~Readable(t)
    BY <1>0, <2>1, <2>2 DEF ParserOK
  <2>3. CASE Readable(t)
    <3>1. Scanned(t) /\ ~EscapedBlank(t) /\ ~BlankAtEnd(t)
      BY <2>1, <2>3 DEF ParserOK, Readable
    <3>2. Turn(t)
      BY <1>0, <1>4, <3>1, SeparatorTurns, QuotedTextTurns, QuoteTurns, BackslashTurns, OrdinaryTurns
    <3> QED
      BY <1>0, <2>1, <2>3, <3>2, TurnKeeps
  <2> QED
    BY <2>2, <2>3
<1>5. CASE UNCHANGED fetchVars
  BY <1>0, <1>5 DEF fetchVars, ParserOK, Scanned, Finished, Stored, Numbered
<1> QED
  BY <1>1, <1>2, <1>3, <1>4, <1>5 DEF FetchNext

-----------------------------------------------------------------------------
(* What the buffer holds once the line is split.                           *)

Done(t) ==
    LineTypeOK /\ fpc = "fetched" /\ t = conf[lineno] /\ Readable(t) /\ Finished(t)

LEMMA DoneLine ==
    ASSUME NEW t, Done(t)
    PROVE  /\ t \in Seq(Char) /\ Len(t) \in Nat /\ i \in 0..Len(t) /\ j \in 0..i /\ i \in Nat
           /\ line \in [0..Len(t) -> Char \cup {NUL}] /\ line[j] = NUL
           /\ \A k \in 1..i : t[k] # NUL /\ ~IsNewline(t[k])
           /\ Body(t) = 1..i /\ ~IsBroken(t)
<1>1. ControlOK /\ BufferOK /\ lineno > 0 /\ t = conf[lineno] /\ Finished(t)
  BY LineTypeParts DEF Done, ControlOK
<1>2. t \in Seq(Char) /\ Size = Len(t) /\ Len(t) \in Nat /\ \A k \in 1..Len(t) : t[k] \in Char
  BY <1>1, LineFacts
<1>3. i \in 0..Len(t) /\ j \in 0..i /\ line \in [0..Len(t) -> Char \cup {NUL}] /\ line[j] = NUL
  BY <1>1, <1>2 DEF BufferOK, Finished
<1>4. Read(t, i) /\ ~Inside(t, i + 1) /\ (i = Len(t) \/ IsStop(t[i + 1]))
  BY <1>1 DEF Finished
<1>5. i + 1 \notin Body(t)
  <2>1. Body(t) \subseteq 1..Len(t)
    BY DEF Body
  <2>2. CASE i = Len(t)
    BY <1>2, <2>1, <2>2
  <2>3. CASE IsStop(t[i + 1])
    BY <1>2, <1>3, <1>4, <2>3, ReadIsBody
  <2> QED
    BY <1>4, <2>2, <2>3
<1>6. Body(t) = 1..i /\ Cardinality(Body(t)) = i
  BY <1>2, <1>3, <1>4, <1>5, BodyStops
<1>7. \A k \in 1..i : ~IsNewline(t[k]) /\ (~Inside(t, k) => ~IsSlash(t[k]))
  BY <1>4 DEF Read, Passed
<1>8. ~IsBroken(t)
  BY <1>4, <1>6, <1>7 DEF IsBroken, IsSlash
<1>9. \A k \in 1..i : t[k] # NUL
  BY <1>2, <1>3, CharAssumption
<1> QED
  BY <1>2, <1>3, <1>6, <1>7, <1>8, <1>9

LEMMA DoneStored ==
    ASSUME NEW t, Done(t)
    PROVE  /\ j = Cardinality(Written(t, i)) /\ Written(t, i) \subseteq 1..i
           /\ \A k \in Written(t, i) :
                 Place(t, k) \in Nat /\ Place(t, k) < j /\ line[Place(t, k)] = Put(t, k)
<1>1. Stored(t) /\ i \in Nat
  BY DoneLine DEF Done, Finished
<1>2. j = Cardinality(Written(t, i)) /\ \A k \in Written(t, i) : line[Place(t, k)] = Put(t, k)
  BY <1>1 DEF Stored
<1>3. \A k \in Written(t, i) : Place(t, k) \in Nat /\ Place(t, k) < j
  BY <1>1, <1>2, PlaceBelow
<1>4. Written(t, i) \subseteq 1..i
  BY DEF Written
<1> QED
  BY <1>2, <1>3, <1>4

\* The text of a field is written as it stands, behind what came before.
LEMMA FieldWritten ==
    ASSUME NEW t, Done(t), NEW s \in 1..(i + 1)
    PROVE  /\ FieldText(t, s) \subseteq 1..i /\ FieldText(t, s) \subseteq Written(t, i)
           /\ Written(t, s - 1) \subseteq Written(t, i) /\ Written(t, s - 1) \cap FieldText(t, s) = {}
           /\ \A k \in FieldText(t, s) : k >= s /\ Put(t, k) = t[k] /\ t[k] # NUL
           /\ \A k \in FieldText(t, s) :
                 Written(t, k) = Written(t, s - 1) \cup UpTo(FieldText(t, s), k)
<1> DEFINE ks == FieldText(t, s)
<1>1. i \in Nat /\ Body(t) = 1..i /\ s \in Int /\ \A k \in 1..i : t[k] # NUL
  BY DoneLine
<1>2. ks = {k \in 1..i : k >= s /\ ~IsMark(t, k) /\ \A m \in s..k : ~IsSep(t, m)}
  BY <1>1 DEF FieldText
<1>3. \A k \in ks : k \in 1..i /\ k >= s /\ k \in s..k /\ ~IsMark(t, k) /\ \A m \in s..k : ~IsSep(t, m)
  BY <1>1, <1>2
<1>4. \A k \in ks : IsText(t, k) /\ Put(t, k) = t[k]
  BY <1>3 DEF IsText, Put
<1>5. ks \subseteq Written(t, i)
  BY <1>3, <1>4 DEF Written, Writes
<1>6. Written(t, s - 1) \subseteq Written(t, i) /\ \A h \in Written(t, s - 1) : h < s
  <2>1. \A h \in 1..(s - 1) : h \in 1..i /\ h < s
    BY <1>1
  <2> QED
    BY <2>1 DEF Written
<1>7. ASSUME NEW k \in ks
      PROVE  Written(t, k) = Written(t, s - 1) \cup UpTo(ks, k)
  <2>1. k \in 1..i /\ k >= s /\ \A m \in s..k : ~IsSep(t, m)
    BY <1>3
  <2>2. ASSUME NEW h \in Written(t, k)
        PROVE  h \in Written(t, s - 1) \cup UpTo(ks, k)
    <3>1. h \in 1..k /\ Writes(t, h)
      BY DEF Written
    <3>2. CASE h < s
      <4>1. h \in 1..(s - 1)
        BY <3>1, <3>2
      <4> QED
        BY <3>1, <4>1 DEF Written
    <3>3. CASE h >= s
      <4>1. h \in s..k /\ h \in 1..i /\ h <= k /\ \A m \in s..h : m \in s..k
        BY <1>1, <2>1, <3>1, <3>3
      <4>2. ~IsSep(t, h) /\ \A m \in s..h : ~IsSep(t, m)
        BY <2>1, <4>1
      <4>3. ~IsMark(t, h)
        BY <3>1, <4>2 DEF Writes, IsText, EndsField
      <4>4. h \in ks
        BY <1>2, <3>3, <4>1, <4>2, <4>3
      <4> QED
        BY <4>1, <4>4 DEF UpTo
    <3> QED
      BY <2>1, <3>1, <3>2, <3>3
  <2>3. \A h \in Written(t, s - 1) : h \in Written(t, k)
    <3>1. \A h \in 1..(s - 1) : h \in 1..k
      BY <2>1
    <3> QED
      BY <3>1 DEF Written
  <2>4. \A h \in UpTo(ks, k) : h \in Written(t, k)
    <3>1. \A h \in UpTo(ks, k) : h \in ks /\ h \in 1..k
      BY <1>3, <2>1 DEF UpTo
    <3> QED
      BY <1>4, <3>1 DEF Written, Writes
  <2> QED
    BY <2>2, <2>3, <2>4
<1>8. Written(t, s - 1) \cap ks = {}
  BY <1>1, <1>3, <1>6
<1>9. \A k \in ks : t[k] # NUL
  BY <1>1, <1>3
<1> QED
  BY <1>3, <1>4, <1>5, <1>6, <1>7, <1>8, <1>9

LEMMA FieldSpells ==
    ASSUME NEW t, Done(t), NEW s \in 1..(i + 1)
    PROVE  LET ks == FieldText(t, s) IN
           /\ IsFiniteSet(ks) /\ ks \in SUBSET Int
           /\ Cardinality(ks) \in Nat /\ Place(t, s) \in Nat
           /\ Place(t, s) + Cardinality(ks) \in 0..j
           /\ \A k \in ks : line[Place(t, s) + Cardinality(UpTo(ks, k)) - 1] = t[k]
           /\ \A p \in Int : p >= Place(t, s) /\ p < Place(t, s) + Cardinality(ks) => line[p] # NUL
<1> DEFINE ks == FieldText(t, s)
           B == Written(t, s - 1)
           W == Written(t, i)
           c == Cardinality(ks)
           b == Place(t, s)
<1>1. i \in Nat /\ s - 1 \in Nat /\ i \in 0..Len(t)
  BY DoneLine
<1>2. ks \subseteq 1..i /\ B \subseteq W /\ ks \subseteq W /\ B \cap ks = {}
  BY FieldWritten
<1>3. IsFiniteSet(ks) /\ ks \in SUBSET Int /\ c \in Nat
  BY <1>1, <1>2, FiniteUpTo
<1>4. IsFiniteSet(B) /\ b = Cardinality(B) /\ b \in Nat /\ IsFiniteSet(W) /\ Cardinality(W) \in Nat /\ j = Cardinality(W)
  BY <1>1, WrittenCounts, DoneStored DEF Place
<1>5. b + c \in 0..j
  <2>1. Cardinality(B \cup ks) = b + c /\ IsFiniteSet(B \cup ks)
    BY <1>2, <1>3, <1>4, TwoParts
  <2>2. B \cup ks \in SUBSET W
    BY <1>2
  <2>3. Cardinality(B \cup ks) <= Cardinality(W)
    BY <1>4, <2>2, FS_Subset
  <2> HIDE DEF B, ks, W, c, b
  <2> QED
    BY <1>3, <1>4, <2>1, <2>3
<1>6. ASSUME NEW k \in ks
      PROVE  line[b + Cardinality(UpTo(ks, k)) - 1] = t[k]
  <2>1. k \in Written(t, i) /\ k \in 1..i /\ Put(t, k) = t[k]
    BY <1>2, FieldWritten
  <2>2. Written(t, k) = B \cup UpTo(ks, k) /\ UpTo(ks, k) \subseteq ks
    BY FieldWritten DEF UpTo
  <2>3. IsFiniteSet(UpTo(ks, k)) /\ Cardinality(UpTo(ks, k)) \in Nat
    BY <1>3, UpToCounts
  <2>4. Cardinality(Written(t, k)) = b + Cardinality(UpTo(ks, k))
    <3>1. B \cap UpTo(ks, k) = {}
      BY <1>2, <2>2
    <3> HIDE DEF B, ks, b
    <3> QED
      BY <1>4, <2>2, <2>3, <3>1, TwoParts
  <2>5. Cardinality(Written(t, k)) = Place(t, k) + 1
    <3>1. k - 1 \in Nat /\ (k - 1) + 1 = k /\ Writes(t, k)
      BY <2>1 DEF Written
    <3>2. Written(t, k) = Written(t, k - 1) \cup {k} /\ k \notin Written(t, k - 1)
      BY <3>1, WrittenNext
    <3> QED
      BY <3>1, <3>2, WrittenCounts, OneMore DEF Place
  <2>6. Place(t, k) \in Nat /\ line[Place(t, k)] = t[k]
    BY <2>1, DoneStored
  <2>7. Place(t, k) = b + Cardinality(UpTo(ks, k)) - 1
    <3> HIDE DEF b, ks
    <3> QED
      BY <1>4, <2>3, <2>4, <2>5, <2>6
  <2> QED
    BY <2>6, <2>7
<1>7. ASSUME NEW p \in Int, p >= b, p < b + c
      PROVE  line[p] # NUL
  <2>1. (p - b) + 1 \in 1..c
    <3> HIDE DEF b, c
    <3> QED
      BY <1>3, <1>4, <1>7
  <2> PICK m \in 1..c : m = (p - b) + 1
    BY <2>1
  <2>2. PICK k \in ks : Cardinality(UpTo(ks, k)) = m
    BY <1>3, RankTaken
  <2>3. b + m - 1 = p
    <3> HIDE DEF b, c
    <3> QED
      BY <1>3, <1>4
  <2>4. line[p] = t[k]
    BY <1>6, <2>2, <2>3
  <2> QED
    BY <2>4, FieldWritten
<1> HIDE DEF c, b
<1> QED
  BY <1>3, <1>4, <1>5, <1>6, <1>7 DEF c, b

\* Behind it there is a NUL: the separator that ends it, or the end of all.
LEMMA FieldEnds ==
    ASSUME NEW t, Done(t), NEW s \in 1..(i + 1)
    PROVE  LET e == Place(t, s) + Cardinality(FieldText(t, s)) IN
           /\ line[e] = NUL
           /\ \/ e = j /\ \A h \in Ended(t, i) : h < s
              \/ \E k \in Ended(t, i) :
                    k >= s /\ Place(t, k) = e /\ \A h \in Ended(t, i) : h < s \/ k <= h
<1> DEFINE ks == FieldText(t, s)
           B == Written(t, s - 1)
           W == Written(t, i)
           R == {h \in W : h >= s /\ h \notin ks}
           e == Place(t, s) + Cardinality(ks)
<1>1. i \in Nat /\ s - 1 \in Nat /\ s \in Int /\ Body(t) = 1..i /\ line[j] = NUL
  BY DoneLine
<1>2. ks \subseteq 1..i /\ B \subseteq W /\ ks \subseteq W /\ B \cap ks = {} /\ W \subseteq 1..i
  BY FieldWritten, DoneStored
<1>3. IsFiniteSet(ks) /\ IsFiniteSet(B) /\ Place(t, s) = Cardinality(B)
  BY <1>1, FieldSpells, WrittenCounts DEF Place
<1>4. Cardinality(B \cup ks) = e
  BY <1>2, <1>3, TwoParts
<1>5. ks = {k \in 1..i : k >= s /\ ~IsMark(t, k) /\ \A m \in s..k : ~IsSep(t, m)}
  BY <1>1 DEF FieldText
<1>6. \A h \in W : h \in B \/ h \in ks \/ h \in R
  <2>1. \A h \in W : h \in 1..i /\ (h >= s \/ h \in 1..(s - 1))
    BY <1>1, <1>2
  <2> QED
    BY <2>1 DEF Written
<1>7. \A h \in Ended(t, i) : h \in W /\ (h < s \/ h \in R)
  <2>1. \A h \in Ended(t, i) : h \in W /\ h \in 1..i /\ IsSep(t, h)
    BY DEF Ended, Written, Writes, EndsField
  <2>2. \A h \in 1..i : h < s \/ (h >= s /\ h \in s..h)
    BY <1>1
  <2> QED
    BY <1>5, <2>1, <2>2
<1>8. CASE R = {}
  <2>1. W = B \cup ks
    BY <1>2, <1>6, <1>8
  <2>2. e = j
    BY <1>4, <2>1, DoneStored
  <2> QED
    BY <1>1, <1>7, <1>8, <2>2
<1>9. CASE R # {}
  <2>1. IsFiniteSet(R) /\ R \in SUBSET Int /\ R \subseteq 1..i
    <3>1. R \subseteq 1..i
      BY <1>2
    <3> HIDE DEF R
    <3> QED
      BY <1>1, <3>1, FiniteUpTo
  <2>2. PICK k \in R : \A h \in R : k <= h
    <3> HIDE DEF R
    <3> QED
      BY <1>9, <2>1, Least
  <2>3. k \in 1..i /\ k >= s /\ k \in W /\ k \notin ks /\ Writes(t, k)
    BY <1>2 DEF Written
  <2> DEFINE Q == {m \in s..k : IsSep(t, m)}
  <2>4. Q # {}
    <3>1. SUFFICES ASSUME \A m \in s..k : ~IsSep(t, m) PROVE FALSE
      OBVIOUS
    <3>2. k \in s..k
      BY <1>1, <2>3
    <3>3. ~IsMark(t, k)
      BY <2>3, <3>1, <3>2 DEF Writes, IsText, EndsField
    <3> QED
      BY <1>5, <2>3, <3>1, <3>3
  <2>5. Q \subseteq 1..i /\ \A m \in Q : m >= s /\ m <= k /\ m \in Int
    BY <1>1, <2>3
  <2>6. PICK g \in Q : \A m \in Q : m <= g
    <3> HIDE DEF Q
    <3>1. IsFiniteSet(Q) /\ Q \in SUBSET Int
      BY <1>1, <2>5, FiniteUpTo
    <3> QED
      BY <2>4, <3>1, Greatest
  <2>7. g \in 1..i /\ g >= s /\ g <= k /\ IsSep(t, g)
    BY <2>5
  <2>8. \A h \in ks : h < g
    <3>1. ASSUME NEW h \in ks, ~(h < g)
          PROVE  FALSE
      <4>1. h \in 1..i /\ \A m \in s..h : ~IsSep(t, m)
        BY <1>5
      <4>2. g \in s..h
        BY <1>1, <2>7, <3>1, <4>1
      <4> QED
        BY <2>7, <4>1, <4>2
    <3> QED
      BY <3>1
  <2>9. IsSep(t, k)
    <3>1. SUFFICES ASSUME ~IsSep(t, k) PROVE FALSE
      OBVIOUS
    <3>2. g < k /\ g + 1 \in 1..i /\ g + 1 \in s..k /\ (g + 1) - 1 = g /\ ~(g + 1 <= g)
      BY <1>1, <2>3, <2>7, <3>1
    <3>3. ~IsSep(t, g + 1)
      BY <2>6, <3>2
    <3>4. g + 1 \in FieldStarts(t)
      BY <1>1, <2>7, <3>2, <3>3 DEF FieldStarts
    <3>5. g \in W
      BY <2>7, <3>4 DEF Written, Writes, EndsField
    <3>6. g \in R
      BY <2>7, <2>8, <3>5
    <3> QED
      BY <2>2, <2>3, <3>2, <3>6
  <2>10. EndsField(t, k) /\ k \in Ended(t, i) /\ Put(t, k) = NUL
    BY <2>3, <2>9 DEF Writes, IsText, Put, Ended
  <2>11. Place(t, k) = e
    <3>1. \A h \in Written(t, k - 1) : h \in W /\ h \in 1..i /\ h < k
      <4>1. \A h \in 1..(k - 1) : h \in 1..i /\ h < k
        BY <1>1, <2>3
      <4> QED
        BY <4>1 DEF Written
    <3>2. \A h \in Written(t, k - 1) : h \in B \cup ks
      <4>1. \A h \in R : ~(h < k)
        BY <2>1, <2>2
      <4> QED
        BY <1>6, <3>1, <4>1
    <3>3. \A h \in B \cup ks : h \in W /\ h \in 1..(k - 1)
      <4>1. \A h \in B : h \in 1..(s - 1)
        BY DEF Written
      <4>2. \A h \in 1..(s - 1) : h \in 1..(k - 1)
        BY <1>1, <2>3
      <4>3. \A h \in ks : h \in 1..i /\ h < g
        BY <1>2, <2>8
      <4>4. \A h \in ks : h \in 1..(k - 1)
        BY <1>1, <2>3, <2>7, <4>3
      <4> QED
        BY <1>2, <4>1, <4>2, <4>4
    <3>4. Written(t, k - 1) = B \cup ks
      BY <3>2, <3>3 DEF Written
    <3> QED
      BY <1>4, <3>4 DEF Place
  <2>12. line[e] = NUL
    BY <2>3, <2>10, <2>11, DoneStored
  <2>13. \A h \in Ended(t, i) : h < s \/ k <= h
    BY <1>7, <2>2
  <2> HIDE DEF e
  <2> QED
    BY <2>3, <2>10, <2>11, <2>12, <2>13 DEF e
<1> QED
  BY <1>8, <1>9

Text(t, s) ==
    LET ks == FieldText(t, s) IN [m \in 1..Cardinality(ks) |-> t[Nth(ks, m)]]

LEMMA TextLength ==
    ASSUME NEW t, NEW s, Cardinality(FieldText(t, s)) \in Nat
    PROVE  /\ Len(Text(t, s)) = Cardinality(FieldText(t, s))
           /\ Text(t, s) # <<>> <=> Cardinality(FieldText(t, s)) # 0
<1> DEFINE c == Cardinality(FieldText(t, s))
<1>1. DOMAIN Text(t, s) = 1..c
  BY DEF Text
<1>2. Len(Text(t, s)) = c
  <2> HIDE DEF c
  <2>1. c \in Nat
    BY DEF c
  <2> QED
    BY <1>1, <2>1
<1>3. ASSUME c = 0 PROVE Text(t, s) = <<>>
  <2>1. Text(t, s) = [m \in 1..0 |-> t[Nth(FieldText(t, s), m)]]
    BY <1>3 DEF Text
  <2> QED
    BY <2>1
<1>4. ASSUME c # 0 PROVE Text(t, s) # <<>>
  <2>1. Len(Text(t, s)) # 0 /\ Len(<<>>) = 0
    BY <1>2, <1>4
  <2> QED
    BY <2>1
<1> QED
  BY <1>2, <1>3, <1>4

\* Where the text of a field was written, the C string is that text.
LEMMA StringMeans ==
    ASSUME NEW t, Done(t), NEW s \in 1..(i + 1)
    PROVE  /\ StringAt(Place(t, s)) = Text(t, s)
           /\ Following(Place(t, s)) = Place(t, s) + Cardinality(FieldText(t, s)) + 1
           /\ line[Place(t, s)] = "Y" <=> Text(t, s) # <<>> /\ Text(t, s)[1] = "Y"
<1> DEFINE ks == FieldText(t, s)
           c == Cardinality(ks)
           b == Place(t, s)
           Ends(m) == line[m] = NUL /\ \A h \in b..(m - 1) : line[h] # NUL
           x == CHOOSE m \in b..Len(conf[lineno]) : Ends(m)
<1>1. /\ IsFiniteSet(ks) /\ ks \in SUBSET Int
      /\ c \in Nat /\ b \in Nat /\ b + c \in 0..j
      /\ \A k \in ks : line[b + Cardinality(UpTo(ks, k)) - 1] = t[k]
      /\ \A p \in Int : p >= b /\ p < b + c => line[p] # NUL
  BY FieldSpells
<1>2. line[b + c] = NUL
  BY FieldEnds
<1>3. b + c \in b..Len(conf[lineno])
  <2>1. j \in 0..i /\ i \in 0..Len(t) /\ Len(t) \in Nat /\ t = conf[lineno]
    BY DoneLine DEF Done
  <2> HIDE DEF b, c
  <2> QED
    BY <1>1, <2>1
<1>4. Ends(b + c)
  <2>1. \A h \in b..((b + c) - 1) : line[h] # NUL
    <3> HIDE DEF b, c
    <3> QED
      BY <1>1
  <2> QED
    BY <1>2, <2>1
<1>5. x = b + c
  <2>1. x \in b..Len(conf[lineno]) /\ Ends(x)
    <3> HIDE DEF Ends, b, c
    <3> QED
      BY <1>3, <1>4
  <2>2. ~(x < b + c)
    <3>1. x \in Int /\ x >= b /\ line[x] = NUL
      <4> HIDE DEF x, b
      <4> QED
        BY <1>1, <2>1
    <3> HIDE DEF x, b, c
    <3> QED
      BY <1>1, <3>1
  <2>3. ~(b + c < x)
    <3>1. \A h \in b..(x - 1) : line[h] # NUL
      BY <2>1
    <3>2. x \in b..Len(conf[lineno])
      BY <2>1
    <3> HIDE DEF x, b, c
    <3> QED
      BY <1>1, <1>2, <3>1, <3>2
  <2> HIDE DEF x, b, c
  <2> QED
    BY <1>1, <2>1, <2>2, <2>3
<1>6. \A m \in 1..c : line[b + m - 1] = t[Nth(ks, m)]
  <2>1. \A m \in 1..c : Nth(ks, m) \in ks /\ Cardinality(UpTo(ks, Nth(ks, m))) = m
    BY <1>1, NthIs
  <2> QED
    BY <1>1, <2>1
<1>7. StringAt(b) = [h \in 1..c |-> line[b + h - 1]]
  <2>1. StringAt(b) = [h \in 1..(x - b) |-> line[b + h - 1]]
    BY DEF StringAt
  <2>2. x - b = c
    <3> HIDE DEF x, b, c
    <3> QED
      BY <1>1, <1>5
  <2> HIDE DEF x, b, c
  <2> QED
    BY <2>1, <2>2
<1>8. StringAt(b) = Text(t, s)
  <2>1. Text(t, s) = [m \in 1..c |-> t[Nth(ks, m)]]
    BY DEF Text
  <2> HIDE DEF b, c, ks
  <2> QED
    BY <1>6, <1>7, <2>1
<1>9. Following(b) = b + c + 1
  <2>1. Len(Text(t, s)) = c
    BY <1>1, TextLength
  <2> HIDE DEF b, c
  <2> QED
    BY <1>8, <2>1 DEF Following
<1>10. line[b] = "Y" <=> Text(t, s) # <<>> /\ Text(t, s)[1] = "Y"
  <2>1. CASE c = 0
    <3>1. b + c = b
      <4> HIDE DEF b, c
      <4> QED
        BY <1>1, <2>1
    <3>2. line[b] = NUL
      BY <1>2, <3>1
    <3> QED
      BY <1>1, <2>1, <3>2, TextLength DEF NUL
  <2>2. CASE c # 0
    <3>1. 1 \in 1..c /\ b + 1 - 1 = b
      <4> HIDE DEF b, c
      <4> QED
        BY <1>1, <2>2
    <3>2. line[b] = t[Nth(ks, 1)]
      BY <1>6, <3>1
    <3>3. Text(t, s)[1] = t[Nth(ks, 1)]
      BY <3>1 DEF Text
    <3> QED
      BY <1>1, <2>2, <3>2, <3>3, TextLength
  <2> QED
    BY <2>1, <2>2
<1> QED
  BY <1>8, <1>9, <1>10

\* Every field but the first begins behind a separator that ends one.
LEMMA Starts ==
    ASSUME NEW t, Done(t)
    PROVE  /\ FieldStarts(t) \subseteq 1..i
           /\ IsFiniteSet(FieldStarts(t)) /\ FieldStarts(t) \in SUBSET Int
           /\ Cardinality(FieldStarts(t)) \in Nat
           /\ \A k \in Ended(t, i) : k \in 1..i /\ k + 1 \in FieldStarts(t)
           /\ \A x \in FieldStarts(t) : x # 1 => x - 1 \in Ended(t, i)
<1> DEFINE S == FieldStarts(t)
<1>1. i \in Nat /\ Body(t) = 1..i
  BY DoneLine
<1>2. S \subseteq 1..i
  BY <1>1 DEF FieldStarts
<1>3. \A k \in Ended(t, i) : k \in 1..i /\ k + 1 \in S
  BY DEF Ended, EndsField
<1>4. ASSUME NEW x \in S, x # 1
      PROVE  x - 1 \in Ended(t, i)
  <2>1. x - 1 \in 1..i /\ (x - 1) + 1 = x
    BY <1>1, <1>2, <1>4
  <2>2. IsSep(t, x - 1)
    BY <1>4 DEF FieldStarts
  <2> QED
    BY <2>1, <2>2 DEF Ended, EndsField
<1>5. IsFiniteSet(S) /\ S \in SUBSET Int /\ Cardinality(S) \in Nat
  BY <1>1, <1>2, FiniteUpTo
<1> QED
  BY <1>2, <1>3, <1>4, <1>5

LEMMA StartsCount ==
    ASSUME NEW t, Done(t), 1 \in FieldStarts(t)
    PROVE  Cardinality(FieldStarts(t)) = Cardinality(Ended(t, i)) + 1
<1> DEFINE S == FieldStarts(t)
           T == S \ {1}
           E == Ended(t, i)
           f == [k \in E |-> k + 1]
<1>1. /\ S \subseteq 1..i /\ S \in SUBSET Int
      /\ \A k \in E : k \in Int /\ k >= 1 /\ k + 1 \in S
      /\ \A x \in S : x # 1 => x - 1 \in E
  BY Starts
<1>2. IsFiniteSet(E)
  BY WrittenCounts, DoneLine
<1>3. f \in [E -> T]
  BY <1>1
<1>4. \A k, h \in E : f[k] = f[h] => k = h
  BY <1>1
<1>5. \A x \in T : \E k \in E : f[k] = x
  <2>1. \A x \in T : x - 1 \in E /\ f[x - 1] = (x - 1) + 1 /\ (x - 1) + 1 = x
    BY <1>1
  <2> QED
    BY <2>1
<1>6. IsFiniteSet(T) /\ Cardinality(T) = Cardinality(E)
  <2> HIDE DEF f, E, T
  <2>1. f \in Bijection(E, T)
    BY <1>3, <1>4, <1>5 DEF Bijection, Injection, Surjection, IsInjective
  <2>2. ExistsBijection(E, T)
    BY <2>1 DEF ExistsBijection
  <2> QED
    BY <1>2, <2>2, FS_Bijection
<1>7. Cardinality(T \cup {1}) = Cardinality(T) + 1
  <2>1. 1 \notin T
    OBVIOUS
  <2> QED
    BY <1>6, <2>1, OneMore
<1>8. S = T \cup {1}
  OBVIOUS
<1> HIDE DEF T, E
<1> QED
  BY <1>6, <1>7, <1>8 DEF E

LEMMA FirstStart ==
    ASSUME NEW t, Done(t), 1 \in FieldStarts(t)
    PROVE  /\ Nth(FieldStarts(t), 1) = 1 /\ Cardinality(FieldStarts(t)) >= 1
           /\ Place(t, 1) = 0 /\ 1 \in 1..(i + 1)
<1> DEFINE S == FieldStarts(t)
           x == Nth(S, 1)
<1>1. IsFiniteSet(S) /\ S \in SUBSET Int /\ S \subseteq 1..i /\ Cardinality(S) \in Nat
  BY Starts
<1>2. Cardinality(UpTo(S, 1)) \in 1..Cardinality(S)
  BY <1>1, RankBounds
<1>3. Cardinality(S) >= 1 /\ 1 \in 1..Cardinality(S)
  BY <1>1, <1>2
<1>4. x \in S /\ Cardinality(UpTo(S, x)) = 1
  BY <1>1, <1>3, NthIs
<1>5. ~(1 < x)
  <2>1. 1 < x => Cardinality(UpTo(S, 1)) < 1
    <3> HIDE DEF x
    <3>1. x \in S /\ Cardinality(UpTo(S, x)) = 1
      BY <1>4
    <3>2. 1 < x => Cardinality(UpTo(S, 1)) < Cardinality(UpTo(S, x))
      BY <1>1, <1>4, RankGrows
    <3> QED
      BY <3>1, <3>2
  <2> QED
    BY <1>2, <2>1
<1>6. x = 1
  BY <1>1, <1>4, <1>5
<1>7. Place(t, 1) = 0
  <2>1. 1 - 1 = 0
    OBVIOUS
  <2>2. Written(t, 1 - 1) = {}
    BY <2>1, WrittenFirst
  <2> QED
    BY <2>2, FS_EmptySet DEF Place
<1>8. 1 \in 1..(i + 1)
  BY DoneLine
<1> QED
  BY <1>3, <1>6, <1>7, <1>8

LEMMA FieldsMean ==
    ASSUME NEW t, Cardinality(FieldStarts(t)) \in Nat
    PROVE  /\ Len(MeantFields(t)) = Cardinality(FieldStarts(t))
           /\ \A f \in 1..Cardinality(FieldStarts(t)) :
                 MeantFields(t)[f] = Text(t, Nth(FieldStarts(t), f))
           /\ Cardinality(FieldStarts(t)) # 0 => MeantFields(t) # <<>>
<1> DEFINE c == Cardinality(FieldStarts(t))
<1>1. DOMAIN MeantFields(t) = 1..c /\ \A f \in 1..c : MeantFields(t)[f] = Text(t, Nth(FieldStarts(t), f))
  BY DEF MeantFields, Text
<1>2. Len(MeantFields(t)) = c
  <2> HIDE DEF c
  <2>1. c \in Nat
    BY DEF c
  <2> QED
    BY <1>1, <2>1
<1>3. c # 0 => MeantFields(t) # <<>>
  <2>1. Len(<<>>) = 0
    OBVIOUS
  <2> QED
    BY <1>2, <2>1
<1> QED
  BY <1>1, <1>2, <1>3

\* The fields are counted as they are meant, unless the first has no letter.
LEMMA NumberMeans ==
    ASSUME NEW t, Done(t), ~Indented(t), ~WordlessFirst(t)
    PROVE  n = Cardinality(FieldStarts(t))
<1> DEFINE S == FieldStarts(t)
           E == Ended(t, i)
<1>1. /\ i \in Nat /\ S \subseteq 1..i /\ Body(t) = 1..i
      /\ \A k \in E : k + 1 \in S
      /\ \A k \in 1..i : t[k] # NUL /\ ~IsNewline(t[k])
  BY Starts, DoneLine
<1>2. n = Cardinality(E) + IF HasLetter(t, i) THEN 1 ELSE 0
  BY DEF Done, Finished, Numbered
<1>3. CASE S = {}
  <2>1. E = {} /\ Cardinality({}) = 0
    BY <1>1, <1>3, FS_EmptySet
  <2>2. ~HasLetter(t, i)
    <3>1. SUFFICES ASSUME NEW k \in 1..i, IsLetter(t[k]) PROVE FALSE
      BY DEF HasLetter
    <3> DEFINE T == {h \in 1..i : ~IsSep(t, h)}
    <3>2. k \in T
      BY <3>1, Kinds, MeaningOfKinds
    <3>3. T \subseteq 1..i
      OBVIOUS
    <3>4. PICK h \in T : \A m \in T : h <= m
      <4> HIDE DEF T
      <4>1. IsFiniteSet(T) /\ T \in SUBSET Int /\ T # {}
        BY <1>1, <3>2, <3>3, FiniteUpTo
      <4> QED
        BY <4>1, Least
    <3>5. h = 1 \/ (h - 1 \in 1..i /\ ~(h <= h - 1))
      BY <1>1
    <3>6. h = 1 \/ IsSep(t, h - 1)
      BY <3>4, <3>5
    <3>7. h \in S
      BY <1>1, <3>6 DEF FieldStarts
    <3> QED
      BY <1>3, <3>7
  <2>3. Cardinality(E) = 0 /\ Cardinality(S) = 0
    BY <1>3, <2>1
  <2> HIDE DEF E
  <2> QED
    BY <1>2, <2>2, <2>3
<1>4. CASE S # {}
  <2>1. 1 \in S
    BY <1>4 DEF Indented
  <2>2. Nth(S, 1) = 1 /\ 1 \in 1..Cardinality(S) /\ Cardinality(S) \in Nat
    BY <2>1, FirstStart, Starts
  <2>3. MeantFields(t)[1] = Text(t, 1)
    BY <2>2, FieldsMean
  <2> DEFINE ks == FieldText(t, 1)
  <2>4. PICK k \in DOMAIN Text(t, 1) : Text(t, 1)[k] \notin Blank \cup {"#", "\"", "\\"}
    BY <1>4, <2>3 DEF WordlessFirst
  <2>5. k \in 1..Cardinality(ks) /\ Text(t, 1)[k] = t[Nth(ks, k)]
    BY DEF Text
  <2>6. IsFiniteSet(ks) /\ ks \in SUBSET Int /\ ks \subseteq 1..i
    BY <2>1, FirstStart, FieldSpells, FieldWritten
  <2> PICK h : h = Nth(ks, k)
    OBVIOUS
  <2>7. h \in ks /\ h \in 1..i
    BY <2>5, <2>6, NthIs
  <2>8. t[h] \notin Blank \cup {"#", "\"", "\\"} /\ t[h] # NUL /\ ~IsNewline(t[h])
    BY <1>1, <2>4, <2>5, <2>7
  <2>9. IsLetter(t[h])
    BY <2>8 DEF IsLetter, IsNewline
  <2>10. Ended(t, h - 1) = {}
    <3>1. \A m \in 1..h : ~IsSep(t, m)
      BY <2>7 DEF FieldText
    <3>2. \A m \in 1..(h - 1) : m \in 1..h
      BY <1>1, <2>7
    <3> QED
      BY <3>1, <3>2 DEF Ended, EndsField
  <2>11. HasLetter(t, i)
    BY <2>7, <2>9, <2>10 DEF HasLetter
  <2> HIDE DEF E, S
  <2> QED
    BY <1>2, <2>1, <2>11, StartsCount DEF E, S
<1> QED
  BY <1>3, <1>4

\* Each field is written behind the NUL of the one before.
LEMMA NextPlace ==
    ASSUME NEW t, Done(t), NEW f \in 1..Cardinality(FieldStarts(t)),
           f + 1 \in 1..Cardinality(FieldStarts(t))
    PROVE  LET s == Nth(FieldStarts(t), f) IN
           Place(t, Nth(FieldStarts(t), f + 1)) = Place(t, s) + Cardinality(FieldText(t, s)) + 1
<1> DEFINE S == FieldStarts(t)
<1>1. /\ S \subseteq 1..i /\ IsFiniteSet(S) /\ S \in SUBSET Int /\ i \in Nat
      /\ \A k \in Ended(t, i) : k \in 1..i /\ k + 1 \in S
      /\ \A x \in S : x # 1 => x - 1 \in Ended(t, i)
  BY Starts, DoneLine
<1> PICK s : s = Nth(S, f)
  OBVIOUS
<1> PICK r : r = Nth(S, f + 1)
  OBVIOUS
<1>2. s \in S /\ r \in S /\ Cardinality(UpTo(S, s)) = f /\ Cardinality(UpTo(S, r)) = f + 1
  <2> PICK g \in 1..Cardinality(S) : g = f + 1
    OBVIOUS
  <2>1. Nth(S, g) \in S /\ Cardinality(UpTo(S, Nth(S, g))) = g
    BY <1>1, NthIs
  <2> QED
    BY <1>1, <2>1, NthIs
<1>3. s \in 1..i /\ r \in 1..i /\ s \in 1..(i + 1) /\ f \in Int
  BY <1>1, <1>2
<1>4. s < r
  <2>1. ~(r < s)
    <3>1. r < s => Cardinality(UpTo(S, r)) < Cardinality(UpTo(S, s))
      BY <1>1, <1>2, RankGrows
    <3> QED
      BY <1>2, <1>3, <3>1
  <2>2. r # s
    BY <1>2, <1>3
  <2> QED
    BY <1>3, <2>1, <2>2
<1> DEFINE e == Place(t, s) + Cardinality(FieldText(t, s))
<1>5. r - 1 \in Ended(t, i) /\ ~(r - 1 < s) /\ (r - 1) + 1 = r
  BY <1>1, <1>2, <1>3, <1>4
<1>6. PICK k \in Ended(t, i) :
          k >= s /\ Place(t, k) = e /\ \A h \in Ended(t, i) : h < s \/ k <= h
  BY <1>3, <1>5, FieldEnds
<1>7. k \in 1..i /\ k + 1 \in S /\ k + 1 <= r /\ s < k + 1
  BY <1>1, <1>3, <1>5, <1>6
<1>8. ~(k + 1 < r)
  <2>1. Cardinality(UpTo(S, s)) < Cardinality(UpTo(S, k + 1))
    BY <1>1, <1>2, <1>7, RankGrows
  <2>2. k + 1 < r => Cardinality(UpTo(S, k + 1)) < Cardinality(UpTo(S, r))
    BY <1>1, <1>2, <1>7, RankGrows
  <2>3. Cardinality(UpTo(S, k + 1)) \in Nat
    BY <1>1, UpToCounts
  <2> QED
    BY <1>2, <1>3, <2>1, <2>2, <2>3
<1>9. r = k + 1
  BY <1>3, <1>7, <1>8
<1>10. Place(t, r) = Place(t, k) + 1
  <2>1. k - 1 \in Nat /\ (k - 1) + 1 = k /\ Writes(t, k) /\ r - 1 = k
    BY <1>7, <1>9 DEF Ended, Writes
  <2>2. Written(t, k) = Written(t, k - 1) \cup {k} /\ k \notin Written(t, k - 1)
    BY <2>1, WrittenNext
  <2>3. Cardinality(Written(t, k)) = Cardinality(Written(t, k - 1)) + 1
    BY <2>1, <2>2, WrittenCounts, OneMore
  <2> QED
    BY <2>1, <2>3 DEF Place
<1> HIDE DEF e
<1>11. Place(t, r) = e + 1
  BY <1>6, <1>10
<1> QED
  BY <1>11 DEF e

LEMMA NulsFinite ==
    ASSUME NEW t, Done(t)
    PROVE  IsFiniteSet(Nuls) /\ Nuls \in SUBSET Int /\ \A p \in Nuls : p \in 0..Len(t)
<1>1. Len(t) \in Nat /\ DOMAIN line = 0..Len(t)
  BY DoneLine
<1> PICK m \in Nat : m = Len(t)
  BY <1>1
<1>2. \A p \in Nuls : p \in 0..m /\ p \in Int
  BY <1>1 DEF Nuls
<1>3. IsFiniteSet(0..m)
  BY FS_Interval
<1>4. Nuls \in SUBSET (0..m) /\ Nuls \in SUBSET Int
  BY <1>2
<1>5. IsFiniteSet(Nuls)
  BY <1>3, <1>4, FS_Subset
<1> QED
  BY <1>2, <1>4, <1>5

\* The NUL behind a field is the next one: with it there is one more.
LEMMA NextNul ==
    ASSUME NEW t, Done(t), NEW s \in 1..(i + 1)
    PROVE  LET e == Place(t, s) + Cardinality(FieldText(t, s)) IN
           /\ e \in Nuls
           /\ Cardinality(UpTo(Nuls, e)) = Cardinality(UpTo(Nuls, Place(t, s) - 1)) + 1
<1> DEFINE b == Place(t, s)
           e == b + Cardinality(FieldText(t, s))
           B == UpTo(Nuls, b - 1)
<1>1. b \in Nat /\ e \in 0..j /\ b <= e /\ \A p \in Int : p >= b /\ p < e => line[p] # NUL
  BY FieldSpells
<1>2. j \in 0..i /\ i \in 0..Len(t) /\ Len(t) \in Nat /\ DOMAIN line = 0..Len(t)
  BY DoneLine
<1>3. e \in DOMAIN line
  <2> HIDE DEF e, b
  <2> QED
    BY <1>1, <1>2
<1>4. e \in Nuls
  BY <1>3, FieldEnds DEF Nuls
<1>5. IsFiniteSet(Nuls) /\ \A p \in Nuls : p \in Int /\ line[p] = NUL
  BY NulsFinite DEF Nuls
<1>6. UpTo(Nuls, e) = B \cup {e} /\ e \notin B /\ IsFiniteSet(B)
  <2>1. IsFiniteSet(B)
    BY <1>5, UpToCounts
  <2>2. \A p \in Nuls : p <= e <=> p <= b - 1 \/ p = e
    <3> HIDE DEF e, b
    <3> QED
      BY <1>1, <1>5
  <2>3. ~(e <= b - 1)
    <3> HIDE DEF e, b
    <3> QED
      BY <1>1
  <2>4. UpTo(Nuls, e) = B \cup {e}
    <3> HIDE DEF e, b
    <3> QED
      BY <1>4, <2>2 DEF UpTo
  <2> QED
    BY <2>1, <2>3, <2>4 DEF UpTo
<1> HIDE DEF e, B
<1>7. Cardinality(UpTo(Nuls, e)) = Cardinality(B) + 1
  BY <1>6, OneMore
<1> QED
  BY <1>4, <1>7 DEF e, B

\* The fields lie one behind the other, each with its NUL.
LEMMA FieldsInRow ==
    ASSUME NEW t, Done(t), 1 \in FieldStarts(t)
    PROVE  \A f \in 1..Cardinality(FieldStarts(t)) :
              /\ Nth(FieldStarts(t), f) \in 1..(i + 1)
              /\ FieldAt(f) = Place(t, Nth(FieldStarts(t), f))
<1> DEFINE S == FieldStarts(t)
           N == 1..Cardinality(S)
           At(f) == Place(t, Nth(S, f))
           Behind(f) == Cardinality(UpTo(Nuls, At(f) - 1)) = f - 1
<1>1. S \subseteq 1..i /\ IsFiniteSet(S) /\ S \in SUBSET Int /\ Cardinality(S) \in Nat /\ i \in Nat
  BY Starts, DoneLine
<1>2. \A f \in N : Nth(S, f) \in 1..(i + 1)
  <2>1. \A f \in N : Nth(S, f) \in S
    BY <1>1, NthIs
  <2>2. \A x \in S : x \in 1..(i + 1)
    BY <1>1
  <2> QED
    BY <2>1, <2>2
<1>3. Behind(1)
  <2>1. At(1) = 0
    BY FirstStart
  <2>2. UpTo(Nuls, 0 - 1) = {}
    <3>1. \A p \in Nuls : ~(p <= 0 - 1)
      BY NulsFinite, DoneLine
    <3> QED
      BY <3>1 DEF UpTo
  <2> QED
    BY <2>1, <2>2, FS_EmptySet
<1>4. ASSUME NEW f \in N, f + 1 \in N, Behind(f)
      PROVE  Behind(f + 1) /\ FieldAt(f + 1) = At(f + 1)
  <2> PICK s \in 1..(i + 1) : s = Nth(S, f)
    BY <1>2
  <2> PICK e : e = Place(t, s) + Cardinality(FieldText(t, s))
    OBVIOUS
  <2>1. e \in Nuls /\ Cardinality(UpTo(Nuls, e)) = Cardinality(UpTo(Nuls, Place(t, s) - 1)) + 1
    BY NextNul
  <2>2. f \in Nat /\ f >= 1 /\ (f - 1) + 1 = f /\ (f + 1) - 1 = f /\ f + 1 # 1
    BY <1>1
  <2>3. Cardinality(UpTo(Nuls, e)) = f
    BY <1>4, <2>1, <2>2
  <2>4. e \in Int /\ At(f + 1) = e + 1 /\ (e + 1) - 1 = e
    <3>1. e \in Int
      BY <2>1, NulsFinite
    <3>2. At(f + 1) = e + 1
      BY <1>4, NextPlace
    <3> QED
      BY <3>1, <3>2
  <2>5. Nth(Nuls, f) = e
    BY <2>1, <2>3, NulsFinite, NthOf
  <2>6. FieldAt(f + 1) = e + 1
    BY <2>2, <2>5 DEF FieldAt
  <2>7. Cardinality(UpTo(Nuls, At(f + 1) - 1)) = (f + 1) - 1
    <3> HIDE DEF At
    <3> QED
      BY <2>2, <2>3, <2>4
  <2> QED
    BY <2>4, <2>6, <2>7
<1> HIDE DEF Behind, At
<1>5. ASSUME NEW f \in N PROVE Behind(f)
  <2> DEFINE X == {g \in N : ~Behind(g)}
  <2>1. SUFFICES ASSUME X # {} PROVE FALSE
    BY <1>5
  <2>2. X \subseteq 1..Cardinality(S)
    OBVIOUS
  <2>3. PICK g \in X : \A h \in X : g <= h
    <3> HIDE DEF X
    <3>1. IsFiniteSet(X) /\ X \in SUBSET Int
      BY <1>1, <2>2, FiniteUpTo
    <3> QED
      BY <2>1, <3>1, Least
  <2>4. g \in N /\ ~Behind(g) /\ g # 1
    BY <1>3, <2>3
  <2>5. g - 1 \in N /\ (g - 1) + 1 = g /\ ~(g <= g - 1)
    BY <1>1, <2>4
  <2>6. Behind(g - 1)
    BY <2>3, <2>5
  <2> PICK h \in N : h = g - 1
    BY <2>5
  <2>7. h + 1 = g /\ h + 1 \in N /\ Behind(h)
    BY <2>4, <2>5, <2>6
  <2>8. Behind(h + 1)
    BY <1>4, <2>7
  <2> QED
    BY <2>4, <2>7, <2>8
<1>6. ASSUME NEW f \in N PROVE FieldAt(f) = At(f)
  <2>1. CASE f = 1
    BY <2>1, FirstStart DEF FieldAt, At
  <2>2. CASE f # 1
    <3> PICK h \in N : h = f - 1
      BY <1>1, <2>2
    <3>1. h + 1 = f
      BY <1>1
    <3> QED
      BY <1>4, <1>5, <3>1
  <2> QED
    BY <2>1, <2>2
<1> QED
  BY <1>2, <1>6 DEF At

LEMMA DoneMeans ==
    ASSUME NEW t, Done(t), ~Indented(t), ~WordlessFirst(t)
    PROVE  /\ n = Len(MeantFields(t)) /\ (n # 0 => MeantFields(t) # <<>>)
           /\ \A f \in 1..n : StringAt(FieldAt(f)) = MeantFields(t)[f]
<1> DEFINE S == FieldStarts(t)
<1>1. n = Cardinality(S) /\ Cardinality(S) \in Nat
  BY NumberMeans, Starts
<1>2. n = Len(MeantFields(t)) /\ (n # 0 => MeantFields(t) # <<>>)
  BY <1>1, FieldsMean
<1>3. ASSUME NEW f \in 1..n
      PROVE  StringAt(FieldAt(f)) = MeantFields(t)[f]
  <2>1. S # {}
    BY <1>1, <1>3, FS_EmptySet
  <2>2. 1 \in S
    BY <2>1 DEF Indented
  <2>3. Nth(S, f) \in 1..(i + 1) /\ FieldAt(f) = Place(t, Nth(S, f))
    BY <1>1, <2>2, FieldsInRow
  <2>4. StringAt(Place(t, Nth(S, f))) = Text(t, Nth(S, f))
    BY <2>3, StringMeans
  <2>5. MeantFields(t)[f] = Text(t, Nth(S, f))
    BY <1>1, FieldsMean
  <2> QED
    BY <2>3, <2>4, <2>5
<1> QED
  BY <1>2, <1>3

LEMMA ParserMeans == ParserOK => FieldsAsMeant
<1> SUFFICES ASSUME ParserOK, NEW t, t = conf[lineno], fpc = "fetched", ~Indented(t), ~Misread(t)
             PROVE  IF IsBroken(t) THEN tmp = -1
                    ELSE /\ tmp = Len(MeantFields(t))
                         /\ \A f \in 1..tmp : StringAt(FieldAt(f)) = MeantFields(t)[f]
  BY DEF FieldsAsMeant
<1>1. Readable(t) /\ ~WordlessFirst(t) /\ LineTypeOK
  BY DEF Misread, Readable, ParserOK
<1>2. (tmp = -1 /\ IsBroken(t)) \/ (tmp = n /\ Finished(t))
  BY <1>1 DEF ParserOK
<1>3. CASE tmp = n /\ Finished(t)
  <2>1. Done(t)
    BY <1>1, <1>3 DEF Done
  <2> QED
    BY <1>1, <1>3, <2>1, DoneMeans, DoneLine
<1> QED
  BY <1>2, <1>3

LEMMA ParserInit == FetchInit => ParserOK
<1> SUFFICES ASSUME FetchInit PROVE ParserOK
  OBVIOUS
<1>1. LineTypeOK
  BY FetchInitTyped
<1>2. fpc = "fgets"
  BY DEF FetchInit, FetchStart
<1> QED
  BY <1>1, <1>2 DEF ParserOK

\* For any pkgadd.conf, whatever fetch_line_fields returns for a line that is
\* not one of the misread ones is what the line means: -1 if its quotes are
\* open or a backslash stands outside of them, and otherwise the number of
\* fields, with the text of each behind the NUL of the one before.
THEOREM LinesAsMeant == FetchSpec => []FieldsAsMeant
<1>1. FetchSpec => []ParserOK
  BY ParserInit, ParserNext, PTL DEF FetchSpec
<1> QED
  BY <1>1, ParserMeans, PTL

-----------------------------------------------------------------------------
(* The rules of the file.                                                  *)

\* The lines that are dealt with, and what they mean together.
Dealt == IF fpc \in {"scan", "fetched", "abort"} THEN lineno - 1 ELSE lineno
Ruled(c, d) == {k \in 1..d : MeansRule(c[k])}
MeantRules(c, d) ==
    LET R == Ruled(c, d) IN [k \in 1..Cardinality(R) |-> MeantRule(c[Nth(R, k)])]
Clean(d) == \A k \in 1..d : ~Misread(conf[k])
NoRule(t) == Indented(t) \/ IsBroken(t) \/ (~MeansRule(t) /\ MeantFields(t) # <<>>)
RulesOK ==
    /\ ParserOK
    /\ Clean(Dealt) => rules = MeantRules(conf, Dealt)
    /\ fpc = "abort" /\ Clean(lineno) => NoRule(conf[lineno])

LEMMA RuledNext ==
    ASSUME NEW c, NEW d \in Nat
    PROVE  MeantRules(c, d + 1) = IF MeansRule(c[d + 1])
                                  THEN Append(MeantRules(c, d), MeantRule(c[d + 1]))
                                  ELSE MeantRules(c, d)
<1> DEFINE M == Ruled(c, d)
           x == d + 1
           m == Cardinality(M)
           r(h) == MeantRule(c[h])
<1>1. IsFiniteSet(M) /\ m \in Nat /\ M \in SUBSET Int /\ \A h \in M : h < x /\ h \in 1..d
  <2>1. M \subseteq 1..d
    BY DEF Ruled
  <2>2. IsFiniteSet(M) /\ m \in Nat /\ M \in SUBSET Int
    <3> HIDE DEF M
    <3> QED
      BY <2>1, FiniteUpTo
  <2>3. \A h \in M : h < x /\ h \in 1..d
    <3> HIDE DEF M
    <3> QED
      BY <2>1
  <2> QED
    BY <2>2, <2>3
<1>2. \A h : h \in 1..x <=> h \in 1..d \/ h = x
  OBVIOUS
<1>3. CASE ~MeansRule(c[x])
  <2>1. Ruled(c, x) = M
    BY <1>2, <1>3 DEF Ruled
  <2> QED
    BY <1>3, <2>1 DEF MeantRules
<1>4. CASE MeansRule(c[x])
  <2>1. Ruled(c, x) = M \cup {x}
    BY <1>2, <1>4 DEF Ruled
  <2>2. /\ Cardinality(Ruled(c, x)) = m + 1 /\ Nth(Ruled(c, x), m + 1) = x
        /\ \A k \in 1..m : Nth(Ruled(c, x), k) = Nth(M, k)
    <3> HIDE DEF M
    <3> QED
      BY <1>1, <2>1, NthLast
  <2>3. MeantRules(c, x) = [k \in 1..(m + 1) |-> r(Nth(Ruled(c, x), k))]
    BY <2>2 DEF MeantRules
  <2>4. MeantRules(c, d) = [k \in 1..m |-> r(Nth(M, k))]
    BY DEF MeantRules
  <2> DEFINE T == {r(h) : h \in Int}
             s == [k \in 1..m |-> r(Nth(M, k))]
  <2>5. \A k \in 1..m : r(Nth(M, k)) \in T
    <3>1. \A k \in 1..m : Nth(M, k) \in Int
      <4>1. \A k \in 1..m : Nth(M, k) \in M
        <5> HIDE DEF M
        <5> QED
          BY <1>1, NthIs
      <4> QED
        BY <1>1, <4>1
    <3> HIDE DEF r
    <3> QED
      BY <3>1
  <2>6. s \in Seq(T) /\ Len(s) = m
    <3> HIDE DEF T, m, r, M
    <3> QED
      BY <1>1, <2>5
  <2>7. r(x) \in T
    OBVIOUS
  <2>8. Append(s, r(x)) = [k \in 1..(m + 1) |-> IF k = m + 1 THEN r(x) ELSE s[k]]
    <3> HIDE DEF T, s, m, r
    <3> QED
      BY <1>1, <2>6, <2>7
  <2>9. \A k \in 1..(m + 1) : r(Nth(Ruled(c, x), k)) = IF k = m + 1 THEN r(x) ELSE s[k]
    <3>1. \A k \in 1..(m + 1) : k = m + 1 \/ k \in 1..m
      <4> HIDE DEF m
      <4> QED
        BY <1>1
    <3>2. \A k \in 1..m : s[k] = r(Nth(M, k))
      OBVIOUS
    <3> HIDE DEF s, m, r, M
    <3> QED
      BY <2>2, <3>1, <3>2
  <2>10. MeantRules(c, x) = Append(s, r(x))
    <3> HIDE DEF s, m, r, M, T
    <3> QED
      BY <2>3, <2>8, <2>9
  <2> QED
    BY <1>4, <2>4, <2>10
<1> QED
  BY <1>3, <1>4

\* Of an indented line, the first string is empty: it is no rule.
LEMMA IndentedMeans ==
    ASSUME NEW t, Done(t), Indented(t)
    PROVE  n # 0 /\ StringAt(0) \notin EventWord
<1> DEFINE S == FieldStarts(t)
           E == Ended(t, i)
<1>1. S # {} /\ 1 \notin S /\ S \subseteq 1..i /\ i \in Nat /\ Body(t) = 1..i
  BY Starts, DoneLine DEF Indented
<1>2. PICK x \in S : x # 1 /\ x \in 1..i
  BY <1>1
<1>3. n # 0
  <2>1. x - 1 \in E
    BY <1>2, Starts
  <2>2. IsFiniteSet(E) /\ Cardinality(E) \in Nat /\ Cardinality(E) # 0
    BY <1>1, <2>1, WrittenCounts, FS_EmptySet
  <2>3. n = Cardinality(E) + IF HasLetter(t, i) THEN 1 ELSE 0
    BY DEF Done, Finished, Numbered
  <2> HIDE DEF E
  <2> QED
    BY <2>2, <2>3
<1>4. IsSep(t, 1)
  <2>1. 1 \in 1..i
    BY <1>1, <1>2
  <2> QED
    BY <1>1, <2>1 DEF FieldStarts
<1>5. FieldText(t, 1) = {}
  <2>1. \A k \in FieldText(t, 1) : k >= 1 /\ k \in 1..i /\ \A m \in 1..k : ~IsSep(t, m)
    BY <1>1 DEF FieldText
  <2>2. \A k \in FieldText(t, 1) : 1 \in 1..k
    BY <2>1
  <2> QED
    BY <1>4, <2>1, <2>2
<1>6. Text(t, 1) = <<>>
  <2>1. Cardinality(FieldText(t, 1)) = 0
    BY <1>5, FS_EmptySet
  <2> QED
    BY <2>1, TextLength
<1>7. StringAt(0) = <<>>
  <2>1. 1 \in 1..(i + 1) /\ 1 - 1 = 0
    BY <1>1
  <2>2. Place(t, 1) = 0
    BY <2>1, WrittenFirst, FS_EmptySet DEF Place
  <2> QED
    BY <1>6, <2>1, <2>2, StringMeans
<1>8. <<>> \notin EventWord
  <2>1. Len(<<>>) = 0 /\ Len(<<"U">>) = 1 /\ Len(<<"I">>) = 1
    OBVIOUS
  <2> QED
    BY <2>1 DEF EventWord
<1> QED
  BY <1>3, <1>7, <1>8

\* Three fields are read as they are meant.
LEMMA RuleMeans ==
    ASSUME NEW t, Done(t), ~Indented(t), ~WordlessFirst(t), n = 3
    PROVE  /\ Len(MeantFields(t)) = 3
           /\ StringAt(0) = MeantFields(t)[1] /\ Pattern = MeantFields(t)[2]
           /\ line[Following(Following(0))] = "Y" <=>
                 MeantFields(t)[3] # <<>> /\ MeantFields(t)[3][1] = "Y"
<1> DEFINE S == FieldStarts(t)
           s(f) == Nth(S, f)
<1>1. Cardinality(S) = 3 /\ Len(MeantFields(t)) = 3
  BY NumberMeans, DoneMeans
<1>2. 1 \in S
  BY <1>1, FS_EmptySet DEF Indented
<1>3. 1 \in 1..3 /\ 2 \in 1..3 /\ 3 \in 1..3 /\ 1 + 1 = 2 /\ 2 + 1 = 3
  OBVIOUS
<1>4. \A f \in 1..3 : s(f) \in 1..(i + 1) /\ MeantFields(t)[f] = Text(t, s(f))
  BY <1>1, <1>2, FieldsInRow, FieldsMean
<1>5. \A f \in 1..3 :
         /\ StringAt(Place(t, s(f))) = MeantFields(t)[f]
         /\ Following(Place(t, s(f))) = Place(t, s(f)) + Cardinality(FieldText(t, s(f))) + 1
         /\ line[Place(t, s(f))] = "Y" <=> MeantFields(t)[f] # <<>> /\ MeantFields(t)[f][1] = "Y"
  BY <1>4, StringMeans
<1>6. Place(t, s(1)) = 0
  BY <1>2, FirstStart
<1>7. Place(t, s(2)) = Following(Place(t, s(1))) /\ Place(t, s(3)) = Following(Place(t, s(2)))
  <2>1. \A f \in 1..3 : f + 1 \in 1..3 =>
           Place(t, s(f + 1)) = Place(t, s(f)) + Cardinality(FieldText(t, s(f))) + 1
    BY <1>1, NextPlace
  <2>2. /\ Place(t, s(2)) = Place(t, s(1)) + Cardinality(FieldText(t, s(1))) + 1
        /\ Place(t, s(3)) = Place(t, s(2)) + Cardinality(FieldText(t, s(2))) + 1
    <3> HIDE DEF s
    <3> QED
      BY <1>3, <2>1
  <2> HIDE DEF s
  <2> QED
    BY <1>3, <1>5, <2>2
<1> HIDE DEF s
<1>8. StringAt(0) = MeantFields(t)[1] /\ StringAt(Following(0)) = MeantFields(t)[2]
  BY <1>3, <1>5, <1>6, <1>7
<1>9. line[Following(Following(0))] = "Y" <=>
         MeantFields(t)[3] # <<>> /\ MeantFields(t)[3][1] = "Y"
  BY <1>3, <1>5, <1>6, <1>7
<1> QED
  BY <1>1, <1>8, <1>9 DEF Pattern

LEMMA RulesInit == FetchInit => RulesOK
<1> SUFFICES ASSUME FetchInit PROVE RulesOK
  OBVIOUS
<1>1. fpc = "fgets" /\ lineno = 0 /\ rules = <<>>
  BY DEF FetchInit, FetchStart
<1>2. MeantRules(conf, 0) = <<>>
  <2>1. Ruled(conf, 0) = {}
    BY DEF Ruled
  <2>2. Cardinality(Ruled(conf, 0)) = 0
    BY <2>1, FS_EmptySet
  <2>3. MeantRules(conf, 0) = [k \in 1..0 |-> MeantRule(conf[Nth(Ruled(conf, 0), k)])]
    BY <2>2 DEF MeantRules
  <2> QED
    BY <2>3
<1> QED
  BY <1>1, <1>2, ParserInit DEF RulesOK, Dealt

\* A line that is dealt with: it is read as it is meant, or it is misread.
LEMMA FetchedMeans ==
    ASSUME ParserOK, fpc = "fetched", NEW t, t = conf[lineno], ~Misread(t)
    PROVE  /\ n \in Nat
           /\ (tmp = -1 /\ IsBroken(t)) \/ (tmp = n /\ Done(t) /\ ~IsBroken(t))
           /\ ~WordlessFirst(t)
<1>1. Readable(t) /\ ~WordlessFirst(t) /\ LineTypeOK
  BY DEF Misread, Readable, ParserOK
<1>2. (tmp = -1 /\ IsBroken(t)) \/ (tmp = n /\ Finished(t))
  BY <1>1 DEF ParserOK
<1>3. tmp = n /\ Finished(t) => Done(t)
  BY <1>1 DEF Done
<1>4. Done(t) => ~IsBroken(t)
  BY DoneLine
<1>5. n \in Nat
  BY <1>1, LineTypeParts DEF ControlOK
<1> QED
  BY <1>1, <1>2, <1>3, <1>4, <1>5

LEMMA MakeRuleMeans ==
    ASSUME ParserOK, NEW t, t = conf[lineno], ~Misread(t), MakeRule
    PROVE  MeansRule(t) /\ rules' = Append(rules, MeantRule(t))
<1>1. fpc = "fetched" /\ tmp = 3 /\ StringAt(0) \in EventWord /\ Pattern \notin BadRegex
  BY DEF MakeRule
<1>2. n = 3 /\ Done(t) /\ ~IsBroken(t) /\ ~WordlessFirst(t)
  BY <1>1, FetchedMeans
<1>3. ~Indented(t)
  BY <1>1, <1>2, IndentedMeans
<1>4. Len(MeantFields(t)) = 3 /\ StringAt(0) = MeantFields(t)[1] /\ Pattern = MeantFields(t)[2]
  BY <1>2, <1>3, RuleMeans
<1>5. MeansRule(t)
  BY <1>1, <1>2, <1>4 DEF MeansRule
<1> DEFINE third == MeantFields(t)[3]
           y == line[Following(Following(0))] = "Y"
           z == third # <<>> /\ third[1] = "Y"
<1>6. y <=> z
  BY <1>2, <1>3, RuleMeans
<1>7. rules' = Append(rules, [event |-> StringAt(0), pattern |-> Pattern, yes |-> y])
  BY DEF MakeRule
<1>8. MeantRule(t) = [event |-> MeantFields(t)[1], pattern |-> MeantFields(t)[2], yes |-> z]
  BY DEF MeantRule
<1>9. y = z
  BY <1>6
<1> HIDE DEF y, z
<1> QED
  BY <1>4, <1>5, <1>7, <1>8, <1>9

LEMMA RulesNext == RulesOK /\ [FetchNext]_fetchVars => RulesOK'
<1> SUFFICES ASSUME RulesOK, [FetchNext]_fetchVars PROVE RulesOK'
  OBVIOUS
<1>0. ParserOK /\ ParserOK' /\ LineTypeOK
  BY ParserNext DEF RulesOK, ParserOK
<1>1. lineno \in Nat /\ (fpc = "fetched" => lineno > 0)
  <2>1. ControlOK
    BY <1>0, LineTypeParts
  <2> QED
    BY <2>1 DEF ControlOK
<1>2. ASSUME UNCHANGED <<conf, rules>>, Dealt' = Dealt, fpc' # "abort"
      PROVE  RulesOK'
  <2>1. Clean(Dealt)' => Clean(Dealt)
    BY <1>2 DEF Clean
  <2>2. MeantRules(conf, Dealt)' = MeantRules(conf, Dealt)
    BY <1>2 DEF MeantRules, Ruled
  <2> QED
    BY <1>0, <1>2, <2>1, <2>2 DEF RulesOK
<1>3. CASE ReadLine \/ EndOfFile
  <2>1. UNCHANGED <<conf, rules>> /\ fpc = "fgets" /\ fpc' # "abort"
    BY <1>3 DEF ReadLine, EndOfFile
  <2>2. Dealt' = Dealt
    BY <1>1, <1>3, <2>1 DEF ReadLine, EndOfFile, Dealt
  <2> QED
    BY <1>2, <2>1, <2>2
<1>4. CASE FetchEnds \/ Separator \/ QuotedText \/ Quote \/ StrayBackslash \/ Backslash \/ Ordinary
  <2>1. Goes /\ fpc' \in {"scan", "fetched"}
    BY <1>4 DEF FetchEnds, Separator, QuotedText, Quote, StrayBackslash, Backslash, Ordinary,
                Loops, Goes, Return
  <2>2. UNCHANGED <<conf, rules>> /\ fpc' # "abort" /\ Dealt' = Dealt
    BY <2>1 DEF Goes, Dealt
  <2> QED
    BY <1>2, <2>2
<1>5. ASSUME fpc = "fetched", fpc' = "fgets", UNCHANGED <<conf, lineno>>,
             ~Misread(conf[lineno]) =>
                 rules' = IF MeansRule(conf[lineno]) THEN Append(rules, MeantRule(conf[lineno]))
                                                     ELSE rules
      PROVE  RulesOK'
  <2> PICK d \in Nat : d = lineno - 1
    BY <1>1, <1>5
  <2>1. Dealt = d /\ Dealt' = d + 1 /\ lineno = d + 1
    BY <1>1, <1>5 DEF Dealt
  <2>2. ASSUME Clean(d + 1)
        PROVE  rules' = MeantRules(conf, d + 1)
    <3>1. Clean(d) /\ ~Misread(conf[d + 1])
      <4>1. d + 1 \in 1..(d + 1) /\ \A k \in 1..d : k \in 1..(d + 1)
        OBVIOUS
      <4> QED
        BY <2>2, <4>1 DEF Clean
    <3>2. rules = MeantRules(conf, d)
      BY <2>1, <3>1 DEF RulesOK
    <3> QED
      BY <1>5, <2>1, <3>1, <3>2, RuledNext
  <2>3. Clean(Dealt)' => Clean(d + 1)
    BY <1>5, <2>1 DEF Clean
  <2>4. MeantRules(conf, Dealt)' = MeantRules(conf, d + 1)
    BY <1>5, <2>1 DEF MeantRules, Ruled
  <2> QED
    BY <1>0, <1>5, <2>2, <2>3, <2>4 DEF RulesOK
<1>6. CASE MakeRule
  <2>1. fpc = "fetched" /\ fpc' = "fgets" /\ UNCHANGED <<conf, lineno>>
    BY <1>6 DEF MakeRule, ReadRest
  <2>2. ~Misread(conf[lineno]) =>
           MeansRule(conf[lineno]) /\ rules' = Append(rules, MeantRule(conf[lineno]))
    BY <1>0, <1>6, MakeRuleMeans
  <2> QED
    BY <1>5, <2>1, <2>2
<1>7. CASE IgnoreLine
  <2>1. fpc = "fetched" /\ fpc' = "fgets" /\ UNCHANGED <<conf, lineno, rules>> /\ tmp = 0
    BY <1>7 DEF IgnoreLine, ReadRest
  <2>2. ASSUME NEW t, t = conf[lineno], ~Misread(t)
        PROVE  ~MeansRule(t)
    <3>1. n = 0 /\ Done(t) /\ ~WordlessFirst(t)
      BY <1>0, <2>1, <2>2, FetchedMeans
    <3>2. ~Indented(t)
      BY <3>1, IndentedMeans
    <3>3. Len(MeantFields(t)) = 0
      BY <3>1, <3>2, DoneMeans
    <3> QED
      BY <3>3 DEF MeansRule
  <2> QED
    BY <1>5, <2>1, <2>2
<1>8. CASE ConfigAbort
  <2>1. /\ fpc = "fetched" /\ fpc' = "abort" /\ UNCHANGED <<conf, lineno, rules>> /\ tmp # 0
        /\ tmp = 3 /\ StringAt(0) \in EventWord => Pattern \in BadRegex
    BY <1>8 DEF ConfigAbort, ReadRest
  <2>2. ASSUME NEW t, t = conf[lineno], ~Misread(t)
        PROVE  NoRule(t)
    <3>1. SUFFICES ASSUME ~Indented(t), ~IsBroken(t)
                   PROVE  ~MeansRule(t) /\ MeantFields(t) # <<>>
      BY DEF NoRule
    <3>2. tmp = n /\ Done(t) /\ ~WordlessFirst(t)
      BY <1>0, <2>1, <2>2, <3>1, FetchedMeans
    <3>3. MeantFields(t) # <<>> /\ n = Len(MeantFields(t))
      BY <2>1, <3>1, <3>2, DoneMeans
    <3>4. ~MeansRule(t)
      <4>1. SUFFICES ASSUME MeansRule(t) PROVE FALSE
        OBVIOUS
      <4>2. n = 3 /\ MeantFields(t)[1] \in EventWord /\ MeantFields(t)[2] \notin BadRegex
        BY <3>3, <4>1 DEF MeansRule
      <4>3. StringAt(0) = MeantFields(t)[1] /\ Pattern = MeantFields(t)[2]
        BY <3>1, <3>2, <4>2, RuleMeans
      <4> QED
        BY <2>1, <3>2, <4>2, <4>3
    <3> QED
      BY <3>3, <3>4
  <2>3. Dealt' = Dealt
    BY <2>1 DEF Dealt
  <2>4. (Clean(Dealt)' => Clean(Dealt)) /\ MeantRules(conf, Dealt)' = MeantRules(conf, Dealt)
    BY <2>1, <2>3 DEF Clean, MeantRules, Ruled
  <2>5. Clean(lineno)' => ~Misread(conf[lineno])
    <3>1. lineno \in 1..lineno
      BY <1>1, <2>1
    <3> QED
      BY <2>1, <3>1 DEF Clean
  <2>6. NoRule(conf[lineno])' <=> NoRule(conf[lineno])
    BY <2>1 DEF NoRule
  <2> QED
    BY <1>0, <2>1, <2>2, <2>4, <2>5, <2>6 DEF RulesOK
<1>9. CASE UNCHANGED fetchVars
  <2>1. UNCHANGED <<conf, lineno, rules, fpc>>
    BY <1>9 DEF fetchVars
  <2>2. Dealt' = Dealt /\ (Clean(Dealt)' <=> Clean(Dealt)) /\ (Clean(lineno)' <=> Clean(lineno))
    BY <2>1 DEF Dealt, Clean
  <2>3. MeantRules(conf, Dealt)' = MeantRules(conf, Dealt) /\ (NoRule(conf[lineno])' <=> NoRule(conf[lineno]))
    BY <2>1, <2>2 DEF MeantRules, Ruled, NoRule
  <2> QED
    BY <1>0, <2>1, <2>2, <2>3 DEF RulesOK
<1> QED
  BY <1>3, <1>4, <1>6, <1>7, <1>8, <1>9 DEF FetchNext

LEMMA RulesMeant == RulesOK => RulesAsMeant
<1> SUFFICES ASSUME RulesOK PROVE RulesAsMeant
  OBVIOUS
<1>1. ASSUME fpc = "done", Clean(lineno)
      PROVE  rules = MeantRules(conf, lineno)
  BY <1>1 DEF RulesOK, Dealt
<1>2. fpc = "abort" /\ Clean(lineno) => NoRule(conf[lineno])
  BY DEF RulesOK
<1> QED
  BY <1>1, <1>2 DEF RulesAsMeant, Clean, MeantRules, Ruled, NoRule

\* For any pkgadd.conf without one of the misread lines: when read_config
\* returns, the rules it has made are those the file means, all of them and in
\* their order; and when it aborts, its last line is no rule, or indented.
THEOREM FileAsMeant == FetchSpec => []RulesAsMeant
<1>1. FetchSpec => []RulesOK
  BY RulesInit, RulesNext, PTL DEF FetchSpec
<1> QED
  BY <1>1, RulesMeant, PTL
=============================================================================

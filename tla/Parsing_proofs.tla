--------------------------- MODULE Parsing_proofs ---------------------------
(***************************************************************************)
(* Proofs about the two parsers written by hand, for lines and texts of    *)
(* any length and for any words.                                           *)
(*                                                                         *)
(* The command line: what WriteCommand writes and what ReadCommand takes   *)
(* for a command are both described place by place (Laid, Spaced), so the  *)
(* two are compared without following the cuts of the parser again.        *)
(* The percentage: a text is read by its first character that is no digit, *)
(* and a number up to 100 is not too large for a float.                    *)
(***************************************************************************)
EXTENDS CommandCodec, SampleRate, SequenceTheorems, NaturalLemmas

(* What SelectInSeq selects from the places I.                             *)
First(I) == IF I # {} THEN Min(I) ELSE 0

(* The first of some places of a list, or 0 if there is none.              *)
LEMMA FirstIs ==
  ASSUME NEW n \in Nat, NEW I \in SUBSET (1..n)
  PROVE  /\ I = {} => First(I) = 0
         /\ I # {} => First(I) \in I /\ \A i \in I : First(I) <= i
<1>1. CASE I = {}
  BY <1>1 DEF First
<1>2. CASE I # {}
  <2>1. \E d \in I : \A e \in I : d <= e
    BY <1>2, Least
  <2>2. Min(I) \in I /\ \A i \in I : Min(I) <= i
    BY <2>1 DEF Min
  <2> QED
    BY <1>2, <2>2 DEF First
<1> QED
  BY <1>1, <1>2

-----------------------------------------------------------------------------
(* Cutting a line                                                          *)

(* IndexSpace finds the first space.                                       *)
LEMMA IndexSpaceIs ==
  ASSUME NEW S, NEW s \in Seq(S)
  PROVE  /\ IndexSpace(s) \in -1..(Len(s) - 1)
         /\ IndexSpace(s) = -1 => \A i \in 1..Len(s) : s[i] # SP
         /\ IndexSpace(s) # -1 => /\ s[IndexSpace(s) + 1] = SP
                                  /\ \A i \in 1..IndexSpace(s) : s[i] # SP
<1> DEFINE I == {i \in 1..Len(s) : s[i] = SP}
<1>1. IndexSpace(s) = First(I) - 1
  BY DEF IndexSpace, SelectInSeq, First
<1>2. Len(s) \in Nat /\ I \in SUBSET (1..Len(s))
  OBVIOUS
<1>3. /\ I = {} => First(I) = 0
      /\ I # {} => First(I) \in I /\ \A i \in I : First(I) <= i
  <2> HIDE DEF I
  <2> QED
    BY <1>2, FirstIs
<1>4. CASE I = {}
  BY <1>1, <1>2, <1>3, <1>4
<1>5. CASE I # {}
  <2>1. First(I) \in 1..Len(s) /\ s[First(I)] = SP
    BY <1>3, <1>5
  <2>2. \A i \in 1..(First(I) - 1) : s[i] # SP
    BY <1>2, <1>3, <1>5, <2>1
  <2> QED
    BY <1>1, <1>2, <2>1, <2>2
<1> QED
  BY <1>4, <1>5

(* NameIndex finds the name that the word is.                              *)
LEMMA NameIndexIs ==
  ASSUME NEW S, NEW names \in Seq(S), NEW word
  PROVE  /\ NameIndex(names, word) \in 0..Len(names)
         /\ NameIndex(names, word) = 0 => \A i \in 1..Len(names) : word # <<names[i]>>
         /\ NameIndex(names, word) # 0 => word = <<names[NameIndex(names, word)]>>
<1> DEFINE I == {i \in 1..Len(names) : word = <<names[i]>>}
<1>1. NameIndex(names, word) = First(I)
  BY DEF NameIndex, SelectInSeq, First
<1>2. Len(names) \in Nat /\ I \in SUBSET (1..Len(names))
  OBVIOUS
<1>3. /\ I = {} => First(I) = 0
      /\ I # {} => First(I) \in I
  <2> HIDE DEF I
  <2> QED
    BY <1>2, FirstIs
<1> QED
  BY <1>1, <1>2, <1>3

(* What is cut off in front and behind.                                    *)
LEMMA CutIs ==
  ASSUME NEW S, NEW s \in Seq(S), NEW n \in 0..Len(s)
  PROVE  /\ Take(s, n) \in Seq(S) /\ Len(Take(s, n)) = n
         /\ \A i \in 1..n : Take(s, n)[i] = s[i]
         /\ Drop(s, n) \in Seq(S) /\ Len(Drop(s, n)) = Len(s) - n
         /\ \A i \in 1..Len(s) - n : Drop(s, n)[i] = s[n + i]
<1>1. /\ Len(s) \in Nat /\ n \in Nat /\ 1 \in 1..Len(s) + 1 /\ n \in 1 - 1..Len(s)
      /\ n + 1 \in 1..Len(s) + 1 /\ Len(s) \in (n + 1) - 1..Len(s)
  OBVIOUS
<1>2. /\ SubSeq(s, 1, n) \in Seq(S) /\ Len(SubSeq(s, 1, n)) = n
      /\ \A i \in 1..n : SubSeq(s, 1, n)[i] = s[i]
  <2>1. /\ SubSeq(s, 1, n) \in Seq(S)
        /\ Len(SubSeq(s, 1, n)) = IF 1 <= n THEN n - 1 + 1 ELSE 0
        /\ \A i \in 1..n - 1 + 1 : SubSeq(s, 1, n)[i] = s[1 + i - 1]
    BY <1>1, SubSeqProperties
  <2> QED
    BY <1>1, <2>1
<1>3. /\ SubSeq(s, n + 1, Len(s)) \in Seq(S) /\ Len(SubSeq(s, n + 1, Len(s))) = Len(s) - n
      /\ \A i \in 1..Len(s) - n : SubSeq(s, n + 1, Len(s))[i] = s[n + i]
  <2>1. /\ SubSeq(s, n + 1, Len(s)) \in Seq(S)
        /\ Len(SubSeq(s, n + 1, Len(s))) = IF n + 1 <= Len(s) THEN Len(s) - (n + 1) + 1 ELSE 0
        /\ \A i \in 1..Len(s) - (n + 1) + 1 : SubSeq(s, n + 1, Len(s))[i] = s[(n + 1) + i - 1]
    BY <1>1, SubSeqProperties
  <2> QED
    BY <1>1, <2>1
<1> QED
  BY <1>2, <1>3 DEF Take, Drop

(* The line without its end.                                               *)
LEMMA FrontIs ==
  ASSUME NEW S, NEW s \in Seq(S), Len(s) > 0
  PROVE  /\ Front(s) \in Seq(S) /\ Len(Front(s)) = Len(s) - 1
         /\ \A i \in 1..Len(s) - 1 : Front(s)[i] = s[i]
<1> DEFINE n == Len(s) - 1
<1>1. n \in 0..Len(s) /\ Front(s) = Take(s, n)
  BY DEF Front, Take
<1> HIDE DEF n
<1>2. /\ Front(s) \in Seq(S) /\ Len(Front(s)) = n
      /\ \A i \in 1..n : Front(s)[i] = s[i]
  BY <1>1, CutIs
<1> QED
  BY <1>2 DEF n

-----------------------------------------------------------------------------
(* What is written                                                         *)

Symbols == Tokens \cup {NL}

(* c is a command with any identifier and arguments.                       *)
Sendable(c) ==
  /\ c.type \in 0..1 /\ c.level \in -1..1
  /\ c.id \in Seq(Symbols) /\ c.args \in Seq(Symbols)

(* How many tokens follow the level: a space and the arguments, if there   *)
(* are any.                                                                *)
Rest(c) == IF c.args = <<>> THEN 0 ELSE Len(c.args) + 1

(* The line s is that of command c.                                        *)
Laid(s, c) ==
  LET k == Len(c.id) IN
  /\ s \in Seq(Symbols) /\ Len(s) = k + 4 + Rest(c) + 1
  /\ s[1] = commandType[c.type + 1] /\ s[2] = SP
  /\ \A i \in 1..k : s[2 + i] = c.id[i]
  /\ s[k + 3] = SP /\ s[k + 4] = level[c.level + 2]
  /\ c.args # <<>> => s[k + 5] = SP
  /\ \A i \in 1..Len(c.args) : s[k + 5 + i] = c.args[i]
  /\ s[Len(s)] = NL

(* The names are tokens.                                                   *)
LEMMA NamesAre ==
  /\ commandType \in Seq(Tokens) /\ Len(commandType) = 2
  /\ level \in Seq(Tokens) /\ Len(level) = 3
  /\ SP \in Symbols /\ NL \in Symbols /\ Tokens \subseteq Symbols
  /\ \A i \in 1..2 : commandType[i] # SP
  /\ \A i \in 1..3 : level[i] # SP
<1>1. ToSet(commandType) = {"eval", "list"} /\ ToSet(level) = {"taciturn", "normal", "verbose"}
  BY DEF ToSet, commandType, level
<1> QED
  BY <1>1 DEF Tokens, Names, Symbols, commandType, level, SP

(* The list j has the m places of a and behind them the n places of b.     *)
Joins(S, a, m, b, n, j) ==
  /\ j \in Seq(S) /\ Len(j) = m + n
  /\ \A i \in 1..m : j[i] = a[i]
  /\ \A i \in 1..n : j[m + i] = b[i]

(* That is what concatenation makes.                                       *)
LEMMA JoinIs ==
  ASSUME NEW S, NEW a \in Seq(S), NEW b \in Seq(S), NEW m, m = Len(a), NEW n, n = Len(b)
  PROVE  Joins(S, a, m, b, n, a \o b)
<1> DEFINE j == a \o b
<1>1. /\ j \in Seq(S) /\ Len(j) = m + n
      /\ \A i \in 1..m + n : j[i] = IF i <= m THEN a[i] ELSE b[i - m]
  BY ConcatProperties
<1>2. m \in Nat /\ n \in Nat
  OBVIOUS
<1> HIDE DEF j
<1>3. \A i \in 1..m : j[i] = a[i]
  BY <1>1, <1>2
<1>4. ASSUME NEW i \in 1..n PROVE j[m + i] = b[i]
  <2>1. m + i \in 1..m + n /\ ~ (m + i <= m) /\ (m + i) - m = i
    BY <1>2
  <2> QED
    BY <1>1, <2>1
<1> QED
  BY <1>1, <1>3, <1>4 DEF Joins, j

(* WriteCommand writes the line of its command.                            *)
LEMMA WriteIs ==
  ASSUME NEW c, Sendable(c)
  PROVE  Laid(WriteCommand(c), c)
<1> DEFINE S == Symbols
           k == Len(c.id)
           n == Len(c.args)
           a == <<commandType[c.type + 1], SP>>
           d == <<SP, level[c.level + 2]>>
           e == IF c.args = <<>> THEN <<>> ELSE <<SP>> \o c.args
           z == <<NL>>
           f == a \o c.id
           g == f \o d
           h == g \o e
           w == h \o z
<1>1. /\ c.id \in Seq(S) /\ c.args \in Seq(S) /\ k \in Nat /\ n \in Nat
      /\ c.args # <<>> => n > 0
  <2>1. c.id \in Seq(S) /\ c.args \in Seq(S)
    BY NamesAre, SeqMonotonic DEF Sendable
  <2> QED
    BY <2>1, EmptySeq
<1>2. /\ a \in Seq(S) /\ Len(a) = 2 /\ a[1] = commandType[c.type + 1] /\ a[2] = SP
      /\ d \in Seq(S) /\ Len(d) = 2 /\ d[1] = SP /\ d[2] = level[c.level + 2]
      /\ z \in Seq(S) /\ Len(z) = 1 /\ z[1] = NL
  <2>1. c.type + 1 \in 1..2 /\ c.level + 2 \in 1..3
    BY DEF Sendable
  <2>2. commandType[c.type + 1] \in Tokens /\ level[c.level + 2] \in Tokens
    BY <2>1, NamesAre, ElementOfSeq
  <2> QED
    BY <2>2, NamesAre
<1>9. Rest(c) \in Nat /\ (c.args # <<>> => Rest(c) = n + 1)
  BY <1>1 DEF Rest
<1>3. /\ e \in Seq(S) /\ Len(e) = Rest(c)
      /\ c.args # <<>> => e[1] = SP
      /\ \A i \in 1..n : e[1 + i] = c.args[i]
  <2>1. CASE c.args = <<>>
    BY <1>1, <2>1, EmptySeq DEF Rest
  <2>2. CASE c.args # <<>>
    <3> DEFINE o == <<SP>>
    <3>1. o \in Seq(S) /\ Len(o) = 1 /\ o[1] = SP
      BY NamesAre
    <3>2. e = o \o c.args
      BY <2>2
    <3> HIDE DEF o, e
    <3>3. Joins(S, o, 1, c.args, n, e)
      BY <1>1, <3>1, <3>2, JoinIs
    <3> QED
      BY <1>1, <2>2, <3>1, <3>3 DEF Rest, Joins
  <2> QED
    BY <2>1, <2>2
<1>4. WriteCommand(c) = w /\ f = a \o c.id /\ g = f \o d /\ h = g \o e /\ w = h \o z
  BY DEF WriteCommand
<1> HIDE DEF a, d, e, z, f, g, h, w
<1>5. Joins(S, a, 2, c.id, k, f)
  BY <1>1, <1>2, <1>4, JoinIs
<1>6. Joins(S, f, k + 2, d, 2, g)
  <2>1. f \in Seq(S) /\ Len(f) = k + 2
    BY <1>1, <1>5 DEF Joins
  <2> QED
    BY <1>2, <1>4, <2>1, JoinIs
<1>7. Joins(S, g, k + 4, e, Rest(c), h)
  <2>1. g \in Seq(S) /\ Len(g) = k + 4
    BY <1>1, <1>6 DEF Joins
  <2> QED
    BY <1>3, <1>4, <2>1, JoinIs
<1>8. Joins(S, h, k + 4 + Rest(c), z, 1, w)
  <2>1. h \in Seq(S) /\ Len(h) = k + 4 + Rest(c)
    BY <1>1, <1>7 DEF Joins
  <2> QED
    BY <1>2, <1>4, <2>1, JoinIs
<1>10. ASSUME NEW i \in 1..k + 4 PROVE w[i] = g[i]
  <2>1. i \in 1..k + 4 + Rest(c)
    BY <1>1, <1>9
  <2> QED
    BY <1>7, <1>8, <2>1 DEF Joins
<1>11. w[1] = commandType[c.type + 1] /\ w[2] = SP
  <2>1. \A i \in {1, 2} : i \in 1..k + 4 /\ i \in 1..k + 2 /\ i \in 1..2
    BY <1>1
  <2>2. \A i \in {1, 2} : w[i] = a[i]
    BY <1>5, <1>6, <1>10, <2>1 DEF Joins
  <2> QED
    BY <1>2, <2>2
<1>12. ASSUME NEW i \in 1..k PROVE w[2 + i] = c.id[i]
  <2>1. 2 + i \in 1..k + 4 /\ 2 + i \in 1..k + 2
    BY <1>1
  <2> QED
    BY <1>5, <1>6, <1>10, <2>1 DEF Joins
<1>13. w[k + 3] = SP /\ w[k + 4] = level[c.level + 2]
  <2>1. k + 3 \in 1..k + 4 /\ k + 4 \in 1..k + 4 /\ k + 3 = k + 2 + 1 /\ k + 4 = k + 2 + 2
    BY <1>1
  <2>2. g[k + 2 + 1] = d[1] /\ g[k + 2 + 2] = d[2]
    BY <1>6 DEF Joins
  <2> QED
    BY <1>2, <1>10, <2>1, <2>2
<1>14. ASSUME NEW i \in 1..Rest(c) PROVE w[k + 4 + i] = e[i]
  <2>1. k + 4 + i \in 1..k + 4 + Rest(c)
    BY <1>1, <1>9
  <2> QED
    BY <1>7, <1>8, <2>1 DEF Joins
<1>15. c.args # <<>> => w[k + 5] = SP
  <2>1. c.args # <<>> => 1 \in 1..Rest(c) /\ k + 4 + 1 = k + 5
    BY <1>1, <1>9
  <2> QED
    BY <1>3, <1>14, <2>1
<1>16. ASSUME NEW i \in 1..n PROVE w[k + 5 + i] = c.args[i]
  <2>1. c.args # <<>>
    BY EmptySeq
  <2>2. Rest(c) = n + 1 /\ n \in Nat /\ k \in Nat
    BY <1>1, <1>9, <2>1
  <2>3. 1 + i \in 1..Rest(c) /\ k + 4 + (1 + i) = k + 5 + i
    <3> HIDE DEF k, n
    <3> QED
      BY <2>2
  <2> QED
    BY <1>3, <1>14, <2>3
<1>17. Len(w) = k + 4 + Rest(c) + 1 /\ w \in Seq(S) /\ w[Len(w)] = NL
  <2>1. Len(w) = k + 4 + Rest(c) + 1 /\ w \in Seq(S) /\ w[k + 4 + Rest(c) + 1] = z[1]
    BY <1>8 DEF Joins
  <2> QED
    BY <1>2, <2>1
<1> QED
  BY <1>4, <1>11, <1>12, <1>13, <1>15, <1>16, <1>17 DEF Laid

-----------------------------------------------------------------------------
(* What is read                                                            *)

(* The line s is that of command c, which has no arguments, with a space   *)
(* after the level.                                                        *)
Spaced(s, c) ==
  LET k == Len(c.id) IN
  /\ c.args = <<>>
  /\ s \in Seq(Symbols) /\ Len(s) = k + 6
  /\ s[1] = commandType[c.type + 1] /\ s[2] = SP
  /\ \A i \in 1..k : s[2 + i] = c.id[i]
  /\ s[k + 3] = SP /\ s[k + 4] = level[c.level + 2] /\ s[k + 5] = SP
  /\ s[k + 6] = NL

(* A level is one token, and a space is behind it.                         *)
LEMMA ReadLevelIs ==
  ASSUME NEW t, NEW id, NEW rem \in Seq(Symbols), ReadLevel(t, id, rem).kind = "command"
  PROVE  \E l \in 1..3 : /\ Len(rem) >= 3 /\ rem[1] = level[l] /\ rem[2] = SP
                         /\ ReadLevel(t, id, rem) = Parsed(t, id, l - 2, Drop(Front(rem), 2))
<1> DEFINE s == IndexSpace(rem)
           p == IF s < 1 THEN Len(rem) - 1 ELSE s
           l == NameIndex(level, Take(rem, p))
<1>1. /\ ~ (p < 1) /\ l # 0 /\ ~ (p + 1 > Len(rem) - 1)
      /\ ReadLevel(t, id, rem) = Parsed(t, id, l - 2, Drop(Front(rem), p + 1))
  BY DEF ReadLevel, Failed, Panicked
<1>2. /\ Len(rem) \in Nat /\ s \in -1..(Len(rem) - 1)
      /\ s # -1 => rem[s + 1] = SP
  BY IndexSpaceIs
<1> HIDE DEF s
<1>3. p \in 1..Len(rem)
  BY <1>1, <1>2
<1>4. Len(Take(rem, p)) = p /\ Take(rem, p)[1] = rem[1]
  <2> HIDE DEF p
  <2>1. p \in 0..Len(rem) /\ 1 \in 1..p
    BY <1>2, <1>3
  <2> QED
    BY <2>1, CutIs
<1>5. l \in 1..3 /\ Take(rem, p) = <<level[l]>>
  <2> HIDE DEF p
  <2>1. l \in 0..Len(level) /\ (l # 0 => Take(rem, p) = <<level[l]>>)
    BY NameIndexIs, NamesAre
  <2> QED
    BY <1>1, <2>1, NamesAre
<1> HIDE DEF l
<1>6. p = 1 /\ rem[1] = level[l]
  <2> HIDE DEF p
  <2>1. Len(<<level[l]>>) = 1 /\ <<level[l]>>[1] = level[l]
    OBVIOUS
  <2> QED
    BY <1>4, <1>5, <2>1
<1>7. s = 1 /\ Len(rem) >= 3
  BY <1>1, <1>2, <1>6
<1> QED
  BY <1>1, <1>2, <1>5, <1>6, <1>7

(* The identifier ends at the first space.                                 *)
LEMMA ReadIDIs ==
  ASSUME NEW t, NEW rem \in Seq(Symbols), ReadID(t, rem).kind = "command"
  PROVE  /\ IndexSpace(rem) >= 1
         /\ ReadID(t, rem) =
              ReadLevel(t, Take(rem, IndexSpace(rem)), Drop(rem, IndexSpace(rem) + 1))
<1> DEFINE p == IndexSpace(rem)
<1>1. Failed.kind # "command"
  BY DEF Failed
<1>2. p \in Int
  BY IndexSpaceIs
<1>3. CASE p < 1
  BY <1>1, <1>3 DEF ReadID
<1>4. CASE ~ (p < 1)
  BY <1>2, <1>4 DEF ReadID
<1> QED
  BY <1>3, <1>4

(* A line of which a command of known type is read has its tokens.         *)
LEMMA ReadIs ==
  ASSUME NEW s \in Seq(Symbols), Len(s) > 0, s[Len(s)] = NL,
         NEW r, r = ReadCommand(s), r.kind = "command", r.cmd.type # -1
  PROVE  Sendable(r.cmd) /\ (Laid(s, r.cmd) \/ Spaced(s, r.cmd))
<1> DEFINE p == IndexSpace(s)
           t == NameIndex(commandType, Take(s, p))
           u == Drop(s, p + 1)
           q == IndexSpace(u)
           v == Drop(u, q + 1)
           id == Take(u, q)
<1>1. p >= 1 /\ r = ReadID(t - 1, u)
  <2>1. Failed.kind # "command"
    BY DEF Failed
  <2>2. p \in Int
    BY IndexSpaceIs
  <2>3. ~ (p < 1)
    BY <2>1 DEF ReadCommand
  <2> QED
    BY <2>2, <2>3 DEF ReadCommand
<1>3. /\ Len(s) \in Nat /\ p \in 1..(Len(s) - 1) /\ s[p + 1] = SP
  BY <1>1, IndexSpaceIs
<1> HIDE DEF p
<1>4. /\ u \in Seq(Symbols) /\ Len(u) = Len(s) - (p + 1)
      /\ \A i \in 1..Len(s) - (p + 1) : u[i] = s[p + 1 + i]
      /\ Len(Take(s, p)) = p /\ Take(s, p)[1] = s[1]
  <2>1. p + 1 \in 0..Len(s) /\ p \in 0..Len(s) /\ 1 \in 1..p
    BY <1>3
  <2> QED
    BY <2>1, CutIs
<1> HIDE DEF u
<1>2. q >= 1 /\ r = ReadLevel(t - 1, id, v)
  BY <1>1, <1>4, ReadIDIs
<1>5. /\ q \in 1..(Len(u) - 1) /\ u[q + 1] = SP
  <2>1. q \in -1..(Len(u) - 1) /\ (q # -1 => u[q + 1] = SP)
    BY <1>4, IndexSpaceIs
  <2> HIDE DEF q
  <2>2. Len(u) \in Nat
    BY <1>4
  <2> QED
    BY <1>2, <2>1, <2>2
<1> HIDE DEF q
<1>6. /\ v \in Seq(Symbols) /\ Len(v) = Len(u) - (q + 1)
      /\ \A i \in 1..Len(u) - (q + 1) : v[i] = u[q + 1 + i]
      /\ id \in Seq(Symbols) /\ Len(id) = q
      /\ \A i \in 1..q : id[i] = u[i]
  <2>1. Len(u) \in Nat /\ q + 1 \in 0..Len(u) /\ q \in 0..Len(u)
    BY <1>4, <1>5
  <2> QED
    BY <1>4, <2>1, CutIs
<1> HIDE DEF v, id
<1>7. PICK l \in 1..3 :
        /\ Len(v) >= 3 /\ v[1] = level[l] /\ v[2] = SP
        /\ r = Parsed(t - 1, id, l - 2, Drop(Front(v), 2))
  BY <1>2, <1>6, ReadLevelIs
<1> DEFINE args == Drop(Front(v), 2)
           m == Len(v) - 3
<1>8. /\ args \in Seq(Symbols) /\ Len(args) = m
      /\ \A i \in 1..m : args[i] = v[2 + i]
  <2> DEFINE w == Front(v)
  <2>1. /\ w \in Seq(Symbols) /\ Len(w) = Len(v) - 1
        /\ \A i \in 1..Len(v) - 1 : w[i] = v[i]
    <3>1. Len(v) > 0
      BY <1>6, <1>7
    <3> QED
      BY <1>6, <3>1, FrontIs
  <2> HIDE DEF w
  <2>2. Len(v) \in Nat /\ 2 \in 0..Len(w)
    BY <1>6, <1>7, <2>1
  <2>3. /\ Drop(w, 2) \in Seq(Symbols) /\ Len(Drop(w, 2)) = Len(w) - 2
        /\ \A i \in 1..Len(w) - 2 : Drop(w, 2)[i] = w[2 + i]
    BY <2>1, <2>2, CutIs
  <2>4. ASSUME NEW i \in 1..m PROVE Drop(w, 2)[i] = v[2 + i]
    <3>1. i \in 1..Len(w) - 2 /\ 2 + i \in 1..Len(v) - 1
      BY <2>1, <2>2
    <3>2. Drop(w, 2)[i] = w[2 + i]
      BY <2>3, <3>1
    <3> QED
      BY <2>1, <3>1, <3>2
  <2> QED
    BY <2>1, <2>2, <2>3, <2>4 DEF w
<1>9. /\ r.cmd.type = t - 1 /\ r.cmd.id = id /\ r.cmd.level = l - 2 /\ r.cmd.args = args
  BY <1>7 DEF Parsed
<1> HIDE DEF args
<1>10. t \in 1..2 /\ Take(s, p) = <<commandType[t]>>
  <2>1. t \in 0..2 /\ (t # 0 => Take(s, p) = <<commandType[t]>>)
    BY NameIndexIs, NamesAre
  <2> QED
    BY <1>9, <2>1
<1> HIDE DEF t
<1>11. p = 1 /\ s[1] = commandType[t]
  <2>1. Len(<<commandType[t]>>) = 1 /\ <<commandType[t]>>[1] = commandType[t]
    OBVIOUS
  <2> QED
    BY <1>4, <1>10, <2>1
<1>12. Sendable(r.cmd)
  <2>1. t - 1 \in 0..1 /\ l - 2 \in -1..1
    BY <1>10
  <2> QED
    BY <1>6, <1>8, <1>9, <2>1 DEF Sendable
<1>13. Len(v) \in Nat /\ Len(s) = q + m + 6 /\ m \in Nat /\ q \in Nat
  <2>1. Len(v) \in Nat /\ Len(v) >= 3 /\ Len(u) \in Nat /\ q \in Nat /\ Len(s) \in Nat
    BY <1>3, <1>4, <1>5, <1>6, <1>7
  <2>2. Len(v) = Len(u) - (q + 1) /\ Len(u) = Len(s) - 2
    BY <1>4, <1>6, <1>11
  <2> QED
    BY <2>1, <2>2
<1>14. ASSUME NEW i \in 1..q PROVE s[2 + i] = id[i]
  <2>1. i \in 1..Len(s) - (p + 1) /\ p + 1 + i = 2 + i
    BY <1>3, <1>4, <1>5, <1>11
  <2> QED
    BY <1>4, <1>6, <2>1
<1>15. s[q + 3] = SP
  BY <1>3, <1>4, <1>5, <1>11
<1>16. ASSUME NEW i \in 1..m + 3 PROVE s[q + 3 + i] = v[i]
  <2>1. i \in 1..Len(u) - (q + 1) /\ q + 1 + i \in 1..Len(s) - (p + 1)
    <3>1. Len(u) = q + m + 4 /\ Len(s) - (p + 1) = q + m + 4
      BY <1>3, <1>4, <1>11, <1>13
    <3> HIDE DEF m
    <3> QED
      BY <1>13, <3>1
  <2>2. p + 1 + (q + 1 + i) = q + 3 + i
    BY <1>11, <1>13
  <2> QED
    BY <1>4, <1>6, <2>1, <2>2
<1>17. s[q + 4] = level[l] /\ s[q + 5] = SP
  <2>1. 1 \in 1..m + 3 /\ 2 \in 1..m + 3 /\ q + 3 + 1 = q + 4 /\ q + 3 + 2 = q + 5
    BY <1>13
  <2> QED
    BY <1>7, <1>16, <2>1
<1>18. ASSUME NEW i \in 1..m PROVE s[q + 5 + i] = args[i]
  <2>1. 2 + i \in 1..m + 3 /\ q + 3 + (2 + i) = q + 5 + i
    BY <1>13
  <2> QED
    BY <1>8, <1>16, <2>1
<1>19. CASE args = <<>>
  BY <1>8, <1>9, <1>10, <1>11, <1>12, <1>13, <1>14, <1>15, <1>17, <1>19, <1>3, <1>6 DEF Spaced
<1>20. CASE args # <<>>
  <2> HIDE DEF m
  <2>1. Rest(r.cmd) = m + 1
    BY <1>8, <1>9, <1>20 DEF Rest
  <2>2. Len(s) = q + 4 + Rest(r.cmd) + 1
    BY <1>13, <2>1
  <2>3. s[1] = commandType[r.cmd.type + 1] /\ s[q + 4] = level[r.cmd.level + 2]
    BY <1>9, <1>10, <1>11, <1>17
  <2>4. s[2] = SP /\ Len(r.cmd.id) = q
    BY <1>3, <1>6, <1>9, <1>11
  <2>5. \A i \in 1..Len(r.cmd.args) : s[q + 5 + i] = r.cmd.args[i]
    BY <1>8, <1>9, <1>18
  <2>6. \A i \in 1..q : s[2 + i] = r.cmd.id[i]
    BY <1>9, <1>14
  <2>7. Laid(s, r.cmd)
    BY <1>15, <1>17, <2>2, <2>3, <2>4, <2>5, <2>6 DEF Laid
  <2> QED
    BY <1>12, <2>7
<1> QED
  BY <1>12, <1>19, <1>20

-----------------------------------------------------------------------------
(* Written and read again                                                  *)

(* Where the first space is.                                               *)
LEMMA SpaceAt ==
  ASSUME NEW S, NEW s \in Seq(S), NEW n \in Nat, n < Len(s), s[n + 1] = SP,
         \A i \in 1..n : s[i] # SP
  PROVE  IndexSpace(s) = n
<1> DEFINE p == IndexSpace(s)
<1>1. /\ p \in -1..(Len(s) - 1) /\ Len(s) \in Nat
      /\ p = -1 => \A i \in 1..Len(s) : s[i] # SP
      /\ p # -1 => s[p + 1] = SP /\ \A i \in 1..p : s[i] # SP
  BY IndexSpaceIs
<1> HIDE DEF p
<1>2. p # -1
  BY <1>1
<1>3. ~ (p < n)
  BY <1>1, <1>2
<1>4. ~ (n < p)
  BY <1>1, <1>2
<1> QED
  BY <1>1, <1>3, <1>4 DEF p

(* The names are told apart.                                               *)
LEMMA NamesDiffer ==
  /\ \A i \in 1..2 : NameIndex(commandType, <<commandType[i]>>) = i
  /\ \A i \in 1..3 : NameIndex(level, <<level[i]>>) = i
<1>1. ASSUME NEW i \in 1..2 PROVE NameIndex(commandType, <<commandType[i]>>) = i
  <2> DEFINE w == <<commandType[i]>>
             n == NameIndex(commandType, w)
  <2>1. /\ n \in 0..2 /\ (n = 0 => \A j \in 1..2 : w # <<commandType[j]>>)
        /\ n # 0 => w = <<commandType[n]>>
    BY NameIndexIs, NamesAre
  <2> HIDE DEF n
  <2>2. n \in 1..2 /\ commandType[n] = commandType[i]
    BY <2>1
  <2>3. n = i
    BY <2>2 DEF commandType
  <2> QED
    BY <2>3 DEF n
<1>2. ASSUME NEW i \in 1..3 PROVE NameIndex(level, <<level[i]>>) = i
  <2> DEFINE w == <<level[i]>>
             n == NameIndex(level, w)
  <2>1. /\ n \in 0..3 /\ (n = 0 => \A j \in 1..3 : w # <<level[j]>>)
        /\ n # 0 => w = <<level[n]>>
    BY NameIndexIs, NamesAre
  <2> HIDE DEF n
  <2>2. n \in 1..3 /\ level[n] = level[i]
    BY <2>1
  <2>3. n = i
    BY <2>2 DEF level
  <2> QED
    BY <2>3 DEF n
<1> QED
  BY <1>1, <1>2

(* The first token of a line with a space behind it.                       *)
LEMMA FirstToken ==
  ASSUME NEW S, NEW s \in Seq(S), Len(s) > 1, s[1] # SP, s[2] = SP
  PROVE  /\ IndexSpace(s) = 1 /\ Take(s, 1) = <<s[1]>>
         /\ Drop(s, 2) \in Seq(S) /\ Len(Drop(s, 2)) = Len(s) - 2
         /\ \A i \in 1..Len(s) - 2 : Drop(s, 2)[i] = s[2 + i]
<1>1. IndexSpace(s) = 1
  <2>1. 1 \in Nat /\ 1 + 1 = 2 /\ \A i \in 1..1 : s[i] # SP
    OBVIOUS
  <2> QED
    BY <2>1, SpaceAt
<1>2. 1 \in 0..Len(s) /\ 2 \in 0..Len(s)
  OBVIOUS
<1>3. Take(s, 1) = <<s[1]>>
  <2>1. /\ Take(s, 1) \in Seq(S) /\ Len(Take(s, 1)) = 1
        /\ \A i \in 1..1 : Take(s, 1)[i] = s[i]
    BY <1>2, CutIs
  <2> DEFINE h == Take(s, 1)
  <2>2. h \in Seq(S) /\ Len(h) = 1 /\ h[1] = s[1]
    BY <2>1
  <2> HIDE DEF h
  <2>3. h = <<s[1]>>
    BY <2>2
  <2> QED
    BY <2>3 DEF h
<1> QED
  BY <1>1, <1>2, <1>3, CutIs

(* A command with arguments is read as it was written.                     *)
LEMMA RoundTrip ==
  ASSUME NEW c, Sendable(c), Len(c.id) = 1, c.id[1] # SP, c.args # <<>>
  PROVE  ReadCommand(WriteCommand(c)) = Parsed(c.type, c.id, c.level, c.args)
<1> DEFINE s == WriteCommand(c)
           n == Len(c.args)
           u == Drop(s, 2)
           v == Drop(u, 2)
<1>1. /\ n \in Nat /\ n > 0 /\ c.args \in Seq(Symbols) /\ c.id \in Seq(Symbols)
      /\ c.type + 1 \in 1..2 /\ c.level + 2 \in 1..3
  BY EmptySeq DEF Sendable
<1>2. /\ s \in Seq(Symbols) /\ Len(s) = n + 7
      /\ s[1] = commandType[c.type + 1] /\ s[2] = SP
      /\ s[3] = c.id[1] /\ s[4] = SP /\ s[5] = level[c.level + 2] /\ s[6] = SP
      /\ \A i \in 1..n : s[6 + i] = c.args[i]
  <2>1. Laid(s, c)
    BY WriteIs
  <2>2. Rest(c) = n + 1
    BY DEF Rest
  <2> HIDE DEF s
  <2> QED
    BY <1>1, <2>1, <2>2 DEF Laid
<1> HIDE DEF s, n
<1>3. s[1] # SP /\ s[5] # SP
  BY <1>1, <1>2, NamesAre
<1>4. /\ IndexSpace(s) = 1 /\ Take(s, 1) = <<s[1]>>
      /\ u \in Seq(Symbols) /\ Len(u) = n + 5
      /\ \A i \in 1..n + 5 : u[i] = s[2 + i]
  <2>1. Len(s) > 1 /\ Len(s) - 2 = n + 5
    BY <1>1, <1>2
  <2>2. /\ IndexSpace(s) = 1 /\ Take(s, 1) = <<s[1]>>
        /\ Drop(s, 2) \in Seq(Symbols) /\ Len(Drop(s, 2)) = Len(s) - 2
        /\ \A i \in 1..Len(s) - 2 : Drop(s, 2)[i] = s[2 + i]
    BY <1>2, <1>3, <2>1, FirstToken
  <2> QED
    BY <2>1, <2>2
<1> HIDE DEF u
<1>5. u[1] = c.id[1] /\ u[2] = SP
  <2>1. 1 \in 1..n + 5 /\ 2 \in 1..n + 5
    BY <1>1
  <2> QED
    BY <1>2, <1>4, <2>1
<1>6. /\ IndexSpace(u) = 1 /\ Take(u, 1) = <<u[1]>>
      /\ v \in Seq(Symbols) /\ Len(v) = n + 3
      /\ \A i \in 1..n + 3 : v[i] = s[4 + i]
  <2>1. Len(u) > 1 /\ Len(u) - 2 = n + 3
    BY <1>1, <1>4
  <2>4. u[1] # SP
    BY <1>5
  <2>5. /\ IndexSpace(u) = 1 /\ Take(u, 1) = <<u[1]>>
        /\ Drop(u, 2) \in Seq(Symbols) /\ Len(Drop(u, 2)) = Len(u) - 2
        /\ \A i \in 1..Len(u) - 2 : Drop(u, 2)[i] = u[2 + i]
    BY <1>4, <1>5, <2>1, <2>4, FirstToken
  <2>2. /\ IndexSpace(u) = 1 /\ Take(u, 1) = <<u[1]>>
        /\ v \in Seq(Symbols) /\ Len(v) = n + 3
        /\ \A i \in 1..n + 3 : v[i] = u[2 + i]
    BY <2>1, <2>5
  <2> HIDE DEF v
  <2>3. ASSUME NEW i \in 1..n + 3 PROVE u[2 + i] = s[4 + i]
    <3>1. 2 + i \in 1..n + 5 /\ 2 + (2 + i) = 4 + i
      BY <1>1
    <3> QED
      BY <1>4, <3>1
  <2> QED
    BY <2>2, <2>3
<1> HIDE DEF v
<1>7. v[1] = level[c.level + 2] /\ v[2] = SP /\ v[1] # SP
  <2>1. 1 \in 1..n + 3 /\ 2 \in 1..n + 3
    BY <1>1
  <2> QED
    BY <1>2, <1>3, <1>6, <2>1
<1>8. IndexSpace(v) = 1 /\ Take(v, 1) = <<v[1]>>
  <2>1. Len(v) > 1
    BY <1>1, <1>6
  <2> QED
    BY <1>6, <1>7, <2>1, FirstToken
<1>9. Drop(Front(v), 2) = c.args
  <2> DEFINE f == Front(v)
             a == Drop(f, 2)
  <2>1. /\ f \in Seq(Symbols) /\ Len(f) = n + 2
        /\ \A i \in 1..n + 2 : f[i] = v[i]
    <3>1. Len(v) > 0 /\ Len(v) - 1 = n + 2
      BY <1>1, <1>6
    <3> QED
      BY <1>6, <3>1, FrontIs
  <2> HIDE DEF f
  <2>2. /\ a \in Seq(Symbols) /\ Len(a) = n
        /\ \A i \in 1..n : a[i] = f[2 + i]
    <3>1. 2 \in 0..Len(f) /\ Len(f) - 2 = n
      BY <1>1, <2>1
    <3>2. /\ Drop(f, 2) \in Seq(Symbols) /\ Len(Drop(f, 2)) = Len(f) - 2
          /\ \A i \in 1..Len(f) - 2 : Drop(f, 2)[i] = f[2 + i]
      BY <2>1, <3>1, CutIs
    <3> QED
      BY <3>1, <3>2
  <2> HIDE DEF a
  <2>3. ASSUME NEW i \in 1..n PROVE a[i] = c.args[i]
    <3>1. /\ 2 + i \in 1..n + 2 /\ 2 + i \in 1..n + 3 /\ 4 + (2 + i) = 6 + i
      BY <1>1
    <3>2. a[i] = f[2 + i] /\ f[2 + i] = v[2 + i]
      BY <2>1, <2>2, <3>1
    <3>3. v[2 + i] = s[4 + (2 + i)]
      BY <1>6, <3>1
    <3>4. s[4 + (2 + i)] = c.args[i]
      BY <1>2, <3>1
    <3> QED
      BY <3>2, <3>3, <3>4
  <2>4. a = c.args
    <3>1. Len(a) = Len(c.args) /\ \A i \in 1..Len(a) : a[i] = c.args[i]
      BY <2>2, <2>3 DEF n
    <3> QED
      BY <1>1, <2>2, <3>1, SeqEqual
  <2> QED
    BY <2>4 DEF a, f
<1>10. ReadLevel(c.type, c.id, v) = Parsed(c.type, c.id, c.level, c.args)
  <2>1. NameIndex(level, <<v[1]>>) = c.level + 2
    BY <1>1, <1>7, NamesDiffer
  <2>3. c.level \in -1..1
    BY DEF Sendable
  <2>2. /\ ~ (1 < 1) /\ c.level + 2 # 0 /\ ~ (1 + 1 > Len(v) - 1) /\ 1 + 1 = 2
        /\ (c.level + 2) - 2 = c.level
    BY <1>1, <1>6, <2>3
  <2>4. NameIndex(level, Take(v, 1)) = c.level + 2
    BY <1>8, <2>1
  <2> DEFINE args == Drop(Front(v), 2)
             l == NameIndex(level, Take(v, 1))
  <2>5. ReadLevel(c.type, c.id, v) = IF 1 < 1 \/ l = 0 THEN Failed
                                     ELSE IF 1 + 1 > Len(v) - 1 THEN Panicked
                                     ELSE Parsed(c.type, c.id, l - 2, args)
    BY <1>8, <2>2 DEF ReadLevel
  <2> QED
    BY <1>9, <2>2, <2>4, <2>5
<1>11. ReadID(c.type, u) = ReadLevel(c.type, c.id, v)
  <2>1. c.id = <<u[1]>>
    BY <1>1, <1>5
  <2> QED
    BY <1>6, <2>1 DEF ReadID, v
<1>12. ReadCommand(s) = ReadID(c.type, u)
  <2>1. NameIndex(commandType, <<s[1]>>) = c.type + 1
    BY <1>1, <1>2, NamesDiffer
  <2>2. c.type \in 0..1
    BY DEF Sendable
  <2>3. NameIndex(commandType, Take(s, 1)) - 1 = c.type /\ ~ (1 < 1) /\ 1 + 1 = 2
    BY <1>4, <2>1, <2>2
  <2>4. ReadCommand(s) = IF 1 < 1 THEN Failed
                         ELSE ReadID(NameIndex(commandType, Take(s, 1)) - 1, Drop(s, 1 + 1))
    BY <1>4 DEF ReadCommand
  <2> QED
    BY <2>3, <2>4 DEF u
<1> QED
  BY <1>10, <1>11, <1>12 DEF s
-----------------------------------------------------------------------------
(* The properties                                                          *)

(* What handle does with what was read.                                    *)
Choice(g) ==
  CASE g.kind = "error" -> "close"
    [] g.kind = "panic" -> "panic"
    [] OTHER -> IF g.cmd.type = -1 THEN "panic" ELSE commandType[g.cmd.type + 1]

(* The line is the one sent and ends with a newline, what was read is read *)
(* from it, and the action is the one for what was read.                   *)
SentIsLine   == sent # None => sent \in Command /\ line = WriteCommand(sent)
LineEnds     == line # <<>> => /\ line \in Seq(Symbols) /\ Len(line) > 0
                               /\ line[Len(line)] = NL
GotIsRead    == got # None => line # <<>> /\ got = ReadCommand(line)
ActionChosen == action # None => got # None /\ action = Choice(got)

CodecInv == SentIsLine /\ LineEnds /\ GotIsRead /\ ActionChosen

(* Every command of the client can be sent.                                *)
LEMMA CommandSendable ==
  ASSUME NEW c \in Command
  PROVE  /\ Sendable(c) /\ Len(c.id) = 1 /\ c.id[1] # SP
         /\ c = [type |-> c.type, id |-> c.id, level |-> c.level, args |-> c.args]
         /\ c.args # <<>> <=> c.type = 0
<1>1. /\ c \in [type : 0..1, id : {<<w>> : w \in Words}, level : -1..1,
                args : EvalArgs \cup {<<>>}]
      /\ c.args # <<>> <=> c.type = 0
  BY DEF Command
<1>2. PICK w \in Words : c.id = <<w>>
  BY <1>1
<1>3. c.id \in Seq(Symbols) /\ Len(c.id) = 1 /\ c.id[1] = w
  BY <1>2 DEF Symbols, Tokens, Names
<1>4. c.args \in Seq(Symbols)
  <2>1. CASE c.args = <<>>
    BY <2>1, EmptySeq
  <2>2. CASE c.args \in EvalArgs
    <3>1. PICK a \in SizeAndGroup, r \in {<<>>} \cup {<<SP, x>> : x \in Names} :
            c.args = a \o r
      BY <2>2 DEF EvalArgs
    <3>2. PICK n \in Words, g \in {<<>>} \cup {<<x>> : x \in Names} : a = <<n, SP>> \o g
      BY DEF SizeAndGroup
    <3>3. Words \subseteq Symbols /\ Names \subseteq Symbols /\ SP \in Symbols
      BY DEF Symbols, Tokens, Names
    <3>4. <<>> \in Seq(Symbols) /\ \A x, y \in Symbols : <<x>> \in Seq(Symbols)
                                                     /\ <<x, y>> \in Seq(Symbols)
      BY EmptySeq
    <3>5. <<n, SP>> \in Seq(Symbols) /\ g \in Seq(Symbols) /\ r \in Seq(Symbols)
      <4>1. <<n, SP>> \in Seq(Symbols)
        BY <3>3, <3>4
      <4>2. g = <<>> \/ \E x \in Symbols : g = <<x>>
        BY <3>3
      <4>3. r = <<>> \/ \E x \in Symbols : r = <<SP, x>>
        BY <3>3
      <4>4. g \in Seq(Symbols)
        BY <3>4, <4>2, Zenon
      <4>5. r \in Seq(Symbols)
        BY <3>3, <3>4, <4>3, Zenon
      <4> QED
        BY <4>1, <4>4, <4>5
    <3>6. a \in Seq(Symbols)
      BY <3>2, <3>5, ConcatProperties
    <3> QED
      BY <3>1, <3>5, <3>6, ConcatProperties
  <2> QED
    BY <1>1, <2>1, <2>2
<1> QED
  BY <1>1, <1>2, <1>3, <1>4, WordsAssumption DEF Sendable

(* A written line is not empty and ends with a newline.                    *)
LEMMA WriteEnds ==
  ASSUME NEW c, Sendable(c)
  PROVE  LET s == WriteCommand(c) IN
         s # <<>> /\ s \in Seq(Symbols) /\ Len(s) > 0 /\ s[Len(s)] = NL
<1> DEFINE s == WriteCommand(c)
<1>1. Laid(s, c) /\ Len(c.id) \in Nat /\ Rest(c) \in Nat
  BY WriteIs DEF Sendable, Rest
<1> HIDE DEF s
<1>2. s \in Seq(Symbols) /\ Len(s) > 0 /\ s[Len(s)] = NL
  BY <1>1 DEF Laid
<1> QED
  BY <1>2, EmptySeq DEF s

(* No step breaks the invariant.                                           *)
LEMMA CodecInvariance ==
  Spec => []CodecInv
<1>1. Init => CodecInv
  BY DEF Init, CodecInv, SentIsLine, LineEnds, GotIsRead, ActionChosen
<1>2. ASSUME CodecInv, [Next]_vars PROVE CodecInv'
  <2>1. CASE Send
    <3>1. PICK c \in Command : sent' = c /\ line' = WriteCommand(c)
      BY <2>1 DEF Send
    <3>2. got = None /\ action = None /\ got' = got /\ action' = action
      BY <1>2, <2>1 DEF Send, CodecInv, GotIsRead, ActionChosen
    <3>3. SentIsLine'
      BY <3>1 DEF SentIsLine
    <3>4. LineEnds'
      BY <3>1, CommandSendable, WriteEnds DEF LineEnds
    <3> QED
      BY <3>2, <3>3, <3>4 DEF CodecInv, GotIsRead, ActionChosen
  <2>2. CASE SendAny
    <3>1. PICK s \in BoundedSeq(Tokens, MaxLength) : line' = Append(s, NL)
      BY <2>2 DEF SendAny
    <3>2. got = None /\ action = None /\ got' = got /\ action' = action
      BY <1>2, <2>2 DEF SendAny, CodecInv, GotIsRead, ActionChosen
    <3>3. sent' = None
      BY <1>2, <2>2, CommandSendable, WriteEnds DEF SendAny, CodecInv, SentIsLine
    <3>4. LineEnds'
      <4>1. PICK m \in 0..MaxLength : s \in [1..m -> Tokens]
        BY DEF BoundedSeq, SeqOf
      <4>2. m \in Nat /\ Tokens \subseteq Symbols /\ NL \in Symbols
        BY BoundsAssumption, NamesAre
      <4>3. s \in Seq(Symbols)
        BY <4>1, <4>2, SeqDef
      <4>4. /\ Append(s, NL) \in Seq(Symbols) /\ Len(Append(s, NL)) = Len(s) + 1
            /\ Append(s, NL)[Len(s) + 1] = NL /\ Len(s) \in Nat
        BY <4>2, <4>3
      <4> QED
        BY <3>1, <4>4 DEF LineEnds
    <3> QED
      BY <3>2, <3>3, <3>4 DEF CodecInv, SentIsLine, GotIsRead, ActionChosen
  <2>3. CASE ReadLine
    <3>1. /\ line # <<>> /\ got = None /\ got' = ReadCommand(line)
          /\ sent' = sent /\ line' = line /\ action' = action
      BY <2>3 DEF ReadLine
    <3>2. action' = None
      BY <1>2, <3>1 DEF CodecInv, ActionChosen
    <3> QED
      BY <1>2, <3>1, <3>2 DEF CodecInv, SentIsLine, LineEnds, GotIsRead, ActionChosen
  <2>4. CASE Dispatch
    <3>1. /\ got # None /\ action' = Choice(got)
          /\ sent' = sent /\ line' = line /\ got' = got
      BY <2>4 DEF Dispatch, Choice
    <3> QED
      BY <1>2, <3>1 DEF CodecInv, SentIsLine, LineEnds, GotIsRead, ActionChosen
  <2>5. CASE UNCHANGED vars
    BY <1>2, <2>5 DEF vars, CodecInv, SentIsLine, LineEnds, GotIsRead, ActionChosen
  <2> QED
    BY <1>2, <2>1, <2>2, <2>3, <2>4, <2>5 DEF Next
<1> QED
  BY <1>1, <1>2, PTL DEF Spec

(* Two lines of a command are the same line.                               *)
LEMMA LaidOnce ==
  ASSUME NEW c, Sendable(c), NEW s, Laid(s, c), NEW w, Laid(w, c)
  PROVE  s = w
<1> DEFINE k == Len(c.id)
           n == Len(c.args)
<1>1. k \in Nat /\ n \in Nat /\ (Rest(c) = 0 \/ (Rest(c) = n + 1 /\ c.args # <<>>))
  BY DEF Sendable, Rest
<1> HIDE DEF k, n
<1>2. ASSUME NEW i \in 1..k PROVE s[2 + i] = w[2 + i]
  BY <1>2 DEF Laid, k
<1>3. ASSUME NEW i \in 1..n PROVE s[k + 5 + i] = w[k + 5 + i]
  BY <1>3 DEF Laid, k, n
<1>4. /\ s[1] = w[1] /\ s[2] = w[2] /\ s[k + 3] = w[k + 3] /\ s[k + 4] = w[k + 4]
      /\ c.args # <<>> => s[k + 5] = w[k + 5]
      /\ Len(s) = k + 4 + Rest(c) + 1 /\ Len(w) = Len(s) /\ s[Len(s)] = w[Len(s)]
      /\ s \in Seq(Symbols) /\ w \in Seq(Symbols)
  BY DEF Laid, k
<1>5. ASSUME NEW i \in 1..Len(s) PROVE s[i] = w[i]
  <2>1. CASE i \in 3..k + 2
    <3>1. i - 2 \in 1..k /\ 2 + (i - 2) = i
      BY <1>1, <2>1
    <3> QED
      BY <1>2, <3>1
  <2>2. CASE i > k + 5 /\ i # Len(s)
    <3>1. i - (k + 5) \in 1..n /\ k + 5 + (i - (k + 5)) = i
      BY <1>1, <1>4, <2>2
    <3> QED
      BY <1>3, <3>1
  <2>3. CASE i \in {1, 2, k + 3, k + 4, Len(s)}
    BY <1>4, <2>3
  <2>4. CASE i = k + 5 /\ i # Len(s)
    BY <1>1, <1>4, <2>4
  <2> QED
    BY <1>1, <1>4, <2>1, <2>2, <2>3, <2>4
<1> QED
  BY <1>4, <1>5, SeqEqual

(* A line with a space too many is the written line with a space put in    *)
(* before its newline.                                                     *)
LEMMA SpacedOnce ==
  ASSUME NEW c, Sendable(c), NEW s, Spaced(s, c), NEW w, Laid(w, c)
  PROVE  s = Append(Append(Front(w), SP), NL)
<1> DEFINE k == Len(c.id)
           f == Front(w)
           g == Append(f, SP)
           z == Append(g, NL)
<1>1. k \in Nat /\ Rest(c) = 0
  BY DEF Sendable, Spaced, Rest
<1>2. /\ s \in Seq(Symbols) /\ Len(s) = k + 6 /\ s[k + 5] = SP /\ s[k + 6] = NL
      /\ w \in Seq(Symbols) /\ Len(w) = k + 5
  BY <1>1 DEF Spaced, Laid
<1>3. ASSUME NEW i \in 1..k + 4 PROVE s[i] = w[i]
  <2>1. CASE i \in 3..k + 2
    <3>1. i - 2 \in 1..k /\ 2 + (i - 2) = i
      BY <1>1, <2>1
    <3>2. s[2 + (i - 2)] = w[2 + (i - 2)]
      BY <3>1 DEF Spaced, Laid
    <3> QED
      BY <3>1, <3>2
  <2>2. CASE i \in {1, 2, k + 3, k + 4}
    BY <2>2 DEF Spaced, Laid
  <2> QED
    BY <1>1, <2>1, <2>2
<1> HIDE DEF k
<1>4. /\ f \in Seq(Symbols) /\ Len(f) = k + 4
      /\ \A i \in 1..k + 4 : f[i] = w[i]
  <2>1. Len(w) > 0 /\ Len(w) - 1 = k + 4
    BY <1>1, <1>2
  <2>2. /\ Front(w) \in Seq(Symbols) /\ Len(Front(w)) = Len(w) - 1
        /\ \A i \in 1..Len(w) - 1 : Front(w)[i] = w[i]
    BY <1>2, <2>1, FrontIs
  <2> QED
    BY <2>1, <2>2
<1> HIDE DEF f
<1>5. /\ g \in Seq(Symbols) /\ Len(g) = k + 5 /\ g[k + 5] = SP
      /\ \A i \in 1..k + 4 : g[i] = f[i]
  BY <1>1, <1>4, NamesAre
<1> HIDE DEF g
<1>6. /\ z \in Seq(Symbols) /\ Len(z) = k + 6 /\ z[k + 6] = NL
      /\ \A i \in 1..k + 5 : z[i] = g[i]
  BY <1>1, <1>5, NamesAre
<1> HIDE DEF z
<1>7. ASSUME NEW i \in 1..Len(s) PROVE s[i] = z[i]
  <2>1. CASE i \in 1..k + 4
    <3>1. i \in 1..k + 5
      BY <1>1, <2>1
    <3> QED
      BY <1>3, <1>4, <1>5, <1>6, <2>1, <3>1
  <2>2. CASE i = k + 5
    <3>1. k + 5 \in 1..k + 5
      BY <1>1
    <3> QED
      BY <1>2, <1>5, <1>6, <2>2, <3>1
  <2>3. CASE i = k + 6
    BY <1>2, <1>6, <2>3
  <2> QED
    BY <1>1, <1>2, <2>1, <2>2, <2>3
<1>8. s = z
  BY <1>2, <1>6, <1>7, SeqEqual
<1> QED
  BY <1>8 DEF z, g, f

(* A line is read as a command, an error or a panic.                       *)
LEMMA Outcomes ==
  ASSUME NEW s
  PROVE  ReadCommand(s).kind \in {"error", "panic", "command"}
<1>1. ASSUME NEW t, NEW id, NEW r PROVE ReadLevel(t, id, r).kind \in {"error", "panic", "command"}
  BY DEF ReadLevel, Failed, Panicked, Parsed
<1>2. ASSUME NEW t, NEW r PROVE ReadID(t, r).kind \in {"error", "panic", "command"}
  BY <1>1 DEF ReadID, Failed
<1> QED
  BY <1>2 DEF ReadCommand, Failed

(* An eval command arrives as it was sent, and the daemon runs it,         *)
(* whatever the words of the group and the rule are.                       *)
THEOREM SentArrives ==
  Spec => []EvalArrives
<1>1. ASSUME CodecInv PROVE EvalArrives
  <2> SUFFICES ASSUME action # None, sent # None, sent.type = 0
               PROVE  action = "eval" /\ got.cmd = sent
    BY DEF EvalArrives
  <2>1. /\ sent \in Command /\ got = ReadCommand(WriteCommand(sent)) /\ action = Choice(got)
    BY <1>1 DEF CodecInv, SentIsLine, GotIsRead, ActionChosen
  <2>2. got = Parsed(sent.type, sent.id, sent.level, sent.args)
    BY <2>1, CommandSendable, RoundTrip
  <2>3. got.kind = "command" /\ got.cmd = sent
    BY <2>1, <2>2, CommandSendable DEF Parsed
  <2> QED
    BY <2>1, <2>3 DEF Choice, commandType
<1> QED
  BY <1>1, CodecInvariance, PTL

(* No line but the one that WriteCommand makes of a command, with at most  *)
(* a space too many where it has no arguments, is run as that command.     *)
THEOREM OnlyWrittenLines ==
  Spec => []NoOtherLine
<1>1. ASSUME CodecInv PROVE NoOtherLine
  <2> SUFFICES ASSUME action \in {"eval", "list"}
               PROVE  \/ line = WriteCommand(got.cmd)
                      \/ /\ got.cmd.args = <<>>
                         /\ line = Append(Append(Front(WriteCommand(got.cmd)), SP), NL)
    BY DEF NoOtherLine
  <2>1. /\ action # None /\ line # <<>> /\ got = ReadCommand(line) /\ action = Choice(got)
        /\ line \in Seq(Symbols) /\ Len(line) > 0 /\ line[Len(line)] = NL
    BY <1>1, NoneAssumption DEF CodecInv, LineEnds, GotIsRead, ActionChosen
  <2>2. got.kind = "command" /\ got.cmd.type # -1
    <3>1. got.kind \in {"error", "panic", "command"}
      BY <2>1, Outcomes
    <3> QED
      BY <2>1, <3>1 DEF Choice
  <2>3. Sendable(got.cmd) /\ (Laid(line, got.cmd) \/ Spaced(line, got.cmd))
    BY <2>1, <2>2, ReadIs
  <2>4. Laid(WriteCommand(got.cmd), got.cmd)
    BY <2>3, WriteIs
  <2>5. CASE Laid(line, got.cmd)
    BY <2>3, <2>4, <2>5, LaidOnce
  <2>6. CASE Spaced(line, got.cmd)
    BY <2>3, <2>4, <2>6, SpacedOnce DEF Spaced
  <2> QED
    BY <2>3, <2>5, <2>6
<1> QED
  BY <1>1, CodecInvariance, PTL
-----------------------------------------------------------------------------
(* The sampling percentage                                                 *)

Characters == DOMAIN Digits \cup Others \cup {DOT, SIGN}

(* A text is a list of at most MaxChars characters.                        *)
LEMMA TextsAre ==
  ASSUME NEW s \in Texts
  PROVE  s \in Seq(Characters) /\ Len(s) \in 0..MaxChars
<1>1. PICK m \in 0..MaxChars : s \in [1..m -> Characters]
  BY DEF Texts, BoundedSeq, SeqOf, Characters
<1>2. m \in Nat
  BY SampleAssumption
<1>3. s \in Seq(Characters)
  BY <1>1, <1>2, SeqDef
<1>4. Len(s) = m
  BY <1>1, <1>2, <1>3
<1> QED
  BY <1>1, <1>3, <1>4

(* The first character that is no digit.                                   *)
Odd(s) == SelectInSeq(s, LAMBDA ch : ~ IsDigit(ch))

(* Every place before it holds a digit.                                    *)
LEMMA OddIs ==
  ASSUME NEW S, NEW s \in Seq(S)
  PROVE  /\ Odd(s) = 0 => AllDigits(s)
         /\ Odd(s) # 0 => /\ Odd(s) \in 1..Len(s) /\ ~ IsDigit(s[Odd(s)])
                          /\ \A j \in 1..Odd(s) - 1 : IsDigit(s[j])
<1> DEFINE I == {i \in 1..Len(s) : ~ IsDigit(s[i])}
<1>1. Odd(s) = First(I)
  BY DEF Odd, SelectInSeq, First
<1>2. Len(s) \in Nat /\ I \in SUBSET (1..Len(s)) /\ DOMAIN s = 1..Len(s)
  OBVIOUS
<1>3. /\ I = {} => First(I) = 0
      /\ I # {} => First(I) \in I /\ \A i \in I : First(I) <= i
  <2> HIDE DEF I
  <2> QED
    BY <1>2, FirstIs
<1>4. CASE I = {}
  <2>1. AllDigits(s)
    BY <1>2, <1>4 DEF AllDigits
  <2> QED
    BY <1>1, <1>3, <1>4, <2>1
<1>5. CASE I # {}
  <2>1. First(I) \in 1..Len(s) /\ ~ IsDigit(s[First(I)])
    BY <1>3, <1>5
  <2>2. \A j \in 1..First(I) - 1 : IsDigit(s[j])
    BY <1>2, <1>3, <1>5, <2>1
  <2> QED
    BY <1>1, <1>2, <2>1, <2>2
<1> QED
  BY <1>4, <1>5

(* There is only one such place.                                           *)
LEMMA OddAt ==
  ASSUME NEW S, NEW s \in Seq(S), NEW i \in 1..Len(s), ~ IsDigit(s[i]),
         \A j \in 1..i - 1 : IsDigit(s[j])
  PROVE  Odd(s) = i
<1> DEFINE o == Odd(s)
<1>1. /\ Len(s) \in Nat /\ DOMAIN s = 1..Len(s)
      /\ o = 0 => AllDigits(s)
      /\ o # 0 => /\ o \in 1..Len(s) /\ ~ IsDigit(s[o])
                  /\ \A j \in 1..o - 1 : IsDigit(s[j])
  BY OddIs
<1> HIDE DEF o
<1>2. o # 0
  BY <1>1 DEF AllDigits
<1>3. ~ (o < i) /\ ~ (i < o)
  BY <1>1, <1>2
<1> QED
  BY <1>1, <1>2, <1>3 DEF o

(* What the text says without its sign.                                    *)
LEMMA Unsigned ==
  ASSUME text \in Texts
  PROVE  /\ text = <<>> => Bare = <<>>
         /\ Bare \in Seq(Characters) /\ Len(Bare) <= Len(text)
         /\ \A i \in 1..Len(Bare) : Bare[i] = text[i]
         /\ \/ Bare = text /\ (text # <<>> => text[Len(text)] # SIGN)
            \/ text # <<>> /\ text[Len(text)] = SIGN /\ Bare = Front(text)
               /\ Len(Bare) = Len(text) - 1
<1>1. text \in Seq(Characters) /\ Len(text) \in Nat
  BY TextsAre
<1>2. CASE text # <<>> /\ text[Len(text)] = SIGN
  <2>1. Bare = Front(text) /\ Len(text) > 0
    BY <1>1, <1>2, EmptySeq DEF Bare, Last
  <2> QED
    BY <1>1, <1>2, <2>1, FrontIs
<1>3. CASE ~ (text # <<>> /\ text[Len(text)] = SIGN)
  <2>1. Bare = text
    BY <1>3 DEF Bare, Last
  <2> QED
    BY <1>1, <1>3, <2>1
<1> QED
  BY <1>2, <1>3

(* Digits behind a natural number make a natural number, one that is not   *)
(* less.                                                                   *)
LEMMA DecimalIs ==
  ASSUME NEW n \in Nat, NEW v \in Seq(Nat)
  PROVE  Decimal(n, v) \in Nat /\ (n > 0 => Decimal(n, v) > 0)
<1> DEFINE N == Len(v)
           Adds(f) == f = [i \in 0..N |-> IF i = 0 THEN n ELSE 10 * f[i - 1] + v[i]]
           step == [i \in 1..N |-> [x \in Nat |-> 10 * x + v[i]]]
           d == CHOOSE f : Adds(f)
<1>1. N \in Nat /\ \A i \in 1..N : v[i] \in Nat
  OBVIOUS
<1>2. step \in Steps(N, Nat)
  BY <1>1 DEF Steps
<1>3. \A i \in 1..N : \A x \in Nat : step[i][x] = 10 * x + v[i]
  OBVIOUS
<1> HIDE DEF step
<1>4. PICK f \in [0..N -> Nat] : Follows(f, N, n, step)
  BY <1>1, <1>2, Recursive
<1>5. ASSUME NEW i \in 1..N PROVE f[i] = 10 * f[i - 1] + v[i]
  <2>1. f[i - 1] \in Nat
    <3>1. i - 1 \in 0..N
      BY <1>1
    <3> QED
      BY <1>4, <3>1
  <2> QED
    BY <1>3, <1>4, <2>1 DEF Follows
<1>6. Adds(f)
  <2> DEFINE g == [i \in 0..N |-> IF i = 0 THEN n ELSE 10 * f[i - 1] + v[i]]
  <2>1. \A i \in 0..N : g[i] = f[i]
    BY <1>1, <1>4, <1>5 DEF Follows
  <2> QED
    BY <1>4, <2>1
<1>7. Decimal(n, v) = d[N]
  BY DEF Decimal
<1>8. Adds(d)
  <2> HIDE DEF Adds
  <2> QED
    BY <1>6
<1> HIDE DEF d
<1>9. /\ DOMAIN d = 0..N /\ d[0] = n
      /\ \A i \in 1..N : d[i] = 10 * d[i - 1] + v[i]
  <2> DEFINE e(i) == IF i = 0 THEN n ELSE 10 * d[i - 1] + v[i]
  <2>1. d = [i \in 0..N |-> e(i)]
    BY <1>8
  <2>2. DOMAIN d = 0..N /\ \A i \in 0..N : d[i] = e(i)
    <3> HIDE DEF e
    <3> QED
      BY <2>1
  <2>3. e(0) = n /\ 0 \in 0..N
    BY <1>1
  <2>4. ASSUME NEW i \in 1..N PROVE i \in 0..N /\ e(i) = 10 * d[i - 1] + v[i]
    BY <1>1
  <2> HIDE DEF e
  <2> QED
    BY <2>2, <2>3, <2>4
<1>10. \A i \in 0..N : d[i] \in Nat /\ (n > 0 => d[i] > 0)
  <2> DEFINE T == {i \in 0..N : d[i] \in Nat /\ (n > 0 => d[i] > 0)}
  <2>1. 0 \in T
    BY <1>1, <1>9
  <2>2. ASSUME NEW i \in 1..N, i - 1 \in T PROVE i \in T
    <3>1. d[i] = 10 * d[i - 1] + v[i] /\ v[i] \in Nat
      BY <1>1, <1>9
    <3>2. d[i - 1] \in Nat /\ (n > 0 => d[i - 1] > 0)
      BY <2>2
    <3>3. 10 * d[i - 1] + v[i] \in Nat /\ (n > 0 => 10 * d[i - 1] + v[i] > 0)
      BY <3>1, <3>2
    <3>4. i \in 0..N
      BY <1>1
    <3> QED
      BY <3>1, <3>3, <3>4
  <2>3. \A i \in 0..N : i \in T
    <3> HIDE DEF T
    <3> QED
      BY <1>1, <2>1, <2>2, Everywhere
  <2> QED
    BY <2>3
<1> QED
  BY <1>1, <1>7, <1>10

(* A power of ten is positive.                                             *)
LEMMA TensAre ==
  ASSUME NEW k \in Nat
  PROVE  Tens(k) \in Nat \ {0}
<1> DEFINE v == [i \in 1..k |-> 0]
<1>1. v \in Seq(Nat)
  BY SeqDef
<1> HIDE DEF v
<1>2. Decimal(1, v) \in Nat /\ Decimal(1, v) > 0
  BY <1>1, DecimalIs
<1> QED
  BY <1>2 DEF Tens, v

(* The digits of a text make a natural number.                             *)
LEMMA NaturalIs ==
  ASSUME NEW S, NEW s \in Seq(S), AllDigits(s)
  PROVE  Natural(s) \in Nat
<1> DEFINE v == [i \in DOMAIN s |-> Digits[s[i]]]
<1>1. DOMAIN s = 1..Len(s) /\ Len(s) \in Nat
  OBVIOUS
<1>2. \A i \in 1..Len(s) : Digits[s[i]] \in Nat
  BY <1>1, DigitsAssumption DEF AllDigits, IsDigit
<1>3. v \in Seq(Nat)
  BY <1>1, <1>2, SeqDef
<1> HIDE DEF v
<1>4. 0 \in Nat /\ Decimal(0, v) \in Nat
  BY <1>3, DecimalIs
<1> QED
  BY <1>4 DEF Natural, v

(* Where the first dot is.                                                 *)
Dot(s) == SelectInSeq(s, LAMBDA ch : ch = DOT)

(* No place before it holds a dot.                                         *)
LEMMA DotIs ==
  ASSUME NEW S, NEW s \in Seq(S)
  PROVE  /\ Dot(s) \in 0..Len(s)
         /\ Dot(s) = 0 => \A i \in 1..Len(s) : s[i] # DOT
         /\ Dot(s) # 0 => s[Dot(s)] = DOT /\ \A i \in 1..Dot(s) - 1 : s[i] # DOT
<1> DEFINE I == {i \in 1..Len(s) : s[i] = DOT}
<1>1. Dot(s) = First(I)
  BY DEF Dot, SelectInSeq, First
<1>2. Len(s) \in Nat /\ I \in SUBSET (1..Len(s))
  OBVIOUS
<1>3. /\ I = {} => First(I) = 0
      /\ I # {} => First(I) \in I /\ \A i \in I : First(I) <= i
  <2> HIDE DEF I
  <2> QED
    BY <1>2, FirstIs
<1>4. CASE I = {}
  BY <1>1, <1>2, <1>3, <1>4
<1>5. CASE I # {}
  <2>1. First(I) \in 1..Len(s) /\ s[First(I)] = DOT
    BY <1>3, <1>5
  <2>2. \A i \in 1..First(I) - 1 : s[i] # DOT
    BY <1>2, <1>3, <1>5, <2>1
  <2> QED
    BY <1>1, <1>2, <2>1, <2>2
<1> QED
  BY <1>4, <1>5

(* A text of digits is a natural number, however many there are.           *)
LEMMA NumberIs ==
  ASSUME NEW s \in Seq(Characters), AllDigits(s)
  PROVE  Number(s) \in Nat
<1>1. Dot(s) = 0
  <2>1. DOMAIN s = 1..Len(s) /\ ~ IsDigit(DOT)
    BY DigitsAssumption DEF IsDigit
  <2>2. \A i \in 1..Len(s) : s[i] # DOT
    BY <2>1 DEF AllDigits
  <2> QED
    BY <2>2, DotIs
<1>2. Number(s) = Natural(s) * One
  BY <1>1 DEF Number, Dot
<1>3. Natural(s) \in Nat /\ One \in Nat
  BY NaturalIs, TensAre, SampleAssumption DEF One
<1> QED
  BY <1>2, <1>3

(* The text is read once.                                                  *)
RateRead == text \in Texts /\ pct \in {Unread, UnmarshalText(text)}

(* A whole percentage up to 100, with its sign or without and with any     *)
(* number of leading zeros, is read as the number it is, and a text with a *)
(* character that is no digit before its dot is an error.                  *)
THEOREM PercentsRead ==
  RateSpec => []WholePercents
<1>1. ASSUME RateRead PROVE WholePercents
  <2> SUFFICES ASSUME pct # Unread
               PROVE  /\ Bare # <<>> /\ AllDigits(Bare) /\ Number(Bare) <= Hundred
                           => pct = Number(Bare)
                      /\ \A i \in DOMAIN Bare :
                           ~ IsDigit(Bare[i]) /\ AllDigits(SubSeq(Bare, 1, i - 1))
                             /\ Bare[i] # DOT
                               => pct = Refused
    BY DEF WholePercents, Decided
  <2>1. text \in Texts /\ pct = UnmarshalText(text)
    BY <1>1 DEF RateRead
  <2>2. text \in Seq(Characters) /\ Len(text) \in Nat
    BY <2>1, TextsAre
  <2>3. pct = IF text = <<>> THEN Refused
              ELSE IF Odd(text) = 0 \/ text[Odd(text)] = DOT THEN Convert(text)
              ELSE IF text[Odd(text)] = SIGN /\ Odd(text) = Len(text)
              THEN Convert(Front(text))
              ELSE Refused
    BY <2>1 DEF UnmarshalText, Odd
  <2>4. ~ IsDigit(DOT) /\ ~ IsDigit(SIGN) /\ SIGN # DOT
    BY DigitsAssumption DEF IsDigit, SIGN, DOT
  <2>5. ASSUME Bare # <<>>, AllDigits(Bare), Number(Bare) <= Hundred
        PROVE  pct = Number(Bare)
    <3>1. /\ \A i \in 1..Len(Bare) : IsDigit(text[i])
          /\ Len(Bare) \in Nat
      <4>1. DOMAIN Bare = 1..Len(Bare) /\ Len(Bare) \in Nat
        BY <2>1, Unsigned
      <4> QED
        BY <2>1, <2>5, <4>1, Unsigned DEF AllDigits
    <3>2. Convert(Bare) = Number(Bare)
      <4>1. Number(Bare) \in Nat
        BY <2>1, <2>5, Unsigned, NumberIs
      <4>2. One \in Nat \ {0}
        BY TensAre, SampleAssumption DEF One
      <4>3. Hundred < TooLarge * One
        BY <4>2, SampleAssumption DEF Hundred
      <4>4. ~ (Number(Bare) >= TooLarge * One)
        <5> DEFINE n == Number(Bare)
                   h == Hundred
                   m == TooLarge * One
        <5>1. n \in Nat /\ h \in Nat /\ m \in Nat /\ n <= h /\ h < m
          BY <2>5, <4>1, <4>2, <4>3, SampleAssumption DEF Hundred
        <5> HIDE DEF n, h, m
        <5>2. ~ (n >= m)
          BY <5>1
        <5> QED
          BY <5>2 DEF n, m
      <4>5. IsNumber(Bare)
        BY <2>5 DEF IsNumber
      <4> QED
        BY <4>4, <4>5 DEF Convert
    <3>3. CASE Bare = text
      <4>1. Odd(text) = 0
        BY <2>2, <3>1, <3>3, OddIs
      <4> QED
        BY <2>3, <2>5, <3>2, <3>3, <4>1
    <3>4. CASE text # <<>> /\ text[Len(text)] = SIGN /\ Bare = Front(text)
               /\ Len(Bare) = Len(text) - 1
      <4>1. Odd(text) = Len(text)
        <5>1. Len(text) \in 1..Len(text)
          BY <2>2, <3>1, <3>4
        <5> QED
          BY <2>2, <2>4, <3>1, <3>4, <5>1, OddAt
      <4>2. Len(text) # 0
        BY <2>2, <3>1, <3>4
      <4> QED
        BY <2>3, <2>4, <3>2, <3>4, <4>1, <4>2
    <3> QED
      BY <2>1, <3>3, <3>4, Unsigned
  <2>6. ASSUME NEW i \in DOMAIN Bare, ~ IsDigit(Bare[i]),
               AllDigits(SubSeq(Bare, 1, i - 1)), Bare[i] # DOT
        PROVE  pct = Refused
    <3>1. /\ Bare \in Seq(Characters) /\ Len(Bare) \in Nat /\ Len(Bare) <= Len(text)
          /\ i \in 1..Len(Bare) /\ i \in 1..Len(text)
          /\ \A j \in 1..Len(Bare) : Bare[j] = text[j]
      <4>1. /\ Bare \in Seq(Characters) /\ Len(Bare) <= Len(text)
            /\ \A j \in 1..Len(Bare) : Bare[j] = text[j]
        BY <2>1, Unsigned
      <4>2. DOMAIN Bare = 1..Len(Bare) /\ Len(Bare) \in Nat
        BY <4>1
      <4>3. i \in 1..Len(Bare)
        BY <4>2
      <4> QED
        BY <2>2, <4>1, <4>2, <4>3
    <3>2. \A j \in 1..i - 1 : IsDigit(text[j])
      <4> DEFINE n == i - 1
                 h == SubSeq(Bare, 1, n)
      <4>1. n \in 0..Len(Bare) /\ h = Take(Bare, n)
        BY <3>1 DEF Take
      <4>2. Take(Bare, n) \in Seq(Characters) /\ Len(Take(Bare, n)) = n
            /\ \A j \in 1..n : Take(Bare, n)[j] = Bare[j]
        <5> HIDE DEF n
        <5> QED
          BY <3>1, <4>1, CutIs
      <4>3. DOMAIN h = 1..n /\ \A j \in 1..n : h[j] = Bare[j]
        BY <4>1, <4>2
      <4> HIDE DEF h
      <4>4. \A j \in 1..n : IsDigit(Bare[j])
        <5>1. AllDigits(h)
          BY <2>6 DEF h
        <5> QED
          BY <4>3, <5>1 DEF AllDigits
      <4>5. \A j \in 1..n : j \in 1..Len(Bare)
        BY <3>1, <4>1
      <4> QED
        BY <3>1, <4>4, <4>5
    <3>3. ~ IsDigit(text[i]) /\ text[i] # DOT
      BY <2>6, <3>1
    <3>4. Odd(text) = i
      BY <2>2, <3>1, <3>2, <3>3, OddAt
    <3>5. text # <<>> /\ i # 0
      BY <2>2, <3>1, EmptySeq
    <3>6. ~ (text[i] = SIGN /\ i = Len(text))
      BY <2>1, <2>2, <3>1, Unsigned
    <3> QED
      BY <2>3, <3>3, <3>4, <3>5, <3>6
  <2> QED
    BY <2>5, <2>6
<1>2. RateInit => RateRead
  BY DEF RateInit, RateRead
<1>3. RateRead /\ [RateNext]_rateVars => RateRead'
  BY DEF RateRead, RateNext, rateVars, ReadArg, Prepare
<1> QED
  BY <1>1, <1>2, <1>3, PTL DEF RateSpec
=============================================================================

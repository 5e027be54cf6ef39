------------------------ MODULE TagCoherence_proofs ------------------------
(***************************************************************************)
(* Why the cached tags of a message and its rows in table tag agree, for   *)
(* any connections, texts, rules and tags, and across crashes.             *)
(*                                                                         *)
(* While a handler evaluates a message the two differ by the changes its   *)
(* rules have made and RecordEval has not stored yet: After says that the  *)
(* Message has the value of the last of them, and the stored value if      *)
(* there is none.  A message no two handlers evaluate at once, of which    *)
(* there is one object, is ahead of the table by the changes of one        *)
(* handler, and when that handler is done by none.                         *)
(***************************************************************************)
EXTENDS TagCoherence, EvalDaemon_proofs

(* The changes of the i-th of rules that left the records rs; one more     *)
(* rule is running and has made the changes ch.                            *)
Made(rs, ch, i) == IF i = Len(rs) + 1 THEN ch ELSE rs[i].changes

(* The j-th change of the i-th rule is one of tag k and is not stored: the *)
(* rows of n rules are, and of the last of these t changes.                *)
Due(rs, ch, n, t, k, i, j) ==
  /\ i \in 1..(Len(rs) + 1) /\ j \in 1..Len(Made(rs, ch, i))
  /\ i > n \/ (i = n /\ j > t)
  /\ Made(rs, ch, i)[j].key = k

(* No such change is later.                                                *)
Latest(rs, ch, n, t, k, i, j) ==
  /\ Due(rs, ch, n, t, k, i, j)
  /\ \A x, y \in Nat : Due(rs, ch, n, t, k, x, y) => x < i \/ (x = i /\ y <= j)

(* Tag k has the value new after the changes that are due were made to the *)
(* value old.                                                              *)
After(rs, ch, n, t, k, old, new) ==
  \/ /\ \A i, j \in Nat : ~ Due(rs, ch, n, t, k, i, j)
     /\ new = old
  \/ \E i, j \in Nat : /\ Latest(rs, ch, n, t, k, i, j)
                       /\ new = Made(rs, ch, i)[j].value

-----------------------------------------------------------------------------
(* Changes that are due                                                    *)

(* What a rule made is a sequence of changes.                              *)
LEMMA MadeType ==
  ASSUME NEW rs \in Seq(RuleRecord), NEW ch \in Seq(TagChange),
         NEW i \in 1..(Len(rs) + 1)
  PROVE  Made(rs, ch, i) \in Seq(TagChange)
<1>1. CASE i = Len(rs) + 1
  BY <1>1 DEF Made
<1>2. CASE i # Len(rs) + 1
  <2>1. i \in 1..Len(rs)
    BY <1>2
  <2>2. rs[i] \in RuleRecord
    BY <2>1
  <2> QED
    BY <1>2, <2>2 DEF Made, RuleRecord
<1> QED
  BY <1>1, <1>2

(* If the changes that are due and their values are the same, so is what   *)
(* comes of them.                                                          *)
LEMMA AfterSame ==
  ASSUME NEW rs, NEW ch, NEW n, NEW t, NEW rs2, NEW ch2, NEW n2, NEW t2,
         NEW k, NEW old, NEW new,
         After(rs, ch, n, t, k, old, new),
         \A i, j \in Nat : /\ Due(rs2, ch2, n2, t2, k, i, j) <=> Due(rs, ch, n, t, k, i, j)
                           /\ Due(rs, ch, n, t, k, i, j)
                                => Made(rs2, ch2, i)[j] = Made(rs, ch, i)[j]
  PROVE  After(rs2, ch2, n2, t2, k, old, new)
<1>1. CASE \A i, j \in Nat : ~ Due(rs, ch, n, t, k, i, j)
  <2>1. new = old
    BY <1>1 DEF After, Latest
  <2> QED
    BY <1>1, <2>1 DEF After
<1>2. ASSUME NEW i \in Nat, NEW j \in Nat, Latest(rs, ch, n, t, k, i, j),
             new = Made(rs, ch, i)[j].value
      PROVE  After(rs2, ch2, n2, t2, k, old, new)
  <2>1. Latest(rs2, ch2, n2, t2, k, i, j)
    BY <1>2 DEF Latest
  <2>2. Made(rs2, ch2, i)[j] = Made(rs, ch, i)[j]
    BY <1>2 DEF Latest
  <2> QED
    BY <1>2, <2>1, <2>2 DEF After
<1> QED
  BY <1>1, <1>2 DEF After

(* Before a rule has run nothing is due.                                   *)
LEMMA NothingMade ==
  ASSUME NEW n \in Nat, NEW t, NEW k, NEW old
  PROVE  After(<<>>, <<>>, n, t, k, old, old)
BY DEF After, Due, Made

(* The running rule makes a change.                                        *)
LEMMA ChangeMade ==
  ASSUME NEW rs \in Seq(RuleRecord), NEW ch \in Seq(TagChange),
         NEW n \in 0..Len(rs), NEW t, NEW k, NEW old, NEW new,
         NEW x \in TagKeys, NEW v \in TagValues \cup {None},
         After(rs, ch, n, t, k, old, new)
  PROVE  After(rs, Append(ch, [key |-> x, value |-> v]), n, t, k, old,
               IF x = k THEN v ELSE new)
<1> DEFINE tc == [key |-> x, value |-> v]
           more == Append(ch, tc)
           N == Len(rs) + 1
           M == Len(ch)
<1>1. /\ N \in Nat /\ n < N /\ M \in Nat /\ Len(more) = M + 1 /\ more[M + 1] = tc
      /\ \A j \in 1..M : more[j] = ch[j]
  <2>1. tc \in TagChange
    BY DEF TagChange
  <2> HIDE DEF tc
  <2> QED
    BY <2>1, AppendProperties
<1>2. tc.key = x /\ tc.value = v
  OBVIOUS
<1> HIDE DEF more, tc
<1>3. /\ Made(rs, ch, N) = ch /\ Made(rs, more, N) = more
      /\ \A i \in Nat : i # N => Made(rs, more, i) = Made(rs, ch, i)
  BY DEF Made
<1>4. \A i, j \in Nat : Due(rs, more, n, t, k, i, j) <=>
        \/ Due(rs, ch, n, t, k, i, j)
        \/ i = N /\ j = M + 1 /\ x = k
  <2> SUFFICES ASSUME NEW i \in Nat, NEW j \in Nat
               PROVE  Due(rs, more, n, t, k, i, j) <=>
                        \/ Due(rs, ch, n, t, k, i, j)
                        \/ i = N /\ j = M + 1 /\ x = k
    OBVIOUS
  <2>1. CASE i # N
    BY <1>3, <2>1 DEF Due
  <2>2. CASE i = N
    <3>1. Due(rs, more, n, t, k, i, j) <=> j \in 1..(M + 1) /\ more[j].key = k
      BY <1>1, <1>3, <2>2 DEF Due
    <3>2. Due(rs, ch, n, t, k, i, j) <=> j \in 1..M /\ ch[j].key = k
      BY <1>1, <1>3, <2>2 DEF Due
    <3>3. j \in 1..(M + 1) <=> j \in 1..M \/ j = M + 1
      BY <1>1
    <3>4. M + 1 \notin 1..M
      BY <1>1
    <3> QED
      BY <1>1, <1>2, <2>2, <3>1, <3>2, <3>3, <3>4
  <2> QED
    BY <2>1, <2>2
<1>5. \A i, j \in Nat : Due(rs, ch, n, t, k, i, j) =>
        i < N \/ (i = N /\ j <= M)
  BY <1>1, <1>3 DEF Due
<1>6. CASE x = k
  <2>1. Due(rs, more, n, t, k, N, M + 1)
    BY <1>1, <1>4, <1>6
  <2>2. \A i, j \in Nat : Due(rs, more, n, t, k, i, j) => i < N \/ (i = N /\ j <= M + 1)
    BY <1>1, <1>4, <1>5
  <2>3. Latest(rs, more, n, t, k, N, M + 1)
    BY <2>1, <2>2 DEF Latest
  <2>4. Made(rs, more, N)[M + 1].value = v
    BY <1>1, <1>2, <1>3
  <2>5. N \in Nat /\ M + 1 \in Nat
    BY <1>1
  <2> QED
    BY <1>6, <2>3, <2>4, <2>5 DEF After, more, tc
<1>7. CASE x # k
  <2>1. ASSUME NEW i \in Nat, NEW j \in Nat, Due(rs, ch, n, t, k, i, j)
        PROVE  Made(rs, more, i)[j] = Made(rs, ch, i)[j]
    <3>1. CASE i # N
      BY <1>3, <3>1
    <3>2. CASE i = N
      <4>1. j \in 1..M
        BY <1>3, <2>1, <3>2 DEF Due
      <4> QED
        BY <1>1, <1>3, <3>2, <4>1
    <3> QED
      BY <3>1, <3>2
  <2>2. After(rs, more, n, t, k, old, new)
    BY <1>4, <1>7, <2>1, AfterSame
  <2> QED
    BY <1>7, <2>2 DEF more, tc
<1> QED
  BY <1>6, <1>7

(* The rule returns and its changes become those of its record.            *)
LEMMA RuleEnds ==
  ASSUME NEW rs \in Seq(RuleRecord), NEW r \in RuleRecord,
         NEW n \in 0..Len(rs), NEW t, NEW k, NEW old, NEW new,
         After(rs, r.changes, n, t, k, old, new)
  PROVE  After(Append(rs, r), <<>>, n, t, k, old, new)
<1> DEFINE more == Append(rs, r)
           N == Len(rs) + 1
<1>1. /\ N \in Nat /\ Len(more) = N /\ more[N] = r
      /\ \A i \in 1..Len(rs) : more[i] = rs[i]
  BY AppendProperties
<1> HIDE DEF more
<1>2. ASSUME NEW i \in 1..N PROVE Made(more, <<>>, i) = Made(rs, r.changes, i)
  <2>1. i # N + 1
    BY <1>1
  <2>2. CASE i = N
    BY <1>1, <2>1, <2>2 DEF Made
  <2>3. CASE i # N
    <3>1. i \in 1..Len(rs)
      BY <1>1, <2>3
    <3> QED
      BY <1>1, <2>1, <2>3, <3>1 DEF Made
  <2> QED
    BY <2>2, <2>3
<1>3. Made(more, <<>>, N + 1) = <<>>
  BY <1>1 DEF Made
<1>4. \A i, j \in Nat : Due(more, <<>>, n, t, k, i, j) <=> Due(rs, r.changes, n, t, k, i, j)
  <2> SUFFICES ASSUME NEW i \in Nat, NEW j \in Nat
               PROVE  Due(more, <<>>, n, t, k, i, j) <=> Due(rs, r.changes, n, t, k, i, j)
    OBVIOUS
  <2>1. CASE i \in 1..N
    <3>1. i \in 1..(N + 1)
      BY <1>1, <2>1
    <3> QED
      BY <1>1, <1>2, <2>1, <3>1 DEF Due
  <2>2. CASE i = N + 1
    <3>1. ~ Due(more, <<>>, n, t, k, i, j)
      BY <1>3, <2>2 DEF Due
    <3>2. ~ Due(rs, r.changes, n, t, k, i, j)
      BY <1>1, <2>2 DEF Due
    <3> QED
      BY <3>1, <3>2
  <2>3. CASE i \notin 1..N /\ i # N + 1
    <3>1. i \notin 1..(N + 1)
      BY <1>1, <2>3
    <3> QED
      BY <1>1, <2>3, <3>1 DEF Due
  <2> QED
    BY <2>1, <2>2, <2>3
<1>5. \A i, j \in Nat : Due(rs, r.changes, n, t, k, i, j) =>
        Made(more, <<>>, i)[j] = Made(rs, r.changes, i)[j]
  BY <1>2 DEF Due
<1>6. After(more, <<>>, n, t, k, old, new)
  BY <1>4, <1>5, AfterSame
<1> QED
  BY <1>6 DEF more

(* The row of the next rule is written once all changes of the last rule   *)
(* are stored.                                                             *)
LEMMA RowWritten ==
  ASSUME NEW rs \in Seq(RuleRecord), NEW ch, NEW n \in 0..(Len(rs) - 1), NEW t \in Nat,
         n > 0 => t = Len(rs[n].changes),
         NEW k, NEW old, NEW new, After(rs, ch, n, t, k, old, new)
  PROVE  After(rs, ch, n + 1, 0, k, old, new)
<1>1. n \in Nat /\ Len(rs) \in Nat /\ n < Len(rs)
  OBVIOUS
<1>2. n > 0 => Made(rs, ch, n) = rs[n].changes
  BY <1>1 DEF Made
<1>3. ASSUME NEW i \in Nat, NEW j \in Nat
      PROVE  Due(rs, ch, n + 1, 0, k, i, j) <=> Due(rs, ch, n, t, k, i, j)
  <2> DEFINE L == Len(Made(rs, ch, i))
             P == i \in 1..(Len(rs) + 1) /\ j \in 1..L
  <2>1. ASSUME P, i = n PROVE ~ j > t
    BY <1>1, <1>2, <2>1
  <2>2. P => j > 0
    OBVIOUS
  <2>3. ASSUME P PROVE (i > n + 1 \/ (i = n + 1 /\ j > 0)) <=> (i > n \/ (i = n /\ j > t))
    <3>1. i > n <=> (i > n + 1 \/ i = n + 1)
      BY <1>1
    <3> QED
      BY <2>1, <2>2, <2>3, <3>1
  <2> QED
    BY <2>3 DEF Due
<1> QED
  BY <1>3, AfterSame
(* The first change that is due is stored.                                 *)
LEMMA ChangeStored ==
  ASSUME NEW rs \in Seq(RuleRecord), NEW ch \in Seq(TagChange),
         NEW n \in 1..Len(rs), NEW t \in Nat, t + 1 \in 1..Len(rs[n].changes),
         NEW k, NEW old, NEW new, After(rs, ch, n, t, k, old, new)
  PROVE  LET tc == rs[n].changes[t + 1]
         IN After(rs, ch, n, t + 1, k, IF tc.key = k THEN tc.value ELSE old, new)
<1> DEFINE tc == rs[n].changes[t + 1]
<1>1. /\ n \in Nat /\ n \in 1..(Len(rs) + 1) /\ n # Len(rs) + 1
      /\ Made(rs, ch, n) = rs[n].changes
  BY DEF Made
<1>2. \A i, j \in Nat : Due(rs, ch, n, t + 1, k, i, j) <=>
        /\ Due(rs, ch, n, t, k, i, j)
        /\ ~ (i = n /\ j = t + 1)
  <2> SUFFICES ASSUME NEW i \in Nat, NEW j \in Nat
               PROVE  (i > n \/ (i = n /\ j > t + 1)) <=>
                        (i > n \/ (i = n /\ j > t)) /\ ~ (i = n /\ j = t + 1)
    BY DEF Due
  <2> QED
    BY <1>1
<1>3. Due(rs, ch, n, t, k, n, t + 1) <=> tc.key = k
  <2>1. t + 1 > t
    OBVIOUS
  <2> QED
    BY <1>1, <2>1 DEF Due
<1>4. CASE tc.key # k
  <2>1. \A i, j \in Nat : Due(rs, ch, n, t + 1, k, i, j) <=> Due(rs, ch, n, t, k, i, j)
    BY <1>2, <1>3, <1>4
  <2>2. After(rs, ch, n, t + 1, k, old, new)
    BY <2>1, AfterSame
  <2> QED
    BY <1>4, <2>2
<1>5. CASE tc.key = k
  <2>1. t + 1 \in Nat /\ n \in Nat
    OBVIOUS
  <2>2. PICK i \in Nat, j \in Nat : /\ Latest(rs, ch, n, t, k, i, j)
                                    /\ new = Made(rs, ch, i)[j].value
    BY <1>3, <1>5, <2>1 DEF After
  <2>3. CASE i = n /\ j = t + 1
    <3>1. new = tc.value
      BY <1>1, <2>2, <2>3
    <3>2. ASSUME NEW x \in Nat, NEW y \in Nat PROVE ~ Due(rs, ch, n, t + 1, k, x, y)
      <4>1. SUFFICES ASSUME Due(rs, ch, n, t, k, x, y), ~ (x = n /\ y = t + 1) PROVE FALSE
        BY <1>2
      <4>2. x < n \/ (x = n /\ y <= t + 1)
        BY <2>2, <2>3, <4>1 DEF Latest
      <4>3. x > n \/ (x = n /\ y > t)
        BY <4>1 DEF Due
      <4> QED
        BY <1>1, <4>1, <4>2, <4>3
    <3> QED
      BY <1>5, <3>1, <3>2 DEF After
  <2>4. CASE ~ (i = n /\ j = t + 1)
    <3>1. Due(rs, ch, n, t + 1, k, i, j)
      BY <1>2, <2>2, <2>4 DEF Latest
    <3>2. Latest(rs, ch, n, t + 1, k, i, j)
      BY <1>2, <2>2, <3>1 DEF Latest
    <3> QED
      BY <2>2, <3>2 DEF After
  <2> QED
    BY <2>3, <2>4
<1> QED
  BY <1>4, <1>5

(* When every row is written and every change stored nothing is due.       *)
LEMMA AllStored ==
  ASSUME NEW rs \in Seq(RuleRecord), NEW t \in Nat,
         rs # <<>> => t = Len(rs[Len(rs)].changes),
         NEW k, NEW old, NEW new, After(rs, <<>>, Len(rs), t, k, old, new)
  PROVE  new = old
<1> DEFINE N == Len(rs)
<1>1. N \in Nat /\ (N > 0 => rs # <<>>)
  OBVIOUS
<1>2. Made(rs, <<>>, N + 1) = <<>> /\ (N > 0 => Made(rs, <<>>, N) = rs[N].changes)
  BY <1>1 DEF Made
<1>3. ASSUME NEW i \in Nat, NEW j \in Nat, Due(rs, <<>>, N, t, k, i, j) PROVE FALSE
  <2>1. i \in 1..(N + 1) /\ j \in 1..Len(Made(rs, <<>>, i)) /\ (i > N \/ (i = N /\ j > t))
    BY <1>3 DEF Due
  <2>2. CASE i = N + 1
    BY <1>2, <2>1, <2>2
  <2>3. CASE i = N
    <3>1. N > 0 /\ t = Len(rs[N].changes)
      BY <1>1, <2>1, <2>3
    <3>2. j > t
      BY <1>1, <2>1, <2>3
    <3>3. j \in 1..t
      BY <1>2, <2>1, <2>3, <3>1
    <3> QED
      BY <3>2, <3>3
  <2> QED
    BY <1>1, <2>1, <2>2, <2>3
<1> QED
  BY <1>3 DEF After, Latest

(* Rules that change nothing leave nothing due.                            *)
LEMMA NoneMade ==
  ASSUME NEW rs \in Seq(RuleRecord), \A i \in DOMAIN rs : rs[i].changes = <<>>,
         NEW n, NEW t, NEW k, NEW old, NEW new, After(rs, <<>>, n, t, k, old, new)
  PROVE  new = old
<1>1. ASSUME NEW i \in 1..(Len(rs) + 1) PROVE Made(rs, <<>>, i) = <<>>
  <2>1. CASE i = Len(rs) + 1
    BY <2>1 DEF Made
  <2>2. CASE i # Len(rs) + 1
    <3>1. i \in DOMAIN rs
      BY <2>2
    <3> QED
      BY <2>2, <3>1 DEF Made
  <2> QED
    BY <2>1, <2>2
<1>2. \A i, j \in Nat : ~ Due(rs, <<>>, n, t, k, i, j)
  BY <1>1 DEF Due
<1> QED
  BY <1>2 DEF After, Latest

-----------------------------------------------------------------------------
(* The invariant                                                           *)

(* The tags of the Message a handler works on are those in the table once  *)
(* the changes it has not stored are made.                                 *)
AheadOn(c, k) ==
  After(recs[c], changes[c], Len(ruleEval[c]), tagDone[c], k,
        tag[storeID(c)][k], object[msg[c]].tags[k])

Ahead ==
  \A c \in Conns : Loaded(c) /\ storeID(c) \notin tainted
                     => \A k \in TagKeys : AheadOn(c, k)

(* Only while a rule runs are there changes of it.                         *)
NoneLeft == \A c \in Conns : pc[c] \notin {"eval", "dead"} => changes[c] = <<>>

(* A Message is used for the store ID it was made for.                     *)
Owned ==
  /\ \A c \in Conns : Loaded(c) => storeID(msg[c]) = storeID(c)
  /\ \A b \in Bodies : cache[b] # None => storeID(cache[b]) = toStoreID(b)

(* A message the store does not know has no tags.                          *)
NewUntagged ==
  \A s \in StoreIDs : message[s] = None => tag[s] = [k \in TagKeys |-> None]

Remembered == Drifting \subseteq tainted

TagInv == Remembered /\ NoneLeft /\ Owned /\ NewUntagged /\ Ahead /\ TagsCoherent

(* Tags that agree for every key are the same.                             *)
LEMMA SameTags ==
  ASSUME NEW x \in Tags, NEW y \in Tags, \A k \in TagKeys : x[k] = y[k]
  PROVE  x = y
BY DEF Tags
-----------------------------------------------------------------------------
(* Who moves what                                                          *)

(* A handler that has its Message works on one that is allocated, for a    *)
(* store ID there is.                                                      *)
LEMMA LoadedIs ==
  ASSUME TypeOK, Support, NEW c \in Conns, Loaded(c)
  PROVE  /\ req[c].body \in Bodies /\ storeID(c) \in StoreIDs
         /\ msg[c] \in Conns /\ object[msg[c]] \in Message /\ object[msg[c]] # None
<1>1. pc[c] # "idle"
  BY DEF Loaded
<1>2. req[c] \in Requests
  BY <1>1 DEF Support, Requested
<1>3. req[c].body \in Bodies
  BY <1>2 DEF Requests
<1>4. msg[c] \in Conns /\ object[msg[c]] # None
  BY DEF Support, Valid, TypeOK
<1>5. object[msg[c]] \in Message
  BY <1>4 DEF TypeOK
<1> QED
  BY <1>3, <1>4, <1>5 DEF storeID, StoreIDs

(* No two handlers evaluate an untainted message, and there is one object  *)
(* for it.                                                                 *)
LEMMA Alone ==
  ASSUME TypeOK, Support, Remembered, NEW c \in Conns, Loaded(c), storeID(c) \notin tainted
  PROVE  /\ \A d \in Conns : Loaded(d) /\ storeID(d) = storeID(c) => d = c
         /\ \A b \in Bodies : cache[b] # None /\ toStoreID(b) = storeID(c)
                                => cache[b] = msg[c]
<1> DEFINE s == storeID(c)
<1>1. s \in StoreIDs
  BY LoadedIs
<1>2. ~ Overlaps(s) /\ ~ Forked(s)
  BY <1>1 DEF Remembered, Drifting
<1>3. c \in InFlight(s) /\ msg[c] \in Objects(s)
  BY DEF InFlight, Objects
<1>4. ASSUME NEW d \in Conns, Loaded(d), storeID(d) = s PROVE d = c
  BY <1>2, <1>3, <1>4 DEF Overlaps, InFlight
<1>5. ASSUME NEW b \in Bodies, cache[b] # None, toStoreID(b) = s PROVE cache[b] = msg[c]
  <2>1. cache[b] \in Objects(s)
    BY <1>5 DEF Objects
  <2> QED
    BY <1>2, <1>3, <2>1 DEF Forked
<1> QED
  BY <1>4, <1>5

(* A handler leaves the message and the changes of every other one alone.  *)
LEMMA OthersChanges ==
  ASSUME TypeOK, NEW c \in Conns, handleEval(c), NEW d \in Conns \ {c}
  PROVE  changes'[d] = changes[d] /\ msg'[d] = msg[d]
<1> USE DEF TypeOK, Finish, StartRules, handler
<1>1. CASE ReadInput(c) \/ Lookup(c)
  BY <1>1 DEF ReadInput, Lookup
<1>2. CASE Prepared(c)
  BY <1>2 DEF Prepared, Prepare, PrepareFails, GetMetadata, GetMetadataMisses,
              PutMessage, CacheMessage
<1>3. CASE Evaluated(c)
  BY <1>3 DEF Evaluated, SetTag, DeleteTag, ChangeTag, RuleMatches,
              RuleDeclines, RuleThrows, RuleReturns
<1>4. CASE Recorded(c)
  BY <1>4 DEF Recorded, Begin, InsertGroupEval, InsertRuleEval, PutTagChange,
              Commit, RecordFails
<1> QED
  BY <1>1, <1>2, <1>3, <1>4 DEF handleEval

(* Only a rule changes the tags of a Message.                              *)
LEMMA ObjectsStay ==
  ASSUME TypeOK, Support, NEW c \in Conns, handleEval(c), ~ SetTag(c), ~ DeleteTag(c),
         NEW o \in Conns, object[o] # None
  PROVE  object'[o] = object[o]
<1>1. CASE GetMetadata(c) \/ PutMessage(c)
  <2>1. pc[c] \in {"meta", "put"} /\ \A x \in Conns \ {c} : object'[x] = object[x]
    BY <1>1, LoadMoves DEF Support
  <2>2. o # c
    BY <2>1 DEF Support, Allocated, Unloaded
  <2> QED
    BY <2>1, <2>2
<1>2. CASE ReadInput(c) \/ Lookup(c) \/ Prepare(c) \/ PrepareFails(c) \/ GetMetadataMisses(c)
  BY <1>2 DEF ReadInput, Lookup, Prepare, PrepareFails, GetMetadataMisses, memory
<1>3. CASE RuleMatches(c) \/ RuleDeclines(c) \/ RuleThrows(c) \/ Recorded(c)
  BY <1>3 DEF RuleMatches, RuleDeclines, RuleThrows, RuleReturns, Recorded, Begin,
       InsertGroupEval, InsertRuleEval, PutTagChange, Commit, RecordFails, memory
<1> QED
  BY <1>1, <1>2, <1>3 DEF handleEval, Prepared, Evaluated

(* A rule changes one tag of the Message its handler works on.             *)
LEMMA TagChanged ==
  ASSUME TypeOK, Support, NEW c \in Conns, SetTag(c) \/ DeleteTag(c)
  PROVE  \E x \in TagKeys, v \in TagValues \cup {None} :
           /\ changes' = [changes EXCEPT ![c] = Append(@, [key |-> x, value |-> v])]
           /\ \A k \in TagKeys : object'[msg[c]].tags[k] =
                                   IF x = k THEN v ELSE object[msg[c]].tags[k]
           /\ \A o \in Conns : o # msg[c] => object'[o] = object[o]
           /\ UNCHANGED <<pc, req, msg, recs, tagDone, cache, tables>>
<1>1. PICK x \in TagKeys, v \in TagValues \cup {None} : ChangeTag(c, x, v)
  BY DEF SetTag, DeleteTag
<1> DEFINE m == msg[c]
           new == [object[m] EXCEPT !.tags[x] = v]
<1>2. m \in Conns /\ object[m] \in Message
  BY <1>1, LoadedIs DEF ChangeTag, Loaded
<1>3. \A k \in TagKeys : new.tags[k] = IF x = k THEN v ELSE object[m].tags[k]
  BY <1>2 DEF Message, Tags
<1>4. object' = [object EXCEPT ![m] = new]
  BY <1>1 DEF ChangeTag
<1> HIDE DEF new
<1>5. object'[m] = new /\ \A o \in Conns : o # m => object'[o] = object[o]
  BY <1>2, <1>4 DEF TypeOK
<1>6. /\ changes' = [changes EXCEPT ![c] = Append(@, [key |-> x, value |-> v])]
      /\ UNCHANGED <<pc, req, msg, recs, tagDone, cache, tables>>
  BY <1>1 DEF ChangeTag
<1> QED
  BY <1>3, <1>5, <1>6

(* Only RecordEval writes the table, one change after the other.           *)
LEMMA TableStays ==
  ASSUME NEW c \in Conns, handleEval(c), ~ PutTagChange(c)
  PROVE  tag' = tag
<1>1. CASE ReadInput(c) \/ Lookup(c) \/ Prepared(c)
  BY <1>1 DEF ReadInput, Lookup, Prepared, Prepare, PrepareFails, GetMetadata,
       GetMetadataMisses, PutMessage, tables
<1>2. CASE Evaluated(c)
  BY <1>2 DEF Evaluated, SetTag, DeleteTag, ChangeTag, RuleMatches,
       RuleDeclines, RuleThrows, RuleReturns, tables
<1>3. CASE Recorded(c)
  BY <1>3 DEF Recorded, Begin, InsertGroupEval, InsertRuleEval, Commit, RecordFails, tables
<1> QED
  BY <1>1, <1>2, <1>3 DEF handleEval

(* A stored change is one of the message that was evaluated.               *)
LEMMA TableWritten ==
  ASSUME TypeOK, Support, NEW c \in Conns, PutTagChange(c)
  PROVE  LET n == Len(ruleEval[c])
             tc == recs[c][n].changes[tagDone[c] + 1]
         IN /\ n \in 1..Len(recs[c]) /\ tagDone[c] + 1 \in 1..Len(recs[c][n].changes)
            /\ tag' = [tag EXCEPT ![storeID(c)][tc.key] = tc.value]
            /\ tagDone' = [tagDone EXCEPT ![c] = @ + 1]
            /\ \A s \in StoreIDs : s # storeID(c) => tag'[s] = tag[s]
            /\ \A k \in TagKeys : tag'[storeID(c)][k] =
                                    IF tc.key = k THEN tc.value ELSE tag[storeID(c)][k]
            /\ Loaded(c)
            /\ UNCHANGED <<pc, req, msg, changes, recs, memory, message, ruleEval>>
<1> DEFINE n == Len(ruleEval[c])
           s == storeID(c)
           tc == recs[c][n].changes[tagDone[c] + 1]
<1>1. /\ ~ TagsStored(c) /\ pc[c] = "rows"
      /\ tag' = [tag EXCEPT ![s][tc.key] = tc.value]
      /\ tagDone' = [tagDone EXCEPT ![c] = @ + 1]
      /\ UNCHANGED <<pc, req, msg, changes, recs, memory, message, ruleEval>>
  BY DEF PutTagChange
<1>2. Loaded(c)
  BY <1>1 DEF Loaded
<1>3. s \in StoreIDs
  BY <1>2, LoadedIs
<1>4. tagDone[c] + 1 \in 1..Len(recs[c][n].changes) /\ tc \in TagChange
  BY <1>1, NextTagChange DEF Support
<1>5. n \in 1..Len(recs[c])
  <2>1. ruleEval[c] # <<>>
    BY <1>1 DEF TagsStored
  <2> QED
    BY <2>1 DEF TypeOK, Support, Written
<1> HIDE DEF tc, s
<1>6. /\ tag'[s] = [tag[s] EXCEPT ![tc.key] = tc.value]
      /\ \A x \in StoreIDs : x # s => tag'[x] = tag[x]
  BY <1>1, <1>3 DEF TypeOK
<1>7. tag[s] \in Tags
  BY <1>3 DEF TypeOK
<1>8. \A k \in TagKeys : tag'[s][k] = IF tc.key = k THEN tc.value ELSE tag[s][k]
  BY <1>6, <1>7 DEF Tags
<1> QED
  BY <1>1, <1>2, <1>4, <1>5, <1>6, <1>8 DEF tc, s

-----------------------------------------------------------------------------
(* No step breaks the parts of the invariant.                              *)

(* A handler's changes are in a record when its rules have run.            *)
LEMMA NoneLeftStep ==
  ASSUME TypeOK, NoneLeft, Next
  PROVE  NoneLeft'
<1>1. ASSUME NEW c \in Conns, Receive(c) PROVE NoneLeft'
  BY <1>1 DEF Receive, Goto, TypeOK, NoneLeft
<1>2. ASSUME NEW c \in Conns, handleEval(c) PROVE NoneLeft'
  <2>1. \A d \in Conns \ {c} : pc'[d] = pc[d] /\ changes'[d] = changes[d]
    BY <1>2, StageMoves, OthersChanges
  <2>2. pc'[c] \notin {"eval", "dead"} => changes'[c] = <<>>
    <3> USE DEF TypeOK, NoneLeft, handler
    <3>1. CASE ReadInput(c) \/ Lookup(c)
      BY <3>1 DEF ReadInput, Lookup
    <3>2. CASE Prepared(c)
      BY <3>2 DEF Prepared, Prepare, PrepareFails, GetMetadata, GetMetadataMisses, PutMessage
    <3>3. CASE SetTag(c) \/ DeleteTag(c)
      BY <3>3 DEF SetTag, DeleteTag, ChangeTag
    <3>4. CASE RuleMatches(c) \/ RuleDeclines(c) \/ RuleThrows(c)
      BY <3>4 DEF RuleMatches, RuleDeclines, RuleThrows, RuleReturns
    <3>5. CASE Recorded(c)
      BY <3>5 DEF Recorded, Begin, InsertGroupEval, InsertRuleEval, PutTagChange,
                  Commit, RecordFails
    <3> QED
      BY <1>2, <3>1, <3>2, <3>3, <3>4, <3>5 DEF handleEval, Evaluated
  <2> QED
    BY <2>1, <2>2 DEF NoneLeft
<1>3. CASE Crash
  BY <1>3 DEF Crash, TypeOK, NoneLeft
<1> QED
  BY <1>1, <1>2, <1>3 DEF Next

(* A handler makes its Message for its own store ID and caches it there.   *)
LEMMA OwnedStep ==
  ASSUME TypeOK, Support, Owned, Next
  PROVE  Owned'
<1>1. /\ \A d \in Conns : Loaded(d) => msg[d] \in Conns /\ object[msg[d]] # None
      /\ \A b \in Bodies : cache[b] # None => cache[b] \in Conns /\ object[cache[b]] # None
  BY DEF Support, Valid, TypeOK
<1>2. ASSUME NEW c \in Conns, Receive(c) PROVE Owned'
  <2>1. object[c] = None
    BY <1>2 DEF Receive, Support, Allocated, Unloaded
  <2>2. \A d \in Conns : d # c => storeID(d)' = storeID(d)
    BY <1>2 DEF Receive, TypeOK, storeID
  <2>3. UNCHANGED <<msg, cache>> /\ \A d \in Conns : Loaded(d)' => Loaded(d) /\ d # c
    BY <1>2 DEF Receive, Goto, TypeOK, Loaded, memory
  <2>4. ASSUME NEW d \in Conns, Loaded(d)' PROVE storeID(msg[d])' = storeID(d)'
    <3>1. Loaded(d) /\ d # c /\ msg[d] \in Conns /\ msg[d] # c /\ msg'[d] = msg[d]
      BY <1>1, <2>1, <2>3, <2>4
    <3>2. storeID(msg[d])' = storeID(msg[d])
      BY <1>2, <3>1 DEF Receive, TypeOK, storeID
    <3> QED
      BY <2>2, <3>1, <3>2 DEF Owned
  <2>5. ASSUME NEW b \in Bodies, cache'[b] # None PROVE storeID(cache[b])' = toStoreID(b)
    <3>1. cache[b] \in Conns /\ cache[b] # c /\ cache'[b] = cache[b] /\ cache[b] # None
      BY <1>1, <2>1, <2>3, <2>5
    <3>2. storeID(cache[b])' = storeID(cache[b])
      BY <1>2, <3>1 DEF Receive, TypeOK, storeID
    <3> QED
      BY <3>1, <3>2 DEF Owned
  <2> QED
    BY <2>4, <2>5 DEF Owned
<1>3. ASSUME NEW c \in Conns, handleEval(c) PROVE Owned'
  <2>1. req' = req /\ pc[c] # "idle" /\ \A d \in Conns \ {c} : pc'[d] = pc[d]
    BY <1>3, StageMoves
  <2>2. req[c].body \in Bodies
    BY <2>1 DEF Support, Requested, Requests
  <2>3. \A d \in Conns : /\ storeID(d)' = storeID(d)
                         /\ d # c => (Loaded(d)' <=> Loaded(d)) /\ msg'[d] = msg[d]
    BY <1>3, <2>1, OthersChanges DEF storeID, Loaded
  <2>4. \A d \in Conns : d # c /\ Loaded(d)' => storeID(msg'[d]) = storeID(d)
    BY <2>3 DEF Owned
  <2>5. /\ Loaded(c)' => storeID(msg'[c]) = storeID(c)
        /\ \A b \in Bodies : cache'[b] # None => storeID(cache'[b]) = toStoreID(b)
    <3>1. CASE GetMetadata(c) \/ PutMessage(c)
      <4>1. /\ msg'[c] = c
            /\ \A b \in Bodies : \/ cache'[b] \in {None, cache[b]}
                                 \/ b = req[c].body /\ cache'[b] = c
        BY <3>1, LoadMoves DEF Support
      <4> QED
        BY <4>1 DEF Owned, storeID
    <3>2. CASE ~ GetMetadata(c) /\ ~ PutMessage(c)
      <4>1. /\ cache' = cache
            /\ \/ msg' = msg /\ (Loaded(c)' => Loaded(c))
               \/ cache[req[c].body] # None /\ msg'[c] = cache[req[c].body]
        BY <1>3, <3>2, CacheMoves
      <4>2. storeID(c) = toStoreID(req[c].body)
        BY DEF storeID
      <4> QED
        BY <2>2, <4>1, <4>2 DEF Owned
    <3> QED
      BY <3>1, <3>2
  <2> QED
    BY <2>1, <2>3, <2>4, <2>5 DEF Owned, storeID
<1>4. CASE Crash
  BY <1>4 DEF Crash, TypeOK, Owned, Loaded
<1> QED
  BY <1>2, <1>3, <1>4 DEF Next
(* Tags are stored of messages whose row is there.                         *)
LEMMA NewUntaggedStep ==
  ASSUME TypeOK, Support, SampledAgrees, NewUntagged, Next
  PROVE  NewUntagged'
<1>1. ASSUME NEW c \in Conns, PutTagChange(c) PROVE NewUntagged'
  <2>1. /\ message' = message /\ Loaded(c)
        /\ \A s \in StoreIDs : s # storeID(c) => tag'[s] = tag[s]
    BY <1>1, TableWritten DEF Support
  <2>2. message[storeID(c)] # None
    <3>1. object[msg[c]] \in Message /\ object[msg[c]].sampled = message[storeID(c)]
      BY <2>1, LoadedIs DEF SampledAgrees, DecisionAgrees
    <3> QED
      BY <3>1, NoneAssumption DEF Message
  <2> QED
    BY <2>1, <2>2 DEF NewUntagged
<1>2. ASSUME NEW c \in Conns, PutMessage(c) PROVE NewUntagged'
  <2>1. PICK sampled \in BOOLEAN : message' = [message EXCEPT ![storeID(c)] = sampled]
    BY <1>2 DEF PutMessage
  <2>2. tag' = tag
    BY <1>2 DEF PutMessage
  <2>3. \A s \in StoreIDs : message'[s] = None => message[s] = None
    BY <2>1, NoneAssumption DEF TypeOK
  <2> QED
    BY <2>2, <2>3 DEF NewUntagged
<1>3. ASSUME NEW c \in Conns, handleEval(c), ~ PutMessage(c), ~ PutTagChange(c)
      PROVE  UNCHANGED <<message, tag>>
  <2>1. CASE ReadInput(c) \/ Lookup(c) \/ Prepared(c)
    BY <1>3, <2>1 DEF ReadInput, Lookup, Prepared, Prepare, PrepareFails, GetMetadata,
         GetMetadataMisses, tables
  <2>2. CASE Evaluated(c)
    BY <2>2 DEF Evaluated, SetTag, DeleteTag, ChangeTag, RuleMatches,
         RuleDeclines, RuleThrows, RuleReturns, tables
  <2>3. CASE Recorded(c)
    BY <1>3, <2>3 DEF Recorded, Begin, InsertGroupEval, InsertRuleEval, Commit,
         RecordFails, tables
  <2> QED
    BY <1>3, <2>1, <2>2, <2>3 DEF handleEval
<1>4. CASE UNCHANGED <<message, tag>>
  BY <1>4 DEF NewUntagged
<1>5. CASE Crash \/ \E c \in Conns : Receive(c)
  BY <1>4, <1>5 DEF Crash, Receive, tables
<1> QED
  BY <1>1, <1>2, <1>3, <1>4, <1>5 DEF Next

(* A handler takes a Message from the cache: nobody else evaluates the     *)
(* message, and the Message agrees with the table.                         *)
LEMMA FoundAgrees ==
  ASSUME TypeOK, Support, TagInv, Remembered', tainted \subseteq tainted',
         NEW c \in Conns, handleEval(c), ~ Loaded(c), Loaded(c)',
         storeID(c) \notin tainted', cache[req[c].body] # None
  PROVE  object[cache[req[c].body]].tags = tag[storeID(c)]
<1>1. /\ req' = req /\ pc[c] # "idle"
      /\ \A d \in Conns \ {c} : pc'[d] = pc[d]
  BY StageMoves
<1>2. req[c].body \in Bodies
  BY <1>1 DEF Support, Requested, Requests
<1>3. PICK s \in StoreIDs : s = storeID(c) /\ s = toStoreID(req[c].body)
  BY <1>2 DEF StoreIDs, storeID
<1>4. ASSUME NEW d \in Conns, Loaded(d), storeID(d) = s PROVE FALSE
  <2>1. d # c
    BY <1>4
  <2>2. Loaded(d)' /\ storeID(d)' = s /\ storeID(c)' = s
    BY <1>1, <1>3, <1>4, <2>1 DEF Loaded, storeID
  <2>3. c \in InFlight(s)' /\ d \in InFlight(s)'
    BY <2>2 DEF InFlight
  <2>4. Overlaps(s)'
    BY <2>1, <2>3 DEF Overlaps
  <2>5. s \in Drifting'
    BY <1>3, <2>4 DEF Drifting
  <2>6. s \notin tainted'
    BY <1>1, <1>3
  <2> QED
    BY <2>5, <2>6 DEF Remembered
<1>5. InFlight(s) = {}
  BY <1>4 DEF InFlight
<1> QED
  BY <1>2, <1>3, <1>5 DEF TagInv, TagsCoherent

(* Another handler's step leaves a handler ahead of the table as it is.    *)
LEMMA OthersAhead ==
  ASSUME TypeOK, Support, TagInv, NEW c \in Conns, NEW d \in Conns, c # d, handleEval(d),
         Loaded(c), storeID(c) \notin tainted, NEW k \in TagKeys
  PROVE  AheadOn(c, k)'
<1> DEFINE s == storeID(c)
<1>1. /\ req' = req /\ recs'[c] = recs[c] /\ tagDone'[c] = tagDone[c]
      /\ ruleEval'[c] = ruleEval[c] /\ changes'[c] = changes[c] /\ msg'[c] = msg[c]
  BY StageMoves, OthersRecord, OthersChanges
<1>2. s \in StoreIDs /\ msg[c] \in Conns /\ object[msg[c]] # None
  BY LoadedIs
<1>3. Loaded(d) => storeID(d) # s
  BY Alone DEF TagInv
<1>4. object'[msg[c]] = object[msg[c]]
  <2>1. CASE SetTag(d) \/ DeleteTag(d)
    <3>1. Loaded(d)
      BY <2>1 DEF SetTag, DeleteTag, ChangeTag, Loaded
    <3>2. msg[d] # msg[c]
      BY <1>3, <3>1 DEF TagInv, Owned
    <3> QED
      BY <1>2, <2>1, <3>2, TagChanged
  <2>2. CASE ~ SetTag(d) /\ ~ DeleteTag(d)
    BY <1>2, <2>2, ObjectsStay
  <2> QED
    BY <2>1, <2>2
<1>5. tag'[s] = tag[s]
  <2>1. CASE PutTagChange(d)
    <3>1. s # storeID(d)
      BY <1>3, <2>1 DEF PutTagChange, Loaded
    <3> QED
      BY <1>2, <2>1, <3>1, TableWritten
  <2>2. CASE ~ PutTagChange(d)
    BY <2>2, TableStays
  <2> QED
    BY <2>1, <2>2
<1>6. AheadOn(c, k)
  BY DEF TagInv, Ahead
<1>7. storeID(c)' = s
  BY <1>1 DEF storeID
<1> QED
  BY <1>1, <1>4, <1>5, <1>6, <1>7 DEF AheadOn

(* A handler that gets its Message is ahead of the table by nothing.       *)
LEMMA LoadedAhead ==
  ASSUME TypeOK, Support, TagInv, Remembered', tainted \subseteq tainted', ~ ReadsMayFail,
         NEW c \in Conns, handleEval(c), ~ Loaded(c), Loaded(c)',
         storeID(c) \notin tainted', NEW k \in TagKeys
  PROVE  AheadOn(c, k)'
<1> DEFINE s == storeID(c)
<1>1. req' = req /\ pc[c] # "idle"
  BY StageMoves
<1>2. /\ Lookup(c) \/ Prepare(c) \/ GetMetadata(c) \/ PutMessage(c)
      /\ pc[c] \in {"lookup", "prepare", "meta", "put"}
  <2>1. CASE ReadInput(c) \/ PrepareFails(c) \/ GetMetadataMisses(c)
    BY <2>1 DEF ReadInput, PrepareFails, GetMetadataMisses, Goto, Finish, TypeOK, Loaded
  <2>2. CASE Evaluated(c)
    BY <2>2 DEF Evaluated, SetTag, DeleteTag, ChangeTag, RuleMatches,
         RuleDeclines, RuleThrows, RuleReturns, Loaded
  <2>3. CASE Recorded(c)
    BY <2>3 DEF Recorded, Begin, InsertGroupEval, InsertRuleEval, PutTagChange, Commit,
         RecordFails, Loaded
  <2>4. CASE Lookup(c) \/ Prepare(c) \/ GetMetadata(c) \/ PutMessage(c)
    BY <2>4 DEF Lookup, Prepare, GetMetadata, PutMessage
  <2> QED
    BY <2>1, <2>2, <2>3, <2>4 DEF handleEval, Prepared
<1>3. recs[c] = <<>> /\ changes[c] = <<>>
  BY <1>2 DEF Support, RuleIsLeft, Unloaded, TagInv, NoneLeft
<1>4. UNCHANGED <<recs, changes, tagDone, ruleEval, tag>>
  BY <1>2 DEF Lookup, Prepare, GetMetadata, PutMessage, tables
<1>5. s \in StoreIDs /\ req[c].body \in Bodies
  BY <1>1 DEF Support, Requested, Requests, storeID, StoreIDs
<1>6. object'[msg'[c]].tags[k] = tag[s][k]
  <2>1. CASE GetMetadata(c)
    <3>1. PICK read \in Yielded(TagKeys) :
            CacheMessage(c, [sampled |-> message[s],
                             tags    |-> [x \in TagKeys |-> IF x \in read THEN tag[s][x] ELSE None]])
      BY <2>1 DEF GetMetadata
    <3>2. read = TagKeys
      BY DEF Yielded
    <3> DEFINE m == [sampled |-> message[s],
                     tags    |-> [x \in TagKeys |-> IF x \in read THEN tag[s][x] ELSE None]]
    <3>3. m.tags[k] = tag[s][k]
      BY <3>2
    <3> HIDE DEF m
    <3>4. object'[c] = m /\ msg'[c] = c
      BY <3>1 DEF m, CacheMessage, StartRules, TypeOK
    <3> QED
      BY <3>3, <3>4
  <2>2. CASE PutMessage(c)
    <3>1. PICK sampled \in BOOLEAN :
            CacheMessage(c, [sampled |-> sampled, tags |-> [x \in TagKeys |-> None]])
      BY <2>2 DEF PutMessage
    <3> DEFINE m == [sampled |-> sampled, tags |-> [x \in TagKeys |-> None]]
    <3>2. m.tags[k] = None
      OBVIOUS
    <3> HIDE DEF m
    <3>3. object'[c] = m /\ msg'[c] = c
      BY <3>1 DEF m, CacheMessage, StartRules, TypeOK
    <3>4. tag[s] = [x \in TagKeys |-> None]
      BY <1>5, <2>2 DEF PutMessage, TagInv, NewUntagged
    <3> QED
      BY <3>2, <3>3, <3>4
  <2>3. CASE ~ GetMetadata(c) /\ ~ PutMessage(c)
    <3>1. cache[req[c].body] # None /\ msg'[c] = cache[req[c].body]
      BY <2>3, CacheMoves
    <3>2. object[cache[req[c].body]].tags = tag[s]
      BY <3>1, FoundAgrees
    <3>3. object' = object
      BY <1>2, <2>3 DEF Lookup, Prepare, memory
    <3> QED
      BY <3>1, <3>2, <3>3
  <2> QED
    BY <2>1, <2>2, <2>3
<1>7. Len(ruleEval[c]) \in Nat
  BY DEF TypeOK
<1>8. After(recs[c], changes[c], Len(ruleEval[c]), tagDone[c], k, tag[s][k], tag[s][k])
  BY <1>3, <1>7, NothingMade
<1>9. storeID(c)' = s
  BY <1>1 DEF storeID
<1> QED
  BY <1>4, <1>6, <1>8, <1>9 DEF AheadOn

(* A handler stays ahead of the table by the changes it has not stored.    *)
LEMMA StaysAhead ==
  ASSUME TypeOK, Support, TagInv, NEW c \in Conns, handleEval(c), Loaded(c), Loaded(c)',
         storeID(c) \notin tainted, NEW k \in TagKeys
  PROVE  AheadOn(c, k)'
<1> DEFINE s == storeID(c)
           n == Len(ruleEval[c])
<1>1. storeID(c)' = s
  BY StageMoves DEF storeID
<1>2. AheadOn(c, k)
  BY DEF TagInv, Ahead
<1>3. /\ s \in StoreIDs /\ msg[c] \in Conns /\ object[msg[c]] # None
      /\ recs[c] \in Seq(RuleRecord) /\ changes[c] \in Seq(TagChange)
      /\ n \in 0..Len(recs[c]) /\ tagDone[c] \in Nat
  <2>1. n \in 0..Len(recs[c])
    BY DEF TypeOK, Support, Written
  <2> QED
    BY <2>1, LoadedIs DEF TypeOK
<1>4. CASE SetTag(c) \/ DeleteTag(c)
  <2>1. PICK x \in TagKeys, v \in TagValues \cup {None} :
          /\ changes' = [changes EXCEPT ![c] = Append(@, [key |-> x, value |-> v])]
          /\ object'[msg[c]].tags[k] = IF x = k THEN v ELSE object[msg[c]].tags[k]
          /\ UNCHANGED <<msg, recs, tagDone, tables>>
    BY <1>4, TagChanged
  <2>2. After(recs[c], Append(changes[c], [key |-> x, value |-> v]), n, tagDone[c], k,
              tag[s][k], IF x = k THEN v ELSE object[msg[c]].tags[k])
    BY <1>2, <1>3, ChangeMade DEF AheadOn
  <2>3. changes'[c] = Append(changes[c], [key |-> x, value |-> v])
    BY <2>1 DEF TypeOK
  <2> QED
    BY <1>1, <2>1, <2>2, <2>3 DEF AheadOn, tables
<1>5. ASSUME NEW match \in BOOLEAN, NEW err \in BOOLEAN, RuleReturns(c, match, err)
      PROVE  AheadOn(c, k)'
  <2> DEFINE r == [rule |-> rules(c)[Len(recs[c]) + 1], match |-> match, err |-> err,
                   changes |-> changes[c]]
  <2>1. /\ recs' = [recs EXCEPT ![c] = Append(@, r)]
        /\ changes' = [changes EXCEPT ![c] = <<>>]
        /\ UNCHANGED <<msg, tagDone, object, tag, ruleEval>>
    BY <1>5 DEF RuleReturns, memory, tables
  <2>2. r \in RuleRecord /\ r.changes = changes[c]
    <3>1. rules(c) \in Seq(RuleNames) /\ Len(recs[c]) < Len(rules(c))
      BY <1>5, RulesType DEF RuleReturns, Support, Requested, Admitted, RuleIsLeft
    <3>2. rules(c)[Len(recs[c]) + 1] \in RuleNames
      BY <1>3, <3>1
    <3> QED
      BY <1>3, <3>2 DEF RuleRecord
  <2> HIDE DEF r
  <2>3. After(Append(recs[c], r), <<>>, n, tagDone[c], k, tag[s][k], object[msg[c]].tags[k])
    BY <1>2, <1>3, <2>2, RuleEnds DEF AheadOn
  <2>4. recs'[c] = Append(recs[c], r) /\ changes'[c] = <<>>
    BY <2>1 DEF TypeOK
  <2> QED
    BY <1>1, <2>1, <2>3, <2>4 DEF AheadOn
<1>6. CASE Begin(c) \/ InsertGroupEval(c)
  BY <1>1, <1>2, <1>6 DEF Begin, InsertGroupEval, handler, memory, tables, AheadOn
<1>7. CASE InsertRuleEval(c)
  <2>1. /\ TagsStored(c) /\ n < Len(recs[c])
        /\ tagDone' = [tagDone EXCEPT ![c] = 0]
        /\ UNCHANGED <<msg, changes, recs, object, tag>>
    BY <1>7 DEF InsertRuleEval, memory
  <2>2. tagDone'[c] = 0 /\ Len(ruleEval'[c]) = n + 1
    BY <1>7 DEF InsertRuleEval, TypeOK
  <2>3. n \in 0..(Len(recs[c]) - 1) /\ (n > 0 => tagDone[c] = Len(recs[c][n].changes))
    BY <1>3, <2>1 DEF TagsStored, TypeOK
  <2>4. After(recs[c], changes[c], n + 1, 0, k, tag[s][k], object[msg[c]].tags[k])
    BY <1>2, <1>3, <2>3, RowWritten DEF AheadOn
  <2> QED
    BY <1>1, <2>1, <2>2, <2>4 DEF AheadOn
<1>8. CASE PutTagChange(c)
  <2> DEFINE tc == recs[c][n].changes[tagDone[c] + 1]
  <2>1. /\ n \in 1..Len(recs[c]) /\ tagDone[c] + 1 \in 1..Len(recs[c][n].changes)
        /\ tagDone' = [tagDone EXCEPT ![c] = @ + 1]
        /\ tag'[s][k] = IF tc.key = k THEN tc.value ELSE tag[s][k]
        /\ UNCHANGED <<msg, changes, recs, memory, ruleEval>>
    BY <1>8, TableWritten
  <2>2. After(recs[c], changes[c], n, tagDone[c] + 1, k,
              IF tc.key = k THEN tc.value ELSE tag[s][k], object[msg[c]].tags[k])
    BY <1>2, <1>3, <2>1, ChangeStored DEF AheadOn
  <2>3. tagDone'[c] = tagDone[c] + 1
    BY <2>1 DEF TypeOK
  <2> HIDE DEF tc
  <2> QED
    BY <1>1, <2>1, <2>2, <2>3 DEF AheadOn, memory
<1>9. CASE Commit(c) \/ RecordFails(c)
  BY <1>9 DEF Commit, RecordFails, Finish, Goto, TypeOK, Loaded
<1>10. CASE ReadInput(c) \/ Lookup(c) \/ Prepared(c)
  BY <1>10 DEF ReadInput, Lookup, Prepared, Prepare, PrepareFails, GetMetadata,
       GetMetadataMisses, PutMessage, Loaded
<1> QED
  BY <1>4, <1>5, <1>6, <1>7, <1>8, <1>9, <1>10
     DEF handleEval, Evaluated, Recorded, RuleMatches, RuleDeclines, RuleThrows
(* No step breaks Ahead.                                                   *)
LEMMA AheadStep ==
  ASSUME TypeOK, Support, TagInv, Remembered', tainted \subseteq tainted', ~ ReadsMayFail, Next
  PROVE  Ahead'
<1> SUFFICES ASSUME NEW c \in Conns, Loaded(c)', storeID(c)' \notin tainted', NEW k \in TagKeys
             PROVE  AheadOn(c, k)'
  BY DEF Ahead
<1>1. ASSUME NEW d \in Conns, Receive(d) PROVE AheadOn(c, k)'
  <2>1. c # d /\ Loaded(c) /\ req'[c] = req[c]
    BY <1>1 DEF Receive, Goto, TypeOK, Loaded
  <2>2. storeID(c)' = storeID(c)
    BY <2>1 DEF storeID
  <2>3. AheadOn(c, k)
    BY <2>1, <2>2 DEF TagInv, Ahead
  <2>4. UNCHANGED <<recs, changes, ruleEval, tagDone, tag, object, msg>>
    BY <1>1 DEF Receive, memory, tables
  <2> QED
    BY <2>2, <2>3, <2>4 DEF AheadOn
<1>2. ASSUME NEW d \in Conns, handleEval(d) PROVE AheadOn(c, k)'
  <2>1. storeID(c)' = storeID(c) /\ (c # d => pc'[c] = pc[c])
    BY <1>2, StageMoves DEF storeID
  <2>2. storeID(c) \notin tainted' /\ storeID(c) \notin tainted
    BY <2>1
  <2>3. CASE c # d
    <3>1. Loaded(c)
      BY <2>1, <2>3 DEF Loaded
    <3> QED
      BY <1>2, <2>2, <2>3, <3>1, OthersAhead
  <2>4. CASE c = d /\ Loaded(c)
    BY <1>2, <2>2, <2>4, StaysAhead
  <2>5. CASE c = d /\ ~ Loaded(c)
    BY <1>2, <2>2, <2>5, LoadedAhead
  <2> QED
    BY <2>3, <2>4, <2>5
<1>3. CASE Crash
  BY <1>3 DEF Crash, TypeOK, Loaded
<1> QED
  BY <1>1, <1>2, <1>3 DEF Next

(* A handler that is done has stored what it changed, or the message is    *)
(* one of those whose copies may differ.                                   *)
LEMMA DoneAgrees ==
  ASSUME TypeOK, Support, TagInv, NEW c \in Conns, Loaded(c), storeID(c) \notin tainted,
         Commit(c) \/ RecordFails(c), ~ Unsaved(storeID(c))'
  PROVE  object[msg[c]].tags = tag[storeID(c)]
<1> DEFINE s == storeID(c)
           o == object[msg[c]].tags
<1>1. /\ s \in StoreIDs /\ o \in Tags
  BY LoadedIs DEF Message
<1>2. tag[s] \in Tags
  BY <1>1 DEF TypeOK
<1>3. changes[c] = <<>>
  BY DEF Commit, RecordFails, TagInv, NoneLeft
<1>4. \A k \in TagKeys : After(recs[c], <<>>, Len(ruleEval[c]), tagDone[c], k, tag[s][k], o[k])
  BY <1>3 DEF TagInv, Ahead, AheadOn
<1>5. /\ recs[c] \in Seq(RuleRecord) /\ tagDone[c] \in Nat
      /\ ruleEval[c] # <<>> => Len(ruleEval[c]) # 0
  BY DEF TypeOK
<1>6. ASSUME FullyRecorded(c) PROVE \A k \in TagKeys : o[k] = tag[s][k]
  <2>1. /\ Len(ruleEval[c]) = Len(recs[c])
        /\ ruleEval[c] # <<>> => tagDone[c] = Len(recs[c][Len(recs[c])].changes)
    BY <1>6 DEF FullyRecorded, TagsStored
  <2>2. recs[c] # <<>> => ruleEval[c] # <<>>
    BY <1>5, <2>1
  <2> QED
    BY <1>4, <1>5, <2>1, <2>2, AllStored
<1>7. ASSUME \A i \in DOMAIN recs[c] : recs[c][i].changes = <<>>
      PROVE  \A k \in TagKeys : o[k] = tag[s][k]
  BY <1>4, <1>5, <1>7, NoneMade
<1>8. \/ FullyRecorded(c)
      \/ \A i \in DOMAIN recs[c] : recs[c][i].changes = <<>>
  <2>1. CASE Commit(c)
    BY <2>1 DEF Commit
  <2>2. CASE RecordFails(c)
    <3>1. /\ pc'[c] = "done" /\ UNCHANGED <<req, recs, tagDone, groupEval, ruleEval>>
      BY <2>2 DEF RecordFails, Finish, Goto, TypeOK, tables
    <3>2. storeID(c)' = s /\ FullyRecorded(c)' = FullyRecorded(c)
      BY <3>1 DEF storeID, FullyRecorded, TagsStored
    <3> QED
      BY <3>1, <3>2 DEF Unsaved
  <2> QED
    BY <2>1, <2>2
<1>9. \A k \in TagKeys : o[k] = tag[s][k]
  BY <1>6, <1>7, <1>8
<1> HIDE DEF o, s
<1>10. o = tag[s]
  BY <1>1, <1>2, <1>9, SameTags
<1> QED
  BY <1>10 DEF o, s

(* No step breaks TagsCoherent.                                            *)
LEMMA CoherentStep ==
  ASSUME TypeOK, Support, TagInv, Remembered', tainted \subseteq tainted', Next
  PROVE  TagsCoherent'
<1> SUFFICES ASSUME NEW b \in Bodies, NEW s \in StoreIDs, s = toStoreID(b),
                    cache'[b] # None, s \notin tainted',
                    \A d \in Conns : Loaded(d)' => storeID(d)' # s
             PROVE  object'[cache'[b]].tags = tag'[s]
  BY DEF TagsCoherent, InFlight, StoreIDs
<1>1. ASSUME cache[b] # None, \A d \in Conns : Loaded(d) => storeID(d) # s
      PROVE  object[cache[b]].tags = tag[s]
  BY <1>1 DEF TagInv, TagsCoherent, InFlight
<1>2. ASSUME NEW c \in Conns, Receive(c) PROVE object'[cache'[b]].tags = tag'[s]
  <2>1. UNCHANGED <<cache, object, tag>>
    BY <1>2 DEF Receive, memory, tables
  <2>2. \A d \in Conns : Loaded(d) => Loaded(d)' /\ req'[d] = req[d]
    BY <1>2 DEF Receive, Goto, TypeOK, Loaded
  <2> QED
    BY <1>1, <2>1, <2>2 DEF storeID
<1>3. ASSUME NEW c \in Conns, handleEval(c) PROVE object'[cache'[b]].tags = tag'[s]
  <2>1. \A d \in Conns : storeID(d)' = storeID(d) /\ (d # c => Loaded(d)' = Loaded(d))
    BY <1>3, StageMoves DEF storeID, Loaded
  <2>2. cache'[b] = cache[b]
    <3>1. CASE GetMetadata(c) \/ PutMessage(c)
      <4>1. cache'[b] = cache[b] \/ b = req[c].body
        BY <3>1, LoadMoves DEF Support
      <4>2. Loaded(c)'
        BY <3>1 DEF GetMetadata, PutMessage, CacheMessage, StartRules, Goto, TypeOK, Loaded
      <4>3. b # req[c].body
        BY <2>1, <4>2 DEF storeID
      <4> QED
        BY <4>1, <4>3
    <3>2. CASE ~ GetMetadata(c) /\ ~ PutMessage(c)
      BY <1>3, <3>2, CacheMoves
    <3> QED
      BY <3>1, <3>2
  <2>3. cache[b] \in Conns /\ cache[b] # None /\ object[cache[b]] # None
    BY <2>2 DEF TypeOK, Support, Valid
  <2>4. CASE Loaded(c) /\ storeID(c) = s
    <3>1. ~ Loaded(c)'
      BY <2>1, <2>4
    <3>2. Commit(c) \/ RecordFails(c)
      <4>1. CASE ReadInput(c) \/ Lookup(c) \/ Prepared(c)
        BY <2>4, <4>1 DEF ReadInput, Lookup, Prepared, Prepare, PrepareFails, GetMetadata,
             GetMetadataMisses, PutMessage, Loaded
      <4>2. CASE Evaluated(c)
        BY <2>4, <3>1, <4>2 DEF Evaluated, SetTag, DeleteTag, ChangeTag, RuleMatches,
             RuleDeclines, RuleThrows, RuleReturns, Goto, TypeOK, Loaded
      <4>3. CASE Begin(c) \/ InsertGroupEval(c) \/ InsertRuleEval(c) \/ PutTagChange(c)
        BY <2>4, <3>1, <4>3 DEF Begin, InsertGroupEval, InsertRuleEval, PutTagChange, Goto,
             TypeOK, Loaded
      <4> QED
        BY <1>3, <4>1, <4>2, <4>3 DEF handleEval, Recorded
    <3>3. UNCHANGED <<object, tag>>
      BY <3>2 DEF Commit, RecordFails, memory, tables
    <3>4. cache[b] = msg[c]
      BY <2>3, <2>4, Alone DEF TagInv
    <3>5. ~ Unsaved(storeID(c))'
      <4>1. ~ Unsaved(s)'
        BY DEF Remembered, Drifting
      <4> QED
        BY <2>1, <2>4, <4>1
    <3>6. object[msg[c]].tags = tag[s]
      BY <2>4, <3>2, <3>5, DoneAgrees
    <3> QED
      BY <2>2, <3>3, <3>4, <3>6
  <2>5. CASE ~ (Loaded(c) /\ storeID(c) = s)
    <3>1. object[cache[b]].tags = tag[s]
      BY <1>1, <2>1, <2>3, <2>5
    <3>2. object'[cache[b]] = object[cache[b]]
      <4>1. CASE SetTag(c) \/ DeleteTag(c)
        <5>1. Loaded(c)
          BY <4>1 DEF SetTag, DeleteTag, ChangeTag, Loaded
        <5>2. cache[b] # msg[c]
          BY <2>3, <2>5, <5>1 DEF TagInv, Owned
        <5> QED
          BY <2>3, <4>1, <5>2, TagChanged
      <4>2. CASE ~ SetTag(c) /\ ~ DeleteTag(c)
        BY <1>3, <2>3, <4>2, ObjectsStay
      <4> QED
        BY <4>1, <4>2
    <3>3. tag'[s] = tag[s]
      <4>1. CASE PutTagChange(c)
        <5>1. Loaded(c)
          BY <4>1 DEF PutTagChange, Loaded
        <5> QED
          BY <2>5, <4>1, <5>1, TableWritten
      <4>2. CASE ~ PutTagChange(c)
        BY <1>3, <4>2, TableStays
      <4> QED
        BY <4>1, <4>2
    <3> QED
      BY <2>2, <3>1, <3>2, <3>3
  <2> QED
    BY <2>4, <2>5
<1>4. CASE Crash
  BY <1>4 DEF Crash
<1> QED
  BY <1>2, <1>3, <1>4 DEF Next

(* What drifts is remembered.                                              *)
LEMMA RememberedStep ==
  ASSUME TagNext
  PROVE  Remembered' /\ tainted \subseteq tainted'
BY DEF TagNext, Remembered

(* The first state satisfies the invariant.                                *)
LEMMA TagInvInit == TagInit => TagInv
<1> SUFFICES ASSUME TagInit PROVE TagInv
  OBVIOUS
<1>1. /\ \A c \in Conns : pc[c] = "idle" /\ ~ Loaded(c) /\ changes[c] = <<>>
      /\ \A b \in Bodies : cache[b] = None
      /\ \A s \in StoreIDs : tag[s] = [k \in TagKeys |-> None]
  BY DEF TagInit, Init, Loaded
<1>2. Drifting = {}
  BY <1>1 DEF Drifting, Overlaps, Forked, Unsaved, InFlight, Objects
<1> QED
  BY <1>1, <1>2 DEF TagInv, Remembered, NoneLeft, Owned, NewUntagged, Ahead, TagsCoherent

(* Every step keeps the invariant.                                         *)
LEMMA TagInvStep ==
  ASSUME ~ ReadsMayFail
  PROVE  IInv /\ TagInv /\ [TagNext]_<<vars, tainted>> => TagInv'
<1>1. ASSUME IInv, TagInv, TagNext PROVE TagInv'
  <2>1. Remembered' /\ tainted \subseteq tainted' /\ Next
    BY <1>1, RememberedStep DEF TagNext
  <2>2. TypeOK /\ Support /\ SampledAgrees
    BY <1>1 DEF IInv
  <2>3. NoneLeft' /\ Owned' /\ NewUntagged'
    BY <1>1, <2>1, <2>2, NoneLeftStep, OwnedStep, NewUntaggedStep DEF TagInv
  <2>4. Ahead' /\ TagsCoherent'
    BY <1>1, <2>1, <2>2, AheadStep, CoherentStep
  <2> QED
    BY <2>1, <2>3, <2>4 DEF TagInv
<1>2. ASSUME TagInv, UNCHANGED <<vars, tainted>> PROVE TagInv'
  <2>1. UNCHANGED <<pc, req, msg, changes, recs, tagDone, cache, object, message, tag,
                    groupEval, ruleEval, tainted>>
    BY <1>2 DEF vars, handler, memory, tables
  <2>2. Remembered'
    <3>1. \A s \in StoreIDs : /\ InFlight(s)' = InFlight(s)
                              /\ Objects(s)' = Objects(s)
                              /\ Unsaved(s)' = Unsaved(s)
      BY <2>1 DEF InFlight, Objects, Unsaved, Loaded, storeID, FullyRecorded, TagsStored
    <3>2. Drifting' = Drifting
      BY <3>1 DEF Drifting, Overlaps, Forked
    <3> QED
      BY <1>2, <2>1, <3>2 DEF TagInv, Remembered
  <2>3. NoneLeft' /\ Owned' /\ NewUntagged'
    BY <1>2, <2>1 DEF TagInv, NoneLeft, Owned, NewUntagged, Loaded, storeID
  <2>4. Ahead' /\ TagsCoherent'
    BY <1>2, <2>1 DEF TagInv, Ahead, AheadOn, TagsCoherent, InFlight, Loaded, storeID
  <2> QED
    BY <2>2, <2>3, <2>4 DEF TagInv
<1> QED
  BY <1>1, <1>2

(* Where the rows of a query can always be read, and for any connections,  *)
(* texts, rules, tags and crashes: of a message nobody is evaluating, no   *)
(* two handlers evaluated at once, with one object and no failed record,   *)
(* the cached tags are those in the database.                              *)
THEOREM CachedTagsCoherent ==
  ASSUME ~ ReadsMayFail
  PROVE  TagSpec => []TagsCoherent
<1>1. TagInit => Init /\ TagInv
  BY TagInvInit DEF TagInit
<1>2. [TagNext]_<<vars, tainted>> => [Next]_vars
  BY DEF TagNext
<1>3. TagSpec => []IInv
  BY <1>1, <1>2, IInvInit, IInvStep, PTL DEF TagSpec
<1>4. TagInv => TagsCoherent
  BY DEF TagInv
<1> QED
  BY <1>1, <1>3, <1>4, TagInvStep, PTL DEF TagSpec
=============================================================================

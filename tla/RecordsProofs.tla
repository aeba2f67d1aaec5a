--------------------------- MODULE RecordsProofs ---------------------------
(***************************************************************************)
(* What is proved of the records a session keeps: its log on disk through  *)
(* crashes, torn writes and migrations (SessionStore), the history derived *)
(* from it (Surface), the completion check that reads it (Verdict) and     *)
(* what is folded out of it for its reader (Projections).                  *)
(***************************************************************************)
EXTENDS MCRecords, SequenceFacts

-----------------------------------------------------------------------------
(* SessionStore                                                            *)

FileLine == (1 .. MaxRows) \cup {Bad}

(* Before anything was torn the file holds the flushed rows and no more;   *)
(* a process that has not loaded the session wrote none of it.             *)
WholeUntilTorn ==
    tears = 0 =>
        /\ ~open /\ Bad \notin ToSet(file)
        /\ loaded /\ gen # "future" => file = SubSeq(mem, 1, flushed)
        /\ pc = "up" /\ ~loaded /\ gen # "future" => file = <<>>

(* What was flushed or loaded is acknowledged, and a rewrite that is due   *)
(* finds in memory every row that is on disk.                              *)
FlushedAcked ==
    /\ ToSet(SubSeq(mem, 1, flushed)) \subseteq acked
    /\ rewrite => ToSet(file) \subseteq ToSet(mem) \cup {Bad}

(* An older log is rewritten before it is appended to. *)
OldWaits ==
    /\ pc # "up" => ~loaded
    /\ ~loaded => ~rewrite /\ mem = <<>> /\ flushed = 0
    /\ gen # "current" => toml = "none"
    /\ pc = "moving" => toml = "toml"
    /\ gen = "old" => file = Legacy /\ ~open /\ (pc = "up" => loaded /\ rewrite)

(* A cut line costs itself and the one written on to it.                   *)
Toll == IF open THEN 2 ELSE 0
TearsPay == IsFiniteSet(Lost) /\ Cardinality(Lost) + Toll <= 2 * tears

StoreInv == StoreTypeOK /\ WholeUntilTorn /\ FlushedAcked /\ OldWaits /\ TearsPay

(* The bounds. *)
LEMMA StoreBounds ==
    /\ Bad \notin Nat /\ MaxRows \in Nat /\ MaxTears \in Nat /\ OldRows \in Nat
    /\ OldRows >= 1 /\ OldRows <= MaxRows /\ Bad \notin 1 .. MaxRows
<1>1. Bad \notin Nat /\ MaxRows \in Nat /\ MaxTears \in Nat /\ OldRows \in 1 .. MaxRows
  BY SessionStoreAssumption
<1>2. QED
  BY <1>1

(* What reading a file back yields. *)
LEMMA RowsFacts ==
    ASSUME NEW s \in Seq(FileLine)
    PROVE  /\ Rows(s) \in Seq(1 .. MaxRows)
           /\ ToSet(Rows(s)) = ToSet(s) \ {Bad}
           /\ Bad \notin ToSet(s) => Rows(s) = s
<1> DEFINE at == {i \in DOMAIN s : s[i] # Bad}
           p == Picked(s, at)
<1>1. at \subseteq DOMAIN s
  OBVIOUS
<1> HIDE DEF at
<1>2. /\ p \in Seq(FileLine)
      /\ \A k \in 1 .. Len(p) : \E i \in at : p[k] = s[i]
      /\ \A i \in at : \E k \in 1 .. Len(p) : p[k] = s[i]
  BY <1>1, PickedIsListed, PickedRange
<1>3. Rows(s) = p
  BY DEF Rows, at
<1> HIDE DEF p
<1>4. \A k \in 1 .. Len(p) : p[k] \in 1 .. MaxRows
  <2> TAKE k \in 1 .. Len(p)
  <2>1. PICK i \in at : p[k] = s[i]
    BY <1>2
  <2>2. s[i] # Bad /\ i \in 1 .. Len(s)
    BY <2>1 DEF at
  <2>3. s[i] \in FileLine
    BY <2>2, ElementOfSeq
  <2>4. QED
    BY <2>1, <2>2, <2>3 DEF FileLine
<1>5. p \in Seq(1 .. MaxRows)
  <2> DEFINE n == Len(p)
  <2>1. p \in [1 .. n -> FileLine] /\ n \in Nat
    BY <1>2, LenProperties
  <2>2. \A k \in 1 .. n : p[k] \in 1 .. MaxRows
    BY <1>4
  <2> HIDE DEF n
  <2>3. p \in [1 .. n -> 1 .. MaxRows]
    BY <2>1, <2>2
  <2>4. QED
    BY <2>1, <2>3, FunctionIsSeq
<1>6. ToSet(p) = ToSet(s) \ {Bad}
  <2>1. ASSUME NEW x \in ToSet(p) PROVE x \in ToSet(s) \ {Bad}
    <3>1. PICK k \in 1 .. Len(p) : x = p[k]
      BY <1>2 DEF ToSet
    <3>2. PICK i \in at : p[k] = s[i]
      BY <1>2
    <3>3. QED
      BY <3>1, <3>2 DEF at, ToSet
  <2>2. ASSUME NEW x \in ToSet(s), x # Bad PROVE x \in ToSet(p)
    <3>1. PICK i \in DOMAIN s : x = s[i]
      BY DEF ToSet
    <3>2. i \in at
      BY <2>2, <3>1 DEF at
    <3>3. PICK k \in 1 .. Len(p) : p[k] = s[i]
      BY <1>2, <3>2
    <3>4. k \in DOMAIN p
      BY <1>2
    <3>5. QED
      BY <3>1, <3>3, <3>4 DEF ToSet
  <2>3. QED
    BY <2>1, <2>2
<1>7. ASSUME Bad \notin ToSet(s) PROVE p = s
  <2>1. at = DOMAIN s
    BY <1>7 DEF at, ToSet
  <2>2. QED
    BY <2>1, PickedAll DEF p
<1>8. QED
  BY <1>3, <1>5, <1>6, <1>7

(* The elements of a concatenation are those of its parts. *)
LEMMA ToSetConcat ==
    ASSUME NEW A, NEW s \in Seq(A), NEW t \in Seq(A)
    PROVE  ToSet(s \o t) = ToSet(s) \cup ToSet(t)
<1> DEFINE u == s \o t
<1>1. /\ u \in Seq(A) /\ Len(u) = Len(s) + Len(t) /\ Len(s) \in Nat /\ Len(t) \in Nat
      /\ \A i \in 1 .. Len(s) : u[i] = s[i]
      /\ \A i \in 1 .. Len(t) : u[Len(s) + i] = t[i]
  BY ConcatProperties
<1>2. DOMAIN u = 1 .. Len(u) /\ DOMAIN s = 1 .. Len(s) /\ DOMAIN t = 1 .. Len(t)
  BY <1>1
<1> HIDE DEF u
<1>3. ASSUME NEW x \in ToSet(u) PROVE x \in ToSet(s) \cup ToSet(t)
  <2>1. PICK i \in 1 .. Len(u) : x = u[i]
    BY <1>2 DEF ToSet
  <2>2. CASE i \in 1 .. Len(s)
    BY <1>1, <1>2, <2>1, <2>2 DEF ToSet
  <2>3. CASE i \notin 1 .. Len(s)
    <3>1. i - Len(s) \in 1 .. Len(t) /\ i = Len(s) + (i - Len(s))
      BY <1>1, <2>3
    <3>2. u[i] = t[i - Len(s)]
      BY <1>1, <3>1
    <3>3. QED
      BY <1>2, <2>1, <3>1, <3>2 DEF ToSet
  <2>4. QED
    BY <2>2, <2>3
<1>4. ASSUME NEW x \in ToSet(s) PROVE x \in ToSet(u)
  <2>1. PICK i \in 1 .. Len(s) : x = s[i]
    BY <1>2 DEF ToSet
  <2>2. i \in 1 .. Len(u)
    BY <1>1
  <2>3. QED
    BY <1>1, <1>2, <2>1, <2>2 DEF ToSet
<1>5. ASSUME NEW x \in ToSet(t) PROVE x \in ToSet(u)
  <2>1. PICK i \in 1 .. Len(t) : x = t[i]
    BY <1>2 DEF ToSet
  <2>2. Len(s) + i \in 1 .. Len(u) /\ u[Len(s) + i] = t[i]
    BY <1>1
  <2>3. QED
    BY <1>2, <2>1, <2>2 DEF ToSet
<1>6. QED
  BY <1>3, <1>4, <1>5 DEF u

(* The lines s join a file.  If its last line was cut, the first of them   *)
(* goes on in it and both are lost; nothing else is.                       *)
LEMMA JoinedFacts ==
    ASSUME StoreTypeOK, NEW s \in Seq(FileLine)
    PROVE  /\ Joined(s) \in Seq(FileLine)
           /\ s = <<>> => Joined(s) = file
           /\ ~open => Joined(s) = file \o s
           /\ \E x : ToSet(file) \subseteq ToSet(Joined(s)) \cup {x}
           /\ \E x : ToSet(s) \subseteq ToSet(Joined(s)) \cup {x}
<1>1. file \in Seq(FileLine) /\ open \in BOOLEAN
  BY DEF StoreTypeOK, FileLine
<1>2. Bad \in FileLine
  BY DEF FileLine
<1>3. CASE s = <<>>
  <2>1. Joined(s) = file
    BY <1>3 DEF Joined
  <2>2. file \o s = file
    BY <1>1, <1>3
  <2>3. ToSet(s) = {}
    BY <1>3 DEF ToSet
  <2>4. QED
    BY <1>1, <2>1, <2>2, <2>3
<1>4. CASE s # <<>> /\ ~open
  <2>1. Joined(s) = file \o s
    BY <1>4 DEF Joined
  <2>2. file \o s \in Seq(FileLine) /\ ToSet(file \o s) = ToSet(file) \cup ToSet(s)
    BY <1>1, ConcatProperties, ToSetConcat
  <2>3. QED
    BY <1>4, <2>1, <2>2
<1>5. CASE s # <<>> /\ open
  <2> DEFINE a == Front(file)
             b == <<Bad>>
             c == Tail(s)
  <2>1. Joined(s) = (a \o b) \o c
    BY <1>5 DEF Joined
  <2>2. a \in Seq(FileLine) /\ \A i \in 1 .. Len(file) : i # Len(file) => i \in DOMAIN a /\ a[i] = file[i]
    <3>1. Len(file) \in Nat /\ a = [i \in 1 .. Len(file) - 1 |-> file[i]]
      <4>1. a = [i \in 1 .. Len(file) - 1 - 1 + 1 |-> file[i + 1 - 1]]
        BY <1>1 DEF Front
      <4>2. Len(file) - 1 - 1 + 1 = Len(file) - 1 /\ \A i \in 1 .. Len(file) - 1 : i + 1 - 1 = i
        BY <1>1
      <4>3. QED
        BY <1>1, <4>1, <4>2
    <3> HIDE DEF a
    <3>2. \A i \in 1 .. Len(file) - 1 : file[i] \in FileLine
      BY <1>1
    <3>3. CASE Len(file) = 0
      <4>1. a = <<>>
        BY <3>1, <3>3
      <4>2. QED
        BY <3>3, <4>1
    <3>4. CASE Len(file) # 0
      <4>1. Len(file) - 1 \in Nat
        BY <3>1, <3>4
      <4>2. a \in [1 .. Len(file) - 1 -> FileLine]
        BY <3>1, <3>2
      <4>3. a \in Seq(FileLine)
        BY <4>1, <4>2, SeqDef
      <4>4. QED
        BY <3>1, <4>2, <4>3
    <3>5. QED
      BY <3>3, <3>4
  <2>3. b \in Seq(FileLine) /\ c \in Seq(FileLine)
    BY <1>2, <1>5
  <2>4. ToSet(s) \subseteq ToSet(c) \cup {Head(s)}
    <3>1. ASSUME NEW i \in DOMAIN s PROVE s[i] = Head(s) \/ \E j \in DOMAIN c : s[i] = c[j]
      <4>1. i = 1 \/ (i - 1 \in DOMAIN c /\ s[i] = c[i - 1])
        BY <1>5
      <4>2. QED
        BY <4>1
    <3> HIDE DEF c
    <3>2. QED
      BY <3>1 DEF ToSet
  <2> HIDE DEF a, b, c
  <2>5. ToSet(file) \subseteq ToSet(a) \cup {file[Len(file)]}
    <3>1. ASSUME NEW i \in DOMAIN file, i # Len(file) PROVE file[i] \in ToSet(a)
      BY <1>1, <2>2, <3>1 DEF ToSet
    <3>2. QED
      BY <3>1 DEF ToSet
  <2>6. a \o b \in Seq(FileLine) /\ ToSet(a \o b) = ToSet(a) \cup ToSet(b)
    BY <2>2, <2>3, ConcatProperties, ToSetConcat
  <2> DEFINE d == a \o b
  <2> HIDE DEF d
  <2>7. d \o c \in Seq(FileLine) /\ ToSet(d \o c) = ToSet(d) \cup ToSet(c)
    <3>1. d \in Seq(FileLine)
      BY <2>6 DEF d
    <3>2. QED
      BY <2>3, <3>1, ConcatProperties, ToSetConcat
  <2>8. Joined(s) = d \o c
    BY <2>1 DEF d
  <2>9. ToSet(Joined(s)) = ToSet(a) \cup ToSet(b) \cup ToSet(c) /\ Joined(s) \in Seq(FileLine)
    BY <2>6, <2>7, <2>8 DEF d
  <2>10. QED
    BY <1>5, <2>4, <2>5, <2>9
<1>6. QED
  BY <1>3, <1>4, <1>5

(* A set grows by as many as are added.                                    *)
LEMMA LostOneMore ==
    ASSUME NEW X, NEW Y, IsFiniteSet(X), NEW a, Y \subseteq X \cup {a}
    PROVE  IsFiniteSet(Y) /\ Cardinality(Y) <= Cardinality(X) + 1
<1>1. IsFiniteSet(X \cup {a}) /\ Cardinality(X \cup {a}) <= Cardinality(X) + 1
  <2>1. /\ IsFiniteSet(X \cup {a})
        /\ Cardinality(X \cup {a}) = IF a \in X THEN Cardinality(X) ELSE Cardinality(X) + 1
    BY FS_AddElement
  <2>2. Cardinality(X) \in Nat
    BY FS_CardinalityType
  <2>3. QED
    BY <2>1, <2>2
<1>2. IsFiniteSet(Y) /\ Cardinality(Y) <= Cardinality(X \cup {a})
  BY <1>1, FS_Subset
<1>3. Cardinality(X) \in Nat /\ Cardinality(Y) \in Nat /\ Cardinality(X \cup {a}) \in Nat
  BY <1>1, <1>2, FS_CardinalityType
<1>4. QED
  BY <1>1, <1>2, <1>3

(* What writing the lines s costs: nothing, if there is no open line or    *)
(* nothing is written; at most the open line and the first of s otherwise. *)
LEMMA WriteCost ==
    ASSUME StoreTypeOK, TearsPay, NEW s \in Seq(FileLine),
           NEW L, L \subseteq (acked \cup ToSet(s)) \ ToSet(Joined(s))
    PROVE  /\ IsFiniteSet(L) /\ Cardinality(L) \in Nat
           /\ Cardinality(L) <= 2 * tears
           /\ s = <<>> => Cardinality(L) + Toll <= 2 * tears
<1>1. /\ IsFiniteSet(Lost) /\ Cardinality(Lost) \in Nat /\ tears \in Nat
      /\ Cardinality(Lost) + Toll <= 2 * tears
  BY FS_CardinalityType DEF TearsPay, StoreTypeOK
<1>2. ASSUME L \subseteq Lost
      PROVE  IsFiniteSet(L) /\ Cardinality(L) \in Nat /\ Cardinality(L) <= Cardinality(Lost)
  BY <1>1, <1>2, FS_Subset, FS_CardinalityType
<1>3. CASE s = <<>>
  <2>1. Joined(s) = file
    BY <1>3, JoinedFacts
  <2>2. ToSet(s) = {}
    BY <1>3 DEF ToSet
  <2>3. L \subseteq Lost
    BY <2>1, <2>2 DEF Lost
  <2>4. QED
    BY <1>1, <1>2, <2>3 DEF Toll
<1>4. CASE s # <<>> /\ ~open
  <2>1. Joined(s) = file \o s
    BY <1>4, JoinedFacts
  <2>2. file \in Seq(FileLine)
    BY DEF StoreTypeOK, FileLine
  <2>3. ToSet(Joined(s)) = ToSet(file) \cup ToSet(s)
    BY <2>1, <2>2, ToSetConcat
  <2>4. L \subseteq Lost
    BY <2>3 DEF Lost
  <2>5. QED
    BY <1>1, <1>2, <1>4, <2>4 DEF Toll
<1>5. CASE s # <<>> /\ open
  <2>1. PICK x : ToSet(file) \subseteq ToSet(Joined(s)) \cup {x}
    BY JoinedFacts
  <2>2. PICK y : ToSet(s) \subseteq ToSet(Joined(s)) \cup {y}
    BY JoinedFacts
  <2> DEFINE M == Lost \cup {x}
  <2>3. L \subseteq M \cup {y} /\ M \subseteq Lost \cup {x}
    BY <2>1, <2>2 DEF Lost
  <2> HIDE DEF M
  <2>4. IsFiniteSet(M) /\ Cardinality(M) <= Cardinality(Lost) + 1
    BY <1>1, <2>3, LostOneMore
  <2>5. IsFiniteSet(L) /\ Cardinality(L) <= Cardinality(M) + 1
    BY <2>3, <2>4, LostOneMore
  <2>6. Cardinality(M) \in Nat /\ Cardinality(L) \in Nat
    BY <2>4, <2>5, FS_CardinalityType
  <2>7. Toll = 2
    BY <1>5 DEF Toll
  <2>8. QED
    BY <1>1, <1>5, <2>4, <2>5, <2>6, <2>7
<1>6. QED
  BY <1>3, <1>4, <1>5

(* A write that stops on its way is paid for. *)
LEMMA TornPays ==
    ASSUME StoreTypeOK, TearsPay, NEW s \in Seq(FileLine), NEW k \in 0 .. Len(s),
           Torn(s, k), acked' = acked
    PROVE  TearsPay' /\ file' \in Seq(FileLine) /\ open' \in BOOLEAN /\ tears' \in 1 .. MaxTears
<1> DEFINE b == SubSeq(s, 1, k)
<1>1. b \in Seq(FileLine)
  <2>1. \A i \in 1 .. k : s[i] \in FileLine
    BY ElementOfSeq
  <2>2. 1 \in Int /\ k \in Int
    OBVIOUS
  <2>3. QED
    BY <2>1, <2>2, SubSeqProperties
<1> HIDE DEF b
<1>2. \E r \in Seq(FileLine) : file' = Joined(r)
  <2>1. CASE Written(b)
    BY <1>1, <2>1 DEF Written
  <2>2. CASE k < Len(s) /\ \E piece \in {Bad, s[k + 1]} : file' = Joined(Append(b, piece))
    <3>1. k + 1 \in 1 .. Len(s)
      BY <2>2
    <3>2. s[k + 1] \in FileLine /\ Bad \in FileLine
      BY <3>1, ElementOfSeq DEF FileLine
    <3>3. PICK piece \in {Bad, s[k + 1]} : file' = Joined(Append(b, piece))
      BY <2>2
    <3>4. piece \in FileLine
      BY <3>2, <3>3
    <3>5. Append(b, piece) \in Seq(FileLine)
      BY <1>1, <3>4, AppendProperties
    <3>6. QED
      BY <3>3, <3>5
  <2>3. QED
    BY <2>1, <2>2 DEF Torn, b
<1>3. PICK r \in Seq(FileLine) : file' = Joined(r)
  BY <1>2
<1>4. file' \in Seq(FileLine)
  BY <1>3, JoinedFacts
<1> DEFINE L == acked \ ToSet(Joined(r))
<1>5. L \subseteq (acked \cup ToSet(r)) \ ToSet(Joined(r))
  OBVIOUS
<1>6. L = Lost'
  BY <1>3 DEF Lost
<1> HIDE DEF L
<1>7. IsFiniteSet(L) /\ Cardinality(L) \in Nat /\ Cardinality(L) <= 2 * tears
  BY <1>5, WriteCost
<1>8. open \in BOOLEAN /\ tears \in Nat /\ MaxTears \in Nat
  BY StoreBounds DEF StoreTypeOK
<1>9. open' \in BOOLEAN /\ tears' = tears + 1 /\ tears < MaxTears
  BY <1>8 DEF Torn, Written
<1>10. Toll' \in 0 .. 2
  BY <1>9 DEF Toll
<1>11. Cardinality(L) + Toll' <= 2 * tears'
  BY <1>7, <1>8, <1>9, <1>10
<1>12. tears' \in 1 .. MaxTears
  BY <1>8, <1>9
<1>13. QED
  BY <1>4, <1>6, <1>7, <1>9, <1>11, <1>12 DEF TearsPay

(* The log in memory is its flushed part and what is pending. *)
LEMMA MemFacts ==
    ASSUME StoreTypeOK
    PROVE  /\ mem \in Seq(FileLine) /\ Pending \in Seq(FileLine) /\ Len(mem) \in Nat
           /\ SubSeq(mem, 1, flushed) \o Pending = mem
           /\ ToSet(mem) = ToSet(SubSeq(mem, 1, flushed)) \cup ToSet(Pending)
           /\ SubSeq(mem, 1, Len(mem)) = mem
           /\ ToSet(mem) \subseteq 1 .. MaxRows /\ Bad \notin ToSet(mem)
           /\ Bad \notin ToSet(Pending)
<1>1. mem \in Seq(1 .. MaxRows) /\ flushed \in 0 .. Len(mem) /\ Len(mem) \in Nat
  BY LenProperties DEF StoreTypeOK
<1>2. mem \in Seq(FileLine)
  <2>1. 1 .. MaxRows \subseteq FileLine
    BY DEF FileLine
  <2>2. QED
    BY <1>1, <2>1, SeqMonotonic
<1>3. \A i \in 1 .. Len(mem) : mem[i] \in 1 .. MaxRows
  BY <1>1, ElementOfSeq
<1> DEFINE f == SubSeq(mem, 1, flushed)
<1>4. f \in Seq(1 .. MaxRows)
  <2>1. \A i \in 1 .. flushed : mem[i] \in 1 .. MaxRows
    BY <1>1, <1>3
  <2>2. 1 \in Int /\ flushed \in Int
    BY <1>1
  <2>3. QED
    BY <2>1, <2>2, SubSeqProperties
<1>5. Pending \in Seq(1 .. MaxRows)
  <2>1. \A i \in flushed + 1 .. Len(mem) : mem[i] \in 1 .. MaxRows
    BY <1>1, <1>3
  <2>2. flushed + 1 \in Int /\ Len(mem) \in Int
    BY <1>1
  <2>3. QED
    BY <2>1, <2>2, SubSeqProperties DEF Pending
<1>6. f \o Pending = mem
  <2>1. 1 \in 1 .. Len(mem) + 1 /\ flushed \in 1 - 1 .. Len(mem) /\ Len(mem) \in flushed .. Len(mem)
    BY <1>1
  <2>2. f \o Pending = SubSeq(mem, 1, Len(mem))
    BY <1>1, <2>1, ConcatAdjacentSubSeq DEF Pending
  <2>3. QED
    BY <1>1, <2>2, SubSeqFull
<1>7. SubSeq(mem, 1, Len(mem)) = mem
  BY <1>1, SubSeqFull
<1> HIDE DEF f
<1>8. ToSet(f \o Pending) = ToSet(f) \cup ToSet(Pending)
  BY <1>4, <1>5, ToSetConcat
<1>9. ToSet(mem) \subseteq 1 .. MaxRows
  <2>1. DOMAIN mem = 1 .. Len(mem)
    BY <1>1, LenProperties
  <2>2. QED
    BY <1>3, <2>1 DEF ToSet
<1>10. Bad \notin ToSet(mem)
  BY <1>9, StoreBounds
<1>11. Pending \in Seq(FileLine)
  <2>1. 1 .. MaxRows \subseteq FileLine
    BY DEF FileLine
  <2>2. QED
    BY <1>5, <2>1, SeqMonotonic
<1>12. QED
  BY <1>1, <1>2, <1>6, <1>7, <1>8, <1>9, <1>10, <1>11 DEF f

(* The log an older or newer build left: its rows, none of them cut.       *)
LEMMA LegacyFacts ==
    /\ Legacy \in Seq(FileLine) /\ Bad \notin ToSet(Legacy)
    /\ Legacy # <<>> /\ Rows(Legacy) = Legacy
<1>1. Legacy \in [1 .. OldRows -> FileLine]
  BY StoreBounds DEF Legacy, FileLine
<1>2. Legacy \in Seq(FileLine) /\ Len(Legacy) = OldRows
  BY <1>1, StoreBounds, FunctionIsSeq
<1>3. Bad \notin ToSet(Legacy)
  <2>1. \A i \in DOMAIN Legacy : Legacy[i] # Bad
    BY StoreBounds DEF Legacy
  <2>2. QED
    BY <2>1 DEF ToSet
<1>4. Legacy # <<>>
  BY <1>2, StoreBounds
<1>5. QED
  BY <1>2, <1>3, <1>4, RowsFacts

(* Every state a program may find itself in satisfies the invariant. *)
LEMMA StoreInitially == StoreInit => StoreInv
<1> SUFFICES ASSUME StoreInit PROVE StoreInv
  OBVIOUS
<1> USE StoreBounds
<1>1. file \in {<<>>, Legacy} /\ (gen = "old" => file = Legacy) /\ minted \in 0 .. MaxRows
  BY DEF StoreInit
<1>2. <<>> \in Seq(FileLine) /\ ToSet(<<>>) = {} /\ <<>> \in Seq(1 .. MaxRows) /\ Len(<<>>) = 0
  BY DEF ToSet
<1>3. file \in Seq(FileLine) /\ Bad \notin ToSet(file)
  BY <1>1, <1>2, LegacyFacts
<1>4. heads \in SUBSET (1 .. minted)
  BY DEF StoreInit
<1>5. StoreTypeOK
  <2>1. file \in Seq((1 .. MaxRows) \cup {Bad})
    BY <1>3 DEF FileLine
  <2>2. gen \in {"current", "old", "future"} /\ toml \in {"none", "toml", "bak"} /\ pc = "down"
    BY DEF StoreInit
  <2>3. /\ present \in BOOLEAN /\ open \in BOOLEAN /\ loaded \in BOOLEAN /\ rewrite \in BOOLEAN
        /\ mem = <<>> /\ flushed = 0 /\ tears = 0 /\ acked = {}
    BY DEF StoreInit
  <2>4. mem \in Seq(1 .. MaxRows) /\ flushed \in 0 .. Len(mem) /\ tears \in 0 .. MaxTears
    BY <1>2, <2>3
  <2>5. QED
    BY <1>1, <1>4, <2>1, <2>2, <2>3, <2>4 DEF StoreTypeOK
<1>6. WholeUntilTorn
  BY <1>3 DEF WholeUntilTorn, StoreInit
<1>7. FlushedAcked
  <2>1. SubSeq(<<>>, 1, 0) = <<>>
    OBVIOUS
  <2>2. QED
    BY <1>2, <2>1 DEF FlushedAcked, StoreInit
<1>8. OldWaits
  BY <1>1 DEF OldWaits, StoreInit
<1>9. TearsPay
  <2>1. Lost = {}
    BY DEF Lost, StoreInit
  <2>2. IsFiniteSet({}) /\ Cardinality({}) = 0
    BY FS_EmptySet
  <2>3. Toll = 0 /\ tears = 0
    BY DEF Toll, StoreInit
  <2>4. QED
    BY <2>1, <2>2, <2>3 DEF TearsPay
<1>10. QED
  BY <1>5, <1>6, <1>7, <1>8, <1>9 DEF StoreInv

(* A process that is gone remembers nothing, and every action that starts  *)
(* or loads a log knows what is in it.                                     *)
Forgot == loaded = FALSE /\ mem = <<>> /\ flushed = 0 /\ rewrite = FALSE

MemTyped ==
    /\ mem \in Seq(1 .. MaxRows) /\ flushed \in 0 .. Len(mem)
    /\ rewrite \in BOOLEAN /\ loaded \in BOOLEAN

LEMMA ForgotFacts ==
    Forgot => MemTyped /\ FlushedAcked
<1> SUFFICES ASSUME Forgot
             PROVE  MemTyped /\ FlushedAcked
  OBVIOUS
<1>1. mem = <<>> /\ flushed = 0 /\ rewrite = FALSE /\ loaded = FALSE
  BY DEF Forgot
<1>2. SubSeq(<<>>, 1, 0) = <<>> /\ <<>> \in Seq(1 .. MaxRows) /\ Len(<<>>) = 0 /\ 0 \in 0 .. 0
  OBVIOUS
<1>3. ToSet(<<>>) = {}
  BY DEF ToSet
<1>4. FlushedAcked
  BY <1>1, <1>2, <1>3 DEF FlushedAcked
<1>5. mem \in Seq(1 .. MaxRows) /\ flushed \in 0 .. Len(mem)
  BY <1>1, <1>2
<1>6. QED
  BY <1>1, <1>4, <1>5 DEF MemTyped

(* new_session keeps the invariant. *)
LEMMA CreateKeeps ==
    ASSUME StoreInv, Create PROVE StoreInv'
<1> USE StoreBounds
<1>1. /\ StoreTypeOK /\ minted \in 0 .. MaxRows /\ minted < MaxRows /\ heads \in SUBSET (1 .. minted)
      /\ UNCHANGED <<file, present, open, gen, toml, pc, tears, acked>>
      /\ pc = "up" /\ ~loaded /\ loaded' = TRUE /\ mem' = <<minted + 1>>
      /\ flushed' = 0 /\ rewrite' = FALSE /\ minted' = minted + 1 /\ heads' = heads \cup {minted + 1}
  BY DEF StoreInv, StoreTypeOK, Create, disk
<1>2. minted + 1 \in 1 .. MaxRows /\ 1 .. minted \subseteq 1 .. minted + 1 /\ minted + 1 \in 1 .. minted + 1
  BY <1>1
<1>3. mem' \in Seq(1 .. MaxRows) /\ Len(mem') = 1 /\ SubSeq(mem', 1, 0) = <<>> /\ ToSet(<<>>) = {}
  BY <1>1, <1>2 DEF ToSet
<1>4. StoreTypeOK'
  <2>1. heads' \in SUBSET (1 .. minted')
    BY <1>1, <1>2
  <2>2. minted' \in 0 .. MaxRows /\ flushed' \in 0 .. Len(mem')
    BY <1>1, <1>2, <1>3
  <2>3. QED
    BY <1>1, <1>3, <2>1, <2>2 DEF StoreTypeOK
<1>5. WholeUntilTorn'
  BY <1>1, <1>3 DEF WholeUntilTorn, StoreInv
<1>6. FlushedAcked'
  BY <1>1, <1>3 DEF FlushedAcked
<1>7. OldWaits'
  BY <1>1 DEF OldWaits, StoreInv
<1>8. TearsPay'
  BY <1>1 DEF TearsPay, StoreInv, Lost, Toll
<1>9. QED
  BY <1>4, <1>5, <1>6, <1>7, <1>8 DEF StoreInv

(* So does an append in memory. *)
LEMMA AppendKeeps ==
    ASSUME StoreInv, AppendRow PROVE StoreInv'
<1> USE StoreBounds
<1>1. /\ StoreTypeOK /\ minted \in 0 .. MaxRows /\ minted < MaxRows /\ heads \in SUBSET (1 .. minted)
      /\ UNCHANGED <<file, present, open, gen, toml, pc, tears, acked, loaded, flushed, rewrite, heads>>
      /\ pc = "up" /\ loaded /\ mem' = Append(mem, minted + 1) /\ minted' = minted + 1
      /\ mem \in Seq(1 .. MaxRows) /\ flushed \in 0 .. Len(mem)
  BY DEF StoreInv, StoreTypeOK, AppendRow, disk
<1>2. minted + 1 \in 1 .. MaxRows /\ 1 .. minted \subseteq 1 .. minted + 1
  BY <1>1
<1> DEFINE x == minted + 1
<1>3. /\ mem' \in Seq(1 .. MaxRows) /\ Len(mem') = Len(mem) + 1 /\ Len(mem) \in Nat
      /\ \A i \in 1 .. Len(mem) : mem'[i] = mem[i]
  <2>1. x \in 1 .. MaxRows /\ mem' = Append(mem, x)
    BY <1>1, <1>2
  <2> HIDE DEF x
  <2>2. QED
    BY <1>1, <2>1, AppendProperties, LenProperties
<1>4. SubSeq(mem', 1, flushed) = SubSeq(mem, 1, flushed)
  <2>1. \A i \in 1 .. flushed : mem'[i] = mem[i]
    BY <1>1, <1>3
  <2>2. flushed \in Nat /\ flushed <= Len(mem) /\ flushed <= Len(mem')
    BY <1>1, <1>3
  <2>3. QED
    BY <1>1, <1>3, <2>1, <2>2
<1>5. ToSet(mem) \subseteq ToSet(mem')
  <2>1. DOMAIN mem = 1 .. Len(mem) /\ DOMAIN mem' = 1 .. Len(mem')
    BY <1>1, <1>3, LenProperties
  <2>2. ASSUME NEW i \in DOMAIN mem PROVE mem[i] \in ToSet(mem')
    <3>1. i \in DOMAIN mem' /\ mem'[i] = mem[i]
      BY <1>3, <2>1
    <3>2. QED
      BY <3>1 DEF ToSet
  <2>3. QED
    BY <2>2 DEF ToSet
<1>6. StoreTypeOK'
  <2>1. heads' \in SUBSET (1 .. minted')
    BY <1>1, <1>2
  <2>2. minted' \in 0 .. MaxRows /\ flushed' \in 0 .. Len(mem')
    BY <1>1, <1>2, <1>3
  <2>3. QED
    BY <1>1, <1>3, <2>1, <2>2 DEF StoreTypeOK
<1>7. WholeUntilTorn'
  BY <1>1, <1>4 DEF WholeUntilTorn, StoreInv
<1>8. FlushedAcked'
  BY <1>1, <1>4, <1>5 DEF FlushedAcked, StoreInv
<1>9. OldWaits'
  BY <1>1 DEF OldWaits, StoreInv
<1>10. TearsPay'
  BY <1>1 DEF TearsPay, StoreInv, Lost, Toll
<1>11. QED
  BY <1>6, <1>7, <1>8, <1>9, <1>10 DEF StoreInv

(* A flush: what was pending is on disk behind what was there, or the whole *)
(* log is written anew.                                                     *)
LEMMA FlushKeeps ==
    ASSUME StoreInv, Flush PROVE StoreInv'
<1> USE StoreBounds
<1>1. /\ StoreTypeOK /\ TearsPay
      /\ pc = "up" /\ loaded /\ flushed' = Len(mem) /\ rewrite' = FALSE
      /\ acked' = acked \cup ToSet(mem)
      /\ UNCHANGED <<toml, pc, loaded, mem, minted, heads, tears>>
  BY DEF StoreInv, Flush
<1>2. /\ mem \in Seq(FileLine) /\ Pending \in Seq(FileLine) /\ Len(mem) \in Nat
      /\ SubSeq(mem, 1, flushed) \o Pending = mem
      /\ ToSet(mem) = ToSet(SubSeq(mem, 1, flushed)) \cup ToSet(Pending)
      /\ SubSeq(mem, 1, Len(mem)) = mem
      /\ ToSet(mem) \subseteq 1 .. MaxRows /\ Bad \notin ToSet(mem) /\ Bad \notin ToSet(Pending)
  BY <1>1, MemFacts
<1>3. SubSeq(mem', 1, flushed') = mem
  BY <1>1, <1>2
<1>4. /\ acked \in SUBSET (1 .. MaxRows) /\ tears \in Nat /\ file \in Seq(FileLine)
      /\ Bad \notin acked
  <2>1. acked \in SUBSET (1 .. MaxRows) /\ tears \in 0 .. MaxTears
    BY <1>1 DEF StoreTypeOK
  <2>2. file \in Seq(FileLine)
    BY <1>1 DEF StoreTypeOK, FileLine
  <2>3. Bad \notin 1 .. MaxRows /\ tears \in Nat
    BY <2>1
  <2>4. QED
    BY <2>1, <2>2, <2>3
<1>5. CASE rewrite /\ file' = mem /\ open' = FALSE /\ gen' = "current" /\ present' = TRUE
  <2>1. StoreTypeOK'
    <3>1. flushed' \in 0 .. Len(mem') /\ acked' \in SUBSET (1 .. MaxRows)
      <4>1. acked' \in SUBSET (1 .. MaxRows)
        BY <1>1, <1>2, <1>4, Zenon
      <4>2. mem' = mem /\ flushed' = Len(mem) /\ Len(mem) \in 0 .. Len(mem)
        BY <1>1, <1>2
      <4>3. QED
        BY <4>1, <4>2
    <3>2. file' \in Seq((1 .. MaxRows) \cup {Bad})
      BY <1>2, <1>5 DEF FileLine
    <3>3. QED
      BY <1>1, <1>5, <3>1, <3>2 DEF StoreTypeOK
  <2>2. WholeUntilTorn'
    BY <1>1, <1>2, <1>3, <1>5 DEF WholeUntilTorn
  <2>3. FlushedAcked'
    BY <1>1, <1>3 DEF FlushedAcked
  <2>4. OldWaits'
    BY <1>1, <1>5 DEF OldWaits, StoreInv
  <2>5. TearsPay'
    <3>1. ToSet(file) \subseteq ToSet(mem) \cup {Bad}
      BY <1>5 DEF StoreInv, FlushedAcked
    <3>2. Lost' \subseteq Lost
      BY <1>1, <1>4, <1>5, <3>1 DEF Lost
    <3>3. IsFiniteSet(Lost) /\ Cardinality(Lost) \in Nat /\ Cardinality(Lost) <= 2 * tears
      BY <1>1, <1>4, FS_CardinalityType DEF TearsPay, Toll
    <3>4. IsFiniteSet(Lost') /\ Cardinality(Lost') <= Cardinality(Lost) /\ Cardinality(Lost') \in Nat
      BY <3>2, <3>3, FS_Subset, FS_CardinalityType
    <3>5. Toll' = 0 /\ tears' = tears
      BY <1>1, <1>5 DEF Toll
    <3>6. QED
      BY <1>4, <3>3, <3>4, <3>5 DEF TearsPay
  <2>6. QED
    BY <2>1, <2>2, <2>3, <2>4, <2>5 DEF StoreInv
<1>6. CASE ~rewrite /\ Pending # <<>> /\ Written(Pending) /\ present' = TRUE /\ UNCHANGED gen
  <2>1. file' = Joined(Pending) /\ open' = FALSE
    BY <1>6 DEF Written
  <2>2. file' \in Seq(FileLine)
    BY <1>1, <1>2, <2>1, JoinedFacts
  <2>3. StoreTypeOK'
    <3>1. flushed' \in 0 .. Len(mem') /\ acked' \in SUBSET (1 .. MaxRows)
      <4>1. acked' \in SUBSET (1 .. MaxRows)
        BY <1>1, <1>2, <1>4, Zenon
      <4>2. mem' = mem /\ flushed' = Len(mem) /\ Len(mem) \in 0 .. Len(mem)
        BY <1>1, <1>2
      <4>3. QED
        BY <4>1, <4>2
    <3>2. file' \in Seq((1 .. MaxRows) \cup {Bad})
      BY <2>2 DEF FileLine
    <3>3. QED
      BY <1>1, <1>6, <2>1, <3>1, <3>2 DEF StoreTypeOK
  <2>4. WholeUntilTorn'
    <3>1. SUFFICES ASSUME tears = 0
                   PROVE  /\ Bad \notin ToSet(file')
                          /\ gen # "future" => file' = mem
      BY <1>1, <1>3, <2>1, <1>6 DEF WholeUntilTorn
    <3>2. ~open /\ Bad \notin ToSet(file) /\ (gen # "future" => file = SubSeq(mem, 1, flushed))
      BY <1>1, <3>1 DEF StoreInv, WholeUntilTorn
    <3>3. file' = file \o Pending
      BY <1>1, <1>2, <2>1, <3>2, JoinedFacts
    <3>4. ToSet(file') = ToSet(file) \cup ToSet(Pending)
      BY <1>2, <1>4, <3>3, ToSetConcat
    <3>5. QED
      BY <1>2, <3>2, <3>3, <3>4
  <2>5. FlushedAcked'
    BY <1>1, <1>3 DEF FlushedAcked
  <2>6. OldWaits'
    <3>1. gen # "old"
      BY <1>1, <1>6 DEF OldWaits, StoreInv
    <3>2. QED
      BY <1>1, <1>6, <3>1 DEF OldWaits, StoreInv
  <2>7. TearsPay'
    <3>1. ToSet(SubSeq(mem, 1, flushed)) \subseteq acked
      BY DEF StoreInv, FlushedAcked
    <3> DEFINE L == Lost'
    <3>2. L \subseteq (acked \cup ToSet(Pending)) \ ToSet(Joined(Pending))
      BY <1>1, <1>2, <2>1, <3>1 DEF Lost
    <3> HIDE DEF L
    <3>3. IsFiniteSet(L) /\ Cardinality(L) \in Nat /\ Cardinality(L) <= 2 * tears
      BY <1>1, <1>2, <3>2, WriteCost
    <3>4. Toll' = 0 /\ tears' = tears
      BY <1>1, <2>1 DEF Toll
    <3>5. Cardinality(L) + Toll' <= 2 * tears'
      BY <1>4, <3>3, <3>4
    <3>6. QED
      BY <3>3, <3>5 DEF TearsPay, L
  <2>8. QED
    BY <2>3, <2>4, <2>5, <2>6, <2>7 DEF StoreInv
<1>7. QED
  BY <1>5, <1>6 DEF Flush

(* A flush that fails or dies half way, and one the process dies at: what  *)
(* is written is paid for, what is in memory stays or is gone.             *)
LEMMA TornKeeps ==
    ASSUME StoreInv, pc = "up", loaded, ~rewrite, Pending # <<>>,
           NEW k \in 0 .. Len(Pending), Torn(Pending, k), present' = TRUE,
           UNCHANGED <<gen, toml, minted, heads, acked>>,
           UNCHANGED <<pc, memory>> \/ Gone
    PROVE  StoreInv'
<1> USE StoreBounds
<1>1. StoreTypeOK /\ TearsPay /\ Pending \in Seq(FileLine)
  BY MemFacts DEF StoreInv
<1>2. TearsPay' /\ file' \in Seq(FileLine) /\ open' \in BOOLEAN /\ tears' \in 1 .. MaxTears
  BY <1>1, TornPays
<1>3. file' \in Seq((1 .. MaxRows) \cup {Bad}) /\ tears' \in 0 .. MaxTears /\ tears' # 0
  BY <1>2 DEF FileLine
<1>4. gen # "old"
  BY DEF StoreInv, OldWaits
<1>5. CASE UNCHANGED <<pc, memory>>
  <2>1. UNCHANGED <<pc, loaded, mem, flushed, rewrite>>
    BY <1>5 DEF memory
  <2>2. StoreTypeOK'
    BY <1>1, <1>2, <1>3, <2>1 DEF StoreTypeOK
  <2>3. WholeUntilTorn'
    BY <1>3 DEF WholeUntilTorn
  <2>4. FlushedAcked'
    BY <2>1 DEF FlushedAcked, StoreInv
  <2>5. OldWaits'
    BY <1>4, <2>1 DEF OldWaits, StoreInv
  <2>6. QED
    BY <1>2, <2>2, <2>3, <2>4, <2>5 DEF StoreInv
<1>6. CASE Gone
  <2>1. Forgot' /\ pc' = "down"
    BY <1>6 DEF Gone, Forgot
  <2>2. MemTyped' /\ FlushedAcked'
    BY <2>1, ForgotFacts, PTL
  <2>3. StoreTypeOK'
    BY <1>1, <1>2, <1>3, <2>1, <2>2 DEF StoreTypeOK, MemTyped
  <2>4. WholeUntilTorn'
    BY <1>3 DEF WholeUntilTorn
  <2>5. OldWaits'
    BY <1>4, <2>1 DEF OldWaits, StoreInv, Forgot
  <2>6. QED
    BY <1>2, <2>2, <2>3, <2>4, <2>5 DEF StoreInv
<1>7. QED
  BY <1>5, <1>6

(* A process that dies between two writes, and a session that is deleted.  *)
LEMMA CrashKeeps ==
    ASSUME StoreInv, Crash PROVE StoreInv'
<1>1. pc = "up" /\ Gone /\ UNCHANGED <<gen, toml, minted, heads, acked>>
  BY DEF Crash
<1>2. CASE UNCHANGED <<file, present, open, tears>>
  <2>1. Forgot' /\ pc' = "down"
    BY <1>1 DEF Gone, Forgot
  <2>2. MemTyped' /\ FlushedAcked'
    BY <2>1, ForgotFacts, PTL
  <2>3. StoreTypeOK'
    BY <1>1, <1>2, <2>1, <2>2 DEF StoreTypeOK, MemTyped, StoreInv
  <2>4. WholeUntilTorn'
    BY <1>1, <1>2, <2>1 DEF WholeUntilTorn, StoreInv, Forgot
  <2>5. OldWaits'
    BY <1>1, <1>2, <2>1 DEF OldWaits, StoreInv, Forgot
  <2>6. TearsPay'
    BY <1>1, <1>2 DEF TearsPay, StoreInv, Lost, Toll
  <2>7. QED
    BY <2>2, <2>3, <2>4, <2>5, <2>6 DEF StoreInv
<1>3. CASE loaded /\ ~rewrite /\ Pending # <<>> /\ present' = TRUE
           /\ \E k \in 0 .. Len(Pending) : Torn(Pending, k)
  BY <1>1, <1>3, TornKeeps
<1>4. QED
  BY <1>2, <1>3 DEF Crash

LEMMA FlushFailsKeeps ==
    ASSUME StoreInv, FlushFails PROVE StoreInv'
<1>1. /\ pc = "up" /\ loaded /\ ~rewrite /\ Pending # <<>> /\ present' = TRUE
      /\ UNCHANGED <<gen, toml, minted, heads, acked>> /\ UNCHANGED <<pc, memory>>
  BY DEF FlushFails
<1>2. PICK k \in 0 .. Len(Pending) - 1 : Torn(Pending, k)
  BY DEF FlushFails
<1>3. Len(Pending) \in Nat
  BY MemFacts, LenProperties DEF StoreInv
<1>4. k \in 0 .. Len(Pending)
  BY <1>3
<1>5. QED
  BY <1>1, <1>2, <1>4, TornKeeps

LEMMA DeleteKeeps ==
    ASSUME StoreInv, Delete PROVE StoreInv'
<1> USE StoreBounds
<1>1. /\ StoreTypeOK /\ file' = <<>> /\ open' = FALSE /\ present' = FALSE /\ gen' = "current"
      /\ toml' = "none" /\ acked' = {} /\ pc = "up" /\ UNCHANGED <<pc, minted, heads, tears>>
      /\ Forgot'
  BY DEF StoreInv, Delete, Forgot
<1>2. MemTyped' /\ FlushedAcked'
  BY <1>1, ForgotFacts, PTL
<1>3. <<>> \in Seq((1 .. MaxRows) \cup {Bad}) /\ {} \in SUBSET (1 .. MaxRows) /\ ToSet(<<>>) = {}
  BY DEF ToSet
<1>4. StoreTypeOK'
  BY <1>1, <1>2, <1>3 DEF StoreTypeOK, MemTyped
<1>5. WholeUntilTorn'
  BY <1>1, <1>3 DEF WholeUntilTorn, Forgot
<1>6. OldWaits'
  BY <1>1 DEF OldWaits, Forgot
<1>7. TearsPay'
  <2>1. Lost' = {} /\ Toll' = 0 /\ tears' \in Nat
    BY <1>1 DEF Lost, Toll, StoreTypeOK
  <2>2. IsFiniteSet({}) /\ Cardinality({}) = 0
    BY FS_EmptySet
  <2>3. QED
    BY <2>1, <2>2 DEF TearsPay
<1>8. QED
  BY <1>2, <1>4, <1>5, <1>6, <1>7 DEF StoreInv

(* The migration of the legacy file, which only a session of the current   *)
(* format has, writes a log before there is one to flush.                  *)
LEMMA MigrateWritesKeeps ==
    ASSUME StoreInv, MigrateWrites PROVE StoreInv'
<1> USE StoreBounds
<1>1. /\ StoreTypeOK /\ pc = "down" /\ toml = "toml" /\ present' = TRUE /\ pc' = "moving" /\ ~loaded
      /\ UNCHANGED <<gen, toml, loaded, mem, flushed, rewrite, minted, heads, acked, tears>>
      /\ (Written(Legacy) \/ UNCHANGED <<file, open>>)
  BY DEF StoreInv, MigrateWrites, memory, OldWaits
<1>2. gen = "current"
  BY <1>1 DEF StoreInv, OldWaits, StoreTypeOK
<1>3. rewrite = FALSE /\ flushed = 0 /\ mem = <<>>
  BY <1>1 DEF StoreInv, OldWaits, StoreTypeOK
<1>4. FlushedAcked'
  BY <1>1, <1>3 DEF FlushedAcked, StoreInv
<1>5. OldWaits'
  BY <1>1, <1>2 DEF OldWaits, StoreInv
<1>6. CASE UNCHANGED <<file, open>>
  <2>1. StoreTypeOK'
    BY <1>1, <1>6 DEF StoreTypeOK
  <2>2. WholeUntilTorn'
    BY <1>1, <1>6 DEF WholeUntilTorn, StoreInv
  <2>3. TearsPay'
    BY <1>1, <1>6 DEF TearsPay, StoreInv, Lost, Toll
  <2>4. QED
    BY <1>4, <1>5, <2>1, <2>2, <2>3 DEF StoreInv
<1>7. CASE Written(Legacy)
  <2>1. file' = Joined(Legacy) /\ open' = FALSE
    BY <1>7, LegacyFacts DEF Written
  <2>2. file' \in Seq(FileLine)
    BY <1>1, <2>1, LegacyFacts, JoinedFacts
  <2>3. StoreTypeOK'
    <3>1. file' \in Seq((1 .. MaxRows) \cup {Bad})
      BY <2>2 DEF FileLine
    <3>2. QED
      BY <1>1, <2>1, <3>1 DEF StoreTypeOK
  <2>4. WholeUntilTorn'
    <3>1. SUFFICES ASSUME tears = 0 PROVE Bad \notin ToSet(file')
      BY <1>1, <2>1 DEF WholeUntilTorn
    <3>2. ~open /\ Bad \notin ToSet(file) /\ file \in Seq(FileLine)
      BY <1>1, <3>1 DEF StoreInv, WholeUntilTorn, StoreTypeOK, FileLine
    <3>3. file' = file \o Legacy
      BY <1>1, <2>1, <3>2, LegacyFacts, JoinedFacts
    <3>4. ToSet(file') = ToSet(file) \cup ToSet(Legacy)
      BY <3>2, <3>3, LegacyFacts, ToSetConcat
    <3>5. QED
      BY <3>2, <3>4, LegacyFacts
  <2>5. TearsPay'
    <3> DEFINE L == Lost'
    <3>1. L \subseteq (acked \cup ToSet(Legacy)) \ ToSet(Joined(Legacy))
      BY <1>1, <2>1 DEF Lost
    <3> HIDE DEF L
    <3>2. Legacy \in Seq(FileLine) /\ TearsPay
      BY LegacyFacts DEF StoreInv
    <3>3. IsFiniteSet(L) /\ Cardinality(L) \in Nat /\ Cardinality(L) <= 2 * tears
      BY <1>1, <3>1, <3>2, WriteCost
    <3>4. Toll' = 0 /\ tears' = tears /\ tears \in Nat
      BY <1>1, <2>1 DEF Toll, StoreTypeOK
    <3>5. Cardinality(L) + Toll' <= 2 * tears'
      BY <3>3, <3>4
    <3>6. QED
      BY <3>3, <3>5 DEF TearsPay, L
  <2>6. QED
    BY <1>4, <1>5, <2>3, <2>4, <2>5 DEF StoreInv
<1>8. QED
  BY <1>1, <1>6, <1>7

LEMMA MigrateFailsKeeps ==
    ASSUME StoreInv, MigrateFails PROVE StoreInv'
<1> USE StoreBounds
<1>1. /\ StoreTypeOK /\ TearsPay /\ pc = "down" /\ toml = "toml" /\ present' = TRUE /\ ~loaded
      /\ pc' \in {"down", "reading"}
      /\ UNCHANGED <<gen, toml, loaded, mem, flushed, rewrite, minted, heads, acked>>
  BY DEF StoreInv, MigrateFails, memory, OldWaits
<1>2. PICK k \in 0 .. Len(Legacy) : Torn(Legacy, k)
  BY DEF MigrateFails
<1>3. gen = "current" /\ rewrite = FALSE /\ flushed = 0 /\ mem = <<>>
  BY <1>1 DEF StoreInv, OldWaits, StoreTypeOK
<1>4. TearsPay' /\ file' \in Seq(FileLine) /\ open' \in BOOLEAN /\ tears' \in 1 .. MaxTears
  BY <1>1, <1>2, LegacyFacts, TornPays
<1>5. file' \in Seq((1 .. MaxRows) \cup {Bad}) /\ tears' \in 0 .. MaxTears /\ tears' # 0
  BY <1>4 DEF FileLine
<1>6. StoreTypeOK'
  BY <1>1, <1>4, <1>5 DEF StoreTypeOK
<1>7. WholeUntilTorn'
  BY <1>5 DEF WholeUntilTorn
<1>8. FlushedAcked'
  BY <1>1, <1>3 DEF FlushedAcked, StoreInv
<1>9. OldWaits'
  BY <1>1, <1>3 DEF OldWaits, StoreInv
<1>10. QED
  BY <1>4, <1>6, <1>7, <1>8, <1>9 DEF StoreInv

LEMMA MigrateRenamesKeeps ==
    ASSUME StoreInv, MigrateRenames PROVE StoreInv'
<1>1. /\ pc = "moving" /\ toml' \in {"bak", "toml"} /\ pc' = "reading" /\ toml = "toml" /\ ~loaded
      /\ UNCHANGED <<file, present, open, gen, loaded, mem, flushed, rewrite, minted, heads, tears, acked>>
  BY DEF StoreInv, MigrateRenames, memory, OldWaits
<1>2. gen = "current"
  BY <1>1 DEF StoreInv, OldWaits, StoreTypeOK
<1>3. StoreTypeOK'
  BY <1>1 DEF StoreTypeOK, StoreInv
<1>4. WholeUntilTorn'
  BY <1>1 DEF WholeUntilTorn, StoreInv
<1>5. FlushedAcked'
  BY <1>1 DEF FlushedAcked, StoreInv
<1>6. OldWaits'
  BY <1>1, <1>2 DEF OldWaits, StoreInv
<1>7. TearsPay'
  BY <1>1 DEF TearsPay, StoreInv, Lost, Toll
<1>8. QED
  BY <1>3, <1>4, <1>5, <1>6, <1>7 DEF StoreInv

(* Loading reads back what parses; what an older build left is then due    *)
(* for a rewrite with all of it in memory.                                 *)
LEMMA LoadKeeps ==
    ASSUME StoreInv, Load PROVE StoreInv'
<1> USE StoreBounds
<1> DEFINE r == Rows(file)
<1>1. /\ StoreTypeOK /\ pc # "up" /\ pc' = "up" /\ ~loaded
      /\ UNCHANGED <<file, present, open, gen, toml, minted, heads, tears>>
  BY DEF StoreInv, Load, disk, OldWaits
<1>2. file \in Seq(FileLine) /\ acked \in SUBSET (1 .. MaxRows)
  BY <1>1 DEF StoreTypeOK, FileLine
<1>3. r \in Seq(1 .. MaxRows) /\ ToSet(r) = ToSet(file) \ {Bad} /\ (Bad \notin ToSet(file) => r = file)
  BY <1>2, RowsFacts
<1>4. gen = "old" => r # <<>>
  BY LegacyFacts DEF StoreInv, OldWaits
<1>5. CASE (r = <<>> \/ gen = "future") /\ UNCHANGED <<memory, acked>>
  <2>1. UNCHANGED <<loaded, mem, flushed, rewrite, acked>>
    BY <1>5 DEF memory
  <2> HIDE DEF r
  <2>2. StoreTypeOK'
    BY <1>1, <2>1 DEF StoreTypeOK
  <2>3. WholeUntilTorn'
    BY <1>1, <1>3, <1>5, <2>1 DEF WholeUntilTorn, StoreInv
  <2>4. FlushedAcked'
    BY <1>1, <2>1 DEF FlushedAcked, StoreInv
  <2>5. OldWaits'
    BY <1>1, <1>4, <1>5, <2>1 DEF OldWaits, StoreInv
  <2>6. TearsPay'
    BY <1>1, <2>1 DEF TearsPay, StoreInv, Lost, Toll
  <2>7. QED
    BY <2>2, <2>3, <2>4, <2>5, <2>6 DEF StoreInv
<1>6. CASE /\ loaded' = TRUE /\ mem' = r /\ flushed' = Len(r)
           /\ rewrite' = (gen = "old" \/ Headless)
           /\ acked' = acked \cup ToSet(r)
  <2> HIDE DEF r
  <2>1. SubSeq(r, 1, Len(r)) = r /\ Len(r) \in Nat
    BY <1>3, SubSeqFull, LenProperties
  <2>2. \A x \in ToSet(r) : x \in 1 .. MaxRows
    <3>1. DOMAIN r = 1 .. Len(r) /\ \A i \in 1 .. Len(r) : r[i] \in 1 .. MaxRows
      BY <1>3, LenProperties, ElementOfSeq
    <3>2. QED
      BY <3>1 DEF ToSet
  <2>3. acked' \in SUBSET (1 .. MaxRows)
    BY <1>2, <1>6, <2>2
  <2>4. flushed' \in 0 .. Len(mem') /\ rewrite' \in BOOLEAN
    BY <1>6, <2>1
  <2>5. StoreTypeOK'
    BY <1>1, <1>3, <1>6, <2>3, <2>4 DEF StoreTypeOK
  <2>6. SubSeq(mem', 1, flushed') = r
    BY <1>6, <2>1
  <2>7. WholeUntilTorn'
    BY <1>1, <1>3, <1>6, <2>6 DEF WholeUntilTorn, StoreInv
  <2>8. FlushedAcked'
    BY <1>1, <1>3, <1>6, <2>6 DEF FlushedAcked
  <2>9. OldWaits'
    BY <1>1, <1>6 DEF OldWaits, StoreInv
  <2>10. TearsPay'
    <3>1. Lost' = Lost
      BY <1>1, <1>3, <1>6 DEF Lost
    <3>2. QED
      BY <1>1, <3>1 DEF TearsPay, StoreInv, Toll
  <2>11. QED
    BY <2>5, <2>7, <2>8, <2>9, <2>10 DEF StoreInv
<1>7. QED
  BY <1>5, <1>6 DEF Load

(* Every step keeps the invariant. *)
LEMMA StoreStep == StoreInv /\ [StoreNext]_storeVars => StoreInv'
<1> SUFFICES ASSUME StoreInv, [StoreNext]_storeVars PROVE StoreInv'
  OBVIOUS
<1>1. CASE UNCHANGED storeVars
  <2>1. UNCHANGED <<file, present, open, gen, toml, pc, loaded, mem, flushed, rewrite, minted, heads, tears, acked>>
    BY <1>1 DEF storeVars, disk, memory
  <2>2. StoreTypeOK'
    BY <2>1 DEF StoreTypeOK, StoreInv
  <2>3. WholeUntilTorn' /\ FlushedAcked' /\ OldWaits'
    BY <2>1 DEF WholeUntilTorn, FlushedAcked, OldWaits, StoreInv
  <2>4. TearsPay'
    BY <2>1 DEF TearsPay, StoreInv, Lost, Toll
  <2>5. QED
    BY <2>2, <2>3, <2>4 DEF StoreInv
<1>2. CASE StoreNext
  BY <1>2, CreateKeeps, AppendKeeps, FlushKeeps, FlushFailsKeeps, CrashKeeps, DeleteKeeps,
     MigrateWritesKeeps, MigrateFailsKeeps, MigrateRenamesKeeps, LoadKeeps DEF StoreNext
<1>3. QED
  BY <1>1, <1>2

(* What the invariant says of the store. *)
LEMMA StoreSafe ==
    StoreInv => StoreTypeOK /\ CleanRestart /\ LossBounded /\ OldLeftAlone
<1> SUFFICES ASSUME StoreInv PROVE StoreTypeOK /\ CleanRestart /\ LossBounded /\ OldLeftAlone
  OBVIOUS
<1>1. StoreTypeOK /\ OldLeftAlone
  BY DEF StoreInv, OldWaits, OldLeftAlone
<1>2. CleanRestart
  <2>1. file \in Seq(FileLine)
    BY DEF StoreInv, StoreTypeOK, FileLine
  <2>2. Bad \notin ToSet(file) => Rows(file) = file
    BY <2>1, RowsFacts
  <2>3. QED
    BY <2>2 DEF CleanRestart, StoreInv, WholeUntilTorn
<1>3. LossBounded
  <2>1. IsFiniteSet(Lost) /\ Cardinality(Lost) + Toll <= 2 * tears /\ tears \in Nat
    BY StoreBounds DEF StoreInv, TearsPay, StoreTypeOK
  <2>2. Cardinality(Lost) \in Nat /\ Toll \in {0, 2}
    BY <2>1, FS_CardinalityType DEF Toll
  <2>3. QED
    BY <2>1, <2>2 DEF LossBounded
<1>4. QED
  BY <1>1, <1>2, <1>3

(* The session's log on disk is sound. *)
THEOREM StoreIsSound ==
    StoreSpec => [](StoreTypeOK /\ CleanRestart /\ LossBounded /\ OldLeftAlone)
<1>1. StoreInit => StoreInv
  BY StoreInitially
<1>2. StoreInv /\ [StoreNext]_storeVars => StoreInv'
  BY StoreStep
<1>3. StoreInv => StoreTypeOK /\ CleanRestart /\ LossBounded /\ OldLeftAlone
  BY StoreSafe
<1>4. QED
  BY <1>1, <1>2, <1>3, PTL DEF StoreSpec

-----------------------------------------------------------------------------
(* Surface                                                                 *)

(* The constants are numbers. *)
LEMMA SurfaceBounds ==
    MaxSeq \in Nat /\ MinFold \in Nat /\ MinFold >= 1 /\ MinTail \in Nat /\ MinTail >= 1
BY SurfaceAssumption

(* r is s at the positions at, in their order, with e put in at p. *)
Spliced(r, s, at, e) ==
    \E g \in [1 .. Len(r) -> at \cup {0}] :
        /\ \A i, j \in 1 .. Len(r) : g[i] = g[j] => i = j
        /\ \A i \in 1 .. Len(r) : r[i] = IF g[i] = 0 THEN e ELSE s[g[i]]

Kept(s, from, to) == {i \in DOMAIN s : s[i].seq < from \/ s[i].seq > to}

(* Inserting into a sequence moves what follows by one. *)
LEMMA InsertFacts ==
    ASSUME NEW A, NEW t \in Seq(A), NEW e \in A, NEW p \in 1 .. Len(t) + 1
    PROVE  LET r == InsertAt(t, p, e)
           IN  /\ r \in Seq(A) /\ Len(r) = Len(t) + 1
               /\ \A i \in 1 .. Len(r) :
                     r[i] = IF i < p THEN t[i] ELSE IF i = p THEN e ELSE t[i - 1]
<1> DEFINE a == SubSeq(t, 1, p - 1)
           b == <<e>>
           c == SubSeq(t, p, Len(t))
           r == (a \o b) \o c
<1>1. Len(t) \in Nat /\ p \in Nat /\ p >= 1 /\ p <= Len(t) + 1 /\ \A i \in 1 .. Len(t) : t[i] \in A
  BY LenProperties, ElementOfSeq
<1>2. /\ a \in Seq(A) /\ Len(a) = p - 1
      /\ \A i \in 1 .. p - 1 : a[i] = t[i]
  <2>1. 1 \in Int /\ p - 1 \in Int /\ \A i \in 1 .. p - 1 : t[i] \in A
    BY <1>1
  <2>2. /\ a \in Seq(A) /\ Len(a) = IF 1 <= p - 1 THEN p - 1 - 1 + 1 ELSE 0
        /\ \A i \in 1 .. p - 1 - 1 + 1 : a[i] = t[1 + i - 1]
    BY <2>1, SubSeqProperties
  <2> HIDE DEF a
  <2>3. Len(a) = p - 1
    BY <1>1, <2>2
  <2>4. \A i \in 1 .. p - 1 : i \in 1 .. p - 1 - 1 + 1 /\ 1 + i - 1 = i
    BY <1>1
  <2>5. QED
    BY <2>2, <2>3, <2>4
<1>3. /\ c \in Seq(A) /\ Len(c) = Len(t) - p + 1
      /\ \A i \in 1 .. Len(t) - p + 1 : c[i] = t[p + i - 1]
  <2>1. p \in Int /\ Len(t) \in Int /\ \A i \in p .. Len(t) : t[i] \in A
    BY <1>1
  <2>2. /\ c \in Seq(A) /\ Len(c) = IF p <= Len(t) THEN Len(t) - p + 1 ELSE 0
        /\ \A i \in 1 .. Len(t) - p + 1 : c[i] = t[p + i - 1]
    BY <2>1, SubSeqProperties
  <2> HIDE DEF c
  <2>3. QED
    BY <1>1, <2>2
<1>4. b \in Seq(A) /\ Len(b) = 1 /\ b[1] = e
  OBVIOUS
<1>5. InsertAt(t, p, e) = r
  BY DEF InsertAt
<1> HIDE DEF a, b, c
<1> DEFINE d == a \o b
<1>6. /\ d \in Seq(A) /\ Len(d) = p
      /\ \A i \in 1 .. p : d[i] = IF i <= p - 1 THEN a[i] ELSE b[i - (p - 1)]
  <2>1. /\ d \in Seq(A) /\ Len(d) = Len(a) + Len(b)
        /\ \A i \in 1 .. Len(a) + Len(b) : d[i] = IF i <= Len(a) THEN a[i] ELSE b[i - Len(a)]
    BY <1>2, <1>4, ConcatProperties
  <2> HIDE DEF d
  <2>2. Len(a) + Len(b) = p
    BY <1>1, <1>2, <1>4
  <2>3. QED
    BY <1>2, <2>1, <2>2
<1> HIDE DEF d
<1>7. /\ r \in Seq(A) /\ Len(r) = Len(t) + 1
      /\ \A i \in 1 .. Len(t) + 1 : r[i] = IF i <= p THEN d[i] ELSE c[i - p]
  <2>1. /\ d \o c \in Seq(A) /\ Len(d \o c) = Len(d) + Len(c)
        /\ \A i \in 1 .. Len(d) + Len(c) : (d \o c)[i] = IF i <= Len(d) THEN d[i] ELSE c[i - Len(d)]
    BY <1>3, <1>6, ConcatProperties
  <2>2. r = d \o c
    BY DEF d
  <2> HIDE DEF r
  <2>3. Len(d) + Len(c) = Len(t) + 1
    BY <1>1, <1>3, <1>6
  <2>4. QED
    BY <1>6, <2>1, <2>2, <2>3
<1> HIDE DEF r
<1>8. ASSUME NEW i \in 1 .. Len(t) + 1
      PROVE r[i] = IF i < p THEN t[i] ELSE IF i = p THEN e ELSE t[i - 1]
  <2>1. i \in Nat /\ i >= 1 /\ i <= Len(t) + 1
    BY <1>1
  <2>2. CASE i < p
    <3>1. i \in 1 .. p /\ i <= p - 1 /\ i \in 1 .. p - 1 /\ i <= p
      BY <1>1, <2>1, <2>2
    <3>2. QED
      BY <1>2, <1>6, <1>7, <2>2, <3>1
  <2>3. CASE i = p
    <3>1. p \in 1 .. p /\ ~(p <= p - 1) /\ p - (p - 1) = 1
      BY <1>1
    <3>2. QED
      BY <1>1, <1>4, <1>6, <1>7, <2>3, <3>1
  <2>4. CASE i > p
    <3>1. i - p \in 1 .. Len(t) - p + 1 /\ p + (i - p) - 1 = i - 1 /\ ~(i <= p) /\ ~(i < p) /\ i # p
      BY <1>1, <2>1, <2>4
    <3>2. QED
      BY <1>3, <1>7, <3>1
  <2>5. QED
    BY <1>1, <2>1, <2>2, <2>3, <2>4
<1>9. QED
  BY <1>5, <1>7, <1>8

(* The place a Replace finds for its new entry. *)
Place(t, from) ==
    LET at == SelectInSeq(t, LAMBDA x : x.seq >= from)
    IN  IF at = 0 THEN Len(t) + 1 ELSE at

LEMMA PlaceIn ==
    ASSUME NEW A, NEW t \in Seq(A), NEW from
    PROVE  Place(t, from) \in 1 .. Len(t) + 1
<1> DEFINE I == {i \in 1 .. Len(t) : t[i].seq >= from}
           at == SelectInSeq(t, LAMBDA x : x.seq >= from)
<1>1. Len(t) \in Nat
  BY LenProperties
<1>2. at = IF I # {} THEN Min(I) ELSE 0
  BY DEF SelectInSeq
<1>3. I # {} => Min(I) \in 1 .. Len(t)
  <2> SUFFICES ASSUME I # {} PROVE Min(I) \in 1 .. Len(t)
    OBVIOUS
  <2>1. I \subseteq Nat
    BY <1>1
  <2> HIDE DEF I
  <2>2. \E x \in I : \A y \in I : x <= y
    BY <2>1, LeastOf
  <2>3. Min(I) \in I
    BY <2>2 DEF Min
  <2>4. QED
    BY <2>3 DEF I
<1>4. Place(t, from) = IF at = 0 THEN Len(t) + 1 ELSE at
  BY DEF Place
<1> HIDE DEF I, at
<1>5. QED
  BY <1>1, <1>2, <1>3, <1>4

LEMMA ReplaceIs ==
    ASSUME NEW s, NEW from, NEW to, NEW e
    PROVE  Replace(s, from, to, e) = InsertAt(Retain(s, from, to), Place(Retain(s, from, to), from), e)
BY DEF Replace, Place

(* What a Replace leaves: the entries outside its span, and the new one.   *)
LEMMA ReplaceFacts ==
    ASSUME NEW A, NEW s \in Seq(A), NEW from, NEW to, NEW e \in A
    PROVE  /\ Replace(s, from, to, e) \in Seq(A)
           /\ Spliced(Replace(s, from, to, e), s, Kept(s, from, to), e)
<1> DEFINE t == Retain(s, from, to)
           r == Replace(s, from, to, e)
           at == Kept(s, from, to)
           p == Place(t, from)
<1>1. at \subseteq DOMAIN s /\ t = Picked(s, at)
  BY DEF Retain, Kept
<1>2. r = InsertAt(t, p, e)
  BY ReplaceIs
<1> HIDE DEF t, at, r
<1>3. t \in Seq(A)
  BY <1>1, PickedIsListed
<1>4. PICK f : Lists(f, at, Len(t)) /\ \A k \in 1 .. Len(t) : t[k] = s[f[k]]
  BY <1>1, PickedIsListed
<1>5. p \in 1 .. Len(t) + 1
  BY <1>3, PlaceIn
<1> HIDE DEF p
<1>6. /\ r \in Seq(A) /\ Len(r) = Len(t) + 1
      /\ \A i \in 1 .. Len(r) : r[i] = IF i < p THEN t[i] ELSE IF i = p THEN e ELSE t[i - 1]
  BY <1>2, <1>3, <1>5, InsertFacts
<1> DEFINE g == [i \in 1 .. Len(r) |-> IF i < p THEN f[i] ELSE IF i = p THEN 0 ELSE f[i - 1]]
<1>7. Len(t) \in Nat /\ p \in Nat /\ 0 \notin at
  <2>1. DOMAIN s = 1 .. Len(s)
    BY LenProperties
  <2>2. 0 \notin DOMAIN s
    BY <2>1
  <2>3. QED
    BY <1>1, <1>3, <1>5, <2>2, LenProperties
<1>8. \A k \in 1 .. Len(t) : f[k] \in at /\ f[k] # 0
  BY <1>4, <1>7 DEF Lists
<1>9. \A a, b \in 1 .. Len(t) : f[a] = f[b] => a = b
  <2> SUFFICES ASSUME NEW a \in 1 .. Len(t), NEW b \in 1 .. Len(t), f[a] = f[b] PROVE a = b
    OBVIOUS
  <2>1. f[a] \in Nat
    <3>1. DOMAIN s = 1 .. Len(s) /\ f[a] \in DOMAIN s
      BY <1>1, <1>8, LenProperties
    <3>2. QED
      BY <3>1
  <2>2. ~(f[a] < f[b]) /\ ~(f[b] < f[a])
    BY <2>1
  <2>3. ~(a < b) /\ ~(b < a)
    BY <1>4, <2>2 DEF Lists
  <2>4. QED
    BY <2>3
<1>10. \A i \in 1 .. Len(r) : \/ i < p /\ i \in 1 .. Len(t) /\ g[i] = f[i]
                              \/ i = p /\ g[i] = 0
                              \/ i > p /\ i - 1 \in 1 .. Len(t) /\ g[i] = f[i - 1]
  BY <1>5, <1>6, <1>7
<1>11. g \in [1 .. Len(r) -> at \cup {0}]
  <2>1. \A i \in 1 .. Len(r) : g[i] \in at \cup {0}
    BY <1>8, <1>10
  <2>2. DOMAIN g = 1 .. Len(r) /\ g = [i \in 1 .. Len(r) |-> g[i]]
    OBVIOUS
  <2> HIDE DEF g
  <2>3. QED
    BY <2>1, <2>2
<1>12. \A i \in 1 .. Len(r) : r[i] = IF g[i] = 0 THEN e ELSE s[g[i]]
  <2> TAKE i \in 1 .. Len(r)
  <2> HIDE DEF g
  <2>1. i \in Nat
    BY <1>6, <1>7
  <2>2. CASE i < p /\ i \in 1 .. Len(t) /\ g[i] = f[i]
    BY <1>4, <1>6, <1>8, <2>2
  <2>3. CASE i = p /\ g[i] = 0
    BY <1>6, <1>7, <2>3
  <2>4. CASE i > p /\ i - 1 \in 1 .. Len(t) /\ g[i] = f[i - 1]
    <3>1. ~(i < p) /\ i # p
      BY <1>7, <2>1, <2>4
    <3>2. r[i] = t[i - 1] /\ t[i - 1] = s[f[i - 1]] /\ f[i - 1] # 0
      BY <1>4, <1>6, <1>8, <2>4, <3>1
    <3>3. QED
      BY <2>4, <3>2
  <2>5. QED
    BY <1>10, <2>2, <2>3, <2>4
<1>13. \A i, j \in 1 .. Len(r) : g[i] = g[j] => i = j
  <2> HIDE DEF g
  <2> SUFFICES ASSUME NEW i \in 1 .. Len(r), NEW j \in 1 .. Len(r), g[i] = g[j] PROVE i = j
    OBVIOUS
  <2>1. i \in Nat /\ j \in Nat
    BY <1>6, <1>7
  <2>2. CASE g[i] = 0
    <3>1. i = p /\ j = p
      BY <1>8, <1>10, <2>2
    <3>2. QED
      BY <3>1
  <2>3. CASE g[i] # 0
    <3>1. PICK a \in 1 .. Len(t) : g[i] = f[a] /\ ((i < p /\ a = i) \/ (i > p /\ a = i - 1))
      BY <1>10, <2>3
    <3>2. PICK b \in 1 .. Len(t) : g[j] = f[b] /\ ((j < p /\ b = j) \/ (j > p /\ b = j - 1))
      BY <1>10, <2>3
    <3>3. a = b
      BY <1>9, <3>1, <3>2
    <3>4. QED
      BY <1>7, <2>1, <3>1, <3>2, <3>3
  <2>4. QED
    BY <2>2, <2>3
<1>14. Spliced(r, s, at, e)
  <2> HIDE DEF g
  <2>1. QED
    BY <1>11, <1>12, <1>13 DEF Spliced
<1>15. QED
  BY <1>6, <1>14 DEF r, at

-----------------------------------------------------------------------------
(* Entries of rows already logged, of which no context has two. *)
Logged(s, q) == s \in Seq(Entries) /\ \A i \in 1 .. Len(s) : s[i].seq <= q
OneCopy(s) ==
    \A i, j \in 1 .. Len(s) : s[i].role \in Contexts /\ s[j].role = s[i].role => i = j

(* The compaction under way was begun on the surface as it was at its last *)
(* row, keeps a tail, and parts no neighbours that belong together.        *)
CompKnows ==
    comp.on => /\ comp.split \in 1 .. Len(comp.view) - MinTail
               /\ ~PartsPair(comp.view, comp.split)
               /\ comp.last = seq => comp.view = surface
               /\ comp.last \in 0 .. seq

SurfaceInv == SurfaceTypeOK /\ OneCopy(surface) /\ CompKnows

LEMMA EntryFacts ==
    ASSUME NEW q \in 1 .. MaxSeq, NEW k \in Roles
    PROVE  Entry(q, k) \in Entries /\ Entry(q, k).seq = q /\ Entry(q, k).role = k
           /\ Entry(q, k).call = 0
<1>1. 0 \in 0 .. MaxSeq
  BY SurfaceBounds
<1>2. QED
  BY <1>1 DEF Entry, Entries

LEMMA LoggedLater ==
    ASSUME NEW s, NEW q \in Nat, NEW n \in Nat, q <= n, Logged(s, q)
    PROVE  Logged(s, n)
<1>1. SUFFICES ASSUME NEW i \in 1 .. Len(s) PROVE s[i].seq <= n
  BY DEF Logged
<1>2. s[i] \in Entries /\ s[i].seq <= q
  BY ElementOfSeq DEF Logged
<1>3. s[i].seq \in Nat
  BY <1>2, SurfaceBounds DEF Entries
<1>4. QED
  BY <1>2, <1>3

(* An entry of a row past those of s is appended to it.                    *)
LEMMA AppendFacts ==
    ASSUME NEW s, NEW q \in Nat, NEW n \in Nat, q <= n, Logged(s, q), OneCopy(s),
           NEW e \in Entries, e.seq <= n,
           e.role \in Contexts => \A i \in 1 .. Len(s) : s[i].role # e.role
    PROVE  Logged(Append(s, e), n) /\ OneCopy(Append(s, e))
<1> DEFINE r == Append(s, e)
<1>1. Logged(s, n) /\ s \in Seq(Entries)
  BY LoggedLater DEF Logged
<1>2. /\ r \in Seq(Entries) /\ Len(r) = Len(s) + 1 /\ Len(s) \in Nat
      /\ \A i \in 1 .. Len(s) : r[i] = s[i]
      /\ r[Len(s) + 1] = e
  BY <1>1, AppendProperties, LenProperties
<1> HIDE DEF r
<1>3. \A i \in 1 .. Len(r) : (i \in 1 .. Len(s) /\ r[i] = s[i]) \/ (i = Len(s) + 1 /\ r[i] = e)
  BY <1>2
<1>4. Logged(r, n)
  BY <1>1, <1>2, <1>3 DEF Logged
<1>5. OneCopy(r)
  BY <1>3 DEF OneCopy
<1>6. QED
  BY <1>4, <1>5 DEF r

(* What a Rewind leaves. *)
LEMMA RetainFacts ==
    ASSUME NEW s, NEW q, Logged(s, q), OneCopy(s), NEW from, NEW to
    PROVE  Logged(Retain(s, from, to), q) /\ OneCopy(Retain(s, from, to))
<1> DEFINE t == Retain(s, from, to)
           at == {i \in DOMAIN s : s[i].seq < from \/ s[i].seq > to}
<1>1. at \subseteq DOMAIN s /\ t = Picked(s, at) /\ s \in Seq(Entries)
  BY DEF Retain, Logged
<1> HIDE DEF t, at
<1>2. PICK f : Lists(f, at, Len(t)) /\ \A k \in 1 .. Len(t) : t[k] = s[f[k]]
  BY <1>1, PickedIsListed
<1>3. t \in Seq(Entries) /\ DOMAIN s = 1 .. Len(s)
  BY <1>1, PickedIsListed, LenProperties
<1>4. \A k \in 1 .. Len(t) : f[k] \in 1 .. Len(s) /\ t[k] = s[f[k]]
  BY <1>1, <1>2, <1>3 DEF Lists
<1>5. \A a, b \in 1 .. Len(t) : f[a] = f[b] => a = b
  <2> SUFFICES ASSUME NEW a \in 1 .. Len(t), NEW b \in 1 .. Len(t), f[a] = f[b] PROVE a = b
    OBVIOUS
  <2>1. f[a] \in Nat
    BY <1>4
  <2>2. ~(f[a] < f[b]) /\ ~(f[b] < f[a])
    BY <2>1
  <2>3. ~(a < b) /\ ~(b < a)
    BY <1>2, <2>2 DEF Lists
  <2>4. QED
    BY <2>3
<1>6. Logged(t, q)
  BY <1>3, <1>4 DEF Logged
<1>7. OneCopy(t)
  <2> SUFFICES ASSUME NEW i \in 1 .. Len(t), NEW j \in 1 .. Len(t),
                      t[i].role \in Contexts, t[j].role = t[i].role
               PROVE  f[i] = f[j]
    BY <1>5 DEF OneCopy
  <2>1. s[f[i]].role \in Contexts /\ s[f[j]].role = s[f[i]].role
    BY <1>4
  <2>2. f[i] \in 1 .. Len(s) /\ f[j] \in 1 .. Len(s)
    BY <1>4
  <2>3. QED
    BY <2>1, <2>2 DEF OneCopy
<1>8. QED
  BY <1>6, <1>7 DEF t

(* A Replace by an entry of a later row keeps one copy of each context,    *)
(* unless that entry is of one that is still there outside the span.       *)
LEMMA ReplaceKeeps ==
    ASSUME NEW s, NEW q \in Nat, NEW n \in Nat, q <= n, Logged(s, q), OneCopy(s),
           NEW from, NEW to, NEW e \in Entries, e.seq <= n,
           e.role \in Contexts => \A i \in Kept(s, from, to) : s[i].role # e.role
    PROVE  Logged(Replace(s, from, to, e), n) /\ OneCopy(Replace(s, from, to, e))
<1> DEFINE r == Replace(s, from, to, e)
           at == Kept(s, from, to)
<1>1. s \in Seq(Entries) /\ DOMAIN s = 1 .. Len(s) /\ Logged(s, n)
  BY LoggedLater, LenProperties DEF Logged
<1>2. r \in Seq(Entries) /\ Spliced(r, s, at, e)
  BY <1>1, ReplaceFacts
<1>3. at \subseteq 1 .. Len(s)
  BY <1>1 DEF Kept
<1> HIDE DEF r, at
<1>4. PICK g \in [1 .. Len(r) -> at \cup {0}] :
          /\ \A i, j \in 1 .. Len(r) : g[i] = g[j] => i = j
          /\ \A i \in 1 .. Len(r) : r[i] = IF g[i] = 0 THEN e ELSE s[g[i]]
  BY <1>2 DEF Spliced
<1>5. \A i \in 1 .. Len(r) : \/ g[i] = 0 /\ r[i] = e
                             \/ g[i] \in at /\ g[i] \in 1 .. Len(s) /\ r[i] = s[g[i]]
  BY <1>3, <1>4
<1>6. Logged(r, n)
  BY <1>1, <1>2, <1>5 DEF Logged
<1>7. OneCopy(r)
  <2> SUFFICES ASSUME NEW i \in 1 .. Len(r), NEW j \in 1 .. Len(r),
                      r[i].role \in Contexts, r[j].role = r[i].role
               PROVE  g[i] = g[j]
    BY <1>4 DEF OneCopy
  <2>1. e.role \in Contexts => \A k \in at : s[k].role # e.role
    BY DEF at
  <2>2. CASE g[i] = 0 /\ r[i] = e
    BY <1>5, <2>1, <2>2
  <2>3. CASE g[i] \in at /\ g[i] \in 1 .. Len(s) /\ r[i] = s[g[i]]
    <3>1. ~(g[j] = 0 /\ r[j] = e)
      BY <2>1, <2>3
    <3>2. g[j] \in 1 .. Len(s) /\ r[j] = s[g[j]]
      BY <1>5, <3>1
    <3>3. QED
      BY <2>3, <3>2 DEF OneCopy
  <2>4. QED
    BY <1>5, <2>2, <2>3
<1>8. QED
  BY <1>6, <1>7 DEF r, at

(* The newest copy of a context, when there is one. *)
LEMMA LatestFacts ==
    ASSUME NEW s \in Seq(Entries), NEW k
    PROVE  \/ Latest(s, k) = 0 /\ \A i \in 1 .. Len(s) : s[i].role # k
           \/ Latest(s, k) \in 1 .. Len(s) /\ s[Latest(s, k)].role = k
<1> DEFINE I == {i \in 1 .. Len(s) : s[i].role = k}
<1>1. Len(s) \in Nat
  BY LenProperties
<1>2. Latest(s, k) = IF I # {} THEN Max(I) ELSE 0
  BY DEF Latest, SelectLastInSeq
<1>3. I # {} => Max(I) \in I
  <2> SUFFICES ASSUME I # {} PROVE Max(I) \in I
    OBVIOUS
  <2> DEFINE T == {Len(s) - i : i \in I}
  <2>1. T \subseteq Nat /\ T # {}
    <3>1. ASSUME NEW i \in I PROVE Len(s) - i \in Nat
      BY <1>1
    <3>2. QED
      BY <3>1
  <2> HIDE DEF T
  <2>2. PICK t \in T : \A y \in T : t <= y
    BY <2>1, LeastOf
  <2>3. PICK m \in I : t = Len(s) - m
    BY DEF T
  <2>4. \A y \in I : m >= y
    <3> TAKE y \in I
    <3>1. t <= Len(s) - y
      BY <2>2 DEF T
    <3>2. m \in Nat /\ y \in Nat
      BY <1>1
    <3>3. QED
      BY <1>1, <2>3, <3>1, <3>2
  <2> HIDE DEF I
  <2>5. QED
    BY <2>4 DEF Max
<1>4. CASE I = {}
  BY <1>2, <1>4
<1>5. CASE I # {}
  BY <1>2, <1>3, <1>5
<1>6. QED
  BY <1>4, <1>5

(* A context snapshot takes the place of the copy there was.               *)
LEMMA SnapshotFacts ==
    ASSUME NEW s, NEW q \in Nat, NEW n \in 1 .. MaxSeq, q <= n, Logged(s, q), OneCopy(s),
           NEW k \in Contexts
    PROVE  Logged(Snapshot(s, n, k), n) /\ OneCopy(Snapshot(s, n, k))
<1> DEFINE e == Entry(n, k)
           i == Latest(s, k)
<1>1. e \in Entries /\ e.seq = n /\ e.role = k /\ n \in Nat /\ s \in Seq(Entries)
  <2>1. k \in Roles
    BY DEF Roles
  <2>2. n \in Nat
    BY SurfaceBounds
  <2>3. QED
    BY <2>1, <2>2, EntryFacts DEF Logged
<1>2. Snapshot(s, n, k) = IF i = 0 THEN Append(s, e) ELSE Replace(s, s[i].seq, s[i].seq, e)
  BY DEF Snapshot
<1>3. \/ i = 0 /\ \A j \in 1 .. Len(s) : s[j].role # k
      \/ i \in 1 .. Len(s) /\ s[i].role = k
  BY <1>1, LatestFacts
<1> HIDE DEF e, i
<1>4. CASE i = 0
  <2>1. \A j \in 1 .. Len(s) : s[j].role # k
    <3>1. i \notin 1 .. Len(s)
      BY <1>1, <1>4, LenProperties
    <3>2. QED
      BY <1>3, <3>1
  <2>2. e.seq <= n
    BY <1>1
  <2>3. Logged(Append(s, e), n) /\ OneCopy(Append(s, e))
    BY <1>1, <2>1, <2>2, AppendFacts
  <2>4. QED
    BY <1>2, <1>4, <2>3
<1>5. CASE i # 0
  <2>1. i \in 1 .. Len(s) /\ s[i].role = k
    BY <1>3, <1>5
  <2>2. \A j \in Kept(s, s[i].seq, s[i].seq) : s[j].role # e.role
    <3> TAKE j \in Kept(s, s[i].seq, s[i].seq)
    <3>1. s[i] \in Entries
      BY <1>1, <2>1, ElementOfSeq
    <3>2. s[i].seq \in Nat
      BY <3>1, SurfaceBounds DEF Entries
    <3>3. j \in 1 .. Len(s) /\ j # i
      BY <1>1, <3>2, LenProperties DEF Kept
    <3>4. QED
      BY <1>1, <2>1, <3>3 DEF OneCopy
  <2>3. e.seq <= n
    BY <1>1
  <2>4. Logged(Replace(s, s[i].seq, s[i].seq, e), n) /\ OneCopy(Replace(s, s[i].seq, s[i].seq, e))
    BY <1>1, <2>2, <2>3, ReplaceKeeps
  <2>5. QED
    BY <1>2, <1>5, <2>4
<1>6. QED
  BY <1>4, <1>5

-----------------------------------------------------------------------------
(* Pruning *)

LEMMA PrunableFacts ==
    ASSUME NEW s \in Seq(Entries), NEW keep \in 0 .. Len(s)
    PROVE  /\ Prunable(s, keep) \in Seq(Entries) /\ Len(Prunable(s, keep)) \in Nat
           /\ \A k \in 1 .. Len(Prunable(s, keep)) :
                 /\ Prunable(s, keep)[k] \in Entries /\ Prunable(s, keep)[k].role = "tool"
                 /\ \E i \in 1 .. keep : Prunable(s, keep)[k] = s[i]
<1> DEFINE at == {i \in 1 .. keep : s[i].role = "tool" /\ s[i].big}
           p == Picked(s, at)
<1>1. p = Prunable(s, keep)
  BY DEF Prunable
<1>2. at \subseteq DOMAIN s
  <2>1. DOMAIN s = 1 .. Len(s) /\ Len(s) \in Nat
    BY LenProperties
  <2>2. QED
    BY <2>1
<1> HIDE DEF at
<1>3. p \in Seq(Entries) /\ \A k \in 1 .. Len(p) : \E i \in at : p[k] = s[i]
  BY <1>2, PickedIsListed, PickedRange
<1> HIDE DEF p
<1>4. Len(p) \in Nat /\ \A k \in 1 .. Len(p) : p[k] \in Entries
  BY <1>3, LenProperties, ElementOfSeq
<1>5. \A k \in 1 .. Len(p) : p[k].role = "tool" /\ \E i \in 1 .. keep : p[k] = s[i]
  BY <1>3 DEF at
<1>6. QED
  BY <1>1, <1>3, <1>4, <1>5

(* Replacing one after the other yields what each Replace kept.            *)
LEMMA PruneFacts ==
    ASSUME NEW s, NEW q \in Nat, NEW keep \in 0 .. Len(s), Logged(s, q), OneCopy(s),
           q + Len(Prunable(s, keep)) <= MaxSeq
    PROVE  /\ Logged(Prune(s, q, keep), q + Len(Prunable(s, keep)))
           /\ OneCopy(Prune(s, q, keep))
           /\ Len(Prunable(s, keep)) = 0 => Prune(s, q, keep) = s
<1> DEFINE old == Prunable(s, keep)
           n == Len(old)
           row(k) == [old[k] EXCEPT !.seq = q + k, !.big = FALSE]
           step(r, k) == Replace(r, old[k].seq, old[k].seq, row(k))
           after == CHOOSE h : h = [k \in 0 .. n |-> IF k = 0 THEN s ELSE step(h[k - 1], k)]
<1>1. s \in Seq(Entries)
  BY DEF Logged
<1>2. n \in Nat /\ \A k \in 1 .. n : old[k] \in Entries /\ old[k].role = "tool"
  BY <1>1, PrunableFacts
<1>3. Prune(s, q, keep) = after[n]
  BY DEF Prune
<1>4. q + n <= MaxSeq
  OBVIOUS
<1> HIDE DEF old, n
<1>5. ASSUME NEW k \in 1 .. n, NEW r, Logged(r, q + (k - 1)), OneCopy(r)
      PROVE  Logged(step(r, k), q + k) /\ OneCopy(step(r, k))
  <2> DEFINE e == row(k)
             o == old[k]
  <2>1. o \in Entries /\ o.role = "tool" /\ e = [o EXCEPT !.seq = q + k, !.big = FALSE]
    BY <1>2
  <2>2. q + k \in 1 .. MaxSeq /\ q + k \in Nat /\ q + (k - 1) \in Nat /\ q + (k - 1) <= q + k
    BY <1>2, <1>4, SurfaceBounds
  <2> HIDE DEF e, o
  <2>3. e \in Entries /\ e.seq = q + k /\ e.role = "tool"
    BY <2>1, <2>2 DEF Entries
  <2>4. e.seq <= q + k /\ e.role \notin Contexts
    BY <2>2, <2>3 DEF Contexts
  <2>5. Logged(Replace(r, o.seq, o.seq, e), q + k) /\ OneCopy(Replace(r, o.seq, o.seq, e))
    BY <1>5, <2>2, <2>3, <2>4, ReplaceKeeps
  <2>6. QED
    BY <2>5 DEF o, e
<1> HIDE DEF step
<1> DEFINE Found(m) == \E h : h = [k \in 0 .. m |-> IF k = 0 THEN s ELSE step(h[k - 1], k)]
<1>6. Found(0)
  <2> DEFINE h == [k \in 0 .. 0 |-> s]
  <2>1. h = [k \in 0 .. 0 |-> IF k = 0 THEN s ELSE step(h[k - 1], k)]
    OBVIOUS
  <2> HIDE DEF h
  <2>2. QED
    BY <2>1
<1>7. ASSUME NEW m \in 1 .. n, Found(m - 1) PROVE Found(m)
  <2>1. PICK g : g = [k \in 0 .. m - 1 |-> IF k = 0 THEN s ELSE step(g[k - 1], k)]
    BY <1>7
  <2> DEFINE h == [k \in 0 .. m |-> IF k = m THEN step(g[m - 1], m) ELSE g[k]]
  <2>2. m \in Nat /\ m >= 1
    BY <1>2
  <2>3. ASSUME NEW k \in 0 .. m PROVE h[k] = IF k = 0 THEN s ELSE step(h[k - 1], k)
    <3>1. CASE k = 0
      <4>1. 0 \in 0 .. m - 1 /\ 0 # m
        BY <2>2
      <4>2. h[0] = g[0] /\ g[0] = s
        BY <2>1, <2>2, <4>1
      <4>3. QED
        BY <3>1, <4>2
    <3>2. CASE k = m
      <4>1. m - 1 # m /\ m - 1 \in 0 .. m /\ m # 0
        BY <2>2
      <4>2. h[m] = step(g[m - 1], m) /\ h[m - 1] = g[m - 1]
        BY <2>2, <4>1
      <4>3. QED
        BY <3>2, <4>1, <4>2
    <3>3. CASE k # 0 /\ k # m
      <4>1. k \in 0 .. m - 1 /\ k - 1 \in 0 .. m /\ k - 1 # m
        BY <2>2, <3>3
      <4>2. h[k] = g[k] /\ h[k - 1] = g[k - 1] /\ g[k] = step(g[k - 1], k)
        BY <2>1, <3>3, <4>1
      <4>3. QED
        BY <3>3, <4>2
    <3>4. QED
      BY <3>1, <3>2, <3>3
  <2>4. h[m] = step(g[m - 1], m)
    BY <2>2
  <2>5. h = [k \in 0 .. m |-> h[k]]
    OBVIOUS
  <2> HIDE DEF h
  <2>6. h = [k \in 0 .. m |-> IF k = 0 THEN s ELSE step(h[k - 1], k)]
    BY <2>3, <2>5
  <2>7. QED
    BY <2>6
<1> HIDE DEF Found
<1>8. Found(n)
  <2> DEFINE S == {m \in 0 .. n : Found(m)}
  <2>1. 0 \in S
    BY <1>2, <1>6
  <2>2. \A m \in 1 .. n : m - 1 \in S => m \in S
    BY <1>2, <1>7
  <2> HIDE DEF S
  <2>3. n \in Nat
    BY <1>2
  <2>4. 0 .. n \subseteq S
    BY <2>1, <2>2, <2>3, UpTo
  <2>5. n \in 0 .. n
    BY <2>3
  <2>6. QED
    BY <2>4, <2>5 DEF S
<1>9. after = [k \in 0 .. n |-> IF k = 0 THEN s ELSE step(after[k - 1], k)]
  BY <1>8 DEF Found
<1> HIDE DEF after
<1>10. after[0] = s /\ \A k \in 1 .. n : after[k] = step(after[k - 1], k)
  BY <1>2, <1>9
<1>11. Logged(after[n], q + n) /\ OneCopy(after[n])
  <2> DEFINE S == {m \in 0 .. n : Logged(after[m], q + m) /\ OneCopy(after[m])}
  <2>1. 0 \in S
    <3>1. q + 0 = q /\ 0 \in 0 .. n
      BY <1>2
    <3>2. QED
      BY <1>10, <3>1
  <2>2. \A m \in 1 .. n : m - 1 \in S => m \in S
    <3> SUFFICES ASSUME NEW m \in 1 .. n, m - 1 \in S PROVE m \in S
      OBVIOUS
    <3>1. Logged(after[m - 1], q + (m - 1)) /\ OneCopy(after[m - 1]) /\ m \in 0 .. n
      BY <1>2
    <3>2. Logged(step(after[m - 1], m), q + m) /\ OneCopy(step(after[m - 1], m))
      BY <1>5, <3>1
    <3>3. QED
      BY <1>10, <3>1, <3>2
  <2> HIDE DEF S
  <2>3. n \in Nat
    BY <1>2
  <2>4. 0 .. n \subseteq S
    BY <2>1, <2>2, <2>3, UpTo
  <2>5. n \in 0 .. n
    BY <2>3
  <2>6. QED
    BY <2>4, <2>5 DEF S
<1>12. QED
  BY <1>3, <1>10, <1>11 DEF old, n

-----------------------------------------------------------------------------
(* The split of a compaction leaves a tail. *)
LEMMA SplitIndexFacts ==
    ASSUME NEW s, NEW raw \in Nat
    PROVE  /\ SplitIndex(s, raw) \in 0 .. raw
           /\ SplitIndex(s, raw) = 0 \/ ~PartsPair(s, SplitIndex(s, raw))
<1> DEFINE S == {k \in 0 .. raw : k = 0 \/ ~PartsPair(s, k)}
           T == {raw - k : k \in S}
           Fits(k) == (k = 0 \/ ~PartsPair(s, k)) /\ \A j \in k + 1 .. raw : PartsPair(s, j)
<1>1. T \subseteq Nat /\ T # {}
  <2>1. ASSUME NEW k \in S PROVE raw - k \in Nat
    OBVIOUS
  <2>2. 0 \in S
    OBVIOUS
  <2> HIDE DEF S
  <2>3. QED
    BY <2>1, <2>2
<1> HIDE DEF S
<1>2. PICK t \in T : \A y \in T : t <= y
  <2> HIDE DEF T
  <2>1. QED
    BY <1>1, LeastOf
<1>3. PICK k \in S : t = raw - k
  OBVIOUS
<1>4. k \in 0 .. raw /\ (k = 0 \/ ~PartsPair(s, k))
  BY DEF S
<1>5. \A j \in k + 1 .. raw : PartsPair(s, j)
  <2> SUFFICES ASSUME NEW j \in k + 1 .. raw, ~PartsPair(s, j) PROVE FALSE
    OBVIOUS
  <2>1. j \in 0 .. raw /\ raw - j < raw - k
    BY <1>4
  <2>2. j \in S
    BY <2>1 DEF S
  <2>3. raw - k <= raw - j
    BY <1>2, <1>3, <2>2
  <2>4. QED
    BY <1>4, <2>1, <2>3
<1>6. \E j \in 0 .. raw : Fits(j)
  BY <1>4, <1>5
<1>7. SplitIndex(s, raw) = CHOOSE j \in 0 .. raw : Fits(j)
  BY DEF SplitIndex
<1> HIDE DEF Fits
<1>8. SplitIndex(s, raw) \in 0 .. raw /\ Fits(SplitIndex(s, raw))
  BY <1>6, <1>7
<1>9. QED
  BY <1>8 DEF Fits

LEMMA SplitsFacts ==
    ASSUME NEW s \in Seq(Entries), NEW k \in Splits(s)
    PROVE  k = NoSplit \/ (k \in 1 .. Len(s) - MinTail /\ ~PartsPair(s, k))
<1>1. Len(s) \in Nat
  BY LenProperties
<1>2. CASE Len(s) < MinFold + MinTail
  BY <1>2 DEF Splits
<1>3. CASE ~(Len(s) < MinFold + MinTail)
  <2>1. PICK raw \in 0 .. Len(s) - MinTail :
            k = IF SplitIndex(s, raw) < MinFold THEN NoSplit ELSE SplitIndex(s, raw)
    BY <1>3 DEF Splits
  <2>2. raw \in Nat /\ raw <= Len(s) - MinTail
    BY <1>1, SurfaceBounds
  <2> DEFINE m == SplitIndex(s, raw)
  <2>3. m \in 0 .. raw /\ (m = 0 \/ ~PartsPair(s, m))
    BY <2>2, SplitIndexFacts
  <2> HIDE DEF m
  <2>4. CASE m < MinFold
    BY <2>1, <2>4 DEF m
  <2>5. CASE ~(m < MinFold)
    <3>1. k = m
      BY <2>1, <2>5 DEF m
    <3>2. m \in 1 .. Len(s) - MinTail
      BY <1>1, <2>2, <2>3, <2>5, SurfaceBounds
    <3>3. QED
      BY <2>3, <3>1, <3>2
  <2>6. QED
    BY <2>4, <2>5
<1>4. QED
  BY <1>2, <1>3

-----------------------------------------------------------------------------
(* The steps *)

LEMMA SurfaceInitially == SurfaceInit => SurfaceInv
<1> SUFFICES ASSUME SurfaceInit PROVE SurfaceInv
  OBVIOUS
<1>1. surface = <<>> /\ seq = 0 /\ phase = "idle" /\ call = 0
      /\ comp.on = FALSE /\ comp.view = <<>> /\ comp.split = 0
  BY DEF SurfaceInit, None
<1>2. <<>> \in Seq(Entries) /\ Len(<<>>) = 0
  OBVIOUS
<1>3. SurfaceTypeOK
  <2>1. surface \in Seq(Entries) /\ comp.view \in Seq(Entries) /\ comp.on \in BOOLEAN
    BY <1>1, <1>2
  <2>2. \A i \in 1 .. Len(surface) : surface[i].seq <= seq
    BY <1>1, <1>2
  <2>3. seq \in 0 .. MaxSeq /\ call \in 0 .. MaxSeq /\ comp.split \in 0 .. Len(comp.view)
    BY <1>1, <1>2, SurfaceBounds
  <2>4. QED
    BY <1>1, <2>1, <2>2, <2>3 DEF SurfaceTypeOK
<1>4. OneCopy(surface)
  BY <1>1, <1>2 DEF OneCopy
<1>5. QED
  BY <1>1, <1>3, <1>4 DEF SurfaceInv, CompKnows

(* A step that logs rows and leaves the compaction alone.                  *)
LEMMA Moves ==
    ASSUME SurfaceInv, Logged(surface', seq'), OneCopy(surface'), seq' \in 0 .. MaxSeq, seq' > seq,
           phase' \in {"idle", "hop"}, call' \in 0 .. MaxSeq, UNCHANGED comp
    PROVE  SurfaceInv'
<1>1. SurfaceTypeOK'
  BY DEF SurfaceInv, SurfaceTypeOK, Logged
<1>2. CompKnows'
  <2>1. SUFFICES ASSUME comp.on PROVE CompKnows'
    BY DEF CompKnows
  <2>2. /\ comp.last \in 0 .. seq /\ comp.split \in 1 .. Len(comp.view) - MinTail
        /\ ~PartsPair(comp.view, comp.split)
    BY <2>1 DEF SurfaceInv, CompKnows
  <2>3. seq \in Nat /\ seq' \in Nat
    BY SurfaceBounds DEF SurfaceInv, SurfaceTypeOK
  <2>4. comp.last \in 0 .. seq' /\ comp.last # seq'
    BY <2>2, <2>3
  <2>5. comp'.view = comp.view /\ comp'.split = comp.split /\ comp'.last = comp.last
    OBVIOUS
  <2>6. ~PartsPair(comp'.view, comp'.split)
    BY <2>2, <2>5
  <2>7. QED
    BY <2>2, <2>4, <2>5, <2>6 DEF CompKnows
<1>3. QED
  BY <1>1, <1>2 DEF SurfaceInv, OneCopy

(* The log block of a turn. *)
LEMMA OpenTurnKeeps ==
    ASSUME SurfaceInv, NEW s, NEW q \in Nat, q >= seq, Logged(s, q), OneCopy(s), OpenTurn(s, q)
    PROVE  SurfaceInv'
<1>1. PICK changed \in BOOLEAN :
          LET a == IF changed THEN Snapshot(s, q + 1, "instructions") ELSE s
              n == IF changed THEN q + 1 ELSE q
              b == Snapshot(a, n + 1, "runtime")
          IN  /\ n + 2 <= MaxSeq
              /\ surface' = Append(b, Entry(n + 2, "user"))
              /\ seq' = n + 2
              /\ phase' = "hop"
              /\ UNCHANGED <<call, comp>>
  BY DEF OpenTurn
<1> DEFINE a == IF changed THEN Snapshot(s, q + 1, "instructions") ELSE s
           n == IF changed THEN q + 1 ELSE q
           b == Snapshot(a, n + 1, "runtime")
           e == Entry(n + 2, "user")
<1>2. /\ n + 2 <= MaxSeq /\ n \in Nat /\ n >= q /\ surface' = Append(b, e) /\ seq' = n + 2
      /\ phase' = "hop" /\ UNCHANGED <<call, comp>>
  BY <1>1
<1>3. Logged(a, n) /\ OneCopy(a)
  <2>1. CASE changed
    <3>1. q + 1 \in 1 .. MaxSeq /\ q <= q + 1 /\ "instructions" \in Contexts
      BY <1>2, <2>1, SurfaceBounds DEF Contexts
    <3>2. Logged(Snapshot(s, q + 1, "instructions"), q + 1) /\ OneCopy(Snapshot(s, q + 1, "instructions"))
      BY <3>1, SnapshotFacts
    <3>3. QED
      BY <2>1, <3>2
  <2>2. CASE ~changed
    BY <2>2
  <2>3. QED
    BY <2>1, <2>2
<1> HIDE DEF a, n
<1>4. Logged(b, n + 1) /\ OneCopy(b)
  <2>1. n + 1 \in 1 .. MaxSeq /\ n <= n + 1 /\ "runtime" \in Contexts
    BY <1>2, SurfaceBounds DEF Contexts
  <2>2. QED
    BY <1>2, <1>3, <2>1, SnapshotFacts
<1> HIDE DEF b
<1>5. e \in Entries /\ e.seq = n + 2 /\ e.role = "user"
  <2>1. n + 2 \in 1 .. MaxSeq /\ "user" \in Roles
    BY <1>2, SurfaceBounds DEF Roles
  <2>2. QED
    BY <2>1, EntryFacts
<1> HIDE DEF e
<1>6. Logged(Append(b, e), n + 2) /\ OneCopy(Append(b, e))
  <2>1. n + 1 \in Nat /\ n + 2 \in Nat /\ n + 1 <= n + 2 /\ e.seq <= n + 2 /\ e.role \notin Contexts
    BY <1>2, <1>5 DEF Contexts
  <2>2. QED
    BY <1>4, <1>5, <2>1, AppendFacts
<1>7. Logged(surface', seq') /\ OneCopy(surface')
  BY <1>2, <1>6
<1>8. seq \in Nat /\ call \in 0 .. MaxSeq
  BY SurfaceBounds DEF SurfaceInv, SurfaceTypeOK
<1>9. seq' \in 0 .. MaxSeq /\ seq' > seq /\ phase' \in {"idle", "hop"} /\ call' \in 0 .. MaxSeq /\ comp' = comp
  BY <1>2, <1>8, SurfaceBounds
<1>10. QED
  BY <1>7, <1>9, Moves

(* A row of a turn. *)
LEMMA AppendedKeeps ==
    ASSUME SurfaceInv, NEW e \in Entries, e.seq = seq + 1, e.role \notin Contexts, Appended(e),
           phase' \in {"idle", "hop"}, call' \in 0 .. MaxSeq
    PROVE  SurfaceInv'
<1>1. seq \in Nat /\ Logged(surface, seq) /\ OneCopy(surface)
  BY SurfaceBounds DEF SurfaceInv, SurfaceTypeOK, Logged
<1>2. seq + 1 <= MaxSeq /\ surface' = Append(surface, e) /\ seq' = seq + 1 /\ comp' = comp
  BY DEF Appended, Room
<1>3. Logged(surface', seq') /\ OneCopy(surface')
  <2>1. seq <= seq + 1 /\ seq + 1 \in Nat /\ e.seq <= seq + 1
    BY <1>1
  <2>2. QED
    BY <1>1, <1>2, <2>1, AppendFacts
<1>4. seq' \in 0 .. MaxSeq /\ seq' > seq
  BY <1>1, <1>2, SurfaceBounds
<1>5. QED
  BY <1>2, <1>3, <1>4, Moves

LEMMA TurnStepKeeps ==
    ASSUME SurfaceInv,
           NewTurn \/ (\E i \in 1 .. Len(surface) : EditedTurn(i)) \/ Steered \/ ToolCall
             \/ ToolResult \/ Reply \/ Note
    PROVE  SurfaceInv'
<1>1. /\ seq \in Nat /\ Logged(surface, seq) /\ OneCopy(surface) /\ call \in 0 .. MaxSeq
      /\ phase \in {"idle", "hop"} /\ surface \in Seq(Entries) /\ 0 \in 0 .. MaxSeq
  BY SurfaceBounds DEF SurfaceInv, SurfaceTypeOK, Logged
<1>2. seq + 1 <= MaxSeq => seq + 1 \in 1 .. MaxSeq /\ seq + 1 \in 0 .. MaxSeq
  BY <1>1, SurfaceBounds
<1>3. {"user", "calls", "tool", "reply"} \subseteq Roles /\ {"user", "calls", "tool", "reply"} \cap Contexts = {}
  BY DEF Roles, Contexts
<1>4. CASE NewTurn
  <2>1. OpenTurn(surface, seq) /\ seq >= seq
    BY <1>1, <1>4 DEF NewTurn
  <2>2. QED
    BY <1>1, <2>1, OpenTurnKeeps
<1>5. ASSUME NEW i \in 1 .. Len(surface), EditedTurn(i) PROVE SurfaceInv'
  <2> DEFINE s == Retain(surface, surface[i].seq, seq)
  <2>1. OpenTurn(s, seq + 1)
    BY <1>5 DEF EditedTurn
  <2>2. Logged(s, seq) /\ OneCopy(s)
    BY <1>1, RetainFacts
  <2> HIDE DEF s
  <2>3. seq + 1 \in Nat /\ seq <= seq + 1 /\ seq + 1 >= seq
    BY <1>1
  <2>4. Logged(s, seq + 1)
    BY <1>1, <2>2, <2>3, LoggedLater
  <2>5. QED
    BY <2>1, <2>2, <2>3, <2>4, OpenTurnKeeps
<1>6. CASE Steered
  <2> DEFINE e == Entry(seq + 1, "user")
  <2>1. Appended(e) /\ UNCHANGED <<phase, call>> /\ seq + 1 <= MaxSeq
    BY <1>6 DEF Steered, Appended, Room
  <2>2. e \in Entries /\ e.seq = seq + 1 /\ e.role \notin Contexts
    BY <1>2, <1>3, <2>1, EntryFacts
  <2> HIDE DEF e
  <2>3. QED
    BY <1>1, <2>1, <2>2, AppendedKeeps
<1>7. CASE ToolCall
  <2> DEFINE d == Entry(seq + 1, "calls")
             e == [d EXCEPT !.call = seq + 1]
  <2>1. Appended(e) /\ UNCHANGED phase /\ call' = seq + 1 /\ seq + 1 <= MaxSeq
    BY <1>7 DEF ToolCall, Appended, Room
  <2>2. d \in Entries /\ d.seq = seq + 1 /\ d.role = "calls"
    BY <1>2, <1>3, <2>1, EntryFacts
  <2> HIDE DEF d
  <2>3. e \in Entries /\ e.seq = seq + 1 /\ e.role = "calls"
    BY <1>2, <2>1, <2>2 DEF Entries
  <2> HIDE DEF e
  <2>4. QED
    BY <1>1, <1>2, <1>3, <2>1, <2>3, AppendedKeeps
<1>8. CASE ToolResult
  <2>1. PICK big \in BOOLEAN : Appended([Entry(seq + 1, "tool") EXCEPT !.call = call, !.big = big])
    BY <1>8 DEF ToolResult
  <2> DEFINE d == Entry(seq + 1, "tool")
             e == [d EXCEPT !.call = call, !.big = big]
  <2>2. Appended(e) /\ UNCHANGED phase /\ call' = 0 /\ seq + 1 <= MaxSeq
    BY <1>8, <2>1 DEF ToolResult, Appended, Room
  <2>3. d \in Entries /\ d.seq = seq + 1 /\ d.role = "tool"
    BY <1>2, <1>3, <2>2, EntryFacts
  <2> HIDE DEF d
  <2>4. e \in Entries /\ e.seq = seq + 1 /\ e.role = "tool"
    BY <1>1, <2>3 DEF Entries
  <2> HIDE DEF e
  <2>5. QED
    BY <1>1, <1>3, <2>2, <2>4, AppendedKeeps
<1>9. CASE Reply
  <2> DEFINE e == Entry(seq + 1, "reply")
  <2>1. Appended(e) /\ UNCHANGED call /\ phase' = "idle" /\ seq + 1 <= MaxSeq
    BY <1>9 DEF Reply, Appended, Room
  <2>2. e \in Entries /\ e.seq = seq + 1 /\ e.role \notin Contexts
    BY <1>2, <1>3, <2>1, EntryFacts
  <2> HIDE DEF e
  <2>3. QED
    BY <1>1, <2>1, <2>2, AppendedKeeps
<1>10. CASE Note
  <2>1. seq' = seq + 1 /\ seq + 1 <= MaxSeq /\ UNCHANGED <<surface, phase, call, comp>>
    BY <1>10 DEF Note, Room
  <2>2. seq <= seq + 1 /\ seq + 1 \in Nat /\ seq' > seq
    BY <1>1, <2>1
  <2>3. Logged(surface', seq') /\ OneCopy(surface')
    BY <1>1, <2>1, <2>2, LoggedLater
  <2>4. QED
    BY <1>1, <1>2, <2>1, <2>2, <2>3, Moves
<1>11. QED
  BY <1>4, <1>5, <1>6, <1>7, <1>8, <1>9, <1>10

(* Pruning on its own, and at the start of a compaction.                   *)
LEMMA PruneAllKeeps ==
    ASSUME SurfaceInv, PruneAll PROVE SurfaceInv'
<1> DEFINE n == Len(Prunable(surface, Len(surface)))
<1>1. /\ seq \in Nat /\ Logged(surface, seq) /\ OneCopy(surface) /\ call \in 0 .. MaxSeq
      /\ phase \in {"idle", "hop"} /\ surface \in Seq(Entries)
  BY SurfaceBounds DEF SurfaceInv, SurfaceTypeOK, Logged
<1>2. /\ n > 0 /\ seq + n <= MaxSeq /\ seq' = seq + n /\ UNCHANGED <<phase, call, comp>>
      /\ surface' = Prune(surface, seq, Len(surface))
  BY DEF PruneAll, Room
<1>3. Len(surface) \in 0 .. Len(surface)
  BY <1>1, LenProperties
<1>4. n \in Nat
  BY <1>1, <1>3, PrunableFacts
<1>5. Logged(surface', seq') /\ OneCopy(surface')
  BY <1>1, <1>2, <1>3, PruneFacts
<1> HIDE DEF n
<1>6. seq' \in 0 .. MaxSeq /\ seq' > seq
  BY <1>1, <1>2, <1>4, SurfaceBounds
<1>7. QED
  BY <1>1, <1>2, <1>5, <1>6, Moves

LEMMA CompactStartKeeps ==
    ASSUME SurfaceInv, CompactStart PROVE SurfaceInv'
<1>1. /\ seq \in Nat /\ Logged(surface, seq) /\ OneCopy(surface) /\ call \in 0 .. MaxSeq
      /\ phase \in {"idle", "hop"} /\ surface \in Seq(Entries) /\ Len(surface) \in Nat
  BY SurfaceBounds, LenProperties DEF SurfaceInv, SurfaceTypeOK, Logged
<1>2. PICK split \in Splits(surface) :
          LET keep == IF split # NoSplit THEN split
                      ELSE IF Len(surface) > MinTail THEN Len(surface) - MinTail
                      ELSE 0
              n == Len(Prunable(surface, keep))
              s == Prune(surface, seq, keep)
          IN  /\ Room(n + 1)
              /\ surface' = s
              /\ seq' = seq + n
              /\ \/ n > 0 /\ UNCHANGED comp
                 \/ \E k \in (IF n > 0 THEN Splits(s) ELSE {split}) \ {NoSplit} :
                       comp' = [on |-> TRUE, split |-> k, last |-> seq + n,
                                view |-> s]
  BY DEF CompactStart
<1> DEFINE keep == IF split # NoSplit THEN split
                   ELSE IF Len(surface) > MinTail THEN Len(surface) - MinTail
                   ELSE 0
           n == Len(Prunable(surface, keep))
           s == Prune(surface, seq, keep)
<1>3. /\ seq + (n + 1) <= MaxSeq /\ surface' = s /\ seq' = seq + n /\ UNCHANGED <<phase, call>>
      /\ \/ n > 0 /\ UNCHANGED comp
         \/ \E k \in (IF n > 0 THEN Splits(s) ELSE {split}) \ {NoSplit} :
               comp' = [on |-> TRUE, split |-> k, last |-> seq + n, view |-> s]
  BY <1>2 DEF CompactStart, Room
<1>4. keep \in 0 .. Len(surface)
  <2>1. split = NoSplit \/ split \in 1 .. Len(surface) - MinTail
    BY <1>1, SplitsFacts
  <2>2. QED
    BY <1>1, <2>1, SurfaceBounds
<1> HIDE DEF keep
<1>5. n \in Nat
  BY <1>1, <1>4, PrunableFacts
<1>6. seq + n <= MaxSeq /\ seq' \in 0 .. MaxSeq /\ seq + n \in Nat
  <2> HIDE DEF n
  <2>1. QED
    BY <1>1, <1>3, <1>5, SurfaceBounds
<1>7. Logged(s, seq + n) /\ OneCopy(s) /\ (n = 0 => s = surface)
  BY <1>1, <1>4, <1>6, PruneFacts
<1> HIDE DEF n, s
<1>8. CASE n > 0 /\ UNCHANGED comp
  <2>1. seq' > seq
    BY <1>1, <1>3, <1>5, <1>8
  <2>2. QED
    BY <1>1, <1>3, <1>6, <1>7, <1>8, <2>1, Moves
<1>9. ASSUME NEW k \in (IF n > 0 THEN Splits(s) ELSE {split}) \ {NoSplit},
             comp' = [on |-> TRUE, split |-> k, last |-> seq + n, view |-> s]
      PROVE  SurfaceInv'
  <2>1. k \in Splits(s) /\ k # NoSplit
    BY <1>5, <1>7, <1>9
  <2>2. s \in Seq(Entries)
    BY <1>7 DEF Logged
  <2>3. k \in 1 .. Len(s) - MinTail /\ Len(s) \in Nat
    BY <2>1, <2>2, SplitsFacts, LenProperties
  <2>4. k \in 0 .. Len(s)
    BY <2>3, SurfaceBounds
  <2>5. comp'.on = TRUE /\ comp'.split = k /\ comp'.last = seq + n /\ comp'.view = s
    BY <1>9
  <2>6. SurfaceTypeOK'
    <3>1. comp'.on \in BOOLEAN /\ comp'.view \in Seq(Entries) /\ comp'.split \in 0 .. Len(comp'.view)
      BY <2>2, <2>4, <2>5
    <3>2. surface' \in Seq(Entries) /\ \A i \in 1 .. Len(surface') : surface'[i].seq <= seq'
      BY <1>3, <1>7 DEF Logged
    <3>3. QED
      BY <1>1, <1>3, <1>6, <3>1, <3>2 DEF SurfaceTypeOK
  <2>7. CompKnows'
    <3>1. seq + n \in 0 .. seq'
      BY <1>3, <1>6
    <3>2. ~PartsPair(s, k)
      BY <2>1, <2>2, SplitsFacts
    <3>3. ~PartsPair(comp'.view, comp'.split)
      BY <2>5, <3>2
    <3>4. QED
      BY <1>3, <2>3, <2>5, <3>1, <3>3 DEF CompKnows
  <2>8. OneCopy(surface')
    BY <1>3, <1>7
  <2>9. QED
    BY <2>6, <2>7, <2>8 DEF SurfaceInv, OneCopy
<1>10. QED
  BY <1>3, <1>8, <1>9

(* A landing or discarded summary. *)
LEMMA CompactEndKeeps ==
    ASSUME SurfaceInv, CompactLand \/ CompactDiscard PROVE SurfaceInv'
<1>1. /\ seq \in Nat /\ Logged(surface, seq) /\ OneCopy(surface) /\ call \in 0 .. MaxSeq
      /\ phase \in {"idle", "hop"} /\ seq \in 0 .. MaxSeq
  BY SurfaceBounds DEF SurfaceInv, SurfaceTypeOK, Logged
<1>2. comp' = None /\ UNCHANGED <<phase, call>>
  BY DEF CompactLand, CompactDiscard, SummaryLands
<1>3. comp'.on = FALSE /\ comp'.split = 0 /\ comp'.view = <<>>
  BY <1>2 DEF None
<1>4. Logged(surface', seq') /\ OneCopy(surface') /\ seq' \in 0 .. MaxSeq
  <2>1. CASE CompactLand
    <3> DEFINE e == Entry(seq + 1, "summary")
               from == comp.view[1].seq
               to == comp.view[comp.split].seq
    <3>1. surface' = Replace(surface, from, to, e) /\ seq' = seq + 1 /\ seq + 1 <= MaxSeq
      BY <2>1 DEF CompactLand, SummaryLands, Room
    <3>2. seq + 1 \in 1 .. MaxSeq /\ seq + 1 \in Nat /\ seq <= seq + 1 /\ seq + 1 \in 0 .. MaxSeq
      BY <1>1, <3>1, SurfaceBounds
    <3>3. "summary" \in Roles /\ "summary" \notin Contexts
      BY DEF Roles, Contexts
    <3>4. e \in Entries /\ e.seq = seq + 1 /\ e.role = "summary"
      BY <3>2, <3>3, EntryFacts
    <3> HIDE DEF e, from, to
    <3>5. e.role \notin Contexts /\ e.seq <= seq + 1
      BY <3>2, <3>3, <3>4
    <3>6. Logged(Replace(surface, from, to, e), seq + 1) /\ OneCopy(Replace(surface, from, to, e))
      BY <1>1, <3>2, <3>4, <3>5, ReplaceKeeps
    <3>7. QED
      BY <3>1, <3>2, <3>6
  <2>2. CASE CompactDiscard
    BY <1>1, <2>2 DEF CompactDiscard
  <2>3. QED
    BY <2>1, <2>2
<1>5. SurfaceTypeOK'
  <2>1. comp'.on \in BOOLEAN /\ comp'.view \in Seq(Entries) /\ comp'.split \in 0 .. Len(comp'.view)
    <3>1. <<>> \in Seq(Entries) /\ 0 \in 0 .. Len(<<>>) /\ FALSE \in BOOLEAN
      OBVIOUS
    <3>2. QED
      BY <1>3, <3>1, Zenon
  <2>2. surface' \in Seq(Entries) /\ \A i \in 1 .. Len(surface') : surface'[i].seq <= seq'
    BY <1>4 DEF Logged
  <2>3. QED
    BY <1>1, <1>2, <1>4, <2>1, <2>2 DEF SurfaceTypeOK
<1>6. CompKnows'
  BY <1>3 DEF CompKnows
<1>7. QED
  BY <1>4, <1>5, <1>6 DEF SurfaceInv, OneCopy

LEMMA SurfaceStep == SurfaceInv /\ [SurfaceNext]_surfaceVars => SurfaceInv'
<1> SUFFICES ASSUME SurfaceInv, [SurfaceNext]_surfaceVars PROVE SurfaceInv'
  OBVIOUS
<1>1. CASE UNCHANGED surfaceVars
  BY <1>1 DEF surfaceVars, SurfaceInv, SurfaceTypeOK, OneCopy, CompKnows
<1>2. CASE SurfaceNext
  BY <1>2, TurnStepKeeps, PruneAllKeeps, CompactStartKeeps, CompactEndKeeps DEF SurfaceNext
<1>3. QED
  BY <1>1, <1>2

-----------------------------------------------------------------------------
(* Cut between neighbours that do not belong together, a history whose     *)
(* results stand behind their calls falls into two such histories.         *)
LEMMA CutKeepsPairs ==
    ASSUME NEW s \in Seq(Entries), NEW k \in 1 .. Len(s), InPairs(s), ~PartsPair(s, k)
    PROVE  InPairs(SubSeq(s, 1, k)) /\ InPairs(SubSeq(s, k + 1, Len(s)))
<1> DEFINE n == Len(s)
           h == SubSeq(s, 1, k)
           t == SubSeq(s, k + 1, n)
<1>1. n \in Nat /\ k \in Nat /\ k <= n
  BY LenProperties
<1>2. k < n => s[k + 1].role # "tool"
  BY DEF PartsPair
<1>3. s[k].role # "calls"
  BY DEF PartsPair
<1>4. ASSUME NEW j \in 1 .. n, NEW i \in j + 1 .. n, Answers(s, j, i) PROVE j > k \/ i <= k
  <2> SUFFICES ASSUME j <= k, k < i PROVE FALSE
    BY <1>1
  <2>1. \A m \in j + 1 .. i : s[m].role = "tool"
    BY <1>4 DEF Answers
  <2>2. k + 1 \in j + 1 .. i /\ k < n
    BY <1>1
  <2>3. QED
    BY <1>2, <2>1, <2>2
<1>5. Len(h) = k /\ \A m \in 1 .. k : h[m] = s[m]
  BY <1>1
<1>6. Len(t) = n - k /\ \A m \in 1 .. n - k : t[m] = s[m + k]
  BY <1>1
<1> HIDE DEF h, t
<1>7. InPairs(h)
  <2>1. ASSUME NEW j \in 1 .. k, NEW i \in j + 1 .. k, Answers(s, j, i) PROVE Answers(h, j, i)
    <3>1. i \in 1 .. k /\ \A m \in j + 1 .. i - 1 : m \in 1 .. k
      BY <1>1
    <3>2. h[j] = s[j] /\ h[i] = s[i] /\ \A m \in j + 1 .. i - 1 : h[m] = s[m]
      BY <1>5, <3>1
    <3>3. QED
      BY <2>1, <3>2 DEF Answers
  <2>2. ASSUME NEW i \in 1 .. k, h[i].role = "tool" PROVE \E j \in 1 .. i - 1 : Answers(h, j, i)
    <3>1. s[i].role = "tool" /\ i \in 1 .. n
      BY <1>1, <1>5, <2>2
    <3>2. PICK j \in 1 .. i - 1 : Answers(s, j, i)
      BY <3>1 DEF InPairs
    <3>3. j \in 1 .. k /\ i \in j + 1 .. k
      BY <1>1
    <3>4. QED
      BY <2>1, <3>2, <3>3
  <2>3. ASSUME NEW j \in 1 .. k, h[j].role = "calls" PROVE \E i \in j + 1 .. k : Answers(h, j, i)
    <3>1. s[j].role = "calls" /\ j \in 1 .. n
      BY <1>1, <1>5, <2>3
    <3>2. PICK i \in j + 1 .. n : Answers(s, j, i)
      BY <3>1 DEF InPairs
    <3>3. i \in j + 1 .. k
      BY <1>1, <1>4, <3>1, <3>2
    <3>4. QED
      BY <2>1, <3>2, <3>3
  <2>4. QED
    BY <1>5, <2>2, <2>3 DEF InPairs
<1>8. InPairs(t)
  <2>1. ASSUME NEW j \in 1 .. n - k, NEW i \in j + 1 .. n - k, Answers(s, j + k, i + k) PROVE Answers(t, j, i)
    <3>1. i \in 1 .. n - k
      BY <1>1
    <3>2. t[j] = s[j + k] /\ t[i] = s[i + k]
      BY <1>6, <3>1
    <3>3. ASSUME NEW m \in j + 1 .. i - 1 PROVE t[m].role = "tool"
      <4>1. m \in 1 .. n - k /\ m + k \in (j + k) + 1 .. (i + k) - 1
        BY <1>1
      <4>2. t[m] = s[m + k]
        BY <1>6, <4>1
      <4>3. QED
        BY <2>1, <4>1, <4>2 DEF Answers
    <3>4. QED
      BY <2>1, <3>2, <3>3 DEF Answers
  <2>2. ASSUME NEW i \in 1 .. n - k, t[i].role = "tool" PROVE \E j \in 1 .. i - 1 : Answers(t, j, i)
    <3>1. s[i + k].role = "tool" /\ i + k \in 1 .. n
      BY <1>1, <1>6, <2>2
    <3>2. PICK l \in 1 .. (i + k) - 1 : Answers(s, l, i + k)
      BY <3>1 DEF InPairs
    <3>3. l \in 1 .. n /\ i + k \in l + 1 .. n /\ ~(i + k <= k)
      BY <1>1, <3>1
    <3>4. l > k
      BY <1>4, <3>2, <3>3
    <3>5. l - k \in 1 .. i - 1 /\ l - k \in 1 .. n - k /\ i \in (l - k) + 1 .. n - k /\ (l - k) + k = l
      BY <1>1, <3>4
    <3>6. QED
      BY <2>1, <3>2, <3>5
  <2>3. ASSUME NEW j \in 1 .. n - k, t[j].role = "calls" PROVE \E i \in j + 1 .. n - k : Answers(t, j, i)
    <3>1. s[j + k].role = "calls" /\ j + k \in 1 .. n
      BY <1>1, <1>6, <2>3
    <3>2. PICK l \in (j + k) + 1 .. n : Answers(s, j + k, l)
      BY <3>1 DEF InPairs
    <3>3. l - k \in j + 1 .. n - k /\ (l - k) + k = l
      BY <1>1
    <3>4. QED
      BY <2>1, <3>2, <3>3
  <2>4. QED
    BY <1>6, <2>2, <2>3 DEF InPairs
<1>9. QED
  BY <1>7, <1>8 DEF h, t

(* So a compaction parts no call from its result. *)
LEMMA SplitSound == SurfaceInv => SplitKeepsPairs
<1> SUFFICES ASSUME SurfaceInv, comp.on, InPairs(comp.view)
             PROVE  /\ InPairs(SubSeq(comp.view, 1, comp.split))
                    /\ InPairs(SubSeq(comp.view, comp.split + 1, Len(comp.view)))
                    /\ Len(comp.view) - comp.split >= MinTail
  BY DEF SplitKeepsPairs
<1>1. comp.view \in Seq(Entries) /\ comp.split \in 1 .. Len(comp.view) - MinTail
      /\ ~PartsPair(comp.view, comp.split)
  BY DEF SurfaceInv, SurfaceTypeOK, CompKnows
<1>2. Len(comp.view) \in Nat /\ MinTail \in Nat
  BY <1>1, LenProperties, SurfaceBounds
<1>3. comp.split \in 1 .. Len(comp.view) /\ Len(comp.view) - comp.split >= MinTail
  BY <1>1, <1>2
<1>4. QED
  BY <1>1, <1>3, CutKeepsPairs

(* A summary that lands was written from what is visible.                  *)
LEMMA LandsOnView ==
    ASSUME SurfaceInv, CompactLand
    PROVE  comp.view = surface /\ comp.split \in 1 .. Len(surface) - MinTail
BY DEF SurfaceInv, CompKnows, CompactLand

(* In log order the span of a summary is the head of the surface, and what *)
(* the Replace keeps is the tail.                                          *)
LEMMA LandIsSplice ==
    ASSUME SurfaceInv, CompactLand, InLogOrder(surface)
    PROVE  surface' = Folded
<1> DEFINE n == comp.split
           from == surface[1].seq
           to == surface[n].seq
           e == Entry(seq + 1, "summary")
           t == SubSeq(surface, n + 1, Len(surface))
           at == {i \in DOMAIN surface : surface[i].seq < from \/ surface[i].seq > to}
<1>1. comp.view = surface /\ n \in 1 .. Len(surface) - MinTail
  BY LandsOnView
<1>2. /\ surface \in Seq(Entries) /\ seq \in Nat /\ DOMAIN surface = 1 .. Len(surface)
      /\ Len(surface) \in Nat
  BY SurfaceBounds, LenProperties DEF SurfaceInv, SurfaceTypeOK
<1>3. surface' = Replace(surface, from, to, e) /\ seq' = seq + 1 /\ seq + 1 <= MaxSeq
  BY <1>1 DEF CompactLand, SummaryLands, Room
<1>4. /\ n \in Nat /\ n >= 1 /\ n + 1 <= Len(surface) /\ n \in 0 .. Len(surface)
      /\ n \in 1 .. Len(surface) /\ 1 \in 1 .. Len(surface)
  BY <1>1, <1>2, SurfaceBounds
<1>5. \A i \in 1 .. Len(surface) : surface[i].seq \in Nat
  <2> TAKE i \in 1 .. Len(surface)
  <2>1. surface[i] \in Entries
    BY <1>2, ElementOfSeq
  <2>2. QED
    BY <2>1, SurfaceBounds DEF Entries
<1>6. at = n + 1 .. Len(surface)
  <2>1. ASSUME NEW i \in 1 .. Len(surface), i <= n PROVE surface[i].seq >= from /\ surface[i].seq <= to
    <3>1. i = 1 \/ 1 < i
      OBVIOUS
    <3>2. i = n \/ i < n
      BY <1>4, <2>1
    <3>3. from <= surface[i].seq
      BY <1>4, <1>5, <3>1 DEF InLogOrder
    <3>4. surface[i].seq <= to
      BY <1>4, <1>5, <3>2 DEF InLogOrder
    <3>5. QED
      BY <1>4, <1>5, <3>3, <3>4
  <2>2. ASSUME NEW i \in 1 .. Len(surface), i > n PROVE surface[i].seq > to
    <3>1. n < i
      BY <1>4, <2>2
    <3>2. to < surface[i].seq
      BY <1>4, <3>1 DEF InLogOrder
    <3>3. QED
      BY <1>4, <1>5, <3>2
  <2>3. \A i \in 1 .. Len(surface) : from \in Nat /\ to \in Nat
    BY <1>4, <1>5
  <2>4. ASSUME NEW i \in 1 .. Len(surface)
        PROVE  (surface[i].seq < from \/ surface[i].seq > to) <=> i > n
    <3>1. CASE i <= n
      <4>1. surface[i].seq >= from /\ surface[i].seq <= to
        BY <2>1, <3>1
      <4>2. ~(i > n)
        BY <1>4, <3>1
      <4>3. QED
        BY <1>5, <2>3, <4>1, <4>2
    <3>2. CASE i > n
      BY <2>2, <3>2
    <3>3. QED
      BY <1>4, <3>1, <3>2
  <2>5. \A i : i \in n + 1 .. Len(surface) <=> i \in 1 .. Len(surface) /\ i > n
    BY <1>2, <1>4
  <2> HIDE DEF n, from, to
  <2>6. QED
    BY <1>2, <2>4, <2>5
<1>7. Retain(surface, from, to) = t
  <2>1. Retain(surface, from, to) = Picked(surface, at)
    BY DEF Retain
  <2> HIDE DEF at, n
  <2>2. Picked(surface, n + 1 .. Len(surface)) = SubSeq(surface, n + 1, Len(surface))
    BY <1>2, <1>4, PickedTail
  <2>3. QED
    BY <1>6, <2>1, <2>2
<1>8. t \in Seq(Entries) /\ Len(t) \in Nat /\ Len(t) >= 1 /\ t[1] = surface[n + 1]
  <2> HIDE DEF n
  <2>1. n + 1 \in Int /\ Len(surface) \in Int /\ \A i \in n + 1 .. Len(surface) : surface[i] \in Entries
    BY <1>2, <1>4, ElementOfSeq
  <2>2. /\ t \in Seq(Entries)
        /\ Len(t) = IF n + 1 <= Len(surface) THEN Len(surface) - (n + 1) + 1 ELSE 0
        /\ \A i \in 1 .. Len(surface) - (n + 1) + 1 : t[i] = surface[n + 1 + i - 1]
    BY <2>1, SubSeqProperties
  <2> HIDE DEF t
  <2>3. 1 \in 1 .. Len(surface) - (n + 1) + 1 /\ n + 1 + 1 - 1 = n + 1
    BY <1>2, <1>4
  <2>4. t[1] = surface[n + 1]
    BY <2>2, <2>3
  <2>5. QED
    BY <1>2, <1>4, <2>2, <2>4
<1>9. t[1].seq >= from
  <2>1. n + 1 \in 1 .. Len(surface) /\ 1 < n + 1
    BY <1>2, <1>4
  <2>2. from < surface[n + 1].seq
    BY <1>4, <2>1 DEF InLogOrder
  <2>3. surface[n + 1].seq \in Nat /\ from \in Nat
    BY <1>4, <1>5, <2>1
  <2> HIDE DEF n, from, t
  <2>4. QED
    BY <1>8, <2>2, <2>3
<1> HIDE DEF t, from, to, e, at
<1>10. Place(t, from) = 1
  <2> DEFINE I == {i \in 1 .. Len(t) : t[i].seq >= from}
             a == SelectInSeq(t, LAMBDA x : x.seq >= from)
  <2>1. 1 \in I /\ \A i \in I : i \in Nat /\ 1 <= i
    BY <1>8, <1>9
  <2>2. a = IF I # {} THEN Min(I) ELSE 0
    BY DEF SelectInSeq
  <2>3. Place(t, from) = IF a = 0 THEN Len(t) + 1 ELSE a
    BY DEF Place
  <2> HIDE DEF I, a
  <2>4. Min(I) \in I /\ \A i \in I : Min(I) <= i
    BY <2>1 DEF Min
  <2>5. Min(I) = 1
    BY <2>1, <2>4
  <2>6. QED
    BY <2>1, <2>2, <2>3, <2>5
<1>11. InsertAt(t, 1, e) = <<e>> \o t
  <2>1. InsertAt(t, 1, e) = SubSeq(t, 1, 1 - 1) \o <<e>> \o SubSeq(t, 1, Len(t))
    BY DEF InsertAt
  <2>2. SubSeq(t, 1, 1 - 1) = <<>>
    BY SubSeqEmpty
  <2>3. SubSeq(t, 1, Len(t)) = t
    BY <1>8, SubSeqFull
  <2>4. <<>> \o <<e>> = <<e>>
    OBVIOUS
  <2>5. QED
    BY <2>1, <2>2, <2>3, <2>4
<1>12. surface' = <<e>> \o t
  BY <1>3, <1>7, <1>10, <1>11, ReplaceIs
<1>13. Folded = <<e>> \o t
  BY <1>3 DEF Folded, e, t
<1>14. QED
  BY <1>12, <1>13

(* The history a session's model is given. *)
THEOREM HistoryIsSound ==
    SurfaceSpec => [](SurfaceTypeOK /\ OneSnapshot /\ SplitKeepsPairs) /\ SummaryOfVisible /\ SpliceInLogOrder
<1>1. SurfaceInit => SurfaceInv
  BY SurfaceInitially
<1>2. SurfaceInv /\ [SurfaceNext]_surfaceVars => SurfaceInv'
  BY SurfaceStep
<1>3. SurfaceInv => SurfaceTypeOK /\ OneSnapshot /\ SplitKeepsPairs
  BY SplitSound DEF SurfaceInv, OneCopy, OneSnapshot
<1>4. SurfaceInv /\ [SurfaceNext]_surfaceVars =>
          [CompactLand => Seqs(comp.view) = Seqs(surface)]_surfaceVars
  BY LandsOnView
<1>5. SurfaceInv /\ [SurfaceNext]_surfaceVars =>
          [CompactLand /\ InLogOrder(surface) => surface' = Folded]_surfaceVars
  BY LandIsSplice
<1>6. QED
  BY <1>1, <1>2, <1>3, <1>4, <1>5, PTL DEF SurfaceSpec, SummaryOfVisible, SpliceInLogOrder

-----------------------------------------------------------------------------
(* Verdict                                                                 *)

IsStart(r) == r.kind = "start"
IsHumanStart(r) == r.kind = "start" /\ r.human
IsWork(r) == r.kind = "result" /\ r.ok /\ ~r.pruned

HumanStarts(l) == {i \in 1 .. Len(l) : IsHumanStart(l[i])}

(* The user message in front of the newest human start of a log. *)
AskedOf(l) == IF HumanStarts(l) = {} THEN 0 ELSE LastUser(l, Max(HumanStarts(l)))

(* The start of turn id at p is the newest start of the log, what follows  *)
(* it is the turn's own, and no other start has the id in a first run.     *)
OpenedAt(l, id, p, works, first) ==
    /\ p \in 1 .. Len(l) /\ IsStart(l[p]) /\ l[p].id = id
    /\ \A i \in 1 .. Len(l) : IsStart(l[i]) => i <= p
    /\ works <=> \E i \in p .. Len(l) : IsWork(l[i])
    /\ first => StartsOf(l, id) = {p}

IdsBelow(l, n) == \A i \in 1 .. Len(l) : IsStart(l[i]) => l[i].id < n

VerdictInv ==
    /\ VerdictTypeOK
    /\ asked = AskedOf(log)
    /\ restarts = 0 => IdsBelow(log, nextTurn)
    /\ turn # 0 => \E p \in 1 .. Len(log) : OpenedAt(log, turn, p, progress, restarts = 0)

(* Bounded ones have a greatest. *)
LEMMA GreatestOf ==
    ASSUME NEW n \in Nat, NEW S, S \subseteq 0 .. n, S # {}
    PROVE  Max(S) \in S /\ \A y \in S : y <= Max(S)
<1> DEFINE T == {n - x : x \in S}
<1>1. T \subseteq Nat /\ T # {}
  <2>1. ASSUME NEW x \in S PROVE n - x \in Nat
    BY x \in 0 .. n
  <2>2. QED
    BY <2>1
<1> HIDE DEF T
<1>2. PICK t \in T : \A y \in T : t <= y
  BY <1>1, LeastOf
<1>3. PICK m \in S : t = n - m
  BY DEF T
<1>4. \A y \in S : m >= y
  <2> TAKE y \in S
  <2>1. t <= n - y
    BY <1>2 DEF T
  <2>2. y \in Nat /\ m \in Nat
    OBVIOUS
  <2>3. QED
    BY <1>3, <2>1, <2>2
<1>5. Max(S) \in S /\ \A y \in S : Max(S) >= y
  BY <1>4 DEF Max
<1>6. \A y \in S : y \in Nat
  OBVIOUS
<1>7. QED
  BY <1>5, <1>6

(* The maximum of a set is its only upper bound in it. *)
LEMMA MaxIs ==
    ASSUME NEW S, S \subseteq Nat, NEW m \in S, \A x \in S : x <= m
    PROVE  Max(S) = m
<1>1. \A x \in S : x \in Nat /\ m >= x
  OBVIOUS
<1>2. Max(S) \in S /\ \A y \in S : Max(S) >= y
  BY <1>1 DEF Max
<1> DEFINE x == Max(S)
<1> HIDE DEF x
<1>3. x \in Nat /\ x >= m /\ m >= x /\ m \in Nat
  BY <1>1, <1>2 DEF x
<1>4. x = m
  BY <1>3
<1>5. QED
  BY <1>4 DEF x

(* The minimum of a set of one element. *)
LEMMA MinOfOne == ASSUME NEW m \in Nat PROVE Min({m}) = m
<1>1. Min({m}) \in {m}
  BY DEF Min
<1>2. QED
  BY <1>1

(* made_progress asks about the rows from the turn's own start on. *)
LEMMA ProgressFound ==
    ASSUME NEW l \in Seq(LogRows), NEW id, NEW p, NEW works, NEW first, OpenedAt(l, id, p, works, first)
    PROVE  MadeProgress(l, id) <=> works
<1>1. p \in StartsOf(l, id) /\ \A x \in StartsOf(l, id) : x <= p
  BY DEF OpenedAt, StartsOf, IsStart
<1>2. StartsOf(l, id) \subseteq Nat
  BY DEF StartsOf
<1>3. Max(StartsOf(l, id)) = p
  BY <1>1, <1>2, MaxIs
<1>4. StartsOf(l, id) # {}
  BY <1>1
<1>5. QED
  BY <1>3, <1>4 DEF OpenedAt, MadeProgress, IsWork

(* The walk of objective meets every human start when the turn's own start *)
(* is the only one under its id.                                           *)
LEMMA ObjectiveFound ==
    ASSUME NEW l \in Seq(LogRows), NEW id, NEW p, NEW works, OpenedAt(l, id, p, works, TRUE)
    PROVE  Objective(l, id) = AskedOf(l)
<1>1. StartsOf(l, id) = {p} /\ p \in Nat /\ p \in 1 .. Len(l)
  BY DEF OpenedAt
<1>2. Walked(l, id) = p
  BY <1>1, MinOfOne DEF Walked
<1>3. {i \in 1 .. p : l[i].kind = "start" /\ l[i].human} = HumanStarts(l)
  <2>1. \A i \in 1 .. Len(l) : IsHumanStart(l[i]) => i \in 1 .. p
    BY <1>1 DEF OpenedAt, IsHumanStart, IsStart
  <2>2. \A i \in 1 .. p : i \in 1 .. Len(l)
    BY <1>1
  <2>3. QED
    BY <2>1, <2>2 DEF HumanStarts, IsHumanStart
<1>4. QED
  BY <1>2, <1>3 DEF Objective, AskedOf

(* The user message before a row depends on the rows up to it. *)
LEMMA LastUserKept ==
    ASSUME NEW l \in Seq(LogRows), NEW k \in Seq(LogRows), NEW n \in 1 .. Len(l),
           n <= Len(k), \A i \in 1 .. n : k[i] = l[i],
           \E i \in 1 .. n : l[i].kind = "user"
    PROVE  LastUser(k, n) = LastUser(l, n)
<1> DEFINE A == {j \in 1 .. n : l[j].kind = "user"}
<1>1. {j \in 1 .. n : k[j].kind = "user"} = A
  OBVIOUS
<1>2. A \subseteq 0 .. n /\ A # {} /\ n \in Nat
  OBVIOUS
<1>3. Max(A) \in 1 .. n
  BY <1>2, GreatestOf
<1> HIDE DEF A
<1>4. LastUser(k, n) = k[Max(A)].text /\ LastUser(l, n) = l[Max(A)].text
  BY <1>1 DEF LastUser, A
<1>5. QED
  BY <1>3, <1>4

(* Every human start has a user message before it. *)
HumansAsked(l) == \A i \in 1 .. Len(l) : IsHumanStart(l[i]) => \E j \in 1 .. i : l[j].kind = "user"

(* A log that grew by rows that are no human starts asks for the same. *)
LEMMA AskedKept ==
    ASSUME NEW l \in Seq(LogRows), NEW k \in Seq(LogRows), HumansAsked(l),
           Len(l) <= Len(k), \A i \in 1 .. Len(l) : k[i] = l[i],
           \A i \in 1 .. Len(k) : i > Len(l) => ~IsHumanStart(k[i])
    PROVE  AskedOf(k) = AskedOf(l) /\ HumansAsked(k)
<1> DEFINE m == Max(HumanStarts(l))
<1>1. Len(l) \in Nat /\ Len(k) \in Nat
  OBVIOUS
<1>2. \A i \in 1 .. Len(k) : i \in 1 .. Len(l) \/ i > Len(l)
  BY <1>1
<1>3. \A i \in 1 .. Len(l) : i \in 1 .. Len(k)
  BY <1>1
<1>4. HumanStarts(k) = HumanStarts(l)
  BY <1>2, <1>3 DEF HumanStarts
<1>5. ASSUME HumanStarts(l) # {} PROVE LastUser(k, m) = LastUser(l, m)
  <2>1. HumanStarts(l) \subseteq 0 .. Len(l)
    BY <1>1 DEF HumanStarts
  <2>2. m \in HumanStarts(l)
    BY <1>1, <1>5, <2>1, GreatestOf
  <2> HIDE DEF m
  <2>3. m \in 1 .. Len(l) /\ IsHumanStart(l[m])
    BY <2>2 DEF HumanStarts
  <2>4. \E j \in 1 .. m : l[j].kind = "user"
    BY <2>3 DEF HumansAsked
  <2>5. m <= Len(k) /\ \A i \in 1 .. m : k[i] = l[i]
    BY <1>1, <2>3
  <2>6. QED
    BY <2>3, <2>4, <2>5, LastUserKept
<1>6. AskedOf(k) = AskedOf(l)
  BY <1>4, <1>5 DEF AskedOf
<1>7. ASSUME NEW i \in 1 .. Len(k), IsHumanStart(k[i])
      PROVE  \E j \in 1 .. i : k[j].kind = "user"
  <2>1. i \in 1 .. Len(l) /\ IsHumanStart(l[i])
    BY <1>2, <1>7
  <2>2. PICK j \in 1 .. i : l[j].kind = "user"
    BY <2>1 DEF HumansAsked
  <2>3. j \in 1 .. Len(l)
    BY <1>1, <2>1
  <2>4. QED
    BY <2>2, <2>3
<1>8. QED
  BY <1>6, <1>7 DEF HumansAsked

(* A row that starts no turn leaves the start of the running one where it  *)
(* was; a successful result is progress of this turn.                      *)
LEMMA RowAdded ==
    ASSUME NEW l \in Seq(LogRows), NEW r \in LogRows, ~IsStart(r), HumansAsked(l),
           NEW k, k = Append(l, r)
    PROVE  /\ k \in Seq(LogRows) /\ AskedOf(k) = AskedOf(l) /\ HumansAsked(k)
           /\ \A n : IdsBelow(l, n) => IdsBelow(k, n)
           /\ \A id, works, first : \A p \in 1 .. Len(l) :
                OpenedAt(l, id, p, works, first) => OpenedAt(k, id, p, works \/ IsWork(r), first)
<1>1. /\ k \in Seq(LogRows) /\ Len(k) = Len(l) + 1 /\ Len(l) \in Nat
      /\ \A i \in 1 .. Len(l) : k[i] = l[i]
      /\ k[Len(l) + 1] = r
  BY AppendProperties
<1>2. \A i \in 1 .. Len(k) : i \in 1 .. Len(l) \/ i = Len(l) + 1
  BY <1>1
<1>3. \A i \in 1 .. Len(k) : IsStart(k[i]) => i \in 1 .. Len(l) /\ k[i] = l[i]
  BY <1>1, <1>2
<1>4. AskedOf(k) = AskedOf(l) /\ HumansAsked(k)
  <2>1. Len(l) <= Len(k) /\ \A i \in 1 .. Len(k) : i > Len(l) => ~IsHumanStart(k[i])
    BY <1>1, <1>2 DEF IsHumanStart, IsStart
  <2>2. QED
    BY <1>1, <2>1, AskedKept
<1>5. \A n : IdsBelow(l, n) => IdsBelow(k, n)
  BY <1>1, <1>3 DEF IdsBelow
<1>6. ASSUME NEW id, NEW works, NEW first, NEW p \in 1 .. Len(l), OpenedAt(l, id, p, works, first)
      PROVE  OpenedAt(k, id, p, works \/ IsWork(r), first)
  <2>1. p \in 1 .. Len(k) /\ IsStart(k[p]) /\ k[p].id = id
    BY <1>1, <1>6 DEF OpenedAt
  <2>2. \A i \in 1 .. Len(k) : IsStart(k[i]) => i <= p
    BY <1>3, <1>6 DEF OpenedAt
  <2>3. (works \/ IsWork(r)) <=> \E i \in p .. Len(k) : IsWork(k[i])
    <3>1. \A i \in p .. Len(k) : (i \in p .. Len(l) /\ k[i] = l[i]) \/ (i = Len(l) + 1 /\ k[i] = r)
      BY <1>1
    <3>2. \A i \in p .. Len(l) : i \in p .. Len(k) /\ k[i] = l[i]
      BY <1>1
    <3>3. Len(l) + 1 \in p .. Len(k)
      BY <1>1
    <3>4. works <=> \E i \in p .. Len(l) : IsWork(l[i])
      BY <1>6 DEF OpenedAt
    <3>5. QED
      BY <1>1, <3>1, <3>2, <3>3, <3>4
  <2>4. ASSUME first PROVE StartsOf(k, id) = {p}
    <3>1. StartsOf(l, id) = {p}
      BY <1>6, <2>4 DEF OpenedAt
    <3>2. \A i \in StartsOf(k, id) : i \in StartsOf(l, id)
      BY <1>3 DEF StartsOf, IsStart
    <3>3. p \in StartsOf(k, id)
      BY <2>1 DEF StartsOf, IsStart
    <3>4. QED
      BY <3>1, <3>2, <3>3
  <2>5. QED
    BY <2>1, <2>2, <2>3, <2>4 DEF OpenedAt
<1>7. QED
  BY <1>1, <1>4, <1>5, <1>6

(* What a log k is that a start of turn id was added to. *)
AfterStart(l, k, id, human, text) ==
    /\ k \in Seq(LogRows) /\ HumansAsked(k)
    /\ AskedOf(k) = IF human THEN text ELSE AskedOf(l)
    /\ IdsBelow(l, id) => IdsBelow(k, id + 1)
    /\ \A first : (first => IdsBelow(l, id)) =>
          \E p \in 1 .. Len(k) : OpenedAt(k, id, p, FALSE, first)

(* The log block of start_turn: the newest start is this turn's, nothing   *)
(* was done since, and a human turn is what the person asked last.         *)
LEMMA StartAdded ==
    ASSUME NEW l \in Seq(LogRows), HumansAsked(l), NEW id \in 1 .. MaxTurnId, NEW human \in BOOLEAN,
           NEW text \in Texts, NEW k, k = l \o <<User(text), Start(id, human)>>
    PROVE  AfterStart(l, k, id, human, text)
<1> DEFINE n == Len(l)
           b == <<User(text), Start(id, human)>>
<1>1. User(text) \in LogRows /\ Start(id, human) \in LogRows
  BY DEF LogRows, User, Start
<1>2. b \in Seq(LogRows) /\ Len(b) = 2 /\ b[1] = User(text) /\ b[2] = Start(id, human)
  BY <1>1
<1> HIDE DEF b
<1>3. /\ k \in Seq(LogRows) /\ Len(k) = n + 2 /\ n \in Nat
      /\ \A i \in 1 .. n : k[i] = l[i]
      /\ k[n + 1] = User(text) /\ k[n + 2] = Start(id, human)
  <2>1. k = l \o b
    BY DEF b
  <2>2. QED
    BY <1>2, <2>1, ConcatProperties
<1>4. /\ ~IsStart(k[n + 1]) /\ k[n + 1].kind = "user" /\ k[n + 1].text = text
      /\ ~IsWork(k[n + 2]) /\ k[n + 2].id = id /\ IsStart(k[n + 2])
      /\ IsHumanStart(k[n + 2]) <=> human
  BY <1>3 DEF IsStart, IsWork, IsHumanStart, User, Start
<1>5. \A i \in 1 .. Len(k) : i \in 1 .. n \/ i = n + 1 \/ i = n + 2
  BY <1>3
<1> HIDE DEF n
<1>6. ASSUME ~human PROVE AskedOf(k) = AskedOf(l) /\ HumansAsked(k)
  <2>1. ASSUME NEW i \in 1 .. Len(k), i > n PROVE ~IsHumanStart(k[i])
    <3>1. i = n + 1 \/ i = n + 2
      BY <1>3, <1>5, <2>1
    <3>2. QED
      BY <1>4, <1>6, <3>1 DEF IsHumanStart, IsStart
  <2>2. Len(l) <= Len(k) /\ \A i \in 1 .. Len(l) : k[i] = l[i]
    BY <1>3 DEF n
  <2>3. \A i \in 1 .. Len(k) : i > Len(l) => ~IsHumanStart(k[i])
    BY <2>1 DEF n
  <2>4. QED
    BY <1>3, <2>2, <2>3, AskedKept
<1>7. ASSUME human PROVE AskedOf(k) = text /\ HumansAsked(k)
  <2>1. n + 2 \in HumanStarts(k) /\ HumanStarts(k) \subseteq Nat
    BY <1>3, <1>4, <1>7 DEF HumanStarts
  <2>2. \A x \in HumanStarts(k) : x <= n + 2
    BY <1>3, <1>5 DEF HumanStarts
  <2>3. Max(HumanStarts(k)) = n + 2
    BY <2>1, <2>2, MaxIs
  <2>4. LastUser(k, n + 2) = text
    <3> DEFINE A == {j \in 1 .. n + 2 : k[j].kind = "user"}
    <3>1. n + 1 \in A /\ A \subseteq Nat
      BY <1>3, <1>4
    <3>2. \A x \in A : x # n + 2
      BY <1>4 DEF IsStart
    <3>3. ASSUME NEW x \in A PROVE x <= n + 1
      <4>1. x \in 1 .. n + 2 /\ x # n + 2
        BY <3>2
      <4>2. QED
        BY <1>3, <4>1
    <3> HIDE DEF A
    <3>4. Max(A) = n + 1
      BY <3>1, <3>3, MaxIs
    <3>5. QED
      BY <1>4, <3>4 DEF LastUser, A
  <2>5. AskedOf(k) = text
    BY <2>1, <2>3, <2>4 DEF AskedOf
  <2>6. ASSUME NEW i \in 1 .. Len(k), IsHumanStart(k[i]) PROVE \E j \in 1 .. i : k[j].kind = "user"
    <3>1. CASE i \in 1 .. n
      <4>1. PICK j \in 1 .. i : l[j].kind = "user"
        BY <1>3, <2>6, <3>1 DEF HumansAsked, n
      <4>2. k[j] = l[j]
        BY <1>3, <3>1
      <4>3. QED
        BY <4>1, <4>2
    <3>2. CASE i = n + 1
      BY <1>4, <2>6, <3>2 DEF IsHumanStart, IsStart
    <3>3. CASE i = n + 2
      <4>1. n + 1 \in 1 .. i
        BY <1>3, <3>3
      <4>2. QED
        BY <1>4, <4>1
    <3>4. QED
      BY <1>5, <3>1, <3>2, <3>3
  <2>7. QED
    BY <2>5, <2>6 DEF HumansAsked
<1>8. ASSUME IdsBelow(l, id) PROVE IdsBelow(k, id + 1)
  <2>1. ASSUME NEW i \in 1 .. Len(k), IsStart(k[i]) PROVE k[i].id < id + 1
    <3>1. CASE i \in 1 .. n
      <4>1. l[i].id < id /\ k[i] = l[i]
        BY <1>3, <1>8, <2>1, <3>1 DEF IdsBelow, n
      <4>2. l[i].id \in Nat
        <5>1. l[i] \in LogRows /\ l[i].kind = "start"
          BY <1>3, <2>1, <3>1 DEF IsStart, n
        <5>2. QED
          BY <5>1 DEF LogRows
      <4>3. QED
        BY <4>1, <4>2
    <3>2. CASE i = n + 1
      BY <1>4, <2>1, <3>2
    <3>3. CASE i = n + 2
      BY <1>4, <3>3
    <3>4. QED
      BY <1>5, <3>1, <3>2, <3>3
  <2>2. QED
    BY <2>1 DEF IdsBelow
<1>9. ASSUME NEW first, first => IdsBelow(l, id) PROVE OpenedAt(k, id, n + 2, FALSE, first)
  <2>1. n + 2 \in 1 .. Len(k)
    BY <1>3
  <2>2. \A i \in 1 .. Len(k) : IsStart(k[i]) => i <= n + 2
    BY <1>3
  <2>3. ~ \E i \in n + 2 .. Len(k) : IsWork(k[i])
    <3>1. \A i \in n + 2 .. Len(k) : i = n + 2
      BY <1>3
    <3>2. QED
      BY <1>4, <3>1
  <2>4. ASSUME first PROVE StartsOf(k, id) = {n + 2}
    <3>1. ASSUME NEW i \in 1 .. n PROVE ~(k[i].kind = "start" /\ k[i].id = id)
      <4>1. SUFFICES ASSUME k[i].kind = "start", k[i].id = id PROVE FALSE
        OBVIOUS
      <4>2. k[i] = l[i] /\ l[i].id < id
        BY <1>3, <1>9, <2>4, <3>1, <4>1 DEF IdsBelow, IsStart, n
      <4>3. id \in Nat
        BY VerdictAssumption
      <4>4. id < id
        <5>1. l[i].id = id
          BY <4>1, <4>2
        <5>2. QED
          BY <4>2, <5>1, Zenon
      <4>5. QED
        BY <4>3, <4>4
    <3>2. \A i \in StartsOf(k, id) : i = n + 2
      BY <1>4, <1>5, <3>1 DEF StartsOf, IsStart
    <3>3. n + 2 \in StartsOf(k, id)
      BY <1>4, <2>1 DEF StartsOf, IsStart
    <3>4. QED
      BY <3>2, <3>3
  <2>5. QED
    BY <1>4, <2>1, <2>2, <2>3, <2>4 DEF OpenedAt
<1>10. n + 2 \in 1 .. Len(k)
  BY <1>3
<1>11. QED
  BY <1>3, <1>6, <1>7, <1>8, <1>9, <1>10 DEF AfterStart

(* No turn runs in an empty log. *)
LEMMA VerdictInitially == VerdictInit => VerdictInv /\ HumansAsked(log)
<1> SUFFICES ASSUME VerdictInit PROVE VerdictInv /\ HumansAsked(log)
  OBVIOUS
<1> USE VerdictAssumption DEF VerdictInit
<1>1. VerdictTypeOK
  <2>1. MaxLog \in Nat /\ MaxTurnId \in Nat /\ MaxRestarts \in Nat
    OBVIOUS
  <2>2. log \in Seq(LogRows) /\ asked \in Texts
    BY <2>1 DEF Texts
  <2>3. nextTurn \in 1 .. MaxTurnId + 1 /\ turn \in 0 .. nextTurn - 1 /\ restarts \in 0 .. MaxRestarts
    BY <2>1
  <2>4. progress \in BOOLEAN
    OBVIOUS
  <2>5. QED
    BY <2>2, <2>3, <2>4 DEF VerdictTypeOK
<1>2. 1 .. Len(log) = {}
  OBVIOUS
<1>3. AskedOf(log) = 0 /\ IdsBelow(log, nextTurn) /\ HumansAsked(log)
  BY <1>2 DEF AskedOf, HumanStarts, IdsBelow, HumansAsked
<1>4. turn = 0 /\ asked = AskedOf(log)
  BY <1>3
<1>5. QED
  BY <1>1, <1>3, <1>4, Zenon DEF VerdictInv

(* Every step keeps the invariant. *)
LEMMA VerdictStep ==
    VerdictInv /\ HumansAsked(log) /\ [VerdictNext]_verdictVars => (VerdictInv /\ HumansAsked(log))'
<1> SUFFICES ASSUME VerdictInv, HumansAsked(log), [VerdictNext]_verdictVars
             PROVE  (VerdictInv /\ HumansAsked(log))'
  OBVIOUS
<1>1. /\ log \in Seq(LogRows) /\ nextTurn \in 1 .. MaxTurnId + 1 /\ turn \in 0 .. nextTurn - 1
      /\ restarts \in 0 .. MaxRestarts /\ asked \in Texts /\ progress \in BOOLEAN
      /\ asked = AskedOf(log)
      /\ restarts = 0 => IdsBelow(log, nextTurn)
      /\ turn # 0 => \E p \in 1 .. Len(log) : OpenedAt(log, turn, p, progress, restarts = 0)
  BY DEF VerdictInv, VerdictTypeOK
<1>2. MaxTurnId \in Nat /\ MaxLog \in Nat /\ MaxRestarts \in Nat /\ Len(log) \in Nat
  BY <1>1, VerdictAssumption
(* A row other than a start joins the log. *)
<1>3. ASSUME NEW r \in LogRows, ~IsStart(r), turn # 0, log' = Append(log, r),
             progress' = (progress \/ IsWork(r)), UNCHANGED <<nextTurn, turn, restarts, asked>>
      PROVE  (VerdictInv /\ HumansAsked(log))'
  <2>1. /\ log' \in Seq(LogRows) /\ AskedOf(log') = AskedOf(log) /\ HumansAsked(log')
        /\ \A n : IdsBelow(log, n) => IdsBelow(log', n)
        /\ \A id, works, first : \A p \in 1 .. Len(log) :
                OpenedAt(log, id, p, works, first) => OpenedAt(log', id, p, works \/ IsWork(r), first)
    BY <1>1, <1>3, RowAdded
  <2>2. Len(log') = Len(log) + 1
    BY <1>1, <1>3, AppendProperties
  <2>3. PICK p \in 1 .. Len(log) : OpenedAt(log, turn, p, progress, restarts = 0)
    BY <1>1, <1>3
  <2>4. p \in 1 .. Len(log') /\ OpenedAt(log', turn, p, progress \/ IsWork(r), restarts = 0)
    <3>1. p \in 1 .. Len(log')
      BY <1>2, <2>2
    <3>2. QED
      BY <2>1, <2>3, <3>1, Zenon
  <2>5. VerdictTypeOK'
    BY <1>1, <1>3, <2>1 DEF VerdictTypeOK
  <2>6. QED
    BY <1>1, <1>3, <2>1, <2>4, <2>5 DEF VerdictInv
<1>4. ASSUME NEW human \in BOOLEAN, StartTurn(human) PROVE (VerdictInv /\ HumansAsked(log))'
  <2> DEFINE text == IF human THEN Len(log) + 1 ELSE 0
  <2>1. /\ turn = 0 /\ Len(log) + 2 <= MaxLog /\ nextTurn <= MaxTurnId
        /\ nextTurn' = nextTurn + 1 /\ turn' = nextTurn /\ progress' = FALSE /\ restarts' = restarts
        /\ log' = log \o <<User(text), Start(nextTurn, human)>>
        /\ asked' = IF human THEN text ELSE asked
    BY <1>4 DEF StartTurn, TakeId
  <2>2. text \in Texts /\ nextTurn \in 1 .. MaxTurnId
    BY <1>1, <1>2, <2>1 DEF Texts
  <2> HIDE DEF text
  <2>3. AfterStart(log, log', nextTurn, human, text)
    BY <1>1, <2>1, <2>2, StartAdded, Zenon
  <2>4. asked' = AskedOf(log')
    BY <1>1, <2>1, <2>3 DEF AfterStart
  <2>5. \E p \in 1 .. Len(log') : OpenedAt(log', nextTurn, p, FALSE, restarts = 0)
    <3>1. (restarts = 0) => IdsBelow(log, nextTurn)
      BY <1>1
    <3>2. QED
      BY <2>3, <3>1, Zenon DEF AfterStart
  <2>6. \E p \in 1 .. Len(log') : OpenedAt(log', turn', p, progress', restarts' = 0)
    BY <2>1, <2>5, Zenon
  <2>7. restarts' = 0 => IdsBelow(log', nextTurn')
    BY <1>1, <2>1, <2>3, Zenon DEF AfterStart
  <2>8. log' \in Seq(LogRows) /\ HumansAsked(log')
    BY <2>3 DEF AfterStart
  <2>9. VerdictTypeOK'
    <3>1. nextTurn' \in 1 .. MaxTurnId + 1 /\ turn' \in 0 .. nextTurn' - 1 /\ restarts' \in 0 .. MaxRestarts
      BY <1>1, <1>2, <2>1
    <3>2. asked' \in Texts
      BY <1>1, <2>1, <2>2
    <3>3. QED
      BY <2>1, <2>8, <3>1, <3>2 DEF VerdictTypeOK
  <2>10. QED
    BY <2>4, <2>6, <2>7, <2>8, <2>9, Zenon DEF VerdictInv
<1>5. CASE Steer
  <2>1. /\ turn # 0 /\ Len(log) < MaxLog /\ log' = Append(log, User(Len(log) + 1))
        /\ UNCHANGED <<nextTurn, turn, restarts, asked, progress>>
    BY <1>5 DEF Steer
  <2>2. User(Len(log) + 1) \in LogRows
    BY <1>2, <2>1 DEF User, LogRows, Texts
  <2>3. ~IsStart(User(Len(log) + 1)) /\ ~IsWork(User(Len(log) + 1))
    BY DEF IsStart, IsWork, User
  <2>4. progress' = (progress \/ IsWork(User(Len(log) + 1)))
    BY <1>1, <2>1, <2>3
  <2>5. QED
    BY <1>3, <2>1, <2>2, <2>3, <2>4
<1>6. CASE OtherId
  <2>1. /\ nextTurn <= MaxTurnId /\ nextTurn' = nextTurn + 1
        /\ UNCHANGED <<log, turn, restarts, asked, progress>>
    BY <1>6 DEF OtherId, TakeId
  <2>2. VerdictTypeOK'
    BY <1>1, <1>2, <2>1 DEF VerdictTypeOK
  <2>3. IdsBelow(log, nextTurn) => IdsBelow(log', nextTurn')
    <3>1. ASSUME NEW i \in 1 .. Len(log), IsStart(log[i]), log[i].id < nextTurn PROVE log[i].id < nextTurn + 1
      <4>1. log[i].id \in Nat
        <5>1. log[i] \in LogRows /\ log[i].kind = "start"
          BY <1>1, <3>1 DEF IsStart
        <5>2. QED
          BY <5>1 DEF LogRows
      <4>2. QED
        BY <1>1, <3>1, <4>1
    <3>2. QED
      BY <2>1, <3>1 DEF IdsBelow
  <2>4. restarts' = 0 => IdsBelow(log', nextTurn')
    BY <1>1, <2>1, <2>3
  <2>5. turn' # 0 => \E p \in 1 .. Len(log') : OpenedAt(log', turn', p, progress', restarts' = 0)
    BY <1>1, <2>1, Zenon
  <2>6. HumansAsked(log') /\ asked' = AskedOf(log')
    BY <1>1, <2>1, Zenon
  <2>7. QED
    BY <2>2, <2>4, <2>5, <2>6, Zenon DEF VerdictInv
<1>7. ASSUME NEW ok \in BOOLEAN, ToolAnswers(ok) PROVE (VerdictInv /\ HumansAsked(log))'
  <2>1. /\ turn # 0 /\ log' = Append(log, Result(ok, FALSE)) /\ progress' = (progress \/ ok)
        /\ UNCHANGED <<nextTurn, turn, restarts, asked>>
    BY <1>7 DEF ToolAnswers
  <2>2. Result(ok, FALSE) \in LogRows
    BY DEF Result, LogRows
  <2>3. ~IsStart(Result(ok, FALSE)) /\ (IsWork(Result(ok, FALSE)) <=> ok)
    BY DEF IsStart, IsWork, Result
  <2>4. progress' = (progress \/ IsWork(Result(ok, FALSE)))
    <3>1. IsWork(Result(ok, FALSE)) = ok
      BY <2>3 DEF IsWork
    <3>2. QED
      BY <2>1, <3>1, Zenon
  <2>5. QED
    BY <1>3, <2>1, <2>2, <2>3, <2>4
<1>8. CASE PruneResult
  <2>1. turn # 0 /\ UNCHANGED <<nextTurn, turn, restarts, asked, progress>>
    BY <1>8 DEF PruneResult
  <2>2. PICK i \in 1 .. Len(log) : log[i].kind = "result" /\ log' = Append(log, Result(log[i].ok, TRUE))
    BY <1>8 DEF PruneResult
  <2>3. log[i].ok \in BOOLEAN
    BY <1>1, <2>2 DEF LogRows
  <2> DEFINE r == Result(log[i].ok, TRUE)
  <2>4. r \in LogRows
    BY <2>3 DEF Result, LogRows
  <2>5. ~IsStart(r) /\ ~IsWork(r)
    BY DEF IsStart, IsWork, Result
  <2> HIDE DEF r
  <2>6. progress' = (progress \/ IsWork(r))
    BY <1>1, <2>1, <2>5
  <2>7. QED
    BY <1>3, <2>1, <2>2, <2>4, <2>5, <2>6 DEF r
<1>9. CASE EndTurn
  BY <1>1, <1>2, <1>9 DEF EndTurn, VerdictInv, VerdictTypeOK
<1>10. CASE Restart
  BY <1>1, <1>2, <1>10 DEF Restart, VerdictInv, VerdictTypeOK
<1>11. CASE UNCHANGED verdictVars
  BY <1>1, <1>11 DEF verdictVars, VerdictInv, VerdictTypeOK
<1>12. QED
  BY <1>4, <1>5, <1>6, <1>7, <1>8, <1>9, <1>10, <1>11 DEF VerdictNext

(* What the completion check reads is the turn's own, and in the process   *)
(* that opened the log what the person asked last.                         *)
LEMMA VerdictFollows ==
    VerdictInv => VerdictTypeOK /\ ProgressOfThisTurn /\ ObjectiveInOneRun
<1> SUFFICES ASSUME VerdictInv PROVE VerdictTypeOK /\ ProgressOfThisTurn /\ ObjectiveInOneRun
  OBVIOUS
<1>1. VerdictTypeOK /\ log \in Seq(LogRows) /\ asked = AskedOf(log)
  BY DEF VerdictInv, VerdictTypeOK
<1>2. ASSUME turn # 0 PROVE (MadeProgress(log, turn) <=> progress) /\ (restarts = 0 => Objective(log, turn) = asked)
  <2>1. PICK p \in 1 .. Len(log) : OpenedAt(log, turn, p, progress, restarts = 0)
    BY <1>2 DEF VerdictInv
  <2>2. MadeProgress(log, turn) <=> progress
    BY <1>1, <2>1, ProgressFound
  <2>3. ASSUME restarts = 0 PROVE Objective(log, turn) = asked
    <3>1. OpenedAt(log, turn, p, progress, TRUE)
      BY <2>1, <2>3 DEF OpenedAt
    <3>2. QED
      BY <1>1, <3>1, ObjectiveFound
  <2>4. QED
    BY <2>2, <2>3
<1>3. QED
  BY <1>1, <1>2 DEF ProgressOfThisTurn, ObjectiveInOneRun

(* The completion check judges the turn it belongs to: made_progress finds *)
(* what that turn did, and objective, in the process that opened the log,  *)
(* what the person asked last.                                             *)
THEOREM VerdictsBelong == VerdictSpec => [](VerdictTypeOK /\ ProgressOfThisTurn /\ ObjectiveInOneRun)
<1>1. VerdictInit => VerdictInv /\ HumansAsked(log)
  BY VerdictInitially
<1>2. (VerdictInv /\ HumansAsked(log)) /\ [VerdictNext]_verdictVars => (VerdictInv /\ HumansAsked(log))'
  BY VerdictStep
<1>3. VerdictInv /\ HumansAsked(log) => VerdictTypeOK /\ ProgressOfThisTurn /\ ObjectiveInOneRun
  BY VerdictFollows
<1>4. QED
  BY <1>1, <1>2, <1>3, PTL DEF VerdictSpec

(* SessionStats *)
SessionStatsViewIs(f, s, n) == f = [i \in 0 .. n |-> IF i = 0 THEN [k \in StatKinds |-> 0] ELSE StatsApply(f[i - 1], s[i])]

LEMMA SessionStatsIsFolded ==
    ASSUME NEW s, NEW n \in Nat
    PROVE  \E f : SessionStatsViewIs(f, s, n)
<1> DEFINE has == {i \in 0 .. n : \E f : SessionStatsViewIs(f, s, i)}
<1>1. 0 \in has
  <2> DEFINE f == [i \in 0 .. 0 |-> [k \in StatKinds |-> 0]]
  <2>1. f = [i \in 0 .. 0 |-> IF i = 0 THEN [k \in StatKinds |-> 0] ELSE StatsApply(f[i - 1], s[i])]
    OBVIOUS
  <2>2. SessionStatsViewIs(f, s, 0)
    BY <2>1 DEF SessionStatsViewIs
  <2>3. QED
    BY <2>2
<1>2. ASSUME NEW m \in 1 .. n, m - 1 \in has PROVE m \in has
  <2>1. PICK f : SessionStatsViewIs(f, s, m - 1)
    BY <1>2
  <2>2. f = [i \in 0 .. m - 1 |-> IF i = 0 THEN [k \in StatKinds |-> 0] ELSE StatsApply(f[i - 1], s[i])]
    BY <2>1 DEF SessionStatsViewIs
  <2> DEFINE g == [i \in 0 .. m |-> IF i = m THEN StatsApply(f[m - 1], s[m]) ELSE f[i]]
  <2>3. ASSUME NEW i \in 0 .. m PROVE g[i] = IF i = 0 THEN [k \in StatKinds |-> 0] ELSE StatsApply(g[i - 1], s[i])
    <3>1. i # 0 => i - 1 \in 0 .. m - 1 /\ g[i - 1] = f[i - 1]
      OBVIOUS
    <3>2. i # m => f[i] = IF i = 0 THEN [k \in StatKinds |-> 0] ELSE StatsApply(f[i - 1], s[i])
      BY <2>2
    <3>3. QED
      BY <3>1, <3>2
  <2>4. g = [i \in 0 .. m |-> g[i]]
    OBVIOUS
  <2> HIDE DEF g
  <2>5. g = [i \in 0 .. m |-> IF i = 0 THEN [k \in StatKinds |-> 0] ELSE StatsApply(g[i - 1], s[i])]
    BY <2>3, <2>4
  <2>6. QED
    BY <2>5 DEF SessionStatsViewIs
<1>3. QED
  <2>1. 0 .. n \subseteq has
    <3> HIDE DEF has
    <3>1. QED
      BY <1>1, <1>2, UpTo
  <2>2. QED
    BY <2>1

LEMMA SessionStatsViewGrows ==
    ASSUME NEW s, IsSequence(s), NEW row
    PROVE  SessionStats(Append(s, row)) = StatsApply(SessionStats(s), row)
<1> DEFINE n == Len(s)
           t == Append(s, row)
<1>1. /\ n \in Nat /\ Len(t) = n + 1
      /\ \A i \in 1 .. n : t[i] = s[i]
      /\ t[n + 1] = row
  BY LongerSequence
<1> DEFINE f == CHOOSE h : SessionStatsViewIs(h, s, n)
           g == CHOOSE h : SessionStatsViewIs(h, t, n + 1)
<1>2. SessionStats(s) = f[n] /\ SessionStats(t) = g[n + 1]
  BY <1>1 DEF SessionStats, FoldedLog, SessionStatsViewIs
<1>3. SessionStatsViewIs(f, s, n) /\ SessionStatsViewIs(g, t, n + 1)
  BY <1>1, SessionStatsIsFolded
<1> HIDE DEF f, g, t, n
<1>4. /\ f[0] = [k \in StatKinds |-> 0] /\ g[0] = [k \in StatKinds |-> 0]
      /\ \A i \in 1 .. n : f[i] = StatsApply(f[i - 1], s[i])
      /\ \A i \in 1 .. n + 1 : g[i] = StatsApply(g[i - 1], t[i])
  BY <1>1, <1>3 DEF SessionStatsViewIs
<1> DEFINE same == {i \in 0 .. n : f[i] = g[i]}
<1>5. 0 \in same
  BY <1>1, <1>4
<1>6. ASSUME NEW m \in 1 .. n, m - 1 \in same PROVE m \in same
  <2>1. m \in 1 .. n + 1 /\ f[m - 1] = g[m - 1] /\ s[m] = t[m]
    BY <1>1, <1>6
  <2>2. QED
    BY <1>4, <2>1
<1>7. f[n] = g[n]
  <2>1. 0 .. n \subseteq same
    <3> HIDE DEF same
    <3>1. QED
      BY <1>1, <1>5, <1>6, UpTo
  <2>2. QED
    BY <1>1, <2>1
<1>8. g[n + 1] = StatsApply(g[n], t[n + 1])
  <2>1. n + 1 \in 1 .. n + 1 /\ (n + 1) - 1 = n
    BY <1>1
  <2>2. QED
    BY <1>4, <2>1
<1>9. QED
  BY <1>1, <1>2, <1>7, <1>8 DEF t

LEMMA SessionStatsOfNothing == SessionStats(<<>>) = [k \in StatKinds |-> 0]
<1> DEFINE f == CHOOSE h : SessionStatsViewIs(h, <<>>, 0)
<1>1. SessionStats(<<>>) = f[0]
  BY DEF SessionStats, FoldedLog, SessionStatsViewIs
<1>2. SessionStatsViewIs(f, <<>>, 0)
  BY SessionStatsIsFolded
<1>3. QED
  BY <1>1, <1>2 DEF SessionStatsViewIs

(* TurnOutline *)
TurnOutlineViewIs(f, s, n) == f = [i \in 0 .. n |-> IF i = 0 THEN <<>> ELSE OutlineApply(f[i - 1], s[i])]

LEMMA TurnOutlineIsFolded ==
    ASSUME NEW s, NEW n \in Nat
    PROVE  \E f : TurnOutlineViewIs(f, s, n)
<1> DEFINE has == {i \in 0 .. n : \E f : TurnOutlineViewIs(f, s, i)}
<1>1. 0 \in has
  <2> DEFINE f == [i \in 0 .. 0 |-> <<>>]
  <2>1. f = [i \in 0 .. 0 |-> IF i = 0 THEN <<>> ELSE OutlineApply(f[i - 1], s[i])]
    OBVIOUS
  <2>2. TurnOutlineViewIs(f, s, 0)
    BY <2>1 DEF TurnOutlineViewIs
  <2>3. QED
    BY <2>2
<1>2. ASSUME NEW m \in 1 .. n, m - 1 \in has PROVE m \in has
  <2>1. PICK f : TurnOutlineViewIs(f, s, m - 1)
    BY <1>2
  <2>2. f = [i \in 0 .. m - 1 |-> IF i = 0 THEN <<>> ELSE OutlineApply(f[i - 1], s[i])]
    BY <2>1 DEF TurnOutlineViewIs
  <2> DEFINE g == [i \in 0 .. m |-> IF i = m THEN OutlineApply(f[m - 1], s[m]) ELSE f[i]]
  <2>3. ASSUME NEW i \in 0 .. m PROVE g[i] = IF i = 0 THEN <<>> ELSE OutlineApply(g[i - 1], s[i])
    <3>1. i # 0 => i - 1 \in 0 .. m - 1 /\ g[i - 1] = f[i - 1]
      OBVIOUS
    <3>2. i # m => f[i] = IF i = 0 THEN <<>> ELSE OutlineApply(f[i - 1], s[i])
      BY <2>2
    <3>3. QED
      BY <3>1, <3>2
  <2>4. g = [i \in 0 .. m |-> g[i]]
    OBVIOUS
  <2> HIDE DEF g
  <2>5. g = [i \in 0 .. m |-> IF i = 0 THEN <<>> ELSE OutlineApply(g[i - 1], s[i])]
    BY <2>3, <2>4
  <2>6. QED
    BY <2>5 DEF TurnOutlineViewIs
<1>3. QED
  <2>1. 0 .. n \subseteq has
    <3> HIDE DEF has
    <3>1. QED
      BY <1>1, <1>2, UpTo
  <2>2. QED
    BY <2>1

LEMMA TurnOutlineViewGrows ==
    ASSUME NEW s, IsSequence(s), NEW row
    PROVE  TurnOutline(Append(s, row)) = OutlineApply(TurnOutline(s), row)
<1> DEFINE n == Len(s)
           t == Append(s, row)
<1>1. /\ n \in Nat /\ Len(t) = n + 1
      /\ \A i \in 1 .. n : t[i] = s[i]
      /\ t[n + 1] = row
  BY LongerSequence
<1> DEFINE f == CHOOSE h : TurnOutlineViewIs(h, s, n)
           g == CHOOSE h : TurnOutlineViewIs(h, t, n + 1)
<1>2. TurnOutline(s) = f[n] /\ TurnOutline(t) = g[n + 1]
  BY <1>1 DEF TurnOutline, FoldedLog, TurnOutlineViewIs
<1>3. TurnOutlineViewIs(f, s, n) /\ TurnOutlineViewIs(g, t, n + 1)
  BY <1>1, TurnOutlineIsFolded
<1> HIDE DEF f, g, t, n
<1>4. /\ f[0] = <<>> /\ g[0] = <<>>
      /\ \A i \in 1 .. n : f[i] = OutlineApply(f[i - 1], s[i])
      /\ \A i \in 1 .. n + 1 : g[i] = OutlineApply(g[i - 1], t[i])
  BY <1>1, <1>3 DEF TurnOutlineViewIs
<1> DEFINE same == {i \in 0 .. n : f[i] = g[i]}
<1>5. 0 \in same
  BY <1>1, <1>4
<1>6. ASSUME NEW m \in 1 .. n, m - 1 \in same PROVE m \in same
  <2>1. m \in 1 .. n + 1 /\ f[m - 1] = g[m - 1] /\ s[m] = t[m]
    BY <1>1, <1>6
  <2>2. QED
    BY <1>4, <2>1
<1>7. f[n] = g[n]
  <2>1. 0 .. n \subseteq same
    <3> HIDE DEF same
    <3>1. QED
      BY <1>1, <1>5, <1>6, UpTo
  <2>2. QED
    BY <1>1, <2>1
<1>8. g[n + 1] = OutlineApply(g[n], t[n + 1])
  <2>1. n + 1 \in 1 .. n + 1 /\ (n + 1) - 1 = n
    BY <1>1
  <2>2. QED
    BY <1>4, <2>1
<1>9. QED
  BY <1>1, <1>2, <1>7, <1>8 DEF t

LEMMA TurnOutlineOfNothing == TurnOutline(<<>>) = <<>>
<1> DEFINE f == CHOOSE h : TurnOutlineViewIs(h, <<>>, 0)
<1>1. TurnOutline(<<>>) = f[0]
  BY DEF TurnOutline, FoldedLog, TurnOutlineViewIs
<1>2. TurnOutlineViewIs(f, <<>>, 0)
  BY TurnOutlineIsFolded
<1>3. QED
  BY <1>1, <1>2 DEF TurnOutlineViewIs

(* workflow_runs *)
WorkflowRunsViewIs(f, s, n) == f = [i \in 0 .. n |-> IF i = 0 THEN <<>> ELSE RunsApply(f[i - 1], s[i])]

LEMMA WorkflowRunsIsFolded ==
    ASSUME NEW s, NEW n \in Nat
    PROVE  \E f : WorkflowRunsViewIs(f, s, n)
<1> DEFINE has == {i \in 0 .. n : \E f : WorkflowRunsViewIs(f, s, i)}
<1>1. 0 \in has
  <2> DEFINE f == [i \in 0 .. 0 |-> <<>>]
  <2>1. f = [i \in 0 .. 0 |-> IF i = 0 THEN <<>> ELSE RunsApply(f[i - 1], s[i])]
    OBVIOUS
  <2>2. WorkflowRunsViewIs(f, s, 0)
    BY <2>1 DEF WorkflowRunsViewIs
  <2>3. QED
    BY <2>2
<1>2. ASSUME NEW m \in 1 .. n, m - 1 \in has PROVE m \in has
  <2>1. PICK f : WorkflowRunsViewIs(f, s, m - 1)
    BY <1>2
  <2>2. f = [i \in 0 .. m - 1 |-> IF i = 0 THEN <<>> ELSE RunsApply(f[i - 1], s[i])]
    BY <2>1 DEF WorkflowRunsViewIs
  <2> DEFINE g == [i \in 0 .. m |-> IF i = m THEN RunsApply(f[m - 1], s[m]) ELSE f[i]]
  <2>3. ASSUME NEW i \in 0 .. m PROVE g[i] = IF i = 0 THEN <<>> ELSE RunsApply(g[i - 1], s[i])
    <3>1. i # 0 => i - 1 \in 0 .. m - 1 /\ g[i - 1] = f[i - 1]
      OBVIOUS
    <3>2. i # m => f[i] = IF i = 0 THEN <<>> ELSE RunsApply(f[i - 1], s[i])
      BY <2>2
    <3>3. QED
      BY <3>1, <3>2
  <2>4. g = [i \in 0 .. m |-> g[i]]
    OBVIOUS
  <2> HIDE DEF g
  <2>5. g = [i \in 0 .. m |-> IF i = 0 THEN <<>> ELSE RunsApply(g[i - 1], s[i])]
    BY <2>3, <2>4
  <2>6. QED
    BY <2>5 DEF WorkflowRunsViewIs
<1>3. QED
  <2>1. 0 .. n \subseteq has
    <3> HIDE DEF has
    <3>1. QED
      BY <1>1, <1>2, UpTo
  <2>2. QED
    BY <2>1

LEMMA WorkflowRunsViewGrows ==
    ASSUME NEW s, IsSequence(s), NEW row
    PROVE  WorkflowRuns(Append(s, row)) = RunsApply(WorkflowRuns(s), row)
<1> DEFINE n == Len(s)
           t == Append(s, row)
<1>1. /\ n \in Nat /\ Len(t) = n + 1
      /\ \A i \in 1 .. n : t[i] = s[i]
      /\ t[n + 1] = row
  BY LongerSequence
<1> DEFINE f == CHOOSE h : WorkflowRunsViewIs(h, s, n)
           g == CHOOSE h : WorkflowRunsViewIs(h, t, n + 1)
<1>2. WorkflowRuns(s) = f[n] /\ WorkflowRuns(t) = g[n + 1]
  BY <1>1 DEF WorkflowRuns, FoldedLog, WorkflowRunsViewIs
<1>3. WorkflowRunsViewIs(f, s, n) /\ WorkflowRunsViewIs(g, t, n + 1)
  BY <1>1, WorkflowRunsIsFolded
<1> HIDE DEF f, g, t, n
<1>4. /\ f[0] = <<>> /\ g[0] = <<>>
      /\ \A i \in 1 .. n : f[i] = RunsApply(f[i - 1], s[i])
      /\ \A i \in 1 .. n + 1 : g[i] = RunsApply(g[i - 1], t[i])
  BY <1>1, <1>3 DEF WorkflowRunsViewIs
<1> DEFINE same == {i \in 0 .. n : f[i] = g[i]}
<1>5. 0 \in same
  BY <1>1, <1>4
<1>6. ASSUME NEW m \in 1 .. n, m - 1 \in same PROVE m \in same
  <2>1. m \in 1 .. n + 1 /\ f[m - 1] = g[m - 1] /\ s[m] = t[m]
    BY <1>1, <1>6
  <2>2. QED
    BY <1>4, <2>1
<1>7. f[n] = g[n]
  <2>1. 0 .. n \subseteq same
    <3> HIDE DEF same
    <3>1. QED
      BY <1>1, <1>5, <1>6, UpTo
  <2>2. QED
    BY <1>1, <2>1
<1>8. g[n + 1] = RunsApply(g[n], t[n + 1])
  <2>1. n + 1 \in 1 .. n + 1 /\ (n + 1) - 1 = n
    BY <1>1
  <2>2. QED
    BY <1>4, <2>1
<1>9. QED
  BY <1>1, <1>2, <1>7, <1>8 DEF t

LEMMA WorkflowRunsOfNothing == WorkflowRuns(<<>>) = <<>>
<1> DEFINE f == CHOOSE h : WorkflowRunsViewIs(h, <<>>, 0)
<1>1. WorkflowRuns(<<>>) = f[0]
  BY DEF WorkflowRuns, FoldedLog, WorkflowRunsViewIs
<1>2. WorkflowRunsViewIs(f, <<>>, 0)
  BY WorkflowRunsIsFolded
<1>3. QED
  BY <1>1, <1>2 DEF WorkflowRunsViewIs

(* feedback *)
FeedbackViewIs(f, s, n) == f = [i \in 0 .. n |-> IF i = 0 THEN <<>> ELSE FeedbackApply(f[i - 1], s[i])]

LEMMA FeedbackIsFolded ==
    ASSUME NEW s, NEW n \in Nat
    PROVE  \E f : FeedbackViewIs(f, s, n)
<1> DEFINE has == {i \in 0 .. n : \E f : FeedbackViewIs(f, s, i)}
<1>1. 0 \in has
  <2> DEFINE f == [i \in 0 .. 0 |-> <<>>]
  <2>1. f = [i \in 0 .. 0 |-> IF i = 0 THEN <<>> ELSE FeedbackApply(f[i - 1], s[i])]
    OBVIOUS
  <2>2. FeedbackViewIs(f, s, 0)
    BY <2>1 DEF FeedbackViewIs
  <2>3. QED
    BY <2>2
<1>2. ASSUME NEW m \in 1 .. n, m - 1 \in has PROVE m \in has
  <2>1. PICK f : FeedbackViewIs(f, s, m - 1)
    BY <1>2
  <2>2. f = [i \in 0 .. m - 1 |-> IF i = 0 THEN <<>> ELSE FeedbackApply(f[i - 1], s[i])]
    BY <2>1 DEF FeedbackViewIs
  <2> DEFINE g == [i \in 0 .. m |-> IF i = m THEN FeedbackApply(f[m - 1], s[m]) ELSE f[i]]
  <2>3. ASSUME NEW i \in 0 .. m PROVE g[i] = IF i = 0 THEN <<>> ELSE FeedbackApply(g[i - 1], s[i])
    <3>1. i # 0 => i - 1 \in 0 .. m - 1 /\ g[i - 1] = f[i - 1]
      OBVIOUS
    <3>2. i # m => f[i] = IF i = 0 THEN <<>> ELSE FeedbackApply(f[i - 1], s[i])
      BY <2>2
    <3>3. QED
      BY <3>1, <3>2
  <2>4. g = [i \in 0 .. m |-> g[i]]
    OBVIOUS
  <2> HIDE DEF g
  <2>5. g = [i \in 0 .. m |-> IF i = 0 THEN <<>> ELSE FeedbackApply(g[i - 1], s[i])]
    BY <2>3, <2>4
  <2>6. QED
    BY <2>5 DEF FeedbackViewIs
<1>3. QED
  <2>1. 0 .. n \subseteq has
    <3> HIDE DEF has
    <3>1. QED
      BY <1>1, <1>2, UpTo
  <2>2. QED
    BY <2>1

LEMMA FeedbackViewGrows ==
    ASSUME NEW s, IsSequence(s), NEW row
    PROVE  Feedback(Append(s, row)) = FeedbackApply(Feedback(s), row)
<1> DEFINE n == Len(s)
           t == Append(s, row)
<1>1. /\ n \in Nat /\ Len(t) = n + 1
      /\ \A i \in 1 .. n : t[i] = s[i]
      /\ t[n + 1] = row
  BY LongerSequence
<1> DEFINE f == CHOOSE h : FeedbackViewIs(h, s, n)
           g == CHOOSE h : FeedbackViewIs(h, t, n + 1)
<1>2. Feedback(s) = f[n] /\ Feedback(t) = g[n + 1]
  BY <1>1 DEF Feedback, FoldedLog, FeedbackViewIs
<1>3. FeedbackViewIs(f, s, n) /\ FeedbackViewIs(g, t, n + 1)
  BY <1>1, FeedbackIsFolded
<1> HIDE DEF f, g, t, n
<1>4. /\ f[0] = <<>> /\ g[0] = <<>>
      /\ \A i \in 1 .. n : f[i] = FeedbackApply(f[i - 1], s[i])
      /\ \A i \in 1 .. n + 1 : g[i] = FeedbackApply(g[i - 1], t[i])
  BY <1>1, <1>3 DEF FeedbackViewIs
<1> DEFINE same == {i \in 0 .. n : f[i] = g[i]}
<1>5. 0 \in same
  BY <1>1, <1>4
<1>6. ASSUME NEW m \in 1 .. n, m - 1 \in same PROVE m \in same
  <2>1. m \in 1 .. n + 1 /\ f[m - 1] = g[m - 1] /\ s[m] = t[m]
    BY <1>1, <1>6
  <2>2. QED
    BY <1>4, <2>1
<1>7. f[n] = g[n]
  <2>1. 0 .. n \subseteq same
    <3> HIDE DEF same
    <3>1. QED
      BY <1>1, <1>5, <1>6, UpTo
  <2>2. QED
    BY <1>1, <2>1
<1>8. g[n + 1] = FeedbackApply(g[n], t[n + 1])
  <2>1. n + 1 \in 1 .. n + 1 /\ (n + 1) - 1 = n
    BY <1>1
  <2>2. QED
    BY <1>4, <2>1
<1>9. QED
  BY <1>1, <1>2, <1>7, <1>8 DEF t

LEMMA FeedbackOfNothing == Feedback(<<>>) = <<>>
<1> DEFINE f == CHOOSE h : FeedbackViewIs(h, <<>>, 0)
<1>1. Feedback(<<>>) = f[0]
  BY DEF Feedback, FoldedLog, FeedbackViewIs
<1>2. FeedbackViewIs(f, <<>>, 0)
  BY FeedbackIsFolded
<1>3. QED
  BY <1>1, <1>2 DEF FeedbackViewIs

(* calls *)
CallsInViewIs(f, s, n) == f = [i \in 0 .. n |-> IF i = 0 THEN 0 ELSE AddCalls(f[i - 1], s[i])]

LEMMA CallsInIsFolded ==
    ASSUME NEW s, NEW n \in Nat
    PROVE  \E f : CallsInViewIs(f, s, n)
<1> DEFINE has == {i \in 0 .. n : \E f : CallsInViewIs(f, s, i)}
<1>1. 0 \in has
  <2> DEFINE f == [i \in 0 .. 0 |-> 0]
  <2>1. f = [i \in 0 .. 0 |-> IF i = 0 THEN 0 ELSE AddCalls(f[i - 1], s[i])]
    OBVIOUS
  <2>2. CallsInViewIs(f, s, 0)
    BY <2>1 DEF CallsInViewIs
  <2>3. QED
    BY <2>2
<1>2. ASSUME NEW m \in 1 .. n, m - 1 \in has PROVE m \in has
  <2>1. PICK f : CallsInViewIs(f, s, m - 1)
    BY <1>2
  <2>2. f = [i \in 0 .. m - 1 |-> IF i = 0 THEN 0 ELSE AddCalls(f[i - 1], s[i])]
    BY <2>1 DEF CallsInViewIs
  <2> DEFINE g == [i \in 0 .. m |-> IF i = m THEN AddCalls(f[m - 1], s[m]) ELSE f[i]]
  <2>3. ASSUME NEW i \in 0 .. m PROVE g[i] = IF i = 0 THEN 0 ELSE AddCalls(g[i - 1], s[i])
    <3>1. i # 0 => i - 1 \in 0 .. m - 1 /\ g[i - 1] = f[i - 1]
      OBVIOUS
    <3>2. i # m => f[i] = IF i = 0 THEN 0 ELSE AddCalls(f[i - 1], s[i])
      BY <2>2
    <3>3. QED
      BY <3>1, <3>2
  <2>4. g = [i \in 0 .. m |-> g[i]]
    OBVIOUS
  <2> HIDE DEF g
  <2>5. g = [i \in 0 .. m |-> IF i = 0 THEN 0 ELSE AddCalls(g[i - 1], s[i])]
    BY <2>3, <2>4
  <2>6. QED
    BY <2>5 DEF CallsInViewIs
<1>3. QED
  <2>1. 0 .. n \subseteq has
    <3> HIDE DEF has
    <3>1. QED
      BY <1>1, <1>2, UpTo
  <2>2. QED
    BY <2>1

LEMMA CallsInViewGrows ==
    ASSUME NEW s, IsSequence(s), NEW row
    PROVE  CallsIn(Append(s, row)) = AddCalls(CallsIn(s), row)
<1> DEFINE n == Len(s)
           t == Append(s, row)
<1>1. /\ n \in Nat /\ Len(t) = n + 1
      /\ \A i \in 1 .. n : t[i] = s[i]
      /\ t[n + 1] = row
  BY LongerSequence
<1> DEFINE f == CHOOSE h : CallsInViewIs(h, s, n)
           g == CHOOSE h : CallsInViewIs(h, t, n + 1)
<1>2. CallsIn(s) = f[n] /\ CallsIn(t) = g[n + 1]
  BY <1>1 DEF CallsIn, FoldedLog, CallsInViewIs
<1>3. CallsInViewIs(f, s, n) /\ CallsInViewIs(g, t, n + 1)
  BY <1>1, CallsInIsFolded
<1> HIDE DEF f, g, t, n
<1>4. /\ f[0] = 0 /\ g[0] = 0
      /\ \A i \in 1 .. n : f[i] = AddCalls(f[i - 1], s[i])
      /\ \A i \in 1 .. n + 1 : g[i] = AddCalls(g[i - 1], t[i])
  BY <1>1, <1>3 DEF CallsInViewIs
<1> DEFINE same == {i \in 0 .. n : f[i] = g[i]}
<1>5. 0 \in same
  BY <1>1, <1>4
<1>6. ASSUME NEW m \in 1 .. n, m - 1 \in same PROVE m \in same
  <2>1. m \in 1 .. n + 1 /\ f[m - 1] = g[m - 1] /\ s[m] = t[m]
    BY <1>1, <1>6
  <2>2. QED
    BY <1>4, <2>1
<1>7. f[n] = g[n]
  <2>1. 0 .. n \subseteq same
    <3> HIDE DEF same
    <3>1. QED
      BY <1>1, <1>5, <1>6, UpTo
  <2>2. QED
    BY <1>1, <2>1
<1>8. g[n + 1] = AddCalls(g[n], t[n + 1])
  <2>1. n + 1 \in 1 .. n + 1 /\ (n + 1) - 1 = n
    BY <1>1
  <2>2. QED
    BY <1>4, <2>1
<1>9. QED
  BY <1>1, <1>2, <1>7, <1>8 DEF t

LEMMA CallsInOfNothing == CallsIn(<<>>) = 0
<1> DEFINE f == CHOOSE h : CallsInViewIs(h, <<>>, 0)
<1>1. CallsIn(<<>>) = f[0]
  BY DEF CallsIn, FoldedLog, CallsInViewIs
<1>2. CallsInViewIs(f, <<>>, 0)
  BY CallsInIsFolded
<1>3. QED
  BY <1>1, <1>2 DEF CallsInViewIs

-----------------------------------------------------------------------------
(* The least and the greatest of some places, or 0.                        *)

LEMMA FirstIs ==
    ASSUME NEW S, S \subseteq Nat \ {0}
    PROVE  (S = {} => First(S) = 0) /\ (S # {} => First(S) \in S /\ First(S) # 0)
<1>1. ASSUME S # {} PROVE First(S) \in S
  <2>1. \E x \in S : \A y \in S : x <= y
    BY <1>1, LeastOf
  <2>2. Min(S) \in S
    BY <2>1 DEF Min
  <2>3. QED
    BY <1>1, <2>2 DEF First
<1>2. QED
  BY <1>1 DEF First

LEMMA NewestIs ==
    ASSUME NEW n \in Nat, NEW S, S \subseteq 1 .. n
    PROVE  /\ S = {} => Newest(S) = 0
           /\ S # {} => Newest(S) \in S /\ Newest(S) # 0 /\ \A y \in S : y <= Newest(S)
<1>1. ASSUME S # {} PROVE Newest(S) \in S /\ \A y \in S : y <= Newest(S)
  <2>1. \E x \in S : \A y \in S : x >= y
    <3>1. PICK x \in S : \A y \in S : y <= x
      BY <1>1, LastOf
    <3>2. \A y \in S : x \in Int /\ y \in Int
      OBVIOUS
    <3>3. QED
      BY <3>1, <3>2
  <2>2. Max(S) \in S /\ \A y \in S : Max(S) >= y
    BY <2>1 DEF Max
  <2>3. \A y \in S : y \in Int /\ Max(S) \in Int
    <3>1. \A y \in S : y \in 1 .. n
      OBVIOUS
    <3>2. Max(S) \in 1 .. n
      BY <2>2, <3>1
    <3>3. QED
      BY <3>1, <3>2
  <2>4. QED
    BY <1>1, <2>2, <2>3 DEF Newest
<1>2. QED
  BY <1>1 DEF Newest

-----------------------------------------------------------------------------
(* The calls of the rows of an outline.                                    *)

(* With the same calls before its last row, and so many more in that one.  *)
CallsMore(o, p, n, d) ==
    /\ n \in Nat /\ n > 0 /\ IsSequence(o) /\ IsSequence(p) /\ Len(o) = n /\ Len(p) = n
    /\ \A k \in 1 .. n : o[k].calls \in Nat
    /\ \A k \in 1 .. n - 1 : p[k].calls = o[k].calls
    /\ p[n].calls = o[n].calls + d

LEMMA CallsInChanged ==
    ASSUME NEW o, NEW p, NEW n, NEW d \in Nat, CallsMore(o, p, n, d)
    PROVE  CallsIn(o) \in Nat /\ CallsIn(p) = CallsIn(o) + d
<1>0. /\ n \in Nat /\ n > 0 /\ IsSequence(o) /\ IsSequence(p) /\ Len(o) = n /\ Len(p) = n
      /\ \A k \in 1 .. n : o[k].calls \in Nat
      /\ \A k \in 1 .. n - 1 : p[k].calls = o[k].calls
      /\ p[n].calls = o[n].calls + d
  BY DEF CallsMore
<1> DEFINE f == CHOOSE h : CallsInViewIs(h, o, n)
           g == CHOOSE h : CallsInViewIs(h, p, n)
<1>1. CallsIn(o) = f[n] /\ CallsIn(p) = g[n]
  BY <1>0 DEF CallsIn, FoldedLog, CallsInViewIs
<1>2. CallsInViewIs(f, o, n) /\ CallsInViewIs(g, p, n)
  BY <1>0, CallsInIsFolded
<1> HIDE DEF f, g
<1>3. /\ f[0] = 0 /\ g[0] = 0
      /\ \A i \in 1 .. n : f[i] = f[i - 1] + o[i].calls /\ g[i] = g[i - 1] + p[i].calls
  BY <1>0, <1>2 DEF CallsInViewIs, AddCalls
<1> DEFINE same == {i \in 0 .. n - 1 : f[i] \in Nat /\ f[i] = g[i]}
<1>4. 0 \in same
  BY <1>0, <1>3
<1>5. ASSUME NEW m \in 1 .. n - 1, m - 1 \in same PROVE m \in same
  <2>1. m \in 1 .. n /\ f[m - 1] \in Nat /\ f[m - 1] = g[m - 1] /\ o[m].calls \in Nat /\ p[m].calls = o[m].calls
    BY <1>0, <1>5
  <2>2. f[m] = f[m - 1] + o[m].calls /\ g[m] = g[m - 1] + p[m].calls
    BY <1>3, <2>1
  <2>3. QED
    BY <2>1, <2>2
<1>6. f[n - 1] \in Nat /\ f[n - 1] = g[n - 1]
  <2>1. 0 .. n - 1 \subseteq same
    <3> HIDE DEF same
    <3>1. n - 1 \in Nat
      BY <1>0
    <3>2. QED
      BY <1>4, <1>5, <3>1, UpTo
  <2>2. QED
    BY <1>0, <2>1
<1>7. f[n] = f[n - 1] + o[n].calls /\ g[n] = g[n - 1] + p[n].calls /\ o[n].calls \in Nat
  BY <1>0, <1>3
<1>8. QED
  BY <1>0, <1>1, <1>6, <1>7

LEMMA CallsInNat ==
    ASSUME NEW o, IsSequence(o), \A k \in 1 .. Len(o) : o[k].calls \in Nat
    PROVE  CallsIn(o) \in Nat
<1>1. CASE Len(o) = 0
  <2>1. o = <<>>
    BY <1>1 DEF IsSequence
  <2>2. QED
    BY <2>1, CallsInOfNothing
<1>2. CASE Len(o) # 0
  <2>1. Len(o) \in Nat /\ Len(o) > 0 /\ \A k \in 1 .. Len(o) : o[k].calls = o[k].calls + 0
    BY <1>2, SequenceLength
  <2>2. CallsMore(o, o, Len(o), 0)
    BY <2>1 DEF CallsMore
  <2>3. QED
    BY <2>2, CallsInChanged
<1>3. QED
  BY <1>1, <1>2

-----------------------------------------------------------------------------
(* The outline and the counters, row by row.                               *)

OutlineRowIs(x) == x = [id |-> x.id, line |-> x.line, calls |-> x.calls, why |-> x.why] /\ x.calls \in Nat
TurnIs(x) == x = [prompt |-> x.prompt, calls |-> x.calls, why |-> x.why]

(* The rows of the outline o are the turns tm, the last that of turn now.  *)
OutlineFits(o, tm, now) ==
    /\ IsSequence(o) /\ IsSequence(tm) /\ Len(o) = Len(tm)
    /\ \A k \in 1 .. Len(o) :
          OutlineRowIs(o[k]) /\ TurnIs(tm[k]) /\ o[k].calls = tm[k].calls /\ o[k].why = tm[k].why
    /\ now # 0 => Len(o) > 0 /\ o[Len(o)].id = now

(* The counters agree with it; h calls have no result yet. *)
StatsFit(s, o, h) ==
    /\ s \in [StatKinds -> Nat] /\ h \in {0, 1}
    /\ s["turnStart"] = Len(o) /\ s["toolCall"] = CallsIn(o)
    /\ s["toolResult"] + h <= s["toolCall"]

Books(l, tm, now, h) ==
    /\ IsSequence(l) /\ OutlineFits(TurnOutline(l), tm, now)
    /\ StatsFit(SessionStats(l), TurnOutline(l), h)

(* No turn runs any more. *)
LEMMA BooksClose == ASSUME NEW l, NEW tm, NEW now, NEW h, Books(l, tm, now, h) PROVE Books(l, tm, 0, 0)
<1> DEFINE s == SessionStats(l)
           o == TurnOutline(l)
<1>1. IsSequence(l) /\ OutlineFits(o, tm, now) /\ StatsFit(s, o, h)
  BY DEF Books
<1> HIDE DEF s, o
<1>2. OutlineFits(o, tm, 0)
  BY <1>1 DEF OutlineFits
<1>3. s["toolResult"] \in Nat /\ s["toolCall"] \in Nat
  BY <1>1 DEF StatsFit, StatKinds
<1>4. s["toolResult"] + 0 <= s["toolCall"]
  BY <1>1, <1>3 DEF StatsFit
<1>5. StatsFit(s, o, 0)
  BY <1>1, <1>4 DEF StatsFit
<1>6. QED
  BY <1>1, <1>2, <1>5 DEF Books, s, o

(* The views of a log with one more row. *)
LEMMA BooksRow ==
    ASSUME NEW l, IsSequence(l), NEW row, NEW tm, NEW now, NEW h,
           OutlineFits(OutlineApply(TurnOutline(l), row), tm, now),
           StatsFit(StatsApply(SessionStats(l), row), OutlineApply(TurnOutline(l), row), h)
    PROVE  Books(Append(l, row), tm, now, h)
<1>1. TurnOutline(Append(l, row)) = OutlineApply(TurnOutline(l), row)
  BY TurnOutlineViewGrows
<1>2. SessionStats(Append(l, row)) = StatsApply(SessionStats(l), row)
  BY SessionStatsViewGrows
<1>3. IsSequence(Append(l, row))
  BY LongerSequence
<1>4. QED
  BY <1>1, <1>2, <1>3 DEF Books

(* A turn starts. *)
LEMMA BooksStart ==
    ASSUME NEW l, NEW tm, Books(l, tm, 0, 0), NEW id \in Nat \ {0}, NEW n
    PROVE  Books(Append(l, TurnStart(id)), Append(tm, [prompt |-> n, calls |-> 0, why |-> ""]), id, 0)
<1> DEFINE s == SessionStats(l)
           o == TurnOutline(l)
           x == [id |-> id, line |-> 0, calls |-> 0, why |-> ""]
           y == [prompt |-> n, calls |-> 0, why |-> ""]
           p == Append(o, x)
           um == Append(tm, y)
           t == [s EXCEPT !["turnStart"] = @ + 1]
<1>1. IsSequence(l) /\ OutlineFits(o, tm, 0) /\ StatsFit(s, o, 0)
  BY DEF Books
<1>2. OutlineApply(o, TurnStart(id)) = p /\ StatsApply(s, TurnStart(id)) = t
  BY DEF OutlineApply, StatsApply, StatKinds, TurnStart
<1> HIDE DEF s, o
<1>3. /\ IsSequence(o) /\ IsSequence(tm) /\ Len(o) = Len(tm) /\ Len(o) \in Nat
      /\ \A k \in 1 .. Len(o) :
            OutlineRowIs(o[k]) /\ TurnIs(tm[k]) /\ o[k].calls = tm[k].calls /\ o[k].why = tm[k].why
  BY <1>1, SequenceLength DEF OutlineFits
<1>4. OutlineRowIs(x) /\ TurnIs(y) /\ x.calls = y.calls /\ x.why = y.why /\ x.id = id /\ x.calls = 0
  BY DEF OutlineRowIs, TurnIs
<1> HIDE DEF x, y
<1>5. /\ IsSequence(p) /\ Len(p) = Len(o) + 1
      /\ \A k \in 1 .. Len(o) : p[k] = o[k]
      /\ p[Len(o) + 1] = x
  BY <1>3, LongerSequence
<1>6. /\ IsSequence(um) /\ Len(um) = Len(tm) + 1
      /\ \A k \in 1 .. Len(tm) : um[k] = tm[k]
      /\ um[Len(tm) + 1] = y
  BY <1>3, LongerSequence
<1>7. CallsIn(p) = AddCalls(CallsIn(o), x)
  BY <1>3, CallsInViewGrows
<1>8. CallsIn(p) = CallsIn(o)
  <2>1. CallsIn(o) \in Nat
    BY <1>3, CallsInNat DEF OutlineRowIs
  <2>2. QED
    BY <1>4, <1>7, <2>1 DEF AddCalls
<1> HIDE DEF p, um
<1>9. OutlineFits(p, um, id)
  <2>1. ASSUME NEW k \in 1 .. Len(p)
        PROVE  OutlineRowIs(p[k]) /\ TurnIs(um[k]) /\ p[k].calls = um[k].calls /\ p[k].why = um[k].why
    <3>1. k \in 1 .. Len(o) \/ k = Len(o) + 1
      BY <1>3, <1>5
    <3>2. QED
      BY <1>3, <1>4, <1>5, <1>6, <3>1
  <2>2. Len(p) = Len(um) /\ Len(p) > 0
    BY <1>3, <1>5, <1>6
  <2>3. QED
    BY <1>3, <1>4, <1>5, <1>6, <2>1, <2>2 DEF OutlineFits
<1>10. StatsFit(t, p, 0)
  <2>1. /\ s \in [StatKinds -> Nat] /\ s["turnStart"] = Len(o) /\ s["toolCall"] = CallsIn(o)
        /\ s["toolResult"] + 0 <= s["toolCall"]
    BY <1>1 DEF StatsFit
  <2>2. /\ t \in [StatKinds -> Nat] /\ t["turnStart"] = Len(o) + 1 /\ t["toolCall"] = s["toolCall"]
        /\ t["toolResult"] = s["toolResult"]
    BY <2>1 DEF StatKinds
  <2>3. QED
    BY <1>5, <1>8, <2>1, <2>2 DEF StatsFit
<1>11. QED
  BY <1>1, <1>2, <1>9, <1>10, BooksRow DEF s, o, um, y

(* A row that is no turn's, no call and no result. *)
LEMMA BooksNote ==
    ASSUME NEW l, NEW tm, NEW now, NEW h, Books(l, tm, now, h),
           NEW row, row.kind \in {"prompt", "retry", "reply", "rating", "edge"}
    PROVE  Books(Append(l, row), tm, now, h)
<1> DEFINE s == SessionStats(l)
           o == TurnOutline(l)
           p == OutlineApply(o, row)
           t == StatsApply(s, row)
           n == Len(o)
<1>1. IsSequence(l) /\ OutlineFits(o, tm, now) /\ StatsFit(s, o, h)
  BY DEF Books
<1>2. p = IF row.kind = "prompt" /\ n > 0 THEN [o EXCEPT ![n].line = IF @ = 0 THEN row.text ELSE @] ELSE o
  BY DEF OutlineApply
<1>3. t = IF row.kind \in StatKinds THEN [s EXCEPT ![row.kind] = @ + 1] ELSE s
  BY DEF StatsApply
<1> HIDE DEF s, o, p, t
<1>4. /\ IsSequence(o) /\ IsSequence(tm) /\ n = Len(tm) /\ n \in Nat /\ DOMAIN o = 1 .. n
      /\ \A k \in 1 .. n :
            OutlineRowIs(o[k]) /\ TurnIs(tm[k]) /\ o[k].calls = tm[k].calls /\ o[k].why = tm[k].why
      /\ now # 0 => n > 0 /\ o[n].id = now
  BY <1>1, SequenceLength DEF OutlineFits
<1>5. /\ IsSequence(p) /\ Len(p) = n
      /\ \A k \in 1 .. n : OutlineRowIs(p[k]) /\ p[k].calls = o[k].calls /\ p[k].why = o[k].why /\ p[k].id = o[k].id
  <2>1. CASE row.kind = "prompt" /\ n > 0
    <3> DEFINE z == IF o[n].line = 0 THEN row.text ELSE o[n].line
               x == [o[n] EXCEPT !.line = z]
    <3>1. p = [o EXCEPT ![n] = x]
      BY <1>2, <2>1
    <3> HIDE DEF z
    <3>2. OutlineRowIs(o[n])
      BY <1>4, <2>1
    <3>3. x = [id |-> o[n].id, line |-> z, calls |-> o[n].calls, why |-> o[n].why] /\ o[n].calls \in Nat
      BY <3>2 DEF OutlineRowIs
    <3> HIDE DEF x
    <3>4. OutlineRowIs(x) /\ x.calls = o[n].calls /\ x.why = o[n].why /\ x.id = o[n].id
      BY <3>3 DEF OutlineRowIs
    <3>5. IsSequence(p) /\ Len(p) = n /\ \A k \in 1 .. n : p[k] = IF k = n THEN x ELSE o[k]
      <4>1. IsSequence(o) /\ n = Len(o) /\ n \in 1 .. Len(o)
        BY <1>4, <2>1
      <4>2. ReplacedBy([o EXCEPT ![n] = x], o, n, x)
        BY <4>1, ReplacedSequence
      <4>3. ReplacedBy(p, o, n, x)
        BY <3>1, <4>2
      <4> HIDE DEF n
      <4>4. QED
        BY <4>1, <4>3 DEF ReplacedBy
    <3>6. QED
      BY <1>4, <3>4, <3>5
  <2>2. CASE ~(row.kind = "prompt" /\ n > 0)
    <3>1. p = o
      BY <1>2, <2>2
    <3>2. QED
      BY <1>4, <3>1
  <2>3. QED
    BY <2>1, <2>2
<1>6. OutlineFits(p, tm, now)
  BY <1>4, <1>5 DEF OutlineFits
<1>7. CallsIn(p) = CallsIn(o)
  <2>1. CASE n = 0
    <3>1. o = <<>> /\ p = <<>>
      BY <1>4, <1>5, <2>1 DEF IsSequence
    <3>2. QED
      BY <3>1
  <2>2. CASE n # 0
    <3>1. n > 0 /\ n = Len(o) /\ n \in 1 .. n /\ \A k \in 1 .. n - 1 : k \in 1 .. n
      BY <1>4, <2>2
    <3>2. \A k \in 1 .. n : o[k].calls \in Nat
      BY <1>4 DEF OutlineRowIs
    <3>3. \A k \in 1 .. n - 1 : p[k].calls = o[k].calls
      BY <1>5, <3>1
    <3>4. p[n].calls = o[n].calls + 0
      BY <1>5, <3>1, <3>2
    <3> HIDE DEF n
    <3>5. CallsIn(o) \in Nat /\ CallsIn(p) = CallsIn(o) + 0
      <4>1. CallsMore(o, p, n, 0)
        BY <1>4, <1>5, <3>1, <3>2, <3>3, <3>4 DEF CallsMore
      <4>2. QED
        BY <4>1, CallsInChanged
    <3>6. QED
      BY <3>5
  <2>3. QED
    BY <2>1, <2>2
<1>8. StatsFit(t, p, h)
  <2>1. /\ s \in [StatKinds -> Nat] /\ s["turnStart"] = n /\ s["toolCall"] = CallsIn(o)
        /\ s["toolResult"] + h <= s["toolCall"] /\ h \in {0, 1}
    BY <1>1 DEF StatsFit
  <2>2. /\ t \in [StatKinds -> Nat] /\ t["turnStart"] = s["turnStart"] /\ t["toolCall"] = s["toolCall"]
        /\ t["toolResult"] = s["toolResult"]
    BY <1>3, <2>1 DEF StatKinds
  <2>3. QED
    BY <1>5, <1>7, <2>1, <2>2 DEF StatsFit
<1>9. QED
  BY <1>1, <1>6, <1>8, BooksRow DEF s, o, p, t

(* A call of the turn that runs. *)
LEMMA BooksCall ==
    ASSUME NEW l, NEW tm, NEW now, now # 0, Books(l, tm, now, 0)
    PROVE  Books(Append(l, CallRow), [tm EXCEPT ![Len(tm)].calls = @ + 1], now, 1)
<1> DEFINE s == SessionStats(l)
           o == TurnOutline(l)
           n == Len(o)
           x == [o[n] EXCEPT !.calls = @ + 1]
           y == [tm[n] EXCEPT !.calls = @ + 1]
           p == [o EXCEPT ![n] = x]
           um == [tm EXCEPT ![n] = y]
           t == [s EXCEPT !["toolCall"] = @ + 1]
<1>1. IsSequence(l) /\ OutlineFits(o, tm, now) /\ StatsFit(s, o, 0)
  BY DEF Books
<1>2. /\ IsSequence(o) /\ IsSequence(tm) /\ n = Len(tm) /\ n \in Nat /\ n > 0
      /\ \A k \in 1 .. n :
            OutlineRowIs(o[k]) /\ TurnIs(tm[k]) /\ o[k].calls = tm[k].calls /\ o[k].why = tm[k].why
      /\ o[n].id = now
  BY <1>1, SequenceLength DEF OutlineFits
<1>3. OutlineApply(o, CallRow) = p
  <2>1. OutlineApply(o, CallRow) = [o EXCEPT ![n].calls = @ + 1]
    BY <1>2 DEF OutlineApply, CallRow
  <2>2. QED
    BY <2>1
<1>4. StatsApply(s, CallRow) = t
  BY DEF StatsApply, StatKinds, CallRow
<1>5. [tm EXCEPT ![Len(tm)].calls = @ + 1] = um
  BY <1>2
<1> HIDE DEF s, o
<1>6. OutlineRowIs(o[n]) /\ TurnIs(tm[n]) /\ o[n].calls = tm[n].calls /\ o[n].why = tm[n].why
  BY <1>2
<1>7. OutlineRowIs(x) /\ x.calls = o[n].calls + 1 /\ x.id = o[n].id /\ x.why = o[n].why /\ o[n].calls \in Nat
  <2>1. o[n] = [id |-> o[n].id, line |-> o[n].line, calls |-> o[n].calls, why |-> o[n].why] /\ o[n].calls \in Nat
    BY <1>6 DEF OutlineRowIs
  <2>2. x = [id |-> o[n].id, line |-> o[n].line, calls |-> o[n].calls + 1, why |-> o[n].why]
    BY <2>1
  <2> HIDE DEF x
  <2>3. QED
    BY <2>1, <2>2 DEF OutlineRowIs
<1>8. TurnIs(y) /\ y.calls = tm[n].calls + 1 /\ y.why = tm[n].why
  <2>1. tm[n] = [prompt |-> tm[n].prompt, calls |-> tm[n].calls, why |-> tm[n].why]
    BY <1>6 DEF TurnIs
  <2>2. y = [prompt |-> tm[n].prompt, calls |-> tm[n].calls + 1, why |-> tm[n].why]
    BY <2>1
  <2> HIDE DEF y
  <2>3. QED
    BY <2>2 DEF TurnIs
<1> HIDE DEF x, y
<1>9. IsSequence(p) /\ Len(p) = n /\ \A k \in 1 .. n : p[k] = IF k = n THEN x ELSE o[k]
  <2>1. IsSequence(o) /\ n = Len(o) /\ n \in 1 .. Len(o)
    BY <1>2
  <2>2. ReplacedBy(p, o, n, x)
    BY <2>1, ReplacedSequence
  <2> HIDE DEF n, p
  <2>3. QED
    BY <2>1, <2>2 DEF ReplacedBy
<1>10. IsSequence(um) /\ Len(um) = n /\ \A k \in 1 .. n : um[k] = IF k = n THEN y ELSE tm[k]
  <2>1. IsSequence(tm) /\ n = Len(tm) /\ n \in 1 .. Len(tm)
    BY <1>2
  <2>2. ReplacedBy(um, tm, n, y)
    BY <2>1, ReplacedSequence
  <2> HIDE DEF n, um
  <2>3. QED
    BY <2>1, <2>2 DEF ReplacedBy
<1> HIDE DEF p, um
<1>11. OutlineFits(p, um, now)
  BY <1>2, <1>6, <1>7, <1>8, <1>9, <1>10 DEF OutlineFits
<1>12. CallsIn(o) \in Nat /\ CallsIn(p) = CallsIn(o) + 1
  <2>1. n = Len(o) /\ n \in 1 .. n /\ \A k \in 1 .. n - 1 : k \in 1 .. n /\ k # n
    <3>1. n \in Nat /\ n > 0 /\ n = Len(o)
      BY <1>2
    <3> HIDE DEF n
    <3>2. QED
      BY <3>1
  <2>2. \A k \in 1 .. n : o[k].calls \in Nat
    BY <1>2 DEF OutlineRowIs
  <2>3. \A k \in 1 .. n - 1 : p[k].calls = o[k].calls
    BY <1>9, <2>1
  <2>4. p[n].calls = o[n].calls + 1
    BY <1>7, <1>9, <2>1
  <2> HIDE DEF n
  <2>5. QED
    <3>1. CallsMore(o, p, n, 1)
      BY <1>2, <1>9, <2>1, <2>2, <2>3, <2>4 DEF CallsMore
    <3>2. QED
      BY <3>1, CallsInChanged
<1>13. StatsFit(t, p, 1)
  <2>1. /\ s \in [StatKinds -> Nat] /\ s["turnStart"] = n /\ s["toolCall"] = CallsIn(o)
        /\ s["toolResult"] + 0 <= s["toolCall"]
    BY <1>1 DEF StatsFit
  <2>2. /\ t \in [StatKinds -> Nat] /\ t["turnStart"] = s["turnStart"] /\ t["toolCall"] = s["toolCall"] + 1
        /\ t["toolResult"] = s["toolResult"] /\ s["toolResult"] \in Nat /\ s["toolCall"] \in Nat
    BY <2>1 DEF StatKinds
  <2>3. QED
    BY <1>9, <1>12, <2>1, <2>2 DEF StatsFit
<1>14. QED
  BY <1>1, <1>3, <1>4, <1>5, <1>11, <1>13, BooksRow DEF s, o

(* Its result. *)
LEMMA BooksResult ==
    ASSUME NEW l, NEW tm, NEW now, Books(l, tm, now, 1), NEW ok \in BOOLEAN
    PROVE  Books(Append(l, ResultRow(ok)), tm, now, 0)
<1> DEFINE s == SessionStats(l)
           o == TurnOutline(l)
           t == IF ok THEN s ELSE [s EXCEPT !["toolResult"] = @ + 1]
<1>1. IsSequence(l) /\ OutlineFits(o, tm, now) /\ StatsFit(s, o, 1)
  BY DEF Books
<1>2. OutlineApply(o, ResultRow(ok)) = o
  BY DEF OutlineApply, ResultRow
<1>3. StatsApply(s, ResultRow(ok)) = t
  BY DEF StatsApply, StatKinds, ResultRow
<1> HIDE DEF s, o
<1>4. StatsFit(t, o, 0)
  <2>1. /\ s \in [StatKinds -> Nat] /\ s["turnStart"] = Len(o) /\ s["toolCall"] = CallsIn(o)
        /\ s["toolResult"] + 1 <= s["toolCall"]
    BY <1>1 DEF StatsFit
  <2>2. /\ t \in [StatKinds -> Nat] /\ t["turnStart"] = s["turnStart"] /\ t["toolCall"] = s["toolCall"]
        /\ t["toolResult"] \in {s["toolResult"], s["toolResult"] + 1}
        /\ s["toolResult"] \in Nat /\ s["toolCall"] \in Nat
    BY <2>1 DEF StatKinds
  <2>3. t["toolResult"] + 0 <= t["toolCall"]
    BY <2>1, <2>2
  <2>4. QED
    BY <2>1, <2>2, <2>3 DEF StatsFit
<1>5. QED
  BY <1>1, <1>2, <1>3, <1>4, BooksRow DEF s, o

(* The turn ends: its row is the newest under its id. *)
LEMMA BooksEnd ==
    ASSUME NEW l, NEW tm, NEW now, now # 0, Books(l, tm, now, 0), NEW cause
    PROVE  Books(Append(l, TurnEnd(now, cause)), [tm EXCEPT ![Len(tm)].why = cause], 0, 0)
<1> DEFINE s == SessionStats(l)
           o == TurnOutline(l)
           n == Len(o)
           x == [o[n] EXCEPT !.why = cause]
           y == [tm[n] EXCEPT !.why = cause]
           p == [o EXCEPT ![n] = x]
           um == [tm EXCEPT ![n] = y]
<1>1. IsSequence(l) /\ OutlineFits(o, tm, now) /\ StatsFit(s, o, 0)
  BY DEF Books
<1>2. /\ IsSequence(o) /\ IsSequence(tm) /\ n = Len(tm) /\ n \in Nat /\ n > 0 /\ DOMAIN o = 1 .. n
      /\ \A k \in 1 .. n :
            OutlineRowIs(o[k]) /\ TurnIs(tm[k]) /\ o[k].calls = tm[k].calls /\ o[k].why = tm[k].why
      /\ o[n].id = now
  BY <1>1, SequenceLength DEF OutlineFits
<1>3. OutlineApply(o, TurnEnd(now, cause)) = p
  <2> DEFINE S == {k \in DOMAIN o : o[k].id = now}
  <2>1. S \subseteq 1 .. n /\ n \in S
    BY <1>2
  <2>2. Newest(S) \in S /\ \A k \in S : k <= Newest(S)
    <3> HIDE DEF S
    <3>1. QED
      BY <1>2, <2>1, NewestIs
  <2>3. Newest(S) = n
    <3> DEFINE k == Newest(S)
    <3>1. k \in 1 .. n /\ n <= k
      BY <2>1, <2>2
    <3> HIDE DEF k
    <3>2. k = n
      BY <1>2, <3>1
    <3>3. QED
      BY <3>2 DEF k
  <2>4. RowOfTurn(o, now) = n
    BY <2>3 DEF RowOfTurn
  <2>5. TurnEnd(now, cause).kind = "turnEnd" /\ TurnEnd(now, cause).id = now /\ TurnEnd(now, cause).why = cause
    BY DEF TurnEnd
  <2>6. OutlineApply(o, TurnEnd(now, cause)) = [o EXCEPT ![n].why = cause]
    <3> DEFINE row == TurnEnd(now, cause)
    <3>1. n # 0 /\ RowOfTurn(o, row.id) = n
      BY <1>2, <2>4, <2>5
    <3>2. row.kind = "turnEnd" /\ row.why = cause
      BY <2>5
    <3> HIDE DEF row, n, o
    <3>3. OutlineApply(o, row) = [o EXCEPT ![n].why = cause]
      BY <3>1, <3>2 DEF OutlineApply
    <3>4. QED
      BY <3>3 DEF row
  <2>7. QED
    BY <2>6
<1>4. StatsApply(s, TurnEnd(now, cause)) = s
  BY DEF StatsApply, StatKinds, TurnEnd
<1>5. [tm EXCEPT ![Len(tm)].why = cause] = um
  BY <1>2
<1> HIDE DEF s, o
<1>6. OutlineRowIs(o[n]) /\ TurnIs(tm[n]) /\ o[n].calls = tm[n].calls
  BY <1>2
<1>7. OutlineRowIs(x) /\ x.calls = o[n].calls /\ x.why = cause /\ o[n].calls \in Nat
  <2>1. o[n] = [id |-> o[n].id, line |-> o[n].line, calls |-> o[n].calls, why |-> o[n].why] /\ o[n].calls \in Nat
    BY <1>6 DEF OutlineRowIs
  <2>2. x = [id |-> o[n].id, line |-> o[n].line, calls |-> o[n].calls, why |-> cause]
    BY <2>1
  <2> HIDE DEF x
  <2>3. QED
    BY <2>1, <2>2 DEF OutlineRowIs
<1>8. TurnIs(y) /\ y.calls = tm[n].calls /\ y.why = cause
  <2>1. tm[n] = [prompt |-> tm[n].prompt, calls |-> tm[n].calls, why |-> tm[n].why]
    BY <1>6 DEF TurnIs
  <2>2. y = [prompt |-> tm[n].prompt, calls |-> tm[n].calls, why |-> cause]
    BY <2>1
  <2> HIDE DEF y
  <2>3. QED
    BY <2>2 DEF TurnIs
<1> HIDE DEF x, y
<1>9. IsSequence(p) /\ Len(p) = n /\ \A k \in 1 .. n : p[k] = IF k = n THEN x ELSE o[k]
  <2>1. IsSequence(o) /\ n = Len(o) /\ n \in 1 .. Len(o)
    BY <1>2
  <2>2. ReplacedBy(p, o, n, x)
    BY <2>1, ReplacedSequence
  <2> HIDE DEF n, p
  <2>3. QED
    BY <2>1, <2>2 DEF ReplacedBy
<1>10. IsSequence(um) /\ Len(um) = n /\ \A k \in 1 .. n : um[k] = IF k = n THEN y ELSE tm[k]
  <2>1. IsSequence(tm) /\ n = Len(tm) /\ n \in 1 .. Len(tm)
    BY <1>2
  <2>2. ReplacedBy(um, tm, n, y)
    BY <2>1, ReplacedSequence
  <2> HIDE DEF n, um
  <2>3. QED
    BY <2>1, <2>2 DEF ReplacedBy
<1> HIDE DEF p, um
<1>11. OutlineFits(p, um, 0)
  BY <1>2, <1>6, <1>7, <1>8, <1>9, <1>10 DEF OutlineFits
<1>12. CallsIn(o) \in Nat /\ CallsIn(p) = CallsIn(o) + 0
  <2>1. n = Len(o) /\ n \in 1 .. n /\ \A k \in 1 .. n - 1 : k \in 1 .. n /\ k # n
    <3>1. n \in Nat /\ n > 0 /\ n = Len(o)
      BY <1>2
    <3> HIDE DEF n
    <3>2. QED
      BY <3>1
  <2>2. \A k \in 1 .. n : o[k].calls \in Nat
    BY <1>2 DEF OutlineRowIs
  <2>3. \A k \in 1 .. n - 1 : p[k].calls = o[k].calls
    BY <1>9, <2>1
  <2>4. p[n].calls = o[n].calls + 0
    BY <1>7, <1>9, <2>1
  <2> HIDE DEF n
  <2>5. QED
    <3>1. CallsMore(o, p, n, 0)
      BY <1>2, <1>9, <2>1, <2>2, <2>3, <2>4 DEF CallsMore
    <3>2. QED
      BY <3>1, CallsInChanged
<1>13. StatsFit(s, p, 0)
  BY <1>1, <1>9, <1>12 DEF StatsFit
<1>14. QED
  BY <1>1, <1>3, <1>4, <1>5, <1>11, <1>13, BooksRow DEF s, o

-----------------------------------------------------------------------------
(* The trees: phases and members.                                          *)

Who == Members \cup {ItSelf}
States == {"none", "running", "done", "failed"}

(* The members ms of the phase title are those logged of it, once each, in *)
(* the state lg has for them.                                              *)
MemberFits(x, lg, title) ==
    /\ x = [id |-> x.id, label |-> x.label, state |-> x.state]
    /\ x.id \in Members /\ PhaseOf[x.id] = title /\ x.state = lg[x.id] /\ lg[x.id] # "none"
MembersFit(ms, lg, title) ==
    /\ IsSequence(ms)
    /\ \A j \in 1 .. Len(ms) : MemberFits(ms[j], lg, title)
    /\ \A j, k \in 1 .. Len(ms) : ms[j].id = ms[k].id => j = k

Shows(ms, m) == \E j \in 1 .. Len(ms) : ms[j].id = m

PhaseFits(x, lg) ==
    x = [title |-> x.title, members |-> x.members] /\ MembersFit(x.members, lg, x.title)
PhasesFit(ps, lg) ==
    /\ IsSequence(ps)
    /\ \A i \in 1 .. Len(ps) : PhaseFits(ps[i], lg)
    /\ \A i, j \in 1 .. Len(ps) : ps[i].title = ps[j].title => i = j
    /\ \A m \in Members : lg[m] # "none" =>
          \E i \in 1 .. Len(ps) : ps[i].title = PhaseOf[m] /\ Shows(ps[i].members, m)

(* An edge that follows the one before it. *)
Follows(lg, m, st) ==
    \/ st = "running" /\ lg[m] = "none"
    \/ st \in Ended /\ lg[m] = "running"

(* ns are the members ms after an edge of m. *)
MembersMoved(ms, ns, lg, m) ==
    /\ MembersFit(ns, lg, PhaseOf[m]) /\ Shows(ns, m)
    /\ \A d : Shows(ms, d) => Shows(ns, d)

(* An edge of a member, in the phase it belongs to. *)
LEMMA MembersStep ==
    ASSUME NEW lg \in [Who -> States], NEW m \in Members, NEW st, Follows(lg, m, st),
           NEW ms, MembersFit(ms, lg, PhaseOf[m]), lg[m] # "none" => Shows(ms, m),
           NEW row, row.member = m, row.state = st
    PROVE  MembersMoved(ms, MembersApply(ms, row), [lg EXCEPT ![m] = st], m)
<1> DEFINE l2 == [lg EXCEPT ![m] = st]
           n == Len(ms)
<1>0. m \in Who /\ Members \subseteq Who
  BY DEF Who
<1>1. /\ IsSequence(ms) /\ n \in Nat /\ DOMAIN ms = 1 .. n
      /\ \A j \in 1 .. n : MemberFits(ms[j], lg, PhaseOf[m])
      /\ \A j, k \in 1 .. n : ms[j].id = ms[k].id => j = k
  BY SequenceLength DEF MembersFit
<1>2. l2[m] = st /\ \A k \in Members : k # m => l2[k] = lg[k]
  BY <1>0
<1>3. ASSUME NEW j \in 1 .. n, ms[j].id # m PROVE MemberFits(ms[j], l2, PhaseOf[m])
  <2>1. MemberFits(ms[j], lg, PhaseOf[m])
    BY <1>1, <1>3
  <2> HIDE DEF l2
  <2>2. QED
    BY <1>2, <1>3, <2>1 DEF MemberFits
<1> HIDE DEF l2
<1>4. CASE st = "running"
  <2>1. lg[m] = "none"
    BY <1>4 DEF Follows, Ended
  <2> DEFINE x == [id |-> m, label |-> row.label, state |-> "running"]
             ns == Append(ms, x)
  <2>2. MembersApply(ms, row) = ns
    BY <1>4 DEF MembersApply
  <2>3. x.id = m /\ MemberFits(x, l2, PhaseOf[m])
    BY <1>2, <1>4 DEF MemberFits
  <2> HIDE DEF x
  <2>4. /\ IsSequence(ns) /\ Len(ns) = n + 1
        /\ \A j \in 1 .. n : ns[j] = ms[j]
        /\ ns[n + 1] = x
    BY <1>1, LongerSequence
  <2> HIDE DEF ns
  <2>5. ASSUME NEW j \in 1 .. n PROVE ms[j].id # m
    <3>1. MemberFits(ms[j], lg, PhaseOf[m])
      BY <1>1
    <3>2. QED
      BY <2>1, <3>1 DEF MemberFits
  <2>6. \A j \in 1 .. Len(ns) : j \in 1 .. n \/ j = n + 1
    BY <1>1, <2>4
  <2>7. \A j \in 1 .. Len(ns) : MemberFits(ns[j], l2, PhaseOf[m])
    BY <1>3, <2>3, <2>4, <2>5, <2>6
  <2>8. \A j, k \in 1 .. Len(ns) : ns[j].id = ns[k].id => j = k
    BY <1>1, <2>3, <2>4, <2>5, <2>6
  <2>9. n + 1 \in 1 .. Len(ns)
    BY <1>1, <2>4
  <2>10. \A d : Shows(ms, d) => Shows(ns, d)
    <3>1. \A j \in 1 .. n : j \in 1 .. Len(ns) /\ ns[j] = ms[j]
      BY <1>1, <2>4
    <3>2. QED
      BY <3>1 DEF Shows
  <2>11. QED
    BY <2>2, <2>3, <2>4, <2>7, <2>8, <2>9, <2>10 DEF MembersFit, MembersMoved, Shows, l2
<1>5. CASE st # "running"
  <2>1. st \in Ended /\ lg[m] = "running"
    BY <1>5 DEF Follows
  <2>2. PICK p \in 1 .. n : ms[p].id = m
    BY <2>1 DEF Shows
  <2> DEFINE own == {i \in DOMAIN ms : ms[i].id = row.member}
  <2>3. own = {p}
    BY <1>1, <2>2
  <2>4. First(own) = p /\ p # 0
    <3>1. own \subseteq Nat \ {0} /\ own # {}
      BY <1>1, <2>3
    <3>2. First(own) \in own
      BY <3>1, FirstIs
    <3>3. QED
      BY <1>1, <2>2, <2>3, <3>2
  <2>5. EndsMember(ms, row) = p
    BY <2>4 DEF EndsMember
  <2> DEFINE x == [ms[p] EXCEPT !.state = st]
             ns == [ms EXCEPT ![p] = x]
  <2>6. MembersApply(ms, row) = ns
    <3>1. MembersApply(ms, row) = [ms EXCEPT ![p].state = row.state]
      BY <1>5, <2>4, <2>5 DEF MembersApply
    <3>2. QED
      BY <3>1
  <2>7. x.id = m /\ MemberFits(x, l2, PhaseOf[m])
    <3>1. MemberFits(ms[p], lg, PhaseOf[m])
      BY <1>1
    <3>2. ms[p] = [id |-> ms[p].id, label |-> ms[p].label, state |-> ms[p].state]
      BY <3>1 DEF MemberFits
    <3>3. x = [id |-> m, label |-> ms[p].label, state |-> st]
      BY <2>2, <3>2
    <3> HIDE DEF x
    <3>4. st # "none"
      BY <2>1 DEF Ended
    <3>5. QED
      BY <1>2, <3>3, <3>4 DEF MemberFits
  <2> HIDE DEF x
  <2>8. ReplacedBy(ns, ms, p, x)
    BY <1>1, ReplacedSequence
  <2> HIDE DEF ns
  <2>9. IsSequence(ns) /\ Len(ns) = n /\ \A j \in 1 .. n : ns[j] = IF j = p THEN x ELSE ms[j]
    BY <2>8 DEF ReplacedBy
  <2>10. ASSUME NEW j \in 1 .. n PROVE MemberFits(ns[j], l2, PhaseOf[m]) /\ ns[j].id = ms[j].id
    <3>1. CASE j = p
      BY <2>2, <2>7, <2>9, <3>1
    <3>2. CASE j # p
      <4>1. ms[j].id # m /\ ns[j] = ms[j]
        BY <1>1, <2>2, <2>9, <3>2
      <4>2. QED
        BY <1>3, <4>1
    <3>3. QED
      BY <3>1, <3>2
  <2>11. \A j, k \in 1 .. n : ns[j].id = ns[k].id => j = k
    BY <1>1, <2>10
  <2>12. ns[p].id = m
    BY <2>2, <2>10
  <2>13. \A d : Shows(ms, d) => Shows(ns, d)
    BY <2>9, <2>10 DEF Shows
  <2>14. QED
    BY <2>6, <2>9, <2>10, <2>11, <2>12, <2>13 DEF MembersFit, MembersMoved, Shows, l2
<1>6. QED
  BY <1>4, <1>5

(* Nothing else of it is drawn in another. *)
LEMMA PhaseElsewhere ==
    ASSUME NEW lg \in [Who -> States], NEW m \in Members, NEW st,
           NEW x, PhaseFits(x, lg), x.title # PhaseOf[m]
    PROVE  PhaseFits(x, [lg EXCEPT ![m] = st])
<1> DEFINE l2 == [lg EXCEPT ![m] = st]
<1>1. \A k \in Members : k # m => l2[k] = lg[k]
  BY DEF Who
<1> HIDE DEF l2
<1>2. MembersFit(x.members, lg, x.title)
  BY DEF PhaseFits
<1>3. ASSUME NEW j \in 1 .. Len(x.members) PROVE MemberFits(x.members[j], l2, x.title)
  <2>1. MemberFits(x.members[j], lg, x.title)
    BY <1>2 DEF MembersFit
  <2>2. x.members[j].id \in Members /\ x.members[j].id # m
    BY <2>1 DEF MemberFits
  <2>3. QED
    BY <1>1, <2>1, <2>2 DEF MemberFits
<1>4. MembersFit(x.members, l2, x.title)
  BY <1>2, <1>3 DEF MembersFit
<1>5. QED
  BY <1>4 DEF PhaseFits, l2

(* A phase without members. *)
LEMMA PhasesOpened ==
    ASSUME NEW lg, NEW ps, PhasesFit(ps, lg), NEW title, \A i \in 1 .. Len(ps) : ps[i].title # title
    PROVE  PhasesFit(Append(ps, [title |-> title, members |-> <<>>]), lg)
<1> DEFINE x == [title |-> title, members |-> <<>>]
           qs == Append(ps, x)
           n == Len(ps)
<1>1. /\ IsSequence(ps)
      /\ \A i \in 1 .. n : PhaseFits(ps[i], lg)
      /\ \A i, j \in 1 .. n : ps[i].title = ps[j].title => i = j
      /\ \A m \in Members : lg[m] # "none" =>
            \E i \in 1 .. n : ps[i].title = PhaseOf[m] /\ Shows(ps[i].members, m)
  BY DEF PhasesFit
<1>2. x.title = title /\ PhaseFits(x, lg)
  <2>1. Len(x.members) = 0 /\ IsSequence(x.members)
    BY EmptyIsSequence
  <2>2. MembersFit(x.members, lg, x.title)
    BY <2>1 DEF MembersFit
  <2>3. QED
    BY <2>2 DEF PhaseFits
<1> HIDE DEF x
<1>3. /\ IsSequence(qs) /\ n \in Nat /\ Len(qs) = n + 1
      /\ \A i \in 1 .. n : qs[i] = ps[i]
      /\ qs[n + 1] = x
  BY <1>1, LongerSequence
<1> HIDE DEF qs
<1>4. \A i \in 1 .. Len(qs) : i \in 1 .. n \/ i = n + 1
  BY <1>3
<1>5. \A i \in 1 .. Len(qs) : PhaseFits(qs[i], lg)
  BY <1>1, <1>2, <1>3, <1>4
<1>6. \A i, j \in 1 .. Len(qs) : qs[i].title = qs[j].title => i = j
  BY <1>1, <1>2, <1>3, <1>4
<1>7. ASSUME NEW m \in Members, lg[m] # "none"
      PROVE  \E i \in 1 .. Len(qs) : qs[i].title = PhaseOf[m] /\ Shows(qs[i].members, m)
  <2>1. PICK i \in 1 .. n : ps[i].title = PhaseOf[m] /\ Shows(ps[i].members, m)
    BY <1>1, <1>7
  <2>2. i \in 1 .. Len(qs) /\ qs[i] = ps[i]
    BY <1>3
  <2>3. QED
    BY <2>1, <2>2
<1>8. QED
  BY <1>3, <1>5, <1>6, <1>7 DEF PhasesFit, qs, x

(* An edge of a member. *)
LEMMA PhasesStep ==
    ASSUME NEW lg \in [Who -> States], NEW m \in Members, NEW st, Follows(lg, m, st),
           NEW ps, PhasesFit(ps, lg),
           NEW row, row.member = m, row.state = st, row.phase = PhaseOf[m]
    PROVE  PhasesFit(PhasesApply(ps, row), [lg EXCEPT ![m] = st])
<1> DEFINE l2 == [lg EXCEPT ![m] = st]
           S == {i \in DOMAIN ps : ps[i].title = row.phase}
           k == First(S)
           fresh == [title |-> row.phase, members |-> <<>>]
           qs == IF k = 0 THEN Append(ps, fresh) ELSE ps
           at == IF k = 0 THEN Len(qs) ELSE k
<1>1. IsSequence(ps) /\ Len(ps) \in Nat /\ DOMAIN ps = 1 .. Len(ps)
  BY SequenceLength DEF PhasesFit
<1>2. (S = {} => k = 0) /\ (S # {} => k \in S /\ k # 0)
  <2>1. S \subseteq Nat \ {0}
    BY <1>1
  <2> HIDE DEF S
  <2>2. QED
    BY <2>1, FirstIs
<1>3. PhasesFit(qs, lg) /\ at \in 1 .. Len(qs) /\ qs[at].title = PhaseOf[m]
  <2>1. CASE k = 0
    <3>1. \A i \in 1 .. Len(ps) : ps[i].title # row.phase
      BY <1>1, <1>2, <2>1
    <3>2. PhasesFit(Append(ps, fresh), lg)
      BY <3>1, PhasesOpened
    <3>3. Len(Append(ps, fresh)) = Len(ps) + 1 /\ Append(ps, fresh)[Len(ps) + 1] = fresh
      BY <1>1, LongerSequence
    <3>4. qs = Append(ps, fresh) /\ at = Len(ps) + 1
      BY <2>1, <3>3
    <3>5. fresh.title = PhaseOf[m]
      OBVIOUS
    <3> HIDE DEF qs, at, fresh
    <3>6. QED
      BY <1>1, <3>2, <3>3, <3>4, <3>5
  <2>2. CASE k # 0
    <3>1. k \in S
      BY <1>2, <2>2
    <3>2. qs = ps /\ at = k
      BY <2>2
    <3>3. QED
      BY <1>1, <3>1, <3>2
  <2>3. QED
    BY <2>1, <2>2
<1> DEFINE x == [qs[at] EXCEPT !.members = MembersApply(qs[at].members, row)]
           ns == [qs EXCEPT ![at] = x]
<1>4. PhasesApply(ps, row) = ns
  <2>1. PhasesApply(ps, row) = [qs EXCEPT ![at].members = MembersApply(qs[at].members, row)]
    BY DEF PhasesApply
  <2> HIDE DEF qs, at
  <2>2. QED
    BY <2>1
<1> HIDE DEF qs, at, k, S
<1> DEFINE n == Len(qs)
<1>5. /\ IsSequence(qs) /\ n \in Nat
      /\ \A i \in 1 .. n : PhaseFits(qs[i], lg)
      /\ \A i, j \in 1 .. n : qs[i].title = qs[j].title => i = j
      /\ \A d \in Members : lg[d] # "none" =>
            \E i \in 1 .. n : qs[i].title = PhaseOf[d] /\ Shows(qs[i].members, d)
  BY <1>3, SequenceLength DEF PhasesFit
<1>6. PhaseFits(qs[at], lg)
  BY <1>3, <1>5
<1>7. lg[m] # "none" => Shows(qs[at].members, m)
  BY <1>3, <1>5
<1>8. MembersFit(qs[at].members, lg, PhaseOf[m])
  BY <1>3, <1>6 DEF PhaseFits
<1> DEFINE ms == MembersApply(qs[at].members, row)
<1>9. /\ MembersFit(ms, l2, PhaseOf[m]) /\ Shows(ms, m)
      /\ \A d : Shows(qs[at].members, d) => Shows(ms, d)
  <2>1. MembersMoved(qs[at].members, ms, l2, m)
    BY <1>7, <1>8, MembersStep
  <2> HIDE DEF ms, l2
  <2>2. QED
    BY <2>1 DEF MembersMoved
<1> HIDE DEF ms
<1>10. x = [title |-> PhaseOf[m], members |-> ms]
  <2>1. qs[at] = [title |-> qs[at].title, members |-> qs[at].members]
    BY <1>6 DEF PhaseFits
  <2>2. QED
    BY <1>3, <2>1 DEF ms
<1> HIDE DEF x
<1>11. PhaseFits(x, l2) /\ x.title = PhaseOf[m] /\ Shows(x.members, m)
  BY <1>9, <1>10 DEF PhaseFits
<1>12. IsSequence(ns) /\ Len(ns) = n /\ \A i \in 1 .. n : ns[i] = IF i = at THEN x ELSE qs[i]
  <2>1. ReplacedBy(ns, qs, at, x)
    BY <1>3, <1>5, ReplacedSequence
  <2> HIDE DEF ns
  <2>2. QED
    BY <2>1 DEF ReplacedBy
<1> HIDE DEF ns
<1>13. ASSUME NEW i \in 1 .. n PROVE PhaseFits(ns[i], l2) /\ ns[i].title = qs[i].title
  <2>1. CASE i = at
    BY <1>3, <1>11, <1>12, <2>1
  <2>2. CASE i # at
    <3>1. ns[i] = qs[i] /\ qs[i].title # PhaseOf[m] /\ PhaseFits(qs[i], lg)
      BY <1>3, <1>5, <1>12, <2>2
    <3>2. QED
      BY <3>1, PhaseElsewhere
  <2>3. QED
    BY <2>1, <2>2
<1>14. \A i, j \in 1 .. n : ns[i].title = ns[j].title => i = j
  BY <1>5, <1>13
<1>15. ASSUME NEW d \in Members, l2[d] # "none"
       PROVE  \E i \in 1 .. n : ns[i].title = PhaseOf[d] /\ Shows(ns[i].members, d)
  <2>1. CASE d = m
    <3>1. at \in 1 .. n /\ ns[at] = x
      BY <1>3, <1>12
    <3>2. QED
      BY <1>11, <2>1, <3>1
  <2>2. CASE d # m
    <3>1. lg[d] # "none"
      BY <1>15, <2>2 DEF Who
    <3>2. PICK i \in 1 .. n : qs[i].title = PhaseOf[d] /\ Shows(qs[i].members, d)
      BY <1>5, <3>1
    <3>3. CASE i # at
      BY <1>12, <3>2, <3>3
    <3>4. CASE i = at
      <4>1. Shows(x.members, d)
        <5>1. Shows(ms, d)
          BY <1>9, <3>2, <3>4
        <5>2. QED
          BY <1>10, <5>1
      <4>2. ns[at] = x /\ ns[at].title = qs[at].title
        BY <1>3, <1>12, <1>13
      <4>3. QED
        BY <1>3, <3>2, <3>4, <4>1, <4>2
    <3>5. QED
      BY <3>3, <3>4
  <2>3. QED
    BY <2>1, <2>2
<1>16. QED
  BY <1>4, <1>12, <1>13, <1>14, <1>15 DEF PhasesFit

-----------------------------------------------------------------------------
(* The trees of a log.                                                     *)

TreeIs(t) == t = [id |-> t.id, call |-> t.call, state |-> t.state, open |-> t.open, phases |-> t.phases]
TreesApart(rs) ==
    /\ IsSequence(rs)
    /\ \A i \in 1 .. Len(rs) : TreeIs(rs[i])
    /\ \A i, j \in 1 .. Len(rs) : rs[i].id = rs[j].id => i = j

TreeOpened(run, st) ==
    [id |-> run.id, call |-> run.call, state |-> st, open |-> st = "running", phases |-> <<>>]
TreeAfter(t, row) ==
    IF row.member = ItSelf
    THEN [id |-> t.id, call |-> t.call, state |-> row.state, open |-> row.state = "running", phases |-> t.phases]
    ELSE [id |-> t.id, call |-> t.call, state |-> t.state, open |-> t.open, phases |-> PhasesApply(t.phases, row)]

Unnamed(rs, id) == \A i \in 1 .. Len(rs) : rs[i].id # id

(* us are the trees rs after an edge of the run: none but its own is       *)
(* another, its own is moved on or, by an edge of the run itself, opened.  *)
TreesMoved(rs, us, run, row) ==
    /\ \A i \in 1 .. Len(us) : us[i].id # run.id => \E j \in 1 .. Len(rs) : us[i] = rs[j]
    /\ \A j \in 1 .. Len(rs) : rs[j].id # run.id => \E i \in 1 .. Len(us) : us[i] = rs[j]
    /\ \A j \in 1 .. Len(rs) : rs[j].id = run.id => \E i \in 1 .. Len(us) : us[i] = TreeAfter(rs[j], row)
    /\ \A i \in 1 .. Len(us) : us[i].id = run.id =>
          \/ us[i].call = run.call
          \/ \E j \in 1 .. Len(rs) : rs[j].id = run.id /\ us[i].call = rs[j].call
    /\ Unnamed(rs, run.id) /\ row.member = ItSelf => \E i \in 1 .. Len(us) : us[i] = TreeOpened(run, row.state)

(* One tree moved on. *)
LEMMA TreesReplaced ==
    ASSUME NEW qs, TreesApart(qs), NEW at \in 1 .. Len(qs), NEW row, NEW x, x = TreeAfter(qs[at], row)
    PROVE  /\ TreesApart([qs EXCEPT ![at] = x])
           /\ ReplacedBy([qs EXCEPT ![at] = x], qs, at, x)
<1> DEFINE us == [qs EXCEPT ![at] = x]
<1>1. /\ IsSequence(qs)
      /\ \A i \in 1 .. Len(qs) : TreeIs(qs[i])
      /\ \A i, j \in 1 .. Len(qs) : qs[i].id = qs[j].id => i = j
  BY DEF TreesApart
<1>2. ReplacedBy(us, qs, at, x)
  BY <1>1, ReplacedSequence
<1> HIDE DEF us
<1>3. IsSequence(us) /\ Len(us) = Len(qs) /\ \A i \in 1 .. Len(qs) : us[i] = IF i = at THEN x ELSE qs[i]
  BY <1>2 DEF ReplacedBy
<1>4. x.id = qs[at].id /\ TreeIs(x)
  <2> DEFINE st == row.state
             ps == PhasesApply(qs[at].phases, row)
             op == st = "running"
  <2>1. x = IF row.member = ItSelf
            THEN [id |-> qs[at].id, call |-> qs[at].call, state |-> st, open |-> op, phases |-> qs[at].phases]
            ELSE [id |-> qs[at].id, call |-> qs[at].call, state |-> qs[at].state, open |-> qs[at].open, phases |-> ps]
    BY DEF TreeAfter
  <2> HIDE DEF st, ps, op
  <2>2. CASE row.member = ItSelf
    <3>1. x = [id |-> qs[at].id, call |-> qs[at].call, state |-> st, open |-> op, phases |-> qs[at].phases]
      BY <2>1, <2>2
    <3>2. x.id = qs[at].id /\ x.call = qs[at].call /\ x.state = st /\ x.open = op /\ x.phases = qs[at].phases
      BY <3>1
    <3>3. QED
      BY <3>1, <3>2 DEF TreeIs
  <2>3. CASE row.member # ItSelf
    <3>1. x = [id |-> qs[at].id, call |-> qs[at].call, state |-> qs[at].state, open |-> qs[at].open, phases |-> ps]
      BY <2>1, <2>3
    <3>2. /\ x.id = qs[at].id /\ x.call = qs[at].call /\ x.state = qs[at].state /\ x.open = qs[at].open
          /\ x.phases = ps
      BY <3>1
    <3>3. QED
      BY <3>1, <3>2 DEF TreeIs
  <2>4. QED
    BY <2>2, <2>3
<1>5. \A i \in 1 .. Len(us) : TreeIs(us[i]) /\ us[i].id = qs[i].id
  BY <1>1, <1>3, <1>4
<1>6. \A i, j \in 1 .. Len(us) : us[i].id = us[j].id => i = j
  BY <1>1, <1>3, <1>5
<1>7. TreesApart(us)
  BY <1>3, <1>5, <1>6 DEF TreesApart
<1>8. QED
  BY <1>2, <1>7 DEF us

(* The row of an edge. *)
LEMMA TreesStep ==
    ASSUME NEW rs, TreesApart(rs), NEW run, NEW row,
           row.kind = "edge", row.run = run.id, row.call = run.call
    PROVE  TreesApart(RunsApply(rs, row)) /\ TreesMoved(rs, RunsApply(rs, row), run, row)
<1> DEFINE S == {i \in DOMAIN rs : rs[i].id = row.run}
           k == First(S)
           n == Len(rs)
<1>1. /\ IsSequence(rs) /\ n \in Nat /\ DOMAIN rs = 1 .. n
      /\ \A i \in 1 .. n : TreeIs(rs[i])
      /\ \A i, j \in 1 .. n : rs[i].id = rs[j].id => i = j
  BY SequenceLength DEF TreesApart
<1>2. (S = {} => k = 0) /\ (S # {} => k \in S /\ k # 0)
  <2>1. S \subseteq Nat \ {0}
    BY <1>1
  <2> HIDE DEF S
  <2>2. QED
    BY <2>1, FirstIs
<1>3. CASE k = 0 /\ row.member # ItSelf
  <2>1. RunsApply(rs, row) = rs
    BY <1>3 DEF RunsApply
  <2>2. Unnamed(rs, run.id)
    BY <1>1, <1>2, <1>3 DEF Unnamed
  <2>3. TreesMoved(rs, rs, run, row)
    BY <1>3, <2>2 DEF TreesMoved, Unnamed
  <2>4. QED
    BY <2>1, <2>3
<1>4. CASE k = 0 /\ row.member = ItSelf
  <2> DEFINE fresh == [id |-> row.run, call |-> row.call, state |-> "running", open |-> TRUE, phases |-> <<>>]
             qs == Append(rs, fresh)
             x == TreeAfter(fresh, row)
             us == [qs EXCEPT ![n + 1] = x]
  <2>1. Unnamed(rs, run.id)
    BY <1>1, <1>2, <1>4 DEF Unnamed
  <2>2. fresh.id = run.id /\ TreeIs(fresh)
    BY DEF TreeIs
  <2>3. /\ IsSequence(qs) /\ Len(qs) = n + 1
        /\ \A i \in 1 .. n : qs[i] = rs[i]
        /\ qs[n + 1] = fresh
    BY <1>1, LongerSequence
  <2>4. x = TreeOpened(run, row.state)
    BY <1>4 DEF TreeAfter, TreeOpened
  <2>5. RunsApply(rs, row) = us
    <3> DEFINE op == row.state = "running"
    <3>1. x = [id |-> row.run, call |-> row.call, state |-> row.state, open |-> op, phases |-> <<>>]
      BY <1>4 DEF TreeAfter
    <3>2. RunsApply(rs, row) = [qs EXCEPT ![n + 1].state = row.state, ![n + 1].open = op]
      BY <1>4, <2>3 DEF RunsApply
    <3>3. n + 1 \in DOMAIN qs
      BY <1>1, <2>3, SequenceLength
    <3>4. x = [[fresh EXCEPT !.state = row.state] EXCEPT !.open = op]
      <4> DEFINE st == row.state
                 yes == TRUE
                 y == [fresh EXCEPT !.state = st]
      <4>0. fresh = [id |-> row.run, call |-> row.call, state |-> "running", open |-> yes, phases |-> <<>>]
        OBVIOUS
      <4>1. x = [id |-> row.run, call |-> row.call, state |-> st, open |-> op, phases |-> <<>>]
        BY <3>1
      <4> HIDE DEF op, x, st, yes, fresh
      <4>2. y = [id |-> row.run, call |-> row.call, state |-> st, open |-> yes, phases |-> <<>>]
        BY <4>0
      <4> HIDE DEF y
      <4>3. x = [y EXCEPT !.open = op]
        BY <4>1, <4>2
      <4>4. QED
        BY <4>3 DEF y, st
    <3> HIDE DEF op, fresh, x, qs
    <3>5. QED
      BY <2>3, <3>2, <3>3, <3>4
  <2> HIDE DEF fresh, qs, x
  <2>6. n + 1 \in 1 .. Len(qs) /\ \A i \in 1 .. Len(qs) : i \in 1 .. n \/ i = n + 1
    BY <1>1, <2>3
  <2>7. TreesApart(qs)
    <3>1. \A i \in 1 .. Len(qs) : TreeIs(qs[i])
      BY <1>1, <2>2, <2>3, <2>6
    <3>2. \A i, j \in 1 .. Len(qs) : qs[i].id = qs[j].id => i = j
      BY <1>1, <2>1, <2>2, <2>3, <2>6 DEF Unnamed
    <3>3. QED
      BY <2>3, <3>1, <3>2 DEF TreesApart
  <2>8. TreesApart(us) /\ ReplacedBy(us, qs, n + 1, x)
    <3>1. x = TreeAfter(qs[n + 1], row)
      BY <2>3 DEF x
    <3>2. QED
      BY <2>6, <2>7, <3>1, TreesReplaced
  <2> HIDE DEF us
  <2>9. Len(us) = n + 1 /\ us[n + 1] = x /\ \A i \in 1 .. n : us[i] = rs[i]
    <3>1. \A i \in 1 .. n : i \in 1 .. Len(qs) /\ i # n + 1
      BY <1>1, <2>3
    <3>2. QED
      BY <2>3, <2>6, <2>8, <3>1 DEF ReplacedBy
  <2>10. x.id = run.id /\ x.call = run.call
    BY <2>4 DEF TreeOpened
  <2>11. \A i \in 1 .. n + 1 : i \in 1 .. n \/ i = n + 1
    BY <1>1
  <2>12. n + 1 \in 1 .. n + 1 /\ \A i \in 1 .. n : i \in 1 .. n + 1
    BY <1>1
  <2> HIDE DEF n
  <2>13. TreesMoved(rs, us, run, row)
    <3>1. \A i \in 1 .. Len(us) : us[i].id # run.id => \E j \in 1 .. Len(rs) : us[i] = rs[j]
      BY <2>9, <2>10, <2>11 DEF n
    <3>2. \A j \in 1 .. Len(rs) : rs[j].id # run.id => \E i \in 1 .. Len(us) : us[i] = rs[j]
      BY <2>9, <2>12 DEF n
    <3>3. \A j \in 1 .. Len(rs) : rs[j].id # run.id
      BY <2>1 DEF Unnamed
    <3>4. \A i \in 1 .. Len(us) : us[i].id = run.id => us[i].call = run.call
      BY <2>9, <2>10, <2>11, <3>3 DEF n
    <3>5. \E i \in 1 .. Len(us) : us[i] = TreeOpened(run, row.state)
      BY <2>4, <2>9, <2>12
    <3>6. QED
      BY <3>1, <3>2, <3>3, <3>4, <3>5 DEF TreesMoved
  <2>14. QED
    BY <2>5, <2>8, <2>13
<1>5. CASE k # 0
  <2> DEFINE x == TreeAfter(rs[k], row)
             us == [rs EXCEPT ![k] = x]
  <2>1. k \in 1 .. n /\ rs[k].id = run.id
    BY <1>1, <1>2, <1>5
  <2>2. RunsApply(rs, row) = us
    <3> DEFINE op == row.state = "running"
               t == rs[k]
    <3>1. t = [id |-> t.id, call |-> t.call, state |-> t.state, open |-> t.open, phases |-> t.phases]
      BY <1>1, <2>1 DEF TreeIs
    <3>2. CASE row.member = ItSelf
      <4>1. RunsApply(rs, row) = [rs EXCEPT ![k].state = row.state, ![k].open = op]
        BY <1>5, <3>2 DEF RunsApply
      <4>2. x = [id |-> t.id, call |-> t.call, state |-> row.state, open |-> op, phases |-> t.phases]
        BY <3>2 DEF TreeAfter
      <4>3. x = [[t EXCEPT !.state = row.state] EXCEPT !.open = op]
        <5> DEFINE st == row.state
                   y == [t EXCEPT !.state = st]
        <5>1. x = [id |-> t.id, call |-> t.call, state |-> st, open |-> op, phases |-> t.phases]
          BY <4>2
        <5> HIDE DEF op, x, t, st
        <5>2. y = [id |-> t.id, call |-> t.call, state |-> st, open |-> t.open, phases |-> t.phases]
          BY <3>1
        <5> HIDE DEF y
        <5>3. x = [y EXCEPT !.open = op]
          BY <5>1, <5>2
        <5>4. QED
          BY <5>3 DEF y, st
      <4> HIDE DEF op, x, k
      <4>4. QED
        BY <1>1, <2>1, <4>1, <4>3
    <3>3. CASE row.member # ItSelf
      <4> DEFINE ps == PhasesApply(t.phases, row)
      <4>1. RunsApply(rs, row) = [rs EXCEPT ![k].phases = ps]
        BY <1>5, <3>3 DEF RunsApply
      <4>2. x = [id |-> t.id, call |-> t.call, state |-> t.state, open |-> t.open, phases |-> ps]
        BY <3>3 DEF TreeAfter
      <4>3. x = [t EXCEPT !.phases = ps]
        <5> HIDE DEF ps, x, t
        <5>1. QED
          BY <3>1, <4>2
      <4> HIDE DEF ps, x, k
      <4>4. QED
        BY <1>1, <2>1, <4>1, <4>3
    <3>4. QED
      BY <3>2, <3>3
  <2>3. x.id = rs[k].id /\ x.call = rs[k].call
    BY DEF TreeAfter
  <2>4. TreesApart(us) /\ ReplacedBy(us, rs, k, x)
    <3> HIDE DEF k
    <3>1. QED
      BY <2>1, TreesReplaced
  <2> HIDE DEF us, k
  <2>5. Len(us) = n /\ \A i \in 1 .. n : us[i] = IF i = k THEN x ELSE rs[i]
    BY <2>4 DEF ReplacedBy
  <2>6. \A j \in 1 .. n : rs[j].id = run.id => j = k
    BY <1>1, <2>1
  <2>7. TreesMoved(rs, us, run, row)
    <3>0. x = TreeAfter(rs[k], row)
      OBVIOUS
    <3> HIDE DEF x
    <3>1. \A i \in 1 .. Len(us) : us[i].id # run.id => \E j \in 1 .. Len(rs) : us[i] = rs[j]
      BY <2>1, <2>3, <2>5
    <3>2. \A j \in 1 .. Len(rs) : rs[j].id # run.id => \E i \in 1 .. Len(us) : us[i] = rs[j]
      BY <2>1, <2>5
    <3>3. \A j \in 1 .. Len(rs) : rs[j].id = run.id => \E i \in 1 .. Len(us) : us[i] = TreeAfter(rs[j], row)
      BY <2>1, <2>5, <2>6, <3>0
    <3>4. \A i \in 1 .. Len(us) : us[i].id = run.id => \E j \in 1 .. Len(rs) : rs[j].id = run.id /\ us[i].call = rs[j].call
      BY <2>1, <2>3, <2>5, <2>6
    <3>5. ~Unnamed(rs, run.id)
      BY <2>1 DEF Unnamed
    <3>6. QED
      BY <3>1, <3>2, <3>3, <3>4, <3>5 DEF TreesMoved
  <2>8. QED
    BY <2>2, <2>4, <2>7
<1>6. QED
  BY <1>3, <1>4, <1>5

-----------------------------------------------------------------------------
(* Runs and their trees.                                                   *)

RunSet == [id : Nat, call : Nat, held : BOOLEAN, live : BOOLEAN, orderly : BOOLEAN,
           is : [Who -> States], logged : [Who -> States]]

AloneIn(mk, r) == \A q \in 1 .. Len(mk) : mk[q].id = mk[r].id => q = r
(* No other run has its id, and no edge of it was overtaken by the next.   *)
Followed(mk, r) == mk[r].orderly /\ AloneIn(mk, r)

TreeFits(t, lg) ==
    t.state = lg[ItSelf] /\ t.open = (lg[ItSelf] = "running") /\ PhasesFit(t.phases, lg)

(* The trees have the run as it was logged. *)
RunDrawn(rs, run) ==
    \/ run.logged[ItSelf] = "none" /\ Unnamed(rs, run.id) /\ \A m \in Members : run.logged[m] = "none"
    \/ /\ run.logged[ItSelf] # "none"
       /\ \E i \in 1 .. Len(rs) : rs[i].id = run.id /\ TreeFits(rs[i], run.logged)

TreeOfRun(t, mk) == \E q \in 1 .. Len(mk) : t.id = mk[q].id /\ t.call = mk[q].call

Forest(rs, mk) ==
    /\ TreesApart(rs)
    /\ \A i \in 1 .. Len(rs) : TreeOfRun(rs[i], mk)
    /\ \A q \in 1 .. Len(mk) : Followed(mk, q) => RunDrawn(rs, mk[q])

(* An edge of r in state st of its member m was logged. *)
Landed(mk, nk, r, m, st) ==
    /\ nk \in Seq(RunSet) /\ Len(nk) = Len(mk)
    /\ \A q \in 1 .. Len(mk) : q # r => nk[q] = mk[q]
    /\ \A q \in 1 .. Len(mk) :
          /\ nk[q].id = mk[q].id /\ nk[q].call = mk[q].call /\ nk[q].held = mk[q].held
          /\ nk[q].live = mk[q].live /\ nk[q].is = mk[q].is
    /\ nk[r].logged = [mk[r].logged EXCEPT ![m] = st]
    /\ nk[r].orderly => /\ mk[r].orderly /\ Follows(mk[r].logged, m, st)
                        /\ st = "running" /\ m # ItSelf => mk[r].logged[ItSelf] # "none"

(* The phases tell of the members only. *)
LEMMA PhasesSame ==
    ASSUME NEW lg, NEW l2, \A m \in Members : l2[m] = lg[m], NEW ps, PhasesFit(ps, lg)
    PROVE  PhasesFit(ps, l2)
<1>1. ASSUME NEW i \in 1 .. Len(ps) PROVE PhaseFits(ps[i], l2)
  <2> DEFINE x == ps[i]
  <2>1. PhaseFits(x, lg)
    BY DEF PhasesFit
  <2> HIDE DEF x
  <2>2. MembersFit(x.members, lg, x.title)
    BY <2>1 DEF PhaseFits
  <2>3. \A j \in 1 .. Len(x.members) : MemberFits(x.members[j], l2, x.title)
    BY <2>2 DEF MembersFit, MemberFits
  <2>4. MembersFit(x.members, l2, x.title)
    BY <2>2, <2>3 DEF MembersFit
  <2>5. QED
    BY <2>1, <2>4 DEF PhaseFits, x
<1>2. QED
  BY <1>1 DEF PhasesFit

(* The row of an edge, and what becomes of the trees. *)
LEMMA ForestStep ==
    ASSUME NEW mk \in Seq(RunSet), NEW nk, NEW r \in 1 .. Len(mk), NEW m \in Who, NEW st,
           st = "running" \/ st \in Ended, Landed(mk, nk, r, m, st),
           NEW rs, Forest(rs, mk)
    PROVE  Forest(RunsApply(rs, EdgeRow(mk[r], m, st)), nk)
<1> DEFINE run == mk[r]
           row == EdgeRow(run, m, st)
           us == RunsApply(rs, row)
           lg == run.logged
           l2 == nk[r].logged
<1>0. ItSelf \in Who /\ Members \subseteq Who /\ ItSelf \notin Members /\ (m # ItSelf => m \in Members)
  BY ProjectionsAssumption DEF Who, ItSelf
<1>1. /\ row.kind = "edge" /\ row.run = run.id /\ row.call = run.call /\ row.member = m /\ row.state = st
      /\ m # ItSelf => row.phase = PhaseOf[m]
  BY DEF EdgeRow
<1>2. run \in RunSet /\ lg \in [Who -> States] /\ run.id \in Nat
  <2>1. run \in RunSet
    OBVIOUS
  <2> HIDE DEF run, row, us
  <2>2. QED
    BY <2>1 DEF RunSet
<1>3. /\ Len(nk) = Len(mk)
      /\ \A q \in 1 .. Len(mk) : q # r => nk[q] = mk[q]
      /\ \A q \in 1 .. Len(mk) : nk[q].id = mk[q].id /\ nk[q].call = mk[q].call
      /\ l2 = [lg EXCEPT ![m] = st]
      /\ nk[r].orderly => /\ run.orderly /\ Follows(lg, m, st)
                          /\ st = "running" /\ m # ItSelf => lg[ItSelf] # "none"
  BY DEF Landed
<1>4. /\ TreesApart(rs)
      /\ \A i \in 1 .. Len(rs) : TreeOfRun(rs[i], mk)
      /\ \A q \in 1 .. Len(mk) : Followed(mk, q) => RunDrawn(rs, mk[q])
  BY DEF Forest
<1> HIDE DEF row
<1>5. TreesApart(us) /\ TreesMoved(rs, us, run, row)
  BY <1>1, <1>4, TreesStep
<1> HIDE DEF us, run, lg, l2
<1>6. /\ \A i \in 1 .. Len(us) : us[i].id # run.id => \E j \in 1 .. Len(rs) : us[i] = rs[j]
      /\ \A j \in 1 .. Len(rs) : rs[j].id # run.id => \E i \in 1 .. Len(us) : us[i] = rs[j]
      /\ \A j \in 1 .. Len(rs) : rs[j].id = run.id => \E i \in 1 .. Len(us) : us[i] = TreeAfter(rs[j], row)
      /\ \A i \in 1 .. Len(us) : us[i].id = run.id =>
            \/ us[i].call = run.call
            \/ \E j \in 1 .. Len(rs) : rs[j].id = run.id /\ us[i].call = rs[j].call
      /\ Unnamed(rs, run.id) /\ row.member = ItSelf => \E i \in 1 .. Len(us) : us[i] = TreeOpened(run, row.state)
  BY <1>5 DEF TreesMoved
<1>7. ASSUME NEW i \in 1 .. Len(us) PROVE TreeOfRun(us[i], nk)
  <2>1. CASE us[i].id # run.id
    <3>1. PICK j \in 1 .. Len(rs) : us[i] = rs[j]
      BY <1>6, <2>1
    <3>2. QED
      BY <1>3, <1>4, <3>1 DEF TreeOfRun
  <2>2. CASE us[i].id = run.id /\ us[i].call = run.call
    <3>1. us[i].id = nk[r].id /\ us[i].call = nk[r].call
      BY <1>3, <2>2 DEF run
    <3>2. QED
      BY <1>3, <3>1 DEF TreeOfRun
  <2>3. CASE us[i].id = run.id /\ us[i].call # run.call
    <3>1. PICK j \in 1 .. Len(rs) : rs[j].id = run.id /\ us[i].call = rs[j].call
      BY <1>6, <2>3
    <3>2. TreeOfRun(rs[j], mk)
      BY <1>4
    <3>3. QED
      BY <1>3, <2>3, <3>1, <3>2 DEF TreeOfRun
  <2>4. QED
    BY <2>1, <2>2, <2>3
<1>8. ASSUME NEW q \in 1 .. Len(nk), Followed(nk, q), q # r PROVE RunDrawn(us, nk[q])
  <2>1. q \in 1 .. Len(mk) /\ nk[q] = mk[q] /\ mk[q].id # run.id
    BY <1>3, <1>8 DEF Followed, AloneIn, run
  <2>2. Followed(mk, q)
    BY <1>3, <1>8, <2>1 DEF Followed, AloneIn
  <2> DEFINE other == mk[q]
  <2>3. RunDrawn(rs, other) /\ other.id # run.id
    BY <1>4, <2>1, <2>2
  <2> HIDE DEF other
  <2>4. RunDrawn(us, other)
    <3>1. CASE other.logged[ItSelf] = "none"
      <4>1. Unnamed(rs, other.id) /\ \A d \in Members : other.logged[d] = "none"
        BY <2>3, <3>1 DEF RunDrawn
      <4>2. Unnamed(us, other.id)
        BY <1>6, <2>3, <4>1 DEF Unnamed
      <4>3. QED
        BY <3>1, <4>1, <4>2 DEF RunDrawn
    <3>2. CASE other.logged[ItSelf] # "none"
      <4>1. PICK j \in 1 .. Len(rs) : rs[j].id = other.id /\ TreeFits(rs[j], other.logged)
        BY <2>3, <3>2 DEF RunDrawn
      <4>2. PICK i \in 1 .. Len(us) : us[i] = rs[j]
        BY <1>6, <2>3, <4>1
      <4>3. QED
        BY <3>2, <4>1, <4>2 DEF RunDrawn
    <3>3. QED
      BY <3>1, <3>2
  <2>5. QED
    BY <2>1, <2>4 DEF other
<1>9. ASSUME Followed(nk, r) PROVE RunDrawn(us, nk[r])
  <2>1. /\ run.orderly /\ Follows(lg, m, st)
        /\ st = "running" /\ m # ItSelf => lg[ItSelf] # "none"
    BY <1>3, <1>9 DEF Followed
  <2>2. RunDrawn(rs, run)
    <3>1. Followed(mk, r)
      BY <1>3, <1>9, <2>1 DEF Followed, AloneIn, run
    <3>2. QED
      BY <1>4, <3>1 DEF run
  <2>3. nk[r].id = run.id /\ nk[r].logged = l2
    BY <1>3 DEF run, l2
  <2>4. \A d \in Who : l2[d] = IF d = m THEN st ELSE lg[d]
    BY <1>2, <1>3
  <2>5. st # "none"
    BY DEF Ended
  <2>6. CASE lg[ItSelf] = "none"
    <3>1. Unnamed(rs, run.id) /\ \A d \in Members : lg[d] = "none"
      BY <2>2, <2>6 DEF RunDrawn, lg
    <3>2. m = ItSelf /\ st = "running"
      <4>1. m \in Members => lg[m] = "none"
        BY <3>1
      <4>2. lg[m] = "none"
        BY <1>0, <2>6, <4>1
      <4>3. st = "running"
        BY <2>1, <4>2 DEF Follows
      <4>4. QED
        BY <2>1, <2>6, <4>3
    <3>3. PICK i \in 1 .. Len(us) : us[i] = TreeOpened(run, st)
      BY <1>1, <1>6, <3>1, <3>2
    <3> DEFINE t == TreeOpened(run, st)
               op == st = "running"
    <3>4. t.id = run.id /\ t.state = st /\ t.open = op /\ t.phases = <<>>
      <4>1. t = [id |-> run.id, call |-> run.call, state |-> st, open |-> op, phases |-> <<>>]
        BY DEF TreeOpened
      <4> HIDE DEF t, op
      <4>2. QED
        BY <4>1
    <3>5. l2[ItSelf] = st /\ \A d \in Members : l2[d] = "none"
      BY <1>0, <2>4, <3>1, <3>2
    <3>6. PhasesFit(<<>>, l2)
      BY <3>5, EmptyIsSequence DEF PhasesFit
    <3> HIDE DEF t
    <3>7. TreeFits(t, l2)
      BY <3>4, <3>5, <3>6 DEF TreeFits
    <3>8. QED
      BY <2>3, <2>5, <3>3, <3>4, <3>5, <3>7 DEF RunDrawn, t
  <2>7. CASE lg[ItSelf] # "none"
    <3>1. PICK k \in 1 .. Len(rs) : rs[k].id = run.id /\ TreeFits(rs[k], lg)
      BY <2>2, <2>7 DEF RunDrawn, lg
    <3> DEFINE t == TreeAfter(rs[k], row)
    <3>2. PICK i \in 1 .. Len(us) : us[i] = t
      BY <1>6, <3>1
    <3>3. PhasesFit(rs[k].phases, lg)
      BY <3>1 DEF TreeFits
    <3>4. CASE m = ItSelf
      <4> DEFINE op == st = "running"
                 ps == rs[k].phases
      <4>1. t = [id |-> rs[k].id, call |-> rs[k].call, state |-> st, open |-> op, phases |-> ps]
        BY <1>1, <3>4 DEF TreeAfter
      <4>2. t.id = run.id /\ t.state = st /\ t.open = op /\ t.phases = ps
        <5> HIDE DEF t, op, ps
        <5>1. QED
          BY <3>1, <4>1
      <4>3. l2[ItSelf] = st /\ \A d \in Members : l2[d] = lg[d]
        BY <1>0, <2>4, <3>4
      <4>4. PhasesFit(ps, l2)
        <5> HIDE DEF ps
        <5>1. QED
          BY <3>3, <4>3, PhasesSame DEF ps
      <4> HIDE DEF t, ps
      <4>5. TreeFits(t, l2)
        BY <4>2, <4>3, <4>4 DEF TreeFits
      <4>6. QED
        BY <2>3, <2>5, <3>2, <4>2, <4>3, <4>5 DEF RunDrawn
    <3>5. CASE m # ItSelf
      <4> DEFINE ps == PhasesApply(rs[k].phases, row)
      <4>1. t = [id |-> rs[k].id, call |-> rs[k].call, state |-> rs[k].state, open |-> rs[k].open, phases |-> ps]
        BY <1>1, <3>5 DEF TreeAfter
      <4>2. t.id = run.id /\ t.state = rs[k].state /\ t.open = rs[k].open /\ t.phases = ps
        <5> HIDE DEF t, ps
        <5>1. QED
          BY <3>1, <4>1
      <4>3. l2[ItSelf] = lg[ItSelf]
        BY <1>0, <2>4, <3>5
      <4>4. PhasesFit(ps, l2)
        <5>1. PhasesFit(ps, [lg EXCEPT ![m] = st])
          BY <1>0, <1>1, <1>2, <2>1, <3>3, <3>5, PhasesStep
        <5>2. QED
          BY <1>3, <5>1
      <4> HIDE DEF t, ps
      <4>5. TreeFits(t, l2)
        BY <3>1, <4>2, <4>3, <4>4 DEF TreeFits
      <4>6. QED
        BY <2>3, <2>7, <3>2, <4>2, <4>3, <4>5 DEF RunDrawn
    <3>6. QED
      BY <3>4, <3>5
  <2>8. QED
    BY <2>6, <2>7
<1>10. QED
  BY <1>5, <1>7, <1>8, <1>9 DEF Forest, us, row, run

(* The runs went on, but nothing was logged. *)
SameLogs(mk, nk) ==
    /\ Len(nk) = Len(mk)
    /\ \A q \in 1 .. Len(mk) :
          nk[q].id = mk[q].id /\ nk[q].call = mk[q].call /\ nk[q].orderly = mk[q].orderly /\ nk[q].logged = mk[q].logged

LEMMA ForestSame ==
    ASSUME NEW mk, NEW nk, SameLogs(mk, nk), NEW rs, Forest(rs, mk)
    PROVE  Forest(rs, nk)
<1>1. \A i \in 1 .. Len(rs) : TreeOfRun(rs[i], nk)
  BY DEF Forest, SameLogs, TreeOfRun
<1>2. ASSUME NEW q \in 1 .. Len(nk), Followed(nk, q) PROVE RunDrawn(rs, nk[q])
  <2>1. Followed(mk, q) /\ q \in 1 .. Len(mk)
    BY <1>2 DEF Followed, AloneIn, SameLogs
  <2>2. RunDrawn(rs, mk[q])
    BY <2>1 DEF Forest
  <2>3. nk[q].id = mk[q].id /\ nk[q].logged = mk[q].logged
    BY <2>1 DEF SameLogs
  <2>4. QED
    BY <2>2, <2>3 DEF RunDrawn
<1>3. QED
  BY <1>1, <1>2 DEF Forest

(* One more run, of which nothing is logged yet. *)
LEMMA ForestOpens ==
    ASSUME NEW mk \in Seq(RunSet), NEW new, \A m \in Who : new.logged[m] = "none",
           NEW rs, Forest(rs, mk)
    PROVE  Forest(rs, Append(mk, new))
<1> DEFINE nk == Append(mk, new)
           n == Len(mk)
<1>0. IsSequence(mk)
  BY DEF IsSequence
<1>1. /\ n \in Nat /\ Len(nk) = n + 1
      /\ \A q \in 1 .. n : nk[q] = mk[q]
      /\ nk[n + 1] = new
  BY <1>0, LongerSequence
<1> HIDE DEF nk
<1>2. /\ \A q \in 1 .. Len(nk) : q \in 1 .. n \/ q = n + 1
      /\ \A q \in 1 .. n : q \in 1 .. Len(nk) /\ q # n + 1
      /\ n + 1 \in 1 .. Len(nk)
  BY <1>1
<1> HIDE DEF n
<1>3. /\ TreesApart(rs)
      /\ \A i \in 1 .. Len(rs) : TreeOfRun(rs[i], mk)
      /\ \A q \in 1 .. n : Followed(mk, q) => RunDrawn(rs, mk[q])
  BY DEF Forest, n
<1>4. \A i \in 1 .. Len(rs) : TreeOfRun(rs[i], nk)
  BY <1>1, <1>2, <1>3 DEF TreeOfRun, n
<1>5. ASSUME NEW q \in 1 .. Len(nk), Followed(nk, q) PROVE RunDrawn(rs, nk[q])
  <2>1. CASE q \in 1 .. n
    <3>1. nk[q] = mk[q] /\ Followed(mk, q)
      BY <1>1, <1>2, <1>5, <2>1 DEF Followed, AloneIn, n
    <3>2. QED
      BY <1>3, <2>1, <3>1
  <2>2. CASE q = n + 1
    <3>1. ASSUME NEW i \in 1 .. Len(rs) PROVE rs[i].id # new.id
      <4>1. PICK p \in 1 .. n : rs[i].id = mk[p].id
        BY <1>3 DEF TreeOfRun, n
      <4>2. nk[p] = mk[p] /\ p \in 1 .. Len(nk) /\ p # q
        BY <1>1, <1>2, <2>2
      <4>3. nk[p].id # nk[q].id
        BY <1>5, <4>2 DEF Followed, AloneIn
      <4>4. QED
        BY <1>1, <2>2, <4>1, <4>2, <4>3
    <3>2. Unnamed(rs, new.id)
      BY <3>1 DEF Unnamed
    <3>3. RunDrawn(rs, new)
      BY <3>2 DEF RunDrawn, Who
    <3>4. QED
      BY <1>1, <2>2, <3>3
  <2>3. QED
    BY <1>2, <2>1, <2>2
<1>6. QED
  BY <1>3, <1>4, <1>5 DEF Forest, nk

-----------------------------------------------------------------------------
(* What is shown, and what is under way.                                   *)

MemberHappened(x, is) == x.id \in Members /\ x.state \in {"running", is[x.id]} /\ x.state # "none"

(* The tree says of a run nothing that has not happened. *)
Happened(t, is) ==
    /\ t.state \in {"running", is[ItSelf]}
    /\ \A i \in DOMAIN t.phases : \A j \in DOMAIN t.phases[i].members :
          MemberHappened(t.phases[i].members[j], is)

Told(t, mk) ==
    /\ TreeOfRun(t, mk)
    /\ \A q \in 1 .. Len(mk) : Followed(mk, q) /\ t.call = mk[q].call => Happened(t, mk[q].is)

RunIs(run) ==
    /\ run.is[ItSelf] # "none"
    /\ run.held => run.live /\ run.is[ItSelf] = "running"
    /\ \A m \in Who : run.logged[m] \in {"none", "running", run.is[m]}

RunsFit(mk, n) ==
    /\ mk \in Seq(RunSet)
    /\ \A q \in 1 .. Len(mk) : RunIs(mk[q]) /\ mk[q].call <= n
    /\ \A p, q \in 1 .. Len(mk) : mk[p].call = mk[q].call => p = q
    /\ \A p, q \in 1 .. Len(mk) : mk[p].held /\ mk[q].held => p = q

(* The trees of the log say what has happened. *)
LEMMA ForestTold ==
    ASSUME NEW mk, NEW n, RunsFit(mk, n), NEW rs, Forest(rs, mk), NEW i \in 1 .. Len(rs)
    PROVE  Told(rs[i], mk)
<1> DEFINE t == rs[i]
<1>0. ItSelf \in Who /\ Members \subseteq Who
  BY DEF Who
<1>1. TreesApart(rs) /\ TreeOfRun(t, mk)
  BY DEF Forest
<1>2. ASSUME NEW q \in 1 .. Len(mk), Followed(mk, q), t.call = mk[q].call PROVE Happened(t, mk[q].is)
  <2> DEFINE run == mk[q]
             lg == run.logged
             is == run.is
  <2>1. t.id = run.id
    BY <1>1, <1>2 DEF TreeOfRun, RunsFit
  <2>2. RunDrawn(rs, run) /\ RunIs(run)
    BY <1>2 DEF Forest, RunsFit
  <2> HIDE DEF run
  <2>3. PICK j \in 1 .. Len(rs) : lg[ItSelf] # "none" /\ rs[j].id = run.id /\ TreeFits(rs[j], lg)
    BY <2>1, <2>2 DEF RunDrawn, Unnamed
  <2>4. j = i
    BY <1>1, <2>1, <2>3 DEF TreesApart
  <2> HIDE DEF t
  <2>5. TreeFits(t, lg)
    BY <2>3, <2>4 DEF t
  <2>6. \A m \in Who : lg[m] \in {"none", "running", is[m]}
    BY <2>2 DEF RunIs
  <2> HIDE DEF lg, is
  <2>7. t.state \in {"running", is[ItSelf]}
    BY <1>0, <2>3, <2>5, <2>6 DEF TreeFits
  <2>8. PhasesFit(t.phases, lg)
    BY <2>5 DEF TreeFits
  <2> DEFINE ps == t.phases
  <2>9. ASSUME NEW a \in DOMAIN ps, NEW b \in DOMAIN ps[a].members PROVE MemberHappened(ps[a].members[b], is)
    <3> HIDE DEF ps
    <3> DEFINE ph == ps[a]
               ms == ph.members
               x == ms[b]
    <3>1. a \in 1 .. Len(ps) /\ PhaseFits(ph, lg)
      BY <2>8, <2>9, SequenceLength DEF PhasesFit, ps
    <3>2. MembersFit(ms, lg, ph.title)
      BY <3>1 DEF PhaseFits
    <3>3. b \in DOMAIN ms
      BY <2>9
    <3> HIDE DEF ph, ms
    <3>4. b \in 1 .. Len(ms)
      BY <3>2, <3>3, SequenceLength DEF MembersFit
    <3>5. MemberFits(x, lg, ph.title)
      BY <3>2, <3>4 DEF MembersFit
    <3> HIDE DEF x
    <3>6. x.id \in Members /\ x.state = lg[x.id] /\ lg[x.id] # "none"
      BY <3>5 DEF MemberFits
    <3>7. QED
      <4>1. MemberHappened(x, is)
        BY <1>0, <2>6, <3>6 DEF MemberHappened
      <4>2. QED
        BY <4>1 DEF x, ms, ph
  <2>10. QED
    BY <2>7, <2>9 DEF Happened, is, run
<1>3. QED
  BY <1>1, <1>2 DEF Told

(* The runs went on: who was over stays as it ended, and a new run has a   *)
(* call of its own.                                                        *)
Later(mk, nk) ==
    /\ \A q \in 1 .. Len(mk) :
          /\ q \in 1 .. Len(nk) /\ nk[q].id = mk[q].id /\ nk[q].call = mk[q].call
          /\ nk[q].orderly => mk[q].orderly
          /\ mk[q].is[ItSelf] # "running" => nk[q].is[ItSelf] = mk[q].is[ItSelf]
          /\ \A m \in Members : mk[q].is[m] \notin {"none", "running"} => nk[q].is[m] = mk[q].is[m]
    /\ \A p \in 1 .. Len(nk), q \in 1 .. Len(mk) : nk[p].call = mk[q].call => p = q

LEMMA ToldStays ==
    ASSUME NEW mk, NEW nk, Later(mk, nk), NEW t, Told(t, mk)
    PROVE  Told(t, nk)
<1>1. PICK p \in 1 .. Len(mk) : t.id = mk[p].id /\ t.call = mk[p].call
  BY DEF Told, TreeOfRun
<1>2. TreeOfRun(t, nk)
  BY <1>1 DEF TreeOfRun, Later
<1>3. ASSUME NEW q \in 1 .. Len(nk), Followed(nk, q), t.call = nk[q].call PROVE Happened(t, nk[q].is)
  <2>1. q = p
    BY <1>1, <1>3 DEF Later
  <2>2. Followed(mk, p)
    BY <1>3, <2>1 DEF Later, Followed, AloneIn
  <2>3. Happened(t, mk[p].is)
    BY <1>1, <2>2 DEF Told
  <2> DEFINE is == mk[p].is
             js == nk[q].is
  <2>4. /\ is[ItSelf] # "running" => js[ItSelf] = is[ItSelf]
        /\ \A m \in Members : is[m] \notin {"none", "running"} => js[m] = is[m]
    BY <2>1 DEF Later
  <2> HIDE DEF is, js
  <2>5. Happened(t, is)
    BY <2>3 DEF is
  <2>6. t.state \in {"running", js[ItSelf]}
    BY <2>4, <2>5 DEF Happened
  <2>7. ASSUME NEW x, MemberHappened(x, is) PROVE MemberHappened(x, js)
    BY <2>4, <2>7 DEF MemberHappened
  <2>8. Happened(t, js)
    BY <2>5, <2>6, <2>7 DEF Happened
  <2>9. QED
    BY <2>8 DEF js
<1>4. QED
  BY <1>2, <1>3 DEF Told

EdgeFits(e, mk) ==
    /\ e = [run |-> e.run, member |-> e.member, state |-> e.state, at |-> e.at, tree |-> e.tree]
    /\ e.run \in 1 .. Len(mk) /\ e.member \in Who
    /\ e.state # "running" => e.state \in Ended /\ e.state = mk[e.run].is[e.member]
    /\ mk[e.run].is[e.member] # "none"
    /\ e.at = "emit" => Told(e.tree, mk)

Waits(es, r, m, st) == \E e \in es : e.run = r /\ e.member = m /\ e.state = st /\ e.at = "append"

(* What has happened in a run is logged or about to be. *)
Due(es, mk) ==
    \A r \in 1 .. Len(mk) : mk[r].live /\ mk[r].orderly =>
        \A m \in Who : mk[r].logged[m] = mk[r].is[m] \/ Waits(es, r, m, mk[r].is[m])

ShownFits(sh, mk) == \A c \in DOMAIN sh : sh[c].call = c /\ Told(sh[c], mk)

RunsInv(l, mk, es, sh) ==
    /\ RunsFit(mk, Len(l)) /\ Forest(WorkflowRuns(l), mk)
    /\ \A e \in es : EdgeFits(e, mk)
    /\ Due(es, mk) /\ ShownFits(sh, mk)

LEMMA ShownStays ==
    ASSUME NEW mk, NEW nk, Later(mk, nk), NEW sh, ShownFits(sh, mk)
    PROVE  ShownFits(sh, nk)
  BY ToldStays DEF ShownFits

LEMMA EdgeStays ==
    ASSUME NEW mk, NEW nk, Later(mk, nk), NEW e, EdgeFits(e, mk), nk[e.run].is[e.member] # "none"
    PROVE  EdgeFits(e, nk)
<1>1. e.at = "emit" => Told(e.tree, nk)
  BY ToldStays DEF EdgeFits
<1>2. e.run \in 1 .. Len(mk) /\ e.run \in 1 .. Len(nk)
  BY DEF EdgeFits, Later
<1>3. ASSUME e.state \in Ended PROVE e.state = nk[e.run].is[e.member]
  <2> DEFINE is == mk[e.run].is
             js == nk[e.run].is
  <2>1. e.state = is[e.member] /\ e.state \notin {"none", "running"} /\ e.member \in Who
    BY <1>3 DEF EdgeFits, Ended
  <2>2. /\ is[ItSelf] # "running" => js[ItSelf] = is[ItSelf]
        /\ \A m \in Members : is[m] \notin {"none", "running"} => js[m] = is[m]
    BY <1>2 DEF Later
  <2> HIDE DEF is, js
  <2>3. js[e.member] = is[e.member]
    BY <2>1, <2>2 DEF Who
  <2>4. QED
    BY <2>1, <2>3 DEF is, js
<1>4. e.state # "running" => e.state \in Ended
  BY DEF EdgeFits
<1>5. /\ e = [run |-> e.run, member |-> e.member, state |-> e.state, at |-> e.at, tree |-> e.tree]
      /\ e.member \in Who
  BY DEF EdgeFits
<1>6. QED
  BY <1>1, <1>2, <1>3, <1>4, <1>5 DEF EdgeFits

-----------------------------------------------------------------------------
(* What the steps of runs and tasks do.                                    *)

(* Only the run r changes, and of it only what one of it does and whether  *)
(* its call waits for it.                                                  *)
Ran(mk, nk, r, m, st, h) ==
    /\ nk \in Seq(RunSet) /\ Len(nk) = Len(mk)
    /\ \A q \in 1 .. Len(mk) : q # r => nk[q] = mk[q]
    /\ \A q \in 1 .. Len(mk) :
          /\ nk[q].id = mk[q].id /\ nk[q].call = mk[q].call /\ nk[q].live = mk[q].live
          /\ nk[q].orderly = mk[q].orderly /\ nk[q].logged = mk[q].logged
    /\ nk[r].held = h /\ nk[r].is = [mk[r].is EXCEPT ![m] = st]

NewEdge(r, m, st) == [run |-> r, member |-> m, state |-> st, at |-> "append", tree |-> NoTree]

LEMMA RunTyped ==
    ASSUME NEW mk \in Seq(RunSet), NEW r \in 1 .. Len(mk)
    PROVE  /\ mk[r] \in RunSet /\ mk[r].id \in Nat /\ mk[r].call \in Nat
           /\ mk[r].is \in [Who -> States] /\ mk[r].logged \in [Who -> States]
<1> DEFINE run == mk[r]
<1>1. run \in RunSet
  OBVIOUS
<1> HIDE DEF run
<1>2. /\ run \in RunSet /\ run.id \in Nat /\ run.call \in Nat
      /\ run.is \in [Who -> States] /\ run.logged \in [Who -> States]
  BY <1>1 DEF RunSet
<1>3. QED
  BY <1>2 DEF run

(* A member starts or ends, the run ends, its call is dropped. *)
LEMMA RunsMoveOn ==
    ASSUME NEW l, NEW mk, NEW es, NEW sh, RunsInv(l, mk, es, sh),
           NEW r \in 1 .. Len(mk), NEW m \in Who, NEW st \in {"running", "done", "failed"}, NEW h, NEW nk,
           Ran(mk, nk, r, m, st, h),
           mk[r].is[m] # "running" => mk[r].is[m] = "none" /\ st = "running",
           h => mk[r].held /\ (m = ItSelf => st = "running"),
           NEW ll, WorkflowRuns(ll) = WorkflowRuns(l), Len(l) \in Nat, Len(ll) \in Nat, Len(ll) >= Len(l),
           NEW ns, ns = es \cup {NewEdge(r, m, st)} \/ (ns = es /\ st = mk[r].is[m])
    PROVE  RunsInv(ll, nk, ns, sh)
<1> DEFINE is == mk[r].is
           js == nk[r].is
           n == Len(mk)
<1>1. /\ mk \in Seq(RunSet)
      /\ \A q \in 1 .. n : RunIs(mk[q]) /\ mk[q].call <= Len(l)
      /\ \A p, q \in 1 .. n : mk[p].call = mk[q].call => p = q
      /\ \A p, q \in 1 .. n : mk[p].held /\ mk[q].held => p = q
  BY DEF RunsInv, RunsFit
<1>2. /\ nk \in Seq(RunSet) /\ Len(nk) = n
      /\ \A q \in 1 .. n : q # r => nk[q] = mk[q]
      /\ \A q \in 1 .. n :
            /\ nk[q].id = mk[q].id /\ nk[q].call = mk[q].call /\ nk[q].live = mk[q].live
            /\ nk[q].orderly = mk[q].orderly /\ nk[q].logged = mk[q].logged
      /\ nk[r].held = h
  BY DEF Ran
<1>3. \A d \in Who : js[d] = IF d = m THEN st ELSE is[d]
  <2>1. is \in [Who -> States]
    BY <1>1, RunTyped
  <2>2. js = [is EXCEPT ![m] = st]
    BY DEF Ran
  <2> HIDE DEF is, js
  <2>3. QED
    BY <2>1, <2>2
<1>4. ItSelf \in Who /\ Members \subseteq Who
  BY DEF Who
<1>5. is[m] # "running" => is[m] = "none" /\ st = "running"
  OBVIOUS
<1> DEFINE run == mk[r]
           ron == nk[r]
<1>6. RunIs(ron)
  <2>1. RunIs(run) /\ ron.live = run.live /\ ron.logged = run.logged /\ run.is = is /\ ron.is = js /\ ron.held = h
    BY <1>1, <1>2
  <2>2. h => run.held /\ (m = ItSelf => st = "running")
    OBVIOUS
  <2> HIDE DEF is, js, run, ron
  <2>3. \A d \in Who : ron.logged[d] \in {"none", "running", js[d]}
    BY <1>3, <1>5, <2>1 DEF RunIs
  <2>4. js[ItSelf] # "none" /\ (h => js[ItSelf] = "running")
    BY <1>3, <1>4, <2>1, <2>2 DEF RunIs
  <2>5. QED
    BY <2>1, <2>2, <2>3, <2>4 DEF RunIs
<1>7. RunsFit(nk, Len(ll))
  <2>1. ASSUME NEW q \in 1 .. n PROVE RunIs(nk[q]) /\ nk[q].call <= Len(ll)
    <3>1. RunIs(nk[q])
      BY <1>1, <1>2, <1>6
    <3>2. mk[q].call \in Nat /\ mk[q].call <= Len(l)
      BY <1>1, RunTyped
    <3>3. nk[q].call = mk[q].call
      BY <1>2
    <3>4. QED
      BY <3>1, <3>2, <3>3
  <2>2. \A p, q \in 1 .. n : nk[p].call = nk[q].call => p = q
    BY <1>1, <1>2
  <2>3. \A q \in 1 .. n : nk[q].held => mk[q].held
    BY <1>2
  <2>4. \A p, q \in 1 .. n : nk[p].held /\ nk[q].held => p = q
    BY <1>1, <2>3
  <2>5. QED
    BY <1>2, <2>1, <2>2, <2>4 DEF RunsFit
<1>8. Forest(WorkflowRuns(ll), nk)
  <2>1. SameLogs(mk, nk)
    BY <1>2 DEF SameLogs
  <2>2. Forest(WorkflowRuns(l), mk)
    BY DEF RunsInv
  <2>3. QED
    BY <2>1, <2>2, ForestSame
<1>9. Later(mk, nk)
  <2>1. ASSUME NEW q \in 1 .. n
        PROVE  /\ mk[q].is[ItSelf] # "running" => nk[q].is[ItSelf] = mk[q].is[ItSelf]
               /\ \A d \in Members : mk[q].is[d] \notin {"none", "running"} => nk[q].is[d] = mk[q].is[d]
    <3>1. CASE q # r
      BY <1>2, <3>1
    <3>2. CASE q = r
      <4>1. is[ItSelf] # "none"
        BY <1>1 DEF RunIs
      <4> HIDE DEF is, js
      <4>2. is[ItSelf] # "running" => js[ItSelf] = is[ItSelf]
        BY <1>3, <1>4, <1>5, <4>1
      <4>3. \A d \in Members : is[d] \notin {"none", "running"} => js[d] = is[d]
        BY <1>3, <1>4, <1>5
      <4>4. QED
        BY <3>2, <4>2, <4>3 DEF is, js
    <3>3. QED
      BY <3>1, <3>2
  <2>2. \A p \in 1 .. Len(nk), q \in 1 .. Len(mk) : nk[p].call = mk[q].call => p = q
    BY <1>1, <1>2
  <2>3. QED
    BY <1>2, <2>1, <2>2 DEF Later
<1>10. ASSUME NEW e \in ns PROVE EdgeFits(e, nk)
  <2>1. CASE e \in es
    <3>1. EdgeFits(e, mk)
      BY <2>1 DEF RunsInv
    <3>2. e.run \in 1 .. n /\ e.member \in Who /\ mk[e.run].is[e.member] # "none"
      BY <3>1 DEF EdgeFits
    <3>3. nk[e.run].is[e.member] # "none"
      BY <1>2, <1>3, <3>2
    <3>4. QED
      BY <1>9, <3>1, <3>3, EdgeStays
  <2>2. CASE e \notin es
    <3>1. e = NewEdge(r, m, st)
      BY <2>2
    <3>2. e.run = r /\ e.member = m /\ e.state = st /\ e.at = "append" /\ e.tree = NoTree
      BY <3>1 DEF NewEdge
    <3>3. e = [run |-> e.run, member |-> e.member, state |-> e.state, at |-> e.at, tree |-> e.tree]
      BY <3>1, <3>2 DEF NewEdge
    <3>4. nk[e.run].is[e.member] = st
      BY <1>3, <3>2
    <3>5. QED
      BY <1>2, <3>2, <3>3, <3>4 DEF EdgeFits, Ended
  <2>3. QED
    BY <2>1, <2>2
<1>11. Due(ns, nk)
  <2>1. SUFFICES ASSUME NEW q \in 1 .. n, nk[q].live, nk[q].orderly, NEW d \in Who
                 PROVE  nk[q].logged[d] = nk[q].is[d] \/ Waits(ns, q, d, nk[q].is[d])
    BY <1>2 DEF Due
  <2>2. mk[q].logged[d] = mk[q].is[d] \/ Waits(es, q, d, mk[q].is[d])
    BY <1>2, <2>1 DEF RunsInv, Due
  <2>3. nk[q].logged = mk[q].logged
    BY <1>2
  <2>4. es \subseteq ns
    OBVIOUS
  <2>5. CASE nk[q].is[d] = mk[q].is[d]
    BY <2>2, <2>3, <2>4, <2>5 DEF Waits
  <2>6. CASE nk[q].is[d] # mk[q].is[d]
    <3>1. q = r
      BY <1>2, <2>6
    <3>2. d = m /\ js[m] = st
      BY <1>3, <2>6, <3>1
    <3>3. st # is[m]
      BY <2>6, <3>1, <3>2
    <3>4. NewEdge(r, m, st) \in ns
      BY <3>3
    <3>5. Waits(ns, r, m, st)
      BY <3>4 DEF Waits, NewEdge
    <3>6. QED
      BY <3>1, <3>2, <3>5
  <2>7. QED
    BY <2>5, <2>6
<1>12. ShownFits(sh, nk)
  BY <1>9, ShownStays DEF RunsInv
<1>13. QED
  BY <1>7, <1>8, <1>10, <1>11, <1>12 DEF RunsInv

(* Rows that are no edges. *)
LEMMA RunsRest ==
    ASSUME NEW l, NEW mk, NEW es, NEW sh, RunsInv(l, mk, es, sh),
           NEW ll, WorkflowRuns(ll) = WorkflowRuns(l), Len(l) \in Nat, Len(ll) \in Nat, Len(ll) >= Len(l)
    PROVE  RunsInv(ll, mk, es, sh)
<1>1. /\ mk \in Seq(RunSet)
      /\ \A q \in 1 .. Len(mk) : RunIs(mk[q]) /\ mk[q].call <= Len(l)
  BY DEF RunsInv, RunsFit
<1>2. ASSUME NEW q \in 1 .. Len(mk) PROVE mk[q].call <= Len(ll)
  <2>1. mk[q].call \in Nat /\ mk[q].call <= Len(l)
    BY <1>1, RunTyped
  <2>2. QED
    BY <2>1
<1>3. RunsFit(mk, Len(ll))
  BY <1>2 DEF RunsInv, RunsFit
<1>4. QED
  BY <1>3 DEF RunsInv

(* A task appends its row. *)
LEMMA RunsLand ==
    ASSUME NEW l, NEW mk, NEW es, NEW sh, RunsInv(l, mk, es, sh), IsSequence(l),
           NEW e \in es, e.at = "append", NEW nk, Landed(mk, nk, e.run, e.member, e.state),
           NEW ll, ll = Append(l, EdgeRow(mk[e.run], e.member, e.state)),
           NEW ns, ns = (es \ {e}) \cup {[e EXCEPT !.at = "fold"]}
    PROVE  RunsInv(ll, nk, ns, sh)
<1> DEFINE r == e.run
           m == e.member
           st == e.state
           n == Len(mk)
<1>1. /\ mk \in Seq(RunSet)
      /\ \A q \in 1 .. n : RunIs(mk[q]) /\ mk[q].call <= Len(l)
      /\ \A p, q \in 1 .. n : mk[p].call = mk[q].call => p = q
      /\ \A p, q \in 1 .. n : mk[p].held /\ mk[q].held => p = q
      /\ Forest(WorkflowRuns(l), mk)
      /\ \A d \in es : EdgeFits(d, mk)
  BY DEF RunsInv, RunsFit
<1>2. /\ e = [run |-> r, member |-> m, state |-> st, at |-> e.at, tree |-> e.tree]
      /\ r \in 1 .. n /\ m \in Who
      /\ st # "running" => st \in Ended /\ st = mk[r].is[m]
      /\ mk[r].is[m] # "none"
  BY <1>1 DEF EdgeFits
<1> HIDE DEF r, m, st
<1>3. /\ nk \in Seq(RunSet) /\ Len(nk) = n
      /\ \A q \in 1 .. n : q # r => nk[q] = mk[q]
      /\ \A q \in 1 .. n :
            /\ nk[q].id = mk[q].id /\ nk[q].call = mk[q].call /\ nk[q].held = mk[q].held
            /\ nk[q].live = mk[q].live /\ nk[q].is = mk[q].is
      /\ nk[r].logged = [mk[r].logged EXCEPT ![m] = st]
      /\ nk[r].orderly => /\ mk[r].orderly /\ Follows(mk[r].logged, m, st)
                          /\ st = "running" /\ m # ItSelf => mk[r].logged[ItSelf] # "none"
  BY DEF Landed, r, m, st
<1>4. \A d \in Who : nk[r].logged[d] = IF d = m THEN st ELSE mk[r].logged[d]
  <2>1. mk[r].logged \in [Who -> States]
    BY <1>1, <1>2, RunTyped
  <2>2. QED
    BY <1>2, <1>3, <2>1
<1>5. Len(ll) = Len(l) + 1 /\ Len(l) \in Nat
  BY LongerSequence
<1>6. RunsFit(nk, Len(ll))
  <2>1. ASSUME NEW q \in 1 .. n PROVE RunIs(nk[q]) /\ nk[q].call <= Len(ll)
    <3>1. RunIs(mk[q]) /\ nk[q].is = mk[q].is /\ nk[q].held = mk[q].held /\ nk[q].live = mk[q].live
      BY <1>1, <1>3
    <3>2. \A d \in Who : nk[q].logged[d] \in {"none", "running", mk[q].is[d]}
      <4>1. CASE q = r
        BY <1>2, <1>4, <3>1, <4>1 DEF RunIs
      <4>2. CASE q # r
        BY <1>3, <3>1, <4>2 DEF RunIs
      <4>3. QED
        BY <4>1, <4>2
    <3>3. RunIs(nk[q])
      BY <3>1, <3>2 DEF RunIs
    <3>4. mk[q].call \in Nat /\ mk[q].call <= Len(l) /\ nk[q].call = mk[q].call
      BY <1>1, <1>3, RunTyped
    <3>5. QED
      BY <1>5, <3>3, <3>4
  <2>2. \A p, q \in 1 .. n : nk[p].call = nk[q].call => p = q
    BY <1>1, <1>3
  <2>3. \A p, q \in 1 .. n : nk[p].held /\ nk[q].held => p = q
    BY <1>1, <1>3
  <2>4. QED
    BY <1>3, <2>1, <2>2, <2>3 DEF RunsFit
<1>7. Forest(WorkflowRuns(ll), nk)
  <2> DEFINE rs == WorkflowRuns(l)
             row == EdgeRow(mk[r], m, st)
  <2>1. ll = Append(l, row)
    BY DEF r, m, st
  <2>2. WorkflowRuns(ll) = RunsApply(rs, row)
    BY <2>1, WorkflowRunsViewGrows
  <2>3. Landed(mk, nk, r, m, st)
    BY DEF r, m, st
  <2>4. Forest(rs, mk) /\ (st = "running" \/ st \in Ended)
    BY <1>1, <1>2
  <2> HIDE DEF rs
  <2>5. Forest(RunsApply(rs, row), nk)
    BY <1>1, <1>2, <2>3, <2>4, ForestStep
  <2>6. QED
    BY <2>2, <2>5
<1>8. Later(mk, nk)
  BY <1>1, <1>3 DEF Later
<1>9. ASSUME NEW d \in ns PROVE EdgeFits(d, nk)
  <2>1. ASSUME NEW x \in es PROVE EdgeFits(x, nk)
    <3>1. EdgeFits(x, mk)
      BY <1>1
    <3>2. nk[x.run].is[x.member] # "none"
      BY <1>3, <3>1 DEF EdgeFits
    <3>3. QED
      BY <1>8, <3>1, <3>2, EdgeStays
  <2>2. CASE d = [e EXCEPT !.at = "fold"]
    <3>1. d = [run |-> r, member |-> m, state |-> st, at |-> "fold", tree |-> e.tree]
      BY <1>2, <2>2
    <3>2. EdgeFits(e, nk)
      BY <2>1
    <3>3. d.run = r /\ d.member = m /\ d.state = st /\ d.at = "fold" /\ d.tree = e.tree
      BY <3>1
    <3>4. QED
      BY <3>1, <3>2, <3>3 DEF EdgeFits, r, m, st
  <2>3. QED
    BY <2>1, <2>2
<1>10. Due(ns, nk)
  <2>1. SUFFICES ASSUME NEW q \in 1 .. n, nk[q].live, nk[q].orderly, NEW d \in Who
                 PROVE  nk[q].logged[d] = nk[q].is[d] \/ Waits(ns, q, d, nk[q].is[d])
    BY <1>3 DEF Due
  <2>2. nk[q].is = mk[q].is /\ mk[q].live /\ mk[q].orderly
    BY <1>3, <2>1
  <2>3. mk[q].logged[d] = mk[q].is[d] \/ Waits(es, q, d, mk[q].is[d])
    BY <2>2 DEF RunsInv, Due
  <2>4. \A x \in es : x # e => x \in ns
    OBVIOUS
  <2>5. CASE q = r /\ d = m
    <3>1. nk[r].logged[m] = st /\ Follows(mk[r].logged, m, st)
      BY <1>2, <1>3, <1>4, <2>1, <2>5
    <3>2. CASE st = mk[r].is[m]
      BY <2>2, <2>5, <3>1, <3>2
    <3>3. CASE st # mk[r].is[m]
      <4>1. st = "running" /\ mk[r].logged[m] = "none"
        BY <1>2, <3>1, <3>3 DEF Follows, Ended
      <4>2. Waits(es, r, m, mk[r].is[m])
        BY <1>2, <2>3, <2>5, <4>1
      <4>3. PICK x \in es : x.run = r /\ x.member = m /\ x.state = mk[r].is[m] /\ x.at = "append"
        BY <4>2 DEF Waits
      <4>4. x # e
        BY <3>3, <4>3 DEF st
      <4>5. QED
        BY <2>2, <2>4, <2>5, <4>3, <4>4 DEF Waits
    <3>4. QED
      BY <3>2, <3>3
  <2>6. CASE ~(q = r /\ d = m)
    <3>1. nk[q].logged[d] = mk[q].logged[d]
      BY <1>3, <1>4, <2>6
    <3>2. CASE Waits(es, q, d, mk[q].is[d])
      <4>1. PICK x \in es : x.run = q /\ x.member = d /\ x.state = mk[q].is[d] /\ x.at = "append"
        BY <3>2 DEF Waits
      <4>2. x # e
        BY <2>6, <4>1 DEF r, m
      <4>3. QED
        BY <2>2, <2>4, <4>1, <4>2 DEF Waits
    <3>3. QED
      BY <2>2, <2>3, <3>1, <3>2
  <2>7. QED
    BY <2>5, <2>6
<1>11. ShownFits(sh, nk)
  BY <1>8, ShownStays DEF RunsInv
<1>12. QED
  BY <1>6, <1>7, <1>9, <1>10, <1>11 DEF RunsInv

(* The process starts again, without a task. *)
Stopped(mk, nk) ==
    /\ nk \in Seq(RunSet) /\ Len(nk) = Len(mk)
    /\ \A q \in 1 .. Len(mk) :
          /\ nk[q].id = mk[q].id /\ nk[q].call = mk[q].call /\ nk[q].orderly = mk[q].orderly
          /\ nk[q].is = mk[q].is /\ nk[q].logged = mk[q].logged
          /\ nk[q].live = FALSE /\ nk[q].held = FALSE

LEMMA RunsStopped ==
    ASSUME NEW l, NEW mk, NEW es, NEW sh, RunsInv(l, mk, es, sh), NEW nk, Stopped(mk, nk)
    PROVE  RunsInv(l, nk, {}, sh)
<1> DEFINE n == Len(mk)
<1>1. /\ mk \in Seq(RunSet)
      /\ \A q \in 1 .. n : RunIs(mk[q]) /\ mk[q].call <= Len(l)
      /\ \A p, q \in 1 .. n : mk[p].call = mk[q].call => p = q
      /\ Forest(WorkflowRuns(l), mk)
  BY DEF RunsInv, RunsFit
<1>2. /\ nk \in Seq(RunSet) /\ Len(nk) = n
      /\ \A q \in 1 .. n :
            /\ nk[q].id = mk[q].id /\ nk[q].call = mk[q].call /\ nk[q].orderly = mk[q].orderly
            /\ nk[q].is = mk[q].is /\ nk[q].logged = mk[q].logged
            /\ nk[q].live = FALSE /\ nk[q].held = FALSE
  BY DEF Stopped
<1>3. Later(mk, nk)
  BY <1>1, <1>2 DEF Later
<1>4. Forest(WorkflowRuns(l), nk)
  <2>1. SameLogs(mk, nk)
    BY <1>2 DEF SameLogs
  <2>2. QED
    BY <1>1, <2>1, ForestSame
<1>5. RunsFit(nk, Len(l))
  <2>1. \A q \in 1 .. n : RunIs(nk[q])
    BY <1>1, <1>2 DEF RunIs
  <2>2. QED
    BY <1>1, <1>2, <2>1 DEF RunsFit
<1>6. Due({}, nk)
  BY <1>2 DEF Due
<1>7. ShownFits(sh, nk)
  BY <1>3, ShownStays DEF RunsInv
<1>8. QED
  BY <1>4, <1>5, <1>6, <1>7 DEF RunsInv

(* A run opens, and its first edge. *)
LEMMA RunsOpen ==
    ASSUME NEW l, NEW mk, NEW es, NEW sh, RunsInv(l, mk, es, sh), IsSequence(l),
           \A q \in 1 .. Len(mk) : mk[q].held = FALSE,
           NEW new \in RunSet, new.call = Len(l) + 1, new.live = TRUE,
           \A m \in Who : new.logged[m] = "none" /\ new.is[m] = IF m = ItSelf THEN "running" ELSE "none",
           NEW ll, WorkflowRuns(ll) = WorkflowRuns(l), Len(ll) = Len(l) + 1,
           NEW nk, nk = Append(mk, new),
           NEW ns, ns = es \cup {NewEdge(Len(mk) + 1, ItSelf, "running")}
    PROVE  RunsInv(ll, nk, ns, sh)
<1> DEFINE n == Len(mk)
           e == NewEdge(n + 1, ItSelf, "running")
<1>0. ItSelf \in Who /\ Members \subseteq Who /\ Len(l) \in Nat
  BY SequenceLength DEF Who
<1>1. /\ mk \in Seq(RunSet)
      /\ \A q \in 1 .. n : RunIs(mk[q]) /\ mk[q].call <= Len(l)
      /\ \A p, q \in 1 .. n : mk[p].call = mk[q].call => p = q
      /\ Forest(WorkflowRuns(l), mk)
      /\ \A d \in es : EdgeFits(d, mk)
  BY DEF RunsInv, RunsFit
<1>2. /\ nk \in Seq(RunSet) /\ Len(nk) = n + 1 /\ n \in Nat
      /\ \A q \in 1 .. n : nk[q] = mk[q]
      /\ nk[n + 1] = new
  BY <1>1
<1>3. /\ \A q \in 1 .. n + 1 : q \in 1 .. n \/ q = n + 1
      /\ \A q \in 1 .. n : q \in 1 .. n + 1 /\ q # n + 1
      /\ n + 1 \in 1 .. n + 1
  BY <1>2
<1>4. ASSUME NEW q \in 1 .. n PROVE mk[q].call \in Nat /\ mk[q].call <= Len(l) /\ mk[q].call # new.call
  <2>1. mk[q].call \in Nat /\ mk[q].call <= Len(l)
    BY <1>1, RunTyped
  <2>2. QED
    BY <1>0, <2>1
<1>5. RunIs(new) /\ new.is[ItSelf] = "running"
  BY <1>0 DEF RunIs
<1>6. RunsFit(nk, Len(ll))
  <2>1. ASSUME NEW q \in 1 .. n + 1 PROVE RunIs(nk[q]) /\ nk[q].call <= Len(ll)
    <3>1. CASE q \in 1 .. n
      <4>1. mk[q].call <= Len(ll)
        BY <1>0, <1>4, <3>1
      <4>2. QED
        BY <1>1, <1>2, <3>1, <4>1
    <3>2. CASE q = n + 1
      BY <1>0, <1>2, <1>5, <3>2
    <3>3. QED
      BY <1>3, <3>1, <3>2
  <2>2. \A p, q \in 1 .. n + 1 : nk[p].call = nk[q].call => p = q
    BY <1>1, <1>2, <1>3, <1>4
  <2>3. \A p, q \in 1 .. n + 1 : nk[p].held /\ nk[q].held => p = q
    BY <1>2, <1>3
  <2>4. QED
    BY <1>2, <2>1, <2>2, <2>3 DEF RunsFit
<1>7. Forest(WorkflowRuns(ll), nk)
  BY <1>1, ForestOpens
<1>8. Later(mk, nk)
  <2>1. \A p \in 1 .. n + 1, q \in 1 .. n : nk[p].call = mk[q].call => p = q
    BY <1>1, <1>2, <1>3, <1>4
  <2>2. QED
    BY <1>2, <1>3, <2>1 DEF Later
<1>9. ASSUME NEW d \in ns PROVE EdgeFits(d, nk)
  <2>1. CASE d \in es
    <3>1. EdgeFits(d, mk)
      BY <1>1, <2>1
    <3>2. nk[d.run].is[d.member] # "none"
      BY <1>2, <3>1 DEF EdgeFits
    <3>3. QED
      BY <1>8, <3>1, <3>2, EdgeStays
  <2>2. CASE d = e
    <3>1. d.run = n + 1 /\ d.member = ItSelf /\ d.state = "running" /\ d.at = "append" /\ d.tree = NoTree
      BY <2>2 DEF NewEdge
    <3>2. d = [run |-> d.run, member |-> d.member, state |-> d.state, at |-> d.at, tree |-> d.tree]
      BY <2>2, <3>1 DEF NewEdge
    <3>3. nk[d.run].is[d.member] = "running"
      BY <1>2, <1>5, <3>1
    <3>4. d.run \in 1 .. Len(nk)
      BY <1>2, <1>3, <3>1
    <3>5. QED
      BY <1>0, <3>1, <3>2, <3>3, <3>4 DEF EdgeFits
  <2>3. QED
    BY <2>1, <2>2
<1>10. Due(ns, nk)
  <2>1. SUFFICES ASSUME NEW q \in 1 .. n + 1, nk[q].live, nk[q].orderly, NEW d \in Who
                 PROVE  nk[q].logged[d] = nk[q].is[d] \/ Waits(ns, q, d, nk[q].is[d])
    BY <1>2 DEF Due
  <2>2. CASE q \in 1 .. n
    <3>1. mk[q].logged[d] = mk[q].is[d] \/ Waits(es, q, d, mk[q].is[d])
      BY <1>2, <2>1, <2>2 DEF RunsInv, Due
    <3>2. es \subseteq ns
      OBVIOUS
    <3>3. QED
      BY <1>2, <2>2, <3>1, <3>2 DEF Waits
  <2>3. CASE q = n + 1
    <3>1. nk[q] = new
      BY <1>2, <2>3
    <3>2. /\ e \in ns /\ e.run = q /\ e.member = ItSelf
          /\ e.state = "running" /\ e.at = "append"
      BY <2>3 DEF NewEdge
    <3> HIDE DEF e
    <3>3. Waits(ns, q, ItSelf, "running")
      BY <3>2 DEF Waits
    <3>4. new.logged[d] = "none" /\ new.is[d] = IF d = ItSelf THEN "running" ELSE "none"
      OBVIOUS
    <3>5. CASE d = ItSelf
      BY <3>1, <3>3, <3>4, <3>5
    <3>6. CASE d # ItSelf
      BY <3>1, <3>4, <3>6
    <3>7. QED
      BY <3>5, <3>6
  <2>4. QED
    BY <1>3, <2>2, <2>3
<1>11. ShownFits(sh, nk)
  BY <1>8, ShownStays DEF RunsInv
<1>12. QED
  BY <1>6, <1>7, <1>9, <1>10, <1>11 DEF RunsInv

(* Tasks that come and go past the append. *)
LEMMA RunsShow ==
    ASSUME NEW l, NEW mk, NEW es, NEW sh, RunsInv(l, mk, es, sh),
           NEW ns, \A e \in ns : EdgeFits(e, mk), \A e \in es : e.at = "append" => e \in ns,
           NEW th, ShownFits(th, mk)
    PROVE  RunsInv(l, mk, ns, th)
<1>1. ASSUME NEW r, NEW m, NEW st, Waits(es, r, m, st) PROVE Waits(ns, r, m, st)
  BY <1>1 DEF Waits
<1>2. Due(ns, mk)
  BY <1>1 DEF RunsInv, Due
<1>3. QED
  BY <1>2 DEF RunsInv

LEMMA UpToIsPositive ==
    \A u : u \in Nat => 1 .. u \subseteq Nat \ {0}
  OBVIOUS

(* A task folds the log. *)
LEMMA RunsFold ==
    ASSUME NEW l, NEW mk, NEW es, NEW sh, RunsInv(l, mk, es, sh), NEW e \in es, e.at = "fold",
           NEW k, k = First({i \in DOMAIN WorkflowRuns(l) : WorkflowRuns(l)[i].id = mk[e.run].id}),
           NEW ns, ns = (es \ {e}) \cup (IF k = 0 THEN {} ELSE {[e EXCEPT !.at = "emit", !.tree = WorkflowRuns(l)[k]]})
    PROVE  RunsInv(l, mk, ns, sh)
<1> DEFINE rs == WorkflowRuns(l)
           t == rs[k]
<1>1. Forest(rs, mk) /\ RunsFit(mk, Len(l)) /\ EdgeFits(e, mk) /\ ShownFits(sh, mk) /\ \A d \in es : EdgeFits(d, mk)
  BY DEF RunsInv
<1>2. DOMAIN rs = 1 .. Len(rs) /\ Len(rs) \in Nat
  BY <1>1, SequenceLength DEF Forest, TreesApart
<1>3. ASSUME k # 0 PROVE k \in 1 .. Len(rs)
  <2> DEFINE S == {i \in DOMAIN rs : rs[i].id = mk[e.run].id}
  <2>1. k = First(S)
    OBVIOUS
  <2> DEFINE u == Len(rs)
  <2>2. S \subseteq DOMAIN rs
    OBVIOUS
  <2>3. DOMAIN rs = 1 .. u /\ u \in Nat
    BY <1>2
  <2> HIDE DEF S, u, rs
  <2>4. S \subseteq 1 .. u
    BY <2>2, <2>3
  <2>5. S \subseteq Nat \ {0}
    <3>1. 1 .. u \subseteq Nat \ {0}
      BY <2>3, UpToIsPositive
    <3>2. QED
      BY <2>4, <3>1
  <2>6. k \in S
    BY <1>3, <2>1, <2>5, FirstIs
  <2>7. QED
    BY <2>4, <2>6 DEF u
<1>4. ASSUME NEW d \in ns PROVE EdgeFits(d, mk)
  <2>1. CASE d \in es
    BY <1>1, <2>1
  <2>2. CASE d \notin es
    <3>1. k # 0 /\ d = [e EXCEPT !.at = "emit", !.tree = t]
      BY <2>2
    <3>2. Told(t, mk)
      <4>1. k \in 1 .. Len(rs)
        BY <1>3, <3>1
      <4> HIDE DEF rs
      <4>2. QED
        BY <1>1, <4>1, ForestTold
    <3> HIDE DEF t
    <3>3. e = [run |-> e.run, member |-> e.member, state |-> e.state, at |-> e.at, tree |-> e.tree]
      BY <1>1 DEF EdgeFits
    <3>4. d = [run |-> e.run, member |-> e.member, state |-> e.state, at |-> "emit", tree |-> t]
      BY <3>1, <3>3
    <3>5. d.run = e.run /\ d.member = e.member /\ d.state = e.state /\ d.at = "emit" /\ d.tree = t
      BY <3>4
    <3>6. QED
      BY <1>1, <3>2, <3>4, <3>5 DEF EdgeFits
  <2>3. QED
    BY <2>1, <2>2
<1>5. \A d \in es : d.at = "append" => d \in ns
  OBVIOUS
<1>6. QED
  BY <1>1, <1>4, <1>5, RunsShow

(* A task's event arrives. *)
LEMMA RunsEmit ==
    ASSUME NEW l, NEW mk, NEW es, NEW sh, RunsInv(l, mk, es, sh), NEW e \in es, e.at = "emit",
           NEW th, th = [c \in DOMAIN sh \cup {e.tree.call} |-> IF c = e.tree.call THEN e.tree ELSE sh[c]],
           NEW ns, ns = es \ {e}
    PROVE  RunsInv(l, mk, ns, th)
<1>1. Told(e.tree, mk) /\ ShownFits(sh, mk) /\ \A d \in es : EdgeFits(d, mk)
  BY DEF RunsInv, EdgeFits
<1> DEFINE t == e.tree
<1>2. th = [c \in DOMAIN sh \cup {t.call} |-> IF c = t.call THEN t ELSE sh[c]] /\ Told(t, mk)
  BY <1>1
<1> HIDE DEF t
<1>3. DOMAIN th = DOMAIN sh \cup {t.call} /\ \A c \in DOMAIN th : th[c] = IF c = t.call THEN t ELSE sh[c]
  BY <1>2
<1>4. ShownFits(th, mk)
  BY <1>1, <1>2, <1>3 DEF ShownFits
<1>5. (\A d \in ns : EdgeFits(d, mk)) /\ \A d \in es : d.at = "append" => d \in ns
  BY <1>1
<1>6. QED
  BY <1>4, <1>5, RunsShow

(* The session is loaded. *)
LEMMA RunsReload ==
    ASSUME NEW l, NEW mk, NEW es, NEW sh, RunsInv(l, mk, es, sh),
           NEW th, th = [c \in {WorkflowRuns(l)[i].call : i \in DOMAIN WorkflowRuns(l)} |->
                            WorkflowRuns(l)[Newest({i \in DOMAIN WorkflowRuns(l) : WorkflowRuns(l)[i].call = c})]]
    PROVE  RunsInv(l, mk, es, th)
<1> DEFINE rs == WorkflowRuns(l)
<1>1. /\ Forest(rs, mk) /\ RunsFit(mk, Len(l)) /\ \A d \in es : EdgeFits(d, mk)
      /\ th = [c \in {rs[i].call : i \in DOMAIN rs} |-> rs[Newest({i \in DOMAIN rs : rs[i].call = c})]]
  BY DEF RunsInv
<1> HIDE DEF rs
<1>2. DOMAIN rs = 1 .. Len(rs) /\ Len(rs) \in Nat
  BY <1>1, SequenceLength DEF Forest, TreesApart
<1>3. ASSUME NEW c \in DOMAIN th PROVE th[c].call = c /\ Told(th[c], mk)
  <2> DEFINE S == {i \in DOMAIN rs : rs[i].call = c}
             k == Newest(S)
  <2>1. th[c] = rs[k] /\ c \in {rs[i].call : i \in DOMAIN rs}
    BY <1>1
  <2>2. S \subseteq 1 .. Len(rs) /\ S # {}
    BY <1>2, <2>1
  <2>3. k \in S
    <3> HIDE DEF S
    <3>1. QED
      BY <1>2, <2>2, NewestIs
  <2>4. k \in 1 .. Len(rs) /\ rs[k].call = c
    BY <1>2, <2>3
  <2> HIDE DEF k
  <2>5. QED
    BY <1>1, <2>1, <2>4, ForestTold
<1>4. ShownFits(th, mk)
  BY <1>3 DEF ShownFits
<1>5. QED
  BY <1>1, <1>4, RunsShow

-----------------------------------------------------------------------------
(* What an action makes of the runs.                                       *)

RunWith(a, b, c, d, f, g, k) ==
    [id |-> a, call |-> b, held |-> c, live |-> d, orderly |-> f, is |-> g, logged |-> k]
WholeRun(x) == x = RunWith(x.id, x.call, x.held, x.live, x.orderly, x.is, x.logged)

LEMMA RunWhole ==
    ASSUME NEW x \in RunSet
    PROVE  /\ WholeRun(x)
           /\ x.id \in Nat /\ x.call \in Nat /\ x.held \in BOOLEAN /\ x.live \in BOOLEAN /\ x.orderly \in BOOLEAN
           /\ x.is \in [Who -> States] /\ x.logged \in [Who -> States]
  BY DEF RunSet, WholeRun, RunWith

LEMMA RunFields ==
    ASSUME NEW a, NEW b, NEW c, NEW d, NEW f, NEW g, NEW k
    PROVE  /\ RunWith(a, b, c, d, f, g, k).id = a /\ RunWith(a, b, c, d, f, g, k).call = b
           /\ RunWith(a, b, c, d, f, g, k).held = c /\ RunWith(a, b, c, d, f, g, k).live = d
           /\ RunWith(a, b, c, d, f, g, k).orderly = f /\ RunWith(a, b, c, d, f, g, k).is = g
           /\ RunWith(a, b, c, d, f, g, k).logged = k
           /\ WholeRun(RunWith(a, b, c, d, f, g, k))
  BY DEF RunWith, WholeRun

LEMMA RunOf ==
    ASSUME NEW a \in Nat, NEW b \in Nat, NEW c \in BOOLEAN, NEW d \in BOOLEAN, NEW f \in BOOLEAN,
           NEW g \in [Who -> States], NEW k \in [Who -> States]
    PROVE  RunWith(a, b, c, d, f, g, k) \in RunSet
  BY DEF RunWith, RunSet

LEMMA HeldEdit ==
    ASSUME NEW x, WholeRun(x), NEW v
    PROVE  [x EXCEPT !.held = v] = RunWith(x.id, x.call, v, x.live, x.orderly, x.is, x.logged)
  BY DEF WholeRun, RunWith

LEMMA LiveEdit ==
    ASSUME NEW x, WholeRun(x), NEW v
    PROVE  [x EXCEPT !.live = v] = RunWith(x.id, x.call, x.held, v, x.orderly, x.is, x.logged)
  BY DEF WholeRun, RunWith

LEMMA OrderlyEdit ==
    ASSUME NEW x, WholeRun(x), NEW v
    PROVE  [x EXCEPT !.orderly = v] = RunWith(x.id, x.call, x.held, x.live, v, x.is, x.logged)
  BY DEF WholeRun, RunWith

LEMMA LoggedEdit ==
    ASSUME NEW x, WholeRun(x), NEW v
    PROVE  [x EXCEPT !.logged = v] = RunWith(x.id, x.call, x.held, x.live, x.orderly, x.is, v)
  BY DEF WholeRun, RunWith

LEMMA IsEdit ==
    ASSUME NEW x, WholeRun(x), NEW v, NEW m
    PROVE  [x EXCEPT !.is[m] = v] =
              RunWith(x.id, x.call, x.held, x.live, x.orderly, [x.is EXCEPT ![m] = v], x.logged)
  BY DEF WholeRun, RunWith

RunAfter(x, m, st, h) ==
    RunWith(x.id, x.call, h, x.live, x.orderly, [x.is EXCEPT ![m] = st], x.logged)

LEMMA RunsRan ==
    ASSUME NEW mk \in Seq(RunSet), NEW r \in 1 .. Len(mk), NEW m, NEW st, NEW h,
           RunAfter(mk[r], m, st, h) \in RunSet,
           NEW nk, nk = [mk EXCEPT ![r] = RunAfter(mk[r], m, st, h)]
    PROVE  Ran(mk, nk, r, m, st, h)
<1> DEFINE x == mk[r]
           y == RunAfter(x, m, st, h)
           js == [x.is EXCEPT ![m] = st]
<1>1. y = RunWith(x.id, x.call, h, x.live, x.orderly, js, x.logged)
  BY DEF RunAfter
<1>2. y \in RunSet /\ nk = [mk EXCEPT ![r] = y]
  OBVIOUS
<1> HIDE DEF y, js
<1>3. /\ y.id = x.id /\ y.call = x.call /\ y.held = h /\ y.live = x.live /\ y.orderly = x.orderly
      /\ y.is = js /\ y.logged = x.logged
  BY <1>1, RunFields
<1>4. /\ nk \in Seq(RunSet) /\ Len(nk) = Len(mk) /\ nk[r] = y
      /\ \A q \in 1 .. Len(mk) : q # r => nk[q] = mk[q]
  BY <1>2
<1>5. ASSUME NEW q \in 1 .. Len(mk)
      PROVE  /\ nk[q].id = mk[q].id /\ nk[q].call = mk[q].call /\ nk[q].live = mk[q].live
             /\ nk[q].orderly = mk[q].orderly /\ nk[q].logged = mk[q].logged
  <2>1. CASE q = r
    BY <1>3, <1>4, <2>1
  <2>2. CASE q # r
    BY <1>4, <2>2
  <2>3. QED
    BY <2>1, <2>2
<1>6. nk[r].held = h /\ nk[r].is = [mk[r].is EXCEPT ![m] = st]
  BY <1>3, <1>4 DEF js
<1>7. QED
  BY <1>4, <1>5, <1>6 DEF Ran

(* A member starts or ends. *)
LEMMA MemberRan ==
    ASSUME NEW mk \in Seq(RunSet), NEW r \in 1 .. Len(mk), NEW m \in Who, NEW st \in States,
           NEW nk, nk = [mk EXCEPT ![r].is[m] = st]
    PROVE  Ran(mk, nk, r, m, st, mk[r].held)
<1> DEFINE x == mk[r]
           y == [x EXCEPT !.is[m] = st]
           js == [x.is EXCEPT ![m] = st]
<1>1. x \in RunSet
  OBVIOUS
<1>2. nk = [mk EXCEPT ![r] = y]
  OBVIOUS
<1> HIDE DEF x
<1>3. WholeRun(x)
  BY <1>1, RunWhole
<1>4. y = RunAfter(x, m, st, x.held)
  BY <1>3, IsEdit DEF RunAfter
<1>5. RunAfter(x, m, st, x.held) \in RunSet
  <2>1. js \in [Who -> States]
    BY <1>1, RunWhole
  <2> HIDE DEF js
  <2>2. RunWith(x.id, x.call, x.held, x.live, x.orderly, js, x.logged) \in RunSet
    BY <1>1, <2>1, RunOf, RunWhole
  <2>3. QED
    BY <2>2 DEF RunAfter, js
<1> HIDE DEF y
<1>6. QED
  BY <1>2, <1>4, <1>5, RunsRan DEF x

(* The run ends. *)
LEMMA ClosedRan ==
    ASSUME NEW mk \in Seq(RunSet), NEW r \in 1 .. Len(mk), NEW st \in States,
           NEW nk, nk = [mk EXCEPT ![r].held = FALSE, ![r].is[ItSelf] = st]
    PROVE  Ran(mk, nk, r, ItSelf, st, FALSE)
<1> DEFINE no == FALSE
           x == mk[r]
           w == [x EXCEPT !.held = no]
           y == [w EXCEPT !.is[ItSelf] = st]
           js == [x.is EXCEPT ![ItSelf] = st]
<1>1. x \in RunSet /\ ItSelf \in Who /\ no \in BOOLEAN
  BY DEF Who
<1>2. nk = [mk EXCEPT ![r] = y]
  OBVIOUS
<1> HIDE DEF x, no
<1>3. WholeRun(x)
  BY <1>1, RunWhole
<1>4. w = RunWith(x.id, x.call, no, x.live, x.orderly, x.is, x.logged)
  BY <1>3, HeldEdit
<1> HIDE DEF w
<1>5. /\ WholeRun(w) /\ w.id = x.id /\ w.call = x.call /\ w.held = no /\ w.live = x.live
      /\ w.orderly = x.orderly /\ w.is = x.is /\ w.logged = x.logged
  BY <1>4, RunFields
<1>6. y = RunWith(w.id, w.call, w.held, w.live, w.orderly, [w.is EXCEPT ![ItSelf] = st], w.logged)
  BY <1>5, IsEdit
<1>7. y = RunAfter(x, ItSelf, st, no)
  BY <1>5, <1>6 DEF RunAfter
<1>8. RunAfter(x, ItSelf, st, no) \in RunSet
  <2>1. js \in [Who -> States]
    BY <1>1, RunWhole
  <2> HIDE DEF js
  <2>2. RunWith(x.id, x.call, no, x.live, x.orderly, js, x.logged) \in RunSet
    BY <1>1, <2>1, RunOf, RunWhole
  <2>3. QED
    BY <2>2 DEF RunAfter, js
<1> HIDE DEF y
<1>9. Ran(mk, nk, r, ItSelf, st, no)
  BY <1>2, <1>7, <1>8, RunsRan DEF x
<1>10. QED
  BY <1>9 DEF no

(* Its call is dropped. *)
LEMMA DroppedRan ==
    ASSUME NEW mk \in Seq(RunSet), NEW r \in 1 .. Len(mk), NEW nk, nk = [mk EXCEPT ![r].held = FALSE]
    PROVE  Ran(mk, nk, r, ItSelf, mk[r].is[ItSelf], FALSE)
<1> DEFINE no == FALSE
           x == mk[r]
           y == [x EXCEPT !.held = no]
           st == x.is[ItSelf]
<1>1. x \in RunSet /\ ItSelf \in Who /\ no \in BOOLEAN
  BY DEF Who
<1>2. nk = [mk EXCEPT ![r] = y]
  OBVIOUS
<1> HIDE DEF x, no
<1>3. WholeRun(x)
  BY <1>1, RunWhole
<1>4. [x.is EXCEPT ![ItSelf] = st] = x.is
  <2>1. x.is \in [Who -> States]
    BY <1>1, RunWhole
  <2>2. QED
    BY <1>1, <2>1
<1> HIDE DEF st
<1>5. y = RunWith(x.id, x.call, no, x.live, x.orderly, x.is, x.logged)
  BY <1>3, HeldEdit
<1>6. y = RunAfter(x, ItSelf, st, no)
  BY <1>4, <1>5 DEF RunAfter
<1> HIDE DEF y
<1>7. y \in RunSet
  BY <1>1, <1>5, RunOf, RunWhole
<1>8. Ran(mk, nk, r, ItSelf, st, no)
  BY <1>2, <1>6, <1>7, RunsRan DEF x
<1>9. QED
  BY <1>8 DEF no, st, x

(* A row of the run is logged. *)
LEMMA LoggedEdits ==
    ASSUME NEW x, WholeRun(x), NEW v, NEW k
    PROVE  [[x EXCEPT !.orderly = v] EXCEPT !.logged = k] = RunWith(x.id, x.call, x.held, x.live, v, x.is, k)
<1> DEFINE w == [x EXCEPT !.orderly = v]
<1>1. w = RunWith(x.id, x.call, x.held, x.live, v, x.is, x.logged)
  BY OrderlyEdit
<1> HIDE DEF w
<1>2. /\ WholeRun(w) /\ w.id = x.id /\ w.call = x.call /\ w.held = x.held /\ w.live = x.live
      /\ w.orderly = v /\ w.is = x.is /\ w.logged = x.logged
  BY <1>1, RunFields
<1>3. [w EXCEPT !.logged = k] = RunWith(w.id, w.call, w.held, w.live, w.orderly, w.is, k)
  BY <1>2, LoggedEdit
<1>4. QED
  BY <1>2, <1>3 DEF w

LEMMA RunsLanded ==
    ASSUME NEW mk \in Seq(RunSet), NEW r \in 1 .. Len(mk), NEW m, NEW st, NEW v,
           v => /\ mk[r].orderly /\ Follows(mk[r].logged, m, st)
                /\ st = "running" /\ m # ItSelf => mk[r].logged[ItSelf] # "none",
           NEW y, y = RunWith(mk[r].id, mk[r].call, mk[r].held, mk[r].live, v, mk[r].is, [mk[r].logged EXCEPT ![m] = st]),
           y \in RunSet, NEW nk, nk = [mk EXCEPT ![r] = y]
    PROVE  Landed(mk, nk, r, m, st)
<1> DEFINE x == mk[r]
           lg == [x.logged EXCEPT ![m] = st]
<1>1. x \in RunSet /\ y = RunWith(x.id, x.call, x.held, x.live, v, x.is, lg)
  OBVIOUS
<1>2. y \in RunSet
  OBVIOUS
<1>3. /\ y.id = x.id /\ y.call = x.call /\ y.held = x.held /\ y.live = x.live /\ y.orderly = v
      /\ y.is = x.is /\ y.logged = lg
  <2> HIDE DEF x, lg
  <2>1. QED
    BY <1>1, RunFields
<1> HIDE DEF lg
<1>4. /\ nk \in Seq(RunSet) /\ Len(nk) = Len(mk) /\ nk[r] = y
      /\ \A q \in 1 .. Len(mk) : q # r => nk[q] = mk[q]
  BY <1>2
<1>5. ASSUME NEW q \in 1 .. Len(mk)
      PROVE  /\ nk[q].id = mk[q].id /\ nk[q].call = mk[q].call /\ nk[q].held = mk[q].held
             /\ nk[q].live = mk[q].live /\ nk[q].is = mk[q].is
  <2>1. CASE q = r
    BY <1>3, <1>4, <2>1
  <2>2. CASE q # r
    BY <1>4, <2>2
  <2>3. QED
    BY <2>1, <2>2
<1>6. nk[r].orderly = v /\ nk[r].logged = lg
  BY <1>3, <1>4
<1>7. nk[r].logged = [mk[r].logged EXCEPT ![m] = st]
  BY <1>6 DEF lg
<1>8. nk[r].orderly => /\ mk[r].orderly /\ Follows(mk[r].logged, m, st)
                       /\ st = "running" /\ m # ItSelf => mk[r].logged[ItSelf] # "none"
  BY <1>6
<1>9. QED
  BY <1>4, <1>5, <1>7, <1>8 DEF Landed

LEMMA RowLanded ==
    ASSUME NEW mk \in Seq(RunSet), NEW r \in 1 .. Len(mk), NEW m \in Who, NEW st \in States,
           st # "running" => st \in Ended,
           NEW e, e.member = m, e.state = st,
           NEW v \in BOOLEAN, v => mk[r].orderly /\ InOrder(mk[r], e),
           NEW nk, nk = [mk EXCEPT ![r].orderly = v, ![r].logged[m] = st]
    PROVE  Landed(mk, nk, r, m, st)
<1> DEFINE x == mk[r]
           lg == [x.logged EXCEPT ![m] = st]
           y == [[x EXCEPT !.orderly = v] EXCEPT !.logged = lg]
<1>1. nk = [mk EXCEPT ![r] = y]
  <2>1. [x EXCEPT !.orderly = v].logged = x.logged
    OBVIOUS
  <2>2. [[x EXCEPT !.orderly = v] EXCEPT !.logged[m] = st] = y
    BY <2>1
  <2>3. QED
    BY <2>2
<1>2. x \in RunSet
  OBVIOUS
<1>3. v => /\ x.orderly /\ Follows(x.logged, m, st)
           /\ st = "running" /\ m # ItSelf => x.logged[ItSelf] # "none"
  BY DEF InOrder, Follows
<1> HIDE DEF x
<1>4. WholeRun(x) /\ lg \in [Who -> States]
  BY <1>2, RunWhole
<1>5. y = RunWith(x.id, x.call, x.held, x.live, v, x.is, lg)
  <2> HIDE DEF lg
  <2>1. QED
    BY <1>4, LoggedEdits
<1> HIDE DEF y
<1>6. y \in RunSet
  <2> HIDE DEF lg
  <2>1. QED
    BY <1>2, <1>4, <1>5, RunOf, RunWhole
<1>7. QED
  BY <1>1, <1>3, <1>5, <1>6, RunsLanded DEF x

RunOff(x) == [x EXCEPT !.live = FALSE, !.held = FALSE]

LEMMA RunIsOff ==
    ASSUME NEW x \in RunSet
    PROVE  /\ RunOff(x) \in RunSet
           /\ RunOff(x).id = x.id /\ RunOff(x).call = x.call /\ RunOff(x).orderly = x.orderly
           /\ RunOff(x).is = x.is /\ RunOff(x).logged = x.logged
           /\ RunOff(x).live = FALSE /\ RunOff(x).held = FALSE
<1> DEFINE no == FALSE
           w == [x EXCEPT !.live = no]
           y == [w EXCEPT !.held = no]
<1>1. RunOff(x) = y
  BY DEF RunOff
<1>2. no \in BOOLEAN /\ WholeRun(x)
  BY RunWhole
<1> HIDE DEF no
<1>3. w = RunWith(x.id, x.call, x.held, no, x.orderly, x.is, x.logged)
  BY <1>2, LiveEdit
<1> HIDE DEF w
<1>4. /\ WholeRun(w) /\ w.id = x.id /\ w.call = x.call /\ w.live = no
      /\ w.orderly = x.orderly /\ w.is = x.is /\ w.logged = x.logged
  BY <1>3, RunFields
<1>5. y = RunWith(w.id, w.call, no, w.live, w.orderly, w.is, w.logged)
  BY <1>4, HeldEdit
<1>6. y = RunWith(x.id, x.call, no, no, x.orderly, x.is, x.logged)
  BY <1>4, <1>5
<1> HIDE DEF y
<1>7. y \in RunSet
  BY <1>2, <1>6, RunOf, RunWhole
<1>8. /\ y.id = x.id /\ y.call = x.call /\ y.orderly = x.orderly
      /\ y.is = x.is /\ y.logged = x.logged /\ y.live = no /\ y.held = no
  BY <1>6, RunFields
<1>9. QED
  BY <1>1, <1>7, <1>8 DEF no

LEMMA RestartStopped ==
    ASSUME NEW mk \in Seq(RunSet),
           NEW nk, nk = [r \in DOMAIN mk |-> RunOff(mk[r])]
    PROVE  Stopped(mk, nk)
<1>1. /\ DOMAIN mk = 1 .. Len(mk) /\ Len(mk) \in Nat
      /\ \A r \in 1 .. Len(mk) : mk[r] \in RunSet
  OBVIOUS
<1>2. \A r \in 1 .. Len(mk) : mk[r] \in RunSet /\ RunOff(mk[r]) \in RunSet
  BY <1>1, RunIsOff
<1>3. nk \in Seq(RunSet) /\ Len(nk) = Len(mk) /\ \A r \in 1 .. Len(mk) : nk[r] = RunOff(mk[r])
  BY <1>1, <1>2
<1>4. ASSUME NEW q \in 1 .. Len(mk)
      PROVE  /\ nk[q].id = mk[q].id /\ nk[q].call = mk[q].call /\ nk[q].orderly = mk[q].orderly
             /\ nk[q].is = mk[q].is /\ nk[q].logged = mk[q].logged
             /\ nk[q].live = FALSE /\ nk[q].held = FALSE
  <2> DEFINE x == mk[q]
  <2>1. x \in RunSet /\ nk[q] = RunOff(x)
    BY <1>2, <1>3
  <2> HIDE DEF x
  <2>2. /\ RunOff(x).id = x.id /\ RunOff(x).call = x.call /\ RunOff(x).orderly = x.orderly
        /\ RunOff(x).is = x.is /\ RunOff(x).logged = x.logged
        /\ RunOff(x).live = FALSE /\ RunOff(x).held = FALSE
    BY <2>1, RunIsOff
  <2>3. QED
    BY <2>1, <2>2 DEF x
<1>5. QED
  BY <1>3, <1>4 DEF Stopped

-----------------------------------------------------------------------------
(* The log, its readers and its runs.                                      *)

LEMMA RowUnseen ==
    ASSUME NEW l, IsSequence(l), NEW row
    PROVE  /\ IsSequence(Append(l, row)) /\ Len(l) \in Nat /\ Len(Append(l, row)) = Len(l) + 1
           /\ row.kind # "edge" => WorkflowRuns(Append(l, row)) = WorkflowRuns(l)
           /\ row.kind # "rating" => Feedback(Append(l, row)) = Feedback(l)
<1>1. IsSequence(Append(l, row)) /\ Len(l) \in Nat /\ Len(Append(l, row)) = Len(l) + 1
  BY LongerSequence, SequenceLength
<1>2. WorkflowRuns(Append(l, row)) = RunsApply(WorkflowRuns(l), row)
  BY WorkflowRunsViewGrows
<1>3. ASSUME row.kind # "edge" PROVE WorkflowRuns(Append(l, row)) = WorkflowRuns(l)
  BY <1>2, <1>3 DEF RunsApply
<1>4. Feedback(Append(l, row)) = FeedbackApply(Feedback(l), row)
  BY FeedbackViewGrows
<1>5. ASSUME row.kind # "rating" PROVE Feedback(Append(l, row)) = Feedback(l)
  BY <1>4, <1>5 DEF FeedbackApply
<1>6. QED
  BY <1>1, <1>3, <1>5

LEMMA TwoRows ==
    ASSUME NEW l, IsSequence(l), NEW x, NEW y
    PROVE  l \o <<x, y>> = Append(Append(l, x), y)
<1>1. PICK S : l \in Seq(S)
  BY DEF IsSequence
<1> DEFINE T == S \cup {x, y}
<1>2. l \in Seq(T) /\ x \in T /\ y \in T
  BY <1>1, SeqMonotonic
<1> HIDE DEF T
<1>3. QED
  BY <1>2

(* Calls without their result: that of the run that is waited for. *)
OpenCalls(mk) == IF \E q \in 1 .. Len(mk) : mk[q].held THEN 1 ELSE 0

CountsFit(i, now, mk, l, tm) ==
    /\ i = [turn |-> i.turn, run |-> i.run] /\ i.turn \in Nat \ {0} /\ i.run \in Nat /\ now \in Nat
    /\ Books(l, tm, now, OpenCalls(mk))
    /\ now = 0 => \A q \in 1 .. Len(mk) : mk[q].held = FALSE

Rated(l, rt) == Feedback(l) = [n \in {k \in DOMAIN rt : rt[k] # 0} |-> rt[n]]

ProjInv ==
    /\ CountsFit(ids, nowTurn, made, entries, turnsMade)
    /\ Rated(entries, rated)
    /\ RunsInv(entries, made, edges, shownTree)

LEMMA MadeIs ==
    ASSUME NEW l, NEW mk, NEW es, NEW sh, RunsInv(l, mk, es, sh)
    PROVE  /\ mk \in Seq(RunSet) /\ Len(mk) \in Nat /\ DOMAIN mk = 1 .. Len(mk)
           /\ \A q \in 1 .. Len(mk) : mk[q].held \in BOOLEAN /\ mk[q].live \in BOOLEAN
           /\ \A p, q \in 1 .. Len(mk) : mk[p].held /\ mk[q].held => p = q
<1>1. mk \in Seq(RunSet)
  BY DEF RunsInv, RunsFit
<1>2. \A q \in 1 .. Len(mk) : mk[q] \in RunSet
  BY <1>1
<1>3. QED
  BY <1>1, <1>2, RunWhole DEF RunsInv, RunsFit

LEMMA NoneHeld ==
    ASSUME NEW l, RunsInv(l, made, edges, shownTree), Held = {}
    PROVE  (\A q \in 1 .. Len(made) : made[q].held = FALSE) /\ OpenCalls(made) = 0
<1>1. \A q \in 1 .. Len(made) : ~made[q].held /\ made[q].held \in BOOLEAN
  BY MadeIs DEF Held
<1>2. QED
  BY <1>1 DEF OpenCalls

LEMMA IdleOpensNone ==
    ASSUME NEW mk, \A q \in 1 .. Len(mk) : mk[q].held = FALSE
    PROVE  OpenCalls(mk) = 0
  BY DEF OpenCalls

LEMMA RatedStill ==
    ASSUME NEW l, NEW ll, NEW rt, Rated(l, rt), Feedback(ll) = Feedback(l)
    PROVE  Rated(ll, rt)
  BY DEF Rated

LEMMA ProjStarts ==
    ASSUME ProjInit
    PROVE  ProjInv
<1>1. /\ entries = <<>> /\ ids = [turn |-> 1, run |-> 1] /\ nowTurn = 0
      /\ made = <<>> /\ edges = {} /\ shownTree = <<>> /\ turnsMade = <<>> /\ rated = <<>>
  BY DEF ProjInit
<1>2. Len(<<>>) = 0 /\ DOMAIN <<>> = {} /\ <<>> \in Seq(RunSet)
  OBVIOUS
<1>3. \A q \in 1 .. Len(made) : FALSE
  BY <1>1, <1>2
<1>4. Books(entries, turnsMade, 0, 0)
  <2> DEFINE s == [k \in StatKinds |-> 0]
  <2>1. IsSequence(<<>>)
    BY <1>2 DEF IsSequence
  <2>2. OutlineFits(<<>>, <<>>, 0)
    BY <1>2, <2>1 DEF OutlineFits
  <2>3. StatsFit(s, <<>>, 0)
    <3>1. s \in [StatKinds -> Nat] /\ s["turnStart"] = 0 /\ s["toolCall"] = 0 /\ s["toolResult"] = 0
      BY DEF StatKinds
    <3>2. CallsIn(<<>>) = 0
      BY CallsInOfNothing
    <3> HIDE DEF s
    <3>3. QED
      BY <1>2, <3>1, <3>2 DEF StatsFit
  <2>4. QED
    BY <1>1, <2>1, <2>2, <2>3, TurnOutlineOfNothing, SessionStatsOfNothing DEF Books
<1>5. OpenCalls(made) = 0
  BY <1>3 DEF OpenCalls
<1>6. CountsFit(ids, nowTurn, made, entries, turnsMade)
  <2>1. ids = [turn |-> ids.turn, run |-> ids.run] /\ ids.turn = 1 /\ ids.run = 1
    BY <1>1
  <2>2. QED
    BY <1>1, <1>3, <1>4, <1>5, <2>1 DEF CountsFit
<1>7. Rated(entries, rated)
  BY <1>1, <1>2, FeedbackOfNothing DEF Rated
<1>8. RunsInv(entries, made, edges, shownTree)
  <2>1. RunsFit(made, Len(entries))
    BY <1>1, <1>2, <1>3 DEF RunsFit
  <2>2. Forest(<<>>, made)
    <3>1. \A i \in 1 .. Len(<<>>) : FALSE
      BY <1>2
    <3>2. TreesApart(<<>>)
      BY <1>2, <3>1 DEF TreesApart, IsSequence
    <3>3. QED
      BY <1>3, <3>1, <3>2 DEF Forest
  <2>3. Forest(WorkflowRuns(entries), made)
    BY <1>1, <2>2, WorkflowRunsOfNothing
  <2>4. Due(edges, made)
    BY <1>3 DEF Due
  <2>5. ShownFits(shownTree, made)
    BY <1>1, <1>2 DEF ShownFits
  <2>6. QED
    BY <1>1, <2>1, <2>3, <2>4, <2>5 DEF RunsInv
<1>9. QED
  BY <1>6, <1>7, <1>8 DEF ProjInv

-----------------------------------------------------------------------------
(* The actions.                                                            *)

LEMMA ProjFacts ==
    ASSUME ProjInv
    PROVE  /\ CountsFit(ids, nowTurn, made, entries, turnsMade) /\ Rated(entries, rated)
           /\ RunsInv(entries, made, edges, shownTree)
           /\ IsSequence(entries) /\ Len(entries) \in Nat
           /\ Books(entries, turnsMade, nowTurn, OpenCalls(made))
           /\ ids = [turn |-> ids.turn, run |-> ids.run] /\ ids.turn \in Nat \ {0} /\ ids.run \in Nat
           /\ nowTurn \in Nat /\ (nowTurn = 0 => \A q \in 1 .. Len(made) : made[q].held = FALSE)
           /\ made \in Seq(RunSet) /\ Len(made) \in Nat /\ DOMAIN made = 1 .. Len(made)
<1>1. /\ CountsFit(ids, nowTurn, made, entries, turnsMade) /\ Rated(entries, rated)
      /\ RunsInv(entries, made, edges, shownTree)
  BY DEF ProjInv
<1>2. Books(entries, turnsMade, nowTurn, OpenCalls(made))
  BY <1>1 DEF CountsFit
<1>3. IsSequence(entries) /\ Len(entries) \in Nat
  BY <1>2, SequenceLength DEF Books
<1>4. QED
  BY <1>1, <1>2, <1>3, MadeIs DEF CountsFit

(* An action that leaves the counters and the runs to themselves. *)
LEMMA NothingCounted ==
    ASSUME ProjInv, UNCHANGED <<ids, nowTurn, turnsMade, entries, rated>>,
           RunsInv(entries, made', edges', shownTree'),
           OpenCalls(made') = OpenCalls(made),
           nowTurn = 0 => \A q \in 1 .. Len(made') : made'[q].held = FALSE
    PROVE  ProjInv'
<1>1. CountsFit(ids', nowTurn', made', entries', turnsMade')
  BY ProjFacts DEF CountsFit
<1>2. Rated(entries', rated') /\ RunsInv(entries', made', edges', shownTree')
  BY ProjFacts
<1>3. QED
  BY <1>1, <1>2 DEF ProjInv

(* One more row, of no run and no rating. *)
LEMMA NoteKeeps ==
    ASSUME ProjInv, NEW row, row.kind \in {"prompt", "retry", "reply"},
           entries' = Append(entries, row), UNCHANGED <<nowTurn, turnsMade, made, edges, shownTree, rated>>,
           ids' = [turn |-> ids'.turn, run |-> ids'.run], ids'.turn \in Nat \ {0}, ids'.run \in Nat
    PROVE  ProjInv'
<1> DEFINE ll == Append(entries, row)
<1>1. /\ IsSequence(ll) /\ Len(ll) = Len(entries) + 1 /\ WorkflowRuns(ll) = WorkflowRuns(entries)
      /\ Feedback(ll) = Feedback(entries) /\ Len(entries) \in Nat
  BY ProjFacts, RowUnseen
<1>2. Books(ll, turnsMade, nowTurn, OpenCalls(made))
  BY ProjFacts, BooksNote
<1>3. entries' = ll
  OBVIOUS
<1> HIDE DEF ll
<1>4. RunsInv(ll, made, edges, shownTree)
  BY <1>1, ProjFacts, RunsRest
<1>5. CountsFit(ids', nowTurn', made', entries', turnsMade')
  BY <1>2, <1>3, ProjFacts DEF CountsFit
<1>6. Rated(entries', rated')
  BY <1>1, <1>3, ProjFacts, RatedStill
<1>7. QED
  BY <1>3, <1>4, <1>5, <1>6 DEF ProjInv

LEMMA TurnOpensKeeps == ASSUME ProjInv, TurnOpens PROVE ProjInv'
<1> DEFINE x == Prompt(Len(entries) + 1)
           y == TurnStart(ids.turn)
           l1 == Append(entries, x)
           l2 == Append(l1, y)
<1>1. /\ nowTurn = 0 /\ nowTurn' = ids.turn /\ ids' = [ids EXCEPT !.turn = @ + 1]
      /\ entries' = entries \o <<x, y>>
      /\ turnsMade' = Append(turnsMade, [prompt |-> Len(entries) + 1, calls |-> 0, why |-> ""])
      /\ UNCHANGED <<made, edges, shownTree, rated>>
  BY DEF TurnOpens
<1>2. x.kind = "prompt" /\ y.kind = "turnStart"
  BY DEF Prompt, TurnStart
<1>3. OpenCalls(made) = 0 /\ Books(entries, turnsMade, 0, 0)
  BY <1>1, ProjFacts, IdleOpensNone
<1>4. Books(l1, turnsMade, 0, 0)
  <2> HIDE DEF x, y
  <2>1. QED
    BY <1>2, <1>3, BooksNote
<1>5. Books(l2, turnsMade', ids.turn, 0)
  <2> HIDE DEF l1
  <2>1. Books(l2, Append(turnsMade, [prompt |-> Len(entries) + 1, calls |-> 0, why |-> ""]), ids.turn, 0)
    BY <1>4, ProjFacts, BooksStart
  <2>2. QED
    BY <1>1, <2>1
<1> HIDE DEF x, y
<1>6. /\ IsSequence(l1) /\ Len(l1) = Len(entries) + 1 /\ WorkflowRuns(l1) = WorkflowRuns(entries)
      /\ Feedback(l1) = Feedback(entries) /\ Len(entries) \in Nat
  BY <1>2, ProjFacts, RowUnseen
<1> HIDE DEF l1
<1>7. /\ Len(l2) = Len(l1) + 1 /\ WorkflowRuns(l2) = WorkflowRuns(l1) /\ Feedback(l2) = Feedback(l1)
  BY <1>2, <1>6, RowUnseen
<1>8. entries' = l2
  <2>1. IsSequence(entries)
    BY ProjFacts
  <2>2. entries \o <<x, y>> = Append(Append(entries, x), y)
    BY <2>1, TwoRows
  <2>3. QED
    BY <1>1, <2>2 DEF l1
<1> HIDE DEF l2
<1>9. RunsInv(l2, made, edges, shownTree)
  <2>1. WorkflowRuns(l2) = WorkflowRuns(entries) /\ Len(l2) \in Nat /\ Len(l2) >= Len(entries)
    BY <1>6, <1>7
  <2>2. QED
    BY <1>6, <2>1, ProjFacts, RunsRest
<1>10. CountsFit(ids', nowTurn', made', entries', turnsMade')
  <2>1. ids' = [turn |-> ids'.turn, run |-> ids'.run] /\ ids'.turn \in Nat \ {0} /\ ids'.run \in Nat
    <3>1. ids' = [turn |-> ids.turn + 1, run |-> ids.run]
      BY <1>1, ProjFacts
    <3>2. QED
      BY <3>1, ProjFacts
  <2>2. nowTurn' # 0 /\ nowTurn' \in Nat
    BY <1>1, ProjFacts
  <2>3. Books(entries', turnsMade', nowTurn', OpenCalls(made'))
    BY <1>1, <1>3, <1>5, <1>8
  <2>4. QED
    BY <2>1, <2>2, <2>3 DEF CountsFit
<1>11. Rated(entries', rated')
  <2>1. Feedback(l2) = Feedback(entries)
    BY <1>6, <1>7
  <2>2. QED
    BY <1>1, <1>8, <2>1, ProjFacts, RatedStill
<1>12. QED
  BY <1>1, <1>8, <1>9, <1>10, <1>11 DEF ProjInv

LEMMA HopRepliesKeeps == ASSUME ProjInv, HopReplies PROVE ProjInv'
<1>1. /\ ids' = [ids EXCEPT !.turn = @ + 1] /\ entries' = Append(entries, ReplyRow)
      /\ UNCHANGED <<nowTurn, turnsMade, made, edges, shownTree, rated>>
  BY DEF HopReplies
<1>2. ids' = [turn |-> ids.turn + 1, run |-> ids.run]
  BY <1>1, ProjFacts
<1>3. ids' = [turn |-> ids'.turn, run |-> ids'.run] /\ ids'.turn \in Nat \ {0} /\ ids'.run \in Nat
  BY <1>2, ProjFacts
<1>4. ReplyRow.kind = "reply"
  BY DEF ReplyRow
<1> HIDE DEF ReplyRow
<1>5. QED
  BY <1>1, <1>3, <1>4, NoteKeeps

LEMMA TurnNotesKeeps == ASSUME ProjInv, TurnNotes PROVE ProjInv'
<1>1. PICK row \in {RetryRow, Prompt(Len(entries) + 1)} : entries' = Append(entries, row)
  BY DEF TurnNotes
<1>2. UNCHANGED <<ids, nowTurn, turnsMade, made, edges, shownTree, rated>>
  BY DEF TurnNotes, turnVars
<1>3. row.kind \in {"prompt", "retry", "reply"}
  BY DEF RetryRow, Prompt
<1>4. ids' = [turn |-> ids'.turn, run |-> ids'.run] /\ ids'.turn \in Nat \ {0} /\ ids'.run \in Nat
  BY <1>2, ProjFacts
<1>5. QED
  BY <1>1, <1>2, <1>3, <1>4, NoteKeeps

LEMMA PlainCallKeeps == ASSUME ProjInv, NEW ok \in BOOLEAN, PlainCall(ok) PROVE ProjInv'
<1> DEFINE x == CallRow
           y == ResultRow(ok)
           l1 == Append(entries, x)
           l2 == Append(l1, y)
           um == [turnsMade EXCEPT ![Len(turnsMade)].calls = @ + 1]
<1>1. /\ nowTurn # 0 /\ Held = {} /\ entries' = entries \o <<x, y>> /\ turnsMade' = um
      /\ UNCHANGED <<ids, nowTurn, made, edges, shownTree, rated>>
  BY DEF PlainCall, CountsCall
<1>2. x.kind = "toolCall" /\ y.kind = "toolResult"
  BY DEF CallRow, ResultRow
<1>3. OpenCalls(made) = 0 /\ (\A q \in 1 .. Len(made) : made[q].held = FALSE)
  BY <1>1, ProjFacts, NoneHeld
<1>4. Books(l1, um, nowTurn, 1)
  BY <1>1, <1>3, ProjFacts, BooksCall
<1>5. Books(l2, um, nowTurn, 0)
  <2> HIDE DEF l1, um
  <2>1. QED
    BY <1>4, BooksResult
<1> HIDE DEF x, y
<1>6. /\ IsSequence(l1) /\ Len(l1) = Len(entries) + 1 /\ WorkflowRuns(l1) = WorkflowRuns(entries)
      /\ Feedback(l1) = Feedback(entries) /\ Len(entries) \in Nat
  BY <1>2, ProjFacts, RowUnseen
<1> HIDE DEF l1
<1>7. /\ Len(l2) = Len(l1) + 1 /\ WorkflowRuns(l2) = WorkflowRuns(l1) /\ Feedback(l2) = Feedback(l1)
  BY <1>2, <1>6, RowUnseen
<1>8. entries' = l2
  BY <1>1, ProjFacts, TwoRows DEF l1
<1> HIDE DEF l2, um
<1>9. RunsInv(l2, made, edges, shownTree)
  <2>1. WorkflowRuns(l2) = WorkflowRuns(entries) /\ Len(l2) \in Nat /\ Len(l2) >= Len(entries)
    BY <1>6, <1>7
  <2>2. QED
    BY <1>6, <2>1, ProjFacts, RunsRest
<1>10. CountsFit(ids', nowTurn', made', entries', turnsMade')
  <2>1. Books(entries', turnsMade', nowTurn', OpenCalls(made'))
    BY <1>1, <1>3, <1>5, <1>8
  <2>2. QED
    BY <1>1, <2>1, ProjFacts DEF CountsFit
<1>11. Rated(entries', rated')
  <2>1. Feedback(l2) = Feedback(entries)
    BY <1>6, <1>7
  <2>2. QED
    BY <1>1, <1>8, <2>1, ProjFacts, RatedStill
<1>12. QED
  BY <1>1, <1>8, <1>9, <1>10, <1>11 DEF ProjInv

LEMMA TurnEndsKeeps == ASSUME ProjInv, NEW cause, TurnEnds(cause) PROVE ProjInv'
<1> DEFINE x == TurnEnd(nowTurn, cause)
           ll == Append(entries, x)
           um == [turnsMade EXCEPT ![Len(turnsMade)].why = cause]
<1>1. /\ nowTurn # 0 /\ Held = {} /\ entries' = ll /\ nowTurn' = 0 /\ turnsMade' = um
      /\ UNCHANGED <<ids, made, edges, shownTree, rated>>
  BY DEF TurnEnds
<1>2. OpenCalls(made) = 0 /\ (\A q \in 1 .. Len(made) : made[q].held = FALSE)
  BY <1>1, ProjFacts, NoneHeld
<1>3. Books(ll, um, 0, 0)
  BY <1>1, <1>2, ProjFacts, BooksEnd
<1>4. x.kind = "turnEnd"
  BY DEF TurnEnd
<1> HIDE DEF x
<1>5. /\ Len(ll) = Len(entries) + 1 /\ WorkflowRuns(ll) = WorkflowRuns(entries)
      /\ Feedback(ll) = Feedback(entries) /\ Len(entries) \in Nat
  BY <1>4, ProjFacts, RowUnseen
<1> HIDE DEF ll, um
<1>6. RunsInv(ll, made, edges, shownTree)
  BY <1>5, ProjFacts, RunsRest
<1>7. CountsFit(ids', nowTurn', made', entries', turnsMade')
  <2>1. Books(entries', turnsMade', nowTurn', OpenCalls(made'))
    BY <1>1, <1>2, <1>3
  <2>2. QED
    BY <1>1, <1>2, <2>1, ProjFacts DEF CountsFit
<1>8. Rated(entries', rated')
  BY <1>1, <1>5, ProjFacts, RatedStill
<1>9. QED
  BY <1>1, <1>6, <1>7, <1>8 DEF ProjInv

(* The newest rating of a reply is the one that counts. *)
LEMMA RatedAgain ==
    ASSUME NEW l, IsSequence(l), NEW rt, Rated(l, rt), NEW n, NEW v,
           NEW rn, rn = [k \in DOMAIN rt \cup {n} |-> IF k = n THEN v ELSE rt[k]]
    PROVE  Rated(Append(l, RatingRow(n, v)), rn)
<1> DEFINE f == Feedback(l)
           D == {k \in DOMAIN rt : rt[k] # 0}
           E == {k \in DOMAIN rn : rn[k] # 0}
           new == IF v = 0 THEN {n} ELSE {}
           g == [m \in (DOMAIN f \cup {n}) \ new |-> IF m = n THEN v ELSE f[m]]
<1>1. f = [m \in D |-> rt[m]]
  BY DEF Rated
<1>2. Feedback(Append(l, RatingRow(n, v))) = FeedbackApply(f, RatingRow(n, v))
  BY FeedbackViewGrows
<1>3. FeedbackApply(f, RatingRow(n, v)) = g
  BY DEF FeedbackApply, RatingRow
<1>4. DOMAIN rn = DOMAIN rt \cup {n} /\ \A k \in DOMAIN rn : rn[k] = IF k = n THEN v ELSE rt[k]
  OBVIOUS
<1> HIDE DEF f, g
<1>5. DOMAIN f = D /\ \A m \in D : f[m] = rt[m]
  BY <1>1
<1>6. (DOMAIN f \cup {n}) \ new = E
  <2>1. ASSUME NEW k PROVE k \in (D \cup {n}) \ new <=> k \in E
    <3>1. CASE k = n
      BY <1>4, <3>1
    <3>2. CASE k # n
      BY <1>4, <3>2
    <3>3. QED
      BY <3>1, <3>2
  <2>2. QED
    BY <1>5, <2>1
<1>7. \A m \in E : (IF m = n THEN v ELSE f[m]) = rn[m]
  BY <1>4, <1>5
<1> HIDE DEF D, E, new
<1>8. g = [m \in E |-> rn[m]]
  BY <1>6, <1>7 DEF g
<1>9. QED
  BY <1>2, <1>3, <1>8 DEF Rated, E

LEMMA RatesReplyKeeps ==
    ASSUME ProjInv, NEW n, NEW v, RatesReply(n, v)
    PROVE  ProjInv'
<1> DEFINE x == RatingRow(n, v)
           ll == Append(entries, x)
<1>1. /\ entries' = ll /\ rated' = [k \in DOMAIN rated \cup {n} |-> IF k = n THEN v ELSE rated[k]]
      /\ UNCHANGED <<ids, nowTurn, turnsMade, made, edges, shownTree>>
  BY DEF RatesReply, turnVars
<1>2. Rated(entries', rated')
  BY <1>1, ProjFacts, RatedAgain
<1>3. x.kind = "rating"
  BY DEF RatingRow
<1> HIDE DEF x
<1>4. /\ Len(ll) = Len(entries) + 1 /\ WorkflowRuns(ll) = WorkflowRuns(entries) /\ Len(entries) \in Nat
  BY <1>3, ProjFacts, RowUnseen
<1>5. Books(ll, turnsMade, nowTurn, OpenCalls(made))
  BY <1>3, ProjFacts, BooksNote
<1> HIDE DEF ll
<1>6. RunsInv(ll, made, edges, shownTree)
  BY <1>4, ProjFacts, RunsRest
<1>7. CountsFit(ids', nowTurn', made', entries', turnsMade')
  BY <1>1, <1>5, ProjFacts DEF CountsFit
<1>8. QED
  BY <1>1, <1>2, <1>6, <1>7 DEF ProjInv

-----------------------------------------------------------------------------
(* The actions of runs, and of the tasks that log them.                    *)

LEMMA OneHeld ==
    ASSUME NEW l, NEW mk, NEW es, NEW sh, RunsInv(l, mk, es, sh), NEW r \in 1 .. Len(mk), mk[r].held
    PROVE  OpenCalls(mk) = 1 /\ \A q \in 1 .. Len(mk) : q # r => mk[q].held = FALSE
<1>1. /\ \A q \in 1 .. Len(mk) : mk[q].held \in BOOLEAN
      /\ \A p, q \in 1 .. Len(mk) : mk[p].held /\ mk[q].held => p = q
  BY MadeIs
<1>2. \A q \in 1 .. Len(mk) : q # r => mk[q].held = FALSE
  BY <1>1
<1>3. QED
  BY <1>2 DEF OpenCalls

(* Whom a step of a run leaves waited for. *)
LEMMA RanHeld ==
    ASSUME NEW mk, NEW r \in 1 .. Len(mk), NEW m, NEW st, NEW nk, Ran(mk, nk, r, m, st, mk[r].held)
    PROVE  Len(nk) = Len(mk) /\ \A q \in 1 .. Len(mk) : nk[q].held = mk[q].held
  BY DEF Ran

LEMMA SameHeld ==
    ASSUME NEW mk, NEW nk, Len(nk) = Len(mk), \A q \in 1 .. Len(mk) : nk[q].held = mk[q].held
    PROVE  OpenCalls(nk) = OpenCalls(mk)
  BY DEF OpenCalls

(* RunsMoveOn with its hypotheses in one name. *)
MovesOn(l, mk, es, sh, r, m, st, h, nk, ll, ns) ==
    /\ RunsInv(l, mk, es, sh) /\ r \in 1 .. Len(mk) /\ m \in Who /\ st \in {"running", "done", "failed"}
    /\ Ran(mk, nk, r, m, st, h)
    /\ mk[r].is[m] # "running" => mk[r].is[m] = "none" /\ st = "running"
    /\ h => mk[r].held /\ (m = ItSelf => st = "running")
    /\ WorkflowRuns(ll) = WorkflowRuns(l) /\ Len(l) \in Nat /\ Len(ll) \in Nat /\ Len(ll) >= Len(l)
    /\ ns = es \cup {NewEdge(r, m, st)} \/ (ns = es /\ st = mk[r].is[m])

LEMMA RunsMovedOn ==
    ASSUME NEW l, NEW mk, NEW es, NEW sh, NEW r, NEW m, NEW st, NEW h, NEW nk, NEW ll, NEW ns,
           MovesOn(l, mk, es, sh, r, m, st, h, nk, ll, ns)
    PROVE  RunsInv(ll, nk, ns, sh)
  BY RunsMoveOn DEF MovesOn

(* A member's edge. *)
LEMMA MemberKeeps ==
    ASSUME ProjInv, NEW r \in 1 .. Len(made), NEW m \in Members, NEW st \in {"running", "done", "failed"},
           made[r].is[m] # "running" => made[r].is[m] = "none" /\ st = "running",
           made' = [made EXCEPT ![r].is[m] = st], edges' = edges \cup {NewEdge(r, m, st)},
           UNCHANGED <<ids, nowTurn, turnsMade, entries, shownTree, rated>>
    PROVE  ProjInv'
<1>0. m \in Who /\ m # ItSelf /\ st \in States
  BY ProjectionsAssumption DEF Who, ItSelf, States
<1>1. RunsInv(entries, made, edges, shownTree) /\ made \in Seq(RunSet) /\ Len(entries) \in Nat
  BY ProjFacts
<1> DEFINE h == made[r].held
<1>2. Ran(made, made', r, m, st, h)
  BY <1>0, <1>1, MemberRan
<1>3. (h => made[r].held /\ (m = ItSelf => st = "running")) /\ Len(entries) >= Len(entries)
  BY <1>0, <1>1
<1>4. RunsInv(entries, made', edges', shownTree)
  <2> HIDE DEF h
  <2>1. MovesOn(entries, made, edges, shownTree, r, m, st, h, made', entries, edges')
    BY <1>0, <1>1, <1>2, <1>3 DEF MovesOn
  <2>2. QED
    BY <2>1, RunsMovedOn
<1>5. Len(made') = Len(made) /\ \A q \in 1 .. Len(made) : made'[q].held = made[q].held
  BY <1>1, <1>2, RanHeld
<1>6. OpenCalls(made') = OpenCalls(made)
  BY <1>5, SameHeld
<1>7. nowTurn = 0 => \A q \in 1 .. Len(made') : made'[q].held = FALSE
  BY <1>5, ProjFacts
<1>8. RunsInv(entries, made', edges', shownTree')
  BY <1>4
<1>9. QED
  BY <1>6, <1>7, <1>8, NothingCounted

LEMMA MemberStartsKeeps ==
    ASSUME ProjInv, NEW r \in DOMAIN made, NEW m \in Members, MemberStarts(r, m)
    PROVE  ProjInv'
<1>1. r \in 1 .. Len(made)
  BY ProjFacts
<1>2. /\ made[r].is[m] = "none" /\ made' = [made EXCEPT ![r].is[m] = "running"]
      /\ edges' = edges \cup {NewEdge(r, m, "running")}
      /\ UNCHANGED <<ids, nowTurn, turnsMade, entries, shownTree, rated>>
  BY DEF MemberStarts, Reports, NewEdge, turnVars
<1>3. QED
  BY <1>1, <1>2, MemberKeeps

LEMMA MemberEndsKeeps ==
    ASSUME ProjInv, NEW r \in DOMAIN made, NEW m \in Members, NEW how \in Ended, MemberEnds(r, m, how)
    PROVE  ProjInv'
<1>1. r \in 1 .. Len(made) /\ how \in {"running", "done", "failed"}
  BY ProjFacts DEF Ended
<1>2. /\ made[r].is[m] = "running" /\ made' = [made EXCEPT ![r].is[m] = how]
      /\ edges' = edges \cup {NewEdge(r, m, how)}
      /\ UNCHANGED <<ids, nowTurn, turnsMade, entries, shownTree, rated>>
  BY DEF MemberEnds, Reports, NewEdge, turnVars
<1>3. QED
  BY <1>1, <1>2, MemberKeeps

(* The call of a run has its result, and is waited for no more. *)
LEMMA CallKeeps ==
    ASSUME ProjInv, NEW r \in 1 .. Len(made), made[r].held, NEW st \in {"running", "done", "failed"},
           NEW ok \in BOOLEAN, entries' = Append(entries, ResultRow(ok)),
           Ran(made, made', r, ItSelf, st, FALSE),
           edges' = edges \cup {NewEdge(r, ItSelf, st)} \/ (edges' = edges /\ st = made[r].is[ItSelf]),
           UNCHANGED <<ids, nowTurn, turnsMade, shownTree, rated>>
    PROVE  ProjInv'
<1> DEFINE x == ResultRow(ok)
           ll == Append(entries, x)
<1>0. ItSelf \in Who
  BY DEF Who
<1>1. RunsInv(entries, made, edges, shownTree) /\ made \in Seq(RunSet) /\ Len(entries) \in Nat
  BY ProjFacts
<1>2. OpenCalls(made) = 1
  BY <1>1, OneHeld
<1>3. Len(made') = Len(made) /\ \A q \in 1 .. Len(made') : made'[q].held = FALSE
  <2>1. /\ Len(made') = Len(made) /\ made'[r].held = FALSE
        /\ \A q \in 1 .. Len(made) : q # r => made'[q] = made[q]
    BY DEF Ran
  <2>2. \A q \in 1 .. Len(made) : q # r => made[q].held = FALSE
    BY <1>1, OneHeld
  <2>3. QED
    BY <2>1, <2>2
<1>4. OpenCalls(made') = 0
  BY <1>3, IdleOpensNone
<1>5. Books(ll, turnsMade, nowTurn, 0)
  BY <1>2, ProjFacts, BooksResult
<1>6. x.kind = "toolResult"
  BY DEF ResultRow
<1>7. entries' = ll
  OBVIOUS
<1> HIDE DEF x
<1>8. /\ Len(ll) = Len(entries) + 1 /\ WorkflowRuns(ll) = WorkflowRuns(entries)
      /\ Feedback(ll) = Feedback(entries) /\ Len(entries) \in Nat
  BY <1>6, ProjFacts, RowUnseen
<1> HIDE DEF ll
<1>9. made[r].is[ItSelf] = "running"
  BY <1>1 DEF RunsInv, RunsFit, RunIs
<1>10. RunsInv(ll, made', edges', shownTree)
  <2> DEFINE no == FALSE
  <2>1. (no => made[r].held /\ (ItSelf = ItSelf => st = "running")) /\ Ran(made, made', r, ItSelf, st, no)
    OBVIOUS
  <2>2. Len(ll) \in Nat /\ Len(ll) >= Len(entries)
    BY <1>8
  <2> HIDE DEF no
  <2>3. MovesOn(entries, made, edges, shownTree, r, ItSelf, st, no, made', ll, edges')
    BY <1>0, <1>1, <1>8, <1>9, <2>1, <2>2 DEF MovesOn
  <2>4. QED
    BY <2>3, RunsMovedOn
<1>11. CountsFit(ids', nowTurn', made', entries', turnsMade')
  <2>1. Books(entries', turnsMade', nowTurn', OpenCalls(made'))
    BY <1>4, <1>5, <1>7
  <2>2. QED
    BY <1>3, <2>1, ProjFacts DEF CountsFit
<1>12. Rated(entries', rated')
  BY <1>7, <1>8, ProjFacts, RatedStill
<1>13. QED
  BY <1>7, <1>10, <1>11, <1>12 DEF ProjInv

LEMMA RunClosesKeeps ==
    ASSUME ProjInv, NEW r \in DOMAIN made, NEW how \in Ended, RunCloses(r, how)
    PROVE  ProjInv'
<1>1. r \in 1 .. Len(made) /\ made \in Seq(RunSet) /\ how \in {"running", "done", "failed"} /\ how \in States
  BY ProjFacts DEF Ended, States
<1>2. /\ made[r].held /\ made' = [made EXCEPT ![r].held = FALSE, ![r].is[ItSelf] = how]
      /\ edges' = edges \cup {NewEdge(r, ItSelf, how)}
      /\ UNCHANGED <<ids, nowTurn, turnsMade, shownTree, rated>>
  BY DEF RunCloses, Reports, NewEdge, turnVars
<1>3. PICK ok \in BOOLEAN : entries' = Append(entries, ResultRow(ok))
  BY DEF RunCloses
<1>4. Ran(made, made', r, ItSelf, how, FALSE)
  BY <1>1, <1>2, ClosedRan
<1>5. QED
  BY <1>1, <1>2, <1>3, <1>4, CallKeeps

LEMMA RunDroppedKeeps ==
    ASSUME ProjInv, NEW r \in DOMAIN made, RunDropped(r)
    PROVE  ProjInv'
<1>1. r \in 1 .. Len(made) /\ made \in Seq(RunSet)
  BY ProjFacts
<1>2. /\ made[r].held /\ made' = [made EXCEPT ![r].held = FALSE] /\ edges' = edges
      /\ UNCHANGED <<ids, nowTurn, turnsMade, shownTree, rated>>
  BY DEF RunDropped, turnVars
<1>3. PICK ok \in BOOLEAN : entries' = Append(entries, ResultRow(ok))
  BY DEF RunDropped
<1> DEFINE st == made[r].is[ItSelf]
<1>4. Ran(made, made', r, ItSelf, st, FALSE)
  BY <1>1, <1>2, DroppedRan
<1>5. st \in {"running", "done", "failed"}
  BY <1>1, <1>2, ProjFacts DEF RunsInv, RunsFit, RunIs
<1> HIDE DEF st
<1>6. edges' = edges /\ st = made[r].is[ItSelf]
  BY <1>2 DEF st
<1>7. QED
  BY <1>1, <1>2, <1>3, <1>4, <1>5, <1>6, CallKeeps

LEMMA RunOpensKeeps == ASSUME ProjInv, RunOpens PROVE ProjInv'
<1> DEFINE ll == Append(entries, CallRow)
           um == [turnsMade EXCEPT ![Len(turnsMade)].calls = @ + 1]
           is == [m \in Members \cup {ItSelf} |-> IF m = ItSelf THEN "running" ELSE "none"]
           lg == [m \in Members \cup {ItSelf} |-> "none"]
           yes == TRUE
           at == Len(entries) + 1
           new == RunWith(ids.run, at, yes, yes, yes, is, lg)
           n == Len(made)
<1>1. /\ nowTurn # 0 /\ Held = {} /\ ids' = [ids EXCEPT !.run = @ + 1] /\ entries' = ll /\ turnsMade' = um
      /\ made' = Append(made, new) /\ edges' = edges \cup {NewEdge(n + 1, ItSelf, "running")}
      /\ UNCHANGED <<nowTurn, shownTree, rated>>
  BY DEF RunOpens, CountsCall, Reports, NewEdge, RunWith
<1>2. RunsInv(entries, made, edges, shownTree) /\ made \in Seq(RunSet) /\ Len(entries) \in Nat /\ n \in Nat
  BY ProjFacts
<1>3. OpenCalls(made) = 0 /\ (\A q \in 1 .. n : made[q].held = FALSE)
  BY <1>1, ProjFacts, NoneHeld
<1>4. Books(ll, um, nowTurn, 1)
  BY <1>1, <1>3, ProjFacts, BooksCall
<1>5. /\ Len(ll) = Len(entries) + 1 /\ WorkflowRuns(ll) = WorkflowRuns(entries) /\ Feedback(ll) = Feedback(entries)
  <2>1. CallRow.kind = "toolCall"
    BY DEF CallRow
  <2> HIDE DEF CallRow
  <2>2. QED
    BY <2>1, ProjFacts, RowUnseen
<1>6. is \in [Who -> States] /\ lg \in [Who -> States]
  BY DEF Who, States
<1>7. \A m \in Who : lg[m] = "none" /\ is[m] = IF m = ItSelf THEN "running" ELSE "none"
  BY DEF Who
<1> HIDE DEF ll, um, is, lg
<1>8. yes \in BOOLEAN /\ at \in Nat /\ at = Len(entries) + 1 /\ ids.run \in Nat
  BY ProjFacts
<1> HIDE DEF yes, at
<1>9. new \in RunSet
  BY <1>6, <1>8, RunOf
<1>10. new.call = at /\ new.live = yes /\ new.held = yes /\ new.is = is /\ new.logged = lg
  BY RunFields
<1> HIDE DEF new
<1>11. \A m \in Who : new.logged[m] = "none" /\ new.is[m] = IF m = ItSelf THEN "running" ELSE "none"
  BY <1>7, <1>10
<1>12. RunsInv(ll, made', edges', shownTree)
  <2>1. new.live = TRUE
    BY <1>10 DEF yes
  <2>2. IsSequence(entries)
    BY ProjFacts
  <2>3. QED
    BY <1>1, <1>2, <1>3, <1>5, <1>8, <1>9, <1>10, <1>11, <2>1, <2>2, RunsOpen
<1>13. OpenCalls(made') = 1
  <2>1. Len(made') = n + 1 /\ made'[n + 1] = new /\ n + 1 \in 1 .. n + 1
    BY <1>1, <1>2, <1>9
  <2>2. made'[n + 1].held
    BY <1>10, <2>1 DEF yes
  <2>3. QED
    BY <2>1, <2>2 DEF OpenCalls
<1>14. CountsFit(ids', nowTurn', made', entries', turnsMade')
  <2>1. ids' = [turn |-> ids.turn, run |-> ids.run + 1]
    BY <1>1, ProjFacts
  <2>2. ids' = [turn |-> ids'.turn, run |-> ids'.run] /\ ids'.turn \in Nat \ {0} /\ ids'.run \in Nat
    BY <2>1, ProjFacts
  <2>3. Books(entries', turnsMade', nowTurn', OpenCalls(made'))
    BY <1>1, <1>4, <1>13
  <2>4. nowTurn' # 0 /\ nowTurn' \in Nat
    BY <1>1, ProjFacts
  <2>5. QED
    BY <2>2, <2>3, <2>4 DEF CountsFit
<1>15. Rated(entries', rated')
  BY <1>1, <1>5, ProjFacts, RatedStill
<1>16. QED
  BY <1>1, <1>12, <1>14, <1>15 DEF ProjInv

LEMMA EdgeLandsKeeps == ASSUME ProjInv, NEW e \in edges, EdgeLands(e) PROVE ProjInv'
<1> DEFINE r == e.run
           m == e.member
           st == e.state
           row == EdgeRow(made[r], m, st)
           ll == Append(entries, row)
           v == made[r].orderly /\ InOrder(made[r], e)
<1>1. /\ e.at = "append" /\ entries' = ll /\ edges' = (edges \ {e}) \cup {[e EXCEPT !.at = "fold"]}
      /\ UNCHANGED <<ids, nowTurn, turnsMade, shownTree, rated>>
  BY DEF EdgeLands, turnVars
<1>2. made' = [made EXCEPT ![r].orderly = v, ![r].logged[m] = st]
  BY DEF EdgeLands
<1>3. v \in BOOLEAN /\ (v => made[r].orderly /\ InOrder(made[r], e))
  OBVIOUS
<1> HIDE DEF v
<1>4. RunsInv(entries, made, edges, shownTree) /\ made \in Seq(RunSet) /\ IsSequence(entries) /\ Len(entries) \in Nat
  BY ProjFacts
<1>5. r \in 1 .. Len(made) /\ m \in Who /\ (st # "running" => st \in Ended)
  BY <1>4 DEF RunsInv, EdgeFits
<1>6. st \in States
  BY <1>5 DEF Ended, States
<1>7. Landed(made, made', r, m, st)
  BY <1>2, <1>3, <1>4, <1>5, <1>6, RowLanded
<1>8. RunsInv(entries', made', edges', shownTree)
  BY <1>1, <1>4, <1>7, RunsLand
<1>9. row.kind = "edge"
  BY DEF EdgeRow
<1> HIDE DEF row
<1>10. Books(ll, turnsMade, nowTurn, OpenCalls(made)) /\ Feedback(ll) = Feedback(entries)
  <2>1. Books(entries, turnsMade, nowTurn, OpenCalls(made)) /\ row.kind # "rating"
    BY <1>9, ProjFacts
  <2>2. Books(Append(entries, row), turnsMade, nowTurn, OpenCalls(made))
    BY <1>9, <2>1, BooksNote
  <2>3. Feedback(Append(entries, row)) = Feedback(entries)
    BY <1>4, <2>1, RowUnseen
  <2>4. QED
    BY <2>2, <2>3
<1>11. Len(made') = Len(made) /\ \A q \in 1 .. Len(made) : made'[q].held = made[q].held
  BY <1>7 DEF Landed
<1>12. OpenCalls(made') = OpenCalls(made)
  BY <1>11, SameHeld
<1>13. CountsFit(ids', nowTurn', made', entries', turnsMade')
  <2>1. Books(entries', turnsMade', nowTurn', OpenCalls(made'))
    BY <1>1, <1>10, <1>12
  <2>2. QED
    BY <1>1, <1>11, <2>1, ProjFacts DEF CountsFit
<1>14. Rated(entries', rated')
  BY <1>1, <1>10, ProjFacts, RatedStill
<1>15. QED
  BY <1>1, <1>8, <1>13, <1>14 DEF ProjInv

LEMMA EdgeFoldsKeeps == ASSUME ProjInv, NEW e \in edges, EdgeFolds(e) PROVE ProjInv'
<1> DEFINE k == First({i \in DOMAIN WorkflowRuns(entries) : WorkflowRuns(entries)[i].id = made[e.run].id})
<1>1. /\ e.at = "fold"
      /\ edges' = (edges \ {e}) \cup
                  (IF k = 0 THEN {} ELSE {[e EXCEPT !.at = "emit", !.tree = WorkflowRuns(entries)[k]]})
      /\ UNCHANGED <<ids, nowTurn, turnsMade, entries, made, shownTree, rated>>
  BY DEF EdgeFolds, turnVars
<1>2. RunsInv(entries, made, edges', shownTree)
  BY <1>1, ProjFacts, RunsFold
<1>3. RunsInv(entries, made', edges', shownTree') /\ OpenCalls(made') = OpenCalls(made)
  BY <1>1, <1>2
<1>4. nowTurn = 0 => \A q \in 1 .. Len(made') : made'[q].held = FALSE
  BY <1>1, ProjFacts
<1>5. QED
  BY <1>1, <1>3, <1>4, NothingCounted

LEMMA EdgeEmitsKeeps == ASSUME ProjInv, NEW e \in edges, EdgeEmits(e) PROVE ProjInv'
<1>1. /\ e.at = "emit" /\ edges' = edges \ {e}
      /\ shownTree' = [c \in DOMAIN shownTree \cup {e.tree.call} |-> IF c = e.tree.call THEN e.tree ELSE shownTree[c]]
      /\ UNCHANGED <<ids, nowTurn, turnsMade, entries, made, rated>>
  BY DEF EdgeEmits, turnVars
<1>2. RunsInv(entries, made, edges', shownTree')
  BY <1>1, ProjFacts, RunsEmit
<1>3. RunsInv(entries, made', edges', shownTree') /\ OpenCalls(made') = OpenCalls(made)
  BY <1>1, <1>2
<1>4. nowTurn = 0 => \A q \in 1 .. Len(made') : made'[q].held = FALSE
  BY <1>1, ProjFacts
<1>5. QED
  BY <1>1, <1>3, <1>4, NothingCounted

LEMMA ReloadKeeps == ASSUME ProjInv, Reload PROVE ProjInv'
<1>1. /\ shownTree' = [c \in {WorkflowRuns(entries)[i].call : i \in DOMAIN WorkflowRuns(entries)} |->
             WorkflowRuns(entries)[Newest({i \in DOMAIN WorkflowRuns(entries) : WorkflowRuns(entries)[i].call = c})]]
      /\ UNCHANGED <<ids, nowTurn, turnsMade, entries, made, edges, rated>>
  BY DEF Reload, turnVars
<1>2. RunsInv(entries, made, edges, shownTree')
  BY <1>1, ProjFacts, RunsReload
<1>3. RunsInv(entries, made', edges', shownTree') /\ OpenCalls(made') = OpenCalls(made)
  BY <1>1, <1>2
<1>4. nowTurn = 0 => \A q \in 1 .. Len(made') : made'[q].held = FALSE
  BY <1>1, ProjFacts
<1>5. QED
  BY <1>1, <1>3, <1>4, NothingCounted

LEMMA BackendRestartsKeeps == ASSUME ProjInv, BackendRestarts PROVE ProjInv'
<1>1. /\ nowTurn' = 0 /\ ids' = [turn |-> 1, run |-> 1] /\ edges' = {}
      /\ made' = [r \in DOMAIN made |-> RunOff(made[r])]
      /\ UNCHANGED <<entries, shownTree, turnsMade, rated>>
  BY DEF BackendRestarts, RunOff
<1>2. RunsInv(entries, made, edges, shownTree) /\ made \in Seq(RunSet)
  BY ProjFacts
<1>3. Stopped(made, made')
  BY <1>1, <1>2, RestartStopped
<1>4. RunsInv(entries', made', edges', shownTree')
  BY <1>1, <1>2, <1>3, RunsStopped
<1>5. \A q \in 1 .. Len(made') : made'[q].held = FALSE
  BY <1>3 DEF Stopped
<1>6. OpenCalls(made') = 0
  BY <1>5, IdleOpensNone
<1>7. Books(entries, turnsMade, 0, 0)
  BY ProjFacts, BooksClose
<1>8. CountsFit(ids', nowTurn', made', entries', turnsMade')
  <2>1. ids' = [turn |-> ids'.turn, run |-> ids'.run] /\ ids'.turn = 1 /\ ids'.run = 1
    BY <1>1
  <2>2. Books(entries', turnsMade', nowTurn', OpenCalls(made'))
    BY <1>1, <1>6, <1>7
  <2>3. QED
    BY <1>1, <1>5, <2>1, <2>2 DEF CountsFit
<1>9. Rated(entries', rated')
  BY <1>1, ProjFacts
<1>10. QED
  BY <1>4, <1>8, <1>9 DEF ProjInv

LEMMA ProjStep == ProjInv /\ [ProjNext]_projVars => ProjInv'
<1> SUFFICES ASSUME ProjInv, [ProjNext]_projVars PROVE ProjInv'
  OBVIOUS
<1>1. CASE UNCHANGED projVars
  <2>1. UNCHANGED <<entries, ids, nowTurn, made, edges, shownTree, turnsMade, rated>>
    BY <1>1 DEF projVars
  <2>2. QED
    BY <2>1 DEF ProjInv
<1>2. CASE TurnOpens
  BY <1>2, TurnOpensKeeps
<1>3. CASE HopReplies
  BY <1>3, HopRepliesKeeps
<1>4. CASE TurnNotes
  BY <1>4, TurnNotesKeeps
<1>5. CASE RunOpens
  BY <1>5, RunOpensKeeps
<1>6. CASE Reload
  BY <1>6, ReloadKeeps
<1>7. CASE BackendRestarts
  BY <1>7, BackendRestartsKeeps
<1>8. ASSUME NEW ok \in BOOLEAN, PlainCall(ok) PROVE ProjInv'
  BY <1>8, PlainCallKeeps
<1>9. ASSUME NEW cause, TurnEnds(cause) PROVE ProjInv'
  BY <1>9, TurnEndsKeeps
<1>10. ASSUME NEW n, NEW v, RatesReply(n, v) PROVE ProjInv'
  BY <1>10, RatesReplyKeeps
<1>11. ASSUME NEW r \in DOMAIN made, RunDropped(r) PROVE ProjInv'
  BY <1>11, RunDroppedKeeps
<1>12. ASSUME NEW r \in DOMAIN made, NEW how \in Ended, RunCloses(r, how) PROVE ProjInv'
  BY <1>12, RunClosesKeeps
<1>13. ASSUME NEW r \in DOMAIN made, NEW m \in Members, NEW how \in Ended, MemberEnds(r, m, how) PROVE ProjInv'
  BY <1>13, MemberEndsKeeps
<1>14. ASSUME NEW r \in DOMAIN made, NEW m \in Members, MemberStarts(r, m) PROVE ProjInv'
  BY <1>14, MemberStartsKeeps
<1>15. ASSUME NEW e \in edges, EdgeLands(e) PROVE ProjInv'
  BY <1>15, EdgeLandsKeeps
<1>16. ASSUME NEW e \in edges, EdgeFolds(e) PROVE ProjInv'
  BY <1>16, EdgeFoldsKeeps
<1>17. ASSUME NEW e \in edges, EdgeEmits(e) PROVE ProjInv'
  BY <1>17, EdgeEmitsKeeps
<1>18. QED
  BY <1>1, <1>2, <1>3, <1>4, <1>5, <1>6, <1>7, <1>8, <1>9, <1>10, <1>11, <1>12, <1>13, <1>14, <1>15, <1>16, <1>17
     DEF ProjNext

-----------------------------------------------------------------------------
(* What the reader sees.                                                   *)

LEMMA OutlineIsThat == ProjInv => OutlineIsTurns
<1> SUFFICES ASSUME ProjInv PROVE OutlineIsTurns
  OBVIOUS
<1> DEFINE o == TurnOutline(entries)
           s == SessionStats(entries)
           h == OpenCalls(made)
<1>1. OutlineFits(o, turnsMade, nowTurn) /\ StatsFit(s, o, h)
  BY ProjFacts DEF Books
<1>2. SUFFICES /\ Len(o) = Len(turnsMade)
               /\ \A k \in DOMAIN o : o[k].calls = turnsMade[k].calls /\ o[k].why = turnsMade[k].why
               /\ s["turnStart"] = Len(o)
               /\ s["toolCall"] = CallsIn(o)
               /\ s["toolCall"] >= s["toolResult"]
  BY DEF OutlineIsTurns
<1> HIDE DEF o, s, h
<1>3. /\ Len(o) = Len(turnsMade)
      /\ \A k \in DOMAIN o : o[k].calls = turnsMade[k].calls /\ o[k].why = turnsMade[k].why
  BY <1>1, SequenceLength DEF OutlineFits
<1>4. s["turnStart"] = Len(o) /\ s["toolCall"] = CallsIn(o)
  BY <1>1 DEF StatsFit
<1>5. s["toolCall"] >= s["toolResult"]
  <2> DEFINE i == s["toolCall"]
             j == s["toolResult"]
  <2>1. i \in Nat /\ j \in Nat /\ h \in {0, 1} /\ j + h <= i
    BY <1>1 DEF StatsFit, StatKinds
  <2> HIDE DEF i, j
  <2>2. i >= j
    BY <2>1
  <2>3. QED
    BY <2>2 DEF i, j
<1>6. QED
  BY <1>3, <1>4, <1>5

(* A tree that fits the log has each member drawn once, as it was logged. *)
LEMMA DrawnOnce ==
    ASSUME NEW t, NEW lg, PhasesFit(t.phases, lg), NEW m \in Members
    PROVE  DrawsAs(t, m, lg[m])
<1> DEFINE ps == t.phases
<1>1. /\ DOMAIN ps = 1 .. Len(ps)
      /\ \A i \in 1 .. Len(ps) : PhaseFits(ps[i], lg)
      /\ \A i, j \in 1 .. Len(ps) : ps[i].title = ps[j].title => i = j
      /\ lg[m] # "none" => \E i \in 1 .. Len(ps) : ps[i].title = PhaseOf[m] /\ Shows(ps[i].members, m)
  BY SequenceLength DEF PhasesFit
<1>2. \A i \in 1 .. Len(ps) : MembersFit(ps[i].members, lg, ps[i].title)
  BY <1>1 DEF PhaseFits
<1>3. \A i \in 1 .. Len(ps) : DOMAIN ps[i].members = 1 .. Len(ps[i].members)
  BY <1>2, SequenceLength DEF MembersFit
<1>4. ASSUME NEW at \in Drawn(t, m)
      PROVE  /\ at = <<at[1], at[2]>>
             /\ at[1] \in 1 .. Len(ps) /\ at[2] \in 1 .. Len(ps[at[1]].members)
             /\ ps[at[1]].members[at[2]].id = m
  <2>1. PICK i \in DOMAIN ps : at \in {i} \X DOMAIN ps[i].members
    BY <1>4 DEF Drawn, Places
  <2>2. at = <<at[1], at[2]>> /\ at[1] = i /\ at[2] \in DOMAIN ps[i].members
    BY <2>1
  <2>3. ps[at[1]].members[at[2]].id = m
    BY <1>4 DEF Drawn
  <2>4. QED
    BY <1>1, <1>3, <2>2, <2>3
<1>5. ASSUME NEW i \in 1 .. Len(ps), NEW j \in 1 .. Len(ps[i].members), ps[i].members[j].id = m
      PROVE  /\ ps[i].title = PhaseOf[m] /\ ps[i].members[j].state = lg[m] /\ lg[m] # "none"
             /\ <<i, j>> \in Drawn(t, m)
  <2>1. MemberFits(ps[i].members[j], lg, ps[i].title)
    BY <1>2 DEF MembersFit
  <2>2. ps[i].title = PhaseOf[m] /\ ps[i].members[j].state = lg[m] /\ lg[m] # "none"
    BY <1>5, <2>1 DEF MemberFits
  <2>3. i \in DOMAIN ps /\ <<i, j>> \in {i} \X DOMAIN ps[i].members
    BY <1>1, <1>3
  <2>4. <<i, j>> \in Places(t)
    BY <2>3 DEF Places
  <2>5. QED
    BY <1>5, <2>2, <2>4 DEF Drawn
<1> HIDE DEF ps
<1>6. CASE lg[m] = "none"
  <2>1. \A at \in Drawn(t, m) : FALSE
    BY <1>4, <1>5, <1>6
  <2>2. QED
    BY <1>6, <2>1 DEF DrawsAs
<1>7. CASE lg[m] # "none"
  <2>1. PICK i \in 1 .. Len(ps) : ps[i].title = PhaseOf[m] /\ Shows(ps[i].members, m)
    BY <1>1, <1>7
  <2>2. PICK j \in 1 .. Len(ps[i].members) : ps[i].members[j].id = m
    BY <2>1 DEF Shows
  <2>3. <<i, j>> \in Drawn(t, m) /\ ps[i].members[j].state = lg[m]
    BY <1>5, <2>2
  <2>4. ASSUME NEW at \in Drawn(t, m) PROVE at = <<i, j>>
    <3>1. /\ at = <<at[1], at[2]>>
          /\ at[1] \in 1 .. Len(ps) /\ at[2] \in 1 .. Len(ps[at[1]].members)
          /\ ps[at[1]].members[at[2]].id = m
      BY <1>4
    <3>2. ps[at[1]].title = PhaseOf[m]
      BY <1>5, <3>1
    <3>3. at[1] = i
      BY <1>1, <2>1, <3>1, <3>2
    <3>4. \A k \in 1 .. Len(ps[i].members) : ps[i].members[k].id = m => k = j
      BY <1>2, <2>2 DEF MembersFit
    <3>5. at[2] = j
      BY <3>1, <3>3, <3>4
    <3>6. QED
      BY <3>1, <3>3, <3>5
  <2>5. Drawn(t, m) = {<<i, j>>}
    BY <2>3, <2>4
  <2> DEFINE d == <<i, j>>
  <2>6. d[1] = i /\ d[2] = j
    OBVIOUS
  <2>7. /\ d \in Drawn(t, m) /\ Drawn(t, m) = {d} /\ t.phases[d[1]].title = PhaseOf[m]
        /\ t.phases[d[1]].members[d[2]].state = lg[m]
    BY <2>1, <2>3, <2>5, <2>6 DEF ps
  <2> HIDE DEF d
  <2>8. QED
    BY <1>7, <2>7 DEF DrawsAs
<1>8. QED
  BY <1>6, <1>7

LEMMA AloneIsAlone ==
    ASSUME ProjInv, NEW r \in DOMAIN made, made[r].orderly, Alone(r)
    PROVE  r \in 1 .. Len(made) /\ Followed(made, r)
  BY ProjFacts DEF Alone, Followed, AloneIn

LEMMA TreeIsThat == ProjInv => TreeIsRun
<1> SUFFICES ASSUME ProjInv, NEW r \in DOMAIN made, made[r].orderly, Alone(r)
             PROVE  /\ \A t \in Trees(made[r].id) :
                          /\ t.call = made[r].call /\ t.state = made[r].logged[ItSelf]
                          /\ t.open <=> made[r].logged[ItSelf] = "running"
                          /\ \A m \in Members : DrawsAs(t, m, made[r].logged[m])
                    /\ Cardinality(Trees(made[r].id)) = IF made[r].logged[ItSelf] = "none" THEN 0 ELSE 1
                    /\ made[r].live /\ ~(\E e \in edges : e.run = r /\ e.at = "append") =>
                          made[r].logged = made[r].is
  BY DEF TreeIsRun
<1> DEFINE run == made[r]
           lg == run.logged
           rs == WorkflowRuns(entries)
<1>1. r \in 1 .. Len(made) /\ Followed(made, r)
  BY AloneIsAlone
<1>2. Forest(rs, made) /\ Due(edges, made) /\ made \in Seq(RunSet)
  BY ProjFacts DEF RunsInv
<1>3. Trees(run.id) = {rs[i] : i \in {j \in DOMAIN rs : rs[j].id = run.id}}
  BY DEF Trees
<1> HIDE DEF rs
<1>4. /\ DOMAIN rs = 1 .. Len(rs) /\ RunDrawn(rs, run)
      /\ \A i, j \in 1 .. Len(rs) : rs[i].id = rs[j].id => i = j
      /\ \A i \in 1 .. Len(rs) : TreeOfRun(rs[i], made)
  BY <1>1, <1>2, SequenceLength DEF Forest, TreesApart
<1>5. \A i \in 1 .. Len(rs) : rs[i].id = run.id => rs[i].call = run.call
  BY <1>1, <1>4 DEF TreeOfRun, Followed, AloneIn
<1>6. made[r].live /\ ~(\E e \in edges : e.run = r /\ e.at = "append") => made[r].logged = made[r].is
  <2> SUFFICES ASSUME made[r].live, ~(\E e \in edges : e.run = r /\ e.at = "append")
               PROVE  made[r].logged = made[r].is
    OBVIOUS
  <2>1. \A m \in Who : made[r].logged[m] = made[r].is[m]
    BY <1>1, <1>2 DEF Due, Waits
  <2>2. made[r].logged \in [Who -> States] /\ made[r].is \in [Who -> States]
    BY <1>1, <1>2, RunTyped
  <2>3. QED
    BY <2>1, <2>2
<1> HIDE DEF run
<1>7. CASE lg[ItSelf] = "none"
  <2>1. Unnamed(rs, run.id)
    BY <1>4, <1>7 DEF RunDrawn
  <2>2. Trees(run.id) = {}
    BY <1>3, <1>4, <2>1 DEF Unnamed
  <2>3. Cardinality(Trees(run.id)) = 0
    BY <2>2, FS_EmptySet
  <2>4. QED
    BY <1>6, <1>7, <2>2, <2>3 DEF run
<1>8. CASE lg[ItSelf] # "none"
  <2>1. PICK i \in 1 .. Len(rs) : rs[i].id = run.id /\ TreeFits(rs[i], lg)
    BY <1>4, <1>8 DEF RunDrawn
  <2>2. Trees(run.id) = {rs[i]}
    <3>1. {j \in DOMAIN rs : rs[j].id = run.id} = {i}
      BY <1>4, <2>1
    <3>2. QED
      BY <1>3, <3>1
  <2> DEFINE t == rs[i]
  <2>3. Cardinality(Trees(run.id)) = 1
    BY <2>2, FS_Singleton
  <2>4. t.call = run.call
    BY <1>5, <2>1
  <2>5. TreeFits(t, lg)
    BY <2>1
  <2> HIDE DEF t
  <2>6. t.state = lg[ItSelf] /\ (t.open <=> lg[ItSelf] = "running") /\ PhasesFit(t.phases, lg)
    BY <2>5 DEF TreeFits
  <2>7. \A m \in Members : DrawsAs(t, m, lg[m])
    BY <2>6, DrawnOnce
  <2>8. \A x \in Trees(run.id) : x = t
    BY <2>2 DEF t
  <2>9. QED
    BY <1>6, <1>8, <2>3, <2>4, <2>6, <2>7, <2>8 DEF run
<1>9. QED
  BY <1>7, <1>8

LEMMA LiveIsThat == ProjInv => LiveHasHappened
<1> SUFFICES ASSUME ProjInv, NEW r \in DOMAIN made, made[r].orderly, Alone(r), made[r].call \in DOMAIN shownTree
             PROVE  LET t == shownTree[made[r].call]
                    IN  /\ t.state \in {"running", made[r].is[ItSelf]}
                        /\ \A i \in DOMAIN t.phases : \A j \in DOMAIN t.phases[i].members :
                              LET mb == t.phases[i].members[j] IN mb.state \in {"running", made[r].is[mb.id]}
  BY DEF LiveHasHappened
<1> DEFINE t == shownTree[made[r].call]
           is == made[r].is
<1>1. r \in 1 .. Len(made) /\ Followed(made, r)
  BY AloneIsAlone
<1>2. t.call = made[r].call /\ Told(t, made)
  BY ProjFacts DEF RunsInv, ShownFits
<1> HIDE DEF t
<1>3. Happened(t, is)
  BY <1>1, <1>2 DEF Told
<1> HIDE DEF is
<1>4. t.state \in {"running", is[ItSelf]}
  BY <1>3 DEF Happened
<1>5. \A i \in DOMAIN t.phases : \A j \in DOMAIN t.phases[i].members :
          t.phases[i].members[j].state \in {"running", is[t.phases[i].members[j].id]}
  BY <1>3 DEF Happened, MemberHappened
<1>6. QED
  BY <1>4, <1>5 DEF t, is

LEMMA RatingsAreThat == ProjInv => RatingsKept
  BY DEF ProjInv, Rated, RatingsKept

LEMMA ProjIsSound == ProjSpec => []ProjectionsSound
<1>1. ProjInit => ProjInv
  BY ProjStarts
<1>2. ProjInv => ProjectionsSound
  BY OutlineIsThat, TreeIsThat, LiveIsThat, RatingsAreThat DEF ProjectionsSound
<1>3. QED
  BY <1>1, <1>2, ProjStep, PTL DEF ProjSpec

-----------------------------------------------------------------------------
(* The collection: a behaviour of it is one of each part. *)

LEMMA PartsStep ==
    [Next]_<<part, allVars>> => /\ [SurfaceNext]_surfaceVars
                                /\ [StoreNext]_storeVars
                                /\ [VerdictNext]_verdictVars
                                /\ [ProjNext]_projVars
<1> USE DEF allVars
<1>1. [Next]_<<part, allVars>> => [SurfaceNext]_surfaceVars
  BY DEF Next, SurfacePart, StorePart, VerdictPart, SyntaxPart, OutputPart, ViewsPart
<1>2. [Next]_<<part, allVars>> => [StoreNext]_storeVars
  BY DEF Next, SurfacePart, StorePart, VerdictPart, SyntaxPart, OutputPart, ViewsPart
<1>3. [Next]_<<part, allVars>> => [VerdictNext]_verdictVars
  BY DEF Next, SurfacePart, StorePart, VerdictPart, SyntaxPart, OutputPart, ViewsPart
<1>4. [Next]_<<part, allVars>> => [ProjNext]_projVars
  BY DEF Next, SurfacePart, StorePart, VerdictPart, SyntaxPart, OutputPart, ViewsPart
<1>5. QED
  BY <1>1, <1>2, <1>3, <1>4

LEMMA SpecOfParts == Spec => SurfaceSpec /\ StoreSpec /\ VerdictSpec /\ ProjSpec
<1>1. Init => SurfaceInit /\ StoreInit /\ VerdictInit /\ ProjInit
  BY DEF Init
<1>2. QED
  BY PartsStep, <1>1, PTL DEF Spec, SurfaceSpec, StoreSpec, VerdictSpec, ProjSpec

(* After any crash the log is read back without what no flush had          *)
(* confirmed, a torn write costs at most the row it cut and the next, and  *)
(* a log of another format is left alone (sessions_store.rs).              *)
THEOREM StoresAreSound == Spec => []StoreSound
<1>1. StoreTypeOK /\ CleanRestart /\ LossBounded /\ OldLeftAlone => StoreSound
  BY DEF StoreSound
<1>2. QED
  BY SpecOfParts, StoreIsSound, <1>1, PTL

(* A summary that lands is of what the model still sees, however the log   *)
(* moved while the summariser was at work (chat.rs compact_session).       *)
THEOREM SummariesAreOfVisible == Spec => SummaryOfVisible
  BY SpecOfParts, HistoryIsSound, PTL

(* In log order a summary's Replace is the splice it took the place of     *)
(* (event.rs derive_surface, chat.rs compact_session).                     *)
THEOREM FoldsAreSplices == Spec => SpliceInLogOrder
  BY SpecOfParts, HistoryIsSound, PTL

(* No context has two copies in the history the model is given, and a      *)
(* compaction cuts it where no call is parted from the result behind it    *)
(* (chat.rs append_runtime_context, refresh_instructions; compact.rs       *)
(* split_index).                                                           *)
THEOREM HistoriesAreSound == Spec => []SurfaceSound
<1>1. SurfaceTypeOK /\ OneSnapshot /\ SplitKeepsPairs => SurfaceSound
  BY DEF SurfaceSound
<1>2. QED
  BY SpecOfParts, HistoryIsSound, <1>1, PTL

(* The completion check judges its own turn and its own run                *)
(* (completion.rs, event.rs turn_progress and current_objective).          *)
THEOREM VerdictsAreSound == Spec => []VerdictSound
<1>1. VerdictTypeOK /\ ProgressOfThisTurn /\ ObjectiveInOneRun => VerdictSound
  BY DEF VerdictSound
<1>2. QED
  BY SpecOfParts, VerdictsBelong, <1>1, PTL

(* What the reader is shown of a log is what happened: every turn has its  *)
(* row with its own calls and end, and the counters agree with the rows;   *)
(* the tree of a run that no other run shares its id with is the run as it *)
(* was logged, each member once, and is complete once the tasks of its     *)
(* edges are through; the live tree shows nothing that has not happened;   *)
(* the ratings are the last given (project.rs SessionStats, TurnOutline,   *)
(* workflow_runs, feedback; chat.rs WorkflowBridge).                       *)
THEOREM ViewsOfLogAreSound == Spec => []ProjectionsSound
  BY SpecOfParts, ProjIsSound, PTL
=============================================================================

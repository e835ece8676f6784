----------------------------- MODULE FileProofs -----------------------------
(***************************************************************************)
(* Proofs about FileEvents: for any number of documents, clients,          *)
(* streams, faults and crashes, what a stream has shown follows the        *)
(* history of its document.  Told(c) is what a stream shows once it has    *)
(* sent all it holds: each of its statuses has a place in the history,     *)
(* and these places never go back.                                         *)
(***************************************************************************)
EXTENDS FileEvents, JobLemmas, OrderLemmas, SequenceTheorems

\* Each element of s has a place in p, at or after the one before it.
Follows(s, p) ==
  \E f \in [1 .. Len(s) -> 1 .. Len(p)] :
    /\ \A i \in 1 .. Len(s) : s[i] = p[f[i]]
    /\ \A i, j \in 1 .. Len(s) : i <= j => f[i] <= f[j]

LEMMA NothingFollows ==
  ASSUME NEW S, NEW p \in Seq(S)
  PROVE  Follows(<<>>, p)
<1> DEFINE s == <<>>
           f == [i \in {} |-> i]
<1>1. 1 .. Len(s) = {}
  OBVIOUS
<1>2. f \in [{} -> 1 .. Len(p)]
  OBVIOUS
<1> HIDE DEF s, f
<1>3. Follows(s, p)
  BY <1>1, <1>2 DEF Follows
<1> QED BY <1>3 DEF s

LEMMA FollowsLonger ==
  ASSUME NEW S, NEW s \in Seq(S), NEW p \in Seq(S), NEW e \in S, Follows(s, p)
  PROVE  Follows(s, Append(p, e))
<1>1. PICK f \in [1 .. Len(s) -> 1 .. Len(p)] :
        /\ \A i \in 1 .. Len(s) : s[i] = p[f[i]]
        /\ \A i, j \in 1 .. Len(s) : i <= j => f[i] <= f[j]
  BY DEF Follows
<1>2. /\ Len(Append(p, e)) = Len(p) + 1 /\ Len(p) \in Nat
      /\ \A i \in 1 .. Len(p) : Append(p, e)[i] = p[i]
  BY AppendProperties, LenProperties
<1>3. f \in [1 .. Len(s) -> 1 .. Len(p) + 1]
  BY <1>1, <1>2
<1>4. \A i \in 1 .. Len(s) : s[i] = Append(p, e)[f[i]]
  BY <1>1, <1>2
<1> QED BY <1>1, <1>2, <1>3, <1>4 DEF Follows

\* The last status of the history can be told next.
LEMMA FollowsWithLast ==
  ASSUME NEW S, NEW s \in Seq(S), NEW p \in Seq(S), p # <<>>, Follows(s, p)
  PROVE  Follows(Append(s, p[Len(p)]), p)
<1>1. PICK f \in [1 .. Len(s) -> 1 .. Len(p)] :
        /\ \A i \in 1 .. Len(s) : s[i] = p[f[i]]
        /\ \A i, j \in 1 .. Len(s) : i <= j => f[i] <= f[j]
  BY DEF Follows
<1>2. Len(p) \in Nat \ {0} /\ Len(s) \in Nat /\ p[Len(p)] \in S
  BY EmptySeq, LenProperties, ElementOfSeq
<1> DEFINE t == Append(s, p[Len(p)])
           g == [i \in 1 .. Len(s) + 1 |-> IF i = Len(s) + 1 THEN Len(p) ELSE f[i]]
<1>3. /\ Len(t) = Len(s) + 1 /\ t[Len(s) + 1] = p[Len(p)]
      /\ \A i \in 1 .. Len(s) : t[i] = s[i]
  BY <1>2, AppendProperties
<1>4. \A i \in 1 .. Len(s) + 1 : i = Len(s) + 1 \/ (i # Len(s) + 1 /\ i \in 1 .. Len(s))
  BY <1>2
<1>5. g \in [1 .. Len(t) -> 1 .. Len(p)]
  BY <1>1, <1>2, <1>3, <1>4
<1>6. \A i \in 1 .. Len(t) : t[i] = p[g[i]]
  BY <1>1, <1>3, <1>4
<1>7. ASSUME NEW i \in 1 .. Len(t), NEW j \in 1 .. Len(t), i <= j PROVE g[i] <= g[j]
  <2>1. CASE j = Len(s) + 1
    BY <2>1, <1>1, <1>2, <1>3, <1>4
  <2>2. CASE j # Len(s) + 1
    <3>1. i \in 1 .. Len(s) /\ j \in 1 .. Len(s) /\ i # Len(s) + 1
      BY <2>2, <1>2, <1>3, <1>7
    <3>2. g[i] = f[i] /\ g[j] = f[j]
      BY <2>2, <3>1, <1>3
    <3> QED BY <3>1, <3>2, <1>1, <1>7
  <2> QED BY <2>1, <2>2
<1> HIDE DEF t, g
<1>8. Follows(t, p)
  BY <1>5, <1>6, <1>7 DEF Follows
<1> QED BY <1>8 DEF t

\* What a stream has sent follows the history if all it holds does.
LEMMA FirstPartFollows ==
  ASSUME NEW S, NEW s \in Seq(S), NEW t \in Seq(S), NEW p \in Seq(S), Follows(s \o t, p)
  PROVE  Follows(s, p)
<1>1. /\ Len(s \o t) = Len(s) + Len(t) /\ Len(s) \in Nat /\ Len(t) \in Nat
      /\ \A i \in 1 .. Len(s) : (s \o t)[i] = s[i]
  <2>1. Len(s) \in Nat /\ Len(t) \in Nat
    BY LenProperties
  <2>2. /\ Len(s \o t) = Len(s) + Len(t)
        /\ \A i \in 1 .. Len(s) + Len(t) : (s \o t)[i] = IF i <= Len(s) THEN s[i] ELSE t[i - Len(s)]
    BY ConcatProperties
  <2> QED BY <2>1, <2>2
<1>2. PICK f \in [1 .. Len(s \o t) -> 1 .. Len(p)] :
        /\ \A i \in 1 .. Len(s \o t) : (s \o t)[i] = p[f[i]]
        /\ \A i, j \in 1 .. Len(s \o t) : i <= j => f[i] <= f[j]
  BY DEF Follows
<1> DEFINE g == [i \in 1 .. Len(s) |-> f[i]]
<1>3. \A i \in 1 .. Len(s) : i \in 1 .. Len(s \o t)
  BY <1>1
<1>4. g \in [1 .. Len(s) -> 1 .. Len(p)]
  BY <1>2, <1>3
<1>5. \A i \in 1 .. Len(s) : s[i] = p[g[i]]
  BY <1>1, <1>2, <1>3
<1>6. \A i, j \in 1 .. Len(s) : i <= j => g[i] <= g[j]
  BY <1>2, <1>3
<1> QED BY <1>4, <1>5, <1>6 DEF Follows

-----------------------------------------------------------------------------
Places(x, k, p) == {j \in k .. Len(p) : p[j] = x}

\* The place after k that Embeds finds for the i-th element of s.
NextPlace(s, p, k, i) ==
  IF k > Len(p) \/ Places(s[i], k, p) = {} THEN Len(p) + 1
  ELSE CHOOSE j \in Places(s[i], k, p) : \A l \in Places(s[i], k, p) : j <= l

\* It is the first of them, if there is one.
LEMMA NextPlaceIsFirst ==
  ASSUME NEW S, NEW s \in Seq(S), NEW p \in Seq(S), NEW i \in 1 .. Len(s),
         NEW k \in 1 .. Len(p), NEW j \in k .. Len(p), p[j] = s[i]
  PROVE  NextPlace(s, p, k, i) \in k .. j
<1>1. Len(p) \in Nat /\ k \in Nat /\ j \in Places(s[i], k, p)
  BY LenProperties DEF Places
<1>2. Places(s[i], k, p) \in SUBSET Nat /\ Places(s[i], k, p) # {}
  BY <1>1 DEF Places
<1>3. PICK n \in Places(s[i], k, p) : \A l \in Places(s[i], k, p) : n <= l
  BY <1>2, LeastNumber
<1> DEFINE least == CHOOSE x \in Places(s[i], k, p) : \A l \in Places(s[i], k, p) : x <= l
<1>4. least \in Places(s[i], k, p) /\ \A l \in Places(s[i], k, p) : least <= l
  BY <1>3
<1>5. ~(k > Len(p))
  BY <1>1
<1>6. NextPlace(s, p, k, i) = least
  BY <1>2, <1>5 DEF NextPlace
<1> HIDE DEF least
<1>7. least \in k .. Len(p) /\ least <= j
  BY <1>1, <1>4 DEF Places
<1> QED BY <1>1, <1>6, <1>7

LEMMA NextPlaceInRange ==
  ASSUME NEW S, NEW s \in Seq(S), NEW p \in Seq(S), NEW i \in 1 .. Len(s),
         NEW k \in 1 .. Len(p) + 1
  PROVE  NextPlace(s, p, k, i) \in 1 .. Len(p) + 1
<1>1. Len(p) \in Nat /\ k \in Nat
  BY LenProperties
<1>2. CASE k > Len(p) \/ Places(s[i], k, p) = {}
  BY <1>1, <1>2 DEF NextPlace
<1>3. CASE ~(k > Len(p) \/ Places(s[i], k, p) = {})
  <2>1. PICK j \in Places(s[i], k, p) : TRUE
    BY <1>3
  <2>2. k \in 1 .. Len(p) /\ j \in k .. Len(p) /\ p[j] = s[i]
    BY <1>1, <1>3, <2>1 DEF Places
  <2>3. NextPlace(s, p, k, i) \in k .. j
    BY <2>2, NextPlaceIsFirst
  <2> QED BY <1>1, <2>2, <2>3
<1> QED BY <1>2, <1>3

\* What follows the history is embedded in it: the first places are as good as
\* any others.
LEMMA FollowsEmbeds ==
  ASSUME NEW S, NEW s \in Seq(S), NEW p \in Seq(S), p # <<>>, Follows(s, p)
  PROVE  Embeds(s, p)
<1> DEFINE n == Len(s)
           Finds(g, k) == g \in [0 .. k -> 1 .. Len(p) + 1]
              /\ \A i \in 0 .. k : g[i] = IF i = 0 THEN 1 ELSE NextPlace(s, p, g[i - 1], i)
           T == {k \in Nat : k <= n => \E g : Finds(g, k)}
<1>1. n \in Nat /\ Len(p) \in Nat /\ Len(p) >= 1
  BY EmptySeq, LenProperties
<1>2. T \in SUBSET Nat
  OBVIOUS
<1>3. 0 \in T
  <2>1. Finds([i \in 0 .. 0 |-> 1], 0)
    BY <1>1
  <2> QED BY <2>1
<1>4. ASSUME NEW k \in T PROVE k + 1 \in T
  <2>1. k \in Nat /\ k + 1 \in Nat
    BY <1>2
  <2>2. SUFFICES ASSUME k + 1 <= n PROVE \E g : Finds(g, k + 1)
    BY <2>1
  <2>3. PICK g : Finds(g, k)
    BY <2>1, <2>2
  <2> DEFINE next == NextPlace(s, p, g[k], k + 1)
             h == [i \in 0 .. k + 1 |-> IF i = k + 1 THEN next ELSE g[i]]
  <2>4. next \in 1 .. Len(p) + 1
    <3>1. k + 1 \in 1 .. Len(s) /\ g[k] \in 1 .. Len(p) + 1
      BY <2>1, <2>2, <2>3, <1>1
    <3> QED BY <3>1, NextPlaceInRange
  <2>5. \A i \in 0 .. k + 1 : i = k + 1 \/ (i # k + 1 /\ i \in 0 .. k)
    BY <2>1
  <2>6. h \in [0 .. k + 1 -> 1 .. Len(p) + 1]
    BY <2>3, <2>4, <2>5
  <2>7. ASSUME NEW i \in 0 .. k + 1
        PROVE  h[i] = IF i = 0 THEN 1 ELSE NextPlace(s, p, h[i - 1], i)
    <3>1. CASE i # k + 1
      <4>1. h[i] = g[i] /\ i \in 0 .. k
        BY <3>1, <2>5
      <4>2. i # 0 => i - 1 \in 0 .. k + 1 /\ i - 1 # k + 1
        BY <2>1, <4>1
      <4>3. i # 0 => h[i - 1] = g[i - 1]
        BY <4>2
      <4> HIDE DEF h
      <4> QED BY <4>1, <4>3, <2>3
    <3>2. CASE i = k + 1
      <4>1. i # 0 /\ i - 1 = k /\ k \in 0 .. k + 1 /\ k # k + 1
        BY <3>2, <2>1
      <4>2. h[i] = next /\ h[k] = g[k]
        BY <3>2, <4>1
      <4> HIDE DEF h
      <4> QED BY <3>2, <4>1, <4>2
    <3> QED BY <3>1, <3>2
  <2> HIDE DEF h
  <2>8. Finds(h, k + 1)
    BY <2>6, <2>7
  <2> QED BY <2>8
<1> HIDE DEF Finds
<1>5. n \in T
  BY <1>1, <1>2, <1>3, <1>4, NaturalsByInduction
<1>6. PICK g : Finds(g, n)
  BY <1>1, <1>5
<1> DEFINE E(f) == [i \in 0 .. n |-> IF i = 0 THEN 1 ELSE NextPlace(s, p, f[i - 1], i)]
           found == CHOOSE f : f = E(f)
<1>7. g = E(g)
  BY <1>6 DEF Finds
<1>8. found = E(found)
  BY <1>7
<1>9. Embeds(s, p) <=> found[n] <= Len(p)
  BY DEF Embeds, NextPlace, Places
<1> HIDE DEF found
<1>10. \A i \in 0 .. n : found[i] = IF i = 0 THEN 1 ELSE NextPlace(s, p, found[i - 1], i)
  <2>1. \A f : \A i \in 0 .. n : E(f)[i] = IF i = 0 THEN 1 ELSE NextPlace(s, p, f[i - 1], i)
    OBVIOUS
  <2> HIDE DEF E
  <2> QED BY <1>8, <2>1
<1> HIDE DEF E
<1>11. PICK f \in [1 .. n -> 1 .. Len(p)] :
         /\ \A i \in 1 .. n : s[i] = p[f[i]]
         /\ \A i, j \in 1 .. n : i <= j => f[i] <= f[j]
  BY DEF Follows
<1> DEFINE U == {k \in Nat : k <= n => /\ found[k] \in 1 .. Len(p)
                                      /\ \A j \in 1 .. n : k <= j => found[k] <= f[j]}
<1>12. U \in SUBSET Nat
  OBVIOUS
<1>13. 0 \in U
  <2>1. found[0] = 1
    BY <1>1, <1>10
  <2>2. \A j \in 1 .. n : f[j] \in Nat /\ 1 <= f[j]
    BY <1>1, <1>11
  <2> QED BY <1>1, <2>1, <2>2
<1>14. ASSUME NEW k \in U PROVE k + 1 \in U
  <2>1. k \in Nat /\ k + 1 \in Nat
    BY <1>12
  <2>2. SUFFICES ASSUME k + 1 <= n
                 PROVE  /\ found[k + 1] \in 1 .. Len(p)
                        /\ \A j \in 1 .. n : k + 1 <= j => found[k + 1] <= f[j]
    BY <2>1
  <2>3. k + 1 \in 1 .. n /\ k + 1 \in 0 .. n /\ k + 1 # 0 /\ (k + 1) - 1 = k
    BY <1>1, <2>1, <2>2
  <2>4. found[k] \in 1 .. Len(p) /\ found[k] <= f[k + 1]
    BY <1>1, <2>1, <2>2, <2>3
  <2>5. f[k + 1] \in 1 .. Len(p) /\ p[f[k + 1]] = s[k + 1]
    BY <1>11, <2>3
  <2>6. f[k + 1] \in found[k] .. Len(p)
    BY <1>1, <2>4, <2>5
  <2>7. found[k + 1] = NextPlace(s, p, found[k], k + 1)
    BY <1>10, <2>3
  <2>8. found[k + 1] \in found[k] .. f[k + 1]
    BY <2>3, <2>4, <2>5, <2>6, <2>7, NextPlaceIsFirst
  <2>9. found[k + 1] \in 1 .. Len(p) /\ found[k + 1] <= f[k + 1]
    BY <1>1, <2>4, <2>5, <2>8
  <2>10. ASSUME NEW j \in 1 .. n, k + 1 <= j PROVE found[k + 1] <= f[j]
    <3>1. f[k + 1] <= f[j] /\ f[j] \in 1 .. Len(p)
      BY <1>11, <2>3, <2>10
    <3> QED BY <1>1, <2>5, <2>9, <3>1
  <2> QED BY <2>9, <2>10
<1> HIDE DEF U
<1>15. n \in U
  BY <1>1, <1>12, <1>13, <1>14, NaturalsByInduction
<1>16. found[n] \in 1 .. Len(p)
  BY <1>1, <1>15 DEF U
<1> QED BY <1>1, <1>9, <1>16

-----------------------------------------------------------------------------
\* What a stream will have shown once it has sent the status it was greeted
\* with and the events that wait.
Greeting(c) == IF conn[c] \in {"read", "subscribed"} THEN <<snap[c]>> ELSE <<>>
Told(c) == (shown[c] \o Greeting(c)) \o inbox[c]

StreamAt(c) ==
  /\ conn[c] \in {"away", "read", "closed"} => inbox[c] = <<>>
  /\ conn[c] \in {"away", "read", "subscribed"} => shown[c] = <<>>

\* The history of a document ends with the status of its row.
History(d) == past[d] # <<>> /\ past[d][Len(past[d])] = doc[d].status

FileInv ==
  /\ TypeOK
  /\ \A d \in DocId : StatusAt(d) /\ History(d)
  /\ \A c \in Clients : StreamAt(c) /\ Follows(Told(c), past[Watched[c]])

LEMMA TypesHere ==
  ASSUME FileInv
  PROVE  /\ StoreTypeOK /\ WorkerTypeOK /\ doc \in [DocId -> Row]
         /\ conn \in [Clients -> {"away", "read", "subscribed", "listening", "closed"}]
         /\ snap \in [Clients -> Status]
         /\ inbox \in [Clients -> Seq(Status)] /\ shown \in [Clients -> Seq(Status)]
         /\ opens \in [Clients -> 0 .. MaxOpens] /\ past \in [DocId -> Seq(Status)]
         /\ \A c \in Clients : Watched[c] \in DocId
BY ClientsAssumption DEF FileInv, TypeOK, StoreTypeOK, ClientsAssumption

LEMMA ToldTyped ==
  ASSUME FileInv, NEW c \in Clients
  PROVE  /\ shown[c] \in Seq(Status) /\ Greeting(c) \in Seq(Status) /\ inbox[c] \in Seq(Status)
         /\ shown[c] \o Greeting(c) \in Seq(Status) /\ Told(c) \in Seq(Status)
<1>1. shown[c] \in Seq(Status) /\ inbox[c] \in Seq(Status) /\ snap[c] \in Status
  BY TypesHere
<1>2. Greeting(c) \in Seq(Status)
  BY <1>1 DEF Greeting
<1>3. shown[c] \o Greeting(c) \in Seq(Status)
  BY <1>1, <1>2, ConcatProperties
<1> QED BY <1>1, <1>2, <1>3, ConcatProperties DEF Told

LEMMA InitFiles == Init => FileInv
<1> SUFFICES ASSUME Init PROVE FileInv
  OBVIOUS
<1> USE DEF Init
<1>1. TypeOK
  <2>1. NewRow \in Row
    BY DEF NewRow, NoRow, Row, Status
  <2>2. StoreTypeOK
    BY <2>1, BoundAssumption DEF StoreTypeOK
  <2>3. WorkerTypeOK
    BY BoundAssumption DEF WorkerInit, WorkerTypeOK
  <2>4. <<>> \in Seq(Status) /\ <<"pending">> \in Seq(Status) /\ "absent" \in Status
    BY DEF Status
  <2>5. 0 \in 0 .. MaxOpens
    BY ClientsAssumption DEF ClientsAssumption
  <2> QED BY <2>2, <2>3, <2>4, <2>5 DEF TypeOK
<1>2. ASSUME NEW d \in DocId PROVE StatusAt(d) /\ History(d)
  <2>1. wpc[d] = "idle" /\ past[d] = <<"pending">> /\ doc[d].status = "pending"
    BY DEF WorkerInit, NewRow, NoRow
  <2>2. past[d] # <<>> /\ past[d][Len(past[d])] = "pending"
    BY <2>1
  <2> QED BY <2>1, <2>2 DEF StatusAt, History
<1>3. ASSUME NEW c \in Clients PROVE StreamAt(c) /\ Follows(Told(c), past[Watched[c]])
  <2>1. conn[c] = "away" /\ shown[c] = <<>> /\ inbox[c] = <<>>
    OBVIOUS
  <2>2. Told(c) = <<>>
    BY <2>1 DEF Told, Greeting
  <2>3. past[Watched[c]] \in Seq(Status)
    BY <1>1, ClientsAssumption DEF TypeOK, ClientsAssumption
  <2> QED BY <2>1, <2>2, <2>3, NothingFollows DEF StreamAt
<1> QED BY <1>1, <1>2, <1>3 DEF FileInv

\* A run publishes the status that its document has, and does so in a step
\* that leaves the row alone.
LEMMA EventIsCurrent ==
  ASSUME NEW d \in DocId, StatusAt(d), JobStep(d), Event(wpc[d]) # <<>>
  PROVE  Event(wpc[d]) = <<doc[d].status>> /\ doc' = doc
<1>1. wpc[d] \in {"publish_parsing", "chunk", "delete_vectors", "publish_indexed",
                  "publish_failed"}
  BY DEF Event
<1>2. Event(wpc[d]) = <<doc[d].status>>
  BY <1>1 DEF Event, StatusAt
<1>3. doc' = doc
  BY <1>1 DEF JobStep, At, SkipJob, LoadAndSetParsing, PublishParsing,
     DownloadAndParse, PutMarkdown, SetChunking, PublishAndChunk, SetEmbedding,
     DeleteVectors, UpsertBatch, InsertRowsAndIndex, InsertRowsConflict,
     PublishIndexed, SetFailed, PublishFailed, JobRaises
<1> QED BY <1>2, <1>3

LEMMA HistoryGrows ==
  ASSUME FileInv, NEW d \in DocId, Record(d), doc' \in [DocId -> Row]
  PROVE  /\ past' \in [DocId -> Seq(Status)] /\ History(d)'
         /\ \A e \in DocId \ {d} : past'[e] = past[e]
         /\ \/ past'[d] = past[d]
            \/ \E st \in Status : past'[d] = Append(past[d], st)
         /\ doc' = doc => past'[d] = past[d]
<1> DEFINE st == doc'[d].status
<1>1. past \in [DocId -> Seq(Status)] /\ st \in Status /\ past[d] \in Seq(Status)
  BY TypesHere DEF Row
<1>2. CASE st = doc[d].status
  <2>1. past' = past
    BY <1>1, <1>2 DEF Record
  <2> QED BY <1>1, <1>2, <2>1 DEF FileInv, History
<1>3. CASE st # doc[d].status
  <2>1. past' = [past EXCEPT ![d] = Append(past[d], st)]
    BY <1>1, <1>3 DEF Record
  <2>2. /\ Append(past[d], st) \in Seq(Status) /\ Append(past[d], st) # <<>>
        /\ Append(past[d], st)[Len(Append(past[d], st))] = st
    BY <1>1, AppendProperties
  <2> HIDE DEF st
  <2>3. past' \in [DocId -> Seq(Status)] /\ past'[d] = Append(past[d], st)
    BY <1>1, <2>1, <2>2
  <2>4. \A e \in DocId \ {d} : past'[e] = past[e]
    BY <1>1, <2>1
  <2>5. History(d)'
    BY <2>2, <2>3 DEF History, st
  <2>6. doc' # doc
    BY <1>3 DEF st
  <2> QED BY <1>1, <2>3, <2>4, <2>5, <2>6
<1> QED BY <1>2, <1>3

LEMMA JobPublishesKeeps ==
  ASSUME FileInv, NEW d \in DocId, JobPublishes(d)
  PROVE  FileInv'
<1> DEFINE ev == Event(wpc[d])
<1>1. /\ JobStep(d) /\ Record(d) /\ UNCHANGED <<conn, snap, shown, opens>>
      /\ inbox' = [c \in Clients |->
                    IF Watched[c] = d /\ Subscribed(c) THEN inbox[c] \o ev ELSE inbox[c]]
  BY DEF JobPublishes, Publish
<1>2. JobAction(d) /\ StoreTypeOK /\ WorkerTypeOK
  BY <1>1, TypesHere DEF JobAction
<1>3. StoreTypeOK' /\ WorkerTypeOK' /\ JobFrame(d)
  BY <1>2, JobType, JobFrames
<1>4. doc' \in [DocId -> Row]
  BY <1>3 DEF StoreTypeOK
<1>5. /\ past' \in [DocId -> Seq(Status)] /\ History(d)'
      /\ \A e \in DocId \ {d} : past'[e] = past[e]
      /\ \/ past'[d] = past[d]
         \/ \E st \in Status : past'[d] = Append(past[d], st)
      /\ doc' = doc => past'[d] = past[d]
  BY <1>1, <1>4, HistoryGrows
<1>6. ev \in Seq(Status)
  <2>1. ev = <<>> \/ \E st \in Status : ev = <<st>>
    BY DEF Event, Status
  <2>2. <<>> \in Seq(Status) /\ \A st \in Status : <<st>> \in Seq(Status)
    OBVIOUS
  <2> HIDE DEF ev
  <2> QED BY <2>1, <2>2
<1>7. ev # <<>> => ev = <<doc[d].status>> /\ doc' = doc
  BY <1>1, EventIsCurrent DEF FileInv
<1> HIDE DEF ev
<1>8. ASSUME NEW e \in DocId PROVE StatusAt(e)' /\ History(e)'
  <2>1. CASE e = d
    BY <2>1, <1>2, <1>5, JobStatus DEF FileInv
  <2>2. CASE e # d
    <3>1. StatusAt(e)'
      BY <2>2, <1>3, OtherStatus DEF FileInv
    <3>2. History(e)'
      BY <2>2, <1>3, <1>5 DEF FileInv, History, JobFrame
    <3> QED BY <3>1, <3>2
  <2> QED BY <2>1, <2>2
<1>9. TypeOK'
  <2>1. ASSUME NEW c \in Clients PROVE inbox[c] \o ev \in Seq(Status)
    BY <1>6, ToldTyped, ConcatProperties
  <2>2. inbox' \in [Clients -> Seq(Status)]
    BY <1>1, <2>1, TypesHere
  <2> QED BY <1>1, <1>3, <1>5, <2>2, TypesHere DEF TypeOK
<1>10. ASSUME NEW c \in Clients
       PROVE  StreamAt(c)' /\ Follows(Told(c)', past'[Watched[c]])
  <2>1. /\ Told(c) \in Seq(Status) /\ past[Watched[c]] \in Seq(Status)
        /\ Watched[c] \in DocId /\ Follows(Told(c), past[Watched[c]])
    BY ToldTyped, TypesHere DEF FileInv
  <2>2. shown'[c] = shown[c] /\ conn'[c] = conn[c] /\ Greeting(c)' = Greeting(c)
    BY <1>1 DEF Greeting
  <2>3. CASE inbox'[c] = inbox[c]
    <3>1. Told(c)' = Told(c) /\ StreamAt(c)'
      BY <2>2, <2>3 DEF Told, FileInv, StreamAt
    <3>2. \/ past'[Watched[c]] = past[Watched[c]]
          \/ \E st \in Status : past'[Watched[c]] = Append(past[Watched[c]], st)
      BY <1>5, <2>1
    <3>3. Follows(Told(c), past'[Watched[c]])
      BY <2>1, <3>2, FollowsLonger
    <3> QED BY <3>1, <3>3
  <2>4. CASE inbox'[c] # inbox[c]
    <3>1. Watched[c] = d /\ Subscribed(c) /\ inbox'[c] = inbox[c] \o ev
      BY <1>1, <2>4
    <3>2. ev # <<>>
      <4>1. inbox[c] \in Seq(Status)
        BY ToldTyped
      <4>2. ev = <<>> => inbox[c] \o ev = inbox[c]
        BY <4>1, ConcatEmptySeq
      <4> QED BY <4>2, <3>1, <2>4
    <3>3. ev = <<doc[d].status>> /\ past'[d] = past[d]
      BY <1>5, <1>7, <3>2
    <3>4. past[d] # <<>> /\ past[d][Len(past[d])] = doc[d].status /\ doc[d].status \in Status
      BY TypesHere DEF FileInv, History, Row
    <3>5. Told(c)' = Append(Told(c), doc[d].status)
      <4>1. Told(c)' = (shown[c] \o Greeting(c)) \o (inbox[c] \o ev)
        BY <2>2, <3>1 DEF Told
      <4>2. shown[c] \o Greeting(c) \in Seq(Status) /\ inbox[c] \in Seq(Status)
        BY ToldTyped
      <4>3. (shown[c] \o Greeting(c)) \o (inbox[c] \o ev)
               = ((shown[c] \o Greeting(c)) \o inbox[c]) \o ev
        <5>1. \A x, y, z \in Seq(Status) : (x \o y) \o z = x \o (y \o z)
          BY ConcatAssociative
        <5> QED BY <1>6, <4>2, <5>1
      <4>4. Told(c)' = Told(c) \o ev
        BY <4>1, <4>3 DEF Told
      <4> QED BY <2>1, <3>3, <3>4, <4>4, AppendIsConcat
    <3>6. Follows(Append(Told(c), past[d][Len(past[d])]), past[d])
      BY <2>1, <3>1, <3>4, FollowsWithLast
    <3>7. StreamAt(c)'
      BY <2>2, <3>1 DEF FileInv, StreamAt, Subscribed
    <3> QED BY <3>1, <3>3, <3>4, <3>5, <3>6, <3>7
  <2> QED BY <2>3, <2>4
<1> QED BY <1>8, <1>9, <1>10 DEF FileInv

LEMMA JobDisturbedKeeps ==
  ASSUME FileInv, NEW d \in DocId, JobDisturbed(d)
  PROVE  FileInv'
<1>1. /\ Pick(d) \/ GiveUp(d) \/ CallRaises(d) \/ Timeout(d) \/ Crash(d)
      /\ UNCHANGED <<conn, snap, inbox, shown, opens, past>>
  BY DEF JobDisturbed, clientVars
<1>2. JobAction(d) /\ StoreTypeOK /\ WorkerTypeOK
  BY <1>1, TypesHere DEF JobAction
<1>3. StoreTypeOK' /\ WorkerTypeOK' /\ JobFrame(d)
  BY <1>2, JobType, JobFrames
<1>4. doc' = doc
  BY <1>1 DEF Pick, GiveUp, CallRaises, Timeout, Crash, JobRaises
<1>5. TypeOK'
  BY <1>1, <1>3, TypesHere DEF TypeOK
<1>6. ASSUME NEW e \in DocId PROVE StatusAt(e)' /\ History(e)'
  <2>1. StatusAt(e)'
    BY <1>2, <1>3, JobStatus, OtherStatus DEF FileInv
  <2> QED BY <1>1, <1>4, <2>1 DEF FileInv, History
<1>7. ASSUME NEW c \in Clients
      PROVE  StreamAt(c)' /\ Follows(Told(c)', past'[Watched[c]])
  <2>1. Told(c)' = Told(c)
    BY <1>1 DEF Told, Greeting
  <2> QED BY <1>1, <2>1 DEF FileInv, StreamAt
<1> QED BY <1>5, <1>6, <1>7 DEF FileInv

\* A step of client c's stream that leaves the other streams, the documents and
\* their histories alone keeps the invariant if c's own part of it holds.
LEMMA ClientKeeps ==
  ASSUME FileInv, NEW c \in Clients, UNCHANGED <<storeVars, workerVars, past>>,
         conn' \in [Clients -> {"away", "read", "subscribed", "listening", "closed"}],
         snap' \in [Clients -> Status], inbox' \in [Clients -> Seq(Status)],
         shown' \in [Clients -> Seq(Status)], opens' \in [Clients -> 0 .. MaxOpens],
         \A k \in Clients \ {c} : /\ conn'[k] = conn[k] /\ snap'[k] = snap[k]
                                 /\ inbox'[k] = inbox[k] /\ shown'[k] = shown[k],
         StreamAt(c)', Follows(Told(c)', past[Watched[c]])
  PROVE  FileInv'
<1>1. /\ past' = past /\ doc' = doc /\ wpc' = wpc
      /\ UNCHANGED <<rows, vectors, objects, queue, faults, crashes, upserted, tries>>
  BY DEF storeVars, workerVars
<1>2. StoreTypeOK' /\ WorkerTypeOK'
  BY <1>1, TypesHere DEF StoreTypeOK, WorkerTypeOK
<1>3. TypeOK'
  BY <1>1, <1>2, TypesHere DEF TypeOK
<1>4. \A d \in DocId : StatusAt(d)' /\ History(d)'
  BY <1>1 DEF FileInv, StatusAt, History
<1>5. ASSUME NEW k \in Clients
      PROVE  StreamAt(k)' /\ Follows(Told(k)', past'[Watched[k]])
  <2>1. CASE k = c
    BY <1>1, <2>1
  <2>2. CASE k # c
    <3>1. Told(k)' = Told(k) /\ StreamAt(k)'
      BY <2>2 DEF Told, Greeting, FileInv, StreamAt
    <3> QED BY <1>1, <3>1 DEF FileInv
  <2> QED BY <2>1, <2>2
<1> QED BY <1>3, <1>4, <1>5 DEF FileInv

LEMMA OpenKeeps ==
  ASSUME FileInv, NEW c \in Clients, Open(c)
  PROVE  FileInv'
<1> DEFINE st == doc[Watched[c]].status
<1>1. Watched[c] \in DocId /\ st \in Status /\ past[Watched[c]] \in Seq(Status)
  BY TypesHere DEF Row
<1>2. /\ conn' = [conn EXCEPT ![c] = "read"] /\ snap' = [snap EXCEPT ![c] = st]
      /\ shown' = [shown EXCEPT ![c] = <<>>] /\ opens' = [opens EXCEPT ![c] = @ + 1]
      /\ UNCHANGED <<storeVars, workerVars, inbox, past>>
      /\ conn[c] \in {"away", "closed"} /\ opens[c] < MaxOpens
  BY DEF Open
<1> HIDE DEF st
<1>3. conn'[c] = "read" /\ snap'[c] = st /\ shown'[c] = <<>> /\ inbox'[c] = <<>>
  BY <1>2, TypesHere DEF FileInv, StreamAt
<1>4. Told(c)' = <<st>>
  BY <1>3 DEF Told, Greeting
<1>5. Follows(<<st>>, past[Watched[c]])
  <2>1. past[Watched[c]] # <<>> /\ past[Watched[c]][Len(past[Watched[c]])] = st
    BY <1>1 DEF FileInv, History, st
  <2>2. Follows(Append(<<>>, st), past[Watched[c]])
    <3>1. <<>> \in Seq(Status) /\ Follows(<<>>, past[Watched[c]])
      BY <1>1, NothingFollows
    <3> QED BY <1>1, <2>1, <3>1, FollowsWithLast
  <2>3. Append(<<>>, st) = <<st>>
    OBVIOUS
  <2> QED BY <2>2, <2>3
<1>6. StreamAt(c)'
  BY <1>3 DEF StreamAt
<1>7. opens' \in [Clients -> 0 .. MaxOpens]
  <2>1. opens[c] + 1 \in 0 .. MaxOpens
    <3>1. opens[c] \in 0 .. MaxOpens /\ MaxOpens \in Nat
      BY TypesHere, ClientsAssumption DEF ClientsAssumption
    <3> QED BY <3>1, <1>2
  <2> QED BY <1>2, <2>1, TypesHere
<1>8. /\ conn' \in [Clients -> {"away", "read", "subscribed", "listening", "closed"}]
      /\ snap' \in [Clients -> Status] /\ inbox' \in [Clients -> Seq(Status)]
      /\ shown' \in [Clients -> Seq(Status)]
  BY <1>1, <1>2, TypesHere
<1>9. \A k \in Clients \ {c} : /\ conn'[k] = conn[k] /\ snap'[k] = snap[k]
                              /\ inbox'[k] = inbox[k] /\ shown'[k] = shown[k]
  BY <1>2, TypesHere
<1>10. UNCHANGED <<storeVars, workerVars, past>>
  BY <1>2
<1> QED BY <1>4, <1>5, <1>6, <1>7, <1>8, <1>9, <1>10, ClientKeeps

LEMMA SubscribeKeeps ==
  ASSUME FileInv, NEW c \in Clients, Subscribe(c)
  PROVE  FileInv'
<1>1. /\ conn' = [conn EXCEPT ![c] = "subscribed"] /\ conn[c] = "read"
      /\ UNCHANGED <<storeVars, workerVars, snap, inbox, shown, opens, past>>
  BY DEF Subscribe
<1>2. conn'[c] = "subscribed" /\ \A k \in Clients \ {c} : conn'[k] = conn[k]
  BY <1>1, TypesHere
<1>3. Told(c)' = Told(c)
  BY <1>1, <1>2 DEF Told, Greeting
<1>4. StreamAt(c)' /\ Follows(Told(c)', past[Watched[c]])
  BY <1>1, <1>2, <1>3 DEF FileInv, StreamAt
<1>5. /\ conn' \in [Clients -> {"away", "read", "subscribed", "listening", "closed"}]
      /\ snap' \in [Clients -> Status] /\ inbox' \in [Clients -> Seq(Status)]
      /\ shown' \in [Clients -> Seq(Status)] /\ opens' \in [Clients -> 0 .. MaxOpens]
  BY <1>1, TypesHere
<1> QED BY <1>1, <1>2, <1>4, <1>5, ClientKeeps

LEMMA GreetKeeps ==
  ASSUME FileInv, NEW c \in Clients, Greet(c)
  PROVE  FileInv'
<1>1. /\ shown' = [shown EXCEPT ![c] = Append(@, snap[c])]
      /\ snap' = [snap EXCEPT ![c] = "absent"]
      /\ conn' = [conn EXCEPT ![c] = "listening"] /\ conn[c] = "subscribed"
      /\ UNCHANGED <<storeVars, workerVars, inbox, opens, past>>
  BY DEF Greet
<1>2. /\ shown[c] \in Seq(Status) /\ snap[c] \in Status
      /\ Append(shown[c], snap[c]) \in Seq(Status)
  BY TypesHere, AppendProperties
<1>3. /\ shown'[c] = Append(shown[c], snap[c]) /\ conn'[c] = "listening"
      /\ inbox'[c] = inbox[c]
  BY <1>1, TypesHere
<1>4. Told(c)' = Told(c)
  <2>1. Append(shown[c], snap[c]) = shown[c] \o <<snap[c]>>
    BY <1>2, AppendIsConcat
  <2>2. Append(shown[c], snap[c]) \o <<>> = Append(shown[c], snap[c])
    BY <1>2, ConcatEmptySeq
  <2>3. Greeting(c) = <<snap[c]>> /\ Greeting(c)' = <<>>
    BY <1>1, <1>3 DEF Greeting
  <2>4. Told(c) = (shown[c] \o <<snap[c]>>) \o inbox[c]
    BY <2>3 DEF Told
  <2>5. Told(c)' = (Append(shown[c], snap[c]) \o <<>>) \o inbox[c]
    BY <1>3, <2>3 DEF Told
  <2> QED BY <2>1, <2>2, <2>4, <2>5
<1>5. StreamAt(c)' /\ Follows(Told(c)', past[Watched[c]])
  BY <1>3, <1>4 DEF FileInv, StreamAt
<1>6. /\ conn' \in [Clients -> {"away", "read", "subscribed", "listening", "closed"}]
      /\ snap' \in [Clients -> Status] /\ inbox' \in [Clients -> Seq(Status)]
      /\ shown' \in [Clients -> Seq(Status)] /\ opens' \in [Clients -> 0 .. MaxOpens]
  <2>1. "absent" \in Status
    BY DEF Status
  <2> QED BY <1>1, <1>2, <2>1, TypesHere
<1>7. \A k \in Clients \ {c} : /\ conn'[k] = conn[k] /\ snap'[k] = snap[k]
                              /\ inbox'[k] = inbox[k] /\ shown'[k] = shown[k]
  BY <1>1, TypesHere
<1>8. UNCHANGED <<storeVars, workerVars, past>>
  BY <1>1
<1> QED BY <1>5, <1>6, <1>7, <1>8, ClientKeeps

LEMMA ReceiveKeeps ==
  ASSUME FileInv, NEW c \in Clients, Receive(c)
  PROVE  FileInv'
<1> DEFINE head == Head(inbox[c])
           rest == Tail(inbox[c])
           sent == Append(shown[c], head)
           last == head \in {"indexed", "failed"}
<1>1. /\ shown' = [shown EXCEPT ![c] = sent] /\ conn[c] = "listening" /\ inbox[c] # <<>>
      /\ conn' = IF last THEN [conn EXCEPT ![c] = "closed"] ELSE conn
      /\ inbox' = [inbox EXCEPT ![c] = IF last THEN <<>> ELSE rest]
      /\ UNCHANGED <<storeVars, workerVars, snap, opens, past>>
  BY DEF Receive
<1>2. /\ shown[c] \in Seq(Status) /\ inbox[c] \in Seq(Status)
      /\ head \in Status /\ rest \in Seq(Status) /\ sent \in Seq(Status)
      /\ past[Watched[c]] \in Seq(Status)
  <2>1. shown[c] \in Seq(Status) /\ inbox[c] \in Seq(Status) /\ past[Watched[c]] \in Seq(Status)
    BY TypesHere
  <2>2. head \in Status /\ rest \in Seq(Status)
    BY <1>1, <2>1, HeadTailProperties
  <2> QED BY <2>1, <2>2, AppendProperties
<1>3. Told(c) = sent \o rest
  <2>1. inbox[c] = <<head>> \o rest
    BY <1>1, <1>2
  <2>2. Greeting(c) = <<>>
    BY <1>1 DEF Greeting
  <2>3. shown[c] \o <<>> = shown[c]
    BY <1>2, ConcatEmptySeq
  <2>4. Told(c) = shown[c] \o inbox[c]
    BY <2>2, <2>3 DEF Told
  <2> HIDE DEF head, rest, sent
  <2>5. <<head>> \in Seq(Status)
    BY <1>2
  <2>6. (shown[c] \o <<head>>) \o rest = shown[c] \o (<<head>> \o rest)
    <3>1. \A x, y, z \in Seq(Status) : (x \o y) \o z = x \o (y \o z)
      BY ConcatAssociative
    <3> DEFINE one == <<head>>
    <3>2. shown[c] \in Seq(Status) /\ one \in Seq(Status) /\ rest \in Seq(Status)
      BY <1>2, <2>5
    <3> HIDE DEF one
    <3>3. (shown[c] \o one) \o rest = shown[c] \o (one \o rest)
      BY <3>1, <3>2
    <3> QED BY <3>3 DEF one
  <2>7. sent = shown[c] \o <<head>>
    BY <1>2, AppendIsConcat DEF sent
  <2> QED BY <2>1, <2>4, <2>6, <2>7
<1>4. Follows(sent \o rest, past[Watched[c]])
  BY <1>3 DEF FileInv
<1> HIDE DEF head, rest, sent, last
<1>5. Follows(sent, past[Watched[c]])
  BY <1>2, <1>4, FirstPartFollows
<1>6. /\ shown'[c] = sent /\ conn'[c] = (IF last THEN "closed" ELSE "listening")
      /\ inbox'[c] = (IF last THEN <<>> ELSE rest)
  BY <1>1, TypesHere
<1>7. Told(c)' = IF last THEN sent ELSE sent \o rest
  <2>1. Greeting(c)' = <<>>
    BY <1>6 DEF Greeting
  <2>2. sent \o <<>> = sent
    BY <1>2, ConcatEmptySeq
  <2>3. Told(c)' = (sent \o <<>>) \o inbox'[c]
    BY <1>6, <2>1 DEF Told
  <2> QED BY <1>6, <2>2, <2>3
<1>8. StreamAt(c)' /\ Follows(Told(c)', past[Watched[c]])
  BY <1>4, <1>5, <1>6, <1>7 DEF StreamAt
<1>9. /\ conn' \in [Clients -> {"away", "read", "subscribed", "listening", "closed"}]
      /\ snap' \in [Clients -> Status] /\ inbox' \in [Clients -> Seq(Status)]
      /\ shown' \in [Clients -> Seq(Status)] /\ opens' \in [Clients -> 0 .. MaxOpens]
  BY <1>1, <1>2, TypesHere
<1>10. \A k \in Clients \ {c} : /\ conn'[k] = conn[k] /\ snap'[k] = snap[k]
                               /\ inbox'[k] = inbox[k] /\ shown'[k] = shown[k]
  BY <1>1, TypesHere
<1>11. UNCHANGED <<storeVars, workerVars, past>>
  BY <1>1
<1> QED BY <1>8, <1>9, <1>10, <1>11, ClientKeeps

LEMMA HangUpKeeps ==
  ASSUME FileInv, NEW c \in Clients, HangUp(c)
  PROVE  FileInv'
<1>1. /\ conn' = [conn EXCEPT ![c] = "away"] /\ inbox' = [inbox EXCEPT ![c] = <<>>]
      /\ shown' = [shown EXCEPT ![c] = <<>>] /\ snap' = [snap EXCEPT ![c] = "absent"]
      /\ UNCHANGED <<storeVars, workerVars, opens, past>>
  BY DEF HangUp
<1>2. conn'[c] = "away" /\ shown'[c] = <<>> /\ inbox'[c] = <<>>
  BY <1>1, TypesHere
<1>3. Told(c)' = <<>>
  BY <1>2 DEF Told, Greeting
<1>4. StreamAt(c)' /\ Follows(Told(c)', past[Watched[c]])
  BY <1>2, <1>3, NothingFollows, TypesHere DEF StreamAt
<1>5. /\ conn' \in [Clients -> {"away", "read", "subscribed", "listening", "closed"}]
      /\ snap' \in [Clients -> Status] /\ inbox' \in [Clients -> Seq(Status)]
      /\ shown' \in [Clients -> Seq(Status)] /\ opens' \in [Clients -> 0 .. MaxOpens]
  <2>1. "absent" \in Status /\ <<>> \in Seq(Status)
    BY DEF Status
  <2> QED BY <1>1, <2>1, TypesHere
<1>6. \A k \in Clients \ {c} : /\ conn'[k] = conn[k] /\ snap'[k] = snap[k]
                              /\ inbox'[k] = inbox[k] /\ shown'[k] = shown[k]
  BY <1>1, TypesHere
<1>7. UNCHANGED <<storeVars, workerVars, past>>
  BY <1>1
<1> QED BY <1>4, <1>5, <1>6, <1>7, ClientKeeps

LEMMA FilesStutter == FileInv /\ UNCHANGED vars => FileInv'
<1> SUFFICES ASSUME FileInv, UNCHANGED vars PROVE FileInv'
  OBVIOUS
<1>1. UNCHANGED <<doc, rows, vectors, objects, queue, faults, crashes, wpc, upserted,
                  tries, conn, snap, inbox, shown, opens, past>>
  BY DEF vars, storeVars, workerVars, clientVars
<1>2. TypeOK'
  BY <1>1 DEF FileInv, TypeOK, StoreTypeOK, WorkerTypeOK
<1>3. \A d \in DocId : StatusAt(d)' /\ History(d)'
  BY <1>1 DEF FileInv, StatusAt, History
<1>4. ASSUME NEW c \in Clients PROVE StreamAt(c)' /\ Follows(Told(c)', past'[Watched[c]])
  <2>1. Told(c)' = Told(c)
    BY <1>1 DEF Told, Greeting
  <2> QED BY <1>1, <2>1 DEF FileInv, StreamAt
<1> QED BY <1>2, <1>3, <1>4 DEF FileInv

LEMMA NextFiles == FileInv /\ [Next]_vars => FileInv'
<1> SUFFICES ASSUME FileInv, [Next]_vars PROVE FileInv'
  OBVIOUS
<1>1. CASE UNCHANGED vars
  BY <1>1, FilesStutter
<1>2. ASSUME NEW d \in DocId, JobPublishes(d) \/ JobDisturbed(d) PROVE FileInv'
  BY <1>2, JobPublishesKeeps, JobDisturbedKeeps
<1>3. ASSUME NEW c \in Clients, Open(c) \/ StreamStep(c) \/ HangUp(c) PROVE FileInv'
  BY <1>3, OpenKeeps, SubscribeKeeps, GreetKeeps, ReceiveKeeps, HangUpKeeps
  DEF StreamStep
<1> QED BY <1>1, <1>2, <1>3 DEF Next

\* The inductive invariant holds throughout every behaviour.
THEOREM FilesAreInductive == Spec => []FileInv
BY InitFiles, NextFiles, PTL DEF Spec

\* Every stream, queue of events and history holds statuses that documents have
\* (files.py:171-206).
THEOREM FileEventsTyped == Spec => []TypeOK
<1>1. FileInv => TypeOK
  BY DEF FileInv
<1> QED BY <1>1, FilesAreInductive, PTL

\* However many clients, reconnections, faults and crashes there are, a stream
\* shows only statuses that its document had, in the order in which it had them
\* (files.py:177-201).
THEOREM StreamsTellTheHistory == Spec => []StreamsFollowHistory
<1>1. FileInv => StreamsFollowHistory
  <2> SUFFICES ASSUME FileInv, NEW c \in Clients
               PROVE  Embeds(shown[c], past[Watched[c]])
    BY DEF StreamsFollowHistory
  <2>1. /\ past[Watched[c]] \in Seq(Status) /\ past[Watched[c]] # <<>>
        /\ Follows(Told(c), past[Watched[c]])
    BY TypesHere DEF FileInv, History
  <2>2. /\ shown[c] \in Seq(Status) /\ Greeting(c) \in Seq(Status) /\ inbox[c] \in Seq(Status)
        /\ shown[c] \o Greeting(c) \in Seq(Status)
    BY ToldTyped
  <2>3. Follows(shown[c] \o Greeting(c), past[Watched[c]])
    BY <2>1, <2>2, FirstPartFollows DEF Told
  <2>4. Follows(shown[c], past[Watched[c]])
    BY <2>1, <2>2, <2>3, FirstPartFollows
  <2> QED BY <2>1, <2>2, <2>4, FollowsEmbeds
<1> QED BY <1>1, FilesAreInductive, PTL
=============================================================================

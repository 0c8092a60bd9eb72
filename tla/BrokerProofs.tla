---------------------------- MODULE BrokerProofs ----------------------------
(***************************************************************************)
(* Proofs about Broker for every set of queues, consumers and messages,    *)
(* every choice of IDs, every backoff and number of attempts: type         *)
(* correctness, the truth of the triage record, the backoff between two    *)
(* deliveries, the order of first deliveries, and that the broker is a     *)
(* work queue.                                                             *)
(***************************************************************************)
EXTENDS Broker, Sums, SequenceTheorems

(* A message is in the ready queues, parked, in hand, acknowledged or dead. *)
Entries(queues) == UNION {ToSet(queues[q]) : q \in Queues}
HandNames == {x.m : x \in InHand}
DeadNames == {d.m : d \in Dead}

Causing == (UNION Range(Causes)) \cup {""}
Failure == [at : Nat \ {0}, cause : Causing]

(* The conjuncts of TypeOK, and the types of the history. *)
Types ==
    /\ now \in Nat \ {0}
    /\ ready \in [Queues -> Seq(Pending)]
    /\ dlq \in [Queues -> Seq(Message)]
    /\ inflight \in SUBSET Pending /\ IsFiniteSet(inflight)
    /\ loop \in [Consumers -> Queues \cup {NotConsuming}]
    /\ held \in [Consumers -> Message \cup {Nothing}]
    /\ acked \in SUBSET Messages
    /\ published \in [Queues -> Seq(Messages)]
    /\ started \in [Queues -> Seq(Messages)]
    /\ attempts0 \in [Messages -> Nat]
    /\ failures \in [Messages -> Seq(Failure)]
    /\ idOf \in IdChoices

(* A ready queue holds messages of its own, each once. *)
Lined(q, s) ==
    /\ \A i \in 1 .. Len(s) : s[i].msg.Queue = q
    /\ \A i, k \in 1 .. Len(s) : s[i] = s[k] => i = k

(* The entries of a ready queue that were never tried are the published    *)
(* messages that were not started, in the order of Publish.                *)
Fresh(p) == p.visibleAt = Zero
Unstarted(begun, sent) == Len(begun) + 1 .. Len(sent)
Places(place, D, s, sent) ==
    /\ \A a \in D : Fresh(s[place[a]]) /\ s[place[a]].msg.m = sent[a]
    /\ \A a, b \in D : a < b => place[a] < place[b]
    /\ \A i \in 1 .. Len(s) : Fresh(s[i]) => \E a \in D : place[a] = i
InStep(s, begun, sent) ==
    /\ Len(begun) <= Len(sent)
    /\ \A a \in 1 .. Len(begun) : begun[a] = sent[a]
    /\ \E place \in [Unstarted(begun, sent) -> 1 .. Len(s)] :
        Places(place, Unstarted(begun, sent), s, sent)

(* No two consumers work on the same message. *)
OneEach(hands) == \A c, e \in Consumers : hands[c] # Nothing /\ hands[c] = hands[e] => c = e
HandsOf(hands) == {hands[c] : c \in Consumers} \ {Nothing}

(* No message is in two places. *)
Stock == Entries(ready) \cup inflight
Apart ==
    /\ Entries(ready) \cap inflight = {}
    /\ \A p, r \in Stock : p.msg.m = r.msg.m => p = r
    /\ OneEach(held)
    /\ \A x, y \in InHand : x.m = y.m => x = y
    /\ \A p \in Stock : p.msg.m \notin HandNames \cup acked \cup DeadNames
    /\ \A x \in InHand : x.m \notin acked \cup DeadNames
    /\ acked \cap DeadNames = {}
    /\ acked \cup DeadNames \subseteq Published

(* A message that waits or is in hand carries its history. *)
Known(x) ==
    LET f == failures[x.m] IN
    /\ x.m \in Published
    /\ x.ID = idOf[x.m]
    /\ x.Attempts = attempts0[x.m] + Len(f)
    /\ x.Attempts \in DOMAIN Causes
    /\ Len(f) > 0 => x.Attempts <= MaxAttempts
    /\ x.FirstFailedAt = IF Len(f) = 0 THEN Zero ELSE f[1].at

(* When the backoff after the last failure is over; Zero before the first. *)
Rested(x) ==
    LET f == failures[x.m] IN
    IF Len(f) = 0 THEN Zero ELSE f[Len(f)].at + Backoff * 2^(x.Attempts - 2)

Records ==
    /\ \A p \in Stock : Known(p.msg) /\ p.visibleAt = Rested(p.msg)
    /\ \A p \in inflight : p.visibleAt # Zero
    /\ \A x \in InHand : Known(x) /\ Rested(x) <= now
    /\ \A c \in Consumers : held[c] # Nothing => loop[c] # NotConsuming
    /\ \A m \in Messages :
        IF m \in Published THEN attempts0[m] > 0 ELSE failures[m] = <<>>
    /\ \A d \in Dead : Len(failures[d.m]) > 0
    /\ TriageIsTrue

Lines ==
    \A q \in Queues : Lined(q, ready[q]) /\ InStep(ready[q], started[q], published[q])

IInv == Types /\ Lines /\ Apart /\ Records

-----------------------------------------------------------------------------
(* Sequences: the first visible index, removal, concatenation and the      *)
(* orders of a finite set.                                                 *)
LEMMA FirstVisibleIs ==
  ASSUME NEW S, NEW s \in Seq(S), FirstVisible(s) # 0
  PROVE  /\ FirstVisible(s) \in 1 .. Len(s)
         /\ Visible(s[FirstVisible(s)])
         /\ \A k \in 1 .. FirstVisible(s) - 1 : ~Visible(s[k])
<1> DEFINE I == {i \in 1 .. Len(s) : Visible(s[i])}
<1>1. FirstVisible(s) = IF I # {} THEN Min(I) ELSE 0
  BY DEF FirstVisible, SelectInSeq
<1>2. IsFiniteSet(I)
  <2>1. IsFiniteSet(1 .. Len(s))
    BY FS_Interval
  <2> QED
    BY <2>1, FS_Subset
<1>3. I # {} /\ FirstVisible(s) = Min(I) /\ I \subseteq Nat
  BY <1>1
<1>4. PICK i \in I : i = Min(I) /\ \A y \in I : i <= y
  BY <1>2, <1>3, HasLeast
<1>5. i \in 1 .. Len(s) /\ Visible(s[i])
  OBVIOUS
<1>6. ASSUME NEW k \in 1 .. i - 1
      PROVE  ~Visible(s[k])
  <2>1. k \in 1 .. Len(s) /\ ~(i <= k)
    BY <1>5
  <2> QED
    BY <1>4, <2>1
<1> HIDE DEF I
<1> QED
  BY <1>3, <1>4, <1>5, <1>6

LEMMA RemoveAtIs ==
  ASSUME NEW S, NEW s \in Seq(S), NEW i \in 1 .. Len(s)
  PROVE  /\ RemoveAt(s, i) \in Seq(S)
         /\ Len(RemoveAt(s, i)) = Len(s) - 1
         /\ \A k \in 1 .. Len(s) - 1 :
                RemoveAt(s, i)[k] = IF k < i THEN s[k] ELSE s[k + 1]
<1> DEFINE u == SubSeq(s, 1, i - 1)
           v == SubSeq(s, i + 1, Len(s))
<1>1. /\ u \in Seq(S) /\ Len(u) = i - 1
      /\ \A k \in 1 .. i - 1 : u[k] = s[k]
  <2>1. \A k \in 1 .. i - 1 : s[k] \in S
    OBVIOUS
  <2> QED
    BY <2>1, SubSeqProperties
<1>2. /\ v \in Seq(S) /\ Len(v) = Len(s) - i
      /\ \A k \in 1 .. Len(s) - i : v[k] = s[i + k]
  <2>1. \A k \in i + 1 .. Len(s) : s[k] \in S
    OBVIOUS
  <2> QED
    BY <2>1, SubSeqProperties
<1>3. RemoveAt(s, i) = u \o v
  BY DEF RemoveAt
<1> HIDE DEF u, v
<1>4. /\ u \o v \in Seq(S) /\ Len(u \o v) = Len(s) - 1
      /\ \A k \in 1 .. Len(s) - 1 : (u \o v)[k] = IF k <= i - 1 THEN u[k] ELSE v[k - (i - 1)]
  <2>1. Len(u) + Len(v) = Len(s) - 1
    BY <1>1, <1>2
  <2>2. /\ u \o v \in Seq(S) /\ Len(u \o v) = Len(u) + Len(v)
        /\ \A k \in 1 .. Len(u) + Len(v) :
              (u \o v)[k] = IF k <= Len(u) THEN u[k] ELSE v[k - Len(u)]
    BY <1>1, <1>2, ConcatProperties
  <2> QED
    BY <1>1, <2>1, <2>2
<1>5. ASSUME NEW k \in 1 .. Len(s) - 1
      PROVE  (u \o v)[k] = IF k < i THEN s[k] ELSE s[k + 1]
  <2>1. CASE k < i
    BY <1>1, <1>4, <2>1
  <2>2. CASE ~(k < i)
    <3>1. k - (i - 1) \in 1 .. Len(s) - i /\ i + (k - (i - 1)) = k + 1
      BY <2>2
    <3>2. v[k - (i - 1)] = s[k + 1]
      BY <1>2, <3>1
    <3> QED
      BY <1>4, <2>2, <3>2
  <2> QED
    BY <2>1, <2>2
<1> QED
  BY <1>3, <1>4, <1>5

(* The set of the elements of a sequence, and of what is left of it. *)
LEMMA ElementsOf ==
  ASSUME NEW S, NEW s \in Seq(S)
  PROVE  ToSet(s) = {s[i] : i \in 1 .. Len(s)} /\ ToSet(s) \subseteq S
  BY DEF ToSet

LEMMA ElementsOfConcat ==
  ASSUME NEW S, NEW s \in Seq(S), NEW t \in Seq(S)
  PROVE  ToSet(s \o t) = ToSet(s) \cup ToSet(t)
<1>1. Range(s \o t) = Range(s) \cup Range(t)
  BY RangeConcatenation
<1>2. \A u : ToSet(u) = Range(u)
  BY DEF ToSet, Range
<1> QED
  BY <1>1, <1>2

LEMMA ElementsLeft ==
  ASSUME NEW S, NEW s \in Seq(S), NEW i \in 1 .. Len(s),
         \A j, k \in 1 .. Len(s) : s[j] = s[k] => j = k
  PROVE  /\ ToSet(RemoveAt(s, i)) = ToSet(s) \ {s[i]}
         /\ \A j, k \in 1 .. Len(s) - 1 : RemoveAt(s, i)[j] = RemoveAt(s, i)[k] => j = k
<1> DEFINE r == RemoveAt(s, i)
<1>1. /\ r \in Seq(S) /\ Len(r) = Len(s) - 1
      /\ \A k \in 1 .. Len(s) - 1 : r[k] = IF k < i THEN s[k] ELSE s[k + 1]
  BY RemoveAtIs
<1> HIDE DEF r
<1>2. ToSet(r) = {r[k] : k \in 1 .. Len(s) - 1} /\ ToSet(s) = {s[k] : k \in 1 .. Len(s)}
  BY <1>1, ElementsOf
<1>3. ASSUME NEW k \in 1 .. Len(s) - 1
      PROVE  r[k] \in ToSet(s) \ {s[i]}
  BY <1>1, <1>2, <1>3
<1>4. ASSUME NEW k \in 1 .. Len(s), k # i
      PROVE  s[k] \in ToSet(r)
  <2>1. CASE k < i
    <3>1. k \in 1 .. Len(s) - 1 /\ r[k] = s[k]
      BY <1>1, <1>4, <2>1
    <3> QED
      BY <1>2, <3>1
  <2>2. CASE k > i
    <3>1. k - 1 \in 1 .. Len(s) - 1 /\ r[k - 1] = s[k]
      BY <1>1, <1>4, <2>2
    <3> QED
      BY <1>2, <3>1
  <2> QED
    BY <1>4, <2>1, <2>2
<1>5. ToSet(r) = ToSet(s) \ {s[i]}
  <2>1. ASSUME NEW x \in ToSet(s) \ {s[i]}
        PROVE  x \in ToSet(r)
    <3>1. PICK k \in 1 .. Len(s) : x = s[k]
      BY <1>2
    <3> QED
      BY <1>4, <3>1
  <2>2. ASSUME NEW x \in ToSet(r)
        PROVE  x \in ToSet(s) \ {s[i]}
    <3>1. PICK k \in 1 .. Len(s) - 1 : x = r[k]
      BY <1>2
    <3> QED
      BY <1>3, <3>1
  <2> QED
    BY <2>1, <2>2
<1>6. \A j, k \in 1 .. Len(s) - 1 : r[j] = r[k] => j = k
  BY <1>1
<1> QED
  BY <1>5, <1>6 DEF r

LEMMA OrderIs ==
  ASSUME NEW S, IsFiniteSet(S), NEW f \in SetToSeqs(S)
  PROVE  /\ f \in Seq(S) /\ ToSet(f) = S
         /\ \A i, k \in 1 .. Len(f) : f[i] = f[k] => i = k
<1> DEFINE n == Cardinality(S)
<1>1. n \in Nat
  BY FS_CardinalityType
<1>2. f \in [1 .. n -> S] /\ \A i, j \in 1 .. n : i # j => f[i] # f[j]
  BY DEF SetToSeqs
<1>3. f \in Injection(1 .. n, S)
  BY <1>2 DEF Injection, IsInjective
<1>4. IsFiniteSet(1 .. n) /\ Cardinality(1 .. n) = n
  BY <1>1, FS_Interval
<1>5. f \in Surjection(1 .. n, S)
  BY <1>3, <1>4, FS_Injection
<1> HIDE DEF n
<1>6. f \in Seq(S) /\ Len(f) = n
  BY <1>1, <1>2
<1>7. ToSet(f) = S
  BY <1>2, <1>5 DEF ToSet, Surjection
<1> QED
  BY <1>2, <1>6, <1>7

-----------------------------------------------------------------------------
(* The delay before a redelivery: a shift that does not overflow.          *)
LEMMA PowerGrows ==
  ASSUME NEW m \in Nat, NEW n \in Nat, m <= n
  PROVE  2^m <= 2^n
<1>1. SUBSET (1 .. m) \in SUBSET (SUBSET (1 .. n))
  OBVIOUS
<1>2. IsFiniteSet(SUBSET (1 .. n)) /\ Cardinality(SUBSET (1 .. n)) = 2^n
  BY PowerIsCount
<1>3. Cardinality(SUBSET (1 .. m)) = 2^m
  BY PowerIsCount
<1>4. Cardinality(SUBSET (1 .. m)) <= Cardinality(SUBSET (1 .. n))
  BY <1>1, <1>2, FS_Subset
<1> QED
  BY <1>2, <1>3, <1>4

LEMMA PowerDoubles ==
  ASSUME NEW n \in Nat
  PROVE  2^(n + 1) >= 2^n + 2^n
<1> DEFINE A == SUBSET (1 .. n)
           B == {T \in SUBSET (1 .. n + 1) : n + 1 \in T}
           f == [T \in A |-> T \cup {n + 1}]
<1>1. /\ IsFiniteSet(A) /\ Cardinality(A) = 2^n /\ 2^n \in Nat
      /\ IsFiniteSet(SUBSET (1 .. n + 1)) /\ Cardinality(SUBSET (1 .. n + 1)) = 2^(n + 1)
      /\ 2^(n + 1) \in Nat
  <2>1. n + 1 \in Nat
    OBVIOUS
  <2>2. IsFiniteSet(A) /\ Cardinality(A) = 2^n /\ 2^n \in Nat
    BY PowerIsCount
  <2>3. /\ IsFiniteSet(SUBSET (1 .. n + 1)) /\ Cardinality(SUBSET (1 .. n + 1)) = 2^(n + 1)
        /\ 2^(n + 1) \in Nat
    BY <2>1, PowerIsCount
  <2> QED
    BY <2>2, <2>3
<1>2. B \in SUBSET (SUBSET (1 .. n + 1)) /\ A \in SUBSET (SUBSET (1 .. n + 1)) /\ A \cap B = {}
  OBVIOUS
<1>3. IsFiniteSet(B)
  BY <1>1, <1>2, FS_Subset
<1>4. f \in Injection(A, B)
  <2>1. \A T \in A : f[T] \in B /\ f[T] \ {n + 1} = T
    OBVIOUS
  <2>2. f \in [A -> B]
    BY <2>1
  <2>3. \A T, U \in A : f[T] = f[U] => T = U
    BY <2>1
  <2> QED
    BY <2>2, <2>3 DEF Injection, IsInjective
<1>5. Cardinality(A) <= Cardinality(B) /\ Cardinality(B) \in Nat
  BY <1>3, <1>4, FS_Injection, FS_CardinalityType
<1>6. Cardinality(A \cup B) = Cardinality(A) + Cardinality(B)
  <2>1. Cardinality(A \cap B) = 0
    BY <1>2, FS_EmptySet
  <2>2. Cardinality(A) \in Nat
    BY <1>1
  <2> HIDE DEF A, B
  <2>3. Cardinality(A \cup B) = Cardinality(A) + Cardinality(B) - Cardinality(A \cap B)
    BY <1>1, <1>3, FS_Union
  <2> QED
    BY <1>5, <2>1, <2>2, <2>3
<1>7. Cardinality(A \cup B) <= 2^(n + 1)
  <2>1. A \cup B \in SUBSET (SUBSET (1 .. n + 1))
    BY <1>2
  <2> HIDE DEF A, B
  <2> QED
    BY <1>1, <2>1, FS_Subset
<1> QED
  BY <1>1, <1>5, <1>6, <1>7

LEMMA TimesGrows ==
  \A a, b, c \in Nat : b <= c => a * b \in Nat /\ a * c \in Nat /\ a * b <= a * c
  OBVIOUS

LEMMA RemainderOfSmall ==
  \A x, m \in Nat : x < m => x % m = x
  OBVIOUS

LEMMA DelayIs ==
  ASSUME NEW n \in 2 .. MaxAttempts
  PROVE  Delay(n) = Backoff * 2^(n - 2) /\ Delay(n) \in Nat
<1>1. MaxAttempts \in Nat /\ MaxAttempts >= 2 /\ Backoff \in Nat /\ Width - 1 \in Nat
      /\ n - 2 \in Nat /\ MaxAttempts - 2 \in Nat /\ n - 2 <= MaxAttempts - 2
      /\ Width \in Nat /\ (Width - 1) + 1 = Width
  BY BrokerConstants
<1>2. PICK half \in Nat : half = 2^(Width - 1)
  BY <1>1, PowerIsCount
<1>3. PICK full \in Nat : full = 2^Width
  BY <1>1, PowerIsCount
<1>4. full >= half + half
  BY <1>1, <1>2, <1>3, PowerDoubles
<1>5. PICK x \in Nat : x = Backoff * 2^(n - 2) /\ x < half
  <2>1. PICK b \in Nat, c \in Nat : b = 2^(n - 2) /\ c = 2^(MaxAttempts - 2) /\ b <= c
    BY <1>1, PowerIsCount, PowerGrows
  <2>2. Backoff * b \in Nat /\ Backoff * c \in Nat /\ Backoff * b <= Backoff * c
    BY <1>1, <2>1, TimesGrows
  <2>3. Backoff * c < half
    BY <1>1, <1>2, <2>1, BackoffFits
  <2> QED
    BY <1>2, <2>1, <2>2, <2>3
<1>6. Delay(n) = ((x + half) % full) - half
  BY <1>2, <1>3, <1>5 DEF Delay
<1>7. (x + half) % full = x + half
  <2>1. x + half \in Nat /\ x + half < full
    BY <1>4, <1>5
  <2> QED
    BY <2>1, RemainderOfSmall
<1> QED
  BY <1>5, <1>6, <1>7

-----------------------------------------------------------------------------
(* What Publish, promotion and next do to a ready queue whose untried      *)
(* entries are in step with what was published and started.                *)
LEMMA InStepAppend ==
  ASSUME NEW S, NEW s \in Seq(S), NEW p \in S, NEW begun \in Seq(Messages),
         NEW sent \in Seq(Messages), InStep(s, begun, sent), Fresh(p), p.msg.m \in Messages
  PROVE  InStep(Append(s, p), begun, Append(sent, p.msg.m))
<1> DEFINE t == Append(s, p)
           more == Append(sent, p.msg.m)
           D == Unstarted(begun, sent)
           E == Unstarted(begun, more)
<1>1. /\ Len(t) = Len(s) + 1 /\ t[Len(s) + 1] = p /\ \A i \in 1 .. Len(s) : t[i] = s[i]
      /\ Len(more) = Len(sent) + 1 /\ more[Len(sent) + 1] = p.msg.m
      /\ \A i \in 1 .. Len(sent) : more[i] = sent[i]
      /\ Len(s) \in Nat /\ Len(sent) \in Nat /\ Len(begun) \in Nat
  OBVIOUS
<1> HIDE DEF t, more
<1>2. PICK place \in [D -> 1 .. Len(s)] : Places(place, D, s, sent)
  BY DEF InStep
<1>3. /\ Len(begun) <= Len(more)
      /\ \A a \in 1 .. Len(begun) : begun[a] = more[a]
  BY <1>1 DEF InStep
<1>4. /\ E = D \cup {Len(more)} /\ D \subseteq 1 .. Len(sent)
      /\ \A a \in D : a \in Int /\ a < Len(more) /\ a # Len(more)
  BY <1>1 DEF Unstarted, InStep
<1> HIDE DEF D, E
<1> DEFINE there == [a \in E |-> IF a = Len(more) THEN Len(t) ELSE place[a]]
<1>5. there[Len(more)] = Len(t) /\ t[Len(t)] = p /\ more[Len(more)] = p.msg.m
  BY <1>1, <1>4
<1>6. ASSUME NEW a \in D
      PROVE  /\ there[a] = place[a] /\ place[a] \in 1 .. Len(s) /\ place[a] < Len(t)
             /\ t[place[a]] = s[place[a]] /\ more[a] = sent[a] /\ a < Len(more) /\ a \in Int
             /\ Fresh(t[there[a]]) /\ t[there[a]].msg.m = more[a]
  <2>1. there[a] = place[a] /\ place[a] \in 1 .. Len(s) /\ a < Len(more) /\ a \in Int
    BY <1>4
  <2>2. place[a] < Len(t) /\ t[place[a]] = s[place[a]] /\ more[a] = sent[a]
    BY <1>1, <1>4, <2>1
  <2> QED
    BY <1>2, <2>1, <2>2 DEF Places
<1>7. there \in [E -> 1 .. Len(t)]
  <2>1. ASSUME NEW a \in E PROVE there[a] \in 1 .. Len(t)
    BY <1>1, <1>4, <1>5, <1>6
  <2> QED
    BY <2>1
<1> HIDE DEF there
<1>8. ASSUME NEW a \in E PROVE Fresh(t[there[a]]) /\ t[there[a]].msg.m = more[a]
  BY <1>4, <1>5, <1>6
<1>9. ASSUME NEW a \in E, NEW b \in E, a < b PROVE there[a] < there[b]
  <2>1. a \in D
    <3>1. CASE b = Len(more)
      BY <1>4, <1>9, <3>1
    <3>2. CASE b \in D
      BY <1>1, <1>4, <1>9, <3>2
    <3> QED
      BY <1>4, <3>1, <3>2
  <2>2. CASE b = Len(more)
    BY <1>5, <1>6, <2>1, <2>2
  <2>3. CASE b \in D
    BY <1>2, <1>6, <1>9, <2>1, <2>3 DEF Places
  <2> QED
    BY <1>4, <2>2, <2>3
<1>10. ASSUME NEW i \in 1 .. Len(t), Fresh(t[i]) PROVE \E a \in E : there[a] = i
  <2>1. CASE i = Len(t)
    BY <1>4, <1>5, <2>1
  <2>2. CASE i # Len(t)
    <3>1. i \in 1 .. Len(s) /\ Fresh(s[i])
      BY <1>1, <1>10, <2>2
    <3>2. PICK a \in D : place[a] = i
      BY <1>2, <3>1 DEF Places
    <3> QED
      BY <1>4, <1>6, <3>2
  <2> QED
    BY <2>1, <2>2
<1>11. Places(there, E, t, more)
  BY <1>8, <1>9, <1>10 DEF Places
<1>12. InStep(t, begun, more)
  BY <1>3, <1>7, <1>11 DEF InStep, E
<1> QED
  BY <1>12 DEF t, more

LEMMA InStepConcat ==
  ASSUME NEW S, NEW s \in Seq(S), NEW t \in Seq(S), NEW begun \in Seq(Messages),
         NEW sent \in Seq(Messages), InStep(s, begun, sent),
         \A i \in 1 .. Len(t) : ~Fresh(t[i])
  PROVE  InStep(s \o t, begun, sent)
<1> DEFINE u == s \o t
           D == Unstarted(begun, sent)
<1>1. /\ Len(u) = Len(s) + Len(t) /\ Len(s) \in Nat /\ Len(t) \in Nat
      /\ \A i \in 1 .. Len(s) : u[i] = s[i]
      /\ \A i \in 1 .. Len(u) : i > Len(s) => i - Len(s) \in 1 .. Len(t) /\ u[i] = t[i - Len(s)]
  BY ConcatProperties
<1> HIDE DEF u
<1>2. PICK place \in [D -> 1 .. Len(s)] : Places(place, D, s, sent)
  BY DEF InStep
<1> HIDE DEF D
<1>3. ASSUME NEW a \in D
      PROVE  /\ place[a] \in 1 .. Len(u) /\ u[place[a]] = s[place[a]]
             /\ Fresh(u[place[a]]) /\ u[place[a]].msg.m = sent[a]
  <2>1. place[a] \in 1 .. Len(s)
    OBVIOUS
  <2>2. place[a] \in 1 .. Len(u) /\ u[place[a]] = s[place[a]]
    BY <1>1, <2>1
  <2> QED
    BY <1>2, <2>2 DEF Places
<1>4. place \in [D -> 1 .. Len(u)]
  BY <1>3
<1>5. ASSUME NEW i \in 1 .. Len(u), Fresh(u[i]) PROVE \E a \in D : place[a] = i
  <2>1. CASE i > Len(s)
    BY <1>1, <1>5, <2>1
  <2>2. CASE ~(i > Len(s))
    <3>1. i \in 1 .. Len(s) /\ Fresh(s[i])
      BY <1>1, <1>5, <2>2
    <3> QED
      BY <1>2, <3>1 DEF Places
  <2> QED
    BY <2>1, <2>2
<1>6. Places(place, D, u, sent)
  BY <1>2, <1>3, <1>5 DEF Places
<1>7. InStep(u, begun, sent)
  BY <1>4, <1>6 DEF InStep, D
<1> QED
  BY <1>7 DEF u

LEMMA InStepSkip ==
  ASSUME NEW S, NEW s \in Seq(S), NEW k \in 1 .. Len(s), NEW begun \in Seq(Messages),
         NEW sent \in Seq(Messages), InStep(s, begun, sent), ~Fresh(s[k])
  PROVE  InStep(RemoveAt(s, k), begun, sent)
<1> DEFINE u == RemoveAt(s, k)
           D == Unstarted(begun, sent)
<1>1. /\ Len(u) = Len(s) - 1 /\ Len(s) \in Nat /\ k \in Int
      /\ \A i \in 1 .. Len(u) : u[i] = IF i < k THEN s[i] ELSE s[i + 1]
  BY RemoveAtIs
<1> HIDE DEF u
<1>2. PICK place \in [D -> 1 .. Len(s)] : Places(place, D, s, sent)
  BY DEF InStep
<1> HIDE DEF D
<1> DEFINE there == [a \in D |-> IF place[a] < k THEN place[a] ELSE place[a] - 1]
<1>3. ASSUME NEW a \in D
      PROVE  /\ place[a] \in Int /\ place[a] # k
             /\ there[a] = IF place[a] < k THEN place[a] ELSE place[a] - 1
             /\ there[a] \in 1 .. Len(u)
             /\ Fresh(u[there[a]]) /\ u[there[a]].msg.m = sent[a]
  <2>1. Fresh(s[place[a]]) /\ s[place[a]].msg.m = sent[a] /\ place[a] \in 1 .. Len(s)
    BY <1>2 DEF Places
  <2>2. place[a] # k
    BY <2>1
  <2>3. there[a] \in 1 .. Len(u) /\ u[there[a]] = s[place[a]]
    <3>1. CASE place[a] < k
      BY <1>1, <2>1, <3>1
    <3>2. CASE place[a] > k
      <4>1. there[a] = place[a] - 1 /\ place[a] - 1 \in 1 .. Len(u) /\ (place[a] - 1) + 1 = place[a]
            /\ ~(place[a] - 1 < k)
        BY <1>1, <2>1, <3>2
      <4> QED
        BY <1>1, <4>1
    <3> QED
      BY <1>1, <2>1, <2>2, <3>1, <3>2
  <2> QED
    BY <2>1, <2>2, <2>3
<1>4. there \in [D -> 1 .. Len(u)]
  BY <1>3
<1> HIDE DEF there
<1>5. ASSUME NEW a \in D, NEW b \in D, a < b PROVE there[a] < there[b]
  <2>1. place[a] < place[b]
    BY <1>2, <1>5 DEF Places
  <2> QED
    BY <1>1, <1>3, <2>1
<1>6. ASSUME NEW i \in 1 .. Len(u), Fresh(u[i]) PROVE \E a \in D : there[a] = i
  <2>1. CASE i < k
    <3>1. i \in 1 .. Len(s) /\ Fresh(s[i])
      BY <1>1, <1>6, <2>1
    <3>2. PICK a \in D : place[a] = i
      BY <1>2, <3>1 DEF Places
    <3> QED
      BY <1>3, <2>1, <3>2
  <2>2. CASE ~(i < k)
    <3>1. i + 1 \in 1 .. Len(s) /\ u[i] = s[i + 1]
      BY <1>1, <2>2
    <3>2. PICK a \in D : place[a] = i + 1
      BY <1>2, <1>6, <3>1 DEF Places
    <3>3. ~(place[a] < k) /\ place[a] - 1 = i
      BY <1>1, <2>2, <3>2
    <3> QED
      BY <1>3, <3>3
  <2> QED
    BY <2>1, <2>2
<1>7. Places(there, D, u, sent)
  BY <1>3, <1>5, <1>6 DEF Places
<1>8. InStep(u, begun, sent)
  BY <1>4, <1>7 DEF InStep, D
<1> QED
  BY <1>8 DEF u

LEMMA InStepBegin ==
  ASSUME NEW S, NEW s \in Seq(S), NEW k \in 1 .. Len(s), NEW begun \in Seq(Messages),
         NEW sent \in Seq(Messages), InStep(s, begun, sent),
         Fresh(s[k]), \A i \in 1 .. k - 1 : ~Fresh(s[i])
  PROVE  InStep(RemoveAt(s, k), Append(begun, s[k].msg.m), sent)
<1> DEFINE u == RemoveAt(s, k)
           next == Append(begun, s[k].msg.m)
           D == Unstarted(begun, sent)
           E == Unstarted(next, sent)
<1>1. /\ Len(u) = Len(s) - 1 /\ Len(s) \in Nat /\ k \in Int
      /\ \A i \in 1 .. Len(u) : u[i] = IF i < k THEN s[i] ELSE s[i + 1]
  BY RemoveAtIs
<1> HIDE DEF u
<1>2. PICK place \in [D -> 1 .. Len(s)] : Places(place, D, s, sent)
  BY DEF InStep
<1>3. PICK one \in D : place[one] = k
  BY <1>2 DEF Places
<1>4. one = Len(begun) + 1 /\ Len(begun) + 1 <= Len(sent) /\ Len(begun) \in Nat /\ Len(sent) \in Nat
  <2>1. Len(begun) \in Nat /\ Len(sent) \in Nat /\ one \in Int
        /\ Len(begun) + 1 <= one /\ one <= Len(sent)
    BY DEF Unstarted
  <2>2. ASSUME one # Len(begun) + 1 PROVE FALSE
    <3>1. Len(begun) + 1 \in D /\ Len(begun) + 1 < one
      BY <2>1, <2>2 DEF Unstarted
    <3>2. place[Len(begun) + 1] < k /\ place[Len(begun) + 1] \in 1 .. Len(s)
          /\ Fresh(s[place[Len(begun) + 1]])
      BY <1>2, <1>3, <3>1 DEF Places
    <3>3. place[Len(begun) + 1] \in 1 .. k - 1
      BY <1>1, <3>2
    <3> QED
      BY <3>2, <3>3
  <2> QED
    BY <2>1, <2>2
<1>5. s[k].msg.m = sent[Len(begun) + 1] /\ sent[Len(begun) + 1] \in Messages
  BY <1>2, <1>3, <1>4 DEF Places
<1>6. /\ Len(next) = Len(begun) + 1 /\ next[Len(begun) + 1] = sent[Len(begun) + 1]
      /\ \A a \in 1 .. Len(begun) : next[a] = begun[a]
  BY <1>4, <1>5
<1>7. /\ Len(next) <= Len(sent)
      /\ \A a \in 1 .. Len(next) : next[a] = sent[a]
  BY <1>4, <1>6 DEF InStep
<1> HIDE DEF next
<1>8. E \subseteq D /\ \A a \in E : a \in D /\ one < a
  BY <1>4, <1>6 DEF Unstarted
<1>9. \A a \in D : a # one => a \in E
  BY <1>4, <1>6 DEF Unstarted
<1> HIDE DEF D, E
<1> DEFINE there == [a \in E |-> place[a] - 1]
<1>10. ASSUME NEW a \in E
       PROVE  /\ place[a] \in Int /\ there[a] = place[a] - 1 /\ there[a] \in 1 .. Len(u)
              /\ Fresh(u[there[a]]) /\ u[there[a]].msg.m = sent[a]
  <2>1. /\ Fresh(s[place[a]]) /\ s[place[a]].msg.m = sent[a] /\ place[a] \in 1 .. Len(s)
        /\ k < place[a]
    BY <1>2, <1>3, <1>8 DEF Places
  <2>2. place[a] - 1 \in 1 .. Len(u) /\ (place[a] - 1) + 1 = place[a] /\ ~(place[a] - 1 < k)
    BY <1>1, <2>1
  <2>3. u[place[a] - 1] = s[place[a]]
    BY <1>1, <2>2
  <2> QED
    BY <2>1, <2>2, <2>3
<1>11. there \in [E -> 1 .. Len(u)]
  BY <1>10
<1> HIDE DEF there
<1>12. ASSUME NEW a \in E, NEW b \in E, a < b PROVE there[a] < there[b]
  <2>1. place[a] < place[b]
    BY <1>2, <1>8, <1>12 DEF Places
  <2> QED
    BY <1>10, <2>1
<1>13. ASSUME NEW i \in 1 .. Len(u), Fresh(u[i]) PROVE \E a \in E : there[a] = i
  <2>1. ~(i < k)
    <3>1. ASSUME i < k PROVE FALSE
      <4>1. i \in 1 .. k - 1 /\ u[i] = s[i]
        BY <1>1, <1>13, <3>1
      <4> QED
        BY <1>13, <4>1
    <3> QED
      BY <3>1
  <2>2. i + 1 \in 1 .. Len(s) /\ u[i] = s[i + 1] /\ i + 1 # k
    BY <1>1, <2>1
  <2>3. PICK a \in D : place[a] = i + 1
    BY <1>2, <1>13, <2>2 DEF Places
  <2>4. a \in E
    BY <1>3, <1>9, <2>2, <2>3
  <2> QED
    BY <1>10, <2>3, <2>4
<1>14. Places(there, E, u, sent)
  BY <1>10, <1>12, <1>13 DEF Places
<1>15. InStep(u, next, sent)
  BY <1>7, <1>11, <1>14 DEF InStep, E
<1> QED
  BY <1>15 DEF u, next

-----------------------------------------------------------------------------
LEMMA NothingIsNoMessage == Nothing \notin Message
  BY DEF Nothing, Message

(* Nobody renames a message. *)
LEMMA TypesStay ==
  idOf' = idOf => Message' = Message /\ Pending' = Pending
  BY DEF Message, Pending

LEMMA OnceConcat ==
  ASSUME NEW S, NEW s \in Seq(S), NEW t \in Seq(S),
         \A i, k \in 1 .. Len(s) : s[i] = s[k] => i = k,
         \A i, k \in 1 .. Len(t) : t[i] = t[k] => i = k,
         ToSet(s) \cap ToSet(t) = {}
  PROVE  \A i, k \in 1 .. Len(s \o t) : (s \o t)[i] = (s \o t)[k] => i = k
<1> DEFINE u == s \o t
<1>1. /\ Len(u) = Len(s) + Len(t) /\ Len(s) \in Nat /\ Len(t) \in Nat
      /\ \A i \in 1 .. Len(s) : u[i] = s[i]
      /\ \A i \in 1 .. Len(u) : i > Len(s) => i - Len(s) \in 1 .. Len(t) /\ u[i] = t[i - Len(s)]
  BY ConcatProperties
<1> HIDE DEF u
<1>2. ASSUME NEW i \in 1 .. Len(s), NEW k \in 1 .. Len(t)
      PROVE  s[i] # t[k]
  <2>1. s[i] \in ToSet(s) /\ t[k] \in ToSet(t)
    BY ElementsOf
  <2> QED
    BY <2>1
<1>3. ASSUME NEW i \in 1 .. Len(u), NEW k \in 1 .. Len(u), u[i] = u[k]
      PROVE  i = k
  <2>1. CASE i <= Len(s) /\ k <= Len(s)
    <3>1. i \in 1 .. Len(s) /\ k \in 1 .. Len(s)
      BY <1>1, <2>1
    <3> QED
      BY <1>1, <1>3, <3>1
  <2>2. CASE i > Len(s) /\ k > Len(s)
    <3>1. i - Len(s) = k - Len(s)
      BY <1>1, <1>3, <2>2
    <3> QED
      BY <1>1, <3>1
  <2>3. CASE i <= Len(s) /\ k > Len(s)
    <3>1. i \in 1 .. Len(s)
      BY <1>1, <2>3
    <3> QED
      BY <1>1, <1>2, <1>3, <2>3, <3>1
  <2>4. CASE i > Len(s) /\ k <= Len(s)
    <3>1. k \in 1 .. Len(s)
      BY <1>1, <2>4
    <3> QED
      BY <1>1, <1>2, <1>3, <2>4, <3>1
  <2> QED
    BY <1>1, <2>1, <2>2, <2>3, <2>4
<1> QED
  BY <1>3 DEF u

(* Promotion: the due entries join the ready queues they belong to. *)
LEMMA PromotedIs ==
  ASSUME IInv, NEW queues \in Promoted
  PROVE  /\ queues \in [Queues -> Seq(Pending)]
         /\ \A q \in Queues : Lined(q, queues[q]) /\ InStep(queues[q], started[q], published[q])
         /\ Entries(queues) = Entries(ready) \cup Due
<1>1. PICK order \in [Queues -> UNION {SetToSeqs(DueFor(q)) : q \in Queues}] :
        /\ \A q \in Queues : order[q] \in SetToSeqs(DueFor(q))
        /\ queues = [q \in Queues |-> ready[q] \o order[q]]
  BY DEF Promoted
<1>2. /\ ready \in [Queues -> Seq(Pending)] /\ inflight \in SUBSET Pending
      /\ IsFiniteSet(inflight) /\ started \in [Queues -> Seq(Messages)]
      /\ published \in [Queues -> Seq(Messages)] /\ Due \in SUBSET inflight
  BY DEF IInv, Types, Due
<1>3. ASSUME NEW q \in Queues
      PROVE  /\ queues[q] \in Seq(Pending)
             /\ ToSet(queues[q]) = ToSet(ready[q]) \cup DueFor(q)
             /\ Lined(q, queues[q]) /\ InStep(queues[q], started[q], published[q])
  <2>1. DueFor(q) \in SUBSET inflight /\ IsFiniteSet(DueFor(q)) /\ DueFor(q) \subseteq Pending
    <3>1. DueFor(q) \in SUBSET inflight
      BY <1>2 DEF DueFor
    <3> QED
      BY <1>2, <3>1, FS_Subset
  <2>2. PICK t \in SetToSeqs(DueFor(q)) : t = order[q] /\ queues[q] = ready[q] \o t
    BY <1>1
  <2>3. /\ t \in Seq(DueFor(q)) /\ ToSet(t) = DueFor(q)
        /\ \A i, k \in 1 .. Len(t) : t[i] = t[k] => i = k
    BY <2>1, OrderIs
  <2>4. t \in Seq(Pending) /\ ready[q] \in Seq(Pending)
    BY <1>2, <2>1, <2>3, SeqMonotonic
  <2>5. queues[q] \in Seq(Pending) /\ ToSet(queues[q]) = ToSet(ready[q]) \cup DueFor(q)
    BY <2>2, <2>3, <2>4, ElementsOfConcat
  <2>6. Lined(q, ready[q]) /\ InStep(ready[q], started[q], published[q])
    BY DEF IInv, Lines
  <2>7. \A i \in 1 .. Len(queues[q]) : queues[q][i].msg.Queue = q
    <3>1. \A p \in ToSet(ready[q]) : p.msg.Queue = q
      BY <2>4, <2>6, ElementsOf DEF Lined
    <3>2. \A p \in ToSet(queues[q]) : p.msg.Queue = q
      BY <2>5, <3>1 DEF DueFor
    <3> QED
      BY <2>5, <3>2, ElementsOf
  <2>8. ToSet(ready[q]) \cap ToSet(t) = {}
    <3>1. ToSet(ready[q]) \subseteq Entries(ready)
      BY DEF Entries
    <3> QED
      BY <2>1, <2>3, <3>1 DEF IInv, Apart
  <2>9. Lined(q, queues[q])
    <3>1. \A i, k \in 1 .. Len(queues[q]) : queues[q][i] = queues[q][k] => i = k
      <4>1. \A i, k \in 1 .. Len(ready[q]) : ready[q][i] = ready[q][k] => i = k
        BY <2>6 DEF Lined
      <4>2. \A i, k \in 1 .. Len(t) : t[i] = t[k] => i = k
        BY <2>3
      <4>3. \A i, k \in 1 .. Len(ready[q] \o t) : (ready[q] \o t)[i] = (ready[q] \o t)[k] => i = k
        BY <2>4, <2>8, <4>1, <4>2, OnceConcat
      <4> QED
        BY <2>2, <4>3
    <3> QED
      BY <2>7, <3>1 DEF Lined
  <2>10. InStep(queues[q], started[q], published[q])
    <3>1. \A i \in 1 .. Len(t) : ~Fresh(t[i])
      <4>1. \A p \in inflight : ~Fresh(p)
        BY DEF IInv, Records, Fresh
      <4>2. \A i \in 1 .. Len(t) : t[i] \in inflight
        BY <2>1, <2>3, <2>4, ElementsOf
      <4> QED
        BY <4>1, <4>2
    <3> QED
      BY <1>2, <2>2, <2>4, <2>6, <3>1, InStepConcat
  <2> QED
    BY <2>5, <2>9, <2>10
<1>4. queues \in [Queues -> Seq(Pending)]
  BY <1>1, <1>3
<1>5. Entries(queues) = Entries(ready) \cup Due
  <2>1. Entries(queues) = Entries(ready) \cup UNION {DueFor(q) : q \in Queues}
    <3>1. ASSUME NEW x \in Entries(queues)
          PROVE  x \in Entries(ready) \cup UNION {DueFor(q) : q \in Queues}
      <4>1. PICK q \in Queues : x \in ToSet(queues[q])
        BY DEF Entries
      <4> QED
        BY <1>3, <4>1 DEF Entries
    <3>2. ASSUME NEW q \in Queues, NEW x \in ToSet(ready[q]) \cup DueFor(q)
          PROVE  x \in Entries(queues)
      BY <1>3 DEF Entries
    <3> QED
      BY <3>1, <3>2 DEF Entries
  <2>2. UNION {DueFor(q) : q \in Queues} = Due
    <3>1. \A p \in Due : p.msg.Queue \in Queues
      BY <1>2 DEF Pending, Message
    <3> QED
      BY <3>1 DEF DueFor
  <2> QED
    BY <2>1, <2>2
<1> QED
  BY <1>3, <1>4, <1>5

(* A delivery: one visible entry leaves the stock for a consumer's hands.  *)
LEMMA TakenIs ==
  ASSUME IInv, NEW c \in Consumers, Take(c)
  PROVE  \E p \in Stock :
            /\ Visible(p) /\ held[c] = Nothing
            /\ loop[c] # NotConsuming
            /\ held' = [held EXCEPT ![c] = p.msg]
            /\ ready' \in [Queues -> Seq(Pending)]
            /\ started' \in [Queues -> Seq(Messages)]
            /\ \A q \in Queues : Lined(q, ready'[q]) /\ InStep(ready'[q], started'[q], published[q])
            /\ Entries(ready') = (Entries(ready) \cup Due) \ {p}
            /\ p \notin inflight \ Due
<1>1. PICK queues \in Promoted :
        LET q == loop[c]
            i == FirstVisible(queues[q])
            msg == queues[q][i].msg
        IN  /\ i # 0
            /\ ready' = Taken(queues, q, i)
            /\ held' = [held EXCEPT ![c] = msg]
            /\ started' = [started EXCEPT ![q] =
                            IF queues[q][i].visibleAt = Zero
                            THEN Append(@, msg.m) ELSE @]
  BY DEF Take
<1>2. /\ queues \in [Queues -> Seq(Pending)]
      /\ \A r \in Queues : Lined(r, queues[r]) /\ InStep(queues[r], started[r], published[r])
      /\ Entries(queues) = Entries(ready) \cup Due
  BY PromotedIs
<1>3. PICK q \in Queues : q = loop[c] /\ loop[c] # NotConsuming /\ held[c] = Nothing
  BY DEF Take, IInv, Types
<1>4. PICK s \in Seq(Pending) : s = queues[q]
  BY <1>2
<1>5. PICK i \in 1 .. Len(s) :
        i = FirstVisible(s) /\ Visible(s[i]) /\ \A k \in 1 .. i - 1 : ~Visible(s[k])
  <2>1. FirstVisible(s) # 0
    BY <1>1, <1>3, <1>4
  <2> QED
    BY <2>1, FirstVisibleIs
<1>6. /\ ready' = [queues EXCEPT ![q] = RemoveAt(s, i)]
      /\ held' = [held EXCEPT ![c] = s[i].msg]
      /\ started' = [started EXCEPT ![q] =
                        IF s[i].visibleAt = Zero THEN Append(started[q], s[i].msg.m) ELSE started[q]]
  BY <1>1, <1>3, <1>4, <1>5 DEF Taken
<1>7. /\ Lined(q, s) /\ InStep(s, started[q], published[q])
      /\ started[q] \in Seq(Messages) /\ published[q] \in Seq(Messages)
      /\ started \in [Queues -> Seq(Messages)]
  BY <1>2, <1>4 DEF IInv, Types
<1>8. /\ RemoveAt(s, i) \in Seq(Pending) /\ Len(RemoveAt(s, i)) = Len(s) - 1
      /\ ToSet(RemoveAt(s, i)) = ToSet(s) \ {s[i]}
      /\ \A j, k \in 1 .. Len(s) - 1 : RemoveAt(s, i)[j] = RemoveAt(s, i)[k] => j = k
  <2>1. \A j, k \in 1 .. Len(s) : s[j] = s[k] => j = k
    BY <1>7 DEF Lined
  <2>2. RemoveAt(s, i) \in Seq(Pending) /\ Len(RemoveAt(s, i)) = Len(s) - 1
    BY RemoveAtIs
  <2>3. /\ ToSet(RemoveAt(s, i)) = ToSet(s) \ {s[i]}
        /\ \A j, k \in 1 .. Len(s) - 1 : RemoveAt(s, i)[j] = RemoveAt(s, i)[k] => j = k
    BY <2>1, ElementsLeft
  <2> QED
    BY <2>2, <2>3
<1>9. Lined(q, RemoveAt(s, i))
  <2>1. \A x \in ToSet(s) : x.msg.Queue = q
    BY <1>7, ElementsOf DEF Lined
  <2>2. \A k \in 1 .. Len(s) - 1 : RemoveAt(s, i)[k] \in ToSet(RemoveAt(s, i))
    BY <1>8, ElementsOf
  <2> QED
    BY <1>8, <2>1, <2>2 DEF Lined
<1>10. s[i] \in Pending /\ s[i] \in ToSet(s) /\ s[i].msg.m \in Messages
  <2>1. s[i] \in Pending /\ s[i] \in ToSet(s)
    BY ElementsOf
  <2> QED
    BY <2>1 DEF Pending, Message
<1>11. /\ started'[q] \in Seq(Messages)
       /\ InStep(RemoveAt(s, i), started'[q], published[q])
  <2>1. CASE Fresh(s[i])
    <3>1. started'[q] = Append(started[q], s[i].msg.m)
      BY <1>6, <1>7, <2>1 DEF Fresh
    <3>2. \A k \in 1 .. i - 1 : ~Fresh(s[k])
      <4>1. now \in Nat
        BY DEF IInv, Types
      <4> QED
        BY <1>5, <4>1 DEF Fresh, Visible, Zero
    <3> QED
      BY <1>7, <1>10, <2>1, <3>1, <3>2, InStepBegin
  <2>2. CASE ~Fresh(s[i])
    <3>1. started'[q] = started[q]
      BY <1>6, <1>7, <2>2 DEF Fresh
    <3> QED
      BY <1>7, <2>2, <3>1, InStepSkip
  <2> QED
    BY <2>1, <2>2
<1>12. /\ ready' \in [Queues -> Seq(Pending)] /\ ready'[q] = RemoveAt(s, i)
       /\ \A r \in Queues \ {q} : ready'[r] = queues[r] /\ started'[r] = started[r]
  BY <1>2, <1>6, <1>7, <1>8
<1>13. started' \in [Queues -> Seq(Messages)]
  BY <1>6, <1>7, <1>11
<1>14. \A r \in Queues : Lined(r, ready'[r]) /\ InStep(ready'[r], started'[r], published[r])
  BY <1>2, <1>9, <1>11, <1>12
<1>15. Entries(ready') = Entries(queues) \ {s[i]}
  <2>1. ASSUME NEW r \in Queues \ {q}
        PROVE  ToSet(ready'[r]) = ToSet(queues[r]) \ {s[i]}
    <3>1. Lined(r, queues[r]) /\ Lined(q, s) /\ queues[r] \in Seq(Pending)
      BY <1>2, <1>7
    <3>2. \A x \in ToSet(queues[r]) : x.msg.Queue = r
      BY <3>1, ElementsOf DEF Lined
    <3>3. s[i].msg.Queue = q
      BY <3>1 DEF Lined
    <3>4. s[i] \notin ToSet(queues[r])
      BY <2>1, <3>2, <3>3
    <3> QED
      BY <1>12, <3>4
  <2>2. ToSet(ready'[q]) = ToSet(queues[q]) \ {s[i]}
    BY <1>4, <1>8, <1>12
  <2>3. \A r \in Queues : ToSet(ready'[r]) = ToSet(queues[r]) \ {s[i]}
    BY <2>1, <2>2
  <2>4. ASSUME NEW x \in Entries(ready')
        PROVE  x \in Entries(queues) \ {s[i]}
    <3>1. PICK r \in Queues : x \in ToSet(ready'[r])
      BY DEF Entries
    <3> QED
      BY <2>3, <3>1 DEF Entries
  <2>5. ASSUME NEW x \in Entries(queues) \ {s[i]}
        PROVE  x \in Entries(ready')
    <3>1. PICK r \in Queues : x \in ToSet(queues[r])
      BY DEF Entries
    <3> QED
      BY <2>3, <3>1 DEF Entries
  <2> QED
    BY <2>4, <2>5
<1>16. s[i] \in Entries(ready) \cup Due
  BY <1>2, <1>4, <1>10 DEF Entries
<1>17. s[i] \in Stock /\ s[i] \notin inflight \ Due
  BY <1>16 DEF Stock, Due, IInv, Apart
<1> QED
  BY <1>2, <1>3, <1>5, <1>6, <1>12, <1>13, <1>14, <1>15, <1>17
-----------------------------------------------------------------------------
(* How a step changes one queue, the hands and the records.                *)
QueuesOf(S) == [Queues -> Seq(S)]
AppendTo(s, q, x) == [s EXCEPT ![q] = Append(@, x)]

LEMMA Appended ==
  ASSUME NEW S, NEW s \in QueuesOf(S), NEW q \in Queues, NEW x \in S
  PROVE  /\ AppendTo(s, q, x) \in QueuesOf(S)
         /\ Entries(AppendTo(s, q, x)) = Entries(s) \cup {x}
<1> DEFINE t == AppendTo(s, q, x)
<1> USE DEF QueuesOf, AppendTo
<1>1. \A r \in Queues : t[r] = IF r = q THEN Append(s[r], x) ELSE s[r]
  OBVIOUS
<1>2. t \in [Queues -> Seq(S)]
  OBVIOUS
<1>3. ToSet(Append(s[q], x)) = ToSet(s[q]) \cup {x}
  <2>1. s[q] \in Seq(S) /\ <<x>> \in Seq(S) /\ Append(s[q], x) = s[q] \o <<x>>
    OBVIOUS
  <2>2. ToSet(<<x>>) = {x}
    BY DEF ToSet
  <2>3. ToSet(s[q] \o <<x>>) = ToSet(s[q]) \cup ToSet(<<x>>)
    BY <2>1, ElementsOfConcat
  <2> QED
    BY <2>1, <2>2, <2>3
<1>4. ASSUME NEW y \in Entries(t)
      PROVE  y \in Entries(s) \cup {x}
  BY <1>1, <1>3 DEF Entries
<1>5. ASSUME NEW y \in Entries(s) \cup {x}
      PROVE  y \in Entries(t)
  <2>1. CASE y = x
    BY <1>1, <1>3, <2>1 DEF Entries
  <2>2. CASE y \in Entries(s)
    <3>1. PICK r \in Queues : y \in ToSet(s[r])
      BY <2>2 DEF Entries
    <3> QED
      BY <1>1, <1>3, <3>1 DEF Entries
  <2> QED
    BY <2>1, <2>2
<1> QED
  BY <1>2, <1>4, <1>5

LEMMA NamesOf ==
  /\ Published = Entries(published)
  /\ Dead = Entries(dlq)
  /\ Published' = Entries(published')
  /\ Dead' = Entries(dlq')
  BY DEF Published, Dead, Entries

LEMMA HandEmpties ==
  ASSUME NEW S, NEW hands \in [Consumers -> S \cup {Nothing}], NEW c \in Consumers,
         hands[c] # Nothing, OneEach(hands),
         NEW left, left = [hands EXCEPT ![c] = Nothing]
  PROVE  /\ left \in [Consumers -> S \cup {Nothing}]
         /\ OneEach(left)
         /\ HandsOf(left) = HandsOf(hands) \ {hands[c]}
<1>1. left \in [Consumers -> S \cup {Nothing}]
  OBVIOUS
<1>2. \A e \in Consumers : left[e] = IF e = c THEN Nothing ELSE hands[e]
  OBVIOUS
<1>3. OneEach(left)
  BY <1>2 DEF OneEach
<1>4. ASSUME NEW x \in HandsOf(left)
      PROVE  x \in HandsOf(hands) \ {hands[c]}
  BY <1>2 DEF HandsOf, OneEach
<1>5. ASSUME NEW x \in HandsOf(hands) \ {hands[c]}
      PROVE  x \in HandsOf(left)
  BY <1>2 DEF HandsOf
<1> QED
  BY <1>1, <1>3, <1>4, <1>5

(* The record of a message depends on its own history only. *)
LEMMA KnownStays ==
  ASSUME NEW x, Known(x), failures'[x.m] = failures[x.m], attempts0'[x.m] = attempts0[x.m],
         idOf' = idOf, Published \subseteq Published'
  PROVE  Known(x)' /\ Rested(x)' = Rested(x)
  BY DEF Known, Rested

LEMMA RestedIs ==
  ASSUME IInv, NEW x \in Message, Known(x)
  PROVE  Rested(x) \in Nat
<1>1. x.m \in Messages
  BY DEF Message
<1>2. failures[x.m] \in Seq(Failure) /\ attempts0[x.m] \in Nat /\ attempts0[x.m] > 0
  BY <1>1 DEF IInv, Types, Records, Known
<1>3. CASE Len(failures[x.m]) = 0
  BY <1>3 DEF Rested, Zero
<1>4. CASE Len(failures[x.m]) # 0
  <2>1. PICK n \in Nat : n = Len(failures[x.m]) /\ n > 0
    BY <1>2, <1>4
  <2>2. PICK f \in Failure : f = failures[x.m][n]
    BY <1>2, <2>1
  <2>3. x.Attempts - 2 \in Nat
    BY <1>2, <2>1 DEF Known
  <2>4. PICK d \in Nat : d = Backoff * 2^(x.Attempts - 2)
    <3>1. PICK b \in Nat : b = 2^(x.Attempts - 2)
      BY <2>3, PowerIsCount
    <3> QED
      BY <3>1, BrokerConstants, TimesGrows
  <2>5. f.at \in Nat
    BY DEF Failure
  <2>6. Rested(x) = f.at + d
    BY <2>1, <2>2, <2>4 DEF Rested
  <2> QED
    BY <2>5, <2>6
<1> QED
  BY <1>3, <1>4

(* No failure, no letter, no publication: the records stay. *)
Quiet == UNCHANGED <<dlq, published, attempts0, failures, idOf>>

LEMMA RecordsStay ==
  ASSUME IInv, Quiet
  PROVE  /\ Published' = Published /\ Dead' = Dead /\ DeadNames' = DeadNames
         /\ \A x : Known(x) => Known(x)' /\ Rested(x)' = Rested(x)
         /\ \A m \in Messages : IF m \in Published' THEN attempts0'[m] > 0 ELSE failures'[m] = <<>>
         /\ \A d \in Dead' : Len(failures'[d.m]) > 0
         /\ TriageIsTrue'
<1>1. Published' = Published /\ Dead' = Dead /\ DeadNames' = DeadNames
  BY DEF Quiet, Published, Dead, DeadNames
<1>2. ASSUME NEW x, Known(x)
      PROVE  Known(x)' /\ Rested(x)' = Rested(x)
  BY <1>1, <1>2, KnownStays DEF Quiet
<1>3. TriageIsTrue'
  BY <1>1 DEF Quiet, TriageIsTrue, IInv, Records
<1> QED
  BY <1>1, <1>2, <1>3 DEF Quiet, IInv, Records

-----------------------------------------------------------------------------
LEMMA InitIInv == Init => IInv
<1> SUFFICES ASSUME Init PROVE IInv
  OBVIOUS
<1>1. Published = {} /\ Dead = {} /\ InHand = {} /\ Entries(ready) = {} /\ Stock = {}
  <2>1. ToSet(<<>>) = {}
    BY DEF ToSet
  <2> QED
    BY <2>1 DEF Init, Published, Dead, InHand, Entries, Stock
<1>2. Types
  <2>1. IsFiniteSet({})
    BY FS_EmptySet
  <2> QED
    BY <2>1 DEF Init, Types
<1>3. Lines
  <2>1. ASSUME NEW q \in Queues
        PROVE  Lined(q, <<>>) /\ InStep(<<>>, <<>>, <<>>)
    <3>1. Unstarted(<<>>, <<>>) = {}
      BY DEF Unstarted
    <3>2. Places(<<>>, {}, <<>>, <<>>)
      BY DEF Places
    <3>3. <<>> \in [{} -> 1 .. Len(<<>>)]
      OBVIOUS
    <3>4. \E place \in [Unstarted(<<>>, <<>>) -> 1 .. Len(<<>>)] :
            Places(place, Unstarted(<<>>, <<>>), <<>>, <<>>)
      BY <3>1, <3>2, <3>3, Zenon
    <3>5. Len(<<>>) <= Len(<<>>) /\ \A a \in 1 .. Len(<<>>) : <<>>[a] = <<>>[a]
      OBVIOUS
    <3>6. InStep(<<>>, <<>>, <<>>)
      BY <3>4, <3>5 DEF InStep
    <3>7. Lined(q, <<>>)
      BY DEF Lined
    <3> QED
      BY <3>6, <3>7
  <2> QED
    BY <2>1 DEF Init, Lines
<1>4. Apart
  BY <1>1 DEF Apart, Init, OneEach, HandNames, DeadNames
<1>5. Records
  BY <1>1 DEF Records, Init, TriageIsTrue
<1> QED
  BY <1>2, <1>3, <1>4, <1>5 DEF IInv

(* A consumer that comes or goes. *)
LEMMA LoopStep ==
  ASSUME IInv, NEW c \in Consumers, held[c] = Nothing, NEW to \in Queues \cup {NotConsuming},
         loop' = [loop EXCEPT ![c] = to],
         UNCHANGED <<now, ready, inflight, dlq, held, acked, history>>
  PROVE  IInv'
<1>1. Quiet /\ idOf' = idOf /\ started' = started /\ ready' = ready /\ inflight' = inflight
      /\ now' = now /\ held' = held /\ acked' = acked
  BY DEF Quiet, history
<1>2. Types'
  BY <1>1, TypesStay DEF IInv, Types, Quiet
<1>3. Lines'
  BY <1>1 DEF IInv, Lines, Quiet
<1>4. Stock' = Stock /\ InHand' = InHand /\ HandNames' = HandNames
  BY <1>1 DEF Stock, Entries, InHand, HandNames
<1>5. Apart'
  BY <1>1, <1>4, RecordsStay DEF IInv, Apart, Entries
<1>6. Records'
  <2>1. \A e \in Consumers : held[e] # Nothing => loop'[e] # NotConsuming
    BY DEF IInv, Records, Types
  <2>2. \A p \in Stock' : Known(p.msg)' /\ p.visibleAt = Rested(p.msg)'
    BY <1>1, <1>4, RecordsStay DEF IInv, Records
  <2>3. \A x \in InHand' : Known(x)' /\ Rested(x)' <= now'
    BY <1>1, <1>4, RecordsStay DEF IInv, Records
  <2>4. \A p \in inflight' : p.visibleAt # Zero
    BY <1>1 DEF IInv, Records
  <2> QED
    BY <1>1, <2>1, <2>2, <2>3, <2>4, RecordsStay DEF Records
<1> QED
  BY <1>2, <1>3, <1>5, <1>6 DEF IInv

LEMMA TickStep ==
  ASSUME IInv, Tick
  PROVE  IInv'
<1>1. Quiet /\ idOf' = idOf /\ started' = started /\ ready' = ready /\ inflight' = inflight
      /\ now' = now + 1 /\ held' = held /\ acked' = acked /\ loop' = loop
  BY DEF Tick, Quiet, history
<1>2. Types'
  BY <1>1, TypesStay DEF IInv, Types, Quiet
<1>3. Lines'
  BY <1>1 DEF IInv, Lines, Quiet
<1>4. Stock' = Stock /\ InHand' = InHand /\ HandNames' = HandNames
  BY <1>1 DEF Stock, Entries, InHand, HandNames
<1>5. Apart'
  BY <1>1, <1>4, RecordsStay DEF IInv, Apart, Entries
<1>6. Records'
  <2>2. \A p \in Stock' : Known(p.msg)' /\ p.visibleAt = Rested(p.msg)'
    BY <1>1, <1>4, RecordsStay DEF IInv, Records
  <2>3. ASSUME NEW x \in InHand' PROVE Known(x)' /\ Rested(x)' <= now'
    <3>1. Known(x) /\ Rested(x) <= now /\ Known(x)' /\ Rested(x)' = Rested(x) /\ now \in Nat
      BY <1>1, <1>4, RecordsStay DEF IInv, Records, Types
    <3>2. Rested(x) \in Nat
      <4>1. x \in Message
        BY <1>1, <1>4 DEF IInv, Types, InHand
      <4> QED
        BY <3>1, <4>1, RestedIs
    <3> QED
      BY <1>1, <3>1, <3>2
  <2>4. \A p \in inflight' : p.visibleAt # Zero
    BY <1>1 DEF IInv, Records
  <2>5. \A e \in Consumers : held'[e] # Nothing => loop'[e] # NotConsuming
    BY <1>1 DEF IInv, Records
  <2> QED
    BY <1>1, <2>2, <2>3, <2>4, <2>5, RecordsStay DEF Records
<1> QED
  BY <1>2, <1>3, <1>5, <1>6 DEF IInv

(* The clock stands still, and what waits goes from one queue to another   *)
(* or, at most, away.                                                      *)
LEMMA ReturnEmptyStep ==
  ASSUME IInv, NEW c \in Consumers, ReturnEmpty(c)
  PROVE  IInv'
<1>1. /\ Quiet /\ idOf' = idOf /\ started' = started /\ inflight' = inflight \ Due
      /\ now' = now /\ held' = held /\ acked' = acked /\ ready' \in Promoted
      /\ loop' = [loop EXCEPT ![c] = NotConsuming] /\ held[c] = Nothing
  BY DEF ReturnEmpty, Quiet, history
<1>2. /\ ready' \in [Queues -> Seq(Pending)]
      /\ \A q \in Queues : Lined(q, ready'[q]) /\ InStep(ready'[q], started[q], published[q])
      /\ Entries(ready') = Entries(ready) \cup Due
  BY <1>1, PromotedIs
<1>3. Types'
  <2>1. IsFiniteSet(inflight') /\ inflight' \in SUBSET Pending
    BY <1>1, FS_Subset DEF IInv, Types
  <2> QED
    BY <1>1, <1>2, <2>1, TypesStay DEF IInv, Types, Quiet
<1>4. Lines'
  BY <1>1, <1>2 DEF Lines, Quiet
<1>5. /\ Stock' = Stock /\ InHand' = InHand /\ HandNames' = HandNames
      /\ Entries(ready') \cap inflight' = {}
  <2>1. Stock' = Entries(ready') \cup inflight'
    BY DEF Stock, Entries
  <2>2. Due \subseteq inflight
    BY DEF Due
  <2> QED
    BY <1>1, <1>2, <2>1, <2>2 DEF Stock, IInv, Apart, InHand, HandNames
<1>6. Apart'
  BY <1>1, <1>5, RecordsStay DEF IInv, Apart, Entries
<1>7. Records'
  <2>1. \A e \in Consumers : held[e] # Nothing => loop'[e] # NotConsuming
    BY <1>1 DEF IInv, Records, Types
  <2>2. \A p \in Stock' : Known(p.msg)' /\ p.visibleAt = Rested(p.msg)'
    BY <1>1, <1>5, RecordsStay DEF IInv, Records
  <2>3. \A x \in InHand' : Known(x)' /\ Rested(x)' <= now'
    BY <1>1, <1>5, RecordsStay DEF IInv, Records
  <2>4. \A p \in inflight' : p.visibleAt # Zero
    BY <1>1 DEF IInv, Records
  <2> QED
    BY <1>1, <2>1, <2>2, <2>3, <2>4, RecordsStay DEF Records
<1> QED
  BY <1>3, <1>4, <1>6, <1>7 DEF IInv

LEMMA TakeMoves ==
  ASSUME IInv, NEW c \in Consumers, Take(c)
  PROVE  /\ Quiet /\ idOf' = idOf /\ inflight' = inflight \ Due
         /\ now' = now /\ loop' = loop /\ acked' = acked
         /\ held' \in [Consumers -> Message \cup {Nothing}] /\ OneEach(held')
         /\ ready' \in [Queues -> Seq(Pending)] /\ started' \in [Queues -> Seq(Messages)]
         /\ \A q \in Queues : Lined(q, ready'[q]) /\ InStep(ready'[q], started'[q], published[q])
         /\ Entries(ready') \cap inflight' = {}
         /\ \E p \in Stock :
                /\ Visible(p) /\ p.msg \in Message /\ loop[c] # NotConsuming
                /\ held' = [held EXCEPT ![c] = p.msg]
                /\ Stock' = Stock \ {p}
                /\ InHand' = InHand \cup {p.msg} /\ HandNames' = HandNames \cup {p.msg.m}
<1>1. /\ Quiet /\ idOf' = idOf /\ inflight' = inflight \ Due
      /\ now' = now /\ loop' = loop /\ acked' = acked
  BY DEF Take, Quiet
<1>2. PICK p \in Stock :
        /\ Visible(p) /\ held[c] = Nothing
        /\ loop[c] # NotConsuming
        /\ held' = [held EXCEPT ![c] = p.msg]
        /\ ready' \in [Queues -> Seq(Pending)]
        /\ started' \in [Queues -> Seq(Messages)]
        /\ \A q \in Queues : Lined(q, ready'[q]) /\ InStep(ready'[q], started'[q], published[q])
        /\ Entries(ready') = (Entries(ready) \cup Due) \ {p}
        /\ p \notin inflight \ Due
  BY TakenIs
<1>3. Stock' = Stock \ {p} /\ Entries(ready') \cap inflight' = {}
  <2>1. Stock' = Entries(ready') \cup inflight'
    BY DEF Stock, Entries
  <2>2. Due \subseteq inflight
    BY DEF Due
  <2> QED
    BY <1>1, <1>2, <2>1, <2>2 DEF Stock, IInv, Apart
<1>4. p \in Pending /\ p.msg \in Message /\ p.msg # Nothing
  <2>1. Stock \subseteq Pending
    <3>1. \A q \in Queues : ToSet(ready[q]) \subseteq Pending
      BY ElementsOf DEF IInv, Types
    <3> QED
      BY <3>1 DEF Stock, Entries, IInv, Types
  <2> QED
    BY <2>1, NothingIsNoMessage DEF Pending
<1>5. /\ held' \in [Consumers -> Message \cup {Nothing}]
      /\ OneEach(held') /\ HandsOf(held') = HandsOf(held) \cup {p.msg}
  <2>1. held \in [Consumers -> Message \cup {Nothing}] /\ held[c] = Nothing /\ OneEach(held)
    BY <1>2 DEF IInv, Types, Apart
  <2>2. p.msg \notin HandsOf(held)
    BY DEF IInv, Apart, HandNames, InHand, HandsOf
  <2>3. held' \in [Consumers -> Message \cup {Nothing}]
    BY <1>2, <1>4, <2>1
  <2>4. \A e \in Consumers : held'[e] = IF e = c THEN p.msg ELSE held[e]
    BY <1>2, <2>1
  <2>5. OneEach(held')
    BY <2>1, <2>2, <2>4 DEF OneEach, HandsOf
  <2>6. ASSUME NEW y \in HandsOf(held') PROVE y \in HandsOf(held) \cup {p.msg}
    BY <2>4 DEF HandsOf
  <2>7. ASSUME NEW y \in HandsOf(held) PROVE y \in HandsOf(held')
    <3>1. PICK e \in Consumers : y = held[e] /\ y # Nothing
      BY DEF HandsOf
    <3> QED
      BY <2>1, <2>4, <3>1 DEF HandsOf
  <2>8. p.msg \in HandsOf(held')
    BY <1>4, <2>4 DEF HandsOf
  <2> QED
    BY <2>3, <2>5, <2>6, <2>7, <2>8
<1>6. InHand' = InHand \cup {p.msg} /\ HandNames' = HandNames \cup {p.msg.m}
  BY <1>5 DEF HandNames, InHand, HandsOf
<1> QED
  BY <1>1, <1>2, <1>3, <1>4, <1>5, <1>6

LEMMA TakeStep ==
  ASSUME IInv, NEW c \in Consumers, Take(c)
  PROVE  IInv'
<1>1. /\ Quiet /\ idOf' = idOf /\ inflight' = inflight \ Due
      /\ now' = now /\ loop' = loop /\ acked' = acked
  BY TakeMoves
<1>2. /\ held' \in [Consumers -> Message \cup {Nothing}] /\ OneEach(held')
      /\ ready' \in [Queues -> Seq(Pending)] /\ started' \in [Queues -> Seq(Messages)]
      /\ \A q \in Queues : Lined(q, ready'[q]) /\ InStep(ready'[q], started'[q], published[q])
      /\ Entries(ready') \cap inflight' = {}
  BY TakeMoves
<1>3. PICK p \in Stock :
        /\ Visible(p) /\ p.msg \in Message /\ loop[c] # NotConsuming
        /\ held' = [held EXCEPT ![c] = p.msg]
        /\ Stock' = Stock \ {p}
        /\ InHand' = InHand \cup {p.msg} /\ HandNames' = HandNames \cup {p.msg.m}
  BY TakeMoves
<1>4. Types'
  <2>1. IsFiniteSet(inflight') /\ inflight' \in SUBSET Pending
    BY <1>1, FS_Subset DEF IInv, Types
  <2> QED
    BY <1>1, <1>2, <1>3, <2>1, TypesStay DEF IInv, Types, Quiet
<1>5. Lines'
  BY <1>1, <1>2, <1>3 DEF Lines, Quiet
<1>6. Apart'
  <2>1. Published' = Published /\ DeadNames' = DeadNames
    BY <1>1, RecordsStay
  <2>2. \A r \in Stock' : r \in Stock /\ r.msg.m # p.msg.m
    BY <1>2, <1>3 DEF IInv, Apart
  <2>3. \A r \in Stock' : r.msg.m \notin HandNames' \cup acked' \cup DeadNames'
    BY <1>1, <1>3, <2>1, <2>2 DEF IInv, Apart
  <2>4. \A x, y \in InHand' : x.m = y.m => x = y
    BY <1>3 DEF IInv, Apart, HandNames
  <2>5. \A x \in InHand' : x.m \notin acked' \cup DeadNames'
    BY <1>1, <1>3, <2>1 DEF IInv, Apart
  <2>6. \A r, t \in Stock' : r.msg.m = t.msg.m => r = t
    BY <1>2, <1>3 DEF IInv, Apart
  <2>7. acked' \cap DeadNames' = {} /\ acked' \cup DeadNames' \subseteq Published'
    BY <1>1, <2>1 DEF IInv, Apart
  <2> QED
    BY <1>2, <1>3, <2>3, <2>4, <2>5, <2>6, <2>7 DEF Apart, OneEach, Entries
<1>7. Records'
  <2>1. ASSUME NEW e \in Consumers, held'[e] # Nothing PROVE loop'[e] # NotConsuming
    BY <1>1, <1>2, <1>3, <2>1 DEF IInv, Records, Types
  <2>2. \A r \in Stock' : Known(r.msg)' /\ r.visibleAt = Rested(r.msg)'
    BY <1>1, <1>2, <1>3, RecordsStay DEF IInv, Records
  <2>3. ASSUME NEW x \in InHand' PROVE Known(x)' /\ Rested(x)' <= now'
    <3>1. CASE x \in InHand
      BY <1>1, <3>1, RecordsStay DEF IInv, Records
    <3>2. CASE x = p.msg
      BY <1>1, <1>2, <1>3, <3>2, RecordsStay DEF IInv, Records, Visible
    <3> QED
      BY <1>3, <3>1, <3>2
  <2>4. \A r \in inflight' : r.visibleAt # Zero
    BY <1>1 DEF IInv, Records
  <2> QED
    BY <1>1, <2>1, <2>2, <2>3, <2>4, RecordsStay DEF Records
<1> QED
  BY <1>4, <1>5, <1>6, <1>7 DEF IInv

(* A handler is done: its consumer lets go of the message. *)
LEMMA LetGo ==
  ASSUME IInv, NEW c \in Consumers, held[c] # Nothing, held' = [held EXCEPT ![c] = Nothing]
  PROVE  /\ held[c] \in Message /\ held[c] \in InHand /\ held[c].m \in Messages
         /\ held' \in [Consumers -> Message \cup {Nothing}]
         /\ OneEach(held')
         /\ InHand' = InHand \ {held[c]}
         /\ HandNames' = HandNames \ {held[c].m}
         /\ held[c].m \in HandNames
<1>1. held \in [Consumers -> Message \cup {Nothing}] /\ OneEach(held)
  BY DEF IInv, Types, Apart
<1>2. /\ held' \in [Consumers -> Message \cup {Nothing}]
      /\ OneEach(held') /\ HandsOf(held') = HandsOf(held) \ {held[c]}
  BY <1>1, HandEmpties
<1>3. held[c] \in Message /\ held[c] \in InHand
  BY <1>1 DEF InHand
<1>4. InHand' = InHand \ {held[c]}
  BY <1>2 DEF InHand, HandsOf
<1>5. HandNames' = HandNames \ {held[c].m} /\ held[c].m \in HandNames
  <2>1. \A x, y \in InHand : x.m = y.m => x = y
    BY DEF IInv, Apart
  <2> QED
    BY <1>3, <1>4, <2>1 DEF HandNames
<1>6. held[c].m \in Messages
  BY <1>3 DEF Message
<1> QED
  BY <1>2, <1>3, <1>4, <1>5, <1>6

LEMMA AckStep ==
  ASSUME IInv, NEW c \in Consumers, Ack(c)
  PROVE  IInv'
<1>1. /\ Quiet /\ idOf' = idOf /\ inflight' = inflight /\ ready' = ready /\ started' = started
      /\ now' = now /\ loop' = loop /\ acked' = acked \cup {held[c].m}
      /\ held[c] # Nothing /\ held' = [held EXCEPT ![c] = Nothing]
  BY DEF Ack, Quiet, history
<1>2. /\ held[c] \in Message /\ held[c] \in InHand /\ held[c].m \in Messages
      /\ held' \in [Consumers -> Message \cup {Nothing}]
      /\ OneEach(held')
      /\ InHand' = InHand \ {held[c]}
      /\ HandNames' = HandNames \ {held[c].m}
      /\ held[c].m \in HandNames
  BY <1>1, LetGo
<1>3. Types'
  BY <1>1, <1>2, TypesStay DEF IInv, Types, Quiet
<1>4. Lines'
  BY <1>1 DEF Lines, Quiet, IInv
<1>5. Stock' = Stock
  BY <1>1 DEF Stock, Entries
<1>6. Apart'
  <2>1. Published' = Published /\ DeadNames' = DeadNames
    BY <1>1, RecordsStay
  <2>2. held[c].m \in Published /\ held[c].m \notin acked \cup DeadNames
    BY <1>2 DEF IInv, Apart, Records, Known
  <2>3. \A r \in Stock' : r.msg.m \notin HandNames' \cup acked' \cup DeadNames'
    BY <1>1, <1>2, <1>5, <2>1 DEF IInv, Apart
  <2>4. \A x, y \in InHand' : x.m = y.m => x = y
    BY <1>2 DEF IInv, Apart
  <2>5. \A x \in InHand' : x.m \notin acked' \cup DeadNames'
    BY <1>1, <1>2, <2>1 DEF IInv, Apart
  <2>6. \A r, t \in Stock' : r.msg.m = t.msg.m => r = t
    BY <1>5 DEF IInv, Apart
  <2>7. acked' \cap DeadNames' = {} /\ acked' \cup DeadNames' \subseteq Published'
    BY <1>1, <2>1, <2>2 DEF IInv, Apart
  <2>8. (Entries(ready) \cap inflight)' = {}
    BY <1>1 DEF Entries, IInv, Apart
  <2> QED
    BY <1>2, <2>3, <2>4, <2>5, <2>6, <2>7, <2>8 DEF Apart, OneEach
<1>7. Records'
  <2>1. ASSUME NEW e \in Consumers, held'[e] # Nothing PROVE loop'[e] # NotConsuming
    BY <1>1, <2>1 DEF IInv, Records, Types
  <2>2. \A r \in Stock' : Known(r.msg)' /\ r.visibleAt = Rested(r.msg)'
    BY <1>1, <1>5, RecordsStay DEF IInv, Records
  <2>3. \A x \in InHand' : Known(x)' /\ Rested(x)' <= now'
    BY <1>1, <1>2, RecordsStay DEF IInv, Records
  <2>4. \A r \in inflight' : r.visibleAt # Zero
    BY <1>1 DEF IInv, Records
  <2> QED
    BY <1>1, <2>1, <2>2, <2>3, <2>4, RecordsStay DEF Records
<1> QED
  BY <1>3, <1>4, <1>6, <1>7 DEF IInv

(* A handler failed: its message has one failure more, the others do not.  *)
LEMMA FailureNoted ==
  ASSUME IInv, NEW c \in Consumers, held[c] # Nothing, NEW o \in Outcomes(held[c]),
         NoteFailure(held[c], o), UNCHANGED <<published, attempts0, idOf>>
  PROVE  /\ o.cause \in Causing
         /\ failures' \in [Messages -> Seq(Failure)]
         /\ Len(failures'[held[c].m]) = Len(failures[held[c].m]) + 1
         /\ Len(failures[held[c].m]) \in Nat
         /\ failures'[held[c].m][Len(failures[held[c].m]) + 1] = [at |-> now, cause |-> o.cause]
         /\ failures'[held[c].m][1].at = Stamped(held[c])
         /\ Stamped(held[c]) \in Nat
         /\ \A m \in Messages : m # held[c].m => failures'[m] = failures[m]
         /\ Published' = Published
         /\ \A x \in Message : x.m # held[c].m /\ Known(x) => Known(x)' /\ Rested(x)' = Rested(x)
         /\ \A m \in Messages : IF m \in Published' THEN attempts0'[m] > 0 ELSE failures'[m] = <<>>
<1>1. PICK x \in Message : x = held[c] /\ Known(x) /\ x.m \in Messages
  <2>1. held[c] \in Message /\ held[c] \in InHand
    BY DEF IInv, Types, InHand
  <2>2. held[c].m \in Messages
    BY <2>1 DEF Message
  <2> QED
    BY <2>1, <2>2 DEF IInv, Records
<1>2. /\ failures \in [Messages -> Seq(Failure)] /\ now \in Nat \ {0}
      /\ failures' = [failures EXCEPT ![x.m] = Append(@, [at |-> now, cause |-> o.cause])]
      /\ published' = published /\ attempts0' = attempts0 /\ idOf' = idOf
  BY <1>1 DEF IInv, Types, NoteFailure
<1>3. o.cause \in Causing
  <2>1. o.cause \in Causes[x.Attempts] /\ x.Attempts \in DOMAIN Causes
    BY <1>1 DEF Outcomes, Known
  <2> QED
    BY <2>1 DEF Causing, Range
<1>4. PICK n \in Nat : n = Len(failures[x.m])
  BY <1>1, <1>2
<1>5. [at |-> now, cause |-> o.cause] \in Failure
  BY <1>2, <1>3 DEF Failure
<1>6. /\ failures' \in [Messages -> Seq(Failure)]
      /\ failures'[x.m] = Append(failures[x.m], [at |-> now, cause |-> o.cause])
      /\ \A m \in Messages : m # x.m => failures'[m] = failures[m]
  BY <1>1, <1>2, <1>5
<1>7. /\ Len(failures'[x.m]) = n + 1
      /\ failures'[x.m][n + 1] = [at |-> now, cause |-> o.cause]
      /\ \A i \in 1 .. n : failures'[x.m][i] = failures[x.m][i]
  BY <1>1, <1>2, <1>4, <1>6
<1>8. failures'[x.m][1].at = Stamped(x) /\ Stamped(x) \in Nat
  <2>1. CASE n = 0
    BY <1>1, <1>2, <1>4, <1>7, <2>1 DEF Known, Stamped
  <2>2. CASE n > 0
    <3>1. PICK f \in Failure : f = failures[x.m][1]
      BY <1>1, <1>2, <1>4, <2>2
    <3>2. x.FirstFailedAt = f.at /\ f.at \in Nat \ {0} /\ failures'[x.m][1] = f
      BY <1>1, <1>4, <1>7, <2>2, <3>1 DEF Known, Failure
    <3> QED
      BY <3>2 DEF Stamped, Zero
  <2> QED
    BY <2>1, <2>2
<1>9. Published' = Published
  BY <1>2 DEF Published
<1>10. ASSUME NEW y \in Message, y.m # x.m, Known(y)
       PROVE  Known(y)' /\ Rested(y)' = Rested(y)
  <2>1. y.m \in Messages
    BY DEF Message
  <2>2. failures'[y.m] = failures[y.m]
    BY <1>6, <1>10, <2>1
  <2> QED
    BY <1>2, <1>9, <1>10, <2>2, KnownStays
<1>11. ASSUME NEW m \in Messages
       PROVE  IF m \in Published' THEN attempts0'[m] > 0 ELSE failures'[m] = <<>>
  <2>1. x.m \in Published
    BY <1>1 DEF Known
  <2> QED
    BY <1>2, <1>6, <1>9, <2>1 DEF IInv, Records
<1> QED
  BY <1>1, <1>3, <1>4, <1>6, <1>7, <1>8, <1>9, <1>10, <1>11

LEMMA TypesOfPlaces ==
  ASSUME IInv
  PROVE  /\ \A p \in Stock : p \in Pending /\ p.msg \in Message
         /\ \A x \in InHand : x \in Message /\ x.m \in Messages
         /\ \A d \in Dead : d \in Message /\ d.m \in Messages
<1>1. \A q \in Queues : ToSet(ready[q]) \subseteq Pending /\ ToSet(dlq[q]) \subseteq Message
  BY ElementsOf DEF IInv, Types
<1>2. Stock \subseteq Pending /\ Dead \subseteq Message /\ InHand \subseteq Message
  BY <1>1 DEF Stock, Entries, Dead, InHand, IInv, Types
<1>3. \A x \in Message : x.m \in Messages
  BY DEF Message
<1> QED
  BY <1>2, <1>3 DEF Pending

LEMMA BuryMoves ==
  ASSUME IInv, NEW c \in Consumers, held[c] # Nothing, NEW o \in Outcomes(held[c]), Bury(c, o)
  PROVE  /\ dlq' \in [Queues -> Seq(Message)]
         /\ DeadNames' = DeadNames \cup {held[c].m}
         /\ \E letter \in Message :
                /\ Dead' = Dead \cup {letter} /\ letter.m = held[c].m
                /\ letter.Attempts = held[c].Attempts
                /\ letter.FirstFailedAt = Stamped(held[c]) /\ letter.Reason.cause = o.cause
                /\ letter.Reason.exhausted => Exhausted(held[c])
<1> DEFINE x == held[c]
           letter == [x EXCEPT !.Reason = [cause |-> o.cause, exhausted |-> ~IsTerminal(o)],
                               !.FirstFailedAt = Stamped(x)]
<1>1. /\ IsTerminal(o) \/ Exhausted(x)
      /\ dlq' = [dlq EXCEPT ![loop[c]] = Append(@, letter)]
      /\ held' = [held EXCEPT ![c] = Nothing] /\ NoteFailure(held[c], o)
      /\ now' = now /\ ready' = ready /\ inflight' = inflight /\ loop' = loop /\ acked' = acked
      /\ published' = published /\ started' = started /\ attempts0' = attempts0 /\ idOf' = idOf
  BY DEF Bury
<1>2. /\ x \in Message /\ x \in InHand /\ x.m \in Messages
      /\ held' \in [Consumers -> Message \cup {Nothing}]
      /\ OneEach(held')
      /\ InHand' = InHand \ {x}
      /\ HandNames' = HandNames \ {x.m}
      /\ x.m \in HandNames
  BY <1>1, LetGo
<1>3. /\ o.cause \in Causing
      /\ failures' \in [Messages -> Seq(Failure)]
      /\ Len(failures'[x.m]) = Len(failures[x.m]) + 1
      /\ Len(failures[x.m]) \in Nat
      /\ failures'[x.m][Len(failures[x.m]) + 1] = [at |-> now, cause |-> o.cause]
      /\ failures'[x.m][1].at = Stamped(x)
      /\ Stamped(x) \in Nat
      /\ \A m \in Messages : m # x.m => failures'[m] = failures[m]
      /\ Published' = Published
      /\ \A y \in Message : y.m # x.m /\ Known(y) => Known(y)' /\ Rested(y)' = Rested(y)
      /\ \A m \in Messages : IF m \in Published' THEN attempts0'[m] > 0 ELSE failures'[m] = <<>>
  BY <1>1, FailureNoted
<1>4. /\ letter \in Message /\ letter.m = x.m /\ letter.Attempts = x.Attempts
      /\ letter.FirstFailedAt = Stamped(x) /\ letter.Reason.cause = o.cause
      /\ letter.Reason.exhausted = ~IsTerminal(o)
  <2>1. [cause |-> o.cause, exhausted |-> ~IsTerminal(o)] \in [cause : Causing, exhausted : BOOLEAN]
    BY <1>3 DEF IsTerminal
  <2> QED
    BY <1>2, <1>3, <2>1 DEF Message, Causing
<1>5. PICK q \in Queues : q = loop[c]
  BY DEF IInv, Records, Types
<1> HIDE DEF x, letter
<1>6. dlq' \in [Queues -> Seq(Message)] /\ Dead' = Dead \cup {letter}
  <2>1. dlq \in QueuesOf(Message) /\ dlq' = AppendTo(dlq, q, letter)
    BY <1>1, <1>5 DEF IInv, Types, QueuesOf, AppendTo
  <2>2. dlq' \in QueuesOf(Message) /\ Entries(dlq') = Entries(dlq) \cup {letter}
    BY <1>4, <2>1, Appended
  <2> QED
    BY <2>2, NamesOf DEF QueuesOf
<1>7. DeadNames' = DeadNames \cup {x.m}
  BY <1>4, <1>6 DEF DeadNames
<1> QED
  BY <1>1, <1>4, <1>6, <1>7 DEF x

LEMMA BuryStep ==
  ASSUME IInv, NEW c \in Consumers, held[c] # Nothing, NEW o \in Outcomes(held[c]), Bury(c, o)
  PROVE  IInv'
<1> DEFINE x == held[c]
<1>1. /\ held' = [held EXCEPT ![c] = Nothing] /\ NoteFailure(held[c], o)
      /\ now' = now /\ ready' = ready /\ inflight' = inflight /\ loop' = loop /\ acked' = acked
      /\ published' = published /\ started' = started /\ attempts0' = attempts0 /\ idOf' = idOf
  BY DEF Bury
<1>2. /\ x \in Message /\ x \in InHand /\ x.m \in Messages
      /\ held' \in [Consumers -> Message \cup {Nothing}]
      /\ OneEach(held')
      /\ InHand' = InHand \ {x}
      /\ HandNames' = HandNames \ {x.m}
      /\ x.m \in HandNames
  BY <1>1, LetGo
<1>3. /\ o.cause \in Causing
      /\ failures' \in [Messages -> Seq(Failure)]
      /\ Len(failures'[x.m]) = Len(failures[x.m]) + 1
      /\ Len(failures[x.m]) \in Nat
      /\ failures'[x.m][Len(failures[x.m]) + 1] = [at |-> now, cause |-> o.cause]
      /\ failures'[x.m][1].at = Stamped(x)
      /\ Stamped(x) \in Nat
      /\ \A m \in Messages : m # x.m => failures'[m] = failures[m]
      /\ Published' = Published
      /\ \A y \in Message : y.m # x.m /\ Known(y) => Known(y)' /\ Rested(y)' = Rested(y)
      /\ \A m \in Messages : IF m \in Published' THEN attempts0'[m] > 0 ELSE failures'[m] = <<>>
  BY <1>1, FailureNoted
<1>4. dlq' \in [Queues -> Seq(Message)] /\ DeadNames' = DeadNames \cup {x.m}
  BY BuryMoves
<1>5. PICK letter \in Message :
        /\ Dead' = Dead \cup {letter} /\ letter.m = x.m /\ letter.Attempts = x.Attempts
        /\ letter.FirstFailedAt = Stamped(x) /\ letter.Reason.cause = o.cause
        /\ letter.Reason.exhausted => Exhausted(x)
  BY BuryMoves
<1> HIDE DEF x
<1>8. Types'
  BY <1>1, <1>2, <1>3, <1>4, <1>5, TypesStay DEF IInv, Types
<1>9. Lines'
  BY <1>1 DEF Lines, IInv
<1>10. Stock' = Stock
  BY <1>1 DEF Stock, Entries
<1>11. Apart'
  <2>1. x.m \in Published /\ x.m \notin acked \cup DeadNames
    BY <1>2 DEF IInv, Apart, Records, Known
  <2>2. \A r \in Stock' : r.msg.m \notin HandNames' \cup acked' \cup DeadNames'
    BY <1>1, <1>2, <1>4, <1>10 DEF IInv, Apart
  <2>3. \A y, z \in InHand' : y.m = z.m => y = z
    BY <1>2 DEF IInv, Apart
  <2>4. \A y \in InHand' : y.m \notin acked' \cup DeadNames'
    BY <1>1, <1>2, <1>4 DEF IInv, Apart
  <2>5. \A r, t \in Stock' : r.msg.m = t.msg.m => r = t
    BY <1>10 DEF IInv, Apart
  <2>6. acked' \cap DeadNames' = {} /\ acked' \cup DeadNames' \subseteq Published'
    BY <1>1, <1>3, <1>4, <2>1 DEF IInv, Apart
  <2>7. (Entries(ready) \cap inflight)' = {}
    BY <1>1 DEF Entries, IInv, Apart
  <2> QED
    BY <1>2, <2>2, <2>3, <2>4, <2>5, <2>6, <2>7 DEF Apart, OneEach
<1>12. Records'
  <2>1. ASSUME NEW e \in Consumers, held'[e] # Nothing PROVE loop'[e] # NotConsuming
    BY <1>1, <2>1 DEF IInv, Records, Types
  <2>2. ASSUME NEW r \in Stock' PROVE Known(r.msg)' /\ r.visibleAt = Rested(r.msg)'
    <3>1. r \in Stock /\ r.msg.m # x.m /\ r.msg \in Message
      BY <1>2, <1>10, TypesOfPlaces DEF IInv, Apart
    <3> QED
      BY <1>3, <3>1 DEF IInv, Records
  <2>3. ASSUME NEW y \in InHand' PROVE Known(y)' /\ Rested(y)' <= now'
    <3>1. y \in InHand /\ y.m # x.m /\ y \in Message
      BY <1>2, TypesOfPlaces DEF IInv, Apart
    <3> QED
      BY <1>1, <1>3, <3>1 DEF IInv, Records
  <2>4. \A r \in inflight' : r.visibleAt # Zero
    BY <1>1 DEF IInv, Records
  <2>5. ASSUME NEW d \in Dead, d # letter
        PROVE  failures'[d.m] = failures[d.m] /\ attempts0'[d.m] = attempts0[d.m]
    <3>1. d.m \in Messages /\ d.m \in DeadNames
      BY TypesOfPlaces DEF DeadNames
    <3>2. d.m # x.m
      BY <1>2, <3>1 DEF IInv, Apart
    <3> QED
      BY <1>1, <1>3, <3>1, <3>2
  <2>6. \A d \in Dead' : Len(failures'[d.m]) > 0
    BY <1>3, <1>5, <1>4, <2>5 DEF IInv, Records
  <2>7. TriageIsTrue'
    <3>1. ASSUME NEW d \in Dead'
          PROVE  LET f == failures'[d.m] IN
                 /\ d.FirstFailedAt = f[1].at
                 /\ d.Attempts = attempts0'[d.m] + Len(f) - 1
                 /\ d.Reason.exhausted => d.Attempts >= MaxAttempts
      <4>1. CASE d = letter
        <5>1. x.Attempts = attempts0[x.m] + Len(failures[x.m]) /\ attempts0[x.m] \in Nat
          BY <1>2 DEF IInv, Records, Known, Types
        <5>2. d.Reason.exhausted => d.Attempts >= MaxAttempts
          BY <1>1, <1>5, <4>1 DEF Exhausted
        <5>3. PICK n \in Nat : n = Len(failures[x.m])
          BY <1>3
        <5>4. d.m = x.m /\ Len(failures'[d.m]) = n + 1 /\ d.Attempts = attempts0'[d.m] + n
          BY <1>1, <1>3, <1>5, <4>1, <5>1, <5>3
        <5>5. d.Attempts = attempts0'[d.m] + Len(failures'[d.m]) - 1
          BY <1>1, <5>1, <5>4
        <5>6. d.FirstFailedAt = failures'[d.m][1].at
          BY <1>3, <1>5, <4>1
        <5> QED
          BY <5>2, <5>5, <5>6
      <4>2. CASE d # letter
        <5>1. d \in Dead
          BY <1>4, <1>5, <4>2
        <5> QED
          BY <2>5, <4>2, <5>1 DEF IInv, Records, TriageIsTrue
      <4> QED
        BY <4>1, <4>2
    <3> QED
      BY <3>1 DEF TriageIsTrue
  <2> QED
    BY <1>3, <2>1, <2>2, <2>3, <2>4, <2>6, <2>7 DEF Records
<1> QED
  BY <1>8, <1>9, <1>11, <1>12 DEF IInv

(* The message goes round once more; a parked message with its ID goes. *)
LEMMA RedeliverIs ==
  ASSUME IInv, NEW c \in Consumers, held[c] # Nothing, NEW o \in Outcomes(held[c]),
         Redeliver(c, o)
  PROVE  \E p \in Pending' :
            /\ p.msg.m = held[c].m /\ p.msg.ID = held[c].ID /\ p.msg.Queue = loop[c]
            /\ inflight' = {r \in inflight : r.msg.ID # held[c].ID} \cup {p}
            /\ Known(p.msg)' /\ p.visibleAt = Rested(p.msg)' /\ p.visibleAt # Zero
<1> DEFINE x == held[c]
           again == [x EXCEPT !.FirstFailedAt = Stamped(x), !.Queue = loop[c], !.Attempts = @ + 1,
                              !.Reason = [cause |-> o.cause, exhausted |-> FALSE]]
           f == failures'[x.m]
<1>1. /\ ~Exhausted(x)
      /\ inflight' = {r \in inflight : r.msg.ID # x.ID} \cup
                     {[msg |-> again, visibleAt |-> now + Delay(again.Attempts)]}
      /\ held' = [held EXCEPT ![c] = Nothing] /\ NoteFailure(held[c], o)
      /\ published' = published /\ attempts0' = attempts0 /\ idOf' = idOf
  BY DEF Redeliver
<1>2. x \in Message /\ x \in InHand /\ x.m \in Messages
  BY <1>1, LetGo
<1>3. /\ o.cause \in Causing
      /\ Len(f) = Len(failures[x.m]) + 1
      /\ Len(failures[x.m]) \in Nat
      /\ f[Len(failures[x.m]) + 1] = [at |-> now, cause |-> o.cause]
      /\ f[1].at = Stamped(x)
      /\ Stamped(x) \in Nat
      /\ Published' = Published
  BY <1>1, FailureNoted
<1>4. PICK q \in Queues : q = loop[c]
  BY DEF IInv, Records, Types
<1>5. /\ Known(x) /\ x.Attempts \in Nat /\ x.Attempts + 1 \in 2 .. MaxAttempts
      /\ x.Attempts + 1 = attempts0'[x.m] + Len(f)
  <2>1. Known(x) /\ attempts0[x.m] \in Nat /\ attempts0[x.m] > 0
    BY <1>2 DEF IInv, Records, Types, Known
  <2>2. PICK t \in Nat : t = attempts0[x.m] /\ t = attempts0'[x.m] /\ t > 0
    BY <1>1, <2>1
  <2>3. PICK n \in Nat : n = Len(failures[x.m]) /\ Len(f) = n + 1
    BY <1>3
  <2>4. x.Attempts = t + n
    BY <2>1, <2>2, <2>3 DEF Known
  <2>5. ~(t + n >= MaxAttempts)
    BY <1>1, <2>4 DEF Exhausted
  <2>6. t + n + 1 \in 2 .. MaxAttempts /\ t + n \in Nat /\ t + n + 1 = t + (n + 1)
    BY <2>2, <2>5, BrokerConstants
  <2> HIDE DEF x, f
  <2> QED
    BY <2>1, <2>2, <2>3, <2>4, <2>6
<1>6. PICK a \in Message :
        /\ a = again /\ a.m = x.m /\ a.ID = x.ID /\ a.Queue = loop[c]
        /\ a.Attempts = x.Attempts + 1 /\ a.FirstFailedAt = Stamped(x)
  <2>1. [cause |-> o.cause, exhausted |-> FALSE] \in [cause : Causing, exhausted : BOOLEAN]
    BY <1>3
  <2>2. x.Attempts + 1 \in Nat \ {0}
    BY <1>5
  <2>3. again \in Message
    BY <1>2, <1>3, <1>4, <2>1, <2>2 DEF Message, Causing
  <2>4. /\ again.m = x.m /\ again.ID = x.ID /\ again.Queue = loop[c]
        /\ again.Attempts = x.Attempts + 1 /\ again.FirstFailedAt = Stamped(x)
    BY <1>2 DEF Message
  <2> HIDE DEF again
  <2> QED
    BY <2>3, <2>4
<1>7. Delay(a.Attempts) = Backoff * 2^(a.Attempts - 2) /\ Delay(a.Attempts) \in Nat
  BY <1>5, <1>6, DelayIs
<1>8. PICK d \in Nat : d = Delay(a.Attempts)
  BY <1>7
<1>9. PICK p : p = [msg |-> a, visibleAt |-> now + d]
  OBVIOUS
<1>10. now \in Nat \ {0}
  BY DEF IInv, Types
<1> HIDE DEF again, f, x
<1>11. Known(a)'
  <2>1. Known(a)' =
          (/\ a.m \in Published'
           /\ a.ID = idOf'[a.m]
           /\ a.Attempts = attempts0'[a.m] + Len(failures'[a.m])
           /\ a.Attempts \in DOMAIN Causes
           /\ Len(failures'[a.m]) > 0 => a.Attempts <= MaxAttempts
           /\ a.FirstFailedAt = IF Len(failures'[a.m]) = 0 THEN Zero
                                    ELSE failures'[a.m][1].at)
    BY DEF Known
  <2>2. a.m \in Published' /\ a.ID = idOf'[a.m]
    BY <1>1, <1>3, <1>5, <1>6 DEF Known
  <2>3. a.Attempts \in DOMAIN Causes /\ a.Attempts <= MaxAttempts
    BY <1>5, <1>6, BrokerConstants
  <2>4. a.Attempts = attempts0'[a.m] + Len(failures'[a.m])
    BY <1>5, <1>6 DEF f
  <2>5. Len(failures'[a.m]) # 0 /\ failures'[a.m][1].at = Stamped(x)
    BY <1>3, <1>6 DEF f
  <2> QED
    BY <1>6, <2>1, <2>2, <2>3, <2>4, <2>5
<1>12. Rested(a)' = now + d
  <2>1. Rested(a)' = IF Len(failures'[a.m]) = 0 THEN Zero
                         ELSE failures'[a.m][Len(failures'[a.m])].at
                                + Backoff * 2^(a.Attempts - 2)
    BY DEF Rested
  <2>2. Len(f) # 0 /\ f[Len(f)].at = now /\ failures'[a.m] = f
    BY <1>3, <1>6 DEF f
  <2> QED
    BY <1>6, <1>7, <1>8, <2>1, <2>2
<1>13. p \in Pending'
  <2>1. now + d \in Int
    BY <1>8, <1>10
  <2> QED
    BY <1>1, <1>6, <1>9, <2>1, TypesStay DEF Pending
<1>14. now + d # Zero
  BY <1>8, <1>10 DEF Zero
<1>15. p.msg = a /\ p.visibleAt = now + d
  BY <1>9
<1>16. inflight' = {r \in inflight : r.msg.ID # held[c].ID} \cup {p}
  BY <1>1, <1>6, <1>8, <1>9 DEF x
<1> QED
  BY <1>6, <1>11, <1>12, <1>13, <1>14, <1>15, <1>16 DEF x

LEMMA RedeliverStep ==
  ASSUME IInv, NEW c \in Consumers, held[c] # Nothing, NEW o \in Outcomes(held[c]),
         Redeliver(c, o)
  PROVE  IInv'
<1> DEFINE x == held[c]
<1>1. /\ held' = [held EXCEPT ![c] = Nothing] /\ NoteFailure(held[c], o)
      /\ now' = now /\ ready' = ready /\ dlq' = dlq /\ loop' = loop /\ acked' = acked
      /\ published' = published /\ started' = started /\ attempts0' = attempts0 /\ idOf' = idOf
  BY DEF Redeliver
<1>2. /\ x \in Message /\ x \in InHand /\ x.m \in Messages
      /\ held' \in [Consumers -> Message \cup {Nothing}]
      /\ OneEach(held')
      /\ InHand' = InHand \ {x}
      /\ HandNames' = HandNames \ {x.m}
      /\ x.m \in HandNames
  BY <1>1, LetGo
<1>3. /\ failures' \in [Messages -> Seq(Failure)]
      /\ \A m \in Messages : m # x.m => failures'[m] = failures[m]
      /\ Published' = Published
      /\ \A y \in Message : y.m # x.m /\ Known(y) => Known(y)' /\ Rested(y)' = Rested(y)
      /\ \A m \in Messages : IF m \in Published' THEN attempts0'[m] > 0 ELSE failures'[m] = <<>>
  BY <1>1, FailureNoted
<1>4. PICK p \in Pending' :
        /\ p.msg.m = x.m
        /\ inflight' = {r \in inflight : r.msg.ID # x.ID} \cup {p}
        /\ Known(p.msg)' /\ p.visibleAt = Rested(p.msg)' /\ p.visibleAt # Zero
  BY RedeliverIs
<1> HIDE DEF x
<1>5. p \in Pending
  BY <1>1, TypesStay
<1>6. Dead' = Dead /\ DeadNames' = DeadNames /\ Entries(ready') = Entries(ready)
  BY <1>1 DEF Dead, DeadNames
<1>7. Stock' = Entries(ready) \cup inflight'
  BY <1>1 DEF Stock, Entries
<1>8. \A r \in Stock' : r = p \/ (r \in Stock /\ r.msg.m # x.m)
  BY <1>2, <1>4, <1>7 DEF Stock, IInv, Apart
<1>9. Types'
  <2>1. IsFiniteSet(inflight') /\ inflight' \in SUBSET Pending
    <3>1. IsFiniteSet({r \in inflight : r.msg.ID # x.ID})
      BY FS_Subset DEF IInv, Types
    <3>2. IsFiniteSet({r \in inflight : r.msg.ID # x.ID} \cup {p})
      BY <3>1, FS_AddElement
    <3> QED
      BY <1>4, <1>5, <3>2 DEF IInv, Types
  <2> QED
    BY <1>1, <1>2, <1>3, <2>1, TypesStay DEF IInv, Types
<1>10. Lines'
  BY <1>1 DEF Lines, IInv
<1>11. Apart'
  <2>1. x.m \in Published /\ x.m \notin acked \cup DeadNames
    BY <1>2 DEF IInv, Apart, Records, Known
  <2>2. \A r \in Stock' : r.msg.m \notin HandNames' \cup acked' \cup DeadNames'
    BY <1>1, <1>2, <1>4, <1>6, <1>8, <2>1 DEF IInv, Apart
  <2>3. \A y, z \in InHand' : y.m = z.m => y = z
    BY <1>2 DEF IInv, Apart
  <2>4. \A y \in InHand' : y.m \notin acked' \cup DeadNames'
    BY <1>1, <1>2, <1>6 DEF IInv, Apart
  <2>5. \A r, t \in Stock' : r.msg.m = t.msg.m => r = t
    BY <1>4, <1>8 DEF IInv, Apart
  <2>6. acked' \cap DeadNames' = {} /\ acked' \cup DeadNames' \subseteq Published'
    BY <1>1, <1>3, <1>6 DEF IInv, Apart
  <2>7. (Entries(ready) \cap inflight)' = {}
    <3>1. p \notin Entries(ready)
      BY <1>2, <1>4 DEF IInv, Apart, Stock
    <3> QED
      BY <1>4, <1>6, <3>1 DEF IInv, Apart
  <2> QED
    BY <1>2, <2>2, <2>3, <2>4, <2>5, <2>6, <2>7 DEF Apart, OneEach
<1>12. Records'
  <2>1. ASSUME NEW e \in Consumers, held'[e] # Nothing PROVE loop'[e] # NotConsuming
    BY <1>1, <2>1 DEF IInv, Records, Types
  <2>2. ASSUME NEW r \in Stock' PROVE Known(r.msg)' /\ r.visibleAt = Rested(r.msg)'
    <3>1. CASE r = p
      BY <1>4, <3>1
    <3>2. CASE r # p
      <4>1. r \in Stock /\ r.msg.m # x.m /\ r.msg \in Message
        BY <1>8, <3>2, TypesOfPlaces
      <4> QED
        BY <1>3, <4>1 DEF IInv, Records
    <3> QED
      BY <3>1, <3>2
  <2>3. ASSUME NEW y \in InHand' PROVE Known(y)' /\ Rested(y)' <= now'
    <3>1. y \in InHand /\ y.m # x.m /\ y \in Message
      BY <1>2, TypesOfPlaces DEF IInv, Apart
    <3> QED
      BY <1>1, <1>3, <3>1 DEF IInv, Records
  <2>4. \A r \in inflight' : r.visibleAt # Zero
    BY <1>4 DEF IInv, Records
  <2>5. ASSUME NEW d \in Dead
        PROVE  failures'[d.m] = failures[d.m] /\ attempts0'[d.m] = attempts0[d.m]
    <3>1. d.m \in Messages /\ d.m \in DeadNames
      BY TypesOfPlaces DEF DeadNames
    <3>2. d.m # x.m
      BY <1>2, <3>1 DEF IInv, Apart
    <3> QED
      BY <1>1, <1>3, <3>1, <3>2
  <2>6. \A d \in Dead' : Len(failures'[d.m]) > 0
    BY <1>6, <2>5 DEF IInv, Records
  <2>7. TriageIsTrue'
    BY <1>6, <2>5 DEF IInv, Records, TriageIsTrue
  <2> QED
    BY <1>3, <2>1, <2>2, <2>3, <2>4, <2>6, <2>7 DEF Records
<1> QED
  BY <1>9, <1>10, <1>11, <1>12 DEF IInv

(* Publish puts one new entry at the end of one ready queue. *)
LEMMA PublishIs ==
  ASSUME IInv, NEW q \in Queues, NEW m \in Messages, NEW n \in FirstAttempts[m], Publish(q, m, n)
  PROVE  /\ m \notin Published
         /\ now' = now /\ inflight' = inflight /\ dlq' = dlq /\ loop' = loop /\ held' = held
         /\ acked' = acked /\ started' = started /\ failures' = failures /\ idOf' = idOf
         /\ published' = AppendTo(published, q, m)
         /\ published' \in [Queues -> Seq(Messages)] /\ Published' = Published \cup {m}
         /\ ready' \in [Queues -> Seq(Pending)]
         /\ attempts0' \in [Messages -> Nat] /\ attempts0'[m] \in (DOMAIN Causes) \ {0}
         /\ \A k \in Messages : k # m => attempts0'[k] = attempts0[k]
         /\ InHand' = InHand /\ HandNames' = HandNames
         /\ Dead' = Dead /\ DeadNames' = DeadNames
         /\ \E p \in Pending :
                /\ ready' = AppendTo(ready, q, p) /\ Entries(ready') = Entries(ready) \cup {p}
                /\ Stock' = Stock \cup {p}
                /\ p.msg \in Message /\ p.msg.m = m /\ p.msg.Queue = q /\ p.msg.ID = idOf[m]
                /\ p.msg.Attempts = attempts0'[m] /\ p.msg.FirstFailedAt = Zero
                /\ p.visibleAt = Zero
<1>1. PICK first : first = IF n = 0 THEN 1 ELSE n
  OBVIOUS
<1>2. PICK x : x = [m |-> m, ID |-> idOf[m], Queue |-> q, Attempts |-> first,
                    Reason |-> NoReason, FirstFailedAt |-> Zero]
  OBVIOUS
<1>3. PICK p : p = [msg |-> x, visibleAt |-> Zero]
  OBVIOUS
<1>4. /\ m \notin Published
      /\ ready' = AppendTo(ready, q, p)
      /\ published' = AppendTo(published, q, m)
      /\ attempts0' = [attempts0 EXCEPT ![m] = first]
      /\ now' = now /\ inflight' = inflight /\ dlq' = dlq /\ loop' = loop /\ held' = held
      /\ acked' = acked /\ started' = started /\ failures' = failures /\ idOf' = idOf
  BY <1>1, <1>2, <1>3 DEF Publish, AppendTo
<1>5. first \in Nat \ {0} /\ first \in DOMAIN Causes
  <2>1. n \in Nat /\ n \in (DOMAIN Causes) \cup {0}
    BY BrokerConstants
  <2>2. 1 \in DOMAIN Causes
    <3>1. 1 \in 1 .. MaxAttempts
      BY BrokerConstants
    <3> QED
      BY <3>1, BrokerConstants
  <2> QED
    BY <1>1, <2>1, <2>2
<1>6. x \in Message /\ x.m = m /\ x.Queue = q /\ x.ID = idOf[m] /\ x.Attempts = first
      /\ x.FirstFailedAt = Zero
  <2>1. NoReason \in [cause : (UNION Range(Causes)) \cup {""}, exhausted : BOOLEAN]
    BY DEF NoReason
  <2>2. Zero \in Nat /\ idOf[m] \in {idOf[k] : k \in Messages}
    BY DEF Zero
  <2>3. x \in Message
    BY <1>2, <1>5, <2>1, <2>2 DEF Message
  <2> QED
    BY <1>2, <2>3
<1>7. p \in Pending /\ p.msg = x /\ p.visibleAt = Zero
  BY <1>3, <1>6 DEF Pending, Zero
<1>8. ready' \in [Queues -> Seq(Pending)] /\ Entries(ready') = Entries(ready) \cup {p}
  <2>1. ready \in QueuesOf(Pending)
    BY DEF IInv, Types, QueuesOf
  <2>2. ready' \in QueuesOf(Pending) /\ Entries(ready') = Entries(ready) \cup {p}
    BY <1>4, <1>7, <2>1, Appended
  <2> QED
    BY <2>2 DEF QueuesOf
<1>9. published' \in [Queues -> Seq(Messages)] /\ Published' = Published \cup {m}
  <2>1. published \in QueuesOf(Messages)
    BY DEF IInv, Types, QueuesOf
  <2>2. published' \in QueuesOf(Messages) /\ Entries(published') = Entries(published) \cup {m}
    BY <1>4, <2>1, Appended
  <2> QED
    BY <2>2, NamesOf DEF QueuesOf
<1>10. /\ attempts0' \in [Messages -> Nat] /\ attempts0'[m] = first
       /\ \A k \in Messages : k # m => attempts0'[k] = attempts0[k]
  BY <1>4, <1>5 DEF IInv, Types
<1>11. Stock' = Stock \cup {p} /\ InHand' = InHand /\ HandNames' = HandNames /\ Dead' = Dead
       /\ DeadNames' = DeadNames
  BY <1>4, <1>8 DEF Stock, Entries, InHand, HandNames, Dead, DeadNames
<1> QED
  BY <1>4, <1>5, <1>6, <1>7, <1>8, <1>9, <1>10, <1>11

LEMMA PublishStep ==
  ASSUME IInv, NEW q \in Queues, NEW m \in Messages, NEW n \in FirstAttempts[m], Publish(q, m, n)
  PROVE  IInv'
<1>1. /\ m \notin Published
      /\ now' = now /\ inflight' = inflight /\ dlq' = dlq /\ loop' = loop /\ held' = held
      /\ acked' = acked /\ started' = started /\ failures' = failures /\ idOf' = idOf
      /\ published' = AppendTo(published, q, m)
  BY PublishIs
<1>2. published' \in [Queues -> Seq(Messages)] /\ Published' = Published \cup {m}
  BY PublishIs
<1>3. /\ attempts0' \in [Messages -> Nat] /\ attempts0'[m] \in (DOMAIN Causes) \ {0}
      /\ \A k \in Messages : k # m => attempts0'[k] = attempts0[k]
  BY PublishIs
<1>4. PICK p \in Pending :
        /\ ready' = AppendTo(ready, q, p) /\ Entries(ready') = Entries(ready) \cup {p}
        /\ Stock' = Stock \cup {p}
        /\ p.msg \in Message /\ p.msg.m = m /\ p.msg.Queue = q /\ p.msg.ID = idOf[m]
        /\ p.msg.Attempts = attempts0'[m] /\ p.msg.FirstFailedAt = Zero
        /\ p.visibleAt = Zero
  BY PublishIs
<1>5. /\ Stock' = Stock \cup {p} /\ InHand' = InHand /\ HandNames' = HandNames
      /\ Dead' = Dead /\ DeadNames' = DeadNames /\ ready' \in [Queues -> Seq(Pending)]
  BY <1>4, PublishIs
<1>6. /\ \A r \in Stock : r.msg.m # m
      /\ \A y \in InHand : y.m # m
      /\ \A d \in Dead : d.m # m
      /\ m \notin acked
  BY <1>1 DEF IInv, Records, Known, Apart, DeadNames
<1>7. ASSUME NEW y \in Message, Known(y), y.m # m
       PROVE  Known(y)' /\ Rested(y)' = Rested(y)
  <2>1. y.m \in Messages
    BY DEF Message
  <2>2. attempts0'[y.m] = attempts0[y.m]
    BY <1>3, <1>7, <2>1
  <2> QED
    BY <1>1, <1>2, <1>7, <2>2, KnownStays
<1>8. Known(p.msg)' /\ Rested(p.msg)' = Zero
  <2>1. failures[m] = <<>>
    BY <1>1 DEF IInv, Records
  <2>2. Len(failures'[p.msg.m]) = 0
    BY <1>1, <1>4, <2>1
  <2> QED
    BY <1>1, <1>3, <1>4, <1>2, <2>2 DEF Known, Rested
<1>9. Types'
  BY <1>1, <1>2, <1>3, <1>5, TypesStay DEF IInv, Types
<1>10. Lines'
  <2>1. ready'[q] = Append(ready[q], p) /\ published'[q] = Append(published[q], m)
    BY <1>1, <1>4 DEF AppendTo, IInv, Types
  <2>2. \A r \in Queues : r # q => ready'[r] = ready[r] /\ published'[r] = published[r]
    BY <1>1, <1>4 DEF AppendTo, IInv, Types
  <2>3. PICK s \in Seq(Pending) : s = ready[q]
    BY DEF IInv, Types
  <2>4. Lined(q, s) /\ InStep(s, started[q], published[q])
    BY <2>3 DEF IInv, Lines
  <2>5. Lined(q, Append(s, p))
    <3>1. \A i \in 1 .. Len(s) : s[i] # p
      <4>1. \A i \in 1 .. Len(s) : s[i] \in Stock
        BY <2>3, ElementsOf DEF Stock, Entries
      <4> QED
        BY <1>4, <1>6, <4>1
    <3>2. /\ Len(Append(s, p)) = Len(s) + 1 /\ Append(s, p)[Len(s) + 1] = p
          /\ \A i \in 1 .. Len(s) : Append(s, p)[i] = s[i]
      OBVIOUS
    <3>3. \A i \in 1 .. Len(s) + 1 : i \in 1 .. Len(s) \/ i = Len(s) + 1
      OBVIOUS
    <3>4. p.msg.Queue = q
      BY <1>4
    <3> QED
      BY <2>4, <3>1, <3>2, <3>3, <3>4 DEF Lined
  <2>6. InStep(Append(s, p), started[q], Append(published[q], m))
    <3>1. started[q] \in Seq(Messages) /\ published[q] \in Seq(Messages)
      BY DEF IInv, Types
    <3>2. Fresh(p) /\ p.msg.m = m
      BY <1>4 DEF Fresh
    <3> QED
      BY <1>4, <2>4, <3>1, <3>2, InStepAppend
  <2>7. ASSUME NEW r \in Queues
        PROVE  Lined(r, ready'[r]) /\ InStep(ready'[r], started'[r], published'[r])
    <3>1. CASE r = q
      BY <1>1, <2>1, <2>3, <2>5, <2>6, <3>1
    <3>2. CASE r # q
      BY <1>1, <2>2, <3>2 DEF IInv, Lines
    <3> QED
      BY <3>1, <3>2
  <2> QED
    BY <2>7 DEF Lines
<1>11. Apart'
  <2>1. \A r \in Stock' : r.msg.m \notin HandNames' \cup acked' \cup DeadNames'
    <3>1. m \notin HandNames' \cup acked' \cup DeadNames'
      BY <1>1, <1>5, <1>6 DEF HandNames, DeadNames
    <3>2. \A r \in Stock : r.msg.m \notin HandNames' \cup acked' \cup DeadNames'
      BY <1>1, <1>5 DEF IInv, Apart
    <3> QED
      BY <1>4, <3>1, <3>2
  <2>2. \A y, z \in InHand' : y.m = z.m => y = z
    BY <1>5 DEF IInv, Apart
  <2>3. \A y \in InHand' : y.m \notin acked' \cup DeadNames'
    BY <1>1, <1>5 DEF IInv, Apart
  <2>4. \A r, t \in Stock' : r.msg.m = t.msg.m => r = t
    BY <1>4, <1>5, <1>6 DEF IInv, Apart
  <2>5. acked' \cap DeadNames' = {} /\ acked' \cup DeadNames' \subseteq Published'
    BY <1>1, <1>2, <1>5 DEF IInv, Apart
  <2>6. Entries(ready') \cap inflight' = {}
    <3>1. p \notin inflight
      BY <1>4, <1>6 DEF Stock
    <3> QED
      BY <1>1, <1>4, <3>1 DEF IInv, Apart
  <2>7. OneEach(held)'
    BY <1>1 DEF IInv, Apart, OneEach
  <2> QED
    BY <2>1, <2>2, <2>3, <2>4, <2>5, <2>6, <2>7 DEF Apart, Entries
<1>12. Records'
  <2>1. \A e \in Consumers : held'[e] # Nothing => loop'[e] # NotConsuming
    BY <1>1 DEF IInv, Records
  <2>2. ASSUME NEW r \in Stock' PROVE Known(r.msg)' /\ r.visibleAt = Rested(r.msg)'
    <3>1. CASE r = p
      BY <1>4, <1>8, <3>1
    <3>2. CASE r # p
      BY <1>5, <1>6, <1>7, <3>2, TypesOfPlaces DEF IInv, Records
    <3> QED
      BY <3>1, <3>2
  <2>3. ASSUME NEW y \in InHand' PROVE Known(y)' /\ Rested(y)' <= now'
    <3>1. y \in InHand /\ y \in Message /\ y.m # m /\ Known(y) /\ Rested(y) <= now
      BY <1>5, <1>6, TypesOfPlaces DEF IInv, Records
    <3> QED
      BY <1>1, <1>7, <3>1
  <2>4. \A r \in inflight' : r.visibleAt # Zero
    BY <1>1 DEF IInv, Records
  <2>5. \A k \in Messages : IF k \in Published' THEN attempts0'[k] > 0 ELSE failures'[k] = <<>>
    BY <1>1, <1>3, <1>2 DEF IInv, Records
  <2>6. ASSUME NEW d \in Dead PROVE d.m \in Messages /\ attempts0'[d.m] = attempts0[d.m]
    <3>1. d.m \in Messages /\ d.m # m
      BY <1>6, TypesOfPlaces
    <3> QED
      BY <1>3, <3>1
  <2>7. \A d \in Dead' : Len(failures'[d.m]) > 0
    BY <1>1, <1>5 DEF IInv, Records
  <2>8. TriageIsTrue'
    BY <1>1, <1>5, <2>6 DEF IInv, Records, TriageIsTrue
  <2> QED
    BY <2>1, <2>2, <2>3, <2>4, <2>5, <2>7, <2>8 DEF Records
<1> QED
  BY <1>9, <1>10, <1>11, <1>12 DEF IInv

LEMMA NextIInv == IInv /\ [Next]_vars => IInv'
<1> SUFFICES ASSUME IInv, [Next]_vars PROVE IInv'
  OBVIOUS
<1>1. CASE Tick
  BY <1>1, TickStep
<1>2. ASSUME NEW q \in Queues, NEW m \in Messages, NEW n \in FirstAttempts[m], Publish(q, m, n)
      PROVE  IInv'
  BY <1>2, PublishStep
<1>3. ASSUME NEW c \in Consumers, NEW q \in Queues, Consume(c, q)
      PROVE  IInv'
  <2>1. held[c] = Nothing
    BY <1>3 DEF Consume, IInv, Records
  <2> QED
    BY <1>3, <2>1, LoopStep DEF Consume
<1>4. ASSUME NEW c \in Consumers, Take(c)
      PROVE  IInv'
  BY <1>4, TakeStep
<1>5. ASSUME NEW c \in Consumers, ReturnEmpty(c)
      PROVE  IInv'
  BY <1>5, ReturnEmptyStep
<1>6. ASSUME NEW c \in Consumers, ReturnCancelled(c)
      PROVE  IInv'
  BY <1>6, LoopStep DEF ReturnCancelled
<1>7. ASSUME NEW c \in Consumers, Settle(c)
      PROVE  IInv'
  <2>1. CASE Ack(c)
    BY <2>1, AckStep
  <2>2. ASSUME NEW o \in Outcomes(held[c]), Bury(c, o)
        PROVE  IInv'
    BY <1>7, <2>2, BuryStep DEF Settle
  <2>3. ASSUME NEW o \in Outcomes(held[c]), Redeliver(c, o)
        PROVE  IInv'
    BY <1>7, <2>3, RedeliverStep DEF Settle
  <2> QED
    BY <1>7, <2>1, <2>2, <2>3 DEF Settle
<1>8. CASE UNCHANGED vars
  <2>1. Quiet /\ idOf' = idOf /\ started' = started /\ ready' = ready /\ inflight' = inflight
        /\ now' = now /\ held' = held /\ acked' = acked /\ loop' = loop
    BY <1>8 DEF vars, Quiet
  <2>2. Types'
    BY <2>1, TypesStay DEF IInv, Types, Quiet
  <2>3. Lines'
    BY <2>1 DEF IInv, Lines, Quiet
  <2>4. Stock' = Stock /\ InHand' = InHand /\ HandNames' = HandNames
    BY <2>1 DEF Stock, Entries, InHand, HandNames
  <2>5. Apart'
    BY <2>1, <2>4, RecordsStay DEF IInv, Apart, Entries
  <2>6. Records'
    <3>1. \A p \in Stock' : Known(p.msg)' /\ p.visibleAt = Rested(p.msg)'
      BY <2>1, <2>4, RecordsStay DEF IInv, Records
    <3>2. \A x \in InHand' : Known(x)' /\ Rested(x)' <= now'
      BY <2>1, <2>4, RecordsStay DEF IInv, Records
    <3>3. \A p \in inflight' : p.visibleAt # Zero
      BY <2>1 DEF IInv, Records
    <3>4. \A e \in Consumers : held'[e] # Nothing => loop'[e] # NotConsuming
      BY <2>1 DEF IInv, Records
    <3> QED
      BY <2>1, <3>1, <3>2, <3>3, <3>4, RecordsStay DEF Records
  <2> QED
    BY <2>2, <2>3, <2>5, <2>6 DEF IInv
<1> QED
  BY <1>1, <1>2, <1>3, <1>4, <1>5, <1>6, <1>7, <1>8 DEF Next

LEMMA Invariance == Spec => []IInv
  BY InitIInv, NextIInv, PTL DEF Spec

-----------------------------------------------------------------------------
(* Whatever the publishers, the handlers and the clock do, every field of  *)
(* every message has its type and waits in the queue it was published to.  *)
THEOREM TypeCorrect == Spec => []TypeOK
<1>1. IInv => TypeOK
  <2> SUFFICES ASSUME IInv PROVE TypeOK
    OBVIOUS
  <2>1. ASSUME NEW q \in Queues
        PROVE  /\ \A p \in ToSet(ready[q]) : p \in Pending /\ p.msg.Queue = q
               /\ \A d \in ToSet(dlq[q]) : d \in Message
    <3>1. ready[q] \in Seq(Pending) /\ dlq[q] \in Seq(Message) /\ Lined(q, ready[q])
      BY DEF IInv, Types, Lines
    <3>2. ToSet(ready[q]) = {ready[q][i] : i \in 1 .. Len(ready[q])} /\ ToSet(ready[q]) \subseteq Pending
          /\ ToSet(dlq[q]) \subseteq Message
      BY <3>1, ElementsOf
    <3> QED
      BY <3>1, <3>2 DEF Lined
  <2>2. InHand \subseteq Message
    BY TypesOfPlaces
  <2> QED
    BY <2>1, <2>2 DEF TypeOK, IInv, Types
<1> QED
  BY <1>1, Invariance, PTL

(* What a dead letter says of its failures is what happened: dead and      *)
(* redeliver stamp and count over any number of rounds.                    *)
THEOREM TriageStaysTrue == Spec => []TriageIsTrue
<1>1. IInv => TriageIsTrue
  BY DEF IInv, Records
<1> QED
  BY <1>1, Invariance, PTL

(* next never hands out a parked message before its backoff is over, and   *)
(* the shift that computes the backoff never overflows.                    *)
THEOREM BackoffIsKept == Spec => []BackoffElapsed
<1>1. IInv => BackoffElapsed
  <2> SUFFICES ASSUME IInv, NEW x \in InHand, Len(failures[x.m]) > 0
               PROVE  now - failures[x.m][Len(failures[x.m])].at
                        >= Backoff * 2^(attempts0[x.m] + Len(failures[x.m]) - 2)
    BY DEF BackoffElapsed
  <2>1. /\ x \in Message /\ x.m \in Messages /\ Known(x) /\ Rested(x) <= now /\ now \in Nat
        /\ failures[x.m] \in Seq(Failure) /\ attempts0[x.m] \in Nat /\ attempts0[x.m] > 0
    BY TypesOfPlaces DEF IInv, Types, Records, Known
  <2>2. PICK n \in Nat : n = Len(failures[x.m]) /\ n > 0
    BY <2>1
  <2>3. PICK e \in Nat : e = attempts0[x.m] + n - 2 /\ e = x.Attempts - 2
    BY <2>1, <2>2 DEF Known
  <2>4. PICK d \in Nat : d = Backoff * 2^e
    <3>1. PICK b \in Nat : b = 2^e
      BY PowerIsCount
    <3> QED
      BY <3>1, BrokerConstants, TimesGrows
  <2>5. PICK t \in Nat : t = failures[x.m][n].at
    <3>1. failures[x.m][n] \in Failure
      BY <2>1, <2>2
    <3> QED
      BY <3>1 DEF Failure
  <2>6. Rested(x) = t + d
    BY <2>2, <2>3, <2>4, <2>5 DEF Rested
  <2>7. now - t >= d
    BY <2>1, <2>6
  <2> QED
    BY <2>2, <2>3, <2>4, <2>5, <2>7
<1> QED
  BY <1>1, Invariance, PTL

(* Untried messages leave every ready queue in the order of Publish, with  *)
(* any number of consumers and of redelivered messages between them.       *)
THEOREM FirstDeliveriesKeepOrder == Spec => []FirstDeliveriesInOrder
<1>1. IInv => FirstDeliveriesInOrder
  <2> SUFFICES ASSUME IInv, NEW q \in Queues PROVE IsPrefix(started[q], published[q])
    BY DEF FirstDeliveriesInOrder
  <2>1. started[q] \in Seq(Messages) /\ published[q] \in Seq(Messages)
    BY DEF IInv, Types
  <2>2. Len(started[q]) <= Len(published[q])
        /\ \A a \in 1 .. Len(started[q]) : started[q][a] = published[q][a]
    BY DEF IInv, Lines, InStep
  <2>3. started[q] = SubSeq(published[q], 1, Len(started[q]))
    BY <2>1, <2>2
  <2> QED
    BY <2>1, <2>2, <2>3 DEF IsPrefix
<1> QED
  BY <1>1, Invariance, PTL

-----------------------------------------------------------------------------
(* Where a message is, as the abstract work queue sees it.                 *)
StockNames == {p.msg.m : p \in Stock}

Where(m) ==
    IF m \notin Published THEN "new"
    ELSE IF m \in StockNames THEN "queued"
    ELSE IF m \in HandNames THEN "held"
    ELSE IF m \in acked THEN "acked"
    ELSE IF m \in DeadNames THEN "dead"
    ELSE "lost"

LEMMA StatusIs == IInv => \A m \in Messages : StatusOf(m) = Where(m)
<1> SUFFICES ASSUME IInv, NEW m \in Messages PROVE StatusOf(m) = Where(m)
  OBVIOUS
<1>1. Waiting = {p.msg : p \in Stock}
  <2>1. \A q \in Queues : InReady(q) = {p.msg : p \in ToSet(ready[q])}
    BY DEF InReady
  <2>2. ASSUME NEW x \in Waiting PROVE x \in {p.msg : p \in Stock}
    <3>1. CASE x \in {p.msg : p \in inflight}
      BY <3>1 DEF Stock
    <3>2. CASE x \in UNION {InReady(q) : q \in Queues}
      <4>1. PICK q \in Queues : x \in InReady(q)
        BY <3>2
      <4>2. PICK p \in ToSet(ready[q]) : x = p.msg
        BY <2>1, <4>1
      <4> QED
        BY <4>2 DEF Stock, Entries
    <3> QED
      BY <3>1, <3>2 DEF Waiting
  <2>3. ASSUME NEW p \in Stock PROVE p.msg \in Waiting
    <3>1. CASE p \in inflight
      BY <3>1 DEF Waiting
    <3>2. CASE p \in Entries(ready)
      <4>1. PICK q \in Queues : p \in ToSet(ready[q])
        BY <3>2 DEF Entries
      <4> QED
        BY <2>1, <4>1 DEF Waiting
    <3> QED
      BY <3>1, <3>2 DEF Stock
  <2> QED
    BY <2>2, <2>3
<1>2. /\ (\E x \in Waiting : x.m = m) <=> m \in StockNames
      /\ (\E x \in InHand : x.m = m) <=> m \in HandNames
      /\ (\E x \in Dead : x.m = m) <=> m \in DeadNames
  BY <1>1 DEF StockNames, HandNames, DeadNames
<1>3. /\ m \in StockNames => m \notin HandNames /\ m \notin acked /\ m \notin DeadNames
      /\ m \in HandNames => m \notin acked /\ m \notin DeadNames
      /\ m \in acked => m \notin DeadNames
  BY DEF IInv, Apart, StockNames, HandNames
<1> DEFINE places ==
        {s \in {"queued", "held", "acked", "dead"} :
            \/ s = "queued" /\ \E x \in Waiting : x.m = m
            \/ s = "held" /\ \E x \in InHand : x.m = m
            \/ s = "acked" /\ m \in acked
            \/ s = "dead" /\ \E x \in Dead : x.m = m}
<1>4. StatusOf(m) = CASE m \notin Published -> "new"
                      [] m \in Published /\ places = {} -> "lost"
                      [] m \in Published /\ Cardinality(places) = 1 -> CHOOSE s \in places : TRUE
                      [] OTHER -> "duplicated"
  BY DEF StatusOf
<1>5. places = {s \in {"queued", "held", "acked", "dead"} :
                    \/ s = "queued" /\ m \in StockNames
                    \/ s = "held" /\ m \in HandNames
                    \/ s = "acked" /\ m \in acked
                    \/ s = "dead" /\ m \in DeadNames}
  BY <1>2
<1>6. ASSUME NEW s, places = {s}, m \in Published
      PROVE  StatusOf(m) = s
  <2>1. Cardinality({s}) = 1 /\ {s} # {} /\ (CHOOSE t \in {s} : TRUE) = s
    BY FS_Singleton
  <2> HIDE DEF places
  <2> QED
    BY <1>4, <1>6, <2>1
<1>7. CASE m \notin Published
  BY <1>4, <1>7 DEF Where
<1>8. CASE m \in Published /\ m \in StockNames
  <2>1. places = {"queued"}
    BY <1>3, <1>5, <1>8
  <2> HIDE DEF places
  <2> QED
    BY <1>6, <1>8, <2>1 DEF Where
<1>9. CASE m \in Published /\ m \in HandNames
  <2>1. places = {"held"}
    BY <1>3, <1>5, <1>9
  <2> HIDE DEF places
  <2> QED
    BY <1>3, <1>6, <1>9, <2>1 DEF Where
<1>10. CASE m \in Published /\ m \in acked
  <2>1. places = {"acked"}
    BY <1>3, <1>5, <1>10
  <2> HIDE DEF places
  <2> QED
    BY <1>3, <1>6, <1>10, <2>1 DEF Where
<1>11. CASE m \in Published /\ m \in DeadNames
  <2>1. places = {"dead"}
    BY <1>3, <1>5, <1>11
  <2> HIDE DEF places
  <2> QED
    BY <1>3, <1>6, <1>11, <2>1 DEF Where
<1>12. CASE m \in Published /\ m \notin StockNames /\ m \notin HandNames /\ m \notin acked
            /\ m \notin DeadNames
  <2>1. places = {}
    BY <1>5, <1>12
  <2>2. Cardinality(places) # 1
    BY <2>1, FS_EmptySet
  <2> HIDE DEF places
  <2> QED
    BY <1>4, <1>12, <2>1, <2>2 DEF Where
<1> QED
  BY <1>7, <1>8, <1>9, <1>10, <1>11, <1>12

LEMMA StatusBecomes == IInv' => (\A m \in Messages : StatusOf(m) = Where(m))'
  BY StatusIs, PTL

LEMMA Located ==
  ASSUME IInv
  PROVE  /\ \A p \in Stock : p.msg.m \in Published /\ p.msg.m \in Messages /\ p.msg.m \in StockNames
         /\ \A x \in InHand : x.m \in Published /\ x.m \in Messages
         /\ acked \subseteq Published /\ DeadNames \subseteq Published
         /\ \A m \in StockNames : m \notin HandNames /\ m \notin acked /\ m \notin DeadNames
         /\ \A m \in HandNames : m \notin acked /\ m \notin DeadNames
<1>1. \A p \in Stock : p.msg.m \in Messages
  BY TypesOfPlaces DEF Message
<1> QED
  BY <1>1, TypesOfPlaces DEF IInv, Apart, Records, Known, StockNames, HandNames

(* How often a message may still be handed out, counted from its names.    *)
Spent(m) == Len(failures[m]) + IF m \in acked \cup HandNames THEN 1 ELSE 0

LEMMA LeftIs ==
  ASSUME NEW m \in Messages
  PROVE  /\ LeftOf(m) = IF m \in Published THEN DeliveriesAllowed(m) - Spent(m) ELSE 0
         /\ LeftOf(m)' = IF m \in Published' THEN DeliveriesAllowed(m)' - Spent(m)' ELSE 0
<1>1. Handed(m) = Spent(m)
  BY DEF Handed, Spent, HandNames
<1>2. Handed(m)' = Spent(m)'
  BY DEF Handed, Spent, HandNames
<1> QED
  BY <1>1, <1>2 DEF LeftOf

(* A step that neither moves nor fails a message leaves it as it is. *)
Untouched(m) ==
    /\ m \in Published' <=> m \in Published
    /\ m \in StockNames' <=> m \in StockNames
    /\ m \in HandNames' <=> m \in HandNames
    /\ m \in acked' <=> m \in acked
    /\ m \in DeadNames' <=> m \in DeadNames
    /\ failures'[m] = failures[m] /\ attempts0'[m] = attempts0[m]

LEMMA UntouchedStays ==
  ASSUME IInv, IInv', NEW m \in Messages, Untouched(m)
  PROVE  StatusOf(m)' = StatusOf(m) /\ LeftOf(m)' = LeftOf(m)
<1>1. StatusOf(m) = Where(m) /\ StatusOf(m)' = Where(m)'
  BY StatusIs, StatusBecomes
<1>2. Where(m)' = Where(m)
  BY DEF Where, Untouched
<1>3. DeliveriesAllowed(m)' = DeliveriesAllowed(m) /\ Spent(m)' = Spent(m)
  BY DEF DeliveriesAllowed, Spent, Untouched
<1>4. LeftOf(m)' = LeftOf(m)
  BY <1>3, LeftIs DEF Untouched
<1> QED
  BY <1>1, <1>2, <1>4

(* Settling a message spends no delivery: it was spent when it was handed. *)
LEMMA SettlingSpendsNothing ==
  ASSUME IInv, NEW m \in Messages, m \in Published, m \in Published', m \in HandNames,
         attempts0'[m] = attempts0[m], NEW n \in Nat, Len(failures[m]) = n,
         \/ Len(failures'[m]) = n /\ m \in acked'
         \/ Len(failures'[m]) = n + 1 /\ m \notin acked' /\ m \notin HandNames'
  PROVE  LeftOf(m)' = LeftOf(m)
<1>1. Spent(m) = n + 1
  BY DEF Spent
<1>3. Spent(m)' = n + 1
  <2>1. CASE Len(failures'[m]) = n /\ m \in acked'
    BY <2>1 DEF Spent
  <2>2. CASE Len(failures'[m]) = n + 1 /\ m \notin acked' /\ m \notin HandNames'
    BY <2>2 DEF Spent
  <2> QED
    BY <2>1, <2>2
<1>2. DeliveriesAllowed(m)' = DeliveriesAllowed(m)
  BY DEF DeliveriesAllowed
<1> QED
  BY <1>1, <1>2, <1>3, LeftIs

LEMMA PublishEnqueues ==
  ASSUME IInv, IInv', NEW q \in Queues, NEW m \in Messages, NEW n \in FirstAttempts[m],
         Publish(q, m, n)
  PROVE  WQ!Enqueue(m)
<1> DEFINE Status == [k \in Messages |-> StatusOf(k)]
           Left == [k \in Messages |-> LeftOf(k)]
<1>1. /\ m \notin Published /\ Published' = Published \cup {m}
      /\ acked' = acked /\ failures' = failures /\ idOf' = idOf
      /\ attempts0'[m] \in Nat \ {0}
      /\ \A k \in Messages : k # m => attempts0'[k] = attempts0[k]
      /\ HandNames' = HandNames /\ DeadNames' = DeadNames
  BY PublishIs
<1>2. StockNames' = StockNames \cup {m}
  <2>1. PICK p : p.msg.m = m /\ Stock' = Stock \cup {p}
    BY PublishIs
  <2> QED
    BY <2>1 DEF StockNames
<1>3. StatusOf(m) = "new" /\ StatusOf(m)' = "queued"
  BY <1>1, <1>2, StatusIs, StatusBecomes DEF Where
<1>4. LeftOf(m)' \in 1 .. MaxAttempts
  <2>1. failures'[m] = <<>>
    BY <1>1 DEF IInv, Records
  <2>2. m \notin acked /\ m \notin HandNames
    BY <1>1, Located DEF HandNames
  <2>3. Spent(m)' = 0
    BY <1>1, <2>1, <2>2 DEF Spent
  <2>4. DeliveriesAllowed(m)' \in 1 .. MaxAttempts
    BY <1>1, BrokerConstants DEF DeliveriesAllowed
  <2> QED
    BY <1>1, <2>3, <2>4, LeftIs
<1>5. \A k \in Messages : k # m => Untouched(k)
  BY <1>1, <1>2 DEF Untouched
<1>6. \A k \in Messages : k # m => StatusOf(k)' = StatusOf(k) /\ LeftOf(k)' = LeftOf(k)
  BY <1>5, UntouchedStays
<1>7. Status' = [Status EXCEPT ![m] = "queued"] /\ Left' = [Left EXCEPT ![m] = LeftOf(m)']
  BY <1>3, <1>6
<1>8. Status[m] = "new"
  BY <1>3
<1> HIDE DEF Status, Left
<1> QED
  BY <1>1, <1>4, <1>7, <1>8 DEF WQ!Enqueue, WQ!Move, Status, Left

LEMMA TakeDelivers ==
  ASSUME IInv, IInv', NEW c \in Consumers, Take(c)
  PROVE  \E m \in Messages : WQ!Deliver(m)
<1> DEFINE Status == [k \in Messages |-> StatusOf(k)]
           Left == [k \in Messages |-> LeftOf(k)]
<1>1. /\ idOf' = idOf /\ acked' = acked /\ failures' = failures /\ attempts0' = attempts0
      /\ Published' = Published /\ DeadNames' = DeadNames
  <2>1. Quiet /\ acked' = acked
    BY TakeMoves
  <2> QED
    BY <2>1, RecordsStay DEF Quiet
<1>2. PICK p \in Stock :
        /\ p.msg \in Message /\ Stock' = Stock \ {p} /\ HandNames' = HandNames \cup {p.msg.m}
  BY TakeMoves
<1>3. PICK m \in Messages : m = p.msg.m /\ m \in Published /\ m \in StockNames
  BY <1>2, Located
<1>4. /\ StockNames' = StockNames \ {m}
      /\ m \notin HandNames /\ m \notin acked /\ m \notin DeadNames
  <2>1. \A r \in Stock : r.msg.m = m => r = p
    BY <1>3 DEF IInv, Apart
  <2> QED
    BY <1>2, <1>3, <2>1, Located DEF StockNames
<1>5. StatusOf(m) = "queued" /\ StatusOf(m)' = "held"
  BY <1>1, <1>2, <1>3, <1>4, StatusIs, StatusBecomes DEF Where
<1>6. LeftOf(m) > 0 /\ LeftOf(m)' = LeftOf(m) - 1
  <2>1. PICK f \in Nat, t \in Nat : f = Len(failures[m]) /\ t = attempts0[m] /\ t > 0
    BY <1>3 DEF IInv, Types, Records
  <2>2. p.msg.Attempts = t + f /\ (f > 0 => t + f <= MaxAttempts)
    BY <1>3, <2>1 DEF IInv, Records, Known
  <2>3. PICK d \in Int : d = DeliveriesAllowed(m) /\ d = DeliveriesAllowed(m)' /\ d - f > 0
    BY <1>1, <2>1, <2>2, BrokerConstants DEF DeliveriesAllowed
  <2>4. Spent(m) = f
    <3>1. m \notin acked \cup HandNames
      BY <1>4
    <3>2. Spent(m) = f + 0
      BY <2>1, <3>1 DEF Spent
    <3> QED
      BY <3>2
  <2>5. Spent(m)' = f + 1
    <3>1. m \in HandNames' /\ Len(failures'[m]) = f
      BY <1>1, <1>2, <1>3, <2>1
    <3> QED
      BY <3>1 DEF Spent
  <2>6. LeftOf(m) = d - f /\ LeftOf(m)' = d - (f + 1)
    BY <1>1, <1>3, <2>3, <2>4, <2>5, LeftIs
  <2> QED
    BY <2>1, <2>3, <2>6
<1>7. \A k \in Messages : k # m => Untouched(k)
  BY <1>1, <1>2, <1>3, <1>4 DEF Untouched
<1>8. \A k \in Messages : k # m => StatusOf(k)' = StatusOf(k) /\ LeftOf(k)' = LeftOf(k)
  BY <1>7, UntouchedStays
<1>9. Status' = [Status EXCEPT ![m] = "held"] /\ Left' = [Left EXCEPT ![m] = LeftOf(m) - 1]
  BY <1>5, <1>6, <1>8
<1>10. Status[m] = "queued" /\ Left[m] = LeftOf(m)
  BY <1>5
<1> HIDE DEF Status, Left
<1> QED
  BY <1>1, <1>6, <1>9, <1>10 DEF WQ!Deliver, WQ!Move, Status, Left

LEMMA AckSettles ==
  ASSUME IInv, IInv', NEW c \in Consumers, Ack(c)
  PROVE  \E m \in Messages : WQ!Settle(m)
<1> DEFINE Status == [k \in Messages |-> StatusOf(k)]
           Left == [k \in Messages |-> LeftOf(k)]
<1>1. /\ Quiet /\ idOf' = idOf /\ acked' = acked \cup {held[c].m} /\ failures' = failures
      /\ attempts0' = attempts0 /\ ready' = ready /\ inflight' = inflight
      /\ held[c] # Nothing /\ held' = [held EXCEPT ![c] = Nothing]
  BY DEF Ack, Quiet, history
<1>2. /\ Published' = Published /\ DeadNames' = DeadNames /\ StockNames' = StockNames
  BY <1>1, RecordsStay DEF StockNames, Stock, Entries
<1>3. PICK m \in Messages : m = held[c].m /\ m \in HandNames /\ HandNames' = HandNames \ {m}
  BY <1>1, LetGo
<1>4. m \in Published /\ m \notin StockNames /\ m \notin acked /\ m \notin DeadNames
  BY <1>3, Located DEF HandNames
<1>5. StatusOf(m) = "held" /\ StatusOf(m)' = "acked"
  BY <1>1, <1>2, <1>3, <1>4, StatusIs, StatusBecomes DEF Where
<1>6. LeftOf(m)' = LeftOf(m)
  <2>1. PICK n \in Nat : n = Len(failures[m])
    BY DEF IInv, Types
  <2> QED
    BY <1>1, <1>2, <1>3, <1>4, <2>1, SettlingSpendsNothing
<1>7. \A k \in Messages : k # m => Untouched(k)
  BY <1>1, <1>2, <1>3 DEF Untouched
<1>8. \A k \in Messages : k # m => StatusOf(k)' = StatusOf(k) /\ LeftOf(k)' = LeftOf(k)
  BY <1>7, UntouchedStays
<1>9. Status' = [Status EXCEPT ![m] = "acked"] /\ Left' = Left
  BY <1>5, <1>6, <1>8
<1>10. Status[m] = "held"
  BY <1>5
<1> HIDE DEF Status, Left
<1> QED
  BY <1>1, <1>9, <1>10 DEF WQ!Settle, WQ!Move, Status, Left

LEMMA BurySettles ==
  ASSUME IInv, IInv', NEW c \in Consumers, held[c] # Nothing, NEW o \in Outcomes(held[c]),
         Bury(c, o)
  PROVE  \E m \in Messages : WQ!Settle(m)
<1> DEFINE Status == [k \in Messages |-> StatusOf(k)]
           Left == [k \in Messages |-> LeftOf(k)]
<1>1. /\ idOf' = idOf /\ acked' = acked /\ attempts0' = attempts0 /\ published' = published
      /\ ready' = ready /\ inflight' = inflight /\ NoteFailure(held[c], o)
      /\ held' = [held EXCEPT ![c] = Nothing]
  BY DEF Bury
<1>2. PICK m \in Messages : m = held[c].m /\ m \in HandNames /\ HandNames' = HandNames \ {m}
  BY <1>1, LetGo
<1>3. /\ \A k \in Messages : k # m => failures'[k] = failures[k]
      /\ Len(failures'[m]) = Len(failures[m]) + 1 /\ Len(failures[m]) \in Nat
      /\ Published' = Published
  BY <1>1, <1>2, FailureNoted
<1>4. StockNames' = StockNames
  BY <1>1 DEF StockNames, Stock, Entries
<1>5. DeadNames' = DeadNames \cup {m}
  BY <1>1, <1>2, BuryMoves
<1>6. m \in Published /\ m \notin StockNames /\ m \notin acked /\ m \notin DeadNames
  BY <1>2, Located DEF HandNames
<1>7. StatusOf(m) = "held" /\ StatusOf(m)' = "dead"
  BY <1>1, <1>2, <1>3, <1>4, <1>5, <1>6, StatusIs, StatusBecomes DEF Where
<1>8. LeftOf(m)' = LeftOf(m)
  BY <1>1, <1>2, <1>3, <1>6, SettlingSpendsNothing
<1>9. \A k \in Messages : k # m => Untouched(k)
  BY <1>1, <1>2, <1>3, <1>4, <1>5 DEF Untouched
<1>10. \A k \in Messages : k # m => StatusOf(k)' = StatusOf(k) /\ LeftOf(k)' = LeftOf(k)
  BY <1>9, UntouchedStays
<1>11. Status' = [Status EXCEPT ![m] = "dead"] /\ Left' = Left
  BY <1>7, <1>8, <1>10
<1>12. Status[m] = "held"
  BY <1>7
<1> HIDE DEF Status, Left
<1> QED
  BY <1>1, <1>11, <1>12 DEF WQ!Settle, WQ!Move, Status, Left

LEMMA RedeliverReturns ==
  ASSUME IInv, IInv', NEW c \in Consumers, held[c] # Nothing, NEW o \in Outcomes(held[c]),
         Redeliver(c, o)
  PROVE  \E m \in Messages : WQ!Return(m)
<1> DEFINE Status == [k \in Messages |-> StatusOf(k)]
           Left == [k \in Messages |-> LeftOf(k)]
           gone == {r \in inflight : r.msg.ID = held[c].ID}
           displaced == {r.msg.m : r \in gone}
<1>1. /\ idOf' = idOf /\ acked' = acked /\ attempts0' = attempts0 /\ published' = published
      /\ ready' = ready /\ dlq' = dlq /\ NoteFailure(held[c], o)
      /\ held' = [held EXCEPT ![c] = Nothing]
  BY DEF Redeliver
<1>2. PICK m \in Messages : m = held[c].m /\ m \in HandNames /\ HandNames' = HandNames \ {m}
                            /\ held[c] \in InHand
  BY <1>1, LetGo
<1>3. /\ \A k \in Messages : k # m => failures'[k] = failures[k]
      /\ Len(failures'[m]) = Len(failures[m]) + 1 /\ Len(failures[m]) \in Nat
      /\ Published' = Published
  BY <1>1, <1>2, FailureNoted
<1>4. PICK p : /\ p.msg.m = m
               /\ inflight' = {r \in inflight : r.msg.ID # held[c].ID} \cup {p}
  BY <1>2, RedeliverIs
<1>5. Stock' = (Stock \ gone) \cup {p}
  <2>1. Stock' = Entries(ready) \cup inflight'
    BY <1>1 DEF Stock, Entries
  <2>2. gone \cap Entries(ready) = {}
    BY DEF IInv, Apart
  <2> QED
    BY <1>4, <2>1, <2>2 DEF Stock
<1>6. m \in Published /\ m \notin StockNames /\ m \notin acked /\ m \notin DeadNames
  BY <1>2, Located DEF HandNames
<1>7. displaced \subseteq StockNames /\ m \notin displaced
  BY <1>6 DEF StockNames, Stock
<1>8. StockNames' = (StockNames \ displaced) \cup {m}
  <2>1. \A r, t \in Stock : r.msg.m = t.msg.m => r = t
    BY DEF IInv, Apart
  <2>2. gone \subseteq Stock
    BY DEF Stock
  <2>3. ASSUME NEW x \in StockNames' PROVE x \in (StockNames \ displaced) \cup {m}
    <3>1. PICK r \in Stock' : x = r.msg.m
      BY DEF StockNames
    <3>2. CASE r = p
      BY <1>4, <3>1, <3>2
    <3>3. CASE r \in Stock \ gone
      BY <2>1, <2>2, <3>1, <3>3 DEF StockNames
    <3> QED
      BY <1>5, <3>2, <3>3
  <2>4. ASSUME NEW x \in StockNames \ displaced PROVE x \in StockNames'
    <3>1. PICK r \in Stock : x = r.msg.m /\ r \notin gone
      BY DEF StockNames
    <3> QED
      BY <1>5, <3>1 DEF StockNames
  <2>5. m \in StockNames'
    BY <1>4, <1>5 DEF StockNames
  <2> QED
    BY <2>3, <2>4, <2>5
<1>9. DeadNames' = DeadNames
  BY <1>1 DEF DeadNames, Dead
<1>10. \A k \in displaced : k \in Messages \ {m} /\ idOf[k] = idOf[m]
  <2>1. ASSUME NEW r \in gone PROVE r.msg.m \in Messages /\ idOf[r.msg.m] = idOf[m]
    <3>1. r \in Stock /\ Known(r.msg) /\ Known(held[c])
      BY <1>2 DEF Stock, IInv, Records
    <3> QED
      BY <1>2, <3>1, Located DEF Known
  <2> QED
    BY <1>7, <2>1
<1> HIDE DEF gone, displaced
<1>11. StatusOf(m) = "held" /\ StatusOf(m)' = "queued"
  BY <1>1, <1>2, <1>3, <1>6, <1>8, StatusIs, StatusBecomes DEF Where
<1>12. LeftOf(m)' = LeftOf(m)
  BY <1>1, <1>2, <1>3, <1>6, SettlingSpendsNothing
<1>13. ASSUME NEW k \in displaced
       PROVE  StatusOf(k) = "queued" /\ StatusOf(k)' = "lost" /\ LeftOf(k)' = LeftOf(k)
  <2>1. k \in Messages /\ k # m /\ k \in StockNames
    BY <1>7, <1>10
  <2>2. k \in Published /\ k \notin HandNames /\ k \notin acked /\ k \notin DeadNames
    BY <2>1, Located DEF StockNames
  <2>3. k \notin StockNames' /\ k \notin HandNames' /\ k \notin acked' /\ k \notin DeadNames'
        /\ k \in Published'
    BY <1>1, <1>2, <1>3, <1>8, <1>9, <1>13, <2>1, <2>2
  <2>4. StatusOf(k) = "queued" /\ StatusOf(k)' = "lost"
    BY <2>1, <2>2, <2>3, StatusIs, StatusBecomes DEF Where
  <2>5. DeliveriesAllowed(k)' = DeliveriesAllowed(k) /\ Spent(k)' = Spent(k)
    BY <1>1, <1>3, <2>1, <2>2, <2>3 DEF DeliveriesAllowed, Spent
  <2> QED
    BY <2>1, <2>2, <2>3, <2>4, <2>5, LeftIs
<1>14. ASSUME NEW k \in Messages, k # m, k \notin displaced
       PROVE  StatusOf(k)' = StatusOf(k) /\ LeftOf(k)' = LeftOf(k)
  <2>1. Untouched(k)
    BY <1>1, <1>2, <1>3, <1>8, <1>9, <1>14 DEF Untouched
  <2> QED
    BY <2>1, UntouchedStays
<1>15. Status' = [k \in Messages |-> IF k = m THEN "queued"
                                     ELSE IF k \in displaced THEN "lost"
                                     ELSE Status[k]]
  BY <1>11, <1>13, <1>14
<1>16. Left' = Left
  <2>1. \A k \in Messages : LeftOf(k)' = LeftOf(k)
    BY <1>12, <1>13, <1>14
  <2> QED
    BY <2>1
<1>17. Status[m] = "held" /\ \A k \in displaced : Status[k] = "queued"
  BY <1>10, <1>11, <1>13
<1> HIDE DEF Status, Left
<1>18. displaced \in SUBSET {k \in Messages \ {m} : idOf[k] = idOf[m] /\ Status[k] = "queued"}
  BY <1>10, <1>17
<1> QED
  BY <1>1, <1>15, <1>16, <1>17, <1>18 DEF WQ!Return, WQ!Namesakes, Status, Left

LEMMA OtherStepsKeepPlaces ==
  ASSUME IInv, IInv',
         \/ Tick
         \/ \E c \in Consumers, q \in Queues : Consume(c, q)
         \/ \E c \in Consumers : ReturnEmpty(c) \/ ReturnCancelled(c)
         \/ UNCHANGED vars
  PROVE  UNCHANGED WQ!queueVars
<1> DEFINE Status == [k \in Messages |-> StatusOf(k)]
           Left == [k \in Messages |-> LeftOf(k)]
<1>1. Quiet /\ acked' = acked /\ held' = held
  BY DEF Tick, Consume, ReturnEmpty, ReturnCancelled, vars, history, Quiet
<1>2. StockNames' = StockNames
  <2>1. ASSUME NEW c \in Consumers, ReturnEmpty(c) PROVE Stock' = Stock
    <3>1. ready' \in Promoted /\ inflight' = inflight \ Due /\ Due \subseteq inflight
      BY <2>1 DEF ReturnEmpty, Due
    <3>2. Entries(ready') = Entries(ready) \cup Due
      BY <3>1, PromotedIs
    <3>3. Stock' = Entries(ready') \cup inflight'
      BY DEF Stock, Entries
    <3> QED
      BY <3>1, <3>2, <3>3 DEF Stock
  <2>2. ASSUME ready' = ready, inflight' = inflight PROVE Stock' = Stock
    BY <2>2 DEF Stock, Entries
  <2>3. Stock' = Stock
    BY <2>1, <2>2 DEF Tick, Consume, ReturnCancelled, vars
  <2> QED
    BY <2>3 DEF StockNames
<1>3. \A k \in Messages : Untouched(k)
  BY <1>1, <1>2, RecordsStay DEF Untouched, HandNames, InHand, Quiet
<1>4. \A k \in Messages : StatusOf(k)' = StatusOf(k) /\ LeftOf(k)' = LeftOf(k)
  BY <1>3, UntouchedStays
<1>5. Status' = Status /\ Left' = Left /\ idOf' = idOf
  BY <1>1, <1>4 DEF Quiet
<1> HIDE DEF Status, Left
<1> QED
  BY <1>5 DEF WQ!queueVars, Status, Left

(* The broker, its parking, promotion and retries, is a work queue: every  *)
(* message is in one place, is handed to one consumer at a time, at most   *)
(* MaxAttempts times, and leaves acknowledged, dead or displaced by one    *)
(* published under the same ID.                                            *)
THEOREM BrokerIsAQueue == Spec => ImplementsWorkQueue
<1>1. Init => WQ!QueueInit
  <2> SUFFICES ASSUME Init PROVE WQ!QueueInit
    OBVIOUS
  <2>1. Published = {}
    <3>1. ToSet(<<>>) = {}
      BY DEF ToSet
    <3> QED
      BY <3>1 DEF Init, Published
  <2>2. \A m \in Messages : StatusOf(m) = "new" /\ LeftOf(m) = 0
    BY <2>1, InitIInv, StatusIs DEF Where, LeftOf
  <2> QED
    BY <2>2 DEF WQ!QueueInit
<1>2. IInv /\ IInv' /\ [Next]_vars => [WQ!QueueNext]_WQ!queueVars
  <2> SUFFICES ASSUME IInv, IInv', [Next]_vars PROVE [WQ!QueueNext]_WQ!queueVars
    OBVIOUS
  <2>1. ASSUME NEW q \in Queues, NEW m \in Messages, NEW n \in FirstAttempts[m], Publish(q, m, n)
        PROVE  WQ!QueueNext
    BY <2>1, PublishEnqueues DEF WQ!QueueNext
  <2>2. ASSUME NEW c \in Consumers, Take(c)
        PROVE  WQ!QueueNext
    BY <2>2, TakeDelivers DEF WQ!QueueNext
  <2>3. ASSUME NEW c \in Consumers, Settle(c)
        PROVE  WQ!QueueNext
    <3>1. CASE Ack(c)
      BY <3>1, AckSettles DEF WQ!QueueNext
    <3>2. ASSUME NEW o \in Outcomes(held[c]), Bury(c, o)
          PROVE  WQ!QueueNext
      BY <2>3, <3>2, BurySettles DEF WQ!QueueNext, Settle
    <3>3. ASSUME NEW o \in Outcomes(held[c]), Redeliver(c, o)
          PROVE  WQ!QueueNext
      BY <2>3, <3>3, RedeliverReturns DEF WQ!QueueNext, Settle
    <3> QED
      BY <2>3, <3>1, <3>2, <3>3 DEF Settle
  <2>4. CASE \/ Tick
             \/ \E c \in Consumers, q \in Queues : Consume(c, q)
             \/ \E c \in Consumers : ReturnEmpty(c) \/ ReturnCancelled(c)
             \/ UNCHANGED vars
    BY <2>4, OtherStepsKeepPlaces
  <2> QED
    BY <2>1, <2>2, <2>3, <2>4 DEF Next
<1> QED
  BY <1>1, <1>2, Invariance, PTL DEF Spec, ImplementsWorkQueue, WQ!QueueSpec
=============================================================================

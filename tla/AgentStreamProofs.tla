-------------------------- MODULE AgentStreamProofs --------------------------
(***************************************************************************)
(* Proofs about the agent streams of the frontend, for every number of     *)
(* submissions and messages: the reader of chunks shows every message that *)
(* was sent, whole, once and in order, whatever the chunks, and the hook   *)
(* shows the stream of its submission.                                     *)
(***************************************************************************)
EXTENDS AgentStream, FiniteSetTheorems, SequenceTheorems, TLAPS

(* The inductive invariant.                                                *)

\* The messages that were sent and not yet given to handleEvent.
Rest(s) == SubSeq(sent[s], Len(got[s]) + 1, Len(sent[s]))

\* Byte i of the encoding of q, and b is in that encoding, after its first k bytes.
ByteOf(q, i)     == Message(q[(i + 3) \div 4])[((i + 3) % 4) + 1]
Carries(b, q, k) == /\ k + Len(b) <= 4 * Len(q)
                    /\ \A i \in 1 .. Len(b) : b[i] = ByteOf(q, k + i)

\* Nothing is lost, and only the last message sent ends the stream.
Wired(s) ==
  /\ Len(got[s]) <= Len(sent[s]) /\ got[s] = SubSeq(sent[s], 1, Len(got[s]))
  /\ Len(buffer[s]) + Len(wire[s]) = 4 * Len(Rest(s))
  /\ Carries(buffer[s], Rest(s), 0) /\ Carries(wire[s], Rest(s), Len(buffer[s]))
  /\ \A i \in 1 .. Len(sent[s]) - 1 : ~IsEnd(sent[s][i])
  /\ closed[s] => HasEnded(s)
  /\ received[s] <=> Holds("complete", got[s])
  /\ stage[s] \in {"none", "token", "request"} => sent[s] = <<>>

\* While nothing is exposed, only the owner has something to write.
Owned ==
  /\ ctrl = owner
  /\ mounted => owner \notin aborted
  /\ owner # 0 => stage[owner] # "none"
  /\ \A s \in Submissions : s > submits => stage[s] = "none"
  /\ \A s \in Submissions : stage[s] \in {"request", "open"} => signal[s] # 0
  /\ ~exposed => \A s \in Submissions : s # owner => ~Running(s, aborted)

\* The status the events of q lead to.
HasEnd(q)  == q # <<>> /\ IsEnd(q[Len(q)])
Outcome(q) == IF HasEnd(q) THEN q[Len(q)] ELSE "streaming"

\* The hook's state is what the owner's stream has made of it.
Follows ==
  IF owner = 0 THEN status = "idle" /\ events = <<>> /\ ~error
  ELSE /\ events = Shown(got[owner])
       /\ stage[owner] \in {"request", "open"} => signal[owner] = owner
       /\ status = IF stage[owner] = "cut" THEN "error" ELSE Outcome(got[owner])
       /\ error <=> status = "error"

IInv == /\ TypeOK
        /\ \A s \in Submissions : Wired(s)
        /\ Owned
        /\ mounted /\ ~exposed => Follows


\* The rank counts up to the size of the set, and no two of its elements share one.
LEMMA RankOf ==
  ASSUME NEW m \in Nat, NEW T \in SUBSET (1 .. m)
  PROVE  /\ IsFiniteSet(T) /\ Cardinality(T) \in Nat
         /\ \A i \in T : Rank(T, i) \in 1 .. Cardinality(T)
         /\ \A i, j \in T : i < j => Rank(T, i) < Rank(T, j)
<1>1. IsFiniteSet(T) /\ Cardinality(T) \in Nat
  <2>1. IsFiniteSet(1 .. m)
    BY FS_Interval
  <2> QED BY <2>1, FS_Subset, FS_CardinalityType
<1>2. ASSUME NEW U \in SUBSET T
      PROVE  /\ IsFiniteSet(U) /\ Cardinality(U) \in Nat /\ Cardinality(U) <= Cardinality(T)
             /\ \A V \in SUBSET U : /\ Cardinality(V) \in Nat /\ Cardinality(V) <= Cardinality(U)
                                    /\ V # U => Cardinality(V) < Cardinality(U)
  <2>1. IsFiniteSet(U) /\ Cardinality(U) \in Nat /\ Cardinality(U) <= Cardinality(T)
    BY <1>1, FS_Subset, FS_CardinalityType
  <2>2. ASSUME NEW V \in SUBSET U
        PROVE  /\ Cardinality(V) \in Nat /\ Cardinality(V) <= Cardinality(U)
               /\ V # U => Cardinality(V) < Cardinality(U)
    <3>1. IsFiniteSet(V) /\ Cardinality(V) <= Cardinality(U) /\ (Cardinality(U) = Cardinality(V) => U = V)
      BY <2>1, FS_Subset
    <3>2. Cardinality(V) \in Nat
      BY <3>1, FS_CardinalityType
    <3> QED BY <3>1, <3>2, <2>1
  <2> QED BY <2>1, <2>2
<1>3. ASSUME NEW i \in T
      PROVE  Rank(T, i) \in 1 .. Cardinality(T)
  <2> DEFINE U == {j \in T : j <= i}
  <2>1. i \in U /\ U \in SUBSET T
    OBVIOUS
  <2>2. Cardinality(U) \in Nat /\ Cardinality(U) <= Cardinality(T)
    BY <2>1, <1>2
  <2>3. Cardinality({}) < Cardinality(U)
    BY <2>1, <1>2
  <2> QED BY <2>2, <2>3, <1>1, FS_EmptySet DEF Rank
<1>4. ASSUME NEW i \in T, NEW j \in T, i < j
      PROVE  Rank(T, i) < Rank(T, j)
  <2> DEFINE U == {k \in T : k <= i}
             W == {k \in T : k <= j}
  <2>0. i \in Int /\ j \in Int /\ \A k \in T : k \in Int
    OBVIOUS
  <2>a. \A k \in U : k \in W
    BY <1>4, <2>0
  <2>b. j \in W /\ j \notin U
    BY <1>4, <2>0
  <2>c. W \in SUBSET T
    OBVIOUS
  <2>1. U \in SUBSET W /\ W \in SUBSET T /\ j \in W /\ j \notin U
    BY <2>a, <2>b, <2>c
  <2>2. Cardinality(U) < Cardinality(W)
    BY <2>1, <1>2
  <2> QED BY <2>2 DEF Rank
<1> QED BY <1>1, <1>3, <1>4

\* The n-th smallest of a finite set of numbers exists, and rank is its inverse.
LEMMA NthOf ==
  ASSUME NEW m \in Nat, NEW T \in SUBSET (1 .. m)
  PROVE  /\ Cardinality(T) \in Nat
         /\ \A n \in 1 .. Cardinality(T) : Nth(T, n) \in T /\ Rank(T, Nth(T, n)) = n
         /\ \A i \in T : Rank(T, i) \in 1 .. Cardinality(T) /\ Nth(T, Rank(T, i)) = i
<1> DEFINE c == Cardinality(T)
           f == [i \in T |-> Rank(T, i)]
<1>1. c \in Nat /\ IsFiniteSet(T) /\ \A i \in T : Rank(T, i) \in 1 .. c
  BY RankOf
<1>2. \A i, j \in T : Rank(T, i) = Rank(T, j) => i = j
  <2> SUFFICES ASSUME NEW i \in T, NEW j \in T, i # j PROVE Rank(T, i) # Rank(T, j)
    OBVIOUS
  <2>1. i \in Nat /\ j \in Nat /\ (i < j \/ j < i)
    OBVIOUS
  <2>2. Rank(T, i) \in Nat /\ Rank(T, j) \in Nat
    BY <1>1
  <2>3. \A x, y \in T : x < y => Rank(T, x) < Rank(T, y)
    BY RankOf
  <2> QED BY <2>1, <2>2, <2>3
<1>3. f \in Injection(T, 1 .. c)
  BY <1>1, <1>2 DEF Injection, IsInjective
<1>4. IsFiniteSet(1 .. c) /\ Cardinality(1 .. c) = c
  BY <1>1, FS_Interval
<1>5. f \in Surjection(T, 1 .. c)
  BY <1>3, <1>4, FS_Injection
<1>6. \A n \in 1 .. c : \E i \in T : Rank(T, i) = n
  BY <1>5 DEF Surjection
<1>7. \A n \in 1 .. c : Nth(T, n) \in T /\ Rank(T, Nth(T, n)) = n
  BY <1>6 DEF Nth
<1>8. \A i \in T : Nth(T, Rank(T, i)) = i
  BY <1>1, <1>2, <1>7
<1> QED BY <1>1, <1>7, <1>8

\* What Picked returns: the entries at the given places, in their order, no others.
LEMMA PickedOf ==
  ASSUME NEW A, NEW s \in Seq(A), NEW T \in SUBSET (DOMAIN s)
  PROVE  /\ Picked(s, T) \in Seq({s[i] : i \in T}) /\ Picked(s, T) \in Seq(A)
         /\ Len(Picked(s, T)) = Cardinality(T) /\ Cardinality(T) \in Nat
         /\ \A n \in 1 .. Cardinality(T) :
              Nth(T, n) \in T /\ Picked(s, T)[n] = s[Nth(T, n)] /\ Rank(T, Nth(T, n)) = n
         /\ \A i \in T : /\ Rank(T, i) \in 1 .. Cardinality(T)
                         /\ Picked(s, T)[Rank(T, i)] = s[i]
<1>1. Len(s) \in Nat /\ T \in SUBSET (1 .. Len(s))
  OBVIOUS
<1>2. /\ Cardinality(T) \in Nat
      /\ \A n \in 1 .. Cardinality(T) : Nth(T, n) \in T /\ Rank(T, Nth(T, n)) = n
      /\ \A i \in T : Rank(T, i) \in 1 .. Cardinality(T) /\ Nth(T, Rank(T, i)) = i
  BY <1>1, NthOf
<1>3. \A n \in 1 .. Cardinality(T) : s[Nth(T, n)] \in {s[i] : i \in T} /\ s[Nth(T, n)] \in A
  BY <1>1, <1>2
<1> DEFINE r == Picked(s, T)
<1>4. r = [n \in 1 .. Cardinality(T) |-> s[Nth(T, n)]]
  BY DEF Picked
<1>5. Len(r) = Cardinality(T) /\ \A B : (\A n \in 1 .. Cardinality(T) : s[Nth(T, n)] \in B) => r \in Seq(B)
  <2> HIDE DEF r
  <2> QED BY <1>2, <1>4
<1>6. r \in Seq({s[i] : i \in T}) /\ r \in Seq(A)
  BY <1>3, <1>5
<1> QED BY <1>2, <1>4, <1>5, <1>6

\* The numbers of T, each k larger.
Shifted(k, T) == {k + j : j \in T}

\* Shifting a set of places keeps its size.
LEMMA ShiftedCount ==
  ASSUME NEW m \in Nat, NEW T \in SUBSET (1 .. m), NEW k \in Nat
  PROVE  IsFiniteSet(Shifted(k, T)) /\ Cardinality(Shifted(k, T)) = Cardinality(T)
<1> USE DEF Shifted
<1> DEFINE U == Shifted(k, T)
           f == [j \in T |-> k + j]
<1>1. f \in Bijection(T, U)
  <2>1. f \in [T -> U] /\ \A u \in U : \E j \in T : f[j] = u
    OBVIOUS
  <2>2. \A i, j \in T : f[i] = f[j] => i = j
    OBVIOUS
  <2> QED BY <2>1, <2>2 DEF Bijection, Injection, Surjection, IsInjective
<1>2. IsFiniteSet(T)
  BY RankOf
<1> QED BY <1>1, <1>2, FS_Bijection DEF ExistsBijection

\* r is p and then q.
Joined(r, p, q) == /\ Len(r) = Len(p) + Len(q)
                   /\ \A i \in 1 .. Len(p) : r[i] = p[i]
                   /\ \A j \in 1 .. Len(q) : r[Len(p) + j] = q[j]

\* Picking from a concatenation is picking from both parts.
LEMMA PickedJoined ==
  ASSUME NEW A, NEW p \in Seq(A), NEW q \in Seq(A), NEW r \in Seq(A), Joined(r, p, q),
         NEW S \in SUBSET (DOMAIN p), NEW T \in SUBSET (DOMAIN q)
  PROVE  Joined(Picked(r, S \cup Shifted(Len(p), T)), Picked(p, S), Picked(q, T))
<1> DEFINE V == Shifted(Len(p), T)
           U == S \cup V
           c == Cardinality(S)
           d == Cardinality(T)
<1> USE DEF Shifted
<1>1. /\ Len(p) \in Nat /\ Len(q) \in Nat /\ S \in SUBSET (1 .. Len(p)) /\ T \in SUBSET (1 .. Len(q))
      /\ U \in SUBSET (1 .. Len(p) + Len(q))
  OBVIOUS
<1>2. /\ IsFiniteSet(S) /\ IsFiniteSet(T) /\ IsFiniteSet(V) /\ c \in Nat /\ d \in Nat
      /\ Cardinality(V) = d
  BY <1>1, RankOf, ShiftedCount
<1>3. Cardinality(U) = c + d
  <2>1. S \cap V = {}
    BY <1>1
  <2>2. Cardinality(S \cap V) = 0
    BY <2>1, FS_EmptySet
  <2> HIDE DEF V, c, d
  <2>3. Cardinality(S \cup V) = Cardinality(S) + Cardinality(V) - Cardinality(S \cap V)
    BY <1>2, FS_Union
  <2> QED BY <1>2, <2>2, <2>3 DEF c
<1>4. ASSUME NEW i \in S
      PROVE  Rank(U, i) = Rank(S, i)
  <2>1. {j \in U : j <= i} = {j \in S : j <= i}
    BY <1>1
  <2> QED BY <2>1 DEF Rank
<1>5. ASSUME NEW i \in T
      PROVE  Rank(U, Len(p) + i) = c + Rank(T, i)
  <2> DEFINE W == {j \in T : j <= i}
             X == Shifted(Len(p), W)
  <2>1. {j \in U : j <= Len(p) + i} = S \cup X
    <3>1. ASSUME NEW j \in S PROVE j \in U /\ j <= Len(p) + i
      BY <1>1
    <3>2. ASSUME NEW j \in X PROVE j \in U /\ j <= Len(p) + i
      BY <1>1
    <3>3. ASSUME NEW j \in U, j <= Len(p) + i PROVE j \in S \cup X
      BY <1>1, <3>3
    <3> HIDE DEF X, U
    <3> QED BY <3>1, <3>2, <3>3
  <2>2. W \in SUBSET (1 .. Len(q)) /\ S \cap X = {}
    BY <1>1
  <2>3. IsFiniteSet(X) /\ Cardinality(X) = Cardinality(W) /\ Cardinality(W) \in Nat
    BY <2>2, <1>1, RankOf, ShiftedCount
  <2>4. Cardinality(S \cap X) = 0
    BY <2>2, FS_EmptySet
  <2>5. Cardinality(S \cup X) = c + Cardinality(W)
    <3> HIDE DEF X, W
    <3>1. Cardinality(S \cup X) = Cardinality(S) + Cardinality(X) - Cardinality(S \cap X)
      BY <1>2, <2>3, FS_Union
    <3> QED BY <1>2, <2>3, <2>4, <3>1
  <2> QED BY <2>1, <2>5 DEF Rank
<1>6. \A i \in U : Nth(U, Rank(U, i)) = i
  <2>1. Len(p) + Len(q) \in Nat
    BY <1>1
  <2> HIDE DEF U
  <2> QED BY <1>1, <2>1, NthOf
<1>7. /\ Picked(p, S) \in Seq(A) /\ Len(Picked(p, S)) = c
      /\ \A n \in 1 .. c : Nth(S, n) \in S /\ Picked(p, S)[n] = p[Nth(S, n)] /\ Rank(S, Nth(S, n)) = n
  BY PickedOf
<1>8. /\ Picked(q, T) \in Seq(A) /\ Len(Picked(q, T)) = d
      /\ \A n \in 1 .. d : Nth(T, n) \in T /\ Picked(q, T)[n] = q[Nth(T, n)] /\ Rank(T, Nth(T, n)) = n
  BY PickedOf
<1>9. /\ U \in SUBSET (DOMAIN r)
      /\ Len(Picked(r, U)) = c + d
      /\ \A n \in 1 .. c + d : Picked(r, U)[n] = r[Nth(U, n)]
  <2>1. DOMAIN r = 1 .. Len(p) + Len(q)
    BY LenProperties DEF Joined
  <2> HIDE DEF U, c, d
  <2>2. U \in SUBSET (DOMAIN r)
    BY <1>1, <2>1
  <2>3. /\ Len(Picked(r, U)) = Cardinality(U)
        /\ \A n \in 1 .. Cardinality(U) : Picked(r, U)[n] = r[Nth(U, n)]
    BY <2>2, PickedOf
  <2> QED BY <1>3, <2>2, <2>3
<1>10. ASSUME NEW n \in 1 .. c
       PROVE  Picked(r, U)[n] = Picked(p, S)[n]
  <2>1. Nth(S, n) \in S /\ Rank(S, Nth(S, n)) = n /\ Picked(p, S)[n] = p[Nth(S, n)]
    BY <1>7
  <2>2. Nth(U, n) = Nth(S, n)
    BY <2>1, <1>4, <1>6
  <2>3. r[Nth(S, n)] = p[Nth(S, n)]
    BY <2>1, <1>1 DEF Joined
  <2>4. n \in 1 .. c + d
    BY <1>2
  <2> HIDE DEF U, c, d
  <2> QED BY <2>1, <2>2, <2>3, <2>4, <1>9
<1>11. ASSUME NEW n \in 1 .. d
       PROVE  Picked(r, U)[c + n] = Picked(q, T)[n]
  <2>1. Nth(T, n) \in T /\ Rank(T, Nth(T, n)) = n /\ Picked(q, T)[n] = q[Nth(T, n)]
    BY <1>8
  <2>2. Rank(U, Len(p) + Nth(T, n)) = c + n /\ Len(p) + Nth(T, n) \in U
    BY <2>1, <1>5
  <2>3. Nth(U, c + n) = Len(p) + Nth(T, n)
    <3> HIDE DEF U, c
    <3> QED BY <2>2, <1>6
  <2>4. r[Len(p) + Nth(T, n)] = q[Nth(T, n)]
    BY <2>1, <1>1 DEF Joined
  <2>5. c + n \in 1 .. c + d
    BY <1>2
  <2> HIDE DEF U, c, d
  <2> QED BY <2>1, <2>3, <2>4, <2>5, <1>9
<1> HIDE DEF c, d
<1> QED BY <1>7, <1>8, <1>9, <1>10, <1>11 DEF Joined


\* Joined is concatenation, said entry by entry.
LEMMA JoinedIs ==
  ASSUME NEW A, NEW p \in Seq(A), NEW q \in Seq(A)
  PROVE  /\ p \o q \in Seq(A) /\ Joined(p \o q, p, q)
         /\ \A r \in Seq(A) : Joined(r, p, q) => r = p \o q
<1>1. /\ p \o q \in Seq(A) /\ Len(p \o q) = Len(p) + Len(q) /\ Len(p) \in Nat /\ Len(q) \in Nat
      /\ \A i \in 1 .. Len(p) + Len(q) : (p \o q)[i] = IF i <= Len(p) THEN p[i] ELSE q[i - Len(p)]
  BY ConcatProperties
<1>2. Joined(p \o q, p, q)
  BY <1>1 DEF Joined
<1>3. ASSUME NEW r \in Seq(A), Joined(r, p, q)
      PROVE  r = p \o q
  <2>1. \A i \in 1 .. Len(p) + Len(q) : i > Len(p) => i - Len(p) \in 1 .. Len(q) /\ i = Len(p) + (i - Len(p))
    BY <1>1
  <2>2. \A i \in 1 .. Len(r) : r[i] = (p \o q)[i]
    BY <1>1, <1>3, <2>1 DEF Joined
  <2>3. Len(r) = Len(p \o q)
    BY <1>1, <1>3 DEF Joined
  <2> QED BY <1>1, <2>2, <2>3, SeqEqual
<1> QED BY <1>1, <1>2, <1>3

\* The events the hook shows of a concatenation are those of its parts.
LEMMA ShownJoined ==
  ASSUME NEW p \in Seq(Kinds), NEW q \in Seq(Kinds), NEW r \in Seq(Kinds), Joined(r, p, q)
  PROVE  /\ Joined(Shown(r), Shown(p), Shown(q))
         /\ Shown(p) \in Seq(Kinds \ {"error"})
<1> DEFINE S == {i \in DOMAIN p : p[i] # "error"}
           T == {i \in DOMAIN q : q[i] # "error"}
           U == {i \in DOMAIN r : r[i] # "error"}
<1>1. /\ Len(p) \in Nat /\ Len(q) \in Nat /\ DOMAIN p = 1 .. Len(p) /\ DOMAIN q = 1 .. Len(q)
      /\ DOMAIN r = 1 .. Len(p) + Len(q)
      /\ \A i \in 1 .. Len(p) : r[i] = p[i]
      /\ \A j \in 1 .. Len(q) : r[Len(p) + j] = q[j]
  BY LenProperties DEF Joined
<1>2. U = S \cup Shifted(Len(p), T)
  <2> USE DEF Shifted
  <2>1. ASSUME NEW i \in U
        PROVE  i \in S \cup Shifted(Len(p), T)
    <3>1. i \in 1 .. Len(p) \/ (i - Len(p) \in 1 .. Len(q) /\ i = Len(p) + (i - Len(p)))
      BY <1>1
    <3>2. CASE i \in 1 .. Len(p)
      BY <3>2, <1>1
    <3>3. CASE i - Len(p) \in 1 .. Len(q) /\ i = Len(p) + (i - Len(p))
      <4>1. PICK j \in 1 .. Len(q) : i = Len(p) + j
        BY <3>3
      <4>2. j \in T
        BY <4>1, <1>1
      <4> HIDE DEF T, U, S
      <4> QED BY <4>1, <4>2
    <3> HIDE DEF T, U, S
    <3> QED BY <3>1, <3>2, <3>3
  <2>2. ASSUME NEW i \in S
        PROVE  i \in U
    BY <1>1
  <2>3. ASSUME NEW j \in T
        PROVE  Len(p) + j \in U
    BY <1>1
  <2> HIDE DEF U, S, T
  <2> QED BY <2>1, <2>2, <2>3
<1>3. S \in SUBSET (DOMAIN p) /\ T \in SUBSET (DOMAIN q)
  OBVIOUS
<1>4. Joined(Picked(r, S \cup Shifted(Len(p), T)), Picked(p, S), Picked(q, T))
  <2> HIDE DEF S, T
  <2> QED BY <1>3, PickedJoined
<1>5. Picked(p, S) \in Seq({p[i] : i \in S})
  <2> HIDE DEF S
  <2> QED BY <1>3, PickedOf
<1>6. {p[i] : i \in S} \subseteq Kinds \ {"error"}
  BY <1>1
<1>7. Picked(p, S) \in Seq(Kinds \ {"error"})
  <2> HIDE DEF S
  <2> QED BY <1>5, <1>6, SeqMonotonic
<1> QED BY <1>2, <1>4, <1>7 DEF Shown

\* handleEvent applied to two batches shows what it shows of both in one.
LEMMA ShownConcat ==
  ASSUME NEW p \in Seq(Kinds), NEW q \in Seq(Kinds)
  PROVE  Shown(p \o q) = Shown(p) \o Shown(q)
<1> DEFINE r == p \o q
<1>1. r \in Seq(Kinds) /\ Joined(r, p, q)
  BY JoinedIs
<1> HIDE DEF r
<1>2. /\ Joined(Shown(r), Shown(p), Shown(q))
      /\ Shown(r) \in Seq(Kinds) /\ Shown(p) \in Seq(Kinds) /\ Shown(q) \in Seq(Kinds)
  <2>1. Joined(Shown(r), Shown(p), Shown(q))
    BY <1>1, ShownJoined
  <2>2. \A x \in Seq(Kinds) : Joined(x, x, <<>>)
    BY EmptySeq DEF Joined
  <2>3. \A x \in Seq(Kinds) : Shown(x) \in Seq(Kinds)
    BY <2>2, EmptySeq, ShownJoined, SeqMonotonic
  <2> QED BY <1>1, <2>1, <2>3
<1>3. Shown(r) = Shown(p) \o Shown(q)
  BY <1>2, JoinedIs
<1> QED BY <1>3 DEF r

\* No event shows nothing.
LEMMA NothingShown == Shown(<<>>) = <<>>
<1>1. Picked(<<>>, {}) = <<>>
  BY FS_EmptySet DEF Picked
<1> QED BY <1>1 DEF Shown

\* Of events of which only the last may end the stream, it alone can change the status.
LEMMA StatusOf ==
  ASSUME NEW es \in Seq(Kinds), \A i \in 1 .. Len(es) - 1 : ~IsEnd(es[i])
  PROVE  StatusAfter(es) = IF es # <<>> /\ IsEnd(es[Len(es)]) THEN es[Len(es)] ELSE status
<1> DEFINE T == {i \in DOMAIN es : IsEnd(es[i])}
           ends == Picked(es, T)
<1>1. Len(es) \in Nat /\ DOMAIN es = 1 .. Len(es) /\ T \in SUBSET (DOMAIN es)
      /\ (es # <<>> => Len(es) \in 1 .. Len(es)) /\ (es = <<>> => Len(es) = 0)
  OBVIOUS
<1>2. \A i \in T : i = Len(es)
  <2>1. \A n \in Nat : \A i \in 1 .. n : i = n \/ i \in 1 .. n - 1
    OBVIOUS
  <2> QED BY <2>1, <1>1
<1>3. CASE es # <<>> /\ IsEnd(es[Len(es)])
  <2>1. T = {Len(es)} /\ Cardinality(T) = 1
    <3>1. Len(es) \in T
      BY <1>1, <1>3
    <3>2. T = {Len(es)}
      BY <3>1, <1>2
    <3> QED BY <3>2, FS_Singleton
  <2>2. Len(ends) = 1 /\ ends \in Seq(Kinds) /\ ends[1] = es[Nth(T, 1)] /\ Nth(T, 1) \in T
    <3>1. ends \in Seq(Kinds) /\ Len(ends) = Cardinality(T)
          /\ \A n \in 1 .. Cardinality(T) : Nth(T, n) \in T /\ ends[n] = es[Nth(T, n)]
      <4> HIDE DEF T
      <4> QED BY <1>1, PickedOf
    <3>2. 1 \in 1 .. Cardinality(T)
      BY <2>1
    <3> QED BY <2>1, <3>1, <3>2
  <2>3. ends # <<>> /\ ends[Len(ends)] = es[Len(es)]
    <3>1. Nth(T, 1) = Len(es)
      BY <2>1, <2>2
    <3>2. ends # <<>>
      BY <2>2, EmptySeq
    <3> QED BY <3>1, <3>2, <2>2
  <2> QED BY <2>3, <1>3 DEF StatusAfter
<1>4. CASE ~(es # <<>> /\ IsEnd(es[Len(es)]))
  <2>1. T = {}
    BY <1>1, <1>2, <1>4
  <2>2. ends = <<>>
    <3>1. Cardinality(T) = 0
      BY <2>1, FS_EmptySet
    <3>2. \A f : Picked(f, T) = <<>>
      <4> HIDE DEF T
      <4> QED BY <3>1 DEF Picked
    <3> QED BY <3>2
  <2> QED BY <2>2, <1>4 DEF StatusAfter
<1> QED BY <1>3, <1>4

\* A concatenation holds an event when one of its parts does.
LEMMA HoldsConcat ==
  ASSUME NEW p \in Seq(Kinds), NEW q \in Seq(Kinds), NEW m
  PROVE  Holds(m, p \o q) <=> Holds(m, p) \/ Holds(m, q)
<1>1. /\ Len(p) \in Nat /\ Len(q) \in Nat /\ Len(p \o q) = Len(p) + Len(q)
      /\ \A i \in 1 .. Len(p) : (p \o q)[i] = p[i]
      /\ \A j \in 1 .. Len(q) : (p \o q)[Len(p) + j] = q[j]
  OBVIOUS
<1>2. ASSUME NEW i \in 1 .. Len(p) + Len(q)
      PROVE  i \in 1 .. Len(p) \/ \E j \in 1 .. Len(q) : i = Len(p) + j
  <2>1. i \in 1 .. Len(p) \/ (i - Len(p) \in 1 .. Len(q) /\ i = Len(p) + (i - Len(p)))
    BY <1>1
  <2> QED BY <2>1
<1>3. ASSUME Holds(m, p \o q)
      PROVE  Holds(m, p) \/ Holds(m, q)
  BY <1>1, <1>2, <1>3 DEF Holds
<1>4. ASSUME Holds(m, p)
      PROVE  Holds(m, p \o q)
  <2>1. \A i \in 1 .. Len(p) : i \in 1 .. Len(p \o q)
    BY <1>1
  <2> QED BY <1>1, <2>1, <1>4 DEF Holds
<1>5. ASSUME Holds(m, q)
      PROVE  Holds(m, p \o q)
  <2>1. \A j \in 1 .. Len(q) : Len(p) + j \in 1 .. Len(p \o q)
    BY <1>1
  <2> QED BY <1>1, <2>1, <1>5 DEF Holds
<1> QED BY <1>3, <1>4, <1>5


\* The bytes of an encoded stream: four for each message, the last two newlines.
LEMMA ByteIs ==
  ASSUME NEW q \in Seq(Kinds), NEW i \in 1 .. 4 * Len(q)
  PROVE  /\ (i + 3) \div 4 \in 1 .. Len(q) /\ q[(i + 3) \div 4] \in Kinds
         /\ i % 4 = 1 => ByteOf(q, i) = <<q[(i + 3) \div 4], 1>>
         /\ i % 4 = 2 => ByteOf(q, i) = <<q[(i + 3) \div 4], 2>>
         /\ i % 4 \in {0, 3} => ByteOf(q, i) = NL
         /\ ByteOf(q, i) \in Byte
<1>1. (i + 3) \div 4 \in 1 .. Len(q) /\ q[(i + 3) \div 4] \in Kinds
  OBVIOUS
<1> DEFINE m == q[(i + 3) \div 4]
<1>2. ByteOf(q, i) = Message(m)[((i + 3) % 4) + 1]
  BY DEF ByteOf
<1>3. Message(m)[1] = <<m, 1>> /\ Message(m)[2] = <<m, 2>> /\ Message(m)[3] = NL /\ Message(m)[4] = NL
  BY DEF Message
<1>4. i % 4 = 1 => ((i + 3) % 4) + 1 = 1
  OBVIOUS
<1>5. i % 4 = 2 => ((i + 3) % 4) + 1 = 2
  OBVIOUS
<1>6. (i % 4 = 3 => ((i + 3) % 4) + 1 = 3) /\ (i % 4 = 0 => ((i + 3) % 4) + 1 = 4)
  OBVIOUS
<1>7. i % 4 \in {0, 1, 2, 3}
  OBVIOUS
<1>8. /\ i % 4 = 1 => ByteOf(q, i) = <<m, 1>>
      /\ i % 4 = 2 => ByteOf(q, i) = <<m, 2>>
      /\ i % 4 \in {0, 3} => ByteOf(q, i) = NL
  <2> HIDE DEF m
  <2> QED BY <1>2, <1>3, <1>4, <1>5, <1>6
<1>9. m \in Kinds => <<m, 1>> \in Byte /\ <<m, 2>> \in Byte /\ NL \in Byte
  BY DEF Byte
<1> QED BY <1>1, <1>7, <1>8, <1>9

\* The encoding of what follows the first k messages.
LEMMA ByteAfter ==
  ASSUME NEW q \in Seq(Kinds), NEW k \in 0 .. Len(q), NEW i \in 1 .. 4 * (Len(q) - k)
  PROVE  ByteOf(SubSeq(q, k + 1, Len(q)), i) = ByteOf(q, 4 * k + i)
<1>1. (4 * k + i + 3) \div 4 = k + (i + 3) \div 4 /\ (4 * k + i + 3) % 4 = (i + 3) % 4
  OBVIOUS
<1>2. (i + 3) \div 4 \in 1 .. Len(q) - k
  OBVIOUS
<1>3. SubSeq(q, k + 1, Len(q))[(i + 3) \div 4] = q[k + (i + 3) \div 4]
  BY <1>2, SubSeqProperties
<1> QED BY <1>1, <1>3 DEF ByteOf

\* A message that is sent adds its bytes after those under way.
LEMMA ByteAppended ==
  ASSUME NEW q \in Seq(Kinds), NEW m \in Kinds, NEW i \in 1 .. 4 * Len(q) + 4
  PROVE  ByteOf(Append(q, m), i) = IF i <= 4 * Len(q) THEN ByteOf(q, i)
                                   ELSE Message(m)[i - 4 * Len(q)]
<1>1. CASE i <= 4 * Len(q)
  <2>1. (i + 3) \div 4 \in 1 .. Len(q)
    BY <1>1
  <2>2. Append(q, m)[(i + 3) \div 4] = q[(i + 3) \div 4]
    BY <2>1, AppendProperties
  <2> QED BY <1>1, <2>2 DEF ByteOf
<1>2. CASE i > 4 * Len(q)
  <2>1. (i + 3) \div 4 = Len(q) + 1 /\ ((i + 3) % 4) + 1 = i - 4 * Len(q)
    BY <1>2
  <2>2. Append(q, m)[Len(q) + 1] = m
    BY AppendProperties
  <2> QED BY <1>2, <2>1, <2>2 DEF ByteOf
<1> QED BY <1>1, <1>2

\* What a read makes of the beginning b of the encoding of q: its complete
\* messages are shown, and what is left is too short to be one.
LEMMA BoundaryOf ==
  ASSUME NEW q \in Seq(Kinds), NEW b \in Seq(Byte), Carries(b, q, 0)
  PROVE  /\ Boundaries(b) = {k \in 2 .. Len(b) : k % 4 = 0}
         /\ LastBoundary(b) = 4 * (Len(b) \div 4)
<1>1. Len(b) \in Nat /\ \A i \in 1 .. Len(b) : i \in 1 .. 4 * Len(q) /\ b[i] = ByteOf(q, i)
  <2>1. \A i \in 1 .. Len(b) : 0 + i = i
    OBVIOUS
  <2> QED BY <2>1 DEF Carries
<1>2. \A i \in 1 .. Len(b) : /\ i % 4 \in {1, 2} => b[i] # NL
                             /\ i % 4 \in {0, 3} => b[i] = NL
  <2> SUFFICES ASSUME NEW i \in 1 .. Len(b)
               PROVE  (i % 4 \in {1, 2} => b[i] # NL) /\ (i % 4 \in {0, 3} => b[i] = NL)
    OBVIOUS
  <2>1. \A m, n : <<m, 1>> # <<n, 0>> /\ <<m, 2>> # <<n, 0>>
    OBVIOUS
  <2> QED BY <1>1, <2>1, ByteIs DEF NL
<1>3. ASSUME NEW k \in 2 .. Len(b)
      PROVE  (b[k] = NL /\ b[k - 1] = NL) <=> k % 4 = 0
  <2>1. k \in 1 .. Len(b) /\ k - 1 \in 1 .. Len(b) /\ k % 4 \in {0, 1, 2, 3}
    BY <1>1
  <2>2. (k % 4 = 0 => (k - 1) % 4 = 3) /\ (k % 4 = 3 => (k - 1) % 4 = 2)
    OBVIOUS
  <2> QED BY <1>2, <2>1, <2>2
<1>4. Boundaries(b) = {k \in 2 .. Len(b) : k % 4 = 0}
  BY <1>3 DEF Boundaries
<1>5. CASE Len(b) < 4
  <2>1. Len(b) \div 4 = 0 /\ \A k \in 2 .. Len(b) : k % 4 # 0
    BY <1>1, <1>5
  <2> QED BY <1>4, <2>1 DEF LastBoundary
<1>6. CASE Len(b) >= 4
  <2> DEFINE l == 4 * (Len(b) \div 4)
  <2>1. l \in Boundaries(b) /\ \A j \in Boundaries(b) : j <= l
    <3>1. Len(b) \div 4 \in Nat /\ Len(b) \div 4 >= 1 /\ l <= Len(b)
      BY <1>1, <1>6
    <3>2. l \in 2 .. Len(b) /\ l % 4 = 0
      BY <3>1, <1>1
    <3>3. \A j \in 2 .. Len(b) : j % 4 = 0 => j <= l
      BY <1>1
    <3> HIDE DEF l
    <3> QED BY <3>2, <3>3, <1>4
  <2>2. \A k \in Boundaries(b) : (\A j \in Boundaries(b) : j <= k) => k = l
    BY <2>1, <1>1, <1>4
  <2> QED BY <1>4, <2>1, <2>2 DEF LastBoundary
<1> QED BY <1>1, <1>4, <1>5, <1>6

\* Where the first n messages begin.
FirstBytes(n) == {4 * j - 3 : j \in 1 .. n}

\* From k whole messages processSSELine reads exactly those k, in order.
LEMMA LinesOf ==
  ASSUME NEW q \in Seq(Kinds), NEW b \in Seq(Byte), Carries(b, q, 0),
         NEW k \in Nat, Len(b) = 4 * k
  PROVE  processSSELines(b) = SubSeq(q, 1, k)
<1> DEFINE at == {i \in DOMAIN b : WholeLine(b, i)}
<1>1. /\ Len(q) \in Nat /\ k <= Len(q) /\ DOMAIN b = 1 .. 4 * k
      /\ \A i \in 1 .. 4 * k : i \in 1 .. 4 * Len(q) /\ b[i] = ByteOf(q, i)
  <2>1. \A i \in 1 .. Len(b) : 0 + i = i
    OBVIOUS
  <2> QED BY <2>1 DEF Carries
<1>2. ASSUME NEW i \in 1 .. 4 * k
      PROVE  WholeLine(b, i) <=> i % 4 = 1
  <2>1. CASE i % 4 = 1
    <3>1. /\ i + 1 \in 1 .. 4 * k /\ (i + 1) % 4 = 2 /\ (i + 4) \div 4 = (i + 3) \div 4
          /\ i + 2 \in 1 .. 4 * k /\ (i + 2) % 4 = 3
          /\ i # 1 => i - 1 \in 1 .. 4 * k /\ (i - 1) % 4 = 0
      BY <1>1, <2>1
    <3>2. b[i] = <<q[(i + 3) \div 4], 1>> /\ b[i + 1] = <<q[(i + 3) \div 4], 2>>
      <4>1. i + 1 + 3 = i + 4
        OBVIOUS
      <4> QED BY <1>1, <2>1, <3>1, <4>1, ByteIs
    <3>3. b[i + 2] = NL /\ (i # 1 => b[i - 1] = NL)
      BY <1>1, <3>1, ByteIs
    <3> QED BY <2>1, <3>1, <3>2, <3>3, <1>1 DEF WholeLine, NL
  <2>2. CASE i % 4 = 2
    <3>1. b[i] = <<q[(i + 3) \div 4], 2>>
      BY <1>1, <2>2, ByteIs
    <3> QED BY <2>2, <3>1 DEF WholeLine
  <2>3. CASE i % 4 \in {0, 3}
    <3>1. b[i] = NL
      BY <1>1, <2>3, ByteIs
    <3> QED BY <2>3, <3>1 DEF WholeLine
  <2>4. i % 4 \in {0, 1, 2, 3}
    OBVIOUS
  <2> QED BY <2>1, <2>2, <2>3, <2>4
<1>3. at = FirstBytes(k)
  <2> USE DEF FirstBytes
  <2>1. at = {i \in 1 .. 4 * k : i % 4 = 1}
    BY <1>1, <1>2
  <2>2. ASSUME NEW i \in 1 .. 4 * k, i % 4 = 1
        PROVE  i \in FirstBytes(k)
    <3>1. (i + 3) \div 4 \in 1 .. k /\ i = 4 * ((i + 3) \div 4) - 3
      BY <2>2
    <3> QED BY <3>1
  <2>3. ASSUME NEW j \in 1 .. k
        PROVE  4 * j - 3 \in 1 .. 4 * k /\ (4 * j - 3) % 4 = 1
    OBVIOUS
  <2> HIDE DEF at
  <2> QED BY <2>1, <2>2, <2>3
<1>4. at \in SUBSET (DOMAIN b) /\ at \in SUBSET (1 .. 4 * k)
  BY <1>1
<1>5. ASSUME NEW n \in 0 .. k
      PROVE  Cardinality(FirstBytes(n)) = n
  <2> USE DEF FirstBytes
  <2> DEFINE f == [j \in 1 .. n |-> 4 * j - 3]
  <2>1. f \in Bijection(1 .. n, FirstBytes(n))
    <3>1. \A i, j \in 1 .. n : f[i] = f[j] => i = j
      OBVIOUS
    <3> QED BY <3>1 DEF Bijection, Injection, Surjection, IsInjective
  <2>2. n \in Nat
    OBVIOUS
  <2> QED BY <2>1, <2>2, FS_CountingElements DEF ExistsBijection
<1>6. ASSUME NEW n \in 1 .. k
      PROVE  4 * n - 3 \in at /\ Rank(at, 4 * n - 3) = n
  <2>1. {i \in FirstBytes(k) : i <= 4 * n - 3} = FirstBytes(n)
    <3> USE DEF FirstBytes
    <3>1. \A j \in 1 .. k : 4 * j - 3 <= 4 * n - 3 <=> j \in 1 .. n
      OBVIOUS
    <3>2. \A j \in 1 .. n : j \in 1 .. k
      OBVIOUS
    <3> QED BY <3>1, <3>2
  <2>2. 4 * n - 3 \in FirstBytes(k)
    BY DEF FirstBytes
  <2>3. n \in 0 .. k
    BY <1>1
  <2> HIDE DEF at
  <2> QED BY <2>1, <2>2, <2>3, <1>3, <1>5 DEF Rank
<1>7. Cardinality(at) = k
  <2>1. k \in 0 .. k
    OBVIOUS
  <2> HIDE DEF at
  <2> QED BY <2>1, <1>3, <1>5
<1> DEFINE lines == Picked(b, at)
<1>8. ASSUME NEW n \in 1 .. k
      PROVE  lines[n][1] = q[n]
  <2>1. lines[n] = b[4 * n - 3]
    <3> HIDE DEF at
    <3>1. 4 * n - 3 \in at /\ Rank(at, 4 * n - 3) = n
      BY <1>6
    <3>2. \A i \in at : Picked(b, at)[Rank(at, i)] = b[i]
      BY <1>4, PickedOf
    <3> QED BY <3>1, <3>2
  <2>2. 4 * n - 3 \in 1 .. 4 * k /\ (4 * n - 3) % 4 = 1 /\ (4 * n - 3 + 3) \div 4 = n
    OBVIOUS
  <2>3. b[4 * n - 3] = <<q[n], 1>>
    BY <1>1, <2>2, ByteIs
  <2> QED BY <2>1, <2>3
<1>9. DOMAIN lines = 1 .. k
  BY <1>7 DEF Picked
<1>10. processSSELines(b) = [n \in 1 .. k |-> lines[n][1]]
  BY <1>9 DEF processSSELines
<1>11. SubSeq(q, 1, k) = [n \in 1 .. k |-> q[n]]
  BY <1>1
<1> HIDE DEF lines
<1> QED BY <1>8, <1>10, <1>11

\* h is the first k elements of s, and t is the others.
Cuts(s, k, h, t) == /\ h = SubSeq(s, 1, k) /\ Len(h) = k
                    /\ \A i \in 1 .. k : h[i] = s[i]
                    /\ t = SubSeq(s, k + 1, Len(s)) /\ Len(t) = Len(s) - k
                    /\ \A i \in 1 .. Len(s) - k : t[i] = s[k + i]

\* Every sequence can be cut at every place.
LEMMA CutOf ==
  ASSUME NEW A, NEW s \in Seq(A), NEW k \in 0 .. Len(s)
  PROVE  \E h, t \in Seq(A) : Cuts(s, k, h, t)
<1>1. /\ SubSeq(s, 1, k) \in Seq(A) /\ Len(SubSeq(s, 1, k)) = k
      /\ \A i \in 1 .. k : SubSeq(s, 1, k)[i] = s[i]
  OBVIOUS
<1>2. /\ SubSeq(s, k + 1, Len(s)) \in Seq(A) /\ Len(SubSeq(s, k + 1, Len(s))) = Len(s) - k
      /\ \A i \in 1 .. Len(s) - k : SubSeq(s, k + 1, Len(s))[i] = s[k + i]
  OBVIOUS
<1> WITNESS SubSeq(s, 1, k) \in Seq(A), SubSeq(s, k + 1, Len(s)) \in Seq(A)
<1> QED BY <1>1, <1>2 DEF Cuts

\* The lengths of a read: lq messages are encoded in the lb bytes of the buffer and
\* the lw bytes under way, of which n arrive; k messages are complete then.
Lengths(lq, lb, lw, n, k) ==
  /\ k \in 0 .. lq /\ n \in 0 .. lw /\ 4 * k \in 0 .. lb + n
  /\ \A i \in 1 .. 4 * k : i \in 1 .. lb + n
  /\ (lb + n) - 4 * k \in 0 .. 3 /\ ((lb + n) - 4 * k) \div 4 = 0
  /\ ((lb + n) - 4 * k) + (lw - n) = 4 * (lq - k)
  /\ \A i \in 1 .. lb + n : i \in 1 .. lb \/ \E j \in 1 .. n : i = lb + j
  /\ \A i \in 1 .. (lb + n) - 4 * k : i \in 1 .. 4 * (lq - k) /\ 4 * k + i \in 1 .. lb + n
  /\ \A i \in 1 .. lw - n : /\ n + i \in 1 .. lw
                            /\ ((lb + n) - 4 * k) + i \in 1 .. 4 * (lq - k)
                            /\ 4 * k + (((lb + n) - 4 * k) + i) = lb + (n + i)

\* The arithmetic of a read.
LEMMA ReadLengths ==
  ASSUME NEW lq \in Nat, NEW lb \in Nat, NEW lw \in Nat, NEW n \in 1 .. lw, lb + lw = 4 * lq,
         NEW k \in Nat, k = (lb + n) \div 4
  PROVE  Lengths(lq, lb, lw, n, k)
<1>1. lb + n \in Nat /\ lb + n <= 4 * lq
  OBVIOUS
<1>2. 4 * k <= lb + n /\ (lb + n) - 4 * k < 4
  BY <1>1
<1>3. k \in 0 .. lq /\ (lb + n) - 4 * k \in 0 .. 3 /\ 4 * k \in 0 .. lb + n
  BY <1>1, <1>2
<1>4. ((lb + n) - 4 * k) \div 4 = 0
  <2>1. \A l \in 0 .. 3 : l \div 4 = 0
    OBVIOUS
  <2> QED BY <1>3, <2>1
<1>5. ASSUME NEW i \in 1 .. lb + n, i \notin 1 .. lb
      PROVE  \E j \in 1 .. n : i = lb + j
  <2>1. i - lb \in 1 .. n /\ i = lb + (i - lb)
    BY <1>5
  <2> QED BY <2>1
<1>6. \A i \in 1 .. 4 * k : i \in 1 .. lb + n
  BY <1>3
<1>7. \A i \in 1 .. (lb + n) - 4 * k : i \in 1 .. 4 * (lq - k) /\ 4 * k + i \in 1 .. lb + n
  BY <1>1, <1>3
<1>8. \A i \in 1 .. lw - n : /\ n + i \in 1 .. lw
                             /\ ((lb + n) - 4 * k) + i \in 1 .. 4 * (lq - k)
                             /\ 4 * k + (((lb + n) - 4 * k) + i) = lb + (n + i)
  BY <1>1, <1>3
<1>9. ((lb + n) - 4 * k) + (lw - n) = 4 * (lq - k) /\ n \in 0 .. lw
  BY <1>1
<1> QED BY <1>3, <1>4, <1>5, <1>6, <1>7, <1>8, <1>9 DEF Lengths

\* A read of any n bytes: the whole messages it completes, and what stays in the buffer.
LEMMA ReadOf ==
  ASSUME NEW q \in Seq(Kinds), NEW b \in Seq(Byte), NEW w \in Seq(Byte), NEW n \in 1 .. Len(w),
         Len(b) + Len(w) = 4 * Len(q), Carries(b, q, 0), Carries(w, q, Len(b)),
         NEW u \in Seq(Byte), NEW v \in Seq(Byte), Cuts(w, n, u, v),
         NEW c \in Seq(Byte), Joined(c, b, u), NEW k \in Nat, k = Len(c) \div 4
  PROVE  /\ k \in 0 .. Len(q)
         /\ processSSELines(Complete(c)) = SubSeq(q, 1, k)
         /\ Pop(c) \in Seq(Byte) /\ Len(Pop(c)) < 4 /\ LastBoundary(Pop(c)) = 0
         /\ \A h, p \in Seq(Kinds) : Cuts(q, k, h, p) =>
              /\ Len(Pop(c)) + Len(v) = 4 * Len(p)
              /\ Carries(Pop(c), p, 0) /\ Carries(v, p, Len(Pop(c)))
<1> DEFINE lq == Len(q)
           lb == Len(b)
           lw == Len(w)
<1>1. lq \in Nat /\ lb \in Nat /\ lw \in Nat /\ n \in 1 .. lw /\ lb + lw = 4 * lq
  OBVIOUS
<1>2. /\ \A i \in 1 .. lb : b[i] = ByteOf(q, i)
      /\ \A i \in 1 .. lw : w[i] = ByteOf(q, lb + i)
  <2>1. \A i \in 1 .. lb : 0 + i = i
    OBVIOUS
  <2> QED BY <2>1 DEF Carries
<1>3. /\ Len(u) = n /\ \A i \in 1 .. n : u[i] = w[i]
      /\ Len(v) = lw - n /\ \A i \in 1 .. lw - n : v[i] = w[n + i]
  BY DEF Cuts
<1>4. /\ Len(c) = lb + n /\ \A i \in 1 .. lb : c[i] = b[i]
      /\ \A j \in 1 .. n : c[lb + j] = w[j]
  BY <1>3 DEF Joined
<1>5. k = (lb + n) \div 4
  BY <1>4
<1> HIDE DEF lq, lb, lw
<1>6. Lengths(lq, lb, lw, n, k)
  BY <1>1, <1>5, ReadLengths
<1>7. \A i \in 1 .. lb + n : c[i] = ByteOf(q, i)
  <2>1. ASSUME NEW j \in 1 .. n
        PROVE  c[lb + j] = ByteOf(q, lb + j)
    <3>1. j \in 1 .. lw
      BY <1>1
    <3> QED BY <3>1, <1>2, <1>4
  <2> QED BY <2>1, <1>2, <1>4, <1>6 DEF Lengths
<1>8. Carries(c, q, 0)
  <2>1. \A i \in 1 .. lb + n : 0 + i = i
    BY <1>1
  <2>2. 0 + Len(c) <= 4 * Len(q)
    BY <1>1, <1>4 DEF lq
  <2> QED BY <2>1, <2>2, <1>4, <1>7 DEF Carries
<1>9. LastBoundary(c) = 4 * k
  BY <1>8, BoundaryOf
<1>10. PICK d, e \in Seq(Byte) : Cuts(c, 4 * k, d, e)
  <2>1. 4 * k \in 0 .. Len(c)
    BY <1>4, <1>6 DEF Lengths
  <2> QED BY <2>1, CutOf
<1>11. Complete(c) = d /\ Pop(c) = e
  BY <1>9, <1>10 DEF Complete, Pop, Cuts
<1>12. Len(d) = 4 * k /\ \A i \in 1 .. 4 * k : d[i] = c[i]
  BY <1>10 DEF Cuts
<1>13. Len(e) = (lb + n) - 4 * k /\ \A i \in 1 .. (lb + n) - 4 * k : e[i] = c[4 * k + i]
  BY <1>4, <1>10 DEF Cuts
<1>14. processSSELines(d) = SubSeq(q, 1, k)
  <2>1. \A i \in 1 .. 4 * k : d[i] = ByteOf(q, 0 + i)
    <3>1. \A i \in 1 .. 4 * k : 0 + i = i /\ i \in 1 .. lb + n
      BY <1>6 DEF Lengths
    <3> QED BY <3>1, <1>7, <1>12
  <2>2. 0 + Len(d) <= 4 * Len(q)
    BY <1>1, <1>6, <1>12 DEF lq, Lengths
  <2>3. Carries(d, q, 0)
    BY <2>1, <2>2, <1>12 DEF Carries
  <2> QED BY <2>3, <1>12, LinesOf
<1>15. ASSUME NEW h \in Seq(Kinds), NEW p \in Seq(Kinds), Cuts(q, k, h, p)
       PROVE  Len(e) + Len(v) = 4 * Len(p) /\ Carries(e, p, 0) /\ Carries(v, p, Len(e))
  <2>1. p = SubSeq(q, k + 1, Len(q)) /\ Len(p) = lq - k
    BY <1>15 DEF Cuts, lq
  <2>2. \A i \in 1 .. 4 * (lq - k) : ByteOf(p, i) = ByteOf(q, 4 * k + i)
    BY <2>1, <1>6, ByteAfter DEF lq, Lengths
  <2>3. Len(e) + Len(v) = 4 * Len(p)
    BY <2>1, <1>3, <1>6, <1>13 DEF Lengths
  <2>4. 0 + Len(e) <= 4 * Len(p)
    BY <2>3, <1>1, <1>3, <1>6, <1>13 DEF Lengths
  <2>5. \A i \in 1 .. (lb + n) - 4 * k : e[i] = ByteOf(p, 0 + i)
    <3>1. \A i \in 1 .. (lb + n) - 4 * k : /\ 0 + i = i /\ i \in 1 .. 4 * (lq - k)
                                         /\ 4 * k + i \in 1 .. lb + n
      BY <1>6 DEF Lengths
    <3> QED BY <3>1, <2>2, <1>7, <1>13
  <2>6. Carries(e, p, 0)
    BY <2>4, <2>5, <1>13 DEF Carries
  <2>7. ASSUME NEW i \in 1 .. lw - n
        PROVE  v[i] = ByteOf(p, ((lb + n) - 4 * k) + i)
    <3>1. /\ n + i \in 1 .. lw /\ ((lb + n) - 4 * k) + i \in 1 .. 4 * (lq - k)
          /\ 4 * k + (((lb + n) - 4 * k) + i) = lb + (n + i)
      BY <1>6 DEF Lengths
    <3>2. ByteOf(p, ((lb + n) - 4 * k) + i) = ByteOf(q, lb + (n + i))
      BY <3>1, <2>2
    <3>3. v[i] = w[n + i] /\ w[n + i] = ByteOf(q, lb + (n + i))
      BY <3>1, <1>2, <1>3
    <3> QED BY <3>2, <3>3
  <2>8. Len(e) + Len(v) <= 4 * Len(p)
    BY <2>3
  <2>9. Carries(v, p, Len(e))
    BY <2>7, <2>8, <1>3, <1>13 DEF Carries
  <2> QED BY <2>3, <2>6, <2>9
<1>16. LastBoundary(e) = 0 /\ Len(e) < 4 /\ k \in 0 .. Len(q)
  <2>1. k \in 0 .. Len(q) /\ Len(e) \in 0 .. 3 /\ Len(e) \div 4 = 0
    BY <1>6, <1>13 DEF lq, Lengths
  <2>2. \E h, p \in Seq(Kinds) : Cuts(q, k, h, p)
    BY <2>1, CutOf
  <2>3. LastBoundary(e) = 4 * (Len(e) \div 4)
    BY <2>2, <1>15, BoundaryOf
  <2> QED BY <2>1, <2>3
<1> QED BY <1>11, <1>14, <1>15, <1>16

-----------------------------------------------------------------------------
(* The steps.                                                              *)

\* A step that leaves a stream alone leaves it wired.
LEMMA Frame ==
  ASSUME NEW s \in Submissions, Wired(s),
         sent'[s] = sent[s], got'[s] = got[s], wire'[s] = wire[s], buffer'[s] = buffer[s],
         closed'[s] = closed[s], received'[s] = received[s],
         stage'[s] \in {"none", "token", "request"} => stage[s] \in {"none", "token", "request"}
  PROVE  Wired(s)'
BY DEF Wired, Rest, Carries, HasEnded, Holds

\* What is left of a stream, as sequences.
LEMMA RestOf ==
  ASSUME TypeOK, NEW s \in Submissions, Wired(s)
  PROVE  /\ Rest(s) \in Seq(Kinds) /\ Len(Rest(s)) = Len(sent[s]) - Len(got[s])
         /\ Len(got[s]) \in 0 .. Len(sent[s])
         /\ Cuts(sent[s], Len(got[s]), got[s], Rest(s))
<1>1. sent[s] \in Seq(Kinds) /\ got[s] \in Seq(Kinds) /\ Len(got[s]) \in 0 .. Len(sent[s])
  BY DEF TypeOK, Wired
<1>2. PICK h, t \in Seq(Kinds) : Cuts(sent[s], Len(got[s]), h, t)
  BY <1>1, CutOf
<1>3. h = got[s] /\ t = Rest(s) /\ Len(t) = Len(sent[s]) - Len(got[s])
  BY <1>2 DEF Cuts, Wired, Rest
<1> QED BY <1>1, <1>2, <1>3

\* A read gives handleEvent the next messages, and leaves the rest of the stream wired.
LEMMA ReadStep ==
  ASSUME TypeOK, NEW s \in Submissions, Wired(s), NEW n \in 1 .. Len(wire[s]), Reads(s, n)
  PROVE  /\ \E k \in 0 .. Len(Rest(s)) :
              /\ processSSELines(Complete(buffer[s] \o SubSeq(wire[s], 1, n))) = SubSeq(Rest(s), 1, k)
              /\ got'[s] = SubSeq(sent[s], 1, Len(got[s]) + k)
              /\ got'[s] \in Seq(Kinds) /\ Joined(got'[s], got[s], SubSeq(Rest(s), 1, k))
         /\ wire'[s] \in Seq(Byte)
         /\ buffer'[s] \in Seq(Byte) /\ Len(buffer'[s]) < 4 /\ LastBoundary(buffer'[s]) = 0
         /\ Wired(s)'
<1> DEFINE q == Rest(s)
           g == got[s]
           z == sent[s]
<1>1. /\ q \in Seq(Kinds) /\ Len(q) = Len(z) - Len(g) /\ Len(g) \in 0 .. Len(z) /\ Cuts(z, Len(g), g, q)
      /\ z \in Seq(Kinds) /\ g \in Seq(Kinds)
  BY RestOf DEF TypeOK
<1>2. /\ buffer[s] \in Seq(Byte) /\ wire[s] \in Seq(Byte)
      /\ Len(buffer[s]) + Len(wire[s]) = 4 * Len(q)
      /\ Carries(buffer[s], q, 0) /\ Carries(wire[s], q, Len(buffer[s]))
  BY DEF TypeOK, Wired
<1>3. PICK u, v \in Seq(Byte) : Cuts(wire[s], n, u, v)
  <2>1. n \in 0 .. Len(wire[s])
    BY <1>2
  <2> QED BY <1>2, <2>1, CutOf
<1>4. PICK c \in Seq(Byte) : c = buffer[s] \o u /\ Joined(c, buffer[s], u)
  BY <1>2, JoinedIs
<1>5. u = SubSeq(wire[s], 1, n) /\ v = SubSeq(wire[s], n + 1, Len(wire[s]))
  BY <1>3 DEF Cuts
<1>6. PICK k \in Nat : k = Len(c) \div 4
  <2>1. \A l \in Nat : l \div 4 \in Nat
    OBVIOUS
  <2> QED BY <2>1
<1> HIDE DEF q, g, z
<1>7. /\ k \in 0 .. Len(q)
      /\ processSSELines(Complete(c)) = SubSeq(q, 1, k)
      /\ Pop(c) \in Seq(Byte) /\ Len(Pop(c)) < 4 /\ LastBoundary(Pop(c)) = 0
      /\ \A h, p \in Seq(Kinds) : Cuts(q, k, h, p) =>
           /\ Len(Pop(c)) + Len(v) = 4 * Len(p)
           /\ Carries(Pop(c), p, 0) /\ Carries(v, p, Len(Pop(c)))
  <2>1. PICK b, w \in Seq(Byte) : b = buffer[s] /\ w = wire[s]
    BY <1>2
  <2>2. /\ n \in 1 .. Len(w) /\ Len(b) + Len(w) = 4 * Len(q) /\ Carries(b, q, 0) /\ Carries(w, q, Len(b))
        /\ Cuts(w, n, u, v) /\ Joined(c, b, u) /\ k = Len(c) \div 4 /\ q \in Seq(Kinds)
    BY <2>1, <1>1, <1>2, <1>3, <1>4, <1>6
  <2> QED BY <2>2, ReadOf
<1>8. PICK h, p \in Seq(Kinds) : Cuts(q, k, h, p)
  BY <1>1, <1>7, CutOf
<1>9. PICK y, x \in Seq(Kinds) : Cuts(z, Len(g) + k, y, x)
  <2>1. Len(g) + k \in 0 .. Len(z)
    BY <1>1, <1>7
  <2> QED BY <1>1, <2>1, CutOf
<1>10. h = SubSeq(q, 1, k) /\ Len(h) = k /\ Len(p) = Len(q) - k /\ \A i \in 1 .. Len(q) - k : p[i] = q[k + i]
  BY <1>8 DEF Cuts
<1>11. /\ y = SubSeq(z, 1, Len(g) + k) /\ Len(y) = Len(g) + k /\ \A i \in 1 .. Len(g) + k : y[i] = z[i]
       /\ x = SubSeq(z, Len(g) + k + 1, Len(z)) /\ Len(x) = Len(z) - (Len(g) + k)
       /\ \A i \in 1 .. Len(z) - (Len(g) + k) : x[i] = z[Len(g) + k + i]
  BY <1>9 DEF Cuts
<1>12. Joined(y, g, h)
  <2>1. \A i \in 1 .. Len(g) : y[i] = g[i]
    <3>1. \A i \in 1 .. Len(g) : g[i] = z[i] /\ i \in 1 .. Len(g) + k
      BY <1>1, <1>7 DEF Cuts
    <3> QED BY <3>1, <1>11
  <2>2. \A j \in 1 .. k : y[Len(g) + j] = h[j]
    <3>1. \A j \in 1 .. k : h[j] = q[j]
      BY <1>8 DEF Cuts
    <3>2. \A j \in 1 .. Len(q) : q[j] = z[Len(g) + j]
      BY <1>1 DEF Cuts
    <3>3. \A j \in 1 .. k : j \in 1 .. Len(q) /\ Len(g) + j \in 1 .. Len(g) + k
      BY <1>1, <1>7
    <3> QED BY <3>1, <3>2, <3>3, <1>11
  <2> QED BY <2>1, <2>2, <1>10, <1>11 DEF Joined
<1>13. y = g \o h
  BY <1>1, <1>12, JoinedIs
<1>14. x = p
  <2>1. Len(x) = Len(p)
    BY <1>1, <1>7, <1>10, <1>11
  <2>2. \A i \in 1 .. Len(x) : x[i] = p[i]
    <3>1. \A j \in 1 .. Len(q) : q[j] = z[Len(g) + j]
      BY <1>1 DEF Cuts
    <3>2. \A i \in 1 .. Len(x) : /\ i \in 1 .. Len(z) - (Len(g) + k) /\ i \in 1 .. Len(q) - k
                                 /\ k + i \in 1 .. Len(q) /\ Len(g) + (k + i) = Len(g) + k + i
      BY <1>1, <1>7, <1>10, <1>11
    <3>3. ASSUME NEW i \in 1 .. Len(x)
          PROVE  x[i] = p[i]
      <4>1. p[i] = z[Len(g) + (k + i)]
        BY <3>1, <3>2, <1>10
      <4>2. x[i] = z[Len(g) + k + i]
        BY <3>2, <1>11
      <4> QED BY <4>1, <4>2, <3>2
    <3> QED BY <3>3
  <2> QED BY <2>1, <2>2, SeqEqual
<1>15. /\ got'[s] = y /\ wire'[s] = v /\ buffer'[s] = Pop(c) /\ sent' = sent /\ closed' = closed /\ stage' = stage
       /\ stage[s] = "open"
       /\ received'[s] = (received[s] \/ Holds("complete", h))
  <2>1. buffer[s] \o SubSeq(wire[s], 1, n) = c
    BY <1>4, <1>5
  <2>2. /\ got' = [got EXCEPT ![s] = @ \o h]
        /\ received' = [received EXCEPT ![s] = @ \/ Holds("complete", h)]
        /\ wire' = [wire EXCEPT ![s] = v] /\ buffer' = [buffer EXCEPT ![s] = Pop(c)]
        /\ sent' = sent /\ closed' = closed /\ stage' = stage /\ stage[s] = "open"
    BY <2>1, <1>5, <1>7, <1>10 DEF Reads, Handles
  <2> QED BY <2>2, <1>13 DEF TypeOK, g
<1>16. Rest(s)' = p
  <2>1. Len(y) + 1 = Len(g) + k + 1
    BY <1>11
  <2> QED BY <2>1, <1>11, <1>14, <1>15 DEF Rest, z
<1>17. Wired(s)'
  <2>1. Len(y) <= Len(z) /\ y = SubSeq(z, 1, Len(y))
    BY <1>1, <1>7, <1>11
  <2>2. Holds("complete", y) <=> Holds("complete", g) \/ Holds("complete", h)
    BY <1>1, <1>13, HoldsConcat
  <2>3. received[s] <=> Holds("complete", g)
    BY DEF Wired, g
  <2>4. /\ Len(Pop(c)) + Len(v) = 4 * Len(p)
        /\ Carries(Pop(c), p, 0) /\ Carries(v, p, Len(Pop(c)))
    BY <1>7, <1>8
  <2>5. Carries(buffer[s], Rest(s), 0)' /\ Carries(wire[s], Rest(s), Len(buffer[s]))'
    BY <2>4, <1>15, <1>16 DEF Carries
  <2> QED BY <2>1, <2>2, <2>3, <2>4, <2>5, <1>15, <1>16 DEF Wired, HasEnded, Holds, z
<1> QED BY <1>4, <1>5, <1>7, <1>9, <1>10, <1>11, <1>12, <1>15, <1>17 DEF q, g, z

\* When the stream is done nothing is left to show.
LEMMA DoneStep ==
  ASSUME TypeOK, NEW s \in Submissions, Wired(s), Done(s)
  PROVE  /\ processSSELines(buffer[s]) = <<>> /\ got[s] = sent[s] /\ HasEnded(s)
         /\ got' = got /\ received' = received /\ buffer' = [buffer EXCEPT ![s] = <<>>]
         /\ Wired(s)'
<1>1. /\ sent[s] \in Seq(Kinds) /\ got[s] \in Seq(Kinds) /\ buffer[s] \in Seq(Byte) /\ Len(buffer[s]) < 4
      /\ wire[s] = <<>> /\ closed[s] /\ stage[s] = "open"
  BY DEF TypeOK, Done
<1>2. /\ Rest(s) \in Seq(Kinds) /\ Len(Rest(s)) = Len(sent[s]) - Len(got[s])
      /\ Len(got[s]) \in 0 .. Len(sent[s])
  BY RestOf
<1>3. Len(buffer[s]) = 0 /\ Len(Rest(s)) = 0
  <2>1. Len(buffer[s]) + 0 = 4 * Len(Rest(s))
    BY <1>1, EmptySeq DEF Wired
  <2>2. \A x, y \in Nat : x < 4 /\ x + 0 = 4 * y => x = 0 /\ y = 0
    OBVIOUS
  <2>3. Len(buffer[s]) \in Nat /\ Len(Rest(s)) \in Nat
    BY <1>1, <1>2, LenProperties
  <2> QED BY <2>1, <2>2, <2>3, <1>1
<1>4. buffer[s] = <<>>
  BY <1>1, <1>3, EmptySeq
<1>5. got[s] = sent[s]
  <2>1. Len(got[s]) = Len(sent[s])
    BY <1>1, <1>2, <1>3
  <2> QED BY <2>1, <1>1, SubSeqFull DEF Wired
<1>6. processSSELines(<<>>) = <<>>
  <2>1. Carries(<<>>, Rest(s), 0)
    BY <1>4 DEF Wired
  <2>2. <<>> \in Seq(Byte) /\ Len(<<>>) = 4 * 0
    BY EmptySeq
  <2>3. processSSELines(<<>>) = SubSeq(Rest(s), 1, 0)
    BY <2>1, <2>2, <1>2, LinesOf
  <2> QED BY <2>3, SubSeqEmpty
<1>7. /\ got' = [got EXCEPT ![s] = @ \o <<>>]
      /\ received' = [received EXCEPT ![s] = @ \/ Holds("complete", <<>>)]
      /\ buffer' = [buffer EXCEPT ![s] = <<>>]
      /\ wire' = wire /\ closed' = closed /\ sent' = sent /\ stage' = [stage EXCEPT ![s] = "done"]
  BY <1>4, <1>6 DEF Done, Handles, Moves
<1>8. got' = got
  <2>1. got[s] \o <<>> = got[s]
    BY <1>1, ConcatEmptySeq
  <2> QED BY <2>1, <1>7 DEF TypeOK
<1>9. received' = received
  <2>1. ~Holds("complete", <<>>)
    BY EmptySeq DEF Holds
  <2> QED BY <2>1, <1>7 DEF TypeOK
<1>10. Wired(s)'
  <2>1. /\ sent'[s] = sent[s] /\ got'[s] = got[s] /\ wire'[s] = wire[s] /\ buffer'[s] = buffer[s]
        /\ closed'[s] = closed[s] /\ received'[s] = received[s] /\ stage'[s] = "done"
    BY <1>4, <1>7, <1>8, <1>9 DEF TypeOK
  <2> QED BY <2>1, Frame
<1> QED BY <1>1, <1>4, <1>5, <1>6, <1>7, <1>8, <1>9, <1>10 DEF Wired

\* A message that is sent is the last of the rest.
LEMMA SendStep ==
  ASSUME TypeOK, NEW s \in Submissions, Wired(s), NEW m \in Kinds, Sends(s, m)
  PROVE  sent'[s] \in Seq(Kinds) /\ wire'[s] \in Seq(Byte) /\ Wired(s)'
<1>1. /\ sent[s] \in Seq(Kinds) /\ got[s] \in Seq(Kinds) /\ buffer[s] \in Seq(Byte) /\ wire[s] \in Seq(Byte)
      /\ Rest(s) \in Seq(Kinds) /\ Len(Rest(s)) = Len(sent[s]) - Len(got[s])
      /\ Len(got[s]) \in 0 .. Len(sent[s]) /\ Cuts(sent[s], Len(got[s]), got[s], Rest(s))
  BY RestOf DEF TypeOK
<1>2. /\ Len(buffer[s]) + Len(wire[s]) = 4 * Len(Rest(s))
      /\ Carries(buffer[s], Rest(s), 0) /\ Carries(wire[s], Rest(s), Len(buffer[s]))
  BY DEF Wired
<1>3. PICK q, g, z \in Seq(Kinds) : q = Rest(s) /\ g = got[s] /\ z = sent[s]
  BY <1>1
<1>4. PICK b, w, u \in Seq(Byte) : b = buffer[s] /\ w = wire[s] /\ u = Message(m)
  <2>1. Message(m) \in Seq(Byte)
    BY DEF Message, Byte, NL
  <2> QED BY <1>1, <2>1
<1>5. PICK y \in Seq(Kinds) : y = Append(z, m) /\ Len(y) = Len(z) + 1 /\ y[Len(z) + 1] = m
                              /\ \A i \in 1 .. Len(z) : y[i] = z[i]
  <2>1. /\ Append(z, m) \in Seq(Kinds) /\ Len(Append(z, m)) = Len(z) + 1
        /\ Append(z, m)[Len(z) + 1] = m /\ \A i \in 1 .. Len(z) : Append(z, m)[i] = z[i]
    BY AppendProperties
  <2> QED BY <2>1
<1>6. PICK p \in Seq(Kinds) : p = Append(q, m) /\ Len(p) = Len(q) + 1 /\ p[Len(q) + 1] = m
                              /\ \A i \in 1 .. Len(q) : p[i] = q[i]
  <2>1. /\ Append(q, m) \in Seq(Kinds) /\ Len(Append(q, m)) = Len(q) + 1
        /\ Append(q, m)[Len(q) + 1] = m /\ \A i \in 1 .. Len(q) : Append(q, m)[i] = q[i]
    BY AppendProperties
  <2> QED BY <2>1
<1>7. PICK v \in Seq(Byte) : v = w \o u /\ Joined(v, w, u)
  BY JoinedIs
<1>8. /\ sent'[s] = y /\ wire'[s] = v /\ got'[s] = g /\ buffer'[s] = b /\ closed'[s] = closed[s]
      /\ received'[s] = received[s] /\ stage'[s] = stage[s] /\ stage[s] = "open" /\ ~HasEnded(s)
  BY <1>3, <1>4, <1>5, <1>7 DEF Sends, Untouched, TypeOK
<1>9. /\ Len(q) = Len(z) - Len(g) /\ Len(g) \in 0 .. Len(z)
      /\ \A i \in 1 .. Len(q) : q[i] = z[Len(g) + i]
      /\ Len(q) \in Nat /\ Len(z) \in Nat /\ Len(g) \in Nat /\ Len(b) \in Nat /\ Len(w) \in Nat
      /\ Len(b) + Len(w) = 4 * Len(q) /\ Carries(b, q, 0) /\ Carries(w, q, Len(b))
  <2>1. Len(q) \in Nat /\ Len(z) \in Nat /\ Len(g) \in Nat /\ Len(b) \in Nat /\ Len(w) \in Nat
    BY LenProperties
  <2>2. Len(q) = Len(z) - Len(g) /\ Len(g) \in 0 .. Len(z) /\ Cuts(z, Len(g), g, q)
    BY <1>1, <1>3
  <2>3. Len(b) + Len(w) = 4 * Len(q) /\ Carries(b, q, 0) /\ Carries(w, q, Len(b))
    BY <1>2, <1>3, <1>4
  <2> QED BY <2>1, <2>2, <2>3 DEF Cuts
<1>10. Rest(s)' = p
  <2>1. PICK h, t \in Seq(Kinds) : Cuts(y, Len(g), h, t)
    <3>1. Len(g) \in 0 .. Len(y)
      BY <1>5, <1>9
    <3> QED BY <3>1, CutOf
  <2>2. t = SubSeq(y, Len(g) + 1, Len(y)) /\ Len(t) = Len(y) - Len(g)
        /\ \A i \in 1 .. Len(y) - Len(g) : t[i] = y[Len(g) + i]
    BY <2>1 DEF Cuts
  <2>3. Len(t) = Len(p)
    BY <2>2, <1>5, <1>6, <1>9
  <2>4. ASSUME NEW i \in 1 .. Len(t)
        PROVE  t[i] = p[i]
    <3>1. i \in 1 .. Len(y) - Len(g) /\ i \in 1 .. Len(q) + 1 /\ t[i] = y[Len(g) + i]
      BY <2>2, <2>3, <1>6
    <3>2. CASE i \in 1 .. Len(q)
      <4>1. Len(g) + i \in 1 .. Len(z)
        BY <3>2, <1>9
      <4> QED BY <3>1, <3>2, <4>1, <1>5, <1>6, <1>9
    <3>3. CASE i = Len(q) + 1
      <4>1. Len(g) + i = Len(z) + 1
        BY <3>3, <1>9
      <4> QED BY <3>1, <3>3, <4>1, <1>5, <1>6
    <3>4. i \in 1 .. Len(q) \/ i = Len(q) + 1
      <4>1. \A n \in Nat : \A x \in 1 .. n + 1 : x \in 1 .. n \/ x = n + 1
        OBVIOUS
      <4> QED BY <4>1, <3>1, <1>9
    <3> QED BY <3>2, <3>3, <3>4
  <2>5. t = p
    BY <2>3, <2>4, SeqEqual
  <2> QED BY <2>2, <2>5, <1>8 DEF Rest
<1>11. Len(v) = Len(w) + 4 /\ (\A i \in 1 .. Len(w) : v[i] = w[i]) /\ \A j \in 1 .. 4 : v[Len(w) + j] = Message(m)[j]
  <2>1. Len(u) = 4
    BY <1>4 DEF Message
  <2> QED BY <2>1, <1>4, <1>7 DEF Joined
<1>12. \A i \in 1 .. 4 * Len(q) + 4 : ByteOf(p, i) = IF i <= 4 * Len(q) THEN ByteOf(q, i)
                                                      ELSE Message(m)[i - 4 * Len(q)]
  BY <1>6, ByteAppended
<1>13. Carries(b, p, 0)
  <2>1. ASSUME NEW i \in 1 .. Len(b)
        PROVE  b[i] = ByteOf(p, 0 + i)
    <3>1. 0 + i \in 1 .. 4 * Len(q) + 4 /\ 0 + i <= 4 * Len(q)
      BY <1>9
    <3>2. b[i] = ByteOf(q, 0 + i)
      BY <1>9 DEF Carries
    <3> QED BY <3>1, <3>2, <1>12
  <2>2. 0 + Len(b) <= 4 * Len(p)
    BY <1>6, <1>9
  <2> QED BY <2>1, <2>2 DEF Carries
<1>14. Carries(v, p, Len(b))
  <2>1. ASSUME NEW i \in 1 .. Len(v)
        PROVE  v[i] = ByteOf(p, Len(b) + i)
    <3>1. Len(b) + i \in 1 .. 4 * Len(q) + 4
      BY <1>9, <1>11
    <3>2. CASE i \in 1 .. Len(w)
      <4>1. v[i] = ByteOf(q, Len(b) + i)
        BY <3>2, <1>9, <1>11 DEF Carries
      <4>2. Len(b) + i <= 4 * Len(q)
        BY <3>2, <1>9
      <4> QED BY <3>1, <4>1, <4>2, <1>12
    <3>3. CASE i \notin 1 .. Len(w)
      <4>1. PICK j \in 1 .. 4 : i = Len(w) + j
        <5>1. \A n \in Nat : \A x \in 1 .. n + 4 : x \in 1 .. n \/ (x - n \in 1 .. 4 /\ x = n + (x - n))
          OBVIOUS
        <5>2. i - Len(w) \in 1 .. 4 /\ i = Len(w) + (i - Len(w))
          BY <5>1, <3>3, <1>9, <1>11
        <5> QED BY <5>2
      <4>2. ~(Len(b) + i <= 4 * Len(q)) /\ (Len(b) + i) - 4 * Len(q) = j
        BY <4>1, <1>9
      <4>3. v[i] = Message(m)[j]
        BY <4>1, <1>11
      <4> QED BY <3>1, <4>2, <4>3, <1>12
    <3> QED BY <3>2, <3>3
  <2>2. Len(b) + Len(v) <= 4 * Len(p)
    BY <1>6, <1>9, <1>11
  <2> QED BY <2>1, <2>2 DEF Carries
<1>15. \A i \in 1 .. Len(y) - 1 : ~IsEnd(y[i])
  <2> SUFFICES ASSUME NEW i \in 1 .. Len(z) PROVE ~IsEnd(z[i])
    BY <1>5, <1>9
  <2>1. CASE i \in 1 .. Len(z) - 1
    BY <2>1, <1>3 DEF Wired
  <2>2. CASE i = Len(z)
    <3>1. z # <<>>
      BY <2>2, EmptySeq
    <3> QED BY <3>1, <2>2, <1>3, <1>8 DEF HasEnded
  <2> QED BY <2>1, <2>2, <1>9
<1>16. Len(g) <= Len(y) /\ g = SubSeq(y, 1, Len(g))
  <2>1. PICK h, t \in Seq(Kinds) : Cuts(y, Len(g), h, t)
    <3>1. Len(g) \in 0 .. Len(y)
      BY <1>5, <1>9
    <3> QED BY <3>1, CutOf
  <2>2. h = SubSeq(y, 1, Len(g)) /\ Len(h) = Len(g) /\ \A i \in 1 .. Len(g) : h[i] = y[i]
    BY <2>1 DEF Cuts
  <2>3. \A i \in 1 .. Len(g) : g[i] = z[i] /\ i \in 1 .. Len(z)
    BY <1>1, <1>3, <1>9 DEF Cuts
  <2>4. h = g
    BY <2>2, <2>3, <1>5, SeqEqual
  <2> QED BY <2>2, <2>4, <1>5, <1>9
<1>17. Len(b) + Len(v) = 4 * Len(p)
  <2>1. \A x, l, n \in Nat : x + l = 4 * n => x + (l + 4) = 4 * (n + 1)
    OBVIOUS
  <2>2. Len(b) \in Nat /\ Len(w) \in Nat /\ Len(q) \in Nat /\ Len(b) + Len(w) = 4 * Len(q)
    BY <1>9
  <2>3. Len(b) + (Len(w) + 4) = 4 * (Len(q) + 1)
    BY <2>1, <2>2
  <2>4. Len(v) = Len(w) + 4
    BY <1>11
  <2>5. Len(p) = Len(q) + 1
    BY <1>6
  <2> QED BY <2>3, <2>4, <2>5
<1>18. received[s] <=> Holds("complete", g)
  BY <1>3 DEF Wired
<1>19. ~closed[s]
  BY <1>8 DEF Wired
<1>20. (Carries(buffer[s], Rest(s), 0) /\ Carries(wire[s], Rest(s), Len(buffer[s])))'
  BY <1>8, <1>10, <1>13, <1>14 DEF Carries
<1>21. Wired(s)'
  BY <1>8, <1>10, <1>15, <1>16, <1>17, <1>18, <1>19, <1>20 DEF Wired, HasEnded, Holds
<1> QED BY <1>8, <1>21


\* A submission gets its token and asks, with the controller it finds.
Asks(s) ==
  /\ stage[s] = "token" /\ ctrl # 0
  /\ Moves(s, IF ctrl \in aborted THEN "cut" ELSE "request")
  /\ signal' = [signal EXCEPT ![s] = ctrl]
  /\ UNCHANGED <<wire, closed, buffer, received, sent, got>> /\ Untouched

Opens(s) ==
  /\ stage[s] = "request" /\ Live(s) /\ Moves(s, "open") /\ Untouched
  /\ UNCHANGED <<signal, wire, closed, buffer, received, sent, got>>

Fails(s) == Running(s, aborted) /\ Caught(s)

\* What a step can be.
LEMMA StepCases ==
  ASSUME TypeOK, Next
  PROVE  \/ Submit \/ Reset \/ Unmount
         \/ \E s \in Submissions :
              \/ Asks(s) \/ Opens(s) \/ Fails(s) \/ Aborts(s) \/ Done(s)
              \/ \E n \in 1 .. Len(wire[s]) : Reads(s, n)
              \/ Closes(s) \/ \E m \in Kinds : Sends(s, m)
<1>1. ASSUME NEW s \in Submissions, NEW ok \in BOOLEAN, TokenArrives(s, ok)
      PROVE  Asks(s) \/ Fails(s)
  BY <1>1 DEF TokenArrives, Asks, Fails, Running
<1>2. ASSUME NEW s \in Submissions, NEW ok \in BOOLEAN, Answered(s, ok)
      PROVE  Opens(s) \/ Fails(s)
  BY <1>2 DEF Answered, Opens, Fails, Running, Live
<1>3. ASSUME NEW s \in Submissions, Breaks(s)
      PROVE  Fails(s)
  BY <1>3 DEF Breaks, Fails, Running, Live
<1>4. ASSUME NEW s \in Submissions, NEW n \in 1 .. 4 * MaxMessages, Reads(s, n)
      PROVE  \E k \in 1 .. Len(wire[s]) : Reads(s, k)
  BY <1>4 DEF Reads
<1> QED BY <1>1, <1>2, <1>3, <1>4 DEF Next, Reader, Server

\* The streams stay wired.
LEMMA WiredKept ==
  ASSUME IInv, Next
  PROVE  \A t \in Submissions : Wired(t)'
<1>1. TypeOK /\ \A t \in Submissions : Wired(t)
  BY DEF IInv
<1>2. CASE Submit
  <2>1. submits \in 0 .. MaxSubmits /\ MaxSubmits \in Nat
    BY <1>1, StreamAssumption DEF TypeOK
  <2>2. submits + 1 \in Submissions /\ submits' = submits + 1 /\ submits + 1 > submits
    BY <2>1, <1>2 DEF Submit, Submissions
  <2>3. stage[submits + 1] = "none"
    BY <2>2 DEF IInv, Owned
  <2>4. ASSUME NEW t \in Submissions
        PROVE  stage'[t] \in {"none", "token", "request"} => stage[t] \in {"none", "token", "request"}
    BY <1>1, <1>2, <2>2, <2>3 DEF Submit, TypeOK
  <2>5. UNCHANGED <<sent, got, wire, buffer, closed, received>>
    BY <1>2 DEF Submit
  <2> QED BY <1>1, <2>4, <2>5, Frame
<1>3. CASE Reset \/ Unmount
  BY <1>1, <1>3, Frame DEF Reset, Unmount, streamVars
<1>4. ASSUME NEW s \in Submissions, Asks(s) \/ Opens(s) \/ Fails(s) \/ Aborts(s)
      PROVE  \A t \in Submissions : Wired(t)'
  <2>1. UNCHANGED <<sent, got, wire, buffer, closed, received>>
    BY <1>4 DEF Asks, Opens, Fails, Caught, Aborts
  <2>2. CASE Opens(s)
    <3>1. ASSUME NEW t \in Submissions
          PROVE  stage'[t] \in {"none", "token", "request"} => stage[t] \in {"none", "token", "request"}
      BY <1>1, <2>2 DEF Opens, Moves, TypeOK
    <3> QED BY <1>1, <2>1, <3>1, Frame
  <2>3. CASE Asks(s) \/ Fails(s) \/ Aborts(s)
    <3>1. ASSUME NEW t \in Submissions
          PROVE  stage'[t] \in {"none", "token", "request"} => stage[t] \in {"none", "token", "request"}
      BY <1>1, <2>3 DEF Asks, Fails, Caught, Aborts, Moves, TypeOK
    <3> QED BY <1>1, <2>1, <3>1, Frame
  <2> QED BY <1>4, <2>2, <2>3
<1>5. ASSUME NEW s \in Submissions, NEW n \in 1 .. Len(wire[s]), Reads(s, n)
      PROVE  \A t \in Submissions : Wired(t)'
  <2>1. Wired(s)'
    BY <1>1, <1>5, ReadStep
  <2>2. ASSUME NEW t \in Submissions, t # s
        PROVE  Wired(t)'
    <3>1. /\ sent'[t] = sent[t] /\ got'[t] = got[t] /\ wire'[t] = wire[t] /\ buffer'[t] = buffer[t]
          /\ closed'[t] = closed[t] /\ received'[t] = received[t] /\ stage'[t] = stage[t]
      BY <1>1, <1>5, <2>2 DEF Reads, Handles, TypeOK
    <3> QED BY <1>1, <3>1, Frame
  <2> QED BY <2>1, <2>2
<1>6. ASSUME NEW s \in Submissions, Done(s)
      PROVE  \A t \in Submissions : Wired(t)'
  <2>1. Wired(s)'
    BY <1>1, <1>6, DoneStep
  <2>2. ASSUME NEW t \in Submissions, t # s
        PROVE  Wired(t)'
    <3>1. /\ sent'[t] = sent[t] /\ got'[t] = got[t] /\ wire'[t] = wire[t] /\ buffer'[t] = buffer[t]
          /\ closed'[t] = closed[t] /\ received'[t] = received[t] /\ stage'[t] = stage[t]
      BY <1>1, <1>6, <2>2 DEF Done, Handles, Moves, TypeOK
    <3> QED BY <1>1, <3>1, Frame
  <2> QED BY <2>1, <2>2
<1>7. ASSUME NEW s \in Submissions, Closes(s)
      PROVE  \A t \in Submissions : Wired(t)'
  <2>1. UNCHANGED <<sent, got, wire, buffer, received, stage>> /\ HasEnded(s)
        /\ \A t \in Submissions : t # s => closed'[t] = closed[t]
    BY <1>1, <1>7 DEF Closes, TypeOK
  <2>2. Wired(s)'
    <3>1. /\ sent'[s] = sent[s] /\ got'[s] = got[s] /\ wire'[s] = wire[s] /\ buffer'[s] = buffer[s]
          /\ received'[s] = received[s] /\ stage'[s] = stage[s]
      BY <2>1
    <3>2. Rest(s)' = Rest(s) /\ HasEnded(s)'
      BY <2>1, <3>1 DEF Rest, HasEnded
    <3>3. (Carries(buffer[s], Rest(s), 0) /\ Carries(wire[s], Rest(s), Len(buffer[s])))'
      BY <1>1, <3>1, <3>2 DEF Wired, Carries
    <3> QED BY <1>1, <3>1, <3>2, <3>3 DEF Wired, Holds
  <2>3. ASSUME NEW t \in Submissions, t # s
        PROVE  Wired(t)'
    <3>1. /\ sent'[t] = sent[t] /\ got'[t] = got[t] /\ wire'[t] = wire[t] /\ buffer'[t] = buffer[t]
          /\ closed'[t] = closed[t] /\ received'[t] = received[t] /\ stage'[t] = stage[t]
      BY <2>1, <2>3
    <3> QED BY <1>1, <3>1, Frame
  <2> QED BY <2>2, <2>3
<1>8. ASSUME NEW s \in Submissions, NEW m \in Kinds, Sends(s, m)
      PROVE  \A t \in Submissions : Wired(t)'
  <2>1. Wired(s)'
    BY <1>1, <1>8, SendStep
  <2>2. ASSUME NEW t \in Submissions, t # s
        PROVE  Wired(t)'
    <3>1. /\ sent'[t] = sent[t] /\ got'[t] = got[t] /\ wire'[t] = wire[t] /\ buffer'[t] = buffer[t]
          /\ closed'[t] = closed[t] /\ received'[t] = received[t] /\ stage'[t] = stage[t]
      BY <1>1, <1>8, <2>2 DEF Sends, TypeOK
    <3> QED BY <1>1, <3>1, Frame
  <2> QED BY <2>1, <2>2
<1> QED BY <1>1, <1>2, <1>3, <1>4, <1>5, <1>6, <1>7, <1>8, StepCases

\* Only the owner has something to write, unless one was exposed.
LEMMA OwnedKept ==
  ASSUME IInv, Next
  PROVE  Owned'
<1>1. TypeOK /\ Owned /\ MaxSubmits \in Nat
  BY StreamAssumption DEF IInv
<1>2. /\ submits \in 0 .. MaxSubmits /\ ctrl \in 0 .. submits /\ owner \in 0 .. submits
      /\ aborted \subseteq 1 .. submits /\ ctrl = owner
      /\ stage \in [Submissions -> {"none", "token", "request", "open", "done", "cut"}]
      /\ signal \in [Submissions -> 0 .. submits]
  BY <1>1 DEF TypeOK, Owned
<1>3. CASE Submit
  <2> DEFINE n == submits + 1
  <2>1. n \in Submissions /\ n \in Nat /\ n # 0 /\ n \notin aborted /\ n > submits
    <3>1. submits \in Nat /\ submits < MaxSubmits
      BY <1>2, <1>3 DEF Submit
    <3>2. \A k \in 1 .. submits : k # submits + 1
      BY <3>1
    <3>3. n \in 1 .. MaxSubmits /\ n \in Nat /\ n # 0 /\ n > submits
      BY <3>1, <1>1
    <3> QED BY <3>2, <3>3, <1>2 DEF Submissions
  <2>2. /\ submits' = n /\ ctrl' = n /\ owner' = n /\ stage' = [stage EXCEPT ![n] = "token"]
        /\ aborted' = aborted /\ signal' = signal /\ mounted' = mounted
        /\ exposed' = \E s \in Submissions : Running(s, aborted)
    BY <1>3 DEF Submit
  <2>3. \A s \in Submissions : s > n => s > submits /\ s # n
    BY <1>2 DEF Submissions
  <2> HIDE DEF n
  <2>4. /\ ctrl' = owner'
        /\ mounted' => owner' \notin aborted'
        /\ owner' # 0 => stage'[owner'] # "none"
    BY <2>1, <2>2, <1>2
  <2>5. \A s \in Submissions : s > submits' => stage'[s] = "none"
    BY <2>2, <2>3, <1>1, <1>2 DEF Owned
  <2>6. \A s \in Submissions : stage'[s] \in {"request", "open"} => signal'[s] # 0
    BY <2>2, <1>1, <1>2 DEF Owned
  <2>7. ~exposed' => \A s \in Submissions : s # owner' => ~Running(s, aborted)'
    BY <2>2, <1>2 DEF Running
  <2> QED BY <2>4, <2>5, <2>6, <2>7 DEF Owned
<1>4. CASE Reset
  <2>1. /\ aborted' = aborted \cup ({ctrl} \ {0}) /\ ctrl' = 0 /\ owner' = 0 /\ submits' = submits
        /\ stage' = stage /\ signal' = signal
        /\ exposed' = \E s \in Submissions : Running(s, aborted \cup {ctrl})
    BY <1>4 DEF Reset, AfterAbort, streamVars
  <2>2. 0 \notin aborted'
    BY <2>1, <1>2
  <2>3. ASSUME NEW s \in Submissions, ~Running(s, aborted \cup {ctrl})
        PROVE  ~Running(s, aborted)'
    <3>1. stage[s] \in {"request", "open"} => signal[s] # 0
      BY <1>1 DEF Owned
    <3> QED BY <2>1, <2>3, <3>1 DEF Running
  <2> QED BY <2>1, <2>2, <2>3, <1>1 DEF Owned
<1>5. CASE Unmount
  <2>1. /\ aborted' = aborted \cup ({ctrl} \ {0}) /\ ~mounted'
        /\ UNCHANGED <<ctrl, submits, owner, stage, signal, exposed>>
    BY <1>5 DEF Unmount, AfterAbort, streamVars
  <2>2. ASSUME NEW s \in Submissions, ~Running(s, aborted)
        PROVE  ~Running(s, aborted)'
    BY <2>1, <2>2 DEF Running
  <2> QED BY <2>1, <2>2, <1>1 DEF Owned
<1>6. ASSUME NEW s \in Submissions, Asks(s)
      PROVE  Owned'
  <2>1. /\ stage[s] = "token" /\ ctrl # 0
        /\ stage' = [stage EXCEPT ![s] = IF ctrl \in aborted THEN "cut" ELSE "request"]
        /\ signal' = [signal EXCEPT ![s] = ctrl]
        /\ UNCHANGED <<ctrl, aborted, mounted, submits, owner, exposed>>
    BY <1>6 DEF Asks, Moves, Untouched, hookVars
  <2>2. \A t \in Submissions : t # s => stage'[t] = stage[t] /\ signal'[t] = signal[t]
    BY <2>1, <1>2
  <2>3. stage'[s] \in {"cut", "request"} /\ signal'[s] = ctrl
    BY <2>1, <1>2
  <2>4. ~exposed => s = owner
    BY <2>1, <1>1 DEF Owned, Running
  <2> QED BY <2>1, <2>2, <2>3, <2>4, <1>1 DEF Owned, Running
<1>7. ASSUME NEW s \in Submissions, Opens(s)
      PROVE  Owned'
  <2>1. /\ stage[s] = "request" /\ stage' = [stage EXCEPT ![s] = "open"]
        /\ UNCHANGED <<signal, ctrl, aborted, mounted, submits, owner, exposed>>
    BY <1>7 DEF Opens, Moves, Untouched, hookVars
  <2>2. stage'[s] = "open" /\ \A t \in Submissions : t # s => stage'[t] = stage[t]
    BY <2>1, <1>2
  <2> QED BY <2>1, <2>2, <1>1 DEF Owned, Running
<1>8. ASSUME NEW s \in Submissions, Fails(s) \/ Aborts(s) \/ Done(s)
      PROVE  Owned'
  <2>1. stage[s] \in {"token", "request", "open"} /\ \E to \in {"cut", "done"} : stage' = [stage EXCEPT ![s] = to]
    BY <1>8 DEF Fails, Running, Caught, Aborts, Done, Moves
  <2>2. UNCHANGED <<signal, ctrl, aborted, mounted, submits, owner, exposed>>
    BY <1>8 DEF Fails, Caught, Aborts, Done, Handles, Writes, Untouched, hookVars
  <2>3. stage'[s] \in {"cut", "done"} /\ \A t \in Submissions : t # s => stage'[t] = stage[t]
    BY <2>1, <1>2
  <2>4. ~(s > submits) /\ (owner # 0 => owner \in Submissions)
    BY <2>1, <1>1, <1>2 DEF Owned, Submissions
  <2> QED BY <2>2, <2>3, <2>4, <1>1 DEF Owned, Running
<1>9. ASSUME NEW s \in Submissions,
             (\E n \in 1 .. Len(wire[s]) : Reads(s, n)) \/ Closes(s) \/ \E m \in Kinds : Sends(s, m)
      PROVE  Owned'
  <2>1. UNCHANGED <<stage, signal, ctrl, aborted, mounted, submits, owner, exposed>>
    BY <1>9 DEF Reads, Handles, Writes, Closes, Sends, Untouched, hookVars
  <2> QED BY <2>1, <1>1 DEF Owned, Running
<1> QED BY <1>1, <1>3, <1>4, <1>5, <1>6, <1>7, <1>8, <1>9, StepCases

\* The events of a read, as handleEvent sees them.
LEMMA ReadShows ==
  ASSUME TypeOK, NEW s \in Submissions, Wired(s), NEW n \in 1 .. Len(wire[s]), Reads(s, n)
  PROVE  \E h \in Seq(Kinds) :
           /\ Handles(s, h, StatusAfter(h)) /\ got'[s] = got[s] \o h /\ Shown(h) \in Seq(Kinds \ {"error"})
           /\ StatusAfter(h) = IF h # <<>> /\ IsEnd(h[Len(h)]) THEN h[Len(h)] ELSE status
           /\ Holds("error", h) <=> h # <<>> /\ h[Len(h)] = "error"
           /\ h = <<>> => got'[s] = got[s]
           /\ h # <<>> => ~HasEnd(got[s]) /\ got'[s] # <<>> /\ got'[s][Len(got'[s])] = h[Len(h)]
           /\ received' = [received EXCEPT ![s] = @ \/ Holds("complete", h)]
<1>1. PICK k \in 0 .. Len(Rest(s)) :
              /\ processSSELines(Complete(buffer[s] \o SubSeq(wire[s], 1, n))) = SubSeq(Rest(s), 1, k)
              /\ got'[s] = SubSeq(sent[s], 1, Len(got[s]) + k)
              /\ got'[s] \in Seq(Kinds) /\ Joined(got'[s], got[s], SubSeq(Rest(s), 1, k))
  BY ReadStep
<1>2. /\ Rest(s) \in Seq(Kinds) /\ Len(Rest(s)) = Len(sent[s]) - Len(got[s])
      /\ Len(got[s]) \in 0 .. Len(sent[s]) /\ sent[s] \in Seq(Kinds) /\ got[s] \in Seq(Kinds)
      /\ Cuts(sent[s], Len(got[s]), got[s], Rest(s))
  BY RestOf DEF TypeOK
<1>3. PICK h, t \in Seq(Kinds) : Cuts(Rest(s), k, h, t)
  BY <1>2, CutOf
<1>4. PICK g, z, y \in Seq(Kinds) : g = got[s] /\ z = sent[s] /\ y = got'[s]
  BY <1>1, <1>2
<1>5. h = SubSeq(Rest(s), 1, k) /\ Len(h) = k /\ Joined(y, g, h)
  BY <1>1, <1>3, <1>4 DEF Cuts
<1>6. /\ Len(g) \in 0 .. Len(z) /\ Len(z) \in Nat /\ Len(g) + k \in 0 .. Len(z) /\ k \in Nat
      /\ \A i \in 1 .. k : h[i] = z[Len(g) + i]
  <2>1. Len(z) \in Nat /\ Len(g) \in 0 .. Len(z) /\ Len(Rest(s)) = Len(z) - Len(g)
    BY <1>2, <1>4, LenProperties
  <2>2. \A i \in 1 .. k : h[i] = Rest(s)[i] /\ i \in 1 .. Len(Rest(s))
    BY <1>3, <2>1 DEF Cuts
  <2>3. \A i \in 1 .. Len(z) - Len(g) : Rest(s)[i] = z[Len(g) + i]
    BY <1>2, <1>4 DEF Cuts
  <2> QED BY <2>1, <2>2, <2>3
<1>7. \A i \in 1 .. Len(z) - 1 : ~IsEnd(z[i])
  BY <1>4 DEF Wired
<1>8. \A i \in 1 .. Len(h) - 1 : ~IsEnd(h[i])
  <2>1. \A i \in 1 .. k - 1 : i \in 1 .. k /\ Len(g) + i \in 1 .. Len(z) - 1
    BY <1>6
  <2> QED BY <2>1, <1>5, <1>6, <1>7
<1>9. StatusAfter(h) = IF h # <<>> /\ IsEnd(h[Len(h)]) THEN h[Len(h)] ELSE status
  BY <1>8, StatusOf
<1>10. Holds("error", h) <=> h # <<>> /\ h[Len(h)] = "error"
  <2>1. \A i \in 1 .. Len(h) : i \in 1 .. Len(h) - 1 \/ i = Len(h)
    BY <1>5, <1>6
  <2>2. h # <<>> => Len(h) \in 1 .. Len(h)
    BY EmptySeq, <1>5, <1>6
  <2>3. h = <<>> => ~(\E i \in 1 .. Len(h) : h[i] = "error")
    BY EmptySeq
  <2> QED BY <2>1, <2>2, <2>3, <1>8 DEF Holds, IsEnd
<1>11. y = g \o h
  BY <1>5, JoinedIs
<1>12. h = <<>> => y = g
  BY <1>11, ConcatEmptySeq
<1>13. ASSUME h # <<>>
       PROVE  ~HasEnd(g) /\ y # <<>> /\ y[Len(y)] = h[Len(h)]
  <2>1. k >= 1 /\ Len(h) = k /\ Len(y) = Len(g) + k
    BY <1>13, <1>5, <1>6, EmptySeq DEF Joined
  <2>2. y[Len(g) + k] = h[k]
    BY <2>1, <1>5, <1>6 DEF Joined
  <2>3. y # <<>>
    BY <2>1, <1>6, EmptySeq
  <2>4. ASSUME g # <<>>
        PROVE  ~IsEnd(g[Len(g)])
    <3>1. Len(g) \in 1 .. Len(z) - 1 /\ Len(g) \in 1 .. Len(g)
      BY <2>1, <2>4, <1>6, EmptySeq
    <3>2. g[Len(g)] = z[Len(g)]
      BY <3>1, <1>2, <1>4 DEF Cuts
    <3> QED BY <3>1, <3>2, <1>7
  <2> QED BY <2>1, <2>2, <2>3, <2>4 DEF HasEnd
<1>14. Shown(h) \in Seq(Kinds \ {"error"})
  <2>1. \A x \in Seq(Kinds) : Joined(x, x, <<>>)
    BY EmptySeq DEF Joined
  <2>2. Joined(h, h, <<>>) /\ <<>> \in Seq(Kinds)
    BY <2>1, EmptySeq
  <2> QED BY <2>2, ShownJoined
<1>15. Handles(s, h, StatusAfter(h))
  BY <1>1, <1>5 DEF Reads
<1>16. received' = [received EXCEPT ![s] = @ \/ Holds("complete", h)]
  BY <1>15 DEF Handles
<1> QED BY <1>4, <1>9, <1>10, <1>11, <1>12, <1>13, <1>14, <1>15, <1>16

\* The hook follows the stream of its owner.
LEMMA FollowsKept ==
  ASSUME IInv, Next, mounted', ~exposed'
  PROVE  Follows'
<1>1. /\ TypeOK /\ Owned /\ MaxSubmits \in Nat
      /\ \A t \in Submissions : Wired(t)
  BY StreamAssumption DEF IInv
<1>2. /\ submits \in 0 .. MaxSubmits /\ owner \in 0 .. submits /\ aborted \subseteq 1 .. submits
      /\ stage \in [Submissions -> {"none", "token", "request", "open", "done", "cut"}]
      /\ signal \in [Submissions -> 0 .. submits] /\ got \in [Submissions -> Seq(Kinds)]
      /\ owner # 0 => owner \in Submissions
  <2>1. /\ submits \in 0 .. MaxSubmits /\ owner \in 0 .. submits /\ aborted \subseteq 1 .. submits
        /\ stage \in [Submissions -> {"none", "token", "request", "open", "done", "cut"}]
        /\ signal \in [Submissions -> 0 .. submits] /\ got \in [Submissions -> Seq(Kinds)]
    BY <1>1 DEF TypeOK
  <2>2. owner # 0 => owner \in Submissions
    BY <2>1, <1>1 DEF Submissions
  <2> QED BY <2>1, <2>2
<1>3. CASE Submit
  <2> DEFINE n == submits + 1
  <2>1. n \in Submissions /\ n # 0 /\ n > submits
    BY <1>1, <1>2, <1>3 DEF Submit, Submissions
  <2>2. got[n] = <<>>
    <3>1. stage[n] = "none" /\ sent[n] = <<>> /\ Wired(n)
      BY <2>1, <1>1 DEF Owned, Wired
    <3>2. got[n] \in Seq(Kinds) /\ Len(got[n]) <= 0
      BY <2>1, <1>2, <3>1, EmptySeq DEF Wired
    <3>3. Len(got[n]) = 0
      BY <3>2, LenProperties
    <3> QED BY <3>2, <3>3, EmptySeq
  <2>3. /\ owner' = n /\ stage' = [stage EXCEPT ![n] = "token"] /\ got' = got
        /\ status' = "streaming" /\ events' = <<>> /\ error' = FALSE
    BY <1>3 DEF Submit
  <2> HIDE DEF n
  <2>4. stage'[n] = "token" /\ owner' # 0 /\ got'[n] = <<>>
    BY <2>1, <2>2, <2>3, <1>2
  <2>5. events' = Shown(got'[n]) /\ Outcome(got'[n]) = "streaming"
    BY <2>3, <2>4, NothingShown DEF Outcome, HasEnd
  <2>6. Outcome(got[owner])' = Outcome(got'[n]) /\ Shown(got[owner])' = Shown(got'[n])
    BY <2>3 DEF Outcome, HasEnd, Shown
  <2> QED BY <2>3, <2>4, <2>5, <2>6 DEF Follows
<1>4. CASE Reset
  BY <1>4 DEF Reset, Follows
<1>5. CASE Unmount
  BY <1>5 DEF Unmount
<1>6. ASSUME NEW s \in Submissions,
             \/ Asks(s) \/ Opens(s) \/ Fails(s) \/ Aborts(s) \/ Done(s)
             \/ \E n \in 1 .. Len(wire[s]) : Reads(s, n)
             \/ Closes(s) \/ \E m \in Kinds : Sends(s, m)
      PROVE  mounted /\ ~exposed
  <2>1. UNCHANGED <<mounted, exposed>>
    BY <1>6 DEF Asks, Opens, Fails, Caught, Aborts, Done, Reads, Handles, Writes, Closes, Sends, Untouched, hookVars
  <2> QED BY <2>1
<1>7. ASSUME mounted, ~exposed
      PROVE  Follows /\ owner \notin aborted
  BY <1>1, <1>7 DEF IInv, Owned
<1>8. ASSUME NEW s \in Submissions, Running(s, aborted), ~exposed
      PROVE  s = owner
  BY <1>8, <1>1 DEF Owned
<1>9. ASSUME NEW s \in Submissions, Asks(s)
      PROVE  Follows'
  <2>1. mounted /\ ~exposed /\ Follows /\ owner \notin aborted
    BY <1>6, <1>7, <1>9
  <2>2. s = owner
    BY <2>1, <1>8, <1>9 DEF Asks, Running
  <2>3. ctrl = owner /\ s # 0
    BY <2>2, <1>1, <1>9 DEF Owned, Asks
  <2>4. /\ stage' = [stage EXCEPT ![s] = "request"] /\ signal' = [signal EXCEPT ![s] = s]
        /\ UNCHANGED <<status, events, error, owner, got>> /\ stage[s] = "token"
    BY <2>1, <2>2, <2>3, <1>9 DEF Asks, Moves, Untouched, hookVars
  <2>5. stage'[s] = "request" /\ signal'[s] = s
    BY <2>4, <1>2
  <2>6. Outcome(got[owner])' = Outcome(got[owner]) /\ Shown(got[owner])' = Shown(got[owner])
    BY <2>4 DEF Outcome, HasEnd, Shown
  <2> QED BY <2>1, <2>2, <2>3, <2>4, <2>5, <2>6 DEF Follows
<1>10. ASSUME NEW s \in Submissions, Opens(s)
       PROVE  Follows'
  <2>1. mounted /\ ~exposed /\ Follows
    BY <1>6, <1>7, <1>10
  <2>2. s = owner
    BY <2>1, <1>8, <1>10 DEF Opens, Running, Live
  <2>3. /\ stage' = [stage EXCEPT ![s] = "open"] /\ stage[s] = "request"
        /\ UNCHANGED <<status, events, error, owner, got, signal>>
    BY <1>10 DEF Opens, Moves, Untouched, hookVars
  <2>4. stage'[s] = "open"
    BY <2>3, <1>2
  <2>5. Outcome(got[owner])' = Outcome(got[owner]) /\ Shown(got[owner])' = Shown(got[owner])
    BY <2>3 DEF Outcome, HasEnd, Shown
  <2> QED BY <2>1, <2>2, <2>3, <2>4, <2>5 DEF Follows
<1>11. ASSUME NEW s \in Submissions, Fails(s)
       PROVE  Follows'
  <2>1. mounted /\ ~exposed /\ Follows
    BY <1>6, <1>7, <1>11
  <2>2. s = owner /\ s # 0
    BY <2>1, <1>8, <1>11 DEF Fails, Submissions
  <2>3. /\ stage' = [stage EXCEPT ![s] = "cut"]
        /\ status' = "error" /\ events' = events /\ error' = TRUE /\ UNCHANGED <<owner, got>>
    BY <2>1, <1>11 DEF Fails, Caught, CaughtStatus, Writes, Moves
  <2>4. stage'[s] = "cut"
    BY <2>3, <1>2
  <2>5. Shown(got[owner])' = Shown(got[owner])
    BY <2>3 DEF Shown
  <2> QED BY <2>1, <2>2, <2>3, <2>4, <2>5 DEF Follows
<1>12. ASSUME NEW s \in Submissions, Aborts(s)
       PROVE  Follows'
  <2>1. mounted /\ ~exposed /\ Follows /\ owner \notin aborted
    BY <1>6, <1>7, <1>12
  <2>2. s # owner
    BY <2>1, <1>12 DEF Aborts, Live, Follows, Submissions
  <2>3. /\ stage' = [stage EXCEPT ![s] = "cut"]
        /\ UNCHANGED <<status, events, error, owner, got, signal>>
    BY <1>12 DEF Aborts, Moves, Untouched, hookVars
  <2>4. owner # 0 => stage'[owner] = stage[owner]
    BY <2>2, <2>3, <1>2
  <2>5. Outcome(got[owner])' = Outcome(got[owner]) /\ Shown(got[owner])' = Shown(got[owner])
    BY <2>3 DEF Outcome, HasEnd, Shown
  <2> QED BY <2>1, <2>3, <2>4, <2>5 DEF Follows
<1>13. ASSUME NEW s \in Submissions, Done(s)
       PROVE  Follows'
  <2>1. mounted /\ ~exposed /\ Follows
    BY <1>6, <1>7, <1>13
  <2>2. s = owner /\ s # 0 /\ stage[s] = "open"
    BY <2>1, <1>8, <1>13 DEF Done, Running, Live, Submissions
  <2>3. processSSELines(buffer[s]) = <<>> /\ got[s] = sent[s] /\ HasEnded(s) /\ got' = got
    BY <1>1, <1>13, DoneStep
  <2>4. status = Outcome(got[s]) /\ status = sent[s][Len(sent[s])] /\ IsEnd(status)
    BY <2>1, <2>2, <2>3 DEF Follows, Outcome, HasEnd, HasEnded
  <2>5. StatusAfter(<<>>) = status
    <3>1. <<>> \in Seq(Kinds) /\ \A i \in 1 .. Len(<<>>) - 1 : ~IsEnd(<<>>[i])
      BY EmptySeq
    <3> QED BY <3>1, StatusOf
  <2>6. Finished(s, status) = status
    BY <2>4 DEF Finished, IsEnd
  <2>7. Handles(s, <<>>, status) /\ stage' = [stage EXCEPT ![s] = "done"]
    BY <2>3, <2>5, <2>6, <1>13 DEF Done, Moves
  <2>8. events \o Shown(<<>>) = events
    BY NothingShown, ConcatEmptySeq, <1>1 DEF TypeOK
  <2>9. ~Holds("error", <<>>)
    BY EmptySeq DEF Holds
  <2>10. /\ status' = status /\ events' = events /\ error' = error /\ owner' = owner
    BY <2>1, <2>7, <2>8, <2>9, <1>1 DEF Handles, Writes, TypeOK
  <2>11. stage'[s] = "done"
    BY <2>7, <1>2
  <2>12. Outcome(got[owner])' = Outcome(got[owner]) /\ Shown(got[owner])' = Shown(got[owner])
    BY <2>3, <2>10 DEF Outcome, HasEnd, Shown
  <2> QED BY <2>1, <2>2, <2>10, <2>11, <2>12 DEF Follows
<1>14. ASSUME NEW s \in Submissions, NEW n \in 1 .. Len(wire[s]), Reads(s, n)
       PROVE  Follows'
  <2>1. mounted /\ ~exposed /\ Follows
    BY <1>6, <1>7, <1>14
  <2>2. s = owner /\ s # 0 /\ stage[s] = "open" /\ stage' = stage /\ signal' = signal
    BY <2>1, <1>8, <1>14 DEF Reads, Running, Live, Submissions
  <2>3. PICK h \in Seq(Kinds) :
           /\ Handles(s, h, StatusAfter(h)) /\ got'[s] = got[s] \o h /\ Shown(h) \in Seq(Kinds \ {"error"})
           /\ StatusAfter(h) = IF h # <<>> /\ IsEnd(h[Len(h)]) THEN h[Len(h)] ELSE status
           /\ Holds("error", h) <=> h # <<>> /\ h[Len(h)] = "error"
           /\ h = <<>> => got'[s] = got[s]
           /\ h # <<>> => ~HasEnd(got[s]) /\ got'[s] # <<>> /\ got'[s][Len(got'[s])] = h[Len(h)]
           /\ received' = [received EXCEPT ![s] = @ \/ Holds("complete", h)]
    BY <1>1, <1>14, ReadShows
  <2>4. /\ status' = StatusAfter(h) /\ events' = events \o Shown(h) /\ error' = (error \/ Holds("error", h))
        /\ owner' = owner
    BY <2>1, <2>3 DEF Handles, Writes
  <2>5. events' = Shown(got'[s])
    <3>1. events = Shown(got[s]) /\ got[s] \in Seq(Kinds)
      BY <2>1, <2>2, <1>2 DEF Follows
    <3>2. Shown(got[s] \o h) = Shown(got[s]) \o Shown(h)
      BY <3>1, ShownConcat
    <3> QED BY <2>3, <2>4, <3>1, <3>2
  <2>6. status' = Outcome(got'[s])
    <3>1. status = Outcome(got[s])
      BY <2>1, <2>2 DEF Follows
    <3>2. CASE h = <<>>
      BY <3>1, <3>2, <2>3, <2>4
    <3>3. CASE h # <<>>
      <4>1. status = "streaming"
        BY <3>1, <3>3, <2>3 DEF HasEnd, Outcome
      <4> QED BY <4>1, <3>3, <2>3, <2>4 DEF Outcome, HasEnd
    <3> QED BY <3>2, <3>3
  <2>7. error' <=> status' = "error"
    <3>1. error <=> status = "error"
      BY <2>1, <2>2 DEF Follows
    <3>2. CASE h = <<>>
      BY <3>1, <3>2, <2>3, <2>4
    <3>3. CASE h # <<>>
      <4>1. status = "streaming" /\ ~error
        BY <3>1, <3>3, <2>1, <2>2, <2>3 DEF HasEnd, Outcome, Follows
      <4> QED BY <4>1, <3>3, <2>3, <2>4 DEF IsEnd
    <3> QED BY <3>2, <3>3
  <2>8. Outcome(got[owner])' = Outcome(got'[s]) /\ Shown(got[owner])' = Shown(got'[s])
    BY <2>2, <2>4 DEF Outcome, HasEnd, Shown
  <2>9. signal[s] = s
    BY <2>1, <2>2 DEF Follows
  <2> QED BY <2>2, <2>4, <2>5, <2>6, <2>7, <2>8, <2>9 DEF Follows
<1>15. ASSUME NEW s \in Submissions, Closes(s) \/ \E m \in Kinds : Sends(s, m)
       PROVE  Follows'
  <2>1. mounted /\ ~exposed /\ Follows
    BY <1>6, <1>7, <1>15
  <2>2. UNCHANGED <<stage, signal, got, status, events, error, owner>>
    BY <1>15 DEF Closes, Sends, Untouched, hookVars
  <2>3. Outcome(got[owner])' = Outcome(got[owner]) /\ Shown(got[owner])' = Shown(got[owner])
    BY <2>2 DEF Outcome, HasEnd, Shown
  <2> QED BY <2>1, <2>2, <2>3 DEF Follows
<1> QED BY <1>1, <1>3, <1>4, <1>5, <1>9, <1>10, <1>11, <1>12, <1>13, <1>14, <1>15, StepCases

\* Every variable keeps its type.
LEMMA TypeKept ==
  ASSUME IInv, Next
  PROVE  TypeOK'
<1>1. /\ TypeOK /\ Owned /\ MaxSubmits \in Nat
      /\ \A t \in Submissions : Wired(t)
  BY StreamAssumption DEF IInv
<1>2. CASE Submit
  <2>1. submits + 1 \in Submissions /\ submits + 1 \in 1 .. submits + 1 /\ submits + 1 \in 0 .. MaxSubmits
    BY <1>1, <1>2 DEF Submit, TypeOK, Submissions
  <2>2. /\ submits' \in 0 .. MaxSubmits /\ ctrl' \in 0 .. submits' /\ owner' \in 0 .. submits'
        /\ exposed' \in BOOLEAN /\ mounted' \in BOOLEAN /\ aborted' \subseteq 1 .. submits'
    BY <1>1, <1>2, <2>1 DEF Submit, TypeOK
  <2>3. /\ stage' \in [Submissions -> {"none", "token", "request", "open", "done", "cut"}]
        /\ signal' \in [Submissions -> 0 .. submits']
    <3>1. \A x \in 0 .. submits : x \in 0 .. submits + 1
      BY <1>1 DEF TypeOK
    <3> QED BY <1>1, <1>2, <2>1, <3>1 DEF Submit, TypeOK
  <2>4. status' = "streaming" /\ error' = FALSE /\ events' \in Seq(Kinds \ {"error"})
    BY <1>2, EmptySeq DEF Submit
  <2>5. UNCHANGED <<wire, closed, buffer, received, sent, got>>
    BY <1>2 DEF Submit
  <2> QED BY <1>1, <2>2, <2>3, <2>4, <2>5 DEF TypeOK
<1>3. CASE Reset
  <2>1. /\ aborted' \subseteq 1 .. submits
        /\ exposed' \in BOOLEAN
        /\ events' \in Seq(Kinds \ {"error"})
    BY <1>1, <1>3, EmptySeq DEF Reset, AfterAbort, TypeOK
  <2>2. /\ status' = "idle" /\ error' = FALSE /\ submits' \in 0 .. MaxSubmits /\ ctrl' \in 0 .. submits'
        /\ owner' \in 0 .. submits' /\ aborted' \subseteq 1 .. submits' /\ mounted' \in BOOLEAN
    BY <1>1, <1>3, <2>1 DEF Reset, TypeOK
  <2>3. submits' = submits /\ UNCHANGED streamVars
    BY <1>3 DEF Reset
  <2> QED BY <1>1, <2>1, <2>2, <2>3 DEF TypeOK, streamVars
<1>4. CASE Unmount
  <2>1. aborted' \subseteq 1 .. submits
    BY <1>1, <1>4 DEF Unmount, AfterAbort, TypeOK
  <2> QED BY <1>1, <1>4, <2>1 DEF Unmount, TypeOK, streamVars
<1>5. ASSUME NEW s \in Submissions, Asks(s) \/ Opens(s) \/ Fails(s) \/ Aborts(s)
      PROVE  TypeOK'
  <2>1. UNCHANGED <<wire, closed, buffer, received, sent, got, ctrl, aborted, mounted, submits, owner, exposed>>
    BY <1>5 DEF Asks, Opens, Fails, Caught, Aborts, Writes, Untouched, hookVars
  <2>2. \/ UNCHANGED <<status, events, error>>
        \/ status' = "error" /\ events' = events /\ error' = TRUE
    BY <1>5 DEF Asks, Opens, Fails, Caught, CaughtStatus, Aborts, Writes, Untouched, hookVars
  <2>3. /\ stage' \in [Submissions -> {"none", "token", "request", "open", "done", "cut"}]
        /\ signal' \in [Submissions -> 0 .. submits]
    <3>1. \E to \in {"request", "open", "cut"} : stage' = [stage EXCEPT ![s] = to]
      BY <1>5 DEF Asks, Opens, Fails, Caught, Aborts, Moves
    <3>2. signal' = signal \/ signal' = [signal EXCEPT ![s] = ctrl]
      BY <1>5 DEF Asks, Opens, Fails, Caught, Aborts
    <3> QED BY <1>1, <3>1, <3>2 DEF TypeOK
  <2> QED BY <1>1, <2>1, <2>2, <2>3 DEF TypeOK
<1>6. ASSUME NEW s \in Submissions, NEW n \in 1 .. Len(wire[s]), Reads(s, n)
      PROVE  TypeOK'
  <2>1. /\ got'[s] \in Seq(Kinds) /\ wire'[s] \in Seq(Byte)
        /\ buffer'[s] \in Seq(Byte) /\ Len(buffer'[s]) < 4 /\ LastBoundary(buffer'[s]) = 0
    BY <1>1, <1>6, ReadStep
  <2>2. PICK h \in Seq(Kinds) :
           /\ Handles(s, h, StatusAfter(h)) /\ got'[s] = got[s] \o h /\ Shown(h) \in Seq(Kinds \ {"error"})
           /\ StatusAfter(h) = IF h # <<>> /\ IsEnd(h[Len(h)]) THEN h[Len(h)] ELSE status
           /\ Holds("error", h) <=> h # <<>> /\ h[Len(h)] = "error"
           /\ h = <<>> => got'[s] = got[s]
           /\ h # <<>> => ~HasEnd(got[s]) /\ got'[s] # <<>> /\ got'[s][Len(got'[s])] = h[Len(h)]
           /\ received' = [received EXCEPT ![s] = @ \/ Holds("complete", h)]
    BY <1>1, <1>6, ReadShows
  <2>3. /\ status' \in {"idle", "streaming", "complete", "error"} /\ error' \in BOOLEAN
        /\ events' \in Seq(Kinds \ {"error"})
    <3>1. StatusAfter(h) \in {"idle", "streaming", "complete", "error"}
      BY <1>1, <2>2 DEF IsEnd, TypeOK
    <3>2. events \in Seq(Kinds \ {"error"}) /\ error \in BOOLEAN
      BY <1>1 DEF TypeOK
    <3>3. events \o Shown(h) \in Seq(Kinds \ {"error"})
      BY <2>2, <3>2, ConcatProperties
    <3>4. (error \/ Holds("error", h)) \in BOOLEAN
      OBVIOUS
    <3>5. \/ UNCHANGED <<status, events, error>>
          \/ /\ status' = StatusAfter(h) /\ events' = events \o Shown(h)
             /\ error' = (error \/ Holds("error", h))
      BY <2>2 DEF Handles, Writes
    <3> QED BY <1>1, <3>1, <3>3, <3>4, <3>5 DEF TypeOK
  <2>4. UNCHANGED <<stage, signal, closed, sent, ctrl, aborted, mounted, submits, owner, exposed>>
    BY <1>6 DEF Reads, Handles, Writes
  <2>5. /\ wire' \in [Submissions -> Seq(Byte)] /\ buffer' \in [Submissions -> Seq(Byte)]
        /\ got' \in [Submissions -> Seq(Kinds)]
        /\ \A t \in Submissions : Len(buffer'[t]) < 4 /\ LastBoundary(buffer'[t]) = 0
    <3>1. PICK g, w, b : /\ wire' = [wire EXCEPT ![s] = w] /\ buffer' = [buffer EXCEPT ![s] = b]
                         /\ got' = [got EXCEPT ![s] = g]
      BY <1>6 DEF Reads, Handles
    <3>2. g \in Seq(Kinds) /\ w \in Seq(Byte) /\ b \in Seq(Byte)
      BY <1>1, <2>1, <3>1 DEF TypeOK
    <3>3. \A t \in Submissions : t # s => buffer'[t] = buffer[t]
      BY <1>1, <3>1 DEF TypeOK
    <3> QED BY <1>1, <2>1, <3>1, <3>2, <3>3 DEF TypeOK
  <2>6. received' \in [Submissions -> BOOLEAN]
    BY <1>1, <2>2 DEF TypeOK
  <2> QED BY <1>1, <2>3, <2>4, <2>5, <2>6 DEF TypeOK
<1>7. ASSUME NEW s \in Submissions, Done(s)
      PROVE  TypeOK'
  <2>1. processSSELines(buffer[s]) = <<>> /\ got' = got /\ received' = received /\ buffer' = [buffer EXCEPT ![s] = <<>>]
    BY <1>1, <1>7, DoneStep
  <2>2. StatusAfter(<<>>) = status
    <3>1. <<>> \in Seq(Kinds) /\ \A i \in 1 .. Len(<<>>) - 1 : ~IsEnd(<<>>[i])
      BY EmptySeq
    <3> QED BY <3>1, StatusOf
  <2>3. Handles(s, <<>>, Finished(s, status))
    BY <1>7, <2>1, <2>2 DEF Done
  <2>4. events \o Shown(<<>>) = events
    BY NothingShown, ConcatEmptySeq, <1>1 DEF TypeOK
  <2>5. ~Holds("error", <<>>)
    BY EmptySeq DEF Holds
  <2>6. /\ events' = events /\ error' = error /\ status' \in {status, "complete"}
        /\ UNCHANGED <<ctrl, aborted, mounted, submits, owner, exposed>>
    BY <1>1, <2>3, <2>4, <2>5 DEF Handles, Writes, Finished, TypeOK
  <2>7. stage' = [stage EXCEPT ![s] = "done"] /\ UNCHANGED <<signal, wire, closed, sent>>
    BY <1>7 DEF Done, Moves
  <2>8. <<>> \in Seq(Byte) /\ Len(<<>>) = 0 /\ LastBoundary(<<>>) = 0
    <3>1. \A k \in 2 .. 0 : FALSE
      OBVIOUS
    <3>2. <<>> \in Seq(Byte) /\ Len(<<>>) = 0
      BY EmptySeq
    <3> QED BY <3>1, <3>2 DEF LastBoundary, Boundaries
  <2>9. \A t \in Submissions : Len(buffer'[t]) < 4 /\ LastBoundary(buffer'[t]) = 0
    <3>1. buffer'[s] = <<>> /\ \A t \in Submissions : t # s => buffer'[t] = buffer[t]
      BY <1>1, <2>1 DEF TypeOK
    <3>2. \A t \in Submissions : Len(buffer[t]) < 4 /\ LastBoundary(buffer[t]) = 0
      BY <1>1 DEF TypeOK
    <3>3. Len(buffer'[s]) < 4 /\ LastBoundary(buffer'[s]) = 0
      BY <2>8, <3>1
    <3> QED BY <3>1, <3>2, <3>3
  <2>10. buffer' \in [Submissions -> Seq(Byte)]
    BY <1>1, <2>1, <2>8 DEF TypeOK
  <2>11. stage' \in [Submissions -> {"none", "token", "request", "open", "done", "cut"}]
    BY <1>1, <2>7 DEF TypeOK
  <2> QED BY <1>1, <2>1, <2>6, <2>7, <2>9, <2>10, <2>11 DEF TypeOK
<1>8. ASSUME NEW s \in Submissions, Closes(s)
      PROVE  TypeOK'
  <2>1. closed' = [closed EXCEPT ![s] = TRUE]
        /\ UNCHANGED <<hookVars, exposed, stage, signal, wire, buffer, received, sent, got>>
    BY <1>8 DEF Closes, Untouched
  <2> QED BY <1>1, <2>1 DEF TypeOK, hookVars
<1>9. ASSUME NEW s \in Submissions, NEW m \in Kinds, Sends(s, m)
      PROVE  TypeOK'
  <2>1. sent'[s] \in Seq(Kinds) /\ wire'[s] \in Seq(Byte)
    BY <1>1, <1>9, SendStep
  <2>2. PICK y, w : sent' = [sent EXCEPT ![s] = y] /\ wire' = [wire EXCEPT ![s] = w]
    BY <1>9 DEF Sends
  <2>3. y \in Seq(Kinds) /\ w \in Seq(Byte)
    BY <1>1, <2>1, <2>2 DEF TypeOK
  <2>4. sent' \in [Submissions -> Seq(Kinds)] /\ wire' \in [Submissions -> Seq(Byte)]
    BY <1>1, <2>2, <2>3 DEF TypeOK
  <2>5. UNCHANGED <<hookVars, exposed, stage, signal, closed, buffer, received, got>>
    BY <1>9 DEF Sends, Untouched
  <2> QED BY <1>1, <2>4, <2>5 DEF TypeOK, hookVars
<1> QED BY <1>1, <1>2, <1>3, <1>4, <1>5, <1>6, <1>7, <1>8, <1>9, StepCases
-----------------------------------------------------------------------------
\* The invariant holds initially.
LEMMA InitIInv ==
  Init => IInv
<1> SUFFICES ASSUME Init PROVE IInv
  OBVIOUS
<1>1. /\ \A A : <<>> \in Seq(A)
      /\ Len(<<>>) = 0
  BY EmptySeq
<1>2. LastBoundary(<<>>) = 0
  <2>1. \A k \in 2 .. 0 : FALSE
    OBVIOUS
  <2> QED BY <2>1, <1>1 DEF LastBoundary, Boundaries
<1>3. TypeOK
  <2>1. /\ status = "idle" /\ error = FALSE /\ events \in Seq(Kinds \ {"error"})
        /\ submits \in 0 .. MaxSubmits /\ ctrl \in 0 .. submits /\ owner \in 0 .. submits
        /\ aborted \subseteq 1 .. submits /\ mounted \in BOOLEAN /\ exposed \in BOOLEAN
    <3>1. events \in Seq(Kinds \ {"error"})
      BY <1>1 DEF Init
    <3>2. 0 \in 0 .. MaxSubmits /\ 0 \in 0 .. 0
      BY StreamAssumption
    <3>3. /\ status = "idle" /\ error = FALSE /\ submits = 0 /\ ctrl = 0 /\ owner = 0
          /\ aborted = {} /\ mounted = TRUE /\ exposed = FALSE
      BY DEF Init
    <3> QED BY <3>1, <3>2, <3>3
  <2>2. /\ stage \in [Submissions -> {"none", "token", "request", "open", "done", "cut"}]
        /\ signal \in [Submissions -> 0 .. submits]
        /\ closed \in [Submissions -> BOOLEAN] /\ received \in [Submissions -> BOOLEAN]
    BY DEF Init
  <2>3. /\ wire \in [Submissions -> Seq(Byte)] /\ buffer \in [Submissions -> Seq(Byte)]
        /\ sent \in [Submissions -> Seq(Kinds)] /\ got \in [Submissions -> Seq(Kinds)]
    BY <1>1 DEF Init
  <2>4. \A s \in Submissions : Len(buffer[s]) < 4 /\ LastBoundary(buffer[s]) = 0
    <3>1. \A s \in Submissions : buffer[s] = <<>>
      BY DEF Init
    <3>2. Len(<<>>) < 4
      BY <1>1
    <3> QED BY <1>2, <3>1, <3>2
  <2> QED BY <2>1, <2>2, <2>3, <2>4 DEF TypeOK
<1>4. ASSUME NEW s \in Submissions
      PROVE  Wired(s)
  <2>1. /\ sent[s] = <<>> /\ got[s] = <<>> /\ wire[s] = <<>> /\ buffer[s] = <<>> /\ ~closed[s]
        /\ ~received[s] /\ stage[s] = "none"
    BY DEF Init
  <2>2. SubSeq(<<>>, 1, 0) = <<>>
    BY <1>1, SubSeqEmpty
  <2>3. Rest(s) = <<>>
    BY <1>1, <2>1, SubSeqEmpty DEF Rest
  <2>4. Carries(<<>>, <<>>, 0)
    BY <1>1 DEF Carries
  <2>5. ~Holds("complete", <<>>)
    BY <1>1 DEF Holds
  <2> QED BY <1>1, <2>1, <2>2, <2>3, <2>4, <2>5 DEF Wired
<1>5. Owned
  BY DEF Init, Owned, Running
<1>6. Follows
  BY DEF Init, Follows
<1> QED BY <1>3, <1>4, <1>5, <1>6 DEF IInv

\* Every step preserves the invariant.
LEMMA NextIInv ==
  IInv /\ [Next]_vars => IInv'
<1> SUFFICES ASSUME IInv, [Next]_vars PROVE IInv'
  OBVIOUS
<1>1. CASE Next
  BY <1>1, TypeKept, WiredKept, OwnedKept, FollowsKept DEF IInv
<1>2. CASE UNCHANGED vars
  <2> USE <1>2 DEF vars, hookVars, streamVars
  <2>1. TypeOK'
    BY DEF IInv, TypeOK
  <2>2. \A s \in Submissions : Wired(s)'
    BY Frame DEF IInv
  <2>3. Owned'
    BY DEF IInv, Owned, Running
  <2>4. (mounted /\ ~exposed => Follows)'
    BY DEF IInv, Follows, Outcome, HasEnd, Shown
  <2> QED BY <2>1, <2>2, <2>3, <2>4 DEF IInv
<1> QED BY <1>1, <1>2

\* The invariant of the streams is inductive.
THEOREM StreamInductive == Spec => []IInv
BY InitIInv, NextIInv, PTL DEF Spec

\* Every variable has its type: the buffer never keeps a whole message.
THEOREM TypeSafe == Spec => []TypeOK
<1>1. IInv => TypeOK
  BY DEF IInv
<1> QED BY <1>1, StreamInductive, PTL

\* As long as no earlier stream was left running by a submission (exposed), the hook
\* shows what its submission was sent, and nothing after a reset.
THEOREM StreamSafe == Spec => []ShowsItsStream
<1>1. IInv => ShowsItsStream
  <2> SUFFICES ASSUME IInv, mounted, ~exposed, owner # 0
               PROVE  status = "complete" => Holds("complete", got[owner])
    BY DEF IInv, ShowsItsStream, Follows
  <2>1. Follows /\ owner \in Submissions
    BY StreamAssumption DEF IInv, TypeOK, Submissions
  <2>2. ASSUME status = "complete"
        PROVE  Holds("complete", got[owner])
    <3>1. got[owner] # <<>> /\ got[owner][Len(got[owner])] = "complete" /\ got[owner] \in Seq(Kinds)
      BY <2>1, <2>2 DEF Follows, Outcome, HasEnd, IInv, TypeOK
    <3>2. Len(got[owner]) \in 1 .. Len(got[owner])
      BY <3>1, EmptySeq
    <3> QED BY <3>1, <3>2 DEF Holds
  <2> QED BY <2>2
<1> QED BY <1>1, StreamInductive, PTL
-----------------------------------------------------------------------------
(* The reader implements the event feed.                                   *)

\* A step of the streams is a step of the feed or none.
LEMMA FeedStep ==
  ASSUME IInv, [Next]_vars
  PROVE  [Feed!Next]_Feed!vars
<1> USE DEF Feed!vars
<1>1. /\ TypeOK /\ \A t \in Submissions : Wired(t)
      /\ stage \in [Submissions -> {"none", "token", "request", "open", "done", "cut"}]
      /\ got \in [Submissions -> Seq(Kinds)] /\ sent \in [Submissions -> Seq(Kinds)]
      /\ submits \in 0 .. MaxSubmits /\ MaxSubmits \in Nat
  BY StreamAssumption DEF IInv, TypeOK
<1>2. \A t \in Submissions : /\ FeedState[t] = CASE stage[t] = "done" -> "ended"
                                                 [] stage[t] = "cut"  -> "cut"
                                                 [] OTHER             -> "open"
                             /\ FeedState'[t] = CASE stage'[t] = "done" -> "ended"
                                                  [] stage'[t] = "cut"  -> "cut"
                                                  [] OTHER              -> "open"
  BY DEF FeedState
<1>3. ASSUME \A t \in Submissions : stage'[t] \in {"done", "cut"} \/ stage[t] \in {"done", "cut"} => stage'[t] = stage[t]
      PROVE  FeedState' = FeedState
  BY <1>3 DEF FeedState
<1>4. CASE Submit
  <2>1. submits + 1 \in Submissions /\ submits + 1 > submits
    BY <1>1, <1>4 DEF Submit, Submissions
  <2>2. stage[submits + 1] = "none"
    BY <2>1 DEF IInv, Owned
  <2>3. stage' = [stage EXCEPT ![submits + 1] = "token"] /\ sent' = sent /\ got' = got
    BY <1>4 DEF Submit
  <2>4. FeedState' = FeedState
    BY <1>1, <1>3, <2>1, <2>2, <2>3
  <2> QED BY <2>3, <2>4
<1>5. CASE Reset \/ Unmount \/ UNCHANGED vars
  <2>1. stage' = stage /\ sent' = sent /\ got' = got
    BY <1>5 DEF Reset, Unmount, vars, streamVars
  <2> QED BY <1>3, <2>1
<1>6. ASSUME NEW s \in Submissions, stage[s] \in {"token", "request", "open"}, sent' = sent, got' = got,
             stage' = [stage EXCEPT ![s] = "cut"]
      PROVE  Feed!Next
  <2>1. FeedState[s] = "open"
    BY <1>2, <1>6
  <2>2. FeedState' = [FeedState EXCEPT ![s] = "cut"]
    BY <1>1, <1>6 DEF FeedState
  <2> QED BY <2>1, <2>2, <1>6 DEF Feed!Next, Feed!Cut
<1>7. ASSUME NEW s \in Submissions, Asks(s) \/ Opens(s) \/ Fails(s) \/ Aborts(s)
      PROVE  [Feed!Next]_Feed!vars
  <2>1. sent' = sent /\ got' = got /\ stage[s] \in {"token", "request", "open"}
        /\ \E to \in {"request", "open", "cut"} : stage' = [stage EXCEPT ![s] = to]
    BY <1>7 DEF Asks, Opens, Fails, Caught, Running, Aborts, Moves
  <2>2. CASE stage' = [stage EXCEPT ![s] = "cut"]
    BY <1>6, <2>1, <2>2
  <2>3. CASE stage' = [stage EXCEPT ![s] = "request"] \/ stage' = [stage EXCEPT ![s] = "open"]
    <3>1. FeedState' = FeedState
      BY <1>1, <1>3, <2>1, <2>3
    <3> QED BY <2>1, <3>1
  <2> QED BY <2>1, <2>2, <2>3
<1>8. ASSUME NEW s \in Submissions, NEW n \in 1 .. Len(wire[s]), Reads(s, n)
      PROVE  Feed!Next
  <2>1. PICK k \in 0 .. Len(Rest(s)) : got'[s] = SubSeq(sent[s], 1, Len(got[s]) + k)
    BY <1>1, <1>8, ReadStep
  <2>2. Len(got[s]) + k \in Len(got[s]) .. Len(sent[s])
    <3>1. Len(Rest(s)) = Len(sent[s]) - Len(got[s]) /\ Len(got[s]) \in 0 .. Len(sent[s]) /\ Len(sent[s]) \in Nat
      BY <1>1, RestOf
    <3> QED BY <3>1
  <2>3. PICK g : got' = [got EXCEPT ![s] = g]
    BY <1>8 DEF Reads, Handles
  <2>4. got' = [got EXCEPT ![s] = SubSeq(sent[s], 1, Len(got[s]) + k)]
    BY <1>1, <2>1, <2>3
  <2>5. stage' = stage /\ sent' = sent /\ stage[s] = "open"
    BY <1>8 DEF Reads
  <2>6. FeedState' = FeedState /\ FeedState[s] = "open"
    BY <1>2, <1>3, <2>5
  <2> QED BY <2>2, <2>4, <2>5, <2>6 DEF Feed!Next, Feed!Show
<1>9. ASSUME NEW s \in Submissions, Done(s)
      PROVE  Feed!Next
  <2>1. got[s] = sent[s] /\ got' = got
    BY <1>1, <1>9, DoneStep
  <2>2. stage[s] = "open" /\ stage' = [stage EXCEPT ![s] = "done"] /\ sent' = sent
    BY <1>9 DEF Done, Moves
  <2>3. FeedState[s] = "open" /\ FeedState' = [FeedState EXCEPT ![s] = "ended"]
    BY <1>1, <2>2 DEF FeedState
  <2>4. /\ Len(sent[s]) \in Len(got[s]) .. Len(sent[s])
        /\ got' = [got EXCEPT ![s] = SubSeq(sent[s], 1, Len(sent[s]))]
    <3>1. sent[s] \in Seq(Kinds) /\ Len(sent[s]) \in Nat
      BY <1>1
    <3>2. SubSeq(sent[s], 1, Len(sent[s])) = got[s]
      BY <2>1, <3>1, SubSeqFull
    <3> QED BY <1>1, <2>1, <3>1, <3>2
  <2> QED BY <2>1, <2>2, <2>3, <2>4 DEF Feed!Next, Feed!Show
<1>10. ASSUME NEW s \in Submissions, Closes(s)
       PROVE  UNCHANGED Feed!vars
  <2>1. stage' = stage /\ sent' = sent /\ got' = got
    BY <1>10 DEF Closes
  <2> QED BY <1>3, <2>1
<1>11. ASSUME NEW s \in Submissions, NEW m \in Kinds, Sends(s, m)
       PROVE  Feed!Next
  <2>1. stage' = stage /\ sent' = [sent EXCEPT ![s] = Append(@, m)] /\ got' = got
    BY <1>11 DEF Sends
  <2>2. FeedState' = FeedState
    BY <1>3, <2>1
  <2> QED BY <2>1, <2>2 DEF Feed!Next, Feed!Send
<1> QED BY <1>1, <1>4, <1>5, <1>7, <1>8, <1>9, <1>10, <1>11, StepCases

\* Whatever the chunks, every event that was sent is shown, once and in order.
THEOREM FeedSafe == Spec => IsFeed
<1>1. Init => Feed!Init
  <2> SUFFICES ASSUME Init PROVE Feed!Init
    OBVIOUS
  <2>1. FeedState = [s \in Submissions |-> "open"]
    BY DEF Init, FeedState
  <2> QED BY <2>1 DEF Init, Feed!Init
<1>2. IInv /\ [Next]_vars => [Feed!Next]_Feed!vars
  BY FeedStep
<1> QED BY <1>1, <1>2, StreamInductive, PTL DEF Spec, IsFeed, Feed!Spec
=============================================================================
